--------------------------- MODULE MCClientParts ---------------------------
(***************************************************************************)
(* The parts of a client, and those of the proxy, that share no state with *)
(* one another, checked in one run: `part' says which of them a behaviour  *)
(* is about, the others stay in their initial state.                       *)
(***************************************************************************)
EXTENDS Triggers, HostEdges, Endpoints, GroupEdges, ProxyFeed, ProxyDoor

VARIABLE part

MCTrOwners == [port \in TrPorts |-> <<[service |-> "web", containers |-> {"c1"}]>>]

Config(ports, http, routes) == [ports |-> ports, http |-> http, routes |-> routes]
MCPfConfigs ==
    {Config({}, {"a", "b"}, {<<"a", <<"/">>, "a">>, <<"a", <<"/", "x">>, "b">>}),
     Config({<<"udp/1", "d">>}, {"a"}, {}),
     Config({<<"udp/1", "e">>, <<"tcp/2", "f">>}, {"a"}, {<<"b", <<"/", "x">>, "a">>})}
MCPfPaths == {<<"/">>, <<"/", "x">>, <<"/", "x", "y">>}

MCPdKind == [c \in PdConns |-> CASE c = "h" -> "http" [] c = "u" -> "udp" [] OTHER -> "tcp"]

\* Packets are alike until they come, networks until they are built: they are
\* taken in order.
InOrder ==
    /\ \A p, q \in TrPackets : p < q /\ trPacket[q].pc # "new" => trPacket[p].pc # "new"
    /\ \A m, n \in TrNets : m < n /\ trNet[n].st # "unused" => trNet[m].st # "unused"

\* Only the part a behaviour is about chooses its initial state.
MCInit ==
    /\ part \in {"triggers", "edges", "endpoints", "groups", "feed", "door"}
    /\ TriggersInit
    /\ HostInit /\ (part = "edges" \/ heRole = [n \in HeNets |-> "steer"])
    /\ EndpointsInit /\ (part = "endpoints" \/ epMode = "local")
    /\ GroupInit
    /\ FeedInit
    /\ DoorInit /\ (part = "door" \/ pdMap = "a")

MCNext ==
    /\ \/ part = "triggers" /\ TriggersNext /\ InOrder'
          /\ UNCHANGED <<heVars, epVars, geVars, pfVars, pdVars>>
       \/ part = "edges" /\ HostNext
          /\ UNCHANGED <<trVars, epVars, geVars, pfVars, pdVars>>
       \/ part = "endpoints" /\ EndpointsNext
          /\ UNCHANGED <<trVars, heVars, geVars, pfVars, pdVars>>
       \/ part = "groups" /\ GroupNext
          /\ UNCHANGED <<trVars, heVars, epVars, pfVars, pdVars>>
       \/ part = "feed" /\ FeedNext
          /\ UNCHANGED <<trVars, heVars, epVars, geVars, pdVars>>
       \/ part = "door" /\ DoorNext
          /\ UNCHANGED <<trVars, heVars, epVars, geVars, pfVars>>
    /\ UNCHANGED part

MCSpec == MCInit /\ [][MCNext]_<<trVars, heVars, epVars, geVars, pfVars, pdVars, part>>
=============================================================================
