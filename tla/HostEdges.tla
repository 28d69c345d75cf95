----------------------------- MODULE HostEdges -----------------------------
(***************************************************************************)
(* What one client installs on its host for a network, and takes back      *)
(* (handle_vxlan_setup, NetReady and handle_vxlan_teardown of              *)
(* control_channel.rs): the peer allowance of the firewall, the endpoint,  *)
(* and, by the role of this end, steering rules, forwarding rules or a     *)
(* line of /etc/hosts.                                                     *)
(*                                                                         *)
(* The messages of one network are handled in order (LifecycleTasks),      *)
(* those of different networks in any order.  The networks share one       *)
(* container, one peer and one host name, which is where they interfere.   *)
(* Every command may fail, and a list of commands may fail half way.       *)
(***************************************************************************)
EXTENDS Naturals, Sequences, FiniteSets

CONSTANT HeNets

HeRoles == {"steer", "forward", "hosts"}   \* forward: gateway and local forwarding
Nobody == "nobody"

ASSUME HeAssumption == Nobody \notin HeNets

VARIABLES heRole,      \* the role of this end of each network
          heStep,      \* how far the messages of the network are handled
          heSent,      \* networks whose teardown the server has sent
          heKernel,    \* rules and links in the kernel
          heSeen,      \* the rules a removal listed
          heOk,        \* the commands of the running handler succeeded so far
          heRecord,    \* EgressState, HostMappingsState: networks with a record
          hePeers,     \* FirewallPeers.by_id: networks that hold the peer
          heRefs, heAllowed,   \* its reference count, and the PEERS map
          heLine,      \* the network the name resolves to
          heStale,     \* networks of which something outlived a crash and the purge after it
          heOverwritten   \* history: live networks a late publication replaced

heVars == <<heRole, heStep, heSent, heKernel, heSeen, heOk, heRecord, hePeers, heRefs,
            heAllowed, heLine, heStale, heOverwritten>>

HostInit ==
    /\ heRole \in [HeNets -> HeRoles]
    /\ heStep = [n \in HeNets |-> "none"]
    /\ heSent = {} /\ heKernel = {} /\ heRecord = {} /\ hePeers = {} /\ heStale = {} /\ heOverwritten = {}
    /\ heSeen = [n \in HeNets |-> {}]
    /\ heOk = [n \in HeNets |-> TRUE]
    /\ heRefs = 0 /\ heAllowed = FALSE
    /\ heLine = Nobody

bypass == <<"bypass", "container">>
catch_all(n) == <<"catch_all", n>>
snat(n) == <<"snat", n>>
forward(n) == <<"forward", n>>
endpoint(n) == <<"endpoint", n>>

Goes(n, to) == heStep' = [heStep EXCEPT ![n] = to]

\* A handler that has recorded its network answers for what it found there.
TakesOver(n) == heStale' = IF n \in heRecord' THEN heStale \ {n} ELSE heStale

-----------------------------------------------------------------------------
(* FirewallPeers *)

PeersAdd(n) ==
    /\ hePeers' = hePeers \cup {n}
    /\ heRefs' = IF n \in hePeers THEN heRefs ELSE heRefs + 1
    /\ heAllowed' = (heRefs' > 0)

\* Variant: the allowance goes with the first network, not with the last.
PeersRemoveFirst(n) == hePeers' = hePeers \ {n} /\ heRefs' = 0 /\ heAllowed' = FALSE

PeersRemove(n) ==
    /\ hePeers' = hePeers \ {n}
    /\ heRefs' = IF n \in hePeers THEN heRefs - 1 ELSE heRefs
    /\ heAllowed' = (heRefs' > 0)

peerVars == <<hePeers, heRefs, heAllowed>>

-----------------------------------------------------------------------------
(* Setup *)

\* The server builds a network of this container only once it has sent the
\* teardown of the one before.
SetupArrives(n, ok) ==
    /\ heStep[n] = "none"
    /\ \A m \in HeNets \ {n} : heStep[m] \in {"none", "gone"} \/ m \in heSent
    /\ PeersAdd(n)
    /\ heOk' = [heOk EXCEPT ![n] = TRUE]
    /\ heOverwritten' = heOverwritten \ {n}
    /\ IF ok THEN /\ heKernel' = heKernel \cup {endpoint(n)}
                  /\ Goes(n, IF heRole[n] = "steer" THEN "list_install" ELSE "install")
             ELSE heKernel' = heKernel /\ Goes(n, "failed")
    /\ UNCHANGED <<heRole, heSent, heSeen, heRecord, heLine, heStale>>

\* Variant: the rules of every network of the container.
OwnedByContainer(n) == heKernel \cap ({bypass} \cup {catch_all(m) : m \in HeNets})

\* owned_steer_rules: bypass rules are found by the container's address alone.
Owned(n) == heKernel \cap {bypass, catch_all(n)}

Listing == [install |-> "list_install", rollback |-> "list_rollback", teardown |-> "list_teardown"]
Deleting == [install |-> "delete_install", rollback |-> "delete_rollback", teardown |-> "delete_teardown"]

\* remove_steer, which starts an install, undoes a failed one and serves the
\* teardown: list the rules ...
ListRules(n, ok) ==
    \E why \in {"install", "rollback", "teardown"} :
        /\ heStep[n] = Listing[why]
        /\ heSeen' = [heSeen EXCEPT ![n] = IF ok THEN Owned(n) ELSE {}]
        /\ heOk' = [heOk EXCEPT ![n] = ok]
        /\ IF ok THEN Goes(n, Deleting[why]) /\ heRecord' = heRecord
           ELSE IF why = "teardown" THEN Goes(n, "rest") /\ heRecord' = heRecord
           ELSE Goes(n, "failed") /\ heRecord' = heRecord \cup {n}
    /\ TakesOver(n)
    /\ UNCHANGED <<heRole, heSent, heKernel, peerVars, heLine, heOverwritten>>

\* ... and delete them; a rule somebody else deleted meanwhile is an error.
DeleteRules(n) ==
    \E why \in {"install", "rollback", "teardown"}, left \in SUBSET (heSeen[n] \cup {snat(n)}) :
        /\ heStep[n] = Deleting[why]
        /\ left \subseteq heKernel
        /\ heKernel' = heKernel \ ((heSeen[n] \cup {snat(n)}) \ left)
        /\ LET ok == left = {} /\ heSeen[n] \subseteq heKernel
           IN  /\ heOk' = [heOk EXCEPT ![n] = ok]
               /\ IF why = "teardown" THEN Goes(n, "rest") /\ heRecord' = heRecord
                  ELSE IF why = "install" /\ ok THEN Goes(n, "add_bypass") /\ heRecord' = heRecord
                  ELSE Goes(n, "failed") /\ heRecord' = heRecord \cup {n}
        /\ heSeen' = [heSeen EXCEPT ![n] = {}]
    /\ TakesOver(n)
    /\ UNCHANGED <<heRole, heSent, peerVars, heLine, heOverwritten>>

\* install_steer; the kernel refuses a rule it already has.
AddBypass(n, ok) ==
    /\ heStep[n] = "add_bypass"
    /\ heKernel' = IF ok THEN heKernel \cup {bypass} ELSE heKernel
    /\ heOk' = [heOk EXCEPT ![n] = ok /\ bypass \notin heKernel]
    /\ Goes(n, "add_route")
    /\ UNCHANGED <<heRole, heSent, heSeen, heRecord, peerVars, heLine, heStale, heOverwritten>>

\* Variant: only an installation that worked is recorded.
RecordedWhenInstalled(n, ok) == IF ok THEN heRecord \cup {n} ELSE heRecord

\* The record is made whether or not the installation worked.
Recorded(n, ok) == heRecord \cup {n}

AddRoute(n) ==
    \E added \in SUBSET {catch_all(n), snat(n)} :
        /\ heStep[n] = "add_route"
        /\ heKernel' = heKernel \cup added
        /\ IF heOk[n] /\ added = {catch_all(n), snat(n)}
           THEN Goes(n, "acked") /\ heRecord' = Recorded(n, TRUE)
           ELSE Goes(n, "list_rollback") /\ heRecord' = heRecord
    /\ TakesOver(n)
    /\ UNCHANGED <<heRole, heSent, heSeen, heOk, peerVars, heLine, heOverwritten>>

Others(n) == {m \in HeNets \ {n} : heStep[m] \notin {"none", "gone"} /\ m \notin heSent}

\* The file is read, edited and written back under its lock.
EditLine(n) == heLine' = n

\* add_host_mapping replaces the line of the name, whoever's it is.
Publish(n) ==
    /\ EditLine(n)
    /\ heOverwritten' = IF n \in heSent THEN heOverwritten \cup Others(n) ELSE heOverwritten

\* install_gateway_forward, install_local_forward: the old rules go first; a
\* failure may leave a part of the new ones.
InstallForward(n, ok) ==
    \E part \in BOOLEAN : heKernel' = IF ok \/ part THEN heKernel \cup {forward(n)} ELSE heKernel

\* Gateway and local forwarding, and the host mapping.
InstallRole(n, ok) ==
    /\ heStep[n] = "install"
    /\ heRecord' = Recorded(n, ok)
    /\ Goes(n, IF ok THEN "acked" ELSE "failed")
    /\ IF heRole[n] = "forward"
       THEN InstallForward(n, ok) /\ UNCHANGED <<heLine, heOverwritten>>
       ELSE /\ IF ok THEN Publish(n) ELSE UNCHANGED <<heLine, heOverwritten>>
            /\ UNCHANGED heKernel
    /\ TakesOver(n)
    /\ UNCHANGED <<heRole, heSent, heSeen, heOk, peerVars>>

-----------------------------------------------------------------------------
(* Readiness and teardown *)

SendReady(n) ==
    /\ heStep[n] = "acked" /\ n \notin heSent
    /\ Goes(n, "ready")
    /\ UNCHANGED <<heRole, heSent, heKernel, heSeen, heOk, heRecord, peerVars, heLine, heStale, heOverwritten>>

\* A mapping that cannot be published is not acknowledged.
NetReady(n, ok) ==
    /\ heStep[n] = "ready"
    /\ IF heRole[n] = "hosts" /\ ok THEN Publish(n) ELSE UNCHANGED <<heLine, heOverwritten>>
    /\ Goes(n, IF ok THEN "stands" ELSE "failed")
    /\ UNCHANGED <<heRole, heSent, heKernel, heSeen, heOk, heRecord, peerVars, heStale>>

\* At any time after the setup: a rollback, a timeout, or the edge is over.
SendTeardown(n) ==
    /\ heStep[n] \notin {"none", "gone", "stuck"} /\ n \notin heSent
    /\ heSent' = heSent \cup {n}
    /\ UNCHANGED <<heRole, heStep, heKernel, heSeen, heOk, heRecord, peerVars, heLine, heStale, heOverwritten>>

\* remove_gateway_forward, remove_local_forwards: by discovery.
RemoveForward(n, ok) == heKernel' = IF ok THEN heKernel \ {forward(n)} ELSE heKernel

TakeRecord(n) == heRecord' = heRecord \ {n}

\* The record is taken, then the rules of the role are removed.
Teardown(n, ok) ==
    /\ n \in heSent /\ heStep[n] \in {"acked", "failed", "stands"}
    /\ IF heRole[n] = "hosts" THEN UNCHANGED heRecord ELSE TakeRecord(n)
    /\ LET taken == n \in heRecord
       IN  /\ Goes(n, IF heRole[n] = "steer" /\ taken THEN "list_teardown" ELSE "rest")
           /\ IF heRole[n] = "forward" /\ taken THEN RemoveForward(n, ok) ELSE UNCHANGED heKernel
           /\ heOk' = [heOk EXCEPT ![n] = ~taken \/ heRole[n] # "forward" \/ ok]
    /\ UNCHANGED <<heRole, heSent, heSeen, peerVars, heLine, heStale, heOverwritten>>

\* Variant: the line of the name goes, whatever it points at.
RemoveName(n) == IF n \in heRecord THEN Nobody ELSE heLine

\* remove_hosts_entry: only while it still points at this network's address.
RemoveLine(n) == IF n \in heRecord /\ heLine = n THEN Nobody ELSE heLine

TeardownRest(n, mapping_ok, endpoint_ok) ==
    /\ heStep[n] = "rest"
    /\ PeersRemove(n)
    /\ TakeRecord(n)
    /\ heLine' = IF mapping_ok THEN RemoveLine(n) ELSE heLine
    /\ heKernel' = IF endpoint_ok THEN heKernel \ {endpoint(n)} ELSE heKernel
    /\ Goes(n, IF heOk[n] /\ (mapping_ok \/ n \notin heRecord) /\ endpoint_ok THEN "gone" ELSE "stuck")
    /\ UNCHANGED <<heRole, heSent, heSeen, heOk, heStale, heOverwritten>>

\* The acknowledgement frees the id, which a later network may get.
Reuse(n) ==
    /\ heStep[n] = "gone"
    /\ Goes(n, "none")
    /\ heSent' = heSent \ {n}
    /\ UNCHANGED <<heRole, heKernel, heSeen, heOk, heRecord, peerVars, heLine, heStale, heOverwritten>>

\* cleanup_network.  Links that cannot be cleared keep the process from
\* starting.  Rules are looked for by shape, so what no record names any more
\* is found too, but purge_stale_steers ignores every failure, and the rules
\* of a gateway carry no mark: any part of them may stay.
Purged == {left \in SUBSET heKernel : \A o \in left : o[1] # "endpoint"}

\* purge_stale_mappings strips every marked line of the files it can write.
PurgedLine == {Nobody, heLine}

\* The process is killed at any point and started again.
Restart ==
    /\ \E n \in HeNets : heStep[n] # "none"
    /\ heKernel' \in Purged /\ heLine' \in PurgedLine
    /\ heStale' = {n \in HeNets : {catch_all(n), snat(n), forward(n)} \cap heKernel' # {} \/ heLine' = n}
    /\ heStep' = [n \in HeNets |-> "none"] /\ heSeen' = [n \in HeNets |-> {}]
    /\ heSent' = {} /\ heRecord' = {} /\ heOverwritten' = {}
    /\ hePeers' = {} /\ heRefs' = 0 /\ heAllowed' = FALSE
    /\ UNCHANGED <<heRole, heOk>>

HostNext ==
    \/ \E n \in HeNets :
        \/ \E ok \in BOOLEAN : \/ SetupArrives(n, ok) \/ ListRules(n, ok) \/ AddBypass(n, ok)
                               \/ InstallRole(n, ok) \/ NetReady(n, ok) \/ Teardown(n, ok)
                               \/ \E e \in BOOLEAN : TeardownRest(n, ok, e)
        \/ DeleteRules(n) \/ AddRoute(n) \/ SendReady(n) \/ SendTeardown(n) \/ Reuse(n)
    \/ Restart

HostSpec == HostInit /\ [][HostNext]_heVars

-----------------------------------------------------------------------------

\* handle_vxlan_teardown is "acked last: the server frees the net id on this,
\* so every kernel object named after it must already be gone": whatever failed
\* in a setup or a teardown, an id that is free has no endpoint, no record, no
\* rule and no name.  Excused are rules and names that a killed process left
\* and the purge at the next start did not remove: they stay until a handler
\* that records the id answers for them.
FreeIdNamesNothing ==
    \A n \in HeNets : heStep[n] \in {"none", "gone"} =>
        /\ endpoint(n) \notin heKernel /\ n \notin heRecord
        /\ n \notin heStale => {catch_all(n), snat(n), forward(n)} \cap heKernel = {} /\ heLine # n

\* The peer's packets pass the firewall as long as some network to it has its
\* endpoint on this host and is not being taken down; FirewallPeers counts, and
\* several networks share the peer.
StandingPeerAllowed ==
    \A n \in HeNets : endpoint(n) \in heKernel /\ heStep[n] # "stuck" => heAllowed

\* An acknowledged steering edge keeps its route and its source address while
\* the rules of another network of the same container come and go.
StandingEdgeRoutes ==
    \A n \in HeNets : heRole[n] = "steer" /\ heStep[n] \in {"acked", "ready", "stands"}
        => {catch_all(n), snat(n)} \subseteq heKernel

\* The name resolves to the network that stands, although the teardown of the
\* one before runs late; unless the late handler published its line after it
\* was to be taken down, which remove_hosts_entry does not guard against.
NameResolves ==
    \A n \in HeNets :
        /\ heRole[n] = "hosts" /\ heStep[n] = "stands"
        /\ n \notin heSent \cup heOverwritten
        => heLine = n

\* egress.rs, header: "Internal (nullnet/private) destinations bypass to the
\* main table so service-to-service and control-plane traffic are unaffected".
InternalBypasses ==
    \A n \in HeNets : heRole[n] = "steer" /\ heStep[n] \in {"acked", "ready", "stands"} /\ n \notin heSent
        => bypass \in heKernel

\* A network that stands has its routes, its peer and its name, and an id that
\* is free names nothing on the host but what a purge at start failed to
\* remove (control_channel.rs, egress.rs, host_mappings.rs).
StandingEdgesServe ==
    /\ FreeIdNamesNothing
    /\ StandingPeerAllowed
    /\ StandingEdgeRoutes
    /\ NameResolves
=============================================================================
