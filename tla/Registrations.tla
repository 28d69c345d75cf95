---------------------------- MODULE Registrations ----------------------------
(***************************************************************************)
(* Which replicas the services map holds.  A node reports what runs on it  *)
(* every ten seconds; the server joins the report with the match index of  *)
(* the loaded configuration and brings the sender's replicas in line.  A   *)
(* reload of the configuration and the close of a node's control stream    *)
(* change the same map.  Removing a replica tears down the sessions that   *)
(* use it.                                                                 *)
(*                                                                         *)
(* Source: declare_services in the client's main.rs, services_list_impl    *)
(* and apply_services_report in nullnet_grpc_impl.rs, apply_loaded in      *)
(* http_server/config.rs, services/changes.rs, services/service_info.rs,   *)
(* handle_node_disconnect in orchestrator.rs.  An action is what runs      *)
(* while the services lock is held.  A session stands for the proxy's      *)
(* clients of one replica; how its chain is built, how it times out or is  *)
(* found broken, and networks are Chains' subject.                         *)
(***************************************************************************)
EXTENDS Integers, FiniteSets, Sequences, SequencesExt

CONSTANTS
    RgNodes,
    RgUnits,        (* what may run on a node: containers and "proc", a     *)
                    (* listening process, a replica without a container     *)
    RgKey,          (* unit -> match_key of a container, path of a process  *)
    RgProxy,        (* the node the proxy runs on                           *)
    RgConfigs,      (* configurations: service -> entry                     *)
    RgAtStart,      (* configurations, and what runs, when the clients start*)
    RgMaxUses,      (* bound: sessions and egress edges at a time           *)
    RgMaxChanges    (* bound: units started or stopped, reloads, restarts   *)
                    (* of a client and lost answers                         *)

ASSUME RegistrationsAssumption == RgMaxChanges \in Nat /\ RgMaxUses \in Nat

VARIABLES
    rgIndex,        (* the loaded entries: match_index, and the settings of *)
                    (* the services map, which change with it               *)
    rgReplicas,     (* service -> its replicas; {} is Unregistered          *)
    rgSessions,     (* sessions: service, replica, and the replica of every *)
                    (* dependency its chains run through, at any hop        *)
    rgRunning,      (* node -> the units that run on it                     *)
    rgNode,         (* node -> its client process and its control streams   *)
    rgReport,       (* node, generation -> a report on its way              *)
    rgWatch,        (* node -> the trigger owners its client watches for    *)
    rgPorts,        (* node -> ports its eBPF firewall lets in              *)
    rgAsked,        (* egress triggers resolved to a replica, not yet built *)
    rgEgress,       (* egress edges: node, unit                             *)
    rgSettled,      (* history: node -> whether a round of reporting went   *)
                    (* through since something last changed there           *)
    rgLate,         (* history: nodes whose report was applied after their  *)
                    (* client was gone                                      *)
    rgChanges

rgVars == <<rgIndex, rgReplicas, rgSessions, rgRunning, rgNode, rgReport,
            rgWatch, rgPorts, rgAsked, rgEgress, rgSettled, rgLate, rgChanges>>

RgServices == UNION {DOMAIN c : c \in RgConfigs}
Generations == {"current", "orphan"}
NoReport == [pc |-> "idle", seen |-> {}, list |-> {}]

IdOf(r) == <<r.ip, r.unit>>
NoReplica == <<"none", "none">>

\* proxy_deps is a set of chains, each a sequence of services; triggers the peers
\* of its backend triggers.  deps_contain looks at both, a chain at any hop.
ChainDeps(ix, s) == IF s \in DOMAIN ix THEN UNION {ToSet(c) : c \in ix[s].deps} ELSE {}
Deps(ix, s) == ChainDeps(ix, s) \cup IF s \in DOMAIN ix THEN ix[s].triggers ELSE {}
FirstHops(ix, s) == {c[1] : c \in ix[s].deps}

\* The edges of a session: from each replica of a chain to the next.
Place(x, s) == IF s = x.svc THEN x.at ELSE x.via[s]
Edges(ix, x) ==
    UNION {{[svc |-> (<<x.svc>> \o c)[i], at |-> Place(x, (<<x.svc>> \o c)[i]), dep |-> c[i], to |-> x.via[c[i]]]
              : i \in 1..Len(c)} : c \in ix[x.svc].deps}

-----------------------------------------------------------------------------
(***************************************************************************)
(* Changes to the services map, m = [rep, sess], under dependencies ix.    *)
(***************************************************************************)
WithoutSessions(m, F(_)) == [m EXCEPT !.sess = {x \in @ : ~F(x)}]

\* teardown_invalidated_service: every session of the service and of its
\* registered dependents; a failed service loses its replicas.
teardown_invalidated_service(m, ix, s, failed) ==
    LET names == {s} \cup {t \in RgServices : m.rep[t] # {} /\ s \in Deps(ix, t)}
        torn  == WithoutSessions(m, LAMBDA x : x.svc \in names)
    IN IF failed THEN [torn EXCEPT !.rep[s] = {}] ELSE torn

NoUpstreams(m, ix, s, ids) == WithoutSessions(m, LAMBDA x : x.svc = s /\ x.at \in ids)

\* teardown_partial_replicas: the edges into these replicas are the clients on
\* them, and what ends is the sessions on the replica an edge comes from, so that
\* a session that meets one of them beyond its first hop stays; then the sessions
\* on these replicas.
teardown_partial_replicas(m, ix, s, ids) ==
    LET into == {e \in UNION {Edges(ix, x) : x \in m.sess} : e.dep = s /\ e.to \in ids}
        from == {<<e.svc, e.at>> : e \in into}
    IN WithoutSessions(m, LAMBDA x : <<x.svc, x.at>> \in from \/ (x.svc = s /\ x.at \in ids))

\* remove_replica, remove_replicas_on_ip: without any the service is Unregistered.
\* The edges of sessions that stay go with the replicas.
WithoutReplicas(m, s, ids) ==
    [rep  |-> [m.rep EXCEPT ![s] = {r \in @ : IdOf(r) \notin ids}],
     sess |-> {[x EXCEPT !.via = [d \in DOMAIN @ |-> IF d = s /\ @[d] \in ids THEN NoReplica ELSE @[d]]]
                 : x \in m.sess}]

\* ReplicaRemoved and ReplicasRemoved: replicas ids of s go.
InvalidateAlways(m, ix, s, ids) ==
    WithoutReplicas(teardown_invalidated_service(m, ix, s, FALSE), s, ids)

RemoveReplicas(m, ix, s, ids) ==
    IF m.rep[s] # {} /\ {IdOf(r) : r \in m.rep[s]} \subseteq ids
    THEN teardown_invalidated_service(m, ix, s, TRUE)
    ELSE WithoutReplicas(teardown_partial_replicas(m, ix, s, ids), s, ids)

\* One ReplicaRemoved after the other.
RemoveEach(m, ix, gone) ==
    FoldSet(LAMBDA g, acc : RemoveReplicas(acc, ix, g.svc, {g.id}), m, gone)

ServicesMap == [rep |-> rgReplicas, sess |-> rgSessions]

SetServicesMap(m) == rgReplicas' = m.rep /\ rgSessions' = m.sess

\* Something changed at these nodes: what they last agreed on no longer counts.
Disturb(ns) == rgSettled' = [n \in RgNodes |-> IF n \in ns THEN "no" ELSE rgSettled[n]]

\* ingress_allow_ports, beyond the ports every node has: the listen ports of the
\* configured services on the proxy's node.
ingress_allow_ports(ix, n) ==
    IF n # RgProxy THEN {} ELSE {ix[s].listen : s \in DOMAIN ix} \ {0}

Spend == rgChanges < RgMaxChanges /\ rgChanges' = rgChanges + 1

-----------------------------------------------------------------------------
RegistrationsInit ==
    /\ \E start \in RgAtStart : rgIndex = start.config /\ rgRunning = start.running
    /\ rgReplicas = [s \in RgServices |-> {}]
    /\ rgSessions = {}
    /\ rgNode = [n \in RgNodes |-> [up |-> TRUE, closed |-> 0]]
    /\ rgReport = [n \in RgNodes |-> [g \in Generations |-> NoReport]]
    /\ rgWatch = [n \in RgNodes |-> {}]
    /\ rgPorts = [n \in RgNodes |-> ingress_allow_ports(rgIndex, n)]
    /\ rgAsked = {}
    /\ rgEgress = {}
    /\ rgSettled = [n \in RgNodes |-> "no"]
    /\ rgLate = {}
    /\ rgChanges = 0

\* The client starts: network_type gives it its ports, populate_allow_ports lets
\* them in, and it opens its control stream.
ClientStarts(n) ==
    /\ ~rgNode[n].up
    /\ rgNode' = [rgNode EXCEPT ![n].up = TRUE]
    /\ rgPorts' = [rgPorts EXCEPT ![n] = ingress_allow_ports(rgIndex, n)]
    /\ Disturb({n})
    /\ rgLate' = rgLate \ {n}
    /\ UNCHANGED <<rgIndex, rgReplicas, rgSessions, rgRunning, rgReport, rgWatch, rgAsked, rgEgress, rgChanges>>

\* The client dies.  The handler of a report it had sent is dropped with the
\* connection, or gets through.
ClientDies(n) ==
    /\ rgNode[n].up
    /\ Spend
    /\ rgReport[n]["orphan"].pc = "idle"
    /\ rgNode' = [rgNode EXCEPT ![n].up = FALSE, ![n].closed = @ + 1]
    /\ \E left \in {NoReport, rgReport[n]["current"]} :
         rgReport' = [rgReport EXCEPT ![n] = [current |-> NoReport, orphan |-> left]]
    /\ rgWatch' = [rgWatch EXCEPT ![n] = {}]
    /\ Disturb({n})
    /\ UNCHANGED <<rgIndex, rgReplicas, rgSessions, rgRunning, rgPorts, rgAsked, rgEgress, rgLate>>

\* handle_node_disconnect of a closed stream, perhaps after the client is back.
\* The sessions of a proxy on that node go too (ProxyDisconnected).
ReplicasOn(n, s) == {IdOf(r) : r \in {r \in rgReplicas[s] : r.ip = n}}
ProxyGone(m, n) == WithoutSessions(m, LAMBDA x : n = RgProxy)

DisconnectLastOnly(n) ==
    LET hit == {s \in RgServices : ReplicasOn(n, s) # {} /\ \A r \in rgReplicas[s] : r.ip = n}
    IN ProxyGone(FoldSet(LAMBDA s, acc : RemoveReplicas(acc, rgIndex, s, ReplicasOn(n, s)), ServicesMap, hit), n)

DisconnectChanges(n) ==
    LET hit == {s \in RgServices : ReplicasOn(n, s) # {}}
    IN ProxyGone(FoldSet(LAMBDA s, acc : RemoveReplicas(acc, rgIndex, s, ReplicasOn(n, s)), ServicesMap, hit), n)

\* ... and, with the services lock released, teardown_egress_edges_for_node.
HandleNodeDisconnect(n) ==
    /\ rgNode[n].closed > 0
    /\ rgNode' = [rgNode EXCEPT ![n].closed = @ - 1]
    /\ SetServicesMap(DisconnectChanges(n))
    /\ rgEgress' = {e \in rgEgress : e[1] # n}
    /\ Disturb({n})
    /\ UNCHANGED <<rgIndex, rgRunning, rgReport, rgWatch, rgPorts, rgAsked, rgLate, rgChanges>>

\* A container or a process starts or ends.
UnitChanges(n, u) ==
    /\ Spend
    /\ rgRunning' = [rgRunning EXCEPT ![n] = IF u \in @ THEN @ \ {u} ELSE @ \cup {u}]
    /\ Disturb({n})
    /\ UNCHANGED <<rgIndex, rgReplicas, rgSessions, rgNode, rgReport, rgWatch, rgPorts, rgAsked, rgEgress, rgLate>>

-----------------------------------------------------------------------------
(***************************************************************************)
(* A round of reporting.                                                   *)
(***************************************************************************)
\* The client looks at what runs and sends it.
SendReport(n) ==
    /\ rgNode[n].up
    /\ rgReport[n]["current"].pc = "idle"
    /\ rgReport' = [rgReport EXCEPT ![n]["current"] = [pc |-> "sent", seen |-> rgRunning[n], list |-> {}]]
    /\ rgSettled' = [rgSettled EXCEPT ![n] = IF @ = "no" THEN "round" ELSE @]
    /\ UNCHANGED <<rgIndex, rgReplicas, rgSessions, rgRunning, rgNode, rgWatch, rgPorts, rgAsked, rgEgress, rgLate, rgChanges>>

\* The entries of the index a node's units match: a pinned service only on its
\* host, every match a replica.
Join(ix, n, units) ==
    {[svc |-> p[1], unit |-> p[2], port |-> ix[p[1]].port] : p \in
        {q \in (DOMAIN ix) \X units :
            RgKey[q[2]] = ix[q[1]].key /\ ix[q[1]].host \in {"any", n}}}

\* services_list_impl takes the read lock of the index, and keeps it until the
\* report is applied.
JoinReport(n, g) ==
    /\ rgReport[n][g].pc = "sent"
    /\ rgReport' = [rgReport EXCEPT ![n][g].pc = "joined", ![n][g].seen = {},
                                    ![n][g].list = Join(rgIndex, n, rgReport[n][g].seen)]
    /\ UNCHANGED <<rgIndex, rgReplicas, rgSessions, rgRunning, rgNode, rgWatch, rgPorts, rgAsked, rgEgress, rgSettled, rgLate, rgChanges>>

\* add_replica for every entry: a replica that is there gets its port.
AddReplicas(m, n, list) ==
    [m EXCEPT !.rep = [s \in RgServices |->
        {r \in @[s] : r.ip # n \/ ~\E e \in list : e.svc = s /\ e.unit = r.unit}
          \cup {[ip |-> n, unit |-> e.unit, port |-> e.port] : e \in {e \in list : e.svc = s}}]]

\* detect_services_list_changes: the sender's replicas that are not in its list.
detect_services_list_changes(m, n, list) ==
    {g \in UNION {{[svc |-> s, id |-> IdOf(r)] : r \in m.rep[s]} : s \in RgServices} :
        g.id[1] = n /\ ~\E e \in list : e.svc = g.svc /\ e.unit = g.id[2]}

\* apply_services_report: first the sender's replicas that are not in the list
\* go, then every service of the list that is still configured gets its
\* replica, or the replica its port.
ReportChanges(m, n, list) ==
    AddReplicas(RemoveEach(m, rgIndex, detect_services_list_changes(m, n, list)),
                n, {e \in list : e.svc \in DOMAIN rgIndex})

ApplyReport(n, g) ==
    /\ rgReport[n][g].pc = "joined"
    /\ SetServicesMap(ReportChanges(ServicesMap, n, rgReport[n][g].list))
    /\ rgReport' = [rgReport EXCEPT ![n][g].pc = "applied"]
    /\ rgLate' = IF g = "orphan" THEN rgLate \cup {n} ELSE rgLate
    /\ IF g = "orphan" THEN Disturb({n}) ELSE UNCHANGED rgSettled
    /\ UNCHANGED <<rgIndex, rgRunning, rgNode, rgWatch, rgPorts, rgAsked, rgEgress, rgChanges>>

\* The containers of a list: a process has none.
Containers(list) == {e.unit : e \in list} \ {"proc"}

\* build_service_triggers: the declared services that have triggers now, each
\* with its containers; a service with none of them on the node is left out.
build_service_triggers(list) ==
    {t \in {[svc |-> e.svc, owners |-> Containers({f \in list : f.svc = e.svc})] : e \in list} :
        t.owners # {} /\ t.svc \in DOMAIN rgIndex /\ rgIndex[t.svc].triggers # {}}

\* teardown_egress_edges_for_missing_containers, which leaves a process's edge
\* alone.
ReapNone(n, list) == rgEgress

ReapMissing(n, list) ==
    {e \in rgEgress : e[1] # n \/ e[2] = "proc" \/ e[2] \in Containers(list)}

\* update_ingress: ports no longer wanted go first, then the missing ones come;
\* it stops at the first that fails.
update_ingress(now, wanted) ==
    {now \ x : x \in SUBSET (now \ wanted)} \cup {(now \cap wanted) \cup x : x \in SUBSET (wanted \ now)}

\* The rest of services_list_impl, with both locks released, and what the
\* client does with the answer: its firewall is refreshed, a failure is only
\* reported, and the owners are handed to the NFQUEUE listener.
Answer(n) ==
    /\ rgReport[n]["current"].pc = "applied"
    /\ rgReport' = [rgReport EXCEPT ![n]["current"] = NoReport]
    /\ rgEgress' = ReapMissing(n, rgReport[n]["current"].list)
    /\ rgWatch' = [rgWatch EXCEPT ![n] = build_service_triggers(rgReport[n]["current"].list)]
    /\ LET wanted == ingress_allow_ports(rgIndex, n) IN
       \/ /\ rgPorts' = [rgPorts EXCEPT ![n] = wanted]
          /\ rgSettled' = [rgSettled EXCEPT ![n] = IF @ = "round" THEN "yes" ELSE @]
          /\ UNCHANGED rgChanges
       \/ /\ \E left \in update_ingress(rgPorts[n], wanted) \ {wanted} :
                rgPorts' = [rgPorts EXCEPT ![n] = left]
          /\ Spend
          /\ Disturb({n})
    /\ UNCHANGED <<rgIndex, rgReplicas, rgSessions, rgRunning, rgNode, rgAsked, rgLate>>

\* The answer is lost, or nobody is there to take it.
AnswerLost(n, g) ==
    /\ rgReport[n][g].pc = "applied"
    /\ rgReport' = [rgReport EXCEPT ![n][g] = NoReport]
    /\ rgEgress' = ReapMissing(n, rgReport[n][g].list)
    /\ IF g = "current" THEN Spend ELSE UNCHANGED rgChanges
    /\ Disturb({n})
    /\ UNCHANGED <<rgIndex, rgReplicas, rgSessions, rgRunning, rgNode, rgWatch, rgPorts, rgAsked, rgLate>>

-----------------------------------------------------------------------------
(***************************************************************************)
(* A reload: apply_loaded.                                                 *)
(***************************************************************************)
\* The write lock of the index waits for the reports that hold it.
IndexNotHeld == TRUE
IndexFree == \A n \in RgNodes, g \in Generations : rgReport[n][g].pc # "joined"

\* detect_config_changes: services that left the configuration, changed
\* dependencies of a service that is to be reachable, changed reachability.
\* Changed triggers end backend chains (BackendSessions), a shorter timeout
\* idle sessions (Chains).
detect_config_changes(old, new) ==
    LET kept == DOMAIN old \cap DOMAIN new IN
    [removed  |-> DOMAIN old \ DOMAIN new,
     deps     |-> {s \in kept : new[s].reachable /\ new[s].deps # old[s].deps},
     toggled  |-> {s \in kept : new[s].reachable # old[s].reachable}]

\* apply_config_update: the changes are made under the old dependencies.
ConfigChanges(m, old, new) ==
    LET c == detect_config_changes(old, new)
        removed == FoldSet(LAMBDA s, acc : teardown_invalidated_service(acc, old, s, TRUE), m, c.removed)
        deps == FoldSet(LAMBDA s, acc : teardown_invalidated_service(acc, old, s, FALSE), removed, c.deps)
    IN WithoutSessions(deps, LAMBDA x : x.svc \in c.toggled)

\* Replicas of a pinned service elsewhere than on its host go with the reload.
PrunePinned(m, new) ==
    RemoveEach(m, new,
        UNION {{[svc |-> s, id |-> IdOf(r)] : r \in {r \in m.rep[s] : new[s].host \notin {"any", r.ip}}}
                 : s \in DOMAIN new})

Reload(new) ==
    /\ new # rgIndex
    /\ IndexFree
    /\ Spend
    /\ SetServicesMap(PrunePinned(ConfigChanges(ServicesMap, rgIndex, new), new))
    /\ rgIndex' = new
    /\ Disturb(RgNodes)
    /\ UNCHANGED <<rgRunning, rgNode, rgReport, rgWatch, rgPorts, rgAsked, rgEgress, rgLate>>

-----------------------------------------------------------------------------
(***************************************************************************)
(* Sessions and egress edges.                                              *)
(***************************************************************************)
MoreUses == Cardinality(rgSessions) + Cardinality(rgEgress \cup rgAsked) < RgMaxUses

\* A proxy client of a reachable service is given a replica; a source replica
\* has one edge to each dependency, which its later sessions share.
OpenSession(s) ==
    /\ MoreUses
    /\ s \in DOMAIN rgIndex /\ rgIndex[s].reachable
    /\ \E r \in rgReplicas[s] :
         /\ ~\E x \in rgSessions : x.svc = s /\ x.at = IdOf(r)
         /\ \E via \in [ChainDeps(rgIndex, s) -> RgNodes \X RgUnits] :
              /\ \A d \in DOMAIN via : \E q \in rgReplicas[d] : IdOf(q) = via[d]
              /\ rgSessions' = rgSessions \cup {[svc |-> s, at |-> IdOf(r), via |-> via]}
    /\ UNCHANGED <<rgIndex, rgReplicas, rgRunning, rgNode, rgReport, rgWatch, rgPorts, rgAsked, rgEgress, rgSettled, rgLate, rgChanges>>

\* resolve_registered_replica.
RegisteredReplica(n, u) ==
    \E s \in RgServices : \E r \in rgReplicas[s] : IdOf(r) = <<n, u>>

\* handle_egress_trigger: resolve_registered_replica under the read lock ...
EgressTrigger(n, u) ==
    /\ rgNode[n].up
    /\ RegisteredReplica(n, u)
    /\ <<n, u>> \notin rgEgress \cup rgAsked
    /\ MoreUses
    /\ rgAsked' = rgAsked \cup {<<n, u>>}
    /\ UNCHANGED <<rgIndex, rgReplicas, rgSessions, rgRunning, rgNode, rgReport, rgWatch, rgPorts, rgEgress, rgSettled, rgLate, rgChanges>>

\* ... then the edge, with the lock released.
EnsureEgressEdge(n, u) ==
    /\ <<n, u>> \in rgAsked
    /\ rgAsked' = rgAsked \ {<<n, u>>}
    /\ rgEgress' = rgEgress \cup {<<n, u>>}
    /\ Disturb({n})
    /\ UNCHANGED <<rgIndex, rgReplicas, rgSessions, rgRunning, rgNode, rgReport, rgWatch, rgPorts, rgLate, rgChanges>>

RegistrationsNext ==
    \/ \E n \in RgNodes :
         \/ ClientStarts(n) \/ ClientDies(n)
         \/ HandleNodeDisconnect(n) \/ SendReport(n) \/ Answer(n)
         \/ \E g \in Generations :
              JoinReport(n, g) \/ ApplyReport(n, g) \/ AnswerLost(n, g)
         \/ \E u \in RgUnits : UnitChanges(n, u) \/ EgressTrigger(n, u) \/ EnsureEgressEdge(n, u)
    \/ \E c \in RgConfigs : Reload(c)
    \/ \E s \in RgServices : OpenSession(s)

RegistrationsSpec == RegistrationsInit /\ [][RegistrationsNext]_rgVars

-----------------------------------------------------------------------------
\* A registered replica belongs to a service the loaded configuration declares
\* and is on a host that configuration allows: a report joined with the old
\* index is never applied after a reload (apply_loaded, services_list_impl).
ReplicaIsAllowed ==
    \A s \in RgServices : \A r \in rgReplicas[s] :
        s \in DOMAIN rgIndex /\ rgIndex[s].host \in {"any", r.ip}

\* A session is on a registered replica of a reachable service, its chains are
\* those the configuration names, they start at registered replicas, and every
\* service on them is registered: no report, reload or disconnect takes one of
\* these away under it.  Beyond its first hop a chain may have lost its edge
\* while another replica of the service stays (apply_changes).
SessionStands ==
    \A x \in rgSessions :
        /\ x.svc \in DOMAIN rgIndex
        /\ rgIndex[x.svc].reachable /\ ChainDeps(rgIndex, x.svc) = DOMAIN x.via
        /\ x.at \in {IdOf(r) : r \in rgReplicas[x.svc]}
        /\ \A d \in FirstHops(rgIndex, x.svc) : x.via[d] # NoReplica
        /\ \A d \in DOMAIN x.via :
              rgReplicas[d] # {} /\ x.via[d] \in {IdOf(r) : r \in rgReplicas[d]} \cup {NoReplica}

\* Once a node has gone through a round of reporting with nothing changing
\* there meanwhile, the map holds exactly the replicas its units match, its
\* client watches for exactly their triggers and lets in exactly the ports the
\* configuration wants there, and no egress edge is left to a
\* container that is not among them (declare_services, services_list_impl).
RoundSettles ==
    \A n \in RgNodes : rgSettled[n] = "yes" =>
        LET list == Join(rgIndex, n, rgRunning[n]) IN
        /\ \A s \in RgServices :
             {r \in rgReplicas[s] : r.ip = n}
               = {[ip |-> n, unit |-> e.unit, port |-> e.port] : e \in {e \in list : e.svc = s}}
        /\ rgWatch[n] = build_service_triggers(list)
        /\ rgPorts[n] = ingress_allow_ports(rgIndex, n)
        /\ \A e \in rgEgress : e[1] = n => e[2] \in Containers(list) \cup {"proc"}

\* A node off the record whose streams' ends were all handled holds no replica,
\* unless a report of its dead client was applied last (handle_node_disconnect).
GoneNodeHoldsNothing ==
    \A n \in RgNodes : ~rgNode[n].up /\ rgNode[n].closed = 0 /\ n \notin rgLate =>
        \A s \in RgServices : \A r \in rgReplicas[s] : r.ip # n

\* Reports, reloads and disconnects end or cut only the sessions they must:
\* those using a replica that goes, or on a replica from which some chain's next
\* edge goes, or whose service, one of its dependencies or the peer of a trigger
\* is configured anew or loses its last replica, or whose proxy's node has
\* disconnected (apply_changes).
Goes(s, id) == id \notin {IdOf(r) : r \in rgReplicas'[s]}

OnlyAffectedEnd ==
    [][\A x \in rgSessions \ rgSessions' :
         \/ \E s \in {x.svc} \cup DOMAIN x.via : Goes(s, Place(x, s))
         \/ \E e \in UNION {Edges(rgIndex, y) : y \in rgSessions} :
               e.svc = x.svc /\ e.at = x.at /\ Goes(e.dep, e.to)
         \/ \E s \in {x.svc} \cup Deps(rgIndex, x.svc) :
               \/ s \notin DOMAIN rgIndex' \/ rgIndex'[s] # rgIndex[s]
               \/ rgReplicas[s] # {} /\ rgReplicas'[s] = {}
         \/ rgNode'[RgProxy].closed < rgNode[RgProxy].closed]_rgVars

\* The replicas are what the nodes last reported and the configuration allows,
\* across reloads, disconnects and late reports (services_list, apply_changes).
ReplicasFollowReports == ReplicaIsAllowed /\ RoundSettles /\ GoneNodeHoldsNothing

\* A session stands on replicas that are there, and a change ends no session
\* it does not affect (teardown_partial_replicas, teardown_invalidated_service).
SessionsFollowReplicas == []SessionStands /\ OnlyAffectedEnd
==============================================================================
