----------------------------- MODULE ProxyFeed -----------------------------
(***************************************************************************)
(* How the configuration reaches the ingress proxy: a change of the live   *)
(* maps notifies one builder per table, the builder publishes a bundle on  *)
(* a watch channel, a stream per proxy carries snapshots of it, and the    *)
(* proxy swaps its route table or reconciles its listeners.                *)
(*                                                                         *)
(* A configuration is a record: ports, the (protocol, port) pairs and the  *)
(* service each leads to; http, the proxy-reachable http services; routes, *)
(* a set of <<host, path prefix, service>>.  A path is a sequence.         *)
(***************************************************************************)
EXTENDS Naturals, Sequences, SequencesExt, FiniteSets

CONSTANTS PfConfigs,       \* configurations an edit can load
          PfPaths,         \* request paths
          PfMaxEdits, PfMaxDrops   \* bounds of the model

\* ServicesConfig: no two services listen on one port; a path prefix has a length.
ASSUME PfAssumption ==
    \A c \in PfConfigs :
        /\ \A m \in c.ports : m = <<m[1], m[2]>>
        /\ \A m, n \in c.ports : m[1] = n[1] => m = n
        /\ \A x \in c.routes : Len(x[2]) \in Nat

Feeds == {"ports", "routes"}

VARIABLES pfSvcs,      \* the live services: ports and http
          pfRoutes,    \* the live routes
          pfApply,     \* the routes apply_loaded has still to write, as a set of at most one
          pfPermit,    \* feed -> its Notify holds a permit
          pfBuild,     \* feed -> its builder: idle, woken or reading
          pfGot,       \* the services the route builder has read, as a set of at most one
          pfWatch,     \* feed -> the bundle on the watch channel
          pfFresh,     \* feed -> its stream has not sent that bundle yet
          pfStream,    \* feed -> bundles under way to the proxy
          pfUp,        \* the port-mapping stream stands
          pfTable,     \* the proxy's RouteTable: host -> routes, the longest first
          pfLis,       \* running listeners: key -> the mapping and the state of its task
          pfHeld,      \* keys whose port a socket of an earlier listener still holds
          pfEdits, pfDrops

pfVars == <<pfSvcs, pfRoutes, pfApply, pfPermit, pfBuild, pfGot, pfWatch, pfFresh, pfStream,
            pfUp, pfTable, pfLis, pfHeld, pfEdits, pfDrops>>
liveVars == <<pfSvcs, pfRoutes, pfApply, pfEdits>>
builderVars == <<pfPermit, pfBuild, pfGot, pfWatch>>
proxyVars == <<pfTable, pfLis, pfHeld>>

PfKeys == UNION {{m[1] : m \in c.ports} : c \in PfConfigs}
PfHosts == UNION {c.http \cup {r[1] : r \in c.routes} : c \in PfConfigs}

-----------------------------------------------------------------------------
(* The bundles *)

\* build_port_mapping_bundle: one mapping per service with a listen_port.
PortBundle(svcs) == svcs.ports

\* build_http_route_bundle: every explicit route, and the service's own name
\* as a host where no explicit route claims it.
RouteBundle(svcs, routes) ==
    LET hosts == {r[1] : r \in routes}
    IN  routes \cup {<<s, <<"/">>, s>> : s \in svcs.http \ hosts}

\* sort_by_key: the longest prefix first; prefixes of one length in any order,
\* since the bundle comes from a map.
LongestFirst(routes) ==
    {s \in SetToSeqs(routes) : \A i, j \in DOMAIN s : i < j => Len(s[i][2]) >= Len(s[j][2])}

\* RouteTable::from_bundle: the tables a bundle may become.
FromBundle(bundle) ==
    LET hosts == {r[1] : r \in bundle}
        of(h) == {r \in bundle : r[1] = h}
    IN  {t \in [hosts -> UNION {LongestFirst(of(h)) : h \in hosts}] :
            \A h \in hosts : t[h] \in LongestFirst(of(h))}

\* The positions of the routes of a host that match the path.
Matching(table, host, path) == {i \in DOMAIN table[host] : IsPrefix(table[host][i][2], path)}

FaultyResolve(table, host, path) ==
    LET match == Matching(table, host, path)
    IN  IF host \notin DOMAIN table THEN <<"fallback", host>>
        ELSE IF match = {} THEN <<"not_found", host>>
        ELSE <<"service", table[host][CHOOSE i \in match : \A j \in match : i >= j][3]>>

\* RouteTable::resolve: the first prefix that matches wins.
Resolve(table, host, path) ==
    LET match == Matching(table, host, path)
    IN  IF host \notin DOMAIN table THEN <<"fallback", host>>
        ELSE IF match = {} THEN <<"not_found", host>>
        ELSE <<"service", table[host][CHOOSE i \in match : \A j \in match : i <= j][3]>>

Services(c) == [ports |-> c.ports, http |-> c.http]
NoListener == [st |-> "none", svc |-> ""]

\* The server has just started on a configuration without raw ports, and the
\* proxy has its first tables.
FeedInit ==
    /\ \E c \in PfConfigs :
          /\ c.ports = {}
          /\ pfSvcs = Services(c) /\ pfRoutes = c.routes
          /\ pfWatch = [f \in Feeds |-> IF f = "ports" THEN {} ELSE RouteBundle(Services(c), c.routes)]
          /\ pfTable \in FromBundle(RouteBundle(Services(c), c.routes))
    /\ pfApply = {} /\ pfGot = {}
    /\ pfPermit = [f \in Feeds |-> FALSE]
    /\ pfBuild = [f \in Feeds |-> "idle"]
    /\ pfFresh = [f \in Feeds |-> FALSE]
    /\ pfStream = [f \in Feeds |-> <<>>]
    /\ pfUp = TRUE
    /\ pfLis = [k \in PfKeys |-> NoListener]
    /\ pfHeld = {}
    /\ pfEdits = 0 /\ pfDrops = 0

-----------------------------------------------------------------------------
(* The server *)

\* apply_loaded: the services first; the route builder's read lock keeps it out.
ApplyServices(c) ==
    /\ pfApply = {} /\ pfGot = {} /\ pfEdits < PfMaxEdits
    /\ pfSvcs' = Services(c)
    /\ pfApply' = {c.routes}
    /\ pfEdits' = pfEdits + 1
    /\ UNCHANGED <<pfRoutes, builderVars, pfFresh, pfStream, pfUp, proxyVars, pfDrops>>

\* ... then the routes, and one notify_one per consumer.
ApplyTables ==
    /\ pfApply # {}
    /\ pfRoutes' \in pfApply
    /\ pfApply' = {}
    /\ pfPermit' = [f \in Feeds |-> TRUE]
    /\ UNCHANGED <<pfSvcs, pfEdits, pfBuild, pfGot, pfWatch, pfFresh, pfStream, pfUp, proxyVars, pfDrops>>

FaultyWake(f) ==
    /\ pfBuild[f] = "idle" /\ pfPermit[f]
    /\ pfPermit' = [g \in Feeds |-> FALSE]
    /\ pfBuild' = [pfBuild EXCEPT ![f] = "woken"]
    /\ UNCHANGED <<liveVars, pfGot, pfWatch, pfFresh, pfStream, pfUp, proxyVars, pfDrops>>

\* notified(): each builder has a Notify of its own and takes its permit.
Wake(f) ==
    /\ pfBuild[f] = "idle" /\ pfPermit[f]
    /\ pfPermit' = [pfPermit EXCEPT ![f] = FALSE]
    /\ pfBuild' = [pfBuild EXCEPT ![f] = "woken"]
    /\ UNCHANGED <<liveVars, pfGot, pfWatch, pfFresh, pfStream, pfUp, proxyVars, pfDrops>>

\* The route builder takes the services' lock before the routes'.
ReadServices ==
    /\ pfBuild["routes"] = "woken"
    /\ pfGot' = {pfSvcs}
    /\ pfBuild' = [pfBuild EXCEPT !["routes"] = "reading"]
    /\ UNCHANGED <<liveVars, pfPermit, pfWatch, pfFresh, pfStream, pfUp, proxyVars, pfDrops>>

PublishBundle(f) ==
    /\ pfBuild[f] = IF f = "routes" THEN "reading" ELSE "woken"
    /\ pfWatch' = [pfWatch EXCEPT ![f] =
            IF f = "ports" THEN PortBundle(pfSvcs) ELSE RouteBundle(CHOOSE s \in pfGot : TRUE, pfRoutes)]
    /\ pfGot' = IF f = "routes" THEN {} ELSE pfGot
    /\ pfFresh' = [pfFresh EXCEPT ![f] = TRUE]
    /\ pfBuild' = [pfBuild EXCEPT ![f] = "idle"]
    /\ UNCHANGED <<liveVars, pfPermit, pfStream, pfUp, proxyVars, pfDrops>>

\* watch_port_mappings, watch_http_routes: changed(), then a snapshot.
SendSnapshot(f) ==
    /\ pfFresh[f] /\ (f = "ports" => pfUp) /\ Len(pfStream[f]) < 2
    /\ pfFresh' = [pfFresh EXCEPT ![f] = FALSE]
    /\ pfStream' = [pfStream EXCEPT ![f] = Append(@, pfWatch[f])]
    /\ UNCHANGED <<liveVars, builderVars, pfUp, proxyVars, pfDrops>>

-----------------------------------------------------------------------------
(* The proxy *)

\* routes::watch_and_serve: the table is swapped whole.
SwapTable ==
    /\ pfStream["routes"] # <<>>
    /\ pfTable' \in FromBundle(Head(pfStream["routes"]))
    /\ pfStream' = [pfStream EXCEPT !["routes"] = Tail(@)]
    /\ UNCHANGED <<liveVars, builderVars, pfFresh, pfUp, pfLis, pfHeld, pfDrops>>

\* An aborted listener's socket closes when its task is dropped, and a udp
\* one not before the relays of its sessions end.
ListenersAborted(keys) == pfHeld' = pfHeld \cup {k \in keys : pfLis[k].st = "bound"}

\* reconcile: ports that disappeared are aborted, listeners that stay get the
\* new mapping, ports that appeared get a task.  One that could not bind
\* still counts as running.
Reconcile ==
    /\ pfStream["ports"] # <<>>
    /\ LET desired == Head(pfStream["ports"])
           keys == {m[1] : m \in desired}
       IN  /\ pfLis' = [k \in PfKeys |->
                  IF k \notin keys THEN NoListener
                  ELSE [st |-> IF pfLis[k].st = "none" THEN "starting" ELSE pfLis[k].st,
                        svc |-> (CHOOSE m \in desired : m[1] = k)[2]]]
           /\ ListenersAborted(PfKeys \ keys)
    /\ pfStream' = [pfStream EXCEPT !["ports"] = Tail(@)]
    /\ UNCHANGED <<liveVars, builderVars, pfFresh, pfUp, pfTable, pfDrops>>

\* run of tcp_relay and udp_relay: one try to bind.
Bind(k) ==
    /\ pfLis[k].st = "starting"
    /\ pfLis' = [pfLis EXCEPT ![k].st = IF k \in pfHeld THEN "ended" ELSE "bound"]
    /\ UNCHANGED <<liveVars, builderVars, pfFresh, pfStream, pfUp, pfTable, pfHeld, pfDrops>>

SocketFreed(k) ==
    /\ k \in pfHeld
    /\ pfHeld' = pfHeld \ {k}
    /\ UNCHANGED <<liveVars, builderVars, pfFresh, pfStream, pfUp, pfTable, pfLis, pfDrops>>

\* port_mappings::watch_and_serve: the stream ends, every listener is
\* aborted, and ten seconds later it is opened again.
StreamDrops ==
    /\ pfUp /\ pfDrops < PfMaxDrops
    /\ pfUp' = FALSE
    /\ pfDrops' = pfDrops + 1
    /\ pfStream' = [pfStream EXCEPT !["ports"] = <<>>]
    /\ pfLis' = [k \in PfKeys |-> NoListener]
    /\ ListenersAborted(PfKeys)
    /\ UNCHANGED <<liveVars, builderVars, pfFresh, pfTable>>

StreamReopens ==
    /\ ~pfUp
    /\ pfUp' = TRUE
    /\ pfFresh' = [pfFresh EXCEPT !["ports"] = TRUE]
    /\ UNCHANGED <<liveVars, builderVars, pfStream, proxyVars, pfDrops>>

\* The route (or certificate) stream ends: the process exits and starts anew.
ProxyRestarts ==
    /\ pfDrops < PfMaxDrops
    /\ pfDrops' = pfDrops + 1
    /\ pfUp' = TRUE
    /\ pfFresh' = [f \in Feeds |-> TRUE]
    /\ pfStream' = [f \in Feeds |-> <<>>]
    /\ pfTable' \in FromBundle({})
    /\ pfLis' = [k \in PfKeys |-> NoListener]
    /\ pfHeld' = {}
    /\ UNCHANGED <<liveVars, builderVars>>

FeedNext ==
    \/ \E c \in PfConfigs : ApplyServices(c)
    \/ ApplyTables
    \/ \E f \in Feeds : Wake(f) \/ PublishBundle(f) \/ SendSnapshot(f)
    \/ ReadServices
    \/ SwapTable \/ Reconcile
    \/ \E k \in PfKeys : Bind(k) \/ SocketFreed(k)
    \/ StreamDrops \/ StreamReopens \/ ProxyRestarts

FeedSpec == FeedInit /\ [][FeedNext]_pfVars

-----------------------------------------------------------------------------
FeedQuiet ==
    /\ pfApply = {} /\ pfUp
    /\ \A f \in Feeds : ~pfPermit[f] /\ pfBuild[f] = "idle" /\ ~pfFresh[f] /\ pfStream[f] = <<>>

\* Once nothing is under way the proxy routes by the live configuration, and
\* its listeners are exactly the mapped ports with their current services:
\* no notification, bundle or snapshot is lost however the steps of an edit,
\* a builder and a dropped stream interleave.  A listener counts from the time
\* reconcile has started its task, also one that could not bind its port and
\* ended: reconcile does not look (MappedPortIsServed).
ProxyFollowsConfig ==
    FeedQuiet =>
        /\ pfTable \in FromBundle(RouteBundle(pfSvcs, pfRoutes))
        /\ {<<k, pfLis[k].svc>> : k \in {k \in PfKeys : pfLis[k].st # "none"}} = PortBundle(pfSvcs)

\* A request goes to the service of the longest path prefix its host
\* declares, whatever order the bundle came in.
LongestPrefixWins ==
    \A h \in PfHosts, path \in PfPaths :
        LET cover == {r \in UNION {Range(pfTable[g]) : g \in DOMAIN pfTable \cap {h}} : IsPrefix(r[2], path)}
            best == {r \in cover : \A q \in cover : Len(q[2]) <= Len(r[2])}
        IN  cover # {} => Resolve(pfTable, h, path) \in {<<"service", r[3]>> : r \in best}

\* port_mappings.rs: "keep TCP/UDP listeners in sync with it for as long as
\* the proxy runs": at rest, every mapped port has a listener that is bound.
MappedPortIsServed ==
    FeedQuiet /\ (\A k \in PfKeys : pfLis[k].st # "starting") =>
        \A m \in PortBundle(pfSvcs) : pfLis[m[1]].st = "bound"

\* At rest the proxy has a listener task for exactly the mapped ports and routes
\* as the configuration says (port_mappings.rs, routes.rs).
RequestsFollowConfig == ProxyFollowsConfig /\ LongestPrefixWins
=============================================================================
