-------------------------- MODULE ServicesConfig --------------------------
(***************************************************************************)
(* The configuration of the server: the stacks stored in the database, the *)
(* services and routes that are live, and the handlers of the HTTP API     *)
(* that change them (service_config.rs, routes.rs, observation.rs).        *)
(*                                                                         *)
(* A handler checks its request against the live set, writes the database  *)
(* in one transaction and then reloads everything from it, all under       *)
(* `config_lock'.  The handlers of the two editors are dropped with their  *)
(* connection; those of observation run in a task of their own.  A write   *)
(* of a dropped handler may still be queued, and commits later.            *)
(*                                                                         *)
(* A stack is its services (name -> kind), its backend links and its       *)
(* routes (host -> target).  Kinds: "http", an entry point that a route    *)
(* may target; "tcp", a service with the one listen_port of the model;     *)
(* "peer", a declared service without timeout; "slot", a name that is only *)
(* another's dependency and has a placeholder in the live map.             *)
(***************************************************************************)
EXTENDS Naturals, FiniteSets, Functions

CONSTANTS CfStacks, CfHosts, CfRequests,
          CfOffers,     \* the service lists clients save: [svcs, links]
          CfMaxEdits,   \* bound on requests that pass their checks
          CfMaxFaults   \* bound on dropped handlers and failed reloads

VARIABLES cfDb,         \* stack -> its rows
          cfObs,        \* stack -> its last observation
          cfLive,       \* AppState.services: stack -> [svcs, links]
          cfRoutes,     \* AppState.routes: stack -> routes
          cfReq,        \* the handler of each request
          cfLate,       \* writes of dropped handlers, not committed yet
          cfUp,         \* the server loaded its configuration at start
          cfEdits,      \* requests so far
          cfFaults      \* handlers dropped and reloads that could not read, so far

cfVars == <<cfDb, cfObs, cfLive, cfRoutes, cfReq, cfLate, cfUp, cfEdits, cfFaults>>

NoRoutes == [h \in {} |-> "none"]
NoRow == [state |-> "none", saved |-> {}, applied |-> FALSE]
CfIdle == [pc |-> "idle"]

RouteTables == UNION {[hs -> {"redirect"} \cup UNION {DOMAIN o.svcs : o \in CfOffers}] : hs \in SUBSET CfHosts}

ConfigInit ==
    /\ cfDb = [s \in {} |-> NoRow]
    /\ cfObs = [s \in CfStacks |-> NoRow]
    /\ cfLive = [s \in {} |-> NoRow]
    /\ cfRoutes = [s \in {} |-> NoRoutes]
    /\ cfReq = [r \in CfRequests |-> CfIdle]
    /\ cfLate = {}
    /\ cfUp = TRUE
    /\ cfEdits = 0
    /\ cfFaults = 0

-----------------------------------------------------------------------------
(* Validation *)

Declared(svcs) == {n \in DOMAIN svcs : svcs[n] # "slot"}
AllLinks(svcs) == {l \in Declared(svcs) \X Declared(svcs) : l[1] # l[2]}

\* build_route_entries: a service target is an http entry point of the stack.
RoutesValid(svcs, routes) ==
    \A h \in DOMAIN routes :
        routes[h] # "redirect" => routes[h] \in Declared(svcs) /\ svcs[routes[h]] = "http"

\* observation_backends: at least two services; their ports differ here.
Observable(svcs) == Cardinality(Declared(svcs)) >= 2

PortHolders(live) == {x \in UNION {{s} \X DOMAIN live[s].svcs : s \in DOMAIN live} : live[x[1]].svcs[x[2]] = "tcp"}

\* detect_port_conflicts, detect_name_conflicts, detect_route_conflicts: the
\* stacks that are party to one.
PortConflicts(live) ==
    {x[1] : x \in {y \in PortHolders(live) : \E z \in PortHolders(live) : z # y}}
NameConflicts(live) ==
    {s \in DOMAIN live : \E t \in DOMAIN live \ {s} : DOMAIN live[s].svcs \cap DOMAIN live[t].svcs # {}}
RouteConflicts(routes) ==
    {s \in DOMAIN routes : \E t \in DOMAIN routes \ {s} : DOMAIN routes[s] \cap DOMAIN routes[t] # {}}
Conflicts(live, routes) == PortConflicts(live) \cup NameConflicts(live) \cup RouteConflicts(routes)

Put(f, s, v) == [t \in DOMAIN f \cup {s} |-> IF t = s THEN v ELSE f[t]]

\* The pre-check of a save: the live set with the new stack swapped in.
PreCheck(s, lists, routes) ==
    s \notin Conflicts(Put(cfLive, s, lists), Put(cfRoutes, s, routes))

-----------------------------------------------------------------------------
(* Loading *)

Lists(row) == [svcs |-> row.svcs, links |-> row.links]
Observed(row) == [svcs |-> row.svcs, links |-> AllLinks(row.svcs)]

\* ServicesToml::load: an error unless every stack validates.
StackLoads(s) ==
    /\ RoutesValid(cfDb[s].svcs, cfDb[s].routes)
    /\ cfObs[s].state = "active" => Observable(cfDb[s].svcs)
CanLoad == \A s \in DOMAIN cfDb : StackLoads(s)
FaultyLoadServices == [s \in DOMAIN cfDb |-> Lists(cfDb[s])]
LoadServices == [s \in DOMAIN cfDb |-> IF cfObs[s].state = "active" THEN Observed(cfDb[s]) ELSE Lists(cfDb[s])]
LoadRoutes == [s \in DOMAIN cfDb |-> cfDb[s].routes]

\* load_validated: the stacks of any conflict are left out at start.
StartStacks == DOMAIN cfDb \ Conflicts(LoadServices, LoadRoutes)

-----------------------------------------------------------------------------
(* The two editors *)

Edit == cfEdits < CfMaxEdits /\ cfEdits' = cfEdits + 1
Fault == cfFaults < CfMaxFaults /\ cfFaults' = cfFaults + 1

Locked == \E r \in CfRequests : cfReq[r].pc # "idle"
FaultyLocks(r) == cfUp /\ cfReq[r].pc = "idle" /\ Edit
\* A handler has config_lock, and goes on to pass its checks.
Locks(r) == cfUp /\ ~Locked /\ Edit
\* require_inactive
Inactive(s) == cfObs[s].state # "active"

StoredRoutes(s) == IF s \in DOMAIN cfDb THEN cfDb[s].routes ELSE NoRoutes
Write(s, part, row) == [pc |-> "write", stack |-> s, part |-> part, row |-> row]
RouteRow(offer, routes) == [svcs |-> offer.svcs, links |-> offer.links, routes |-> routes]

FaultySaveServices(r, s, offer) ==
    /\ Locks(r) /\ Inactive(s)
    /\ PreCheck(s, offer, StoredRoutes(s))
    /\ cfReq' = [cfReq EXCEPT ![r] = Write(s, "services", RouteRow(offer, NoRoutes))]
    /\ UNCHANGED <<cfDb, cfObs, cfLive, cfRoutes, cfLate, cfUp, cfFaults>>
\* service_config.rs save_handler: validated with the stored routes.
SaveServices(r, s, offer) ==
    /\ Locks(r) /\ Inactive(s)
    /\ RoutesValid(offer.svcs, StoredRoutes(s))
    /\ PreCheck(s, offer, StoredRoutes(s))
    /\ cfReq' = [cfReq EXCEPT ![r] = Write(s, "services", RouteRow(offer, NoRoutes))]
    /\ UNCHANGED <<cfDb, cfObs, cfLive, cfRoutes, cfLate, cfUp, cfFaults>>

\* routes.rs save_handler: validated with the live services.
SaveRoutes(r, s, routes) ==
    /\ Locks(r) /\ Inactive(s)
    /\ s \in DOMAIN cfLive
    /\ RoutesValid(cfLive[s].svcs, routes)
    /\ s \notin RouteConflicts(Put(cfRoutes, s, routes))
    /\ cfReq' = [cfReq EXCEPT ![r] = Write(s, "routes", RouteRow(cfLive[s], routes))]
    /\ UNCHANGED <<cfDb, cfObs, cfLive, cfRoutes, cfLate, cfUp, cfFaults>>

\* import_handler: the services and the routes of one TOML text.
Import(r, s, offer, routes) ==
    /\ Locks(r) /\ Inactive(s)
    /\ RoutesValid(offer.svcs, routes)
    /\ PreCheck(s, offer, routes)
    /\ cfReq' = [cfReq EXCEPT ![r] = Write(s, "both", RouteRow(offer, routes))]
    /\ UNCHANGED <<cfDb, cfObs, cfLive, cfRoutes, cfLate, cfUp, cfFaults>>

DeleteStack(r, s) ==
    /\ Locks(r) /\ Inactive(s)
    /\ s \in DOMAIN cfDb
    /\ cfReq' = [cfReq EXCEPT ![r] = Write(s, "delete", RouteRow(cfDb[s], NoRoutes))]
    /\ UNCHANGED <<cfDb, cfObs, cfLive, cfRoutes, cfLate, cfUp, cfFaults>>

\* put_configuration (the parts given) or delete, one transaction.  Routes of
\* a stack without a row get one without services.
Committed(w) ==
    LET s == w.stack
        old == IF s \in DOMAIN cfDb THEN cfDb[s] ELSE RouteRow([svcs |-> [n \in {} |-> "slot"], links |-> {}], NoRoutes)
    IN  IF w.part = "delete" THEN Restrict(cfDb, DOMAIN cfDb \ {s})
        ELSE Put(cfDb, s, [svcs |-> IF w.part = "routes" THEN old.svcs ELSE w.row.svcs,
                           links |-> IF w.part = "routes" THEN old.links ELSE w.row.links,
                           routes |-> IF w.part = "services" THEN old.routes ELSE w.row.routes])
\* The observations of a deleted stack go with it.
ObsAfter(w) == IF w.part = "delete" THEN [cfObs EXCEPT ![w.stack] = NoRow] ELSE cfObs

WriteRows(r, ok) ==
    /\ cfReq[r].pc = "write"
    /\ IF ok
       THEN /\ cfDb' = Committed(cfReq[r])
            /\ cfObs' = ObsAfter(cfReq[r])
            /\ cfReq' = [cfReq EXCEPT ![r] = [pc |-> "reload"]]
       ELSE /\ cfReq' = [cfReq EXCEPT ![r] = CfIdle]
            /\ UNCHANGED <<cfDb, cfObs>>
    /\ UNCHANGED <<cfLive, cfRoutes, cfLate, cfUp, cfEdits, cfFaults>>

\* reload_and_apply up to the live services; it gives up on an error of the
\* load and on any conflict of any two stacks, and the caller still answers ok.
FaultyReload(r, reads) ==
    /\ cfReq[r].pc = "reload"
    /\ IF reads /\ CanLoad
       THEN /\ cfLive' = LoadServices
            /\ cfReq' = [cfReq EXCEPT ![r] = [pc |-> "routes", routes |-> LoadRoutes]]
       ELSE /\ cfReq' = [cfReq EXCEPT ![r] = CfIdle]
            /\ UNCHANGED cfLive
    /\ IF reads THEN UNCHANGED cfFaults ELSE Fault
    /\ UNCHANGED <<cfDb, cfObs, cfRoutes, cfLate, cfUp, cfEdits>>
Reload(r, reads) ==
    /\ cfReq[r].pc = "reload"
    /\ IF reads /\ CanLoad /\ Conflicts(LoadServices, LoadRoutes) = {}
       THEN /\ cfLive' = LoadServices
            /\ cfReq' = [cfReq EXCEPT ![r] = [pc |-> "routes", routes |-> LoadRoutes]]
       ELSE /\ cfReq' = [cfReq EXCEPT ![r] = CfIdle]
            /\ UNCHANGED cfLive
    /\ IF reads THEN UNCHANGED cfFaults ELSE Fault
    /\ UNCHANGED <<cfDb, cfObs, cfRoutes, cfLate, cfUp, cfEdits>>

\* The last part of apply_loaded.
ApplyRoutes(r) ==
    /\ cfReq[r].pc \in {"routes", "finish"}
    /\ cfRoutes' = cfReq[r].routes
    /\ cfReq' = [cfReq EXCEPT ![r] = CfIdle]
    /\ UNCHANGED <<cfDb, cfObs, cfLive, cfLate, cfUp, cfEdits, cfFaults>>

\* The client of an editor disconnects: its handler is dropped where it stands.
Disconnect(r) ==
    /\ \/ cfReq[r].pc = "write" /\ cfLate' = cfLate \cup {cfReq[r]}
       \/ cfReq[r].pc \in {"write", "reload", "routes"} /\ UNCHANGED cfLate
    /\ cfReq' = [cfReq EXCEPT ![r] = CfIdle]
    /\ Fault
    /\ UNCHANGED <<cfDb, cfObs, cfLive, cfRoutes, cfUp, cfEdits>>

CommitLate(w) ==
    /\ cfDb' = Committed(w)
    /\ cfObs' = ObsAfter(w)
    /\ cfLate' = cfLate \ {w}
    /\ UNCHANGED <<cfLive, cfRoutes, cfReq, cfUp, cfEdits, cfFaults>>

-----------------------------------------------------------------------------
(* Observation of a stack, in a task that no disconnect ends *)

Apply(r, loaded) == cfReq' = [cfReq EXCEPT ![r] = [pc |-> "apply", live |-> loaded, routes |-> LoadRoutes]]

StartObservation(r, s) ==
    /\ Locks(r) /\ Inactive(s)
    /\ s \in DOMAIN cfDb
    /\ Observable(cfDb[s].svcs)
    /\ CanLoad
    /\ cfObs' = [cfObs EXCEPT ![s] = [state |-> "active", saved |-> {Lists(cfDb[s])}, applied |-> FALSE]]
    /\ Apply(r, Put(LoadServices, s, Observed(cfDb[s])))
    /\ UNCHANGED <<cfDb, cfLive, cfRoutes, cfLate, cfUp, cfFaults>>

StopObservation(r, s) ==
    /\ Locks(r) /\ ~Inactive(s)
    /\ s \in DOMAIN cfDb
    /\ CanLoad
    /\ cfObs' = [cfObs EXCEPT ![s].state = "ended"]
    /\ Apply(r, Put(LoadServices, s, Lists(cfDb[s])))
    /\ UNCHANGED <<cfDb, cfLive, cfRoutes, cfLate, cfUp, cfFaults>>

\* apply_handler: the links that were seen replace those of the snapshot.
ApplyObservation(r, s, seen) ==
    /\ Locks(r) /\ Inactive(s)
    /\ cfObs[s].state = "ended" /\ ~cfObs[s].applied
    /\ s \in DOMAIN cfDb
    /\ Lists(cfDb[s]) \in cfObs[s].saved
    /\ CanLoad
    /\ cfDb' = [cfDb EXCEPT ![s] = RouteRow([svcs |-> cfDb[s].svcs, links |-> seen], cfDb[s].routes)]
    /\ cfObs' = [cfObs EXCEPT ![s].applied = TRUE]
    /\ Apply(r, Put(LoadServices, s, [svcs |-> cfDb[s].svcs, links |-> seen]))
    /\ UNCHANGED <<cfLive, cfRoutes, cfLate, cfUp, cfFaults>>

\* apply_loaded of the snapshot a handler of observation took.
ApplyLoaded(r) ==
    /\ cfReq[r].pc = "apply"
    /\ cfLive' = cfReq[r].live
    /\ cfReq' = [cfReq EXCEPT ![r] = [pc |-> "finish", routes |-> cfReq[r].routes]]
    /\ UNCHANGED <<cfDb, cfObs, cfRoutes, cfLate, cfUp, cfEdits, cfFaults>>

-----------------------------------------------------------------------------
\* The server stops anywhere and starts again; it does not start when the
\* stored configuration has an error.
Restart ==
    /\ cfUp
    /\ cfReq' = [r \in CfRequests |-> CfIdle]
    /\ cfLate' = {}
    /\ cfUp' = CanLoad
    /\ LET stacks == IF CanLoad THEN StartStacks ELSE {}
       IN  cfLive' = Restrict(LoadServices, stacks) /\ cfRoutes' = Restrict(LoadRoutes, stacks)
    /\ UNCHANGED <<cfDb, cfObs, cfEdits, cfFaults>>

ConfigNext ==
    \/ \E r \in CfRequests :
        \/ \E s \in CfStacks :
            \/ \E o \in CfOffers : SaveServices(r, s, o)
            \/ \E t \in RouteTables : SaveRoutes(r, s, t)
            \/ \E o \in CfOffers, t \in RouteTables : Import(r, s, o, t)
            \/ DeleteStack(r, s)
            \/ StartObservation(r, s)
            \/ StopObservation(r, s)
            \/ s \in DOMAIN cfDb /\ \E seen \in SUBSET AllLinks(cfDb[s].svcs) : ApplyObservation(r, s, seen)
        \/ \E b \in BOOLEAN : WriteRows(r, b) \/ Reload(r, b)
        \/ ApplyRoutes(r)
        \/ ApplyLoaded(r)
        \/ Disconnect(r)
    \/ \E w \in cfLate : CommitLate(w)
    \/ Restart

ConfigSpec == ConfigInit /\ [][ConfigNext]_cfVars

-----------------------------------------------------------------------------
\* The stored configuration is always one the server can start with: no
\* sequence of accepted edits leaves a route without the service it targets
\* (service_config.rs: "a service delete/rename can't silently orphan a
\* route"; input.rs: "Don't brick the control plane").
StoredConfigLoads == CanLoad

\* It is, as long as no handler was dropped and no reload failed to read:
\* services are checked with the stored routes, routes with the live services.
EditsKeepConfigLoadable == cfFaults = 0 => CanLoad

\* Then every answered edit is also the one that is live: the pre-check and
\* config_lock leave no conflict for the reload to stumble on.
AnsweredEditIsLive ==
    (cfFaults = 0 /\ ~Locked) => cfUp /\ cfLive = LoadServices /\ cfRoutes = LoadRoutes

\* A reload never makes two stacks claim one name or one port, whatever was
\* stored before it: it is the backstop of the pre-checks.
ReloadKeepsNamesApart ==
    [][\A r \in CfRequests : (cfReq[r].pc = "reload" /\ cfLive' # cfLive) =>
         PortConflicts(cfLive') \cup NameConflicts(cfLive') = {}]_cfVars

\* While a stack is observed its services have every link, whatever other
\* edits, reloads and restarts happen.
ObservedHasEveryLink ==
    (cfUp /\ ~Locked) => \A s \in DOMAIN cfLive :
                  cfObs[s].state = "active" => cfLive[s].links = AllLinks(cfLive[s].svcs)

\* An edit that was answered is live, what is stored can be loaded, and the
\* links of an observation are there as long as it lasts (reload_and_apply).
EditsTakeEffect ==
    /\ [](EditsKeepConfigLoadable /\ AnsweredEditIsLive /\ ObservedHasEveryLink)
    /\ ReloadKeepsNamesApart
=============================================================================
