-------------------------- MODULE BackendSessions --------------------------
(***************************************************************************)
(* The server's table of trigger sessions (Orchestrator::backend_sessions) *)
(* and the one edge reference each of them holds.                          *)
(*                                                                         *)
(* A key is an initiator replica and a trigger port; a port names one      *)
(* peer, so a key has exactly one direct edge, which an ingress chain may  *)
(* use as well.  A build is a detached task with a generation of its own;  *)
(* every step under the services lock is one action.                       *)
(***************************************************************************)
EXTENDS Integers, FiniteSets

CONSTANTS BsKeys, BsGens,
          BsMaxIngress,   \* bound: references ingress chains hold at a time
          BsMaxNets       \* bound: edges ever built

ASSUME BsAssumption == BsGens \subseteq Nat \ {0} /\ {BsMaxIngress, BsMaxNets} \subseteq Nat

VARIABLES bsSess,      \* backend_sessions: key -> session (gen 0: no entry)
          bsTask,      \* generation -> its build
          bsEdge,      \* key -> the edge: references and incarnation (net id)
          bsIngress,   \* key -> references ingress chains took on the edge
          bsNets,      \* incarnations used so far
          bsRows,      \* history rows that are open
          bsClosing,   \* rows whose close is on its way
          bsDebt       \* history: references spent by nobody who held one

bsVars == <<bsSess, bsTask, bsEdge, bsIngress, bsNets, bsRows, bsClosing, bsDebt>>

NoSession == [gen |-> 0, building |-> FALSE, idle |-> "no", row |-> 0]
NoTask == [st |-> "none", key |-> 0, net |-> 0]

BackendInit ==
    /\ bsSess = [k \in BsKeys |-> NoSession]
    /\ bsTask = [g \in BsGens |-> NoTask]
    /\ bsEdge = [k \in BsKeys |-> [refs |-> 0, net |-> 0]]
    /\ bsIngress = [k \in BsKeys |-> 0]
    /\ bsNets = 0
    /\ bsRows = {}
    /\ bsClosing = {}
    /\ bsDebt = [k \in BsKeys |-> 0]

-----------------------------------------------------------------------------
(* The edge *)

\* increment_chain on a live edge, or a fresh one.
Take(k) ==
    IF bsEdge[k].refs > 0
    THEN bsEdge' = [bsEdge EXCEPT ![k].refs = @ + 1] /\ UNCHANGED bsNets
    ELSE /\ bsNets < BsMaxNets
         /\ bsEdge' = [bsEdge EXCEPT ![k] = [refs |-> 1, net |-> bsNets + 1]]
         /\ bsNets' = bsNets + 1

\* Faulty variant: decrements an edge that is not there.
DecrementUnguarded(k) == bsEdge' = [bsEdge EXCEPT ![k].refs = @ - 1]

\* decrement_chain: an absent edge is left alone, the last reference tears it down.
DecrementChain(k) ==
    bsEdge' = [bsEdge EXCEPT ![k].refs = IF @ = 0 THEN 0 ELSE @ - 1]

\* A decrement by a party that held a reference, and by one that held none.
SpendOwn(k) == DecrementChain(k) /\ bsDebt' = [bsDebt EXCEPT ![k] = IF bsEdge[k].refs = 0 THEN @ - 1 ELSE @]
SpendOthers(k) == DecrementChain(k) /\ bsDebt' = [bsDebt EXCEPT ![k] = IF bsEdge[k].refs = 0 THEN @ ELSE @ + 1]

\* Ingress chains through the same edge (module Chains).
IngressTakes(k) ==
    /\ bsIngress[k] < BsMaxIngress
    /\ Take(k)
    /\ bsIngress' = [bsIngress EXCEPT ![k] = @ + 1]
    /\ UNCHANGED <<bsSess, bsTask, bsRows, bsClosing, bsDebt>>

IngressReleases(k) ==
    /\ bsIngress[k] > 0
    /\ SpendOwn(k)
    /\ bsIngress' = [bsIngress EXCEPT ![k] = @ - 1]
    /\ UNCHANGED <<bsSess, bsTask, bsNets, bsRows, bsClosing>>

-----------------------------------------------------------------------------
(* A trigger and its build *)

\* handle_backend_trigger under the services lock: an edge that is there, or a
\* session that is there, needs no build.
NeedsRebuild(k) == bsEdge[k].refs = 0 /\ bsSess[k].gen = 0

\* claim_backend_session, and the detached build that owns the claim.
Trigger(k, g) ==
    /\ NeedsRebuild(k)
    /\ bsTask[g].st = "none"
    /\ bsSess' = [bsSess EXCEPT ![k] = [gen |-> g, building |-> TRUE, idle |-> "no", row |-> 0]]
    /\ bsTask' = [bsTask EXCEPT ![g] = [st |-> "building", key |-> k, net |-> 0]]
    /\ UNCHANGED <<bsEdge, bsIngress, bsNets, bsRows, bsClosing, bsDebt>>

\* Faulty variant: a failed build leaves its claim behind.
CancelNothing(k, g) == UNCHANGED bsSess

\* cancel_backend_session: the session of this generation only.
CancelSession(k, g) ==
    bsSess' = IF bsSess[k].gen = g THEN [bsSess EXCEPT ![k] = NoSession] ELSE bsSess

\* resume_trigger_source fails, there is no branch, or the edge does not come
\* up: nothing was taken; the claim is given back.
BuildFails(g) ==
    /\ bsTask[g].st = "building"
    /\ CancelSession(bsTask[g].key, g)
    /\ bsTask' = [bsTask EXCEPT ![g].st = "done"]
    /\ UNCHANGED <<bsEdge, bsIngress, bsNets, bsRows, bsClosing, bsDebt>>

\* The edge is up and counted for this build.
EdgeBuilt(g) ==
    /\ bsTask[g].st = "building"
    /\ Take(bsTask[g].key)
    /\ bsTask' = [bsTask EXCEPT ![g].st = "taken", ![g].net = bsEdge'[bsTask[g].key].net]
    /\ UNCHANGED <<bsSess, bsIngress, bsRows, bsClosing, bsDebt>>

\* Faulty variant: an invalidated build keeps what it took.
KeepTaken(g) ==
    /\ bsTask' = [bsTask EXCEPT ![g].st = "done"]
    /\ UNCHANGED <<bsSess, bsEdge, bsDebt>>

\* run_net_chain_setup's last step, the claim having been invalidated: the
\* reference goes back, provided the edge is still the one that was built.
UnwindTaken(g) ==
    LET k == bsTask[g].key
    IN  /\ IF bsEdge[k].refs > 0 /\ bsEdge[k].net = bsTask[g].net
           THEN SpendOwn(k)
           ELSE bsDebt' = [bsDebt EXCEPT ![k] = @ - 1] /\ UNCHANGED bsEdge
        /\ bsTask' = [bsTask EXCEPT ![g].st = "done"]
        /\ UNCHANGED bsSess

\* finish_backend_session: the claim, if it still stands, becomes a hold.
Finish(g) ==
    LET k == bsTask[g].key
    IN  /\ bsTask[g].st = "taken"
        /\ IF bsSess[k].gen = g
           THEN /\ bsSess' = [bsSess EXCEPT ![k].building = FALSE]
                /\ bsTask' = [bsTask EXCEPT ![g].st = "finished"]
                /\ UNCHANGED <<bsEdge, bsDebt>>
           ELSE UnwindTaken(g)
        /\ UNCHANGED <<bsIngress, bsNets, bsRows, bsClosing>>

\* persist_backend_session: the row is written without any lock held ...
OpenRow(g) ==
    /\ bsTask[g].st = "finished"
    /\ bsRows' = bsRows \cup {g}
    /\ bsTask' = [bsTask EXCEPT ![g].st = "opened"]
    /\ UNCHANGED <<bsSess, bsEdge, bsIngress, bsNets, bsClosing, bsDebt>>

\* Faulty variant: gives the row to whatever session the key has now.
RecordRowAnyway(g) ==
    LET k == bsTask[g].key
    IN  /\ bsTask[g].st = "opened"
        /\ bsSess' = IF bsSess[k].gen = 0 THEN bsSess ELSE [bsSess EXCEPT ![k].row = g]
        /\ bsTask' = [bsTask EXCEPT ![g].st = "done"]
        /\ UNCHANGED <<bsEdge, bsIngress, bsNets, bsRows, bsClosing, bsDebt>>

\* ... then recorded in the session of its generation, or closed at once.
RecordRow(g) ==
    LET k == bsTask[g].key
    IN  /\ bsTask[g].st = "opened"
        /\ IF bsSess[k].gen = g
           THEN bsSess' = [bsSess EXCEPT ![k].row = g] /\ UNCHANGED bsClosing
           ELSE bsClosing' = bsClosing \cup {g} /\ UNCHANGED bsSess
        /\ bsTask' = [bsTask EXCEPT ![g].st = "done"]
        /\ UNCHANGED <<bsEdge, bsIngress, bsNets, bsRows, bsDebt>>

\* close_backend.
CloseRow(g) ==
    /\ g \in bsClosing
    /\ bsRows' = bsRows \ {g}
    /\ bsClosing' = bsClosing \ {g}
    /\ UNCHANGED <<bsSess, bsTask, bsEdge, bsIngress, bsNets, bsDebt>>

-----------------------------------------------------------------------------
(* Liveness reports and the ways a session ends *)

\* set_backend_liveness: a report for a session the server does not hold is ignored.
Report(k, active) ==
    /\ bsSess[k].gen # 0
    /\ bsSess' = [bsSess EXCEPT ![k].idle = IF active THEN "no" ELSE "yes"]
    /\ UNCHANGED <<bsTask, bsEdge, bsIngress, bsNets, bsRows, bsClosing, bsDebt>>

\* LIVENESS_REAP_DEBOUNCE passes.
DebouncePasses(k) ==
    /\ bsSess[k].idle = "yes"
    /\ bsSess' = [bsSess EXCEPT ![k].idle = "due"]
    /\ UNCHANGED <<bsTask, bsEdge, bsIngress, bsNets, bsRows, bsClosing, bsDebt>>

\* take_due_backend_sessions.
Due(k) == bsSess[k].gen # 0 /\ ~bsSess[k].building /\ bsSess[k].idle = "due"

Row(k) == IF bsSess[k].row = 0 THEN {} ELSE {bsSess[k].row}

\* reap_idle_backend_chains: the session is out of the table before its one
\* reference is released, and its row is closed after the lock.
Reap(k) ==
    /\ Due(k)
    /\ SpendOwn(k)
    /\ bsClosing' = bsClosing \cup Row(k)
    /\ bsSess' = [bsSess EXCEPT ![k] = NoSession]
    /\ UNCHANGED <<bsTask, bsIngress, bsNets, bsRows>>

\* teardown_backend_chain, from a configuration change or a withdrawn replica:
\* cancel_backend_build leaves a build's reference to the build; otherwise the
\* edge is decremented and forget_backend_sessions drops the session.
Teardown(k) ==
    /\ \/ bsSess[k].building /\ UNCHANGED <<bsEdge, bsDebt>>
       \/ ~bsSess[k].building /\ bsSess[k].gen # 0 /\ SpendOwn(k)
       \/ bsSess[k].gen = 0 /\ SpendOthers(k)
    /\ bsClosing' = bsClosing \cup Row(k)
    /\ bsSess' = [bsSess EXCEPT ![k] = NoSession]
    /\ UNCHANGED <<bsTask, bsIngress, bsNets, bsRows>>

BackendNext ==
    \/ \E k \in BsKeys, g \in BsGens : Trigger(k, g)
    \/ \E k \in BsKeys : \/ IngressTakes(k) \/ IngressReleases(k) \/ DebouncePasses(k)
                         \/ Reap(k) \/ Teardown(k) \/ \E active \in BOOLEAN : Report(k, active)
    \/ \E g \in BsGens : \/ BuildFails(g) \/ EdgeBuilt(g) \/ Finish(g)
                         \/ OpenRow(g) \/ RecordRow(g) \/ CloseRow(g)

BackendSpec == BackendInit /\ [][BackendNext]_bsVars

-----------------------------------------------------------------------------
(* Properties *)

TasksOf(k, sts) == {g \in BsGens : bsTask[g].st \in sts /\ bsTask[g].key = k}
Held(k) == IF bsSess[k].gen # 0 /\ ~bsSess[k].building THEN 1 ELSE 0

\* Sessions name generations that exist.
BackendTypeOK ==
    /\ \A k \in BsKeys : /\ bsSess[k].gen \in BsGens \cup {0}
                         /\ bsSess[k].gen # 0 => bsTask[bsSess[k].gen].key = k
                         /\ bsEdge[k].refs \in Nat /\ bsEdge[k].net \in 0..bsNets
    /\ bsRows \subseteq BsGens /\ bsClosing \subseteq BsGens

\* The references on an edge are those of the sessions, the unfinished builds
\* and the ingress chains, less what was spent by somebody who held none: each
\* session's increment is released exactly once, whichever of the reap, a
\* teardown or the build's own unwind comes first.
EveryReferenceSpentOnce ==
    \A k \in BsKeys :
        bsEdge[k].refs + bsDebt[k] = Held(k) + Cardinality(TasksOf(k, {"taken"})) + bsIngress[k]

\* A session marked as building has a build that will finish or cancel it; a
\* claim that outlived its build would answer every later trigger with Ok and
\* never build again.
ClaimHasABuild ==
    \A k \in BsKeys : bsSess[k].building => bsTask[bsSess[k].gen].st \in {"building", "taken"}

\* A history row that is open belongs to a session, or its writer or its close
\* is still on the way, whatever ended the session while it was being written.
NoDanglingRow ==
    \A g \in bsRows : \/ \E k \in BsKeys : bsSess[k].gen = g /\ bsSess[k].row = g
                      \/ bsTask[g].st = "opened"
                      \/ g \in bsClosing

\* What teardown_backend_chain says it consumes: the references of the trigger
\* sessions on these ports, and never one that an ingress chain took.
SpendsOnlyTriggerHolds == \A k \in BsKeys : bsIngress[k] > 0 => bsEdge[k].refs > 0

\* A trigger session owns one reference and one row from its build to its end,
\* whoever ends it (claim_backend_session to take_due_backend_sessions).
SessionsOwnTheirReference ==
    /\ BackendTypeOK
    /\ EveryReferenceSpentOnce
    /\ ClaimHasABuild
    /\ NoDanglingRow
=============================================================================
