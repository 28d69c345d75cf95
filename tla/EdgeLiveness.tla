---------------------------- MODULE EdgeLiveness ----------------------------
(***************************************************************************)
(* When an egress edge is idle.  The initiator's client keeps the open     *)
(* connections of each container (OpenFlows) and tells the server when the *)
(* first opens and the last closes; the server reaps an edge that has been *)
(* idle for the debounce.  Three tasks of the client update the set and    *)
(* report: the NFQUEUE handler of a held first packet, the DESTROY         *)
(* listener, and the periodic reconcile.  Each waits for its own report,   *)
(* none for the others'.                                                   *)
(*                                                                         *)
(* Client: conntrack.rs (retire_flow, spawn_destroy_listener,              *)
(* reconcile_container, spawn_reconcile_task), nfqueue/egress_listener.rs  *)
(* (handle_packet), egress_policy.rs (flush_container_conntrack).  Server: *)
(* set_egress_liveness, reap_idle_egress_edges and the edge that           *)
(* ensure_egress_edge makes (orchestrator.rs).  The kernel's conntrack     *)
(* table and the connections themselves are the environment.               *)
(*                                                                         *)
(* Everything that can go wrong may go wrong at any time: the kernel drops *)
(* events, reports of different tasks overtake one another, an RPC fails,  *)
(* the client flushes conntrack itself, an edge comes up too late for its  *)
(* packet, the table is dumped while a first packet is held.  An operator  *)
(* placed just before the definition it varies is a faulty variant, kept   *)
(* to show that a property notices the fault.                              *)
(***************************************************************************)
EXTENDS OpenFlows, Sequences, SequencesExt

CONSTANT MaxFlushes (* bound: policy changes                                *)

ASSUME LivenessAssumption ==
    /\ MaxFlushes \in Nat
    /\ \A f \in Flows : \E o \in Owners : MayOwn[f] = {o}   \* addresses do not move here
    /\ Flows \cap {"destroy", "reconcile"} = {}            \* names of tasks

VARIABLES
    open,       (* connections that are open                                *)
    table,      (* flows with a conntrack entry                             *)
    events,     (* DESTROY events not read yet                              *)
    held,       (* flow -> what its held first packet waits for             *)
    flushing,   (* owners whose conntrack entries are about to be deleted   *)
    flushes,    (* policy changes so far                                    *)
    reports,    (* liveness RPCs on their way, oldest first                 *)
    recon,      (* the reconcile task: its step, its dump, owners to do     *)
    edge,       (* owner -> its edge on the server                          *)
    steered,    (* owners whose steering the client has installed           *)
    raced       (* history: owners of whom, since they were last at rest, a *)
                (* dump overlooked a held packet, a mark ended before the   *)
                (* flush it covers was made good, or a report went astray   *)

flushVars == <<flushing, flushes>>
envVars  == <<open, table, events, held, flushVars>>
rpcVars  == <<reports, edge, steered, raced>>
lvVars   == <<flowVars, envVars, rpcVars, recon>>

OwnerOf(f) == CHOOSE o \in Owners : o \in MayOwn[f]
OpenOf(o) == {f \in open : OwnerOf(f) = o}
Recorded(f) == held[f] \in {"report", "verdict"}
\* What the set should hold: flows with an entry, or whose recorded packet is held.
Known(o) == {f \in Flows : OwnerOf(f) = o /\ (f \in table \/ Recorded(f))}
\* Open connections whose entry a flush took and whose next packet has not come.
Unjudged(o) == OpenOf(o) \ Known(o)
Sleeping == [at |-> "sleep", dump |-> {}, todo |-> {}]

LvInit ==
    /\ Init
    /\ open = {} /\ table = {} /\ events = <<>>
    /\ held = [f \in Flows |-> "no"]
    /\ flushing = {} /\ flushes = 0
    /\ reports = <<>>
    /\ recon = Sleeping
    /\ edge = [o \in Owners |-> "none"]
    /\ steered = {} /\ raced = {}

Report(o, active, by) == [owner |-> o, active |-> active, by |-> by]
ReportsOf(o) == {i \in DOMAIN reports : reports[i].owner = o}
Reporting(by) == \E i \in DOMAIN reports : reports[i].by = by

\* The mark of a flush has ended although connections it cut are still to be
\* judged again: an insert or a dump that finds something ends it, or time does.
MarkEnded(o) == ~suppressed[o] /\ Unjudged(o) # {}
CheckMarks == raced' = raced \cup {o \in Owners : MarkEnded(o)'}

-----------------------------------------------------------------------------
(***************************************************************************)
(* The held first packet.  A container without steering gets its edge      *)
(* first; then the flow is recorded, a 0 -> 1 is reported, and only when   *)
(* that report has returned is the packet let go.                          *)
(***************************************************************************)
InsertThenReport(f) ==
    LET o == OwnerOf(f) IN
    /\ insert(o, f)
    /\ reports' = IF EmitsActive(o) THEN Append(reports, Report(o, TRUE, f)) ELSE reports
    /\ held' = [held EXCEPT ![f] = IF EmitsActive(o) THEN "report" ELSE "verdict"]

\* A first packet: of a new connection, or of one whose entry was flushed.  A
\* five-tuple is not reused before its DESTROY has been read.
FirstPacketOf(f) ==
    /\ held[f] = "no"
    /\ f \notin table
    /\ \A i \in DOMAIN events : events[i] # f

NewPacket(f) ==
    /\ FirstPacketOf(f)
    /\ OwnerOf(f) \in steered
    /\ InsertThenReport(f)
    /\ UNCHANGED <<open, table, events, flushVars, edge, steered, recon>>
    /\ CheckMarks

\* ensure_egress_edge: a live edge is kept as it is, a new one is not idle.  The
\* packet waits until the steering of the edge is installed.  For a container at
\* rest this is a fresh start.
AtRest(o) ==
    /\ edge[o] = "none" /\ per_owner[o] = {}
    /\ OpenOf(o) = {} /\ Known(o) = {}
    /\ ReportsOf(o) = {} /\ o \notin recon.todo

NewPacketTriggers(f) ==
    LET o == OwnerOf(f) IN
    /\ FirstPacketOf(f)
    /\ o \notin steered
    /\ held' = [held EXCEPT ![f] = "steer"]
    /\ edge' = [edge EXCEPT ![o] = IF @ = "none" THEN "active" ELSE @]
    /\ raced' = IF AtRest(o) THEN raced \ {o} ELSE raced
    /\ UNCHANGED <<flowVars, open, table, events, flushVars, reports, steered, recon>>

SteerArrives(o) ==
    /\ o \notin steered
    /\ edge[o] # "none"
    /\ steered' = steered \cup {o}
    /\ UNCHANGED <<flowVars, envVars, reports, edge, recon, raced>>

Steered(f) ==
    /\ held[f] = "steer"
    /\ OwnerOf(f) \in steered
    /\ InsertThenReport(f)
    /\ UNCHANGED <<open, table, events, flushVars, edge, steered, recon>>
    /\ CheckMarks

\* The trigger or the wait for the steering times out: the packet is dropped.
SteerTimeout(f) ==
    /\ held[f] = "steer"
    /\ OwnerOf(f) \notin steered
    /\ held' = [held EXCEPT ![f] = "no"]
    /\ UNCHANGED <<flowVars, open, table, events, flushVars, rpcVars, recon>>

Verdict(f) ==
    /\ held[f] = "verdict"
    /\ held' = [held EXCEPT ![f] = "no"]
    /\ open' = open \cup {f}
    /\ table' = table \cup {f}
    /\ UNCHANGED <<flowVars, events, flushVars, rpcVars, recon>>

-----------------------------------------------------------------------------
(***************************************************************************)
(* The kernel.                                                             *)
(***************************************************************************)
Close(f) ==
    /\ f \in open
    /\ held[f] = "no"
    /\ open' = open \ {f}
    /\ UNCHANGED <<flowVars, table, events, held, flushVars, rpcVars, recon>>

\* The entry of a closed connection goes; its event may be dropped.
Destroyed(f) ==
    /\ f \in table \ open
    /\ table' = table \ {f}
    /\ \/ events' = Append(events, f)
       \/ UNCHANGED events
    /\ UNCHANGED <<flowVars, open, held, flushVars, rpcVars, recon>>

-----------------------------------------------------------------------------
(***************************************************************************)
(* The DESTROY listener: one event at a time, waiting for its report.      *)
(***************************************************************************)
RetireWithoutWaiting ==
    /\ events # <<>>
    /\ LET f == Head(events)
           o == owner_of[f] IN
       /\ remove(f)
       /\ reports' = IF o # NoOwner /\ EmitsIdle(o, per_owner[o] \ {f})
                     THEN Append(reports, Report(o, FALSE, "destroy")) ELSE reports
    /\ events' = Tail(events)
    /\ UNCHANGED <<open, table, held, flushVars, edge, steered, recon, raced>>

RetireFlow ==
    /\ events # <<>>
    /\ ~Reporting("destroy")
    /\ LET f == Head(events)
           o == owner_of[f] IN
       /\ remove(f)
       /\ reports' = IF o # NoOwner /\ EmitsIdle(o, per_owner[o] \ {f})
                     THEN Append(reports, Report(o, FALSE, "destroy")) ELSE reports
    /\ events' = Tail(events)
    /\ UNCHANGED <<open, table, held, flushVars, edge, steered, recon, raced>>

(***************************************************************************)
(* The reconcile task: read the revisions, dump the table, then replace    *)
(* the set of every owner nothing has touched since.                       *)
(***************************************************************************)
StartReconcile ==
    /\ recon.at = "sleep"
    /\ ReadRevisions
    /\ recon' = [Sleeping EXCEPT !.at = "dump"]
    /\ UNCHANGED <<envVars, rpcVars>>

\* A recorded flow has no entry in the table until its packet is let go.
Dump ==
    /\ recon.at = "dump"
    /\ recon' = [at |-> "apply", dump |-> table, todo |-> Owners]
    /\ raced' = raced \cup {o \in Owners : unchanged[o] /\ \E f \in FlowsOf(o) : Recorded(f)}
    /\ UNCHANGED <<flowVars, envVars, reports, edge, steered>>

DumpFails ==
    /\ recon.at = "dump"
    /\ recon' = Sleeping
    /\ UNCHANGED <<flowVars, envVars, rpcVars>>

ApplyToAllTouched(o) ==
    LET dump == recon.dump \cap FlowsOf(o) IN
    /\ recon.at = "apply"
    /\ ~Reporting("reconcile")
    /\ o \in recon.todo
    /\ per_owner' = [per_owner EXCEPT ![o] = dump]
    /\ owner_of' = [f \in Flows |-> IF f \in dump THEN o
                                    ELSE IF f \in per_owner[o] THEN NoOwner ELSE owner_of[f]]
    /\ reports' = IF EmitsIdle(o, dump)
                  THEN Append(reports, Report(o, FALSE, "reconcile")) ELSE reports
    /\ recon' = [recon EXCEPT !.todo = @ \ {o}]
    /\ UNCHANGED <<suppressed, unchanged, told, silenced, envVars, edge, steered>>
    /\ CheckMarks

ReconcileSkipsEmpty(o) ==
    LET dump == recon.dump \cap FlowsOf(o) IN
    /\ recon.at = "apply"
    /\ ~Reporting("reconcile")
    /\ o \in recon.todo
    /\ IF dump = {} THEN UNCHANGED flowVars ELSE reconcile_at(o, dump)
    /\ recon' = [recon EXCEPT !.todo = @ \ {o}]
    /\ UNCHANGED <<envVars, reports, edge, steered>>
    /\ CheckMarks

ReconcileContainer(o) ==
    LET dump == recon.dump \cap FlowsOf(o) IN
    /\ recon.at = "apply"
    /\ ~Reporting("reconcile")
    /\ o \in recon.todo
    /\ reconcile_at(o, dump)
    /\ reports' = IF unchanged[o] /\ EmitsIdle(o, dump)
                  THEN Append(reports, Report(o, FALSE, "reconcile")) ELSE reports
    /\ recon' = [recon EXCEPT !.todo = @ \ {o}]
    /\ UNCHANGED <<envVars, edge, steered>>
    /\ CheckMarks

ReconcileDone ==
    /\ recon.at = "apply"
    /\ recon.todo = {}
    /\ ~Reporting("reconcile")
    /\ recon' = Sleeping
    /\ UNCHANGED <<flowVars, envVars, rpcVars>>

(***************************************************************************)
(* The egress policy changed: the client marks the container, then deletes *)
(* its conntrack entries, so that live connections are judged again.       *)
(***************************************************************************)
SuppressForFlush(o) ==
    /\ o \notin flushing
    /\ flushes < MaxFlushes
    /\ flushes' = flushes + 1
    /\ suppress_for(o)
    /\ flushing' = flushing \cup {o}
    /\ UNCHANGED <<open, table, events, held, rpcVars, recon>>

\* A flush that fails leaves the entries.
Flush(o) ==
    /\ o \in flushing
    /\ flushing' = flushing \ {o}
    /\ \E gone \in {{}, {f \in table : OwnerOf(f) = o}} :
          /\ table' = table \ gone
          /\ events' = events \o SetToSeq(gone)
    /\ UNCHANGED <<flushes, flowVars, open, held, reports, edge, steered, recon>>
    /\ CheckMarks

\* The window is much longer than the flush and the reading of its events.
SuppressionPasses(o) ==
    /\ o \notin flushing /\ events = <<>>
    /\ SuppressionExpires(o)
    /\ UNCHANGED <<envVars, reports, edge, steered, recon>>
    /\ CheckMarks

-----------------------------------------------------------------------------
(***************************************************************************)
(* The report returns, having reached the server or not: set_egress_       *)
(* liveness, and the task that waited goes on.                             *)
(***************************************************************************)
Returned(i) ==
    LET r == reports[i] IN
    /\ reports' = RemoveAt(reports, i)
    /\ held' = IF r.by \in Flows THEN [held EXCEPT ![r.by] = "verdict"] ELSE held
    /\ UNCHANGED <<flowVars, open, table, events, flushVars, steered, recon>>

SetEgressLiveness(i) ==
    LET r == reports[i] IN
    /\ Returned(i)
    /\ edge' = [edge EXCEPT ![r.owner] =
                  IF @ = "none" THEN @ ELSE IF r.active THEN "active" ELSE "idle"]
    /\ raced' = IF \E j \in ReportsOf(r.owner) : j < i THEN raced \cup {r.owner} ELSE raced

ReportFails(i) ==
    /\ Returned(i)
    /\ raced' = raced \cup {reports[i].owner}
    /\ UNCHANGED edge

\* Idle past the debounce, which is longer than a report is on its way: the
\* edge is forgotten and torn down.
Reap(o) ==
    /\ edge[o] = "idle"
    /\ \A i \in DOMAIN reports : reports[i].owner # o
    /\ edge' = [edge EXCEPT ![o] = "none"]
    /\ UNCHANGED <<flowVars, envVars, reports, steered, recon, raced>>

\* The teardown reaches the client, which forgets its steering.
TeardownArrives(o) ==
    /\ o \in steered
    /\ edge[o] = "none"
    /\ steered' = steered \ {o}
    /\ UNCHANGED <<flowVars, envVars, reports, edge, recon, raced>>

-----------------------------------------------------------------------------
Tasks ==
    \/ \E f \in Flows : Steered(f) \/ SteerTimeout(f) \/ Verdict(f) \/ Destroyed(f)
    \/ RetireFlow
    \/ \E i \in DOMAIN reports : SetEgressLiveness(i) \/ ReportFails(i)
    \/ \E o \in Owners : SteerArrives(o) \/ Reap(o) \/ TeardownArrives(o) \/ Flush(o) \/ SuppressionPasses(o)

ReconcilePass ==
    \/ StartReconcile \/ Dump \/ ReconcileDone
    \/ \E o \in Owners : ReconcileContainer(o)

LvNext ==
    \/ \E f \in Flows : NewPacket(f) \/ NewPacketTriggers(f) \/ Close(f)
    \/ Tasks \/ ReconcilePass \/ DumpFails
    \/ \E o \in Owners : SuppressForFlush(o)

LvSpec == LvInit /\ [][LvNext]_lvVars

\* Packets, closes and policy changes are nobody's obligation.  The tasks of
\* both processes run, a dump sometimes succeeds, an RPC sometimes arrives.
LvFairSpec ==
    /\ LvSpec
    /\ \A f \in Flows : /\ WF_lvVars(Steered(f) \/ SteerTimeout(f))
                        /\ WF_lvVars(Verdict(f)) /\ WF_lvVars(Destroyed(f))
    /\ WF_lvVars(RetireFlow)
    /\ WF_lvVars(\E i \in DOMAIN reports : SetEgressLiveness(i) \/ ReportFails(i))
    /\ \A o \in Owners :
          /\ WF_lvVars(SteerArrives(o)) /\ WF_lvVars(Reap(o)) /\ WF_lvVars(TeardownArrives(o))
          /\ WF_lvVars(Flush(o)) /\ WF_lvVars(SuppressionPasses(o))
          /\ WF_lvVars(ReconcileContainer(o))
    /\ WF_lvVars(StartReconcile) /\ SF_lvVars(Dump) /\ WF_lvVars(ReconcileDone)

-----------------------------------------------------------------------------
\* Well-formedness; and each task of the client waits for its own report, so no
\* task ever has two on their way.
LvTypeOK ==
    /\ FlowsTypeOK
    /\ open \subseteq Flows /\ table \subseteq Flows /\ flushing \subseteq Owners
    /\ held \in [Flows -> {"no", "steer", "report", "verdict"}]
    /\ edge \in [Owners -> {"none", "active", "idle"}] /\ steered \subseteq Owners
    /\ recon.at \in {"sleep", "dump", "apply"}
    \* at most one report of each task is on its way
    /\ \A i, j \in DOMAIN reports : reports[i].by = reports[j].by => i = j

\* An edge is never reaped while a connection of its container is open, unless
\* since it was made for a container at rest a dump overlooked a held packet, the
\* mark of a flush ended too early, or a report was lost or overtaken: the report
\* of a first connection returns before its packet is let go, Idle is reported
\* only of an empty set, and a marked flush is not taken for closes.
ReapsIdle(o) == edge[o] # "none" /\ edge'[o] = "none" => OpenOf(o) = {}

ReapOnlyIdle == [][\A o \in Owners \ raced : ReapsIdle(o)]_lvVars

\* The same, whatever else happens.
NeverReapedOpen == [][\A o \in Owners : ReapsIdle(o)]_lvVars

\* An edge whose container was reported active and has no connection left goes,
\* unless a new one comes first, although events are dropped: it is not pinned
\* but by one of these, or by a flush whose mark kept the last close quiet.
Quiet(o) == OpenOf(o) = {} /\ \A f \in FlowsOf(o) : held[f] = "no"
Told(o) == told[o] /\ ~silenced[o] /\ o \notin raced

IdleIsReaped ==
    \A o \in Owners :
        edge[o] # "none" /\ Quiet(o) /\ Told(o) ~>
            (edge[o] = "none" \/ ~Quiet(o) \/ silenced[o] \/ o \in raced)

\* Whatever goes wrong, the set of a container without connections empties:
\* dropped events and stray inserts are repaired by the reconcile.
SetEmpties ==
    \A o \in Owners : Quiet(o) ~> (per_owner[o] = {} \/ ~Quiet(o))

\* The set of open connections and what was told of it stay consistent under
\* every fault (conntrack.rs).
OpenSetSound == LvTypeOK /\ IndexSound /\ NoSilentIdle

\* The set of a container without connections empties, under every fault, and
\* its edge is reaped if the server can know (spawn_reconcile_task,
\* reap_idle_egress_edges).
IdleIsNoticed == IdleIsReaped /\ SetEmpties
=============================================================================
