-------------------------------- MODULE Pause --------------------------------
(***************************************************************************)
(* Pausing idle containers and resuming them on demand: the pause state of *)
(* a replica and its reconciliation on the server (service_info.rs), the   *)
(* two commands, and their handlers on the client (control_channel.rs).    *)
(*                                                                         *)
(* Several declarations (replicas) may be served by one container.  Each   *)
(* command runs in a task of its own on the client, so two commands for    *)
(* one container may run in either order.                                  *)
(***************************************************************************)
EXTENDS Naturals, FiniteSets, Sequences

CONSTANTS PsReplicas, PsContainer,   \* the container that serves each replica
          PsMaxCmds                  \* bound: commands sent in a behaviour

ASSUME PsAssumption ==
    /\ PsMaxCmds \in Nat
    /\ PsReplicas \subseteq Nat /\ IsFiniteSet(PsReplicas)   \* in the order of the server's map

PsContainers == {PsContainer[r] : r \in PsReplicas}

VARIABLES psSuspended,   \* PauseState.suspended of each replica
          psResume,      \* PauseState.resume: "none" or the command awaited
          psPausable,    \* the replica's declaration permits pausing
          psClient,      \* "none", a "reserved" edge waiting for the resume, or "live"
          psOutgoing,    \* has_outgoing_work of each container
          psPaused,      \* what docker says of each container
          psCmds,        \* commands on their way or running
          psSent,        \* commands sent so far
          psRaced        \* history: containers a pause stopped although a later
                         \* resume had already run, and not unpaused since

psVars == <<psSuspended, psResume, psPausable, psClient, psOutgoing, psPaused, psCmds, psSent, psRaced>>

PauseInit ==
    /\ psPaused \in [PsContainers -> BOOLEAN]
    /\ psSuspended = [r \in PsReplicas |-> psPaused[PsContainer[r]]]  \* mark_replica_suspended
    /\ psResume = [r \in PsReplicas |-> 0]
    /\ psPausable \in [PsReplicas -> BOOLEAN]
    /\ psClient = [r \in PsReplicas |-> "none"]
    /\ psOutgoing = [c \in PsContainers |-> FALSE]
    /\ psCmds = {}
    /\ psSent = 0
    /\ psRaced = {}

Cmd(kind, r, id) == [kind |-> kind, r |-> r, c |-> PsContainer[r], id |-> id, st |-> "sent"]

-----------------------------------------------------------------------------
(* The server *)

\* Faulty variant: does not look at whether the replica is suspended.
StartsResumeAlways(r) == psResume[r] = 0

StartsResume(r) == psSuspended[r] /\ psResume[r] = 0

\* A replica that may not pause, that has a client, or whose resume is under
\* way keeps its container running for every declaration.
Blocked == {PsContainer[r] : r \in {q \in PsReplicas : ~psPausable[q] \/ psClient[q] # "none" \/ psResume[q] # 0}}

\* Faulty variant: each declaration decides for itself.
MayPauseAlone(r) == psPausable[r] /\ psResume[r] = 0

MayPause(r) == psPausable[r] /\ PsContainer[r] \notin Blocked

\* reconcile_suspend: pause what is idle, wake what may not be paused.
Suspends(r) ==
    MayPause(r) /\ ~psSuspended[r] /\ psClient[r] = "none" /\ ~psOutgoing[PsContainer[r]]

\* reconcile_container_pauses: every replica, under the services lock.
Reconcile ==
    LET sus == {r \in PsReplicas : Suspends(r)}
        res == {r \in PsReplicas : ~MayPause(r) /\ StartsResume(r)}
        id(r) == psSent + Cardinality({q \in sus \cup res : q <= r})
    IN  /\ sus \cup res # {}
        /\ psSent + Cardinality(sus \cup res) <= PsMaxCmds
        /\ psSent' = psSent + Cardinality(sus \cup res)
        /\ psSuspended' = [r \in PsReplicas |-> psSuspended[r] \/ r \in sus]
        /\ psResume' = [r \in PsReplicas |-> IF r \in res THEN id(r) ELSE psResume[r]]
        /\ psCmds' = psCmds \cup {Cmd("pause", r, id(r)) : r \in sus} \cup {Cmd("resume", r, id(r)) : r \in res}
        /\ UNCHANGED <<psPausable, psClient, psOutgoing, psPaused, psRaced>>

\* Replica::resume: one detached command, shared by every caller that waits.
Resume(r) ==
    IF StartsResume(r)
    THEN /\ psSent < PsMaxCmds /\ psSent' = psSent + 1
         /\ psResume' = [psResume EXCEPT ![r] = psSent + 1]
         /\ psCmds' = psCmds \cup {Cmd("resume", r, psSent + 1)}
    ELSE UNCHANGED <<psSent, psResume, psCmds>>

\* setup_edge: the reservation protects the target while its resume completes.
Reserve(r) ==
    /\ psClient[r] = "none"
    /\ psClient' = [psClient EXCEPT ![r] = IF psSuspended[r] THEN "reserved" ELSE "live"]
    /\ Resume(r)
    /\ UNCHANGED <<psSuspended, psPausable, psOutgoing, psPaused, psRaced>>

ClientLeaves(r) ==
    /\ psClient[r] = "live"
    /\ psClient' = [psClient EXCEPT ![r] = "none"]
    /\ UNCHANGED <<psSuspended, psResume, psPausable, psOutgoing, psPaused, psCmds, psSent, psRaced>>

\* A container that runs starts or ends outbound work (backend sessions,
\* egress edges).
OutgoingChanges(c) ==
    /\ psOutgoing[c] \/ ~psPaused[c]
    /\ psOutgoing' = [psOutgoing EXCEPT ![c] = ~@]
    /\ UNCHANGED <<psSuspended, psResume, psPausable, psClient, psPaused, psCmds, psSent, psRaced>>

\* A configuration reload.
PausableChanges(r) ==
    /\ psPausable' = [psPausable EXCEPT ![r] = ~@]
    /\ UNCHANGED <<psSuspended, psResume, psClient, psOutgoing, psPaused, psCmds, psSent, psRaced>>

\* Faulty variant: a resume without an answer counts as done.
AnsweredOptimistically(r, ok) == [psSuspended EXCEPT ![r] = FALSE]

\* The detached resume ends; the waiters learn the result.
Answered(r, ok) == [psSuspended EXCEPT ![r] = ~ok]

\* send_container_resume returns: acknowledged, refused or timed out.
ResumeEnds(r, ok) ==
    /\ psResume[r] # 0
    /\ ok => \E m \in psCmds : m.id = psResume[r] /\ m.st = "acked"
    /\ psSuspended' = Answered(r, ok)
    /\ psResume' = [psResume EXCEPT ![r] = 0]
    /\ psClient' = [psClient EXCEPT ![r] = IF @ # "reserved" THEN @ ELSE IF ok THEN "live" ELSE "none"]
    /\ psCmds' = {m \in psCmds : ~(m.id = psResume[r] /\ m.st = "acked")}
    /\ UNCHANGED <<psPausable, psOutgoing, psPaused, psSent, psRaced>>

-----------------------------------------------------------------------------
(* The client: each command in a task of its own *)

LaterResumeRan(m) == \E n \in psCmds : n.kind = "resume" /\ n.c = m.c /\ n.id > m.id /\ n.st # "sent"

\* handle_container_suspend: docker pause; a failure is only reported.
RunPause(m, ok) ==
    /\ m \in psCmds /\ m.kind = "pause"
    /\ psPaused' = IF ok THEN [psPaused EXCEPT ![m.c] = TRUE] ELSE psPaused
    /\ psRaced' = IF ok /\ (LaterResumeRan(m) \/ \E r \in PsReplicas : PsContainer[r] = m.c /\ ~psSuspended[r])
                  THEN psRaced \cup {m.c} ELSE psRaced
    /\ psCmds' = psCmds \ {m}
    /\ UNCHANGED <<psSuspended, psResume, psPausable, psClient, psOutgoing, psSent>>

\* handle_container_resume: docker unpause ("is not paused" is fine) ...
RunUnpause(m, ok) ==
    /\ m \in psCmds /\ m.kind = "resume" /\ m.st = "sent"
    /\ psPaused' = IF ok THEN [psPaused EXCEPT ![m.c] = FALSE] ELSE psPaused
    /\ psCmds' = (psCmds \ {m}) \cup IF ok THEN {[m EXCEPT !.st = "unpaused"]} ELSE {}
    /\ psRaced' = IF ok THEN psRaced \ {m.c} ELSE psRaced
    /\ UNCHANGED <<psSuspended, psResume, psPausable, psClient, psOutgoing, psSent>>

\* ... then container_running, and the acknowledgement.
Running(m) == ~psPaused[m.c]

AckResume(m) ==
    /\ m \in psCmds /\ m.kind = "resume" /\ m.st = "unpaused"
    /\ psCmds' = (psCmds \ {m}) \cup IF Running(m) /\ psResume[m.r] = m.id THEN {[m EXCEPT !.st = "acked"]} ELSE {}
    /\ UNCHANGED <<psSuspended, psResume, psPausable, psClient, psOutgoing, psPaused, psSent, psRaced>>

PauseNext ==
    \/ Reconcile
    \/ \E r \in PsReplicas : \/ Reserve(r) \/ ClientLeaves(r) \/ PausableChanges(r)
                             \/ \E ok \in BOOLEAN : ResumeEnds(r, ok)
    \/ \E c \in PsContainers : OutgoingChanges(c)
    \/ \E m \in psCmds, ok \in BOOLEAN : RunPause(m, ok) \/ RunUnpause(m, ok)
    \/ \E m \in psCmds : AckResume(m)

PauseSpec == PauseInit /\ [][PauseNext]_psVars

-----------------------------------------------------------------------------
(* Properties *)

\* Commands name their replica's container and the server awaits at most one.
PauseTypeOK ==
    /\ psResume \in [PsReplicas -> 0..PsMaxCmds]
    /\ \A r \in PsReplicas : psResume[r] # 0 => psSuspended[r]
    /\ \A m, n \in psCmds : m.id = n.id => m = n

\* A container is sent to sleep only while no declaration of it has a client,
\* an edge being set up or a resume under way, and none forbids it.
SuspendOnlyIdle ==
    [][\A m \in psCmds' \ psCmds : m.kind = "pause" =>
          /\ ~psOutgoing[m.c]
          /\ \A q \in PsReplicas : PsContainer[q] = m.c => psPausable[q] /\ psClient[q] = "none"]_psVars

\* When the server has given a client its upstream, the container runs: an
\* acknowledged resume really ended the pause, however the replies and time-outs
\* fell.  The one exception is a pause that runs on the host after a resume that
\* was sent later: each command has a task of its own and nothing orders them,
\* so the container then sleeps under its client until the next unpause.
LiveClientRuns ==
    \A r \in PsReplicas :
        psClient[r] = "live" /\ PsContainer[r] \notin psRaced => ~psPaused[PsContainer[r]]

\* What the handler of the resume promises ("the server only returns the
\* upstream to the proxy once the service is serving").
UpstreamIsServing ==
    \A r \in PsReplicas : psClient[r] = "live" /\ psCmds = {} => ~psPaused[PsContainer[r]]

\* A container that serves a client runs, and only a container nobody needs is
\* suspended (service_info.rs, handle_container_suspend).
ServedContainersRun == [](PauseTypeOK /\ LiveClientRuns) /\ SuspendOnlyIdle
=============================================================================
