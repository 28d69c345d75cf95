------------------------------ MODULE OpenFlows ------------------------------
(***************************************************************************)
(* The client's set of open connections, by owner (a container, or a       *)
(* container and a trigger port): conntrack.rs, struct OpenFlows.          *)
(*                                                                         *)
(* Flows are inserted when NFQUEUE accepts their first packet, removed by  *)
(* conntrack's DESTROY events, and replaced wholesale from a dump of the   *)
(* conntrack table.  An update that empties or first fills an owner's set  *)
(* emits a transition, which the server is told of.  Before the client     *)
(* deletes conntrack entries itself it suppresses the owner: emptiness is  *)
(* not believed for a while.                                               *)
(*                                                                         *)
(* per_owner[o] is the union of the code's per-destination sets, which are *)
(* dropped when empty.  A revision is only ever compared with the one the  *)
(* reconcile task read, so one bit stands for it.  An operator placed just *)
(* before the definition it varies is a faulty variant, kept to show that  *)
(* a property notices the fault.                                           *)
(***************************************************************************)
EXTENDS Integers, FiniteSets

CONSTANTS
    Owners,
    Flows,      (* five-tuples                                              *)
    MayOwn,     (* flow -> owners it can be attributed to; more than one    *)
                (* when a bridge address moves between containers           *)
    NoOwner

ASSUME OpenFlowsAssumption ==
    /\ NoOwner \notin Owners
    /\ MayOwn \in [Flows -> SUBSET Owners]

VARIABLES
    per_owner,  (* owner -> its open flows                                  *)
    owner_of,   (* reverse index: flow -> owner                             *)
    suppressed, (* owner -> its emptiness is not to be trusted              *)
    unchanged,  (* owner -> revision is still the one reconcile read        *)
    told,       (* history: owner -> the last transition emitted was Active *)
    silenced    (* history: owner -> suppressed since that transition       *)

flowVars == <<per_owner, owner_of, suppressed, unchanged, told, silenced>>

FlowsOf(o) == {f \in Flows : o \in MayOwn[f]}

Init ==
    /\ per_owner = [o \in Owners |-> {}]
    /\ owner_of = [f \in Flows |-> NoOwner]
    /\ suppressed = [o \in Owners |-> FALSE]
    /\ unchanged = [o \in Owners |-> FALSE]
    /\ told = [o \in Owners |-> FALSE]
    /\ silenced = [o \in Owners |-> FALSE]

\* Which transition an update emits.
EmitsActive(o) == per_owner[o] = {}

EmitsIdleAnyway(o, left) == per_owner[o] # {} /\ left = {}

EmitsIdle(o, left) == per_owner[o] # {} /\ left = {} /\ ~suppressed[o]

\* Record the transition of owner o, if there is one.
Emit(o, active, idle) ==
    /\ told' = [told EXCEPT ![o] = IF active THEN TRUE ELSE IF idle THEN FALSE ELSE @]
    /\ silenced' = [silenced EXCEPT ![o] = IF active \/ idle THEN FALSE ELSE @]

insert(o, f) ==
    /\ unchanged' = [unchanged EXCEPT ![o] = FALSE]
    /\ suppressed' = [suppressed EXCEPT ![o] = FALSE]
    /\ per_owner' = [per_owner EXCEPT ![o] = @ \cup {f}]
    /\ owner_of' = IF f \in per_owner[o] THEN owner_of ELSE [owner_of EXCEPT ![f] = o]
    /\ Emit(o, EmitsActive(o), FALSE)

RemoveKeepsIndex(f) ==
    LET o == owner_of[f] IN
    IF o = NoOwner THEN UNCHANGED flowVars
    ELSE /\ unchanged' = [unchanged EXCEPT ![o] = FALSE]
         /\ per_owner' = [per_owner EXCEPT ![o] = @ \ {f}]
         /\ Emit(o, FALSE, EmitsIdle(o, per_owner[o] \ {f}))
         /\ UNCHANGED <<owner_of, suppressed>>

remove(f) ==
    LET o == owner_of[f] IN
    IF o = NoOwner THEN UNCHANGED flowVars
    ELSE /\ unchanged' = [unchanged EXCEPT ![o] = FALSE]
         /\ owner_of' = [owner_of EXCEPT ![f] = NoOwner]
         /\ per_owner' = [per_owner EXCEPT ![o] = @ \ {f}]
         /\ Emit(o, FALSE, EmitsIdle(o, per_owner[o] \ {f}))
         /\ UNCHANGED suppressed

suppress_for(o) ==
    /\ unchanged' = [unchanged EXCEPT ![o] = FALSE]
    /\ suppressed' = [suppressed EXCEPT ![o] = TRUE]
    /\ silenced' = [silenced EXCEPT ![o] = TRUE]
    /\ UNCHANGED <<per_owner, owner_of, told>>

\* is_suppressed turns false when the window has passed.
SuppressionExpires(o) ==
    /\ suppressed[o]
    /\ suppressed' = [suppressed EXCEPT ![o] = FALSE]
    /\ UNCHANGED <<per_owner, owner_of, unchanged, told, silenced>>

\* The reconcile task reads every owner's revision before it dumps the table.
ReadRevisions ==
    /\ unchanged' = [o \in Owners |-> TRUE]
    /\ UNCHANGED <<per_owner, owner_of, suppressed, told, silenced>>

\* reconcile replaces the owner's set; only a real 1 -> 0 is a transition.
ReconcileUnindexed(o, dump) ==
    IF ~unchanged[o] THEN UNCHANGED flowVars
    ELSE /\ unchanged' = [unchanged EXCEPT ![o] = FALSE]
         /\ per_owner' = [per_owner EXCEPT ![o] = dump]
         /\ owner_of' = [f \in Flows |-> IF f \in per_owner[o] THEN NoOwner ELSE owner_of[f]]
         /\ suppressed' = [suppressed EXCEPT ![o] = @ /\ dump = {}]
         /\ Emit(o, FALSE, EmitsIdle(o, dump))

ReconcileQuietly(o, dump) ==
    IF ~unchanged[o] THEN UNCHANGED flowVars
    ELSE /\ unchanged' = [unchanged EXCEPT ![o] = FALSE]
         /\ per_owner' = [per_owner EXCEPT ![o] = dump]
         /\ owner_of' = [f \in Flows |-> IF f \in dump THEN o
                                         ELSE IF f \in per_owner[o] THEN NoOwner
                                         ELSE owner_of[f]]
         /\ suppressed' = [suppressed EXCEPT ![o] = @ /\ dump = {}]
         /\ UNCHANGED <<told, silenced>>

reconcile_at(o, dump) ==
    IF ~unchanged[o] THEN UNCHANGED flowVars
    ELSE /\ unchanged' = [unchanged EXCEPT ![o] = FALSE]
         /\ per_owner' = [per_owner EXCEPT ![o] = dump]
         /\ owner_of' = [f \in Flows |-> IF f \in dump THEN o
                                         ELSE IF f \in per_owner[o] THEN NoOwner
                                         ELSE owner_of[f]]
         /\ suppressed' = [suppressed EXCEPT ![o] = @ /\ dump = {}]
         /\ Emit(o, FALSE, EmitsIdle(o, dump))

Next ==
    \/ \E o \in Owners, f \in Flows : o \in MayOwn[f] /\ insert(o, f)
    \/ \E f \in Flows : remove(f)
    \/ \E o \in Owners : suppress_for(o) \/ SuppressionExpires(o)
    \/ ReadRevisions
    \/ \E o \in Owners : \E dump \in SUBSET FlowsOf(o) : reconcile_at(o, dump)

Spec == Init /\ [][Next]_flowVars

-----------------------------------------------------------------------------
\* Every flow in an owner's set is one that can be attributed to it.
FlowsTypeOK ==
    /\ per_owner \in [Owners -> SUBSET Flows]
    /\ \A o \in Owners : per_owner[o] \subseteq FlowsOf(o)
    /\ owner_of \in [Flows -> Owners \cup {NoOwner}]
    /\ suppressed \in [Owners -> BOOLEAN] /\ unchanged \in [Owners -> BOOLEAN]
    /\ told \in [Owners -> BOOLEAN] /\ silenced \in [Owners -> BOOLEAN]

\* A DESTROY that finds an owner in the reverse index finds its flow there, so
\* the Idle it may emit is about the owner that really lost a flow.
IndexSound ==
    \A f \in Flows : owner_of[f] # NoOwner => f \in per_owner[owner_of[f]]

\* A flow that can have only one owner is never counted open without being in
\* the reverse index: its DESTROY will find it, it cannot pin the edge.
IndexComplete ==
    \A f \in Flows, o \in Owners :
        f \in per_owner[o] /\ MayOwn[f] = {o} => owner_of[f] = o

\* The owner's last flow never goes without the server being told, unless a
\* flush of the client's own was announced in between (suppress_for).
NoSilentIdle ==
    \A o \in Owners : told[o] /\ per_owner[o] = {} => silenced[o]

=============================================================================
