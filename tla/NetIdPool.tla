----------------------------- MODULE NetIdPool -----------------------------
(***************************************************************************)
(* The server's pool of VLAN/VXLAN network ids (net_id_pool.rs), together  *)
(* with the set `held' of ids its callers own.  The pool is one value      *)
(* behind a mutex, so each operation is one step.  `held' is not a field   *)
(* of the code: it is what the orchestrator's callers believe they own,    *)
(* and NetIdPool!PoolSpec is therefore also the contract a caller must meet;   *)
(* OverlayNets is shown to meet it.                                        *)
(***************************************************************************)
EXTENDS Integers, Sequences, FiniteSets

CONSTANTS MIN_NET_ID,   (* smallest id ever handed out                     *)
          MAX_NET_ID    (* largest id: 4094 for VLAN, 2097151 for VXLAN    *)

ASSUME IdRangeAssumption ==
    /\ MIN_NET_ID \in Nat
    /\ MAX_NET_ID \in Nat
    /\ MIN_NET_ID > 0
    /\ MIN_NET_ID <= MAX_NET_ID

VARIABLES next_fresh,   (* next id never handed out before                 *)
          freed,        (* freed ids, oldest first                         *)
          freed_set,    (* membership index of freed                       *)
          held          (* ids owned by a caller                           *)

pool == <<next_fresh, freed, freed_set>>
poolVars == <<next_fresh, freed, freed_set, held>>

NetIds == MIN_NET_ID .. MAX_NET_ID

PoolInit ==
    /\ next_fresh = MIN_NET_ID
    /\ freed = <<>>
    /\ freed_set = {}
    /\ held = {}

(***************************************************************************)
(* NetIdPool::allocate.  (Here and below, an operator placed just before   *)
(* the definition it varies is a faulty variant of it: substituted for the *)
(* definition it must break a property.)                                   *)
(***************************************************************************)
AllocateReusedKeepsIndex(id) ==
    /\ freed # <<>>
    /\ id = Head(freed)
    /\ freed' = Tail(freed)
    /\ UNCHANGED <<next_fresh, freed_set>>

AllocateReused(id) ==
    /\ freed # <<>>
    /\ id = Head(freed)
    /\ freed' = Tail(freed)
    /\ freed_set' = freed_set \ {id}
    /\ UNCHANGED next_fresh

AllocateFreshOffByOne(id) ==
    /\ freed = <<>>
    /\ next_fresh <= MAX_NET_ID + 1
    /\ id = next_fresh
    /\ next_fresh' = next_fresh + 1
    /\ UNCHANGED <<freed, freed_set>>

AllocateFreshAnyTime(id) ==
    /\ next_fresh <= MAX_NET_ID
    /\ id = next_fresh
    /\ next_fresh' = next_fresh + 1
    /\ UNCHANGED <<freed, freed_set>>

AllocateFresh(id) ==
    /\ freed = <<>>
    /\ next_fresh <= MAX_NET_ID
    /\ id = next_fresh
    /\ next_fresh' = next_fresh + 1
    /\ UNCHANGED <<freed, freed_set>>

allocate(id) == AllocateReused(id) \/ AllocateFresh(id)

\* allocate returns None.
Exhausted == freed = <<>> /\ next_fresh > MAX_NET_ID

(***************************************************************************)
(* NetIdPool::free: an id out of range, or already queued, is ignored.     *)
(***************************************************************************)
FreeUnchecked(id) ==
    /\ freed_set' = freed_set \cup {id}
    /\ freed' = Append(freed, id)
    /\ UNCHANGED next_fresh

FreeNewestFirst(id) ==
    IF id \in NetIds /\ id \notin freed_set
    THEN /\ freed_set' = freed_set \cup {id}
         /\ freed' = <<id>> \o freed
         /\ UNCHANGED next_fresh
    ELSE UNCHANGED pool

free(id) ==
    IF id \in NetIds /\ id \notin freed_set
    THEN /\ freed_set' = freed_set \cup {id}
         /\ freed' = Append(freed, id)
         /\ UNCHANGED next_fresh
    ELSE UNCHANGED pool

(***************************************************************************)
(* The pool and its callers.                                               *)
(***************************************************************************)
Allocate ==
    \E id \in NetIds \cup {next_fresh} : allocate(id) /\ held' = held \cup {id}

Free(id) ==
    /\ id \in held
    /\ free(id)
    /\ held' = held \ {id}

\* A caller frees an id it does not own: 0, the id a build in progress
\* carries, or one the pool has already queued (a repeated teardown).
FreeAgain(id) ==
    /\ id = 0 \/ id \in freed_set
    /\ free(id)
    /\ UNCHANGED held

PoolNext ==
    \/ Allocate
    \/ \E id \in NetIds : Free(id)
    \/ \E id \in NetIds \cup {0} : FreeAgain(id)

PoolSpec == PoolInit /\ [][PoolNext]_poolVars

-----------------------------------------------------------------------------

\* Fresh, queued and held ids are within the range NetIdPool was built with.
PoolTypeOK ==
    /\ next_fresh \in MIN_NET_ID .. MAX_NET_ID + 1
    /\ freed \in Seq(NetIds)
    /\ freed_set \in SUBSET NetIds
    /\ held \in SUBSET NetIds

\* The index `freed_set' agrees with the queue, and the queue holds no id
\* twice, even when a caller frees an id again: a duplicate would be handed
\* to two live edges (the corruption the comment on freed_set is about).
FreedIndexAgrees ==
    /\ freed_set = {freed[i] : i \in 1..Len(freed)}
    /\ \A i, j \in 1..Len(freed) : i # j => freed[i] # freed[j]

\* No id is ever lost and none has two owners: every id handed out so far is
\* either held by exactly one caller or waits in the queue, never both.
Conservation ==
    /\ held \cap freed_set = {}
    /\ held \cup freed_set = MIN_NET_ID .. next_fresh - 1

=============================================================================
