---------------------------- MODULE MCNetIdPool ----------------------------
(***************************************************************************)
(* NetIdPool with the largest number of ids its callers ever held at once. *)
(***************************************************************************)
EXTENDS NetIdPool, FiniteSetsExt

VARIABLE peak   (* history: the most ids held at once so far *)

PeakInit == PoolInit /\ peak = 0

PeakNext ==
    /\ PoolNext
    /\ peak' = Max({peak, Cardinality(held')})

PeakSpec == PeakInit /\ [][PeakNext]_<<poolVars, peak>>

\* NetIdPool::allocate reuses before it mints: the ids ever handed out are
\* exactly as many as were held at once at the worst moment, however often
\* ids are freed, freed twice and reused.  The 12-bit VLAN space is therefore
\* exhausted only by 3994 simultaneous networks, never by churn.
FootprintIsPeak == next_fresh - MIN_NET_ID = peak

\* NetIdPool::free queues at the back and allocate takes from the front, so an
\* id freed behind another one is never handed out before it.
OldestFirst ==
    [][\A i \in held, j \in freed_set :
        i \in freed_set' => \E m, n \in 1..Len(freed') : m < n /\ freed'[m] = j /\ freed'[n] = i]_poolVars

\* Ids are minted only when none is free, the oldest freed one is used first
\* and none outside the range is handed out (allocate, free).
ReuseIsThrifty == [](PoolTypeOK /\ FreedIndexAgrees /\ FootprintIsPeak) /\ OldestFirst
=============================================================================
