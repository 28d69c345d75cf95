-------------------------- MODULE NetIdPool_proof --------------------------
(***************************************************************************)
(* Proofs about NetIdPool, for every range of ids, and about the peak of   *)
(* what its callers hold (MCNetIdPool).                                    *)
(***************************************************************************)
EXTENDS MCNetIdPool, FiniteSetTheorems, TLAPS

\* The inductive invariant.  Conservation alone is not inductive: that the id
\* at the head of the queue leaves `freed_set' for good needs the queue to
\* hold it once only, and that a fresh id is new needs the type of next_fresh.
PoolInv == PoolTypeOK /\ FreedIndexAgrees /\ Conservation

\* What NetIdPool::allocate's pop_front does to the queue and its index: the
\* id is popped from both and the two still agree.
LEMMA PopKeepsIndex ==
    ASSUME NEW id, PoolTypeOK, FreedIndexAgrees, AllocateReused(id)
    PROVE  /\ id \in freed_set
           /\ freed' \in Seq(NetIds)
           /\ FreedIndexAgrees'
  <1> DEFINE n == Len(freed)
  <1>1. /\ freed \in Seq(NetIds) /\ n \in Nat /\ n > 0
        /\ id = freed[1]
        /\ freed' \in Seq(NetIds)
        /\ Len(freed') = n - 1
        /\ \A i \in 1..(n - 1) : freed'[i] = freed[i + 1]
    BY DEF PoolTypeOK, AllocateReused
  <1>2. id \in freed_set
    BY <1>1 DEF FreedIndexAgrees
  <1>3. \A i, j \in 1..Len(freed') : i # j => freed'[i] # freed'[j]
    BY <1>1 DEF FreedIndexAgrees
  <1>4. ASSUME NEW x \in freed_set'
        PROVE  \E i \in 1..Len(freed') : freed'[i] = x
    <2>1. x \in freed_set /\ x # id
      BY <1>4 DEF AllocateReused
    <2>2. PICK k \in 1..n : freed[k] = x
      BY <2>1 DEF FreedIndexAgrees
    <2>3. k # 1
      BY <2>1, <2>2, <1>1
    <2>4. k - 1 \in 1..(n - 1) /\ freed'[k - 1] = freed[k]
      BY <2>2, <2>3, <1>1
    <2>. QED BY <2>2, <2>4, <1>1
  <1>5. ASSUME NEW i \in 1..Len(freed')
        PROVE  freed'[i] \in freed_set'
    <2>1. i + 1 \in 1..n /\ freed'[i] = freed[i + 1] /\ 1 \in 1..n /\ i + 1 # 1
      BY <1>1
    <2>2. freed[i + 1] # freed[1]
      BY <2>1 DEF FreedIndexAgrees
    <2>3. freed[i + 1] \in freed_set
      BY <2>1 DEF FreedIndexAgrees
    <2>. QED BY <2>1, <2>2, <2>3, <1>1 DEF AllocateReused
  <1>. QED BY <1>1, <1>2, <1>3, <1>4, <1>5 DEF FreedIndexAgrees

\* What NetIdPool::free's push_back does: a queued id stays queued once.
LEMMA FreeKeepsIndex ==
    ASSUME NEW id, PoolTypeOK, FreedIndexAgrees, free(id)
    PROVE  /\ freed' \in Seq(NetIds)
           /\ freed_set' \in SUBSET NetIds
           /\ FreedIndexAgrees'
  <1>1. CASE UNCHANGED pool
    BY <1>1 DEF PoolTypeOK, FreedIndexAgrees, pool
  <1>2. CASE id \in NetIds /\ id \notin freed_set
    <2> DEFINE n == Len(freed)
    <2>1. /\ freed \in Seq(NetIds) /\ n \in Nat
          /\ freed_set' = freed_set \cup {id}
          /\ freed' \in Seq(NetIds)
          /\ Len(freed') = n + 1
          /\ \A i \in 1..n : freed'[i] = freed[i]
          /\ freed'[n + 1] = id
      BY <1>2 DEF PoolTypeOK, free
    <2>2. \A i \in 1..n : freed[i] # id
      BY <1>2 DEF FreedIndexAgrees
    <2>3. \A i, j \in 1..(n + 1) : i # j => freed'[i] # freed'[j]
      BY <2>1, <2>2 DEF FreedIndexAgrees
    <2>4. ASSUME NEW x \in freed_set'
          PROVE  \E i \in 1..(n + 1) : freed'[i] = x
      <3>1. CASE x = id
        BY <3>1, <2>1
      <3>2. CASE x \in freed_set
        <4>1. PICK k \in 1..n : freed[k] = x
          BY <3>2 DEF FreedIndexAgrees
        <4>. QED BY <4>1, <2>1
      <3>. QED BY <3>1, <3>2, <2>1
    <2>5. ASSUME NEW i \in 1..(n + 1)
          PROVE  freed'[i] \in freed_set'
      <3>1. CASE i = n + 1
        BY <3>1, <2>1
      <3>2. CASE i \in 1..n
        <4>1. freed[i] \in freed_set
          BY <3>2 DEF FreedIndexAgrees
        <4>. QED BY <4>1, <3>2, <2>1
      <3>. QED BY <3>1, <3>2, <2>1
    <2>. QED BY <1>2, <2>1, <2>3, <2>4, <2>5 DEF FreedIndexAgrees, PoolTypeOK
  <1>. QED BY <1>1, <1>2 DEF free

\* Every call to the pool, by a lawful caller or a repeated free, keeps the
\* invariant; stated apart because the orchestrator's proof cites it.
LEMMA PoolStep == PoolInv /\ [PoolNext]_poolVars => PoolInv'
  <1> USE IdRangeAssumption DEF NetIds
  <1> SUFFICES ASSUME PoolInv, [PoolNext]_poolVars PROVE PoolInv'
    OBVIOUS
  <1> USE DEF PoolInv
  <1>1. ASSUME NEW id, AllocateReused(id), held' = held \cup {id}
        PROVE  PoolInv'
    <2>1. /\ id \in freed_set /\ freed' \in Seq(NetIds) /\ FreedIndexAgrees'
      BY <1>1, PopKeepsIndex
    <2>2. PoolTypeOK'
      BY <1>1, <2>1 DEF PoolTypeOK, AllocateReused
    <2>3. Conservation'
      BY <1>1, <2>1 DEF Conservation, AllocateReused
    <2>. QED BY <2>1, <2>2, <2>3
  <1>2. ASSUME NEW id, AllocateFresh(id), held' = held \cup {id}
        PROVE  PoolInv'
    <2>1. PoolTypeOK'
      BY <1>2 DEF PoolTypeOK, AllocateFresh
    <2>2. FreedIndexAgrees'
      BY <1>2 DEF FreedIndexAgrees, AllocateFresh
    <2>3. Conservation'
      BY <1>2 DEF Conservation, AllocateFresh, PoolTypeOK
    <2>. QED BY <2>1, <2>2, <2>3
  <1>3. ASSUME NEW id \in NetIds, Free(id)
        PROVE  PoolInv'
    <2>1. /\ freed' \in Seq(NetIds) /\ freed_set' \in SUBSET NetIds
          /\ FreedIndexAgrees'
      BY <1>3, FreeKeepsIndex DEF Free
    <2>2. id \in held /\ id \notin freed_set /\ held' = held \ {id}
      BY <1>3 DEF Free, Conservation
    <2>3. freed_set' = freed_set \cup {id} /\ next_fresh' = next_fresh
      BY <1>3, <2>2 DEF Free, free
    <2>. QED BY <2>1, <2>2, <2>3 DEF PoolTypeOK, Conservation
  <1>4. ASSUME NEW id \in NetIds \cup {0}, FreeAgain(id)
        PROVE  PoolInv'
    <2>1. UNCHANGED poolVars
      BY <1>4 DEF FreeAgain, free, poolVars, pool
    <2>. QED BY <2>1 DEF poolVars, PoolTypeOK, FreedIndexAgrees, Conservation
  <1>5. CASE UNCHANGED poolVars
    BY <1>5 DEF poolVars, PoolTypeOK, FreedIndexAgrees, Conservation
  <1>. QED BY <1>1, <1>2, <1>3, <1>4, <1>5 DEF PoolNext, Allocate, allocate

\* A new pool satisfies the invariant.
LEMMA PoolStart == PoolInit => PoolInv
  BY IdRangeAssumption DEF NetIds, PoolInit, PoolInv, PoolTypeOK, FreedIndexAgrees, Conservation

\* NetIdPool keeps its types, its queue agrees with its index, and no id is
\* lost or owned twice, however its callers allocate, free and free again.
THEOREM PoolCorrect == PoolSpec => [](PoolTypeOK /\ FreedIndexAgrees /\ Conservation)
  BY PoolStart, PoolStep, PTL DEF PoolSpec, PoolInv

-----------------------------------------------------------------------------
(* How thrifty the pool is.  What is held and what waits add up to what    *)
(* was minted, so as many ids as were ever held at once bound what is      *)
(* minted: an id is minted only when the queue is empty, that is when      *)
(* every id minted so far is held.                                         *)

PeakInv == PoolInv /\ FootprintIsPeak

LEMMA PeakOf == ASSUME NEW m \in Int, NEW n \in Int PROVE Max({m, n}) = IF m >= n THEN m ELSE n
  <1> DEFINE top == IF m >= n THEN m ELSE n
  <1>1. top \in {m, n} /\ \A x \in {m, n} : top >= x
    OBVIOUS
  <1>2. ASSUME NEW t \in {m, n}, \A x \in {m, n} : t >= x PROVE t = top
    BY <1>2
  <1>. QED BY <1>1, <1>2 DEF Max

\* Of the ids minted below n, those in h are no more than all, and all when no
\* other is left: h is what is held, w what waits.
LEMMA HeldAtMostMinted ==
    ASSUME NEW n \in Int, MIN_NET_ID <= n, NEW h, NEW w, h \cup w = MIN_NET_ID .. n - 1
    PROVE  /\ Cardinality(h) \in Nat /\ Cardinality(h) <= n - MIN_NET_ID
           /\ w = {} => Cardinality(h) = n - MIN_NET_ID
  <1> DEFINE minted == MIN_NET_ID .. n - 1
  <1>1. MIN_NET_ID \in Int /\ n - 1 \in Int
    BY IdRangeAssumption
  <1>2. IsFiniteSet(minted) /\ Cardinality(minted) = n - MIN_NET_ID
    <2>1. /\ IsFiniteSet(minted)
          /\ Cardinality(minted) = IF MIN_NET_ID > n - 1 THEN 0 ELSE (n - 1) - MIN_NET_ID + 1
      BY <1>1, FS_Interval
    <2>. QED BY <1>1, <2>1
  <1>3. h \in SUBSET minted /\ (w = {} => h = minted)
    OBVIOUS
  <1>4. IsFiniteSet(h) /\ Cardinality(h) <= Cardinality(minted)
    BY <1>2, <1>3, FS_Subset
  <1>5. Cardinality(h) \in Nat
    BY <1>4, FS_CardinalityType
  <1>. QED BY <1>2, <1>3, <1>4, <1>5

LEMMA PeakStep == PeakInv /\ [PeakNext]_<<poolVars, peak>> => PeakInv'
  <1> SUFFICES ASSUME PeakInv, [PeakNext]_<<poolVars, peak>> PROVE PeakInv'
    OBVIOUS
  <1>1. PoolInv /\ FootprintIsPeak /\ [PoolNext]_poolVars
    BY DEF PeakInv, PeakNext, poolVars
  <1>2. PoolInv'
    BY <1>1, PoolStep
  <1>3. next_fresh \in Int /\ MIN_NET_ID \in Int /\ peak \in Int /\ next_fresh' \in Int
    BY <1>1, <1>2, IdRangeAssumption DEF PoolInv, PoolTypeOK, FootprintIsPeak
  <1>4. /\ Cardinality(held') \in Nat /\ Cardinality(held') <= next_fresh' - MIN_NET_ID
        /\ freed_set' = {} => Cardinality(held') = next_fresh' - MIN_NET_ID
    <2>1. MIN_NET_ID <= next_fresh' /\ held' \cup freed_set' = MIN_NET_ID .. next_fresh' - 1
      BY <1>2, IdRangeAssumption DEF PoolInv, PoolTypeOK, Conservation
    <2>. QED BY <1>3, <2>1, HeldAtMostMinted
  <1>5. CASE UNCHANGED <<poolVars, peak>>
    BY <1>1, <1>2, <1>5 DEF PeakInv, FootprintIsPeak, poolVars
  <1>6. CASE PeakNext
    <2>1. peak' = IF peak >= Cardinality(held') THEN peak ELSE Cardinality(held')
      BY <1>3, <1>4, <1>6, PeakOf DEF PeakNext
    <2>2. CASE next_fresh' = next_fresh
      BY <1>1, <1>2, <1>3, <1>4, <2>1, <2>2 DEF PeakInv, FootprintIsPeak
    <2>3. ASSUME NEW id, AllocateFresh(id) PROVE PeakInv'
      <3>1. freed' = <<>> /\ next_fresh' = next_fresh + 1
        BY <2>3 DEF AllocateFresh
      <3>2. freed_set' = {}
        <4>1. Len(freed') = 0
          BY <3>1
        <4>. QED BY <1>2, <4>1 DEF PoolInv, FreedIndexAgrees
      <3>. QED BY <1>1, <1>2, <1>3, <1>4, <2>1, <3>1, <3>2 DEF PeakInv, FootprintIsPeak
    <2>4. next_fresh' = next_fresh \/ \E id : AllocateFresh(id)
      BY <1>6 DEF PeakNext, PoolNext, Allocate, allocate, AllocateReused, Free, FreeAgain, free, pool
    <2>. QED BY <2>2, <2>3, <2>4
  <1>. QED BY <1>5, <1>6

\* An id that is held and then waits was freed in this step, behind the others.
LEMMA FreedLast ==
    ASSUME PoolInv, [PoolNext]_poolVars, NEW i \in held, NEW j \in freed_set, i \in freed_set'
    PROVE  \E m, n \in 1..Len(freed') : m < n /\ freed'[m] = j /\ freed'[n] = i
  <1>1. freed \in Seq(NetIds) /\ Len(freed) \in Nat /\ i \in NetIds /\ i \notin freed_set
    BY DEF PoolInv, PoolTypeOK, Conservation
  <1>2. PICK m \in 1..Len(freed) : freed[m] = j
    BY DEF PoolInv, FreedIndexAgrees
  <1>3. freed' = Append(freed, i)
    <2>1. ASSUME NEW id \in NetIds, Free(id) PROVE id = i /\ freed' = Append(freed, i)
      BY <1>1, <2>1 DEF Free, free, pool
    <2>2. ASSUME NEW id \in NetIds \cup {0}, FreeAgain(id) PROVE FALSE
      BY <1>1, <2>2, IdRangeAssumption DEF FreeAgain, free, pool, NetIds
    <2>3. ~ UNCHANGED poolVars
      BY <1>1 DEF poolVars
    <2>4. ~ Allocate
      BY <1>1 DEF Allocate, allocate, AllocateReused, AllocateFresh
    <2>. QED BY <2>1, <2>2, <2>3, <2>4 DEF PoolNext
  <1>4. Len(freed') = Len(freed) + 1 /\ freed'[m] = j /\ freed'[Len(freed) + 1] = i
    BY <1>1, <1>2, <1>3
  <1>. QED BY <1>1, <1>2, <1>4

LEMMA PeakStart == PeakInit => PeakInv
  BY PoolStart, IdRangeAssumption DEF PeakInit, PoolInit, PeakInv, FootprintIsPeak

\* NetIdPool::allocate and free: the ids ever minted are exactly as many as
\* were held at once at the worst moment, and an id freed behind another is
\* not handed out before it, for every range and any sequence of calls.
THEOREM ReuseIsThriftyAlways == PeakSpec => ReuseIsThrifty
  <1>1. PeakInv => PoolTypeOK /\ FreedIndexAgrees /\ FootprintIsPeak
    BY DEF PeakInv, PoolInv
  <1> DEFINE Behind == \A i \in held, j \in freed_set :
                 i \in freed_set' => \E m, n \in 1..Len(freed') : m < n /\ freed'[m] = j /\ freed'[n] = i
  <1>2. PeakInv /\ [PeakNext]_<<poolVars, peak>> => [Behind]_poolVars
    <2>1. [PeakNext]_<<poolVars, peak>> => [PoolNext]_poolVars
      BY DEF PeakNext, poolVars
    <2>. QED BY <2>1, FreedLast DEF PeakInv
  <1>. QED BY <1>1, <1>2, PeakStart, PeakStep, PTL DEF PeakSpec, ReuseIsThrifty, OldestFirst
=============================================================================
