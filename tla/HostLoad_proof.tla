--------------------------- MODULE HostLoad_proof ---------------------------
(***************************************************************************)
(* Theorems about what is known of the load of the hosts and what is done  *)
(* about it: the open connections (OpenFlows) with the tasks around them   *)
(* (EdgeLiveness), for any owners, flows and attribution; the suspension   *)
(* of idle containers (Pause); the congestion verdicts (LoadPressure) and  *)
(* the limits they lead to (Admission).  Pause, LoadPressure and Admission *)
(* share no state with one another or with the rest.                       *)
(*                                                                         *)
(* The conjunction of the invariants of OpenFlows is inductive: soundness  *)
(* of the index needs the types, completeness needs that a flow is only    *)
(* ever counted for an owner it may be attributed to (a conjunct of the    *)
(* type invariant), and NoSilentIdle needs soundness and that a mark still *)
(* in force was set after the last transition.                             *)
(*                                                                         *)
(* That only an idle edge is reaped takes four facts about an owner of     *)
(* whom nothing went astray: every flow with an entry, or recorded and     *)
(* held, is in the set (Tracked), which a reconcile keeps because its dump *)
(* fits an untouched set (DumpFits); connections a flush cut are under its *)
(* mark, and the last transition emitted for them or for a set that is not *)
(* empty was Active (Covered); and the last report on its way, or else the *)
(* edge, says what was emitted last (ServerTold).                          *)
(***************************************************************************)
EXTENDS EdgeLiveness, Pause, LoadPressure, Admission, FiniteSetTheorems, SequenceTheorems, TLAPS

\* A suppression mark in force is younger than the last transition.
MarkIsRecent == \A o \in Owners : suppressed[o] => silenced[o]

IInv == FlowsTypeOK /\ IndexSound /\ IndexComplete /\ NoSilentIdle /\ MarkIsRecent

\* Emit keeps the histories Boolean, and changes them at one owner only.
LEMMA EmitTypes ==
    ASSUME FlowsTypeOK, NEW o \in Owners, NEW a \in BOOLEAN, NEW i \in BOOLEAN,
           Emit(o, a, i)
    PROVE  told' \in [Owners -> BOOLEAN] /\ silenced' \in [Owners -> BOOLEAN]
BY DEF FlowsTypeOK, Emit

\* What insert does to the invariant.
LEMMA InsertKeeps ==
    ASSUME IInv, NEW o \in Owners, NEW f \in Flows, o \in MayOwn[f], insert(o, f)
    PROVE  IInv'
<1> USE OpenFlowsAssumption
<1>1. FlowsTypeOK'
  <2>1. EmitsActive(o) \in BOOLEAN
    BY DEF EmitsActive
  <2>2. told' \in [Owners -> BOOLEAN] /\ silenced' \in [Owners -> BOOLEAN]
    BY <2>1, EmitTypes DEF IInv, insert
  <2> QED
    BY <2>2 DEF IInv, FlowsTypeOK, FlowsOf, insert
<1>2. IndexSound'
  BY DEF IInv, FlowsTypeOK, IndexSound, insert
<1>3. IndexComplete'
  BY DEF IInv, FlowsTypeOK, IndexComplete, insert
<1>4. NoSilentIdle'
  BY DEF IInv, FlowsTypeOK, NoSilentIdle, insert, Emit, EmitsActive
<1>5. MarkIsRecent'
  BY DEF IInv, FlowsTypeOK, MarkIsRecent, insert, Emit, EmitsActive
<1> QED
  BY <1>1, <1>2, <1>3, <1>4, <1>5 DEF IInv

\* What remove does: the flow leaves the set and the index together.
LEMMA RemoveKeeps ==
    ASSUME IInv, NEW f \in Flows, remove(f)
    PROVE  IInv'
<1> USE OpenFlowsAssumption
<1>1. CASE owner_of[f] = NoOwner
  BY <1>1 DEF IInv, FlowsTypeOK, IndexSound, IndexComplete, NoSilentIdle, MarkIsRecent, remove, flowVars, FlowsOf
<1>2. CASE owner_of[f] # NoOwner
  <2> DEFINE o == owner_of[f]
  <2>1. o \in Owners
    BY <1>2 DEF IInv, FlowsTypeOK
  <2>2. /\ unchanged' = [unchanged EXCEPT ![o] = FALSE]
        /\ owner_of' = [owner_of EXCEPT ![f] = NoOwner]
        /\ per_owner' = [per_owner EXCEPT ![o] = @ \ {f}]
        /\ Emit(o, FALSE, EmitsIdle(o, per_owner[o] \ {f}))
        /\ UNCHANGED suppressed
    BY <1>2 DEF remove
  <2> HIDE DEF o
  <2>3. FlowsTypeOK'
    <3>1. EmitsIdle(o, per_owner[o] \ {f}) \in BOOLEAN
      BY DEF EmitsIdle
    <3>2. told' \in [Owners -> BOOLEAN] /\ silenced' \in [Owners -> BOOLEAN]
      BY <2>1, <2>2, <3>1, EmitTypes DEF IInv
    <3> QED
      BY <2>1, <2>2, <3>2 DEF IInv, FlowsTypeOK, FlowsOf
  <2>4. IndexSound'
    BY <2>1, <2>2 DEF IInv, FlowsTypeOK, IndexSound
  <2>5. IndexComplete'
    <3>1. o = owner_of[f]
      BY DEF o
    <3> QED
      BY <2>1, <2>2, <3>1 DEF IInv, FlowsTypeOK, FlowsOf, IndexComplete
  <2>6. NoSilentIdle'
    <3>1. f \in per_owner[o]
      BY <1>2 DEF IInv, IndexSound, o
    <3> SUFFICES ASSUME NEW p \in Owners, told'[p], per_owner'[p] = {}
                 PROVE  silenced'[p]
      BY DEF NoSilentIdle
    <3>2. CASE p # o
      BY <2>1, <2>2, <3>2 DEF IInv, FlowsTypeOK, NoSilentIdle, Emit
    <3>3. CASE p = o
      BY <2>1, <2>2, <3>1, <3>3 DEF IInv, FlowsTypeOK, NoSilentIdle, MarkIsRecent, Emit, EmitsIdle
    <3> QED
      BY <3>2, <3>3
  <2>7. MarkIsRecent'
    BY <2>1, <2>2 DEF IInv, FlowsTypeOK, MarkIsRecent, Emit, EmitsIdle
  <2> QED
    BY <2>3, <2>4, <2>5, <2>6, <2>7 DEF IInv
<1> QED
  BY <1>1, <1>2

\* What a reconcile pass does: set and index of the owner are replaced together.
LEMMA ReconcileKeeps ==
    ASSUME IInv, NEW o \in Owners, NEW dump \in SUBSET FlowsOf(o), reconcile_at(o, dump)
    PROVE  IInv'
<1> USE OpenFlowsAssumption
<1>1. CASE ~unchanged[o]
  BY <1>1 DEF IInv, FlowsTypeOK, IndexSound, IndexComplete, NoSilentIdle, MarkIsRecent,
              reconcile_at, flowVars, FlowsOf
<1>2. CASE unchanged[o]
  <2>1. /\ unchanged' = [unchanged EXCEPT ![o] = FALSE]
        /\ per_owner' = [per_owner EXCEPT ![o] = dump]
        /\ owner_of' = [f \in Flows |-> IF f \in dump THEN o
                                        ELSE IF f \in per_owner[o] THEN NoOwner
                                        ELSE owner_of[f]]
        /\ suppressed' = [suppressed EXCEPT ![o] = @ /\ dump = {}]
        /\ Emit(o, FALSE, EmitsIdle(o, dump))
    BY <1>2 DEF reconcile_at
  <2>2. FlowsTypeOK'
    <3>1. EmitsIdle(o, dump) \in BOOLEAN
      BY DEF EmitsIdle
    <3>2. told' \in [Owners -> BOOLEAN] /\ silenced' \in [Owners -> BOOLEAN]
      BY <2>1, <3>1, EmitTypes DEF IInv
    <3>3. suppressed' \in [Owners -> BOOLEAN] /\ unchanged' \in [Owners -> BOOLEAN]
      BY <2>1 DEF IInv, FlowsTypeOK
    <3>4. per_owner' \in [Owners -> SUBSET Flows] /\ \A p \in Owners : per_owner'[p] \subseteq FlowsOf(p)
      BY <2>1 DEF IInv, FlowsTypeOK, FlowsOf
    <3>5. owner_of' \in [Flows -> Owners \cup {NoOwner}]
      BY <2>1 DEF IInv, FlowsTypeOK
    <3> QED
      BY <3>2, <3>3, <3>4, <3>5 DEF FlowsTypeOK, FlowsOf
  <2>3. IndexSound'
    BY <2>1 DEF IInv, FlowsTypeOK, IndexSound
  <2>4. IndexComplete'
    <3> SUFFICES ASSUME NEW f \in Flows, NEW p \in Owners,
                        f \in per_owner'[p], MayOwn[f] = {p}
                 PROVE  owner_of'[f] = p
      BY DEF IndexComplete
    <3>1. CASE p = o
      BY <2>1, <3>1 DEF IInv, FlowsTypeOK
    <3>2. CASE p # o
      <4>1. f \in per_owner[p] /\ owner_of[f] = p
        BY <2>1, <3>2 DEF IInv, FlowsTypeOK, IndexComplete
      <4>2. f \notin dump /\ f \notin per_owner[o]
        BY <3>2 DEF IInv, FlowsTypeOK, FlowsOf
      <4> QED
        BY <2>1, <4>1, <4>2
    <3> QED
      BY <3>1, <3>2
  <2>5. NoSilentIdle'
    <3> SUFFICES ASSUME NEW p \in Owners, told'[p], per_owner'[p] = {}
                 PROVE  silenced'[p]
      BY DEF NoSilentIdle
    <3>1. CASE p # o
      BY <2>1, <3>1 DEF IInv, FlowsTypeOK, NoSilentIdle, Emit
    <3>2. CASE p = o
      BY <2>1, <3>2 DEF IInv, FlowsTypeOK, NoSilentIdle, MarkIsRecent, Emit, EmitsIdle
    <3> QED
      BY <3>1, <3>2
  <2>6. MarkIsRecent'
    BY <2>1 DEF IInv, FlowsTypeOK, MarkIsRecent, Emit, EmitsIdle
  <2> QED
    BY <2>2, <2>3, <2>4, <2>5, <2>6 DEF IInv
<1> QED
  BY <1>1, <1>2

\* The remaining operations touch neither the sets nor the index.
LEMMA MarksKeep ==
    ASSUME IInv,
           \/ \E o \in Owners : suppress_for(o) \/ SuppressionExpires(o)
           \/ ReadRevisions
           \/ UNCHANGED flowVars
    PROVE  IInv'
<1>1. CASE \E o \in Owners : suppress_for(o)
  BY <1>1 DEF IInv, FlowsTypeOK, IndexSound, IndexComplete, NoSilentIdle, MarkIsRecent,
              suppress_for, FlowsOf
<1>2. CASE \E o \in Owners : SuppressionExpires(o)
  BY <1>2 DEF IInv, FlowsTypeOK, IndexSound, IndexComplete, NoSilentIdle, MarkIsRecent,
              SuppressionExpires, FlowsOf
<1>3. CASE ReadRevisions
  BY <1>3 DEF IInv, FlowsTypeOK, IndexSound, IndexComplete, NoSilentIdle, MarkIsRecent,
              ReadRevisions, FlowsOf
<1>4. CASE UNCHANGED flowVars
  BY <1>4 DEF IInv, FlowsTypeOK, IndexSound, IndexComplete, NoSilentIdle, MarkIsRecent,
              flowVars, FlowsOf
<1> QED
  BY <1>1, <1>2, <1>3, <1>4

\* Whatever order packets, DESTROY events, flushes and reconcile passes come
\* in, OpenFlows keeps its reverse index in step with its sets and never lets
\* an owner fall idle unannounced except across a flush of the client's own.
THEOREM OpenFlowsCorrect ==
    Spec => [](FlowsTypeOK /\ IndexSound /\ IndexComplete /\ NoSilentIdle)
<1>1. Init => IInv
  BY OpenFlowsAssumption DEF Init, IInv, FlowsTypeOK, IndexSound, IndexComplete, NoSilentIdle,
                             MarkIsRecent, FlowsOf
<1>2. IInv /\ [Next]_flowVars => IInv'
  <2> SUFFICES ASSUME IInv, [Next]_flowVars
               PROVE  IInv'
    OBVIOUS
  <2>1. CASE \E o \in Owners, f \in Flows : o \in MayOwn[f] /\ insert(o, f)
    BY <2>1, InsertKeeps
  <2>2. CASE \E f \in Flows : remove(f)
    BY <2>2, RemoveKeeps
  <2>3. CASE \E o \in Owners : \E dump \in SUBSET FlowsOf(o) : reconcile_at(o, dump)
    BY <2>3, ReconcileKeeps
  <2>4. CASE \/ \E o \in Owners : suppress_for(o) \/ SuppressionExpires(o)
             \/ ReadRevisions
             \/ UNCHANGED flowVars
    BY <2>4, MarksKeep
  <2> QED
    BY <2>1, <2>2, <2>3, <2>4 DEF Next
<1>3. IInv => FlowsTypeOK /\ IndexSound /\ IndexComplete /\ NoSilentIdle
  BY DEF IInv
<1> QED
  BY <1>1, <1>2, <1>3, PTL DEF Spec


-----------------------------------------------------------------------------
(* EdgeLiveness: the tasks around the set.                                 *)

Rep == [owner : Owners, active : BOOLEAN, by : Flows \cup {"destroy", "reconcile"}]

\* No task has two reports on their way, and a held packet whose report is on
\* its way waits for it.
OneEach(q) == \A i, j \in 1..Len(q) : q[i].by = q[j].by => i = j
Awaited(q, h) == \A i \in 1..Len(q) : q[i].by \in Flows => h[q[i].by] = "report"

\* What the server has been told of owner o, when q has arrived in order and
\* its edge is e now, is that connections are open exactly if `some' holds.
Says(q, e, o, some) ==
    /\ \A i \in 1..Len(q) :
          q[i].owner = o /\ (\A j \in 1..Len(q) : j > i => q[j].owner # o) => (q[i].active <=> some)
    /\ (\A i \in 1..Len(q) : q[i].owner # o) /\ e = "idle" => ~some

\* A report is added to those on their way.
LEMMA ReportSent ==
    ASSUME NEW q \in Seq(Rep), NEW r \in Rep
    PROVE  /\ Append(q, r) \in Seq(Rep)
           /\ OneEach(q) /\ (\A i \in 1..Len(q) : q[i].by # r.by) => OneEach(Append(q, r))
           /\ \A h : Awaited(q, h) /\ (r.by \in Flows => h[r.by] = "report") => Awaited(Append(q, r), h)
           /\ \A e, o, some : (r.owner = o /\ (r.active <=> some)) \/ (r.owner # o /\ Says(q, e, o, some))
                                  => Says(Append(q, r), e, o, some)
  <1> DEFINE p == Append(q, r)
  <1>1. /\ p \in Seq(Rep) /\ Len(p) = Len(q) + 1 /\ Len(q) \in Nat
        /\ p[Len(q) + 1] = r /\ \A i \in 1..Len(q) : p[i] = q[i]
    BY AppendProperties, LenProperties
  <1> HIDE DEF p
  <1>a. \A i \in 1..Len(p) : (i \in 1..Len(q) /\ p[i] = q[i]) \/ (i = Len(q) + 1 /\ p[i] = r)
    BY <1>1
  <1>2. OneEach(q) /\ (\A i \in 1..Len(q) : q[i].by # r.by) => OneEach(p)
    BY <1>a DEF OneEach
  <1>3. \A h : Awaited(q, h) /\ (r.by \in Flows => h[r.by] = "report") => Awaited(p, h)
    BY <1>a DEF Awaited
  <1>4. ASSUME NEW e, NEW o, NEW some,
               (r.owner = o /\ (r.active <=> some)) \/ (r.owner # o /\ Says(q, e, o, some))
        PROVE  Says(p, e, o, some)
    <2>1. CASE r.owner = o
      <3>1. \A i \in 1..Len(p) : i # Len(q) + 1 => (Len(q) + 1) \in 1..Len(p) /\ Len(q) + 1 > i
        BY <1>1
      <3>. QED BY <1>1, <1>4, <1>a, <2>1, <3>1 DEF Says
    <2>2. CASE r.owner # o
      <3>1. \A i \in 1..Len(q) : i \in 1..Len(p)
        BY <1>1
      <3>. QED BY <1>1, <1>4, <1>a, <2>2, <3>1 DEF Says
    <2>. QED BY <2>1, <2>2
  <1>. QED BY <1>1, <1>2, <1>3, <1>4 DEF p

\* What is left of a queue when its i-th report has returned.
LEMMA RemoveAtProperties ==
    ASSUME NEW q \in Seq(Rep), NEW i \in 1..Len(q)
    PROVE  /\ RemoveAt(q, i) \in Seq(Rep) /\ Len(q) \in Nat /\ Len(RemoveAt(q, i)) = Len(q) - 1
           /\ \A j \in 1..(Len(q) - 1) : RemoveAt(q, i)[j] = IF j < i THEN q[j] ELSE q[j + 1]
  <1> DEFINE a == SubSeq(q, 1, i - 1)
             b == SubSeq(q, i + 1, Len(q))
  <1>1. Len(q) \in Nat /\ \A j \in 1..Len(q) : q[j] \in Rep
    BY LenProperties, ElementOfSeq
  <1>2. /\ a \in Seq(Rep) /\ Len(a) = i - 1
        /\ \A j \in 1..(i - 1) : a[j] = q[j]
    <2>1. /\ a \in Seq(Rep) /\ Len(a) = (IF 1 <= i - 1 THEN (i - 1) - 1 + 1 ELSE 0)
          /\ \A j \in 1..((i - 1) - 1 + 1) : a[j] = q[1 + j - 1]
      <3>1. 1 \in Int /\ i - 1 \in Int /\ \A j \in 1..(i - 1) : q[j] \in Rep
        BY <1>1
      <3>. QED BY <3>1, SubSeqProperties
    <2> HIDE DEF a
    <2>. QED BY <2>1, <1>1
  <1>3. /\ b \in Seq(Rep) /\ Len(b) = Len(q) - i
        /\ \A j \in 1..(Len(q) - i) : b[j] = q[i + j]
    <2>1. /\ b \in Seq(Rep) /\ Len(b) = (IF i + 1 <= Len(q) THEN Len(q) - (i + 1) + 1 ELSE 0)
          /\ \A j \in 1..(Len(q) - (i + 1) + 1) : b[j] = q[(i + 1) + j - 1]
      <3>1. i + 1 \in Int /\ Len(q) \in Int /\ \A j \in (i + 1)..Len(q) : q[j] \in Rep
        BY <1>1
      <3>. QED BY <3>1, SubSeqProperties
    <2> HIDE DEF b
    <2>. QED BY <2>1, <1>1
  <1>4. RemoveAt(q, i) = a \o b
    BY DEF RemoveAt
  <1> HIDE DEF a, b
  <1>5. /\ a \o b \in Seq(Rep) /\ Len(a \o b) = Len(a) + Len(b)
        /\ \A j \in 1..(Len(a) + Len(b)) : (a \o b)[j] = IF j <= Len(a) THEN a[j] ELSE b[j - Len(a)]
    BY <1>2, <1>3, ConcatProperties
  <1> DEFINE p == a \o b
  <1>6. /\ p \in Seq(Rep) /\ Len(p) = Len(a) + Len(b)
        /\ \A j \in 1..(Len(a) + Len(b)) : p[j] = IF j <= Len(a) THEN a[j] ELSE b[j - Len(a)]
    BY <1>5
  <1>7. RemoveAt(q, i) = p
    BY <1>4
  <1> HIDE DEF p
  <1>8. Len(p) = Len(q) - 1
    BY <1>1, <1>2, <1>3, <1>6
  <1>9. ASSUME NEW j \in 1..(Len(q) - 1) PROVE p[j] = IF j < i THEN q[j] ELSE q[j + 1]
    <2>a. j \in 1..(Len(a) + Len(b)) /\ Len(a) = i - 1
      BY <1>1, <1>2, <1>3
    <2>b. p[j] = IF j <= Len(a) THEN a[j] ELSE b[j - Len(a)]
      BY <1>6, <2>a
    <2>1. CASE j < i
      <3>1. j <= Len(a) /\ j \in 1..(i - 1)
        BY <1>1, <2>1, <2>a
      <3>. QED BY <1>2, <2>1, <2>b, <3>1
    <2>2. CASE ~(j < i)
      <3>1. j - (i - 1) \in 1..(Len(q) - i) /\ i + (j - (i - 1)) = j + 1
        BY <1>1, <2>2
      <3>2. b[j - (i - 1)] = q[j + 1]
        BY <1>3, <3>1
      <3>3. ~(j <= Len(a)) /\ j - Len(a) = j - (i - 1)
        BY <1>1, <2>2, <2>a
      <3>. QED BY <2>2, <2>b, <3>2, <3>3
    <2>. QED BY <2>1, <2>2
  <1>. QED BY <1>1, <1>6, <1>7, <1>8, <1>9

\* A report returns, and a held packet that waited for it goes on; when no
\* older one of its owner is on its way, the server has been told.
LEMMA ReportReturns ==
    ASSUME NEW q \in Seq(Rep), NEW i \in 1..Len(q), OneEach(q)
    PROVE  /\ RemoveAt(q, i) \in Seq(Rep) /\ OneEach(RemoveAt(q, i))
           /\ \A h, g : Awaited(q, h) /\ (\A f \in Flows : f # q[i].by => g[f] = h[f]) => Awaited(RemoveAt(q, i), g)
           /\ \A e, o, some : q[i].owner # o /\ Says(q, e, o, some) => Says(RemoveAt(q, i), e, o, some)
           /\ \A e, o, some :
                 /\ q[i].owner = o /\ (\A j \in 1..Len(q) : j < i => q[j].owner # o)
                 /\ Says(q, e, o, some)
                 => Says(RemoveAt(q, i),
                         IF e = "none" THEN e ELSE IF q[i].active THEN "active" ELSE "idle",
                         o, some)
  <1> DEFINE p == RemoveAt(q, i)
             At(j) == IF j < i THEN j ELSE j + 1
             Back(k) == IF k < i THEN k ELSE k - 1
  <1>1. /\ p \in Seq(Rep) /\ Len(q) \in Nat /\ Len(p) = Len(q) - 1
        /\ \A j \in 1..Len(p) : p[j] = IF j < i THEN q[j] ELSE q[j + 1]
    BY RemoveAtProperties
  <1> HIDE DEF p
  <1>2. \A j \in 1..Len(p) : At(j) \in 1..Len(q) /\ At(j) # i /\ p[j] = q[At(j)]
    BY <1>1
  <1>3. \A j, k \in 1..Len(p) : At(j) = At(k) => j = k
    BY <1>1
  <1>7. \A k \in 1..Len(q) : k # i => Back(k) \in 1..Len(p) /\ p[Back(k)] = q[k]
    BY <1>1
  <1>8. \A j \in 1..Len(p), k \in 1..Len(q) : k # i /\ k > At(j) => Back(k) > j
    BY <1>1
  <1>9. \A j \in 1..Len(p), k \in 1..Len(q) : k > At(j) => k # i \/ At(j) < i
    BY <1>1
  <1> HIDE DEF At, Back
  <1>4. OneEach(p)
    <2> SUFFICES ASSUME NEW j \in 1..Len(p), NEW k \in 1..Len(p), p[j].by = p[k].by PROVE j = k
      BY DEF OneEach
    <2>1. At(j) = At(k)
      BY <1>2 DEF OneEach
    <2>. QED BY <1>3, <2>1
  <1>5. ASSUME NEW h, NEW g, Awaited(q, h), \A f \in Flows : f # q[i].by => g[f] = h[f]
        PROVE  Awaited(p, g)
    <2> SUFFICES ASSUME NEW j \in 1..Len(p), p[j].by \in Flows PROVE g[p[j].by] = "report"
      BY DEF Awaited
    <2>1. p[j].by # q[i].by
      BY <1>2 DEF OneEach
    <2>2. h[p[j].by] = "report"
      BY <1>2, <1>5 DEF Awaited
    <2>. QED BY <1>5, <2>1, <2>2
  <1>6. ASSUME NEW e, NEW o, NEW some, Says(q, e, o, some),
               q[i].owner # o \/ \A j \in 1..Len(q) : j < i => q[j].owner # o
        PROVE  \A j \in 1..Len(p) :
                   p[j].owner = o /\ (\A k \in 1..Len(p) : k > j => p[k].owner # o) => (p[j].active <=> some)
    <2> SUFFICES ASSUME NEW j \in 1..Len(p), p[j].owner = o, \A k \in 1..Len(p) : k > j => p[k].owner # o
                 PROVE  p[j].active <=> some
      OBVIOUS
    <2>1. At(j) \in 1..Len(q) /\ q[At(j)] = p[j]
      BY <1>2
    <2>2. ASSUME NEW k \in 1..Len(q), k > At(j) PROVE q[k].owner # o
      <3>1. CASE k # i
        BY <1>7, <1>8, <2>2, <3>1
      <3>2. CASE k = i
        BY <1>6, <1>9, <2>1, <2>2, <3>2
      <3>. QED BY <3>1, <3>2
    <2>. QED BY <1>6, <2>1, <2>2 DEF Says
  <1>10. ASSUME NEW e, NEW o, NEW some, q[i].owner # o, Says(q, e, o, some) PROVE Says(p, e, o, some)
    <2>1. (\A j \in 1..Len(p) : p[j].owner # o) => \A k \in 1..Len(q) : q[k].owner # o
      BY <1>7, <1>10
    <2>2. \A j \in 1..Len(p) :
              p[j].owner = o /\ (\A k \in 1..Len(p) : k > j => p[k].owner # o) => (p[j].active <=> some)
      BY <1>6, <1>10
    <2>3. (\A k \in 1..Len(q) : q[k].owner # o) /\ e = "idle" => ~some
      BY <1>10 DEF Says
    <2>. QED BY <2>1, <2>2, <2>3 DEF Says
  <1>11. ASSUME NEW e, NEW o, NEW some, q[i].owner = o, \A j \in 1..Len(q) : j < i => q[j].owner # o,
                Says(q, e, o, some)
         PROVE  Says(p, IF e = "none" THEN e ELSE IF q[i].active THEN "active" ELSE "idle", o, some)
    <2>1. ASSUME \A j \in 1..Len(p) : p[j].owner # o PROVE q[i].active <=> some
      <3>1. \A k \in 1..Len(q) : k > i => q[k].owner # o
        BY <1>1, <1>7, <2>1
      <3>. QED BY <1>11, <3>1 DEF Says
    <2>2. \A j \in 1..Len(p) :
              p[j].owner = o /\ (\A k \in 1..Len(p) : k > j => p[k].owner # o) => (p[j].active <=> some)
      BY <1>6, <1>11
    <2>. QED BY <2>1, <2>2 DEF Says
  <1>. QED BY <1>1, <1>4, <1>5, <1>10, <1>11 DEF p

-----------------------------------------------------------------------------
(* The invariant of the tasks.                                             *)

LvShape ==
    /\ open \subseteq Flows /\ table \subseteq Flows /\ IsFiniteSet(table) /\ flushing \subseteq Owners
    /\ held \in [Flows -> {"no", "steer", "report", "verdict"}]
    /\ edge \in [Owners -> {"none", "active", "idle"}] /\ steered \subseteq Owners
    /\ recon \in [at : {"sleep", "dump", "apply"}, dump : SUBSET Flows, todo : SUBSET Owners]
    /\ events \in Seq(Flows)

ReportsInv == reports \in Seq(Rep) /\ OneEach(reports) /\ Awaited(reports, held)

\* A held packet has no entry, and the DESTROY of a flow comes after its entry
\* has gone and is read before its next packet.
KernelInv ==
    /\ \A f \in table : held[f] = "no"
    /\ \A i \in 1..Len(events) : events[i] \notin table /\ held[events[i]] = "no"

TasksInv == IInv /\ LvShape /\ ReportsInv /\ KernelInv

\* Of an owner of whom nothing went astray: what the set should hold is in it;
Tracked(o) == Known(o) \subseteq per_owner[o]

\* a dump about to replace an untouched set lists that too, and nothing else;
DumpFits(o) ==
    recon.at = "apply" /\ o \in recon.todo /\ unchanged[o] =>
        Known(o) \subseteq recon.dump /\ recon.dump \cap FlowsOf(o) \subseteq per_owner[o]

\* connections that a flush cut are covered by its mark, and the last transition
\* emitted for them or for the set was Active;
Covered(o) ==
    /\ Unjudged(o) # {} => suppressed[o] /\ told[o]
    /\ per_owner[o] # {} => told[o]

\* and the server knows, or will when the reports have arrived, what was emitted.
ServerTold(o) == Says(reports, edge[o], o, told[o])

OwnerInv(o) == Tracked(o) /\ DumpFits(o) /\ Covered(o) /\ ServerTold(o)

LvInv == TasksInv /\ \A o \in Owners \ raced : OwnerInv(o)

\* A flow belongs to one owner.
LEMMA OwnerFacts ==
    /\ \A f \in Flows : OwnerOf(f) \in Owners /\ MayOwn[f] = {OwnerOf(f)}
    /\ \A f \in Flows, o \in Owners : f \in FlowsOf(o) <=> OwnerOf(f) = o
  <1>1. \A f \in Flows : OwnerOf(f) \in Owners /\ MayOwn[f] = {OwnerOf(f)}
    <2> TAKE f \in Flows
    <2>1. PICK o \in Owners : MayOwn[f] = {o}
      BY LivenessAssumption
    <2>2. OwnerOf(f) \in Owners /\ OwnerOf(f) \in MayOwn[f]
      BY <2>1 DEF OwnerOf
    <2>. QED BY <2>1, <2>2
  <1>. QED BY <1>1 DEF FlowsOf

\* The order in which the kernel deletes the entries of a container.
LEMMA SomeOrder ==
    ASSUME NEW S, IsFiniteSet(S)
    PROVE  SetToSeq(S) \in Seq(S)
  <1>1. Cardinality(S) \in Nat /\ ExistsBijection(1..Cardinality(S), S)
    BY FS_CardinalityType
  <1>2. \E g \in [1..Cardinality(S) -> S] : IsInjective(g)
    BY <1>1 DEF ExistsBijection, Bijection, Injection
  <1>3. SetToSeq(S) \in [1..Cardinality(S) -> S]
    BY <1>2 DEF SetToSeq
  <1>. QED BY <1>1, <1>3, SeqDef

\* A first packet is recorded, and the first of its container reported.
LEMMA PacketRecorded ==
    ASSUME LvInv, NEW f \in Flows, held[f] \in {"no", "steer"}, InsertThenReport(f), CheckMarks,
           f \notin table, \A i \in 1..Len(events) : events[i] # f,
           UNCHANGED <<open, table, events, flushVars, edge, steered, recon>>
    PROVE  LvInv'
  <1>a. PICK o \in Owners : o = OwnerOf(f) /\ MayOwn[f] = {o}
    BY OwnerFacts
  <1> DEFINE r == Report(o, TRUE, f)
  <1>0. /\ insert(o, f)
        /\ reports' = IF per_owner[o] = {} THEN Append(reports, r) ELSE reports
        /\ held' = [held EXCEPT ![f] = IF per_owner[o] = {} THEN "report" ELSE "verdict"]
    BY <1>a DEF InsertThenReport, EmitsActive
  <1>b. IInv'
    BY <1>0, <1>a, InsertKeeps DEF LvInv, TasksInv
  <1>c. /\ r \in Rep /\ r.owner = o /\ r.active = TRUE /\ r.by = f
    BY DEF Rep, Report
  <1> HIDE DEF r
  <1>1. LvShape'
    BY <1>0 DEF LvInv, TasksInv, LvShape, flushVars
  <1>d. /\ reports \in Seq(Rep) /\ OneEach(reports) /\ Awaited(reports, held)
        /\ held \in [Flows -> {"no", "steer", "report", "verdict"}]
        /\ table \subseteq Flows /\ KernelInv /\ \A i \in 1..Len(events) : events[i] \in Flows
    BY ElementOfSeq DEF LvInv, TasksInv, ReportsInv, LvShape
  <1>e. \A i \in 1..Len(reports) : reports[i].by # f
    BY <1>d DEF Awaited
  <1>f. Awaited(reports, held')
    BY <1>0, <1>d, <1>e DEF Awaited
  <1>2. ReportsInv'
    <2>1. CASE per_owner[o] = {}
      <3>1. held'[f] = "report"
        BY <1>0, <1>d, <2>1
      <3>. QED BY <1>0, <1>c, <1>d, <1>e, <1>f, <2>1, <3>1, ReportSent DEF ReportsInv
    <2>2. CASE per_owner[o] # {}
      BY <1>0, <1>d, <1>f, <2>2 DEF ReportsInv
    <2>. QED BY <2>1, <2>2
  <1>g. \A g \in Flows : g # f => held'[g] = held[g]
    BY <1>0, <1>d
  <1>3. KernelInv'
    BY <1>d, <1>g DEF KernelInv
  <1>h. /\ suppressed' = [suppressed EXCEPT ![o] = FALSE] /\ unchanged' = [unchanged EXCEPT ![o] = FALSE]
        /\ per_owner' = [per_owner EXCEPT ![o] = @ \cup {f}]
        /\ told' = [told EXCEPT ![o] = IF per_owner[o] = {} THEN TRUE ELSE @]
    BY <1>0 DEF insert, Emit, EmitsActive
  <1>i. /\ suppressed \in [Owners -> BOOLEAN] /\ unchanged \in [Owners -> BOOLEAN] /\ per_owner \in [Owners -> SUBSET Flows]
        /\ told \in [Owners -> BOOLEAN]
    BY DEF LvInv, TasksInv, IInv, FlowsTypeOK
  <1>4. ASSUME NEW p \in Owners \ raced' PROVE OwnerInv(p)'
    <2>1. OwnerInv(p) /\ ~MarkEnded(p)'
      BY <1>4 DEF CheckMarks, LvInv
    <2>2. CASE p # o
      <3>1. Known(p)' = Known(p)
        BY <1>a, <1>g, <2>2 DEF Known, Recorded
      <3>2. Unjudged(p)' = Unjudged(p)
        BY <3>1 DEF Unjudged, OpenOf
      <3>3. per_owner'[p] = per_owner[p] /\ suppressed'[p] = suppressed[p] /\ unchanged'[p] = unchanged[p] /\ told'[p] = told[p]
        BY <1>h, <1>i, <2>2
      <3>4. Tracked(p)' /\ DumpFits(p)' /\ Covered(p)'
        BY <2>1, <3>1, <3>2, <3>3 DEF OwnerInv, Tracked, DumpFits, Covered
      <3>5. Says(Append(reports, r), edge[p], p, told[p])
        BY <1>c, <1>d, <2>1, <2>2, ReportSent DEF OwnerInv, ServerTold
      <3>6. ServerTold(p)'
        BY <1>0, <2>1, <3>3, <3>5 DEF OwnerInv, ServerTold
      <3>. QED BY <3>4, <3>6 DEF OwnerInv
    <2>3. CASE p = o
      <3>1. Known(o)' \subseteq Known(o) \cup {f}
        BY <1>g DEF Known, Recorded
      <3>2. per_owner'[o] = per_owner[o] \cup {f} /\ ~suppressed'[o] /\ ~unchanged'[o] /\ told'[o]
        BY <1>h, <1>i, <2>1, <2>3 DEF OwnerInv, Covered
      <3>3. Tracked(o)' /\ DumpFits(o)'
        BY <2>1, <2>3, <3>1, <3>2 DEF OwnerInv, Tracked, DumpFits
      <3>4. Covered(o)'
        BY <2>1, <2>3, <3>2 DEF MarkEnded, Covered
      <3>5. CASE per_owner[o] = {}
        <4>1. Says(Append(reports, r), edge'[o], o, told'[o])
          BY <1>c, <1>d, <3>2, ReportSent
        <4>. QED BY <1>0, <2>3, <3>3, <3>4, <3>5, <4>1 DEF OwnerInv, ServerTold
      <3>6. CASE per_owner[o] # {}
        <4>1. told[o] = told'[o]
          BY <1>h, <1>i, <3>6
        <4>. QED BY <1>0, <2>1, <2>3, <3>3, <3>4, <3>6, <4>1 DEF OwnerInv, ServerTold
      <3>. QED BY <3>5, <3>6
    <2>. QED BY <2>2, <2>3
  <1>. QED BY <1>b, <1>1, <1>2, <1>3, <1>4 DEF LvInv, TasksInv

\* A DESTROY is read: its flow leaves the set, and the last one is reported.
LEMMA FlowRetired ==
    ASSUME LvInv, RetireFlow
    PROVE  LvInv'
  <1>a. /\ events \in Seq(Flows) /\ events # <<>> /\ held \in [Flows -> {"no", "steer", "report", "verdict"}]
        /\ reports \in Seq(Rep) /\ OneEach(reports) /\ Awaited(reports, held) /\ table \subseteq Flows /\ KernelInv
    BY DEF LvInv, TasksInv, LvShape, ReportsInv, RetireFlow
  <1>b. PICK f \in Flows : f = Head(events)
    BY <1>a, HeadTailProperties
  <1>c. PICK es \in Seq(Flows) : /\ es = Tail(events) /\ Len(es) = Len(events) - 1
                                 /\ \A i \in 1..Len(es) : es[i] = events[i + 1]
    BY <1>a, HeadTailProperties
  <1>d. Len(events) \in Nat \ {0} /\ events[1] = f /\ \A i \in 1..Len(es) : i + 1 \in 1..Len(events)
    BY <1>a, <1>b, <1>c, EmptySeq, LenProperties
  <1>e. PICK o \in Owners \cup {NoOwner} : o = owner_of[f]
    BY DEF LvInv, TasksInv, IInv, FlowsTypeOK
  <1> DEFINE r == Report(o, FALSE, "destroy")
             Empties == o # NoOwner /\ EmitsIdle(o, per_owner[o] \ {f})
  <1>0. /\ remove(f) /\ events' = es
        /\ reports' = IF Empties THEN Append(reports, r) ELSE reports
        /\ \A i \in 1..Len(reports) : reports[i].by # "destroy"
        /\ open' = open /\ table' = table /\ held' = held /\ flushing' = flushing /\ edge' = edge
        /\ steered' = steered /\ recon' = recon /\ raced' = raced
    <2>1. DOMAIN reports = 1..Len(reports)
      BY <1>a, LenProperties
    <2>. QED BY <1>b, <1>c, <1>e, <2>1 DEF RetireFlow, Reporting, flushVars
  <1>1. IInv'
    BY <1>0, RemoveKeeps DEF LvInv, TasksInv
  <1>2. LvShape'
    BY <1>0 DEF LvInv, TasksInv, LvShape
  <1>f. o # NoOwner => r \in Rep
    BY DEF Rep, Report
  <1>g. r.owner = o /\ r.active = FALSE /\ r.by = "destroy"
    BY DEF Report
  <1> HIDE DEF r
  <1>3. ReportsInv'
    <2>1. CASE Empties
      <3>1. "destroy" \notin Flows
        BY LivenessAssumption
      <3>. QED BY <1>0, <1>a, <1>f, <1>g, <2>1, <3>1, ReportSent DEF ReportsInv
    <2>2. CASE ~Empties
      BY <1>0, <1>a, <2>2 DEF ReportsInv
    <2>. QED BY <2>1, <2>2
  <1>4. KernelInv'
    <2>1. \A i \in 1..Len(es) : es[i] \notin table /\ held[es[i]] = "no"
      BY <1>a, <1>c, <1>d DEF KernelInv
    <2>. QED BY <1>0, <1>a, <2>1 DEF KernelInv
  <1>h. /\ suppressed' = suppressed /\ suppressed \in [Owners -> BOOLEAN] /\ told \in [Owners -> BOOLEAN]
        /\ per_owner \in [Owners -> SUBSET Flows] /\ unchanged \in [Owners -> BOOLEAN]
    BY <1>0 DEF remove, flowVars, LvInv, TasksInv, IInv, FlowsTypeOK
  <1>i. \A p : Known(p)' = Known(p) /\ Unjudged(p)' = Unjudged(p) /\ f \notin Known(p)
    <2>1. f \notin table /\ held[f] = "no"
      BY <1>a, <1>d DEF KernelInv
    <2>. QED BY <1>0, <2>1 DEF Known, Unjudged, OpenOf, Recorded
  <1>5. ASSUME NEW p \in Owners \ raced PROVE OwnerInv(p)'
    <2>1. OwnerInv(p)
      BY <1>5 DEF LvInv
    <2>2. CASE p # o
      <3>1. per_owner'[p] = per_owner[p] /\ unchanged'[p] = unchanged[p] /\ told'[p] = told[p]
        BY <1>0, <1>e, <1>h, <2>2 DEF remove, flowVars, Emit
      <3>2. Tracked(p)' /\ DumpFits(p)' /\ Covered(p)'
        BY <1>0, <1>h, <1>i, <2>1, <3>1 DEF OwnerInv, Tracked, DumpFits, Covered
      <3>3. Empties => Says(Append(reports, r), edge[p], p, told[p])
        BY <1>a, <1>f, <1>g, <2>1, <2>2, ReportSent DEF OwnerInv, ServerTold
      <3>4. ServerTold(p)'
        BY <1>0, <2>1, <3>1, <3>3 DEF OwnerInv, ServerTold
      <3>. QED BY <3>2, <3>4 DEF OwnerInv
    <2>3. CASE p = o
      <3>0. o # NoOwner
        BY <2>3, OpenFlowsAssumption
      <3>1. /\ per_owner'[o] = per_owner[o] \ {f} /\ f \in per_owner[o] /\ ~unchanged'[o]
            /\ told'[o] = IF Empties THEN FALSE ELSE told[o]
        <4>1. f \in per_owner[o]
          BY <1>e, <3>0 DEF LvInv, TasksInv, IInv, IndexSound
        <4>. QED BY <1>0, <1>e, <1>h, <2>3, <3>0, <4>1 DEF remove, Emit
      <3>2. Tracked(o)' /\ DumpFits(o)'
        BY <1>i, <2>1, <2>3, <3>1 DEF OwnerInv, Tracked, DumpFits
      <3>3. Empties => per_owner'[o] = {} /\ Unjudged(o) = {}
        BY <2>1, <2>3, <3>1 DEF OwnerInv, Covered, EmitsIdle
      <3>4. Covered(o)'
        BY <1>h, <1>i, <2>1, <2>3, <3>1, <3>3 DEF OwnerInv, Covered
      <3>5. CASE Empties
        <4>1. Says(Append(reports, r), edge'[o], o, told'[o])
          BY <1>a, <1>f, <1>g, <3>0, <3>1, <3>5, ReportSent
        <4>. QED BY <1>0, <2>3, <3>2, <3>4, <3>5, <4>1 DEF OwnerInv, ServerTold
      <3>6. CASE ~Empties
        BY <1>0, <2>1, <2>3, <3>1, <3>2, <3>4, <3>6 DEF OwnerInv, ServerTold
      <3>. QED BY <3>5, <3>6
    <2>. QED BY <2>2, <2>3
  <1>. QED BY <1>0, <1>1, <1>2, <1>3, <1>4, <1>5 DEF LvInv, TasksInv

\* The reconcile replaces the set of an owner.
LEMMA ContainerReconciled ==
    ASSUME LvInv, NEW o \in Owners, ReconcileContainer(o)
    PROVE  LvInv'
  <1> DEFINE dump == recon.dump \cap FlowsOf(o)
             r == Report(o, FALSE, "reconcile")
             Empties == unchanged[o] /\ EmitsIdle(o, dump)
  <1>a. /\ reports \in Seq(Rep) /\ OneEach(reports) /\ Awaited(reports, held)
        /\ recon \in [at : {"sleep", "dump", "apply"}, dump : SUBSET Flows, todo : SUBSET Owners]
        /\ per_owner \in [Owners -> SUBSET Flows] /\ unchanged \in [Owners -> BOOLEAN]
        /\ suppressed \in [Owners -> BOOLEAN] /\ told \in [Owners -> BOOLEAN]
    BY DEF LvInv, TasksInv, LvShape, ReportsInv, IInv, FlowsTypeOK
  <1>0. /\ reconcile_at(o, dump) /\ recon.at = "apply" /\ o \in recon.todo
        /\ reports' = IF Empties THEN Append(reports, r) ELSE reports
        /\ \A i \in 1..Len(reports) : reports[i].by # "reconcile"
        /\ recon' = [recon EXCEPT !.todo = @ \ {o}]
        /\ open' = open /\ table' = table /\ held' = held /\ flushing' = flushing /\ edge' = edge
        /\ steered' = steered /\ events' = events /\ CheckMarks
    <2>1. DOMAIN reports = 1..Len(reports)
      BY <1>a, LenProperties
    <2>. QED BY <2>1 DEF ReconcileContainer, Reporting, envVars, flushVars
  <1>1. IInv'
    BY <1>0, ReconcileKeeps DEF LvInv, TasksInv, FlowsOf
  <1>b. /\ recon' \in [at : {"sleep", "dump", "apply"}, dump : SUBSET Flows, todo : SUBSET Owners]
        /\ recon'.at = "apply" /\ recon'.dump = recon.dump /\ recon'.todo = recon.todo \ {o}
    BY <1>0, <1>a
  <1>2. LvShape'
    BY <1>0, <1>b DEF LvInv, TasksInv, LvShape
  <1>c. r \in Rep /\ r.owner = o /\ r.active = FALSE /\ r.by = "reconcile"
    BY DEF Rep, Report
  <1> HIDE DEF r
  <1>3. ReportsInv'
    <2>1. CASE Empties
      <3>1. "reconcile" \notin Flows
        BY LivenessAssumption
      <3>. QED BY <1>0, <1>a, <1>c, <2>1, <3>1, ReportSent DEF ReportsInv
    <2>2. CASE ~Empties
      BY <1>0, <1>a, <2>2 DEF ReportsInv
    <2>. QED BY <2>1, <2>2
  <1>4. KernelInv'
    BY <1>0 DEF LvInv, TasksInv, KernelInv
  <1>d. \A p : Known(p)' = Known(p) /\ Unjudged(p)' = Unjudged(p)
    BY <1>0 DEF Known, Unjudged, OpenOf, Recorded
  <1>5. ASSUME NEW p \in Owners \ raced' PROVE OwnerInv(p)'
    <2>1. OwnerInv(p) /\ ~MarkEnded(p)'
      BY <1>0, <1>5 DEF CheckMarks, LvInv
    <2>2. CASE p # o
      <3>1. per_owner'[p] = per_owner[p] /\ unchanged'[p] = unchanged[p] /\ told'[p] = told[p] /\ suppressed'[p] = suppressed[p]
        BY <1>0, <1>a, <2>2 DEF reconcile_at, flowVars, Emit
      <3>2. Tracked(p)' /\ DumpFits(p)' /\ Covered(p)'
        BY <1>0, <1>b, <1>d, <2>1, <3>1 DEF OwnerInv, Tracked, DumpFits, Covered
      <3>3. Says(Append(reports, r), edge[p], p, told[p])
        BY <1>a, <1>c, <2>1, <2>2, ReportSent DEF OwnerInv, ServerTold
      <3>4. ServerTold(p)'
        BY <1>0, <2>1, <3>1, <3>3 DEF OwnerInv, ServerTold
      <3>. QED BY <3>2, <3>4 DEF OwnerInv
    <2>3. CASE p = o /\ ~unchanged[o]
      <3>1. UNCHANGED flowVars /\ reports' = reports
        BY <1>0, <2>3 DEF reconcile_at
      <3>2. Tracked(p)' /\ DumpFits(p)' /\ Covered(p)' /\ ServerTold(p)'
        BY <1>0, <1>b, <1>d, <2>1, <3>1 DEF OwnerInv, Tracked, DumpFits, Covered, ServerTold, flowVars
      <3>. QED BY <3>2 DEF OwnerInv
    <2>4. CASE p = o /\ unchanged[o]
      <3>1. /\ per_owner'[o] = dump /\ suppressed'[o] = (suppressed[o] /\ dump = {})
            /\ told'[o] = IF Empties THEN FALSE ELSE told[o]
        BY <1>0, <1>a, <2>4 DEF reconcile_at, Emit
      <3>2. Known(o) \subseteq dump /\ dump \subseteq per_owner[o]
        <4>1. Known(o) \subseteq recon.dump /\ dump \subseteq per_owner[o]
          BY <1>0, <2>1, <2>4 DEF OwnerInv, DumpFits
        <4>2. Known(o) \subseteq FlowsOf(o)
          BY OwnerFacts DEF Known
        <4>. QED BY <4>1, <4>2
      <3> HIDE DEF dump
      <3>3. Tracked(o)' /\ DumpFits(o)'
        BY <1>b, <1>d, <3>1, <3>2 DEF Tracked, DumpFits
      <3>4. Empties => dump = {} /\ Unjudged(o) = {}
        BY <2>1, <2>4 DEF OwnerInv, Covered, EmitsIdle
      <3>5. Covered(o)'
        <4>1. Unjudged(o)' # {} => suppressed'[o]
          BY <2>1, <2>4 DEF MarkEnded
        <4>2. Unjudged(o)' # {} => told'[o]
          BY <1>d, <2>1, <2>4, <3>1, <3>4 DEF OwnerInv, Covered
        <4>3. per_owner'[o] # {} => told'[o]
          BY <2>1, <2>4, <3>1, <3>2, <3>4 DEF OwnerInv, Covered
        <4>. QED BY <4>1, <4>2, <4>3 DEF Covered
      <3>6. CASE Empties
        <4>1. Says(Append(reports, r), edge'[o], o, told'[o])
          BY <1>a, <1>c, <3>1, <3>6, ReportSent
        <4>. QED BY <1>0, <2>4, <3>3, <3>5, <3>6, <4>1 DEF OwnerInv, ServerTold
      <3>7. CASE ~Empties
        BY <1>0, <2>1, <2>4, <3>1, <3>3, <3>5, <3>7 DEF OwnerInv, ServerTold
      <3>. QED BY <3>6, <3>7
    <2>. QED BY <1>a, <2>2, <2>3, <2>4
  <1>. QED BY <1>1, <1>2, <1>3, <1>4, <1>5 DEF LvInv, TasksInv

\* A report has returned.
LEMMA ReportBack ==
    ASSUME LvInv, NEW i \in DOMAIN reports, SetEgressLiveness(i) \/ ReportFails(i)
    PROVE  LvInv'
  <1>a. /\ reports \in Seq(Rep) /\ OneEach(reports) /\ Awaited(reports, held)
        /\ held \in [Flows -> {"no", "steer", "report", "verdict"}]
        /\ edge \in [Owners -> {"none", "active", "idle"}]
        /\ table \subseteq Flows /\ KernelInv /\ \A j \in 1..Len(events) : events[j] \in Flows
    BY ElementOfSeq DEF LvInv, TasksInv, LvShape, ReportsInv
  <1>b. i \in 1..Len(reports) /\ DOMAIN reports = 1..Len(reports)
    BY <1>a, LenProperties
  <1>c. PICK r \in Rep : r = reports[i]
    BY <1>a, <1>b, ElementOfSeq
  <1>d. r.owner \in Owners /\ r.active \in BOOLEAN
    BY DEF Rep
  <1>e. r.by \in Flows => held[r.by] = "report"
    BY <1>a, <1>b, <1>c DEF Awaited
  <1>0. /\ reports' = RemoveAt(reports, i)
        /\ held' = IF r.by \in Flows THEN [held EXCEPT ![r.by] = "verdict"] ELSE held
        /\ UNCHANGED flowVars
        /\ open' = open /\ table' = table /\ flushing' = flushing /\ events' = events
        /\ steered' = steered /\ recon' = recon /\ raced \subseteq raced'
        /\ \/ /\ edge' = [edge EXCEPT ![r.owner] = IF @ = "none" THEN @ ELSE IF r.active THEN "active" ELSE "idle"]
              /\ r.owner \in raced' \/ \A j \in 1..Len(reports) : j < i => reports[j].owner # r.owner
           \/ edge' = edge /\ r.owner \in raced'
    BY <1>b, <1>c DEF SetEgressLiveness, ReportFails, Returned, flushVars, ReportsOf
  <1>1. IInv'
    BY <1>0, MarksKeep DEF LvInv, TasksInv
  <1>2. LvShape'
    <2>1. edge' \in [Owners -> {"none", "active", "idle"}]
      BY <1>0, <1>a, <1>d
    <2>2. held' \in [Flows -> {"no", "steer", "report", "verdict"}]
      BY <1>0, <1>a
    <2>. QED BY <1>0, <2>1, <2>2 DEF LvInv, TasksInv, LvShape
  <1>f. \A f \in Flows : (f # r.by => held'[f] = held[f]) /\ (f = r.by => held[f] = "report" /\ held'[f] = "verdict")
    BY <1>0, <1>a, <1>e
  <1>3. ReportsInv'
    <2>1. RemoveAt(reports, i) \in Seq(Rep) /\ OneEach(RemoveAt(reports, i))
      BY <1>a, <1>b, ReportReturns
    <2>2. \A h, g : Awaited(reports, h) /\ (\A f \in Flows : f # reports[i].by => g[f] = h[f])
                      => Awaited(RemoveAt(reports, i), g)
      BY <1>a, <1>b, ReportReturns
    <2>3. \A f \in Flows : f # reports[i].by => held'[f] = held[f]
      BY <1>c, <1>f
    <2>4. Awaited(RemoveAt(reports, i), held')
      BY <1>a, <2>2, <2>3
    <2>. QED BY <1>0, <2>1, <2>4 DEF ReportsInv
  <1>g. \A f \in Flows : Recorded(f)' <=> Recorded(f)
    BY <1>f DEF Recorded
  <1>4. KernelInv'
    <2>1. \A f \in Flows : held[f] = "no" => held'[f] = "no"
      BY <1>f
    <2>. QED BY <1>0, <1>a, <2>1 DEF KernelInv
  <1>h. \A p : Known(p)' = Known(p) /\ Unjudged(p)' = Unjudged(p)
    BY <1>0, <1>g DEF Known, Unjudged, OpenOf
  <1>5. ASSUME NEW p \in Owners \ raced' PROVE OwnerInv(p)'
    <2>1. OwnerInv(p)
      BY <1>0, <1>5 DEF LvInv
    <2>2. Tracked(p)' /\ DumpFits(p)' /\ Covered(p)'
      BY <1>0, <1>h, <2>1 DEF OwnerInv, Tracked, DumpFits, Covered, flowVars
    <2>3. Says(reports, edge[p], p, told[p]) /\ told'[p] = told[p]
      BY <1>0, <2>1 DEF OwnerInv, ServerTold, flowVars
    <2>4. CASE r.owner # p
      <3>1. Says(RemoveAt(reports, i), edge[p], p, told[p])
        BY <1>a, <1>b, <1>c, <2>3, <2>4, ReportReturns
      <3>2. edge'[p] = edge[p]
        BY <1>0, <1>a, <1>d, <2>4
      <3>. QED BY <1>0, <2>2, <2>3, <3>1, <3>2 DEF OwnerInv, ServerTold
    <2>5. CASE r.owner = p
      <3> DEFINE e == IF edge[p] = "none" THEN edge[p] ELSE IF r.active THEN "active" ELSE "idle"
      <3>1. edge'[p] = e /\ \A j \in 1..Len(reports) : j < i => reports[j].owner # p
        BY <1>0, <1>5, <1>a, <1>d, <2>5
      <3>2. Says(RemoveAt(reports, i), e, p, told[p])
        BY <1>a, <1>b, <1>c, <2>3, <2>5, <3>1, ReportReturns
      <3>. QED BY <1>0, <2>2, <2>3, <3>1, <3>2 DEF OwnerInv, ServerTold
    <2>. QED BY <2>4, <2>5
  <1>. QED BY <1>1, <1>2, <1>3, <1>4, <1>5 DEF LvInv, TasksInv

-----------------------------------------------------------------------------
(* Steps that send and receive no report.                                  *)

\* A step of the kernel, the steering or the server leaves the sets alone; the
\* packets that wait for a report wait on, and no edge turns idle.
LEMMA SetsLeftAlone ==
    ASSUME LvInv, UNCHANGED flowVars, reports' = reports, LvShape', KernelInv',
           \A f \in Flows : held[f] = "report" => held'[f] = "report",
           \A o \in Owners : edge'[o] = edge[o] \/ edge'[o] # "idle",
           \A o \in Owners \ raced' :
               \/ o \notin raced /\ Tracked(o)' /\ DumpFits(o)' /\ (Unjudged(o)' # {} => suppressed[o] /\ told[o])
               \/ OwnerInv(o)'
    PROVE  LvInv'
  <1>1. IInv'
    BY MarksKeep DEF LvInv, TasksInv
  <1>2. ReportsInv'
    BY DEF LvInv, TasksInv, ReportsInv, Awaited
  <1>3. ASSUME NEW o \in Owners \ raced, Tracked(o)', DumpFits(o)', Unjudged(o)' # {} => suppressed[o] /\ told[o]
        PROVE  OwnerInv(o)'
    <2>1. OwnerInv(o) /\ per_owner'[o] = per_owner[o] /\ told'[o] = told[o] /\ suppressed'[o] = suppressed[o]
      BY DEF LvInv, flowVars
    <2>2. Covered(o)'
      BY <1>3, <2>1 DEF OwnerInv, Covered
    <2>3. ServerTold(o)'
      BY <2>1 DEF OwnerInv, ServerTold, Says
    <2>. QED BY <1>3, <2>2, <2>3 DEF OwnerInv
  <1>. QED BY <1>1, <1>2, <1>3 DEF LvInv, TasksInv

\* In particular when of every owner no more flows are known and no more are to
\* be judged again.
LEMMA NothingNew ==
    ASSUME LvInv, UNCHANGED flowVars, raced' = raced, recon' = recon,
           NEW o \in Owners \ raced, Known(o)' \subseteq Known(o), Unjudged(o)' \subseteq Unjudged(o)
    PROVE  Tracked(o)' /\ DumpFits(o)' /\ (Unjudged(o)' # {} => suppressed[o] /\ told[o])
  BY DEF LvInv, OwnerInv, Tracked, DumpFits, Covered, flowVars

LEMMA PacketSteps ==
    ASSUME LvInv, NEW f \in Flows,
           NewPacketTriggers(f) \/ SteerTimeout(f) \/ Verdict(f) \/ Close(f) \/ Destroyed(f)
    PROVE  LvInv'
  <1>a. LvShape /\ KernelInv
    BY DEF LvInv, TasksInv
  <1>b. /\ \A i \in 1..Len(events) : events[i] \in Flows
        /\ DOMAIN events = 1..Len(events) /\ Len(events) \in Nat /\ table \subseteq Flows
    BY <1>a, ElementOfSeq, LenProperties DEF LvShape
  <1>1. CASE NewPacketTriggers(f)
    <2> DEFINE o == OwnerOf(f)
    <2>0. /\ held[f] = "no" /\ f \notin table /\ \A i \in 1..Len(events) : events[i] # f
          /\ held' = [held EXCEPT ![f] = "steer"]
          /\ edge' = [edge EXCEPT ![o] = IF @ = "none" THEN "active" ELSE @]
          /\ raced' = IF AtRest(o) THEN raced \ {o} ELSE raced
          /\ UNCHANGED <<flowVars, open, table, events, flushing, reports, steered, recon>>
      BY <1>1, <1>b DEF NewPacketTriggers, FirstPacketOf, flushVars
    <2>a. o \in Owners
      BY OwnerFacts
    <2> HIDE DEF o
    <2>1. LvShape'
      BY <1>a, <2>0, <2>a DEF LvShape
    <2>2. /\ \A g \in Flows : held[g] = "report" => held'[g] = "report"
          /\ \A p \in Owners : edge'[p] = edge[p] \/ edge'[p] # "idle"
      BY <1>a, <2>0, <2>a DEF LvShape
    <2>b. \A g \in Flows : g # f => held'[g] = held[g]
      BY <1>a, <2>0 DEF LvShape
    <2>3. KernelInv'
      BY <1>a, <1>b, <2>0, <2>b DEF KernelInv
    <2>4. \A p : Known(p)' = Known(p) /\ Unjudged(p)' = Unjudged(p)
      <3>1. \A g \in Flows : Recorded(g)' <=> Recorded(g)
        BY <1>a, <2>0 DEF LvShape, Recorded
      <3>. QED BY <2>0, <3>1 DEF Known, Unjudged, OpenOf
    <2>5. ASSUME NEW p \in Owners \ raced PROVE Tracked(p)' /\ DumpFits(p)' /\ (Unjudged(p)' # {} => suppressed[p] /\ told[p])
      BY <2>0, <2>4 DEF LvInv, OwnerInv, Tracked, DumpFits, Covered, flowVars
    <2>6. ASSUME AtRest(o) PROVE OwnerInv(o)'
      <3>1. per_owner'[o] = {} /\ Known(o)' = {} /\ Unjudged(o)' = {} /\ o \notin recon'.todo
        BY <2>0, <2>4, <2>6 DEF AtRest, Unjudged, flowVars
      <3>2. edge'[o] = "active"
        BY <1>a, <2>0, <2>6, <2>a DEF AtRest, LvShape
      <3>3. \A i \in 1..Len(reports) : reports[i].owner # o
        <4>1. DOMAIN reports = 1..Len(reports)
          BY LenProperties DEF LvInv, TasksInv, ReportsInv
        <4>. QED BY <2>6, <4>1 DEF AtRest, ReportsOf
      <3>4. ServerTold(o)'
        BY <2>0, <3>2, <3>3 DEF ServerTold, Says
      <3>. QED BY <3>1, <3>4 DEF OwnerInv, Tracked, DumpFits, Covered
    <2>7. \A p \in Owners \ raced' : p \notin raced \/ (p = o /\ AtRest(o))
      BY <2>0
    <2>. QED BY <2>0, <2>1, <2>2, <2>3, <2>5, <2>6, <2>7, SetsLeftAlone
  <1>2. CASE SteerTimeout(f)
    <2>0. /\ held[f] = "steer" /\ held' = [held EXCEPT ![f] = "no"]
          /\ UNCHANGED <<flowVars, open, table, events, flushing, reports, edge, steered, recon, raced>>
      BY <1>2 DEF SteerTimeout, flushVars, rpcVars
    <2>1. LvShape'
      BY <1>a, <2>0 DEF LvShape
    <2>2. \A g \in Flows : (held[g] = "report" => held'[g] = "report") /\ (held[g] = "no" => held'[g] = "no")
      BY <1>a, <2>0 DEF LvShape
    <2>3. KernelInv'
      BY <1>a, <1>b, <2>0, <2>2 DEF KernelInv
    <2>4. \A p : Known(p)' = Known(p) /\ Unjudged(p)' = Unjudged(p)
      <3>1. \A g \in Flows : Recorded(g)' <=> Recorded(g)
        BY <1>a, <2>0 DEF LvShape, Recorded
      <3>. QED BY <2>0, <3>1 DEF Known, Unjudged, OpenOf
    <2>5. \A p \in Owners \ raced : Tracked(p)' /\ DumpFits(p)' /\ (Unjudged(p)' # {} => suppressed[p] /\ told[p])
      BY <2>0, <2>4, NothingNew
    <2>. QED BY <2>0, <2>1, <2>2, <2>3, <2>5, SetsLeftAlone
  <1>3. CASE Verdict(f)
    <2>0. /\ held[f] = "verdict" /\ held' = [held EXCEPT ![f] = "no"]
          /\ open' = open \cup {f} /\ table' = table \cup {f}
          /\ UNCHANGED <<flowVars, events, flushing, reports, edge, steered, recon, raced>>
      BY <1>3 DEF Verdict, flushVars, rpcVars
    <2>1. LvShape'
      <3>1. IsFiniteSet(table \cup {f})
        BY <1>a, FS_AddElement DEF LvShape
      <3>. QED BY <1>a, <2>0, <3>1 DEF LvShape
    <2>2. \A g \in Flows : /\ held[g] = "report" => held'[g] = "report"
                           /\ held[g] = "no" => held'[g] = "no"
                           /\ held'[f] = "no" /\ held[f] # "no"
      BY <1>a, <2>0 DEF LvShape
    <2>3. KernelInv'
      BY <1>a, <1>b, <2>0, <2>2 DEF KernelInv
    <2>4. \A p : Known(p)' = Known(p)
      <3>1. \A g \in Flows : (g \in table' \/ Recorded(g)') <=> (g \in table \/ Recorded(g))
        BY <1>a, <2>0 DEF LvShape, Recorded
      <3>. QED BY <3>1 DEF Known
    <2>5. \A p : Unjudged(p)' \subseteq Unjudged(p)
      <3>1. f \in Known(OwnerOf(f))
        BY <2>0 DEF Known, Recorded
      <3>. QED BY <2>0, <2>4, <3>1 DEF Unjudged, OpenOf
    <2>6. \A p \in Owners \ raced : Tracked(p)' /\ DumpFits(p)' /\ (Unjudged(p)' # {} => suppressed[p] /\ told[p])
      BY <2>0, <2>4, <2>5, NothingNew
    <2>. QED BY <2>0, <2>1, <2>2, <2>3, <2>6, SetsLeftAlone
  <1>4. CASE Close(f)
    <2>0. /\ open' = open \ {f}
          /\ UNCHANGED <<flowVars, table, events, held, flushing, reports, edge, steered, recon, raced>>
      BY <1>4 DEF Close, flushVars, rpcVars
    <2>1. LvShape' /\ KernelInv'
      BY <1>a, <2>0 DEF LvShape, KernelInv
    <2>2. \A p : Known(p)' = Known(p) /\ Unjudged(p)' \subseteq Unjudged(p)
      BY <2>0 DEF Known, Recorded, Unjudged, OpenOf
    <2>3. \A p \in Owners \ raced : Tracked(p)' /\ DumpFits(p)' /\ (Unjudged(p)' # {} => suppressed[p] /\ told[p])
      BY <2>0, <2>2, NothingNew
    <2>. QED BY <2>0, <2>1, <2>3, SetsLeftAlone
  <1>5. CASE Destroyed(f)
    <2>0. /\ f \in table \ open /\ table' = table \ {f}
          /\ events' = Append(events, f) \/ events' = events
          /\ UNCHANGED <<flowVars, open, held, flushing, reports, edge, steered, recon, raced>>
      BY <1>5 DEF Destroyed, flushVars, rpcVars
    <2>a. /\ events' \in Seq(Flows)
          /\ \A i \in 1..Len(events') : (i \in 1..Len(events) /\ events'[i] = events[i]) \/ events'[i] = f
      <3>1. CASE events' = events
        BY <1>a, <3>1 DEF LvShape
      <3>2. CASE events' = Append(events, f)
        <4>1. /\ Append(events, f) \in Seq(Flows) /\ Len(Append(events, f)) = Len(events) + 1
              /\ \A i \in 1..Len(events) : Append(events, f)[i] = events[i]
              /\ Append(events, f)[Len(events) + 1] = f
          BY <1>a, AppendProperties DEF LvShape
        <4>. QED BY <1>b, <3>2, <4>1
      <3>. QED BY <2>0, <3>1, <3>2
    <2>1. LvShape'
      <3>1. IsFiniteSet(table')
        BY <1>a, <2>0, FS_RemoveElement DEF LvShape
      <3>. QED BY <1>a, <2>0, <2>a, <3>1 DEF LvShape
    <2>2. KernelInv'
      BY <1>a, <2>0, <2>a DEF KernelInv
    <2>3. \A p : Known(p)' \subseteq Known(p) /\ Unjudged(p)' \subseteq Unjudged(p)
      BY <2>0 DEF Known, Recorded, Unjudged, OpenOf
    <2>4. \A p \in Owners \ raced : Tracked(p)' /\ DumpFits(p)' /\ (Unjudged(p)' # {} => suppressed[p] /\ told[p])
      BY <2>0, <2>3, NothingNew
    <2>. QED BY <2>0, <2>1, <2>2, <2>4, SetsLeftAlone
  <1>. QED BY <1>1, <1>2, <1>3, <1>4, <1>5

LEMMA ServerSteps ==
    ASSUME LvInv, NEW o \in Owners, SteerArrives(o) \/ Reap(o) \/ TeardownArrives(o)
    PROVE  LvInv'
  <1>a. LvShape /\ KernelInv
    BY DEF LvInv, TasksInv
  <1>0. /\ steered' \subseteq steered \cup {o}
        /\ edge' = edge \/ edge' = [edge EXCEPT ![o] = "none"]
        /\ UNCHANGED <<flowVars, open, table, events, held, flushing, reports, recon, raced>>
    BY DEF SteerArrives, Reap, TeardownArrives, envVars, flushVars
  <1>1. LvShape' /\ KernelInv'
    BY <1>a, <1>0 DEF LvShape, KernelInv
  <1>2. \A p \in Owners : edge'[p] = edge[p] \/ edge'[p] # "idle"
    BY <1>a, <1>0 DEF LvShape
  <1>3. \A p : Known(p)' = Known(p) /\ Unjudged(p)' = Unjudged(p)
    BY <1>0 DEF Known, Recorded, Unjudged, OpenOf
  <1>4. \A p \in Owners \ raced : Tracked(p)' /\ DumpFits(p)' /\ (Unjudged(p)' # {} => suppressed[p] /\ told[p])
    BY <1>0, <1>3, NothingNew
  <1>. QED BY <1>0, <1>1, <1>2, <1>4, SetsLeftAlone

\* A flush cuts only connections that were in the set, so that the last
\* transition was Active; their owner goes astray unless it is marked.
LEMMA FlushStep ==
    ASSUME LvInv, NEW o \in Owners, Flush(o)
    PROVE  LvInv'
  <1>a. LvShape /\ KernelInv
    BY DEF LvInv, TasksInv
  <1>0. PICK gone \in SUBSET table :
            /\ \A f \in gone : OwnerOf(f) = o
            /\ flushing' = flushing \ {o}
            /\ table' = table \ gone /\ events' = events \o SetToSeq(gone)
            /\ UNCHANGED <<flowVars, open, held, reports, edge, steered, recon>>
            /\ CheckMarks
    BY DEF Flush
  <1> DEFINE es == SetToSeq(gone)
  <1>b. IsFiniteSet(gone) /\ IsFiniteSet(table \ gone) /\ gone \subseteq Flows
    BY <1>a, FS_Subset DEF LvShape
  <1>c. es \in Seq(gone) /\ es \in Seq(Flows)
    <2>1. es \in Seq(gone)
      BY <1>b, SomeOrder
    <2>. QED BY <1>b, <2>1, SeqDef
  <1> HIDE DEF es
  <1>d. /\ events \o es \in Seq(Flows) /\ Len(events \o es) = Len(events) + Len(es)
        /\ \A i \in 1..(Len(events) + Len(es)) : (events \o es)[i] = IF i <= Len(events) THEN events[i] ELSE es[i - Len(events)]
        /\ Len(events) \in Nat /\ Len(es) \in Nat
    BY <1>a, <1>c, ConcatProperties, LenProperties DEF LvShape
  <1>e. \A i \in 1..Len(es) : es[i] \in gone
    BY <1>c, ElementOfSeq
  <1>f. events' = events \o es
    BY <1>0 DEF es
  <1>1. LvShape'
    BY <1>a, <1>0, <1>b, <1>d, <1>f DEF LvShape
  <1>2. KernelInv'
    <2>1. ASSUME NEW i \in 1..Len(events') PROVE events'[i] \notin table' /\ held[events'[i]] = "no"
      <3>1. CASE i <= Len(events)
        <4>1. i \in 1..Len(events) /\ events'[i] = events[i]
          BY <1>d, <1>f, <3>1
        <4>. QED BY <1>0, <1>a, <4>1 DEF KernelInv
      <3>2. CASE ~(i <= Len(events))
        <4>1. i - Len(events) \in 1..Len(es) /\ events'[i] = es[i - Len(events)]
          BY <1>d, <1>f, <3>2
        <4>2. events'[i] \in gone
          BY <1>e, <4>1
        <4>. QED BY <1>0, <1>a, <4>2 DEF KernelInv
      <3>. QED BY <3>1, <3>2
    <2>. QED BY <1>0, <1>a, <2>1 DEF KernelInv
  <1>3. ASSUME NEW p \in Owners \ raced'
        PROVE  p \notin raced /\ Tracked(p)' /\ DumpFits(p)' /\ (Unjudged(p)' # {} => suppressed[p] /\ told[p])
    <2>1. OwnerInv(p) /\ ~MarkEnded(p)' /\ p \notin raced
      BY <1>0, <1>3 DEF CheckMarks, LvInv
    <2>2. Known(p)' \subseteq Known(p)
      BY <1>0 DEF Known, Recorded
    <2>3. Tracked(p)' /\ DumpFits(p)'
      BY <1>0, <2>1, <2>2 DEF OwnerInv, Tracked, DumpFits, flowVars
    <2>4. Unjudged(p)' # {} => suppressed[p]
      BY <1>0, <2>1 DEF MarkEnded, flowVars
    <2>5. Unjudged(p)' # {} => told[p]
      <3>1. Unjudged(p)' \subseteq Unjudged(p) \cup Known(p)
        BY <1>0 DEF Unjudged, OpenOf
      <3>2. Known(p) # {} => told[p]
        BY <2>1 DEF OwnerInv, Tracked, Covered
      <3>. QED BY <2>1, <3>1, <3>2 DEF OwnerInv, Covered
    <2>. QED BY <2>1, <2>3, <2>4, <2>5
  <1>. QED BY <1>0, <1>1, <1>2, <1>3, SetsLeftAlone

LEMMA ReconcileSteps ==
    ASSUME LvInv, Dump \/ DumpFails \/ ReconcileDone
    PROVE  LvInv'
  <1>a. LvShape /\ KernelInv
    BY DEF LvInv, TasksInv
  <1>0. /\ \/ /\ recon' = [at |-> "apply", dump |-> table, todo |-> Owners]
              /\ raced' = raced \cup {o \in Owners : unchanged[o] /\ \E f \in FlowsOf(o) : Recorded(f)}
           \/ recon' = [at |-> "sleep", dump |-> {}, todo |-> {}] /\ raced' = raced
        /\ UNCHANGED <<flowVars, open, table, events, held, flushing, reports, edge, steered>>
    BY DEF Dump, DumpFails, ReconcileDone, Sleeping, envVars, flushVars, rpcVars
  <1>1. LvShape' /\ KernelInv'
    <2>1. recon' \in [at : {"sleep", "dump", "apply"}, dump : SUBSET Flows, todo : SUBSET Owners]
      BY <1>0, <1>a DEF LvShape
    <2>. QED BY <1>0, <1>a, <2>1 DEF LvShape, KernelInv
  <1>2. \A p : Known(p)' = Known(p) /\ Unjudged(p)' = Unjudged(p)
    BY <1>0 DEF Known, Recorded, Unjudged, OpenOf
  <1>3. ASSUME NEW p \in Owners \ raced'
        PROVE  p \notin raced /\ Tracked(p)' /\ DumpFits(p)' /\ (Unjudged(p)' # {} => suppressed[p] /\ told[p])
    <2>1. OwnerInv(p) /\ p \notin raced
      BY <1>0, <1>3 DEF LvInv
    <2>2. Tracked(p)' /\ (Unjudged(p)' # {} => suppressed[p] /\ told[p])
      BY <1>0, <1>2, <2>1 DEF OwnerInv, Tracked, Covered, flowVars
    <2>3. DumpFits(p)'
      <3>1. CASE recon'.at # "apply"
        BY <3>1 DEF DumpFits
      <3>2. CASE recon'.at = "apply"
        <4>1. /\ recon' = [at |-> "apply", dump |-> table, todo |-> Owners]
              /\ unchanged[p] => \A f \in FlowsOf(p) : ~Recorded(f)
          BY <1>0, <1>3, <3>2
        <4>2. recon'.dump = table
          BY <4>1
        <4>3. unchanged[p] => Known(p) \subseteq table
          BY <4>1, OwnerFacts DEF Known
        <4>4. table \cap FlowsOf(p) \subseteq Known(p)
          BY <1>a, OwnerFacts DEF Known, LvShape
        <4>5. Known(p) \subseteq per_owner[p]
          BY <2>1 DEF OwnerInv, Tracked
        <4>6. unchanged'[p] = unchanged[p] /\ per_owner'[p] = per_owner[p]
          BY <1>0 DEF flowVars
        <4>. QED BY <1>2, <4>2, <4>3, <4>4, <4>5, <4>6 DEF DumpFits
      <3>. QED BY <3>1, <3>2
    <2>. QED BY <2>1, <2>2, <2>3
  <1>. QED BY <1>0, <1>1, <1>3, SetsLeftAlone

\* The marks on the sets change: the revisions are read, an owner is suppressed
\* for a flush, the suppression ends.
LEMMA MarkSteps ==
    ASSUME LvInv,
           StartReconcile \/ \E o \in Owners : SuppressForFlush(o) \/ SuppressionPasses(o)
    PROVE  LvInv'
  <1>a. /\ LvShape /\ ReportsInv /\ KernelInv
        /\ suppressed \in [Owners -> BOOLEAN] /\ unchanged \in [Owners -> BOOLEAN]
    BY DEF LvInv, TasksInv, IInv, FlowsTypeOK
  <1>0. /\ ReadRevisions \/ \E o \in Owners : suppress_for(o) \/ SuppressionExpires(o)
        /\ UNCHANGED <<open, table, events, held, reports, edge, steered>>
    BY DEF StartReconcile, SuppressForFlush, SuppressionPasses, envVars, flushVars, rpcVars
  <1>1. IInv'
    BY <1>0, MarksKeep DEF LvInv, TasksInv
  <1>2. ReportsInv' /\ KernelInv'
    BY <1>0, <1>a DEF ReportsInv, KernelInv
  <1>b. per_owner' = per_owner /\ told' = told
    BY <1>0 DEF ReadRevisions, suppress_for, SuppressionExpires
  <1>c. \A p : Known(p)' = Known(p) /\ Unjudged(p)' = Unjudged(p)
    BY <1>0 DEF Known, Recorded, Unjudged, OpenOf
  <1>d. ASSUME NEW p \in Owners \ raced,
               DumpFits(p)', Unjudged(p) # {} /\ suppressed[p] => suppressed'[p]
        PROVE  OwnerInv(p)'
    BY <1>0, <1>b, <1>c, <1>d DEF LvInv, OwnerInv, Tracked, Covered, ServerTold
  <1>3. CASE StartReconcile
    <2>0. /\ recon' = [at |-> "dump", dump |-> {}, todo |-> {}] /\ flushing' = flushing /\ suppressed' = suppressed
          /\ raced' = raced
      BY <1>3 DEF StartReconcile, Sleeping, ReadRevisions, envVars, flushVars, rpcVars
    <2>1. LvShape' /\ recon'.at = "dump"
      <3>1. recon' \in [at : {"sleep", "dump", "apply"}, dump : SUBSET Flows, todo : SUBSET Owners] /\ recon'.at = "dump"
        BY <2>0
      <3>. QED BY <1>0, <1>a, <2>0, <3>1 DEF LvShape
    <2>2. \A p \in Owners \ raced' : OwnerInv(p)'
      BY <1>d, <2>0, <2>1 DEF DumpFits
    <2>. QED BY <1>1, <1>2, <2>1, <2>2 DEF LvInv, TasksInv
  <1>4. ASSUME NEW o \in Owners, SuppressForFlush(o) PROVE LvInv'
    <2>0. /\ flushing' = flushing \cup {o} /\ recon' = recon /\ raced' = raced
          /\ unchanged' = [unchanged EXCEPT ![o] = FALSE] /\ suppressed' = [suppressed EXCEPT ![o] = TRUE]
      BY <1>4 DEF SuppressForFlush, suppress_for, rpcVars
    <2>1. LvShape'
      BY <1>0, <1>a, <2>0 DEF LvShape
    <2>2. \A p \in Owners : (unchanged'[p] => unchanged[p]) /\ (suppressed[p] => suppressed'[p])
      BY <1>a, <2>0
    <2>3. \A p \in Owners \ raced' : OwnerInv(p)'
      <3>1. \A p \in Owners \ raced : DumpFits(p)'
        BY <1>b, <1>c, <2>0, <2>2 DEF LvInv, OwnerInv, DumpFits
      <3>. QED BY <1>d, <2>0, <2>2, <3>1
    <2>. QED BY <1>1, <1>2, <2>1, <2>3 DEF LvInv, TasksInv
  <1>5. ASSUME NEW o \in Owners, SuppressionPasses(o) PROVE LvInv'
    <2>0. unchanged' = unchanged /\ flushing' = flushing /\ recon' = recon /\ CheckMarks
      BY <1>5 DEF SuppressionPasses, SuppressionExpires, envVars, flushVars
    <2>1. LvShape'
      BY <1>0, <1>a, <2>0 DEF LvShape
    <2>2. \A p \in Owners \ raced' : OwnerInv(p)'
      <3>1. \A p \in Owners \ raced : DumpFits(p)'
        BY <1>b, <1>c, <2>0 DEF LvInv, OwnerInv, DumpFits
      <3>2. \A p \in Owners \ raced' : p \notin raced /\ (Unjudged(p) # {} => suppressed'[p])
        BY <1>c, <2>0 DEF CheckMarks, MarkEnded
      <3>. QED BY <1>d, <3>1, <3>2
    <2>. QED BY <1>1, <1>2, <2>1, <2>2 DEF LvInv, TasksInv
  <1>. QED BY <1>3, <1>4, <1>5

-----------------------------------------------------------------------------
LEMMA LivenessStart == LvInit => LvInv
  <1> SUFFICES ASSUME LvInit PROVE LvInv
    OBVIOUS
  <1>1. IInv
    BY OpenFlowsAssumption DEF LvInit, Init, IInv, FlowsTypeOK, IndexSound, IndexComplete, NoSilentIdle,
                               MarkIsRecent, FlowsOf
  <1>2. /\ <<>> \in Seq(Flows) /\ <<>> \in Seq(Rep) /\ Len(<<>>) = 0
        /\ reports = <<>> /\ events = <<>>
    BY EmptySeq DEF LvInit
  <1>a. \A i : i \notin 1..0
    OBVIOUS
  <1>3. LvShape
    BY <1>2, FS_EmptySet DEF LvInit, LvShape, Sleeping
  <1>4. ReportsInv /\ KernelInv
    BY <1>2, <1>a DEF LvInit, ReportsInv, OneEach, Awaited, KernelInv
  <1>5. ASSUME NEW o \in Owners PROVE OwnerInv(o)
    <2>1. Known(o) = {} /\ Unjudged(o) = {} /\ per_owner[o] = {}
      BY DEF LvInit, Init, Known, Recorded, Unjudged, OpenOf
    <2>2. DumpFits(o)
      BY DEF LvInit, Sleeping, DumpFits
    <2>3. ServerTold(o)
      <3>1. edge[o] # "idle"
        BY DEF LvInit
      <3>. QED BY <1>2, <1>a, <3>1 DEF ServerTold, Says
    <2>. QED BY <2>1, <2>2, <2>3 DEF OwnerInv, Tracked, Covered
  <1>. QED BY <1>1, <1>3, <1>4, <1>5 DEF LvInv, TasksInv

LEMMA LivenessStep == LvInv /\ [LvNext]_lvVars => LvInv'
  <1> SUFFICES ASSUME LvInv, [LvNext]_lvVars PROVE LvInv'
    OBVIOUS
  <1>1. CASE UNCHANGED lvVars
    <2>1. UNCHANGED flowVars /\ UNCHANGED <<open, table, events, held, flushing, reports, edge, steered, recon, raced>>
      BY <1>1 DEF lvVars, envVars, flushVars, rpcVars
    <2>2. LvShape' /\ KernelInv'
      BY <2>1 DEF LvInv, TasksInv, LvShape, KernelInv
    <2>3. \A p : Known(p)' = Known(p) /\ Unjudged(p)' = Unjudged(p)
      BY <2>1 DEF Known, Recorded, Unjudged, OpenOf
    <2>4. \A p \in Owners \ raced : Tracked(p)' /\ DumpFits(p)' /\ (Unjudged(p)' # {} => suppressed[p] /\ told[p])
      BY <2>1, <2>3, NothingNew
    <2>. QED BY <2>1, <2>2, <2>4, SetsLeftAlone
  <1>2. ASSUME NEW f \in Flows, NewPacket(f) \/ Steered(f) PROVE LvInv'
    <2>1. /\ held[f] \in {"no", "steer"} /\ InsertThenReport(f) /\ CheckMarks
          /\ UNCHANGED <<open, table, events, flushVars, edge, steered, recon>>
      BY <1>2 DEF NewPacket, FirstPacketOf, Steered
    <2>2. DOMAIN events = 1..Len(events) /\ KernelInv
      BY LenProperties DEF LvInv, TasksInv, LvShape
    <2>3. f \notin table /\ \A i \in 1..Len(events) : events[i] # f
      BY <1>2, <2>2 DEF NewPacket, FirstPacketOf, Steered, KernelInv
    <2>. QED BY <2>1, <2>3, PacketRecorded
  <1>3. ASSUME NEW f \in Flows,
               NewPacketTriggers(f) \/ SteerTimeout(f) \/ Verdict(f) \/ Close(f) \/ Destroyed(f)
        PROVE  LvInv'
    BY <1>3, PacketSteps
  <1>4. CASE RetireFlow
    BY <1>4, FlowRetired
  <1>5. ASSUME NEW i \in DOMAIN reports, SetEgressLiveness(i) \/ ReportFails(i) PROVE LvInv'
    BY <1>5, ReportBack
  <1>6. ASSUME NEW o \in Owners, SteerArrives(o) \/ Reap(o) \/ TeardownArrives(o) PROVE LvInv'
    BY <1>6, ServerSteps
  <1>7. CASE StartReconcile \/ \E o \in Owners : SuppressForFlush(o) \/ SuppressionPasses(o)
    BY <1>7, MarkSteps
  <1>8. CASE Dump \/ DumpFails \/ ReconcileDone
    BY <1>8, ReconcileSteps
  <1>9. ASSUME NEW o \in Owners, ReconcileContainer(o) PROVE LvInv'
    BY <1>9, ContainerReconciled
  <1>10. ASSUME NEW o \in Owners, Flush(o) PROVE LvInv'
    BY <1>10, FlushStep
  <1>. QED BY <1>1, <1>2, <1>3, <1>4, <1>5, <1>6, <1>7, <1>8, <1>9, <1>10 DEF LvNext, Tasks, ReconcilePass

\* The set of open connections and its index stay consistent, an owner never
\* falls idle unannounced except across a flush, and no task of the client has
\* two reports on their way, whatever goes wrong together (conntrack.rs).
THEOREM OpenSetSoundAlways == LvSpec => []OpenSetSound
  <1>1. LvInv => OpenSetSound
    <2> SUFFICES ASSUME LvInv PROVE OpenSetSound
      OBVIOUS
    <2>1. DOMAIN reports = 1..Len(reports)
      BY LenProperties DEF LvInv, TasksInv, ReportsInv
    <2>2. recon.at \in {"sleep", "dump", "apply"}
      BY DEF LvInv, TasksInv, LvShape
    <2>. QED BY <2>1, <2>2 DEF LvInv, TasksInv, IInv, LvShape, ReportsInv, OneEach, OpenSetSound, LvTypeOK
  <1>. QED BY <1>1, LivenessStart, LivenessStep, PTL DEF LvSpec

\* reap_idle_egress_edges reaps the edge of a container with an open connection
\* only if, since that edge was made for a container at rest, a dump overlooked a
\* held packet, the mark of a flush ended with connections still to be judged
\* again, or a report was lost or overtaken by a later one of the same container:
\* dropped events, closes, policy changes, failed dumps, slow edges, and reports
\* of different containers in any order do not make it do so.
THEOREM ReapOnlyIdleAlways == LvSpec => ReapOnlyIdle
  <1>1. LvInv /\ [LvNext]_lvVars => [\A o \in Owners \ raced : ReapsIdle(o)]_lvVars
    <2> SUFFICES ASSUME LvInv, [LvNext]_lvVars,
                        NEW o \in Owners \ raced, edge[o] # "none", edge'[o] = "none"
                 PROVE  OpenOf(o) = {}
      BY DEF ReapsIdle
    <2>1. edge \in [Owners -> {"none", "active", "idle"}] /\ reports \in Seq(Rep)
      BY DEF LvInv, TasksInv, LvShape, ReportsInv
    <2>2. DOMAIN reports = 1..Len(reports)
      BY <2>1, LenProperties
    <2>3. Reap(o)
      <3>1. edge' # edge
        OBVIOUS
      <3>2. ASSUME NEW f \in Flows, NewPacketTriggers(f) PROVE FALSE
        BY <2>1, <3>2 DEF NewPacketTriggers
      <3>3. ASSUME NEW i \in DOMAIN reports, SetEgressLiveness(i) PROVE FALSE
        BY <2>1, <3>3 DEF SetEgressLiveness
      <3>4. ASSUME NEW p \in Owners, Reap(p) PROVE p = o
        BY <2>1, <3>4 DEF Reap
      <3>5. ASSUME NEW f \in Flows, NewPacket(f) \/ Steered(f) \/ SteerTimeout(f) \/ Verdict(f) \/ Close(f) \/ Destroyed(f)
            PROVE  FALSE
        BY <3>1, <3>5 DEF NewPacket, Steered, SteerTimeout, Verdict, Close, Destroyed, rpcVars
      <3>6. ASSUME RetireFlow \/ StartReconcile \/ Dump \/ DumpFails \/ ReconcileDone PROVE FALSE
        BY <3>1, <3>6 DEF RetireFlow, StartReconcile, Dump, DumpFails, ReconcileDone, rpcVars
      <3>7. ASSUME NEW p \in Owners,
                   \/ SteerArrives(p) \/ TeardownArrives(p) \/ Flush(p) \/ SuppressionPasses(p)
                   \/ ReconcileContainer(p) \/ SuppressForFlush(p)
            PROVE  FALSE
        BY <3>1, <3>7 DEF SteerArrives, TeardownArrives, Flush, SuppressionPasses, ReconcileContainer, SuppressForFlush, rpcVars
      <3>8. ASSUME NEW i \in DOMAIN reports, ReportFails(i) PROVE FALSE
        BY <3>1, <3>8 DEF ReportFails
      <3>9. LvNext
        BY <3>1 DEF lvVars, rpcVars
      <3>. QED BY <3>2, <3>3, <3>4, <3>5, <3>6, <3>7, <3>8, <3>9 DEF LvNext, Tasks, ReconcilePass
    <2>4. OwnerInv(o)
      BY DEF LvInv
    <2>5. ~told[o]
      BY <2>2, <2>3, <2>4 DEF Reap, OwnerInv, ServerTold, Says
    <2>6. Known(o) = {} /\ Unjudged(o) = {}
      BY <2>4, <2>5 DEF OwnerInv, Tracked, Covered
    <2>. QED BY <2>6 DEF Unjudged
  <1>. QED BY <1>1, LivenessStart, LivenessStep, PTL DEF LvSpec, ReapOnlyIdle

-----------------------------------------------------------------------------
(* Pause.  The server does not know what docker says of a container; what  *)
(* it records is psSuspended.  The invariant ties the two: a container of  *)
(* which one declaration counts as awake runs, unless a pause overtook a   *)
(* later resume (AwakeRuns).  The one step that could break it is the      *)
(* acknowledged end of a resume, and an acknowledgement is of the command  *)
(* the server awaits, sent after every pause of that container             *)
(* (AckedAwaited, PausesPrecede), so a pause that runs after it shows.     *)

CmdRecord == [kind : {"pause", "resume"}, r : PsReplicas, c : PsContainers, id : Nat \ {0},
              st : {"sent", "unpaused", "acked"}]

PauseTypes ==
    /\ psSuspended \in [PsReplicas -> BOOLEAN]
    /\ psPausable \in [PsReplicas -> BOOLEAN]
    /\ psClient \in [PsReplicas -> {"none", "reserved", "live"}]
    /\ psPaused \in [PsContainers -> BOOLEAN]
    /\ psOutgoing \in [PsContainers -> BOOLEAN]
    /\ psSent \in 0..PsMaxCmds
    /\ psResume \in [PsReplicas -> 0..psSent]
    /\ \A m \in psCmds : m \in CmdRecord /\ m.c = PsContainer[m.r] /\ m.id <= psSent

\* A resume is awaited only for a replica that counts as suspended.
AwaitsSuspended == \A r \in PsReplicas : psResume[r] # 0 => psSuspended[r]

\* Commands have identifiers of their own, and the one a replica awaits is its
\* own resume.
OwnIds == \A m, n \in psCmds : m.id = n.id => m = n
AwaitedIsOwn == \A r \in PsReplicas : \A m \in psCmds : m.id = psResume[r] => m.r = r /\ m.kind = "resume"

LiveIsAwake == \A r \in PsReplicas : psClient[r] = "live" => ~psSuspended[r]

AwakeRuns == \A r \in PsReplicas : ~psSuspended[r] /\ PsContainer[r] \notin psRaced => ~psPaused[PsContainer[r]]

\* While a resume is awaited no pause is sent to its container.
PausesPrecede ==
    \A r \in PsReplicas : psResume[r] # 0 =>
        \A m \in psCmds : m.kind = "pause" /\ m.c = PsContainer[r] => m.id < psResume[r]

\* An acknowledged resume is still awaited, and its container runs.
AckedAwaited ==
    \A m \in psCmds : m.st = "acked" =>
        m.kind = "resume" /\ psResume[m.r] = m.id /\ (m.c \notin psRaced => ~psPaused[m.c])

PauseInv ==
    /\ PauseTypes /\ AwaitsSuspended /\ OwnIds /\ AwaitedIsOwn
    /\ LiveIsAwake /\ AwakeRuns /\ PausesPrecede /\ AckedAwaited

-----------------------------------------------------------------------------
\* The identifiers Reconcile hands out are a numbering of the replicas it acts on.
Rank(U, r) == Cardinality({q \in U : q <= r})

LEMMA RankType ==
    ASSUME NEW U \in SUBSET PsReplicas, NEW r \in U
    PROVE  IsFiniteSet(U) /\ Cardinality(U) \in Nat /\ Rank(U, r) \in 1..Cardinality(U)
  <1>1. IsFiniteSet(U) /\ Cardinality(U) \in Nat
    BY PsAssumption, FS_Subset, FS_CardinalityType
  <1> DEFINE S == {q \in U : q <= r}
  <1>2. S \in SUBSET U /\ r \in S /\ S # {}
    BY PsAssumption
  <1>3. IsFiniteSet(S) /\ Cardinality(S) <= Cardinality(U)
    BY <1>1, <1>2, FS_Subset
  <1>4. Cardinality(S) \in Nat /\ Cardinality(S) # 0
    BY <1>2, <1>3, FS_CardinalityType, FS_EmptySet
  <1>5. Rank(U, r) = Cardinality(S)
    BY DEF Rank
  <1> HIDE DEF S
  <1>. QED BY <1>1, <1>3, <1>4, <1>5

LEMMA RankLess ==
    ASSUME NEW U \in SUBSET PsReplicas, NEW r \in U, NEW q \in U, q < r
    PROVE  Rank(U, q) # Rank(U, r)
  <1> DEFINE S == {x \in U : x <= q}
             T == {x \in U : x <= r}
  <1>1. IsFiniteSet(U)
    BY RankType
  <1>2. S \in SUBSET T /\ r \in T /\ r \notin S /\ T \in SUBSET U
    <2>1. r \in Nat /\ q \in Nat /\ \A x \in U : x \in Nat
      BY PsAssumption
    <2>2. \A x \in U : x <= q => x <= r
      BY <2>1
    <2>3. r <= r /\ ~(r <= q)
      BY <2>1
    <2>. QED BY <2>2, <2>3
  <1>3. IsFiniteSet(T)
    BY <1>1, <1>2, FS_Subset
  <1>4. Cardinality(S) # Cardinality(T)
    <2> SUFFICES ASSUME Cardinality(T) = Cardinality(S) PROVE FALSE
      OBVIOUS
    <2>1. T = S
      BY <1>2, <1>3, FS_Subset
    <2>. QED BY <1>2, <2>1
  <1>. QED BY <1>4 DEF Rank

LEMMA RankOwn ==
    ASSUME NEW U \in SUBSET PsReplicas, NEW r \in U, NEW q \in U, Rank(U, q) = Rank(U, r)
    PROVE  q = r
  <1>1. r \in Nat /\ q \in Nat
    BY PsAssumption
  <1>2. ~(q < r) /\ ~(r < q)
    BY RankLess
  <1>. QED BY <1>1, <1>2

LEMMA CmdFields ==
    ASSUME NEW kind \in {"pause", "resume"}, NEW r \in PsReplicas, NEW id \in Nat \ {0}
    PROVE  /\ Cmd(kind, r, id) \in CmdRecord /\ Cmd(kind, r, id).kind = kind /\ Cmd(kind, r, id).r = r
           /\ Cmd(kind, r, id).c = PsContainer[r] /\ Cmd(kind, r, id).id = id /\ Cmd(kind, r, id).st = "sent"
  BY DEF Cmd, CmdRecord, PsContainers

LEMMA MovedFields ==
    ASSUME NEW m \in CmdRecord, NEW s \in {"unpaused", "acked"}
    PROVE  /\ [m EXCEPT !.st = s] \in CmdRecord /\ [m EXCEPT !.st = s].kind = m.kind
           /\ [m EXCEPT !.st = s].r = m.r /\ [m EXCEPT !.st = s].c = m.c
           /\ [m EXCEPT !.st = s].id = m.id /\ [m EXCEPT !.st = s].st = s
  BY DEF CmdRecord

\* What a step that issues commands must respect: the commands are numbered
\* after those sent before, each new resume is awaited, and no container gets
\* a pause while one is awaited.
Issues(D) ==
    /\ psSent' \in psSent..PsMaxCmds
    /\ psCmds' = psCmds \cup D
    /\ \A m \in D : /\ m \in CmdRecord /\ m.c = PsContainer[m.r] /\ m.st = "sent"
                    /\ m.id > psSent /\ m.id <= psSent'
                    /\ m.kind = "resume" => psResume'[m.r] = m.id
                    /\ m.kind = "pause" => \A r \in PsReplicas : PsContainer[r] = m.c => psResume'[r] = 0
    /\ \A m, n \in D : m.id = n.id => m = n
    /\ psResume' \in [PsReplicas -> 0..psSent']
    /\ \A r \in PsReplicas : \/ psResume'[r] = psResume[r]
                             \/ psResume[r] = 0 /\ \E m \in D : m.r = r /\ m.kind = "resume" /\ m.id = psResume'[r]

LEMMA Issued ==
    ASSUME PauseInv, NEW D, Issues(D), psPaused' = psPaused, psRaced' = psRaced
    PROVE  /\ psSent' \in 0..PsMaxCmds
           /\ \A m \in psCmds' : m \in CmdRecord /\ m.c = PsContainer[m.r] /\ m.id <= psSent'
           /\ OwnIds' /\ AwaitedIsOwn' /\ PausesPrecede' /\ AckedAwaited'
  <1>1. PauseTypes /\ OwnIds /\ AwaitedIsOwn /\ PausesPrecede /\ AckedAwaited
    BY DEF PauseInv
  <1>2. psSent \in Nat /\ psSent' \in Nat /\ psSent' \in 0..PsMaxCmds /\ psSent <= psSent'
    BY <1>1, PsAssumption DEF PauseTypes, Issues
  <1>3. \A m \in psCmds' : m \in psCmds \/ m \in D
    BY DEF Issues
  <1>4. ASSUME NEW m \in psCmds PROVE m \in CmdRecord /\ m.c = PsContainer[m.r] /\ m.id \in Nat \ {0} /\ m.id <= psSent
    BY <1>1 DEF PauseTypes, CmdRecord
  <1>5. ASSUME NEW m \in D
        PROVE  /\ m \in CmdRecord /\ m.c = PsContainer[m.r] /\ m.id \in Nat \ {0} /\ m.id <= psSent'
               /\ m.id > psSent /\ m.st = "sent" /\ m.r \in PsReplicas
    BY DEF Issues, CmdRecord
  <1>6. ASSUME NEW r \in PsReplicas PROVE psResume[r] \in Nat /\ psResume[r] <= psSent
    BY <1>1 DEF PauseTypes
  <1>7. \A m \in psCmds' : m \in CmdRecord /\ m.c = PsContainer[m.r] /\ m.id <= psSent'
    BY <1>2, <1>3, <1>4, <1>5
  <1>8. OwnIds'
    <2> SUFFICES ASSUME NEW m \in psCmds', NEW n \in psCmds', m.id = n.id PROVE m = n
      BY DEF OwnIds
    <2>1. CASE m \in psCmds /\ n \in psCmds
      BY <1>1, <2>1 DEF OwnIds
    <2>2. CASE m \in D /\ n \in D
      BY <2>2 DEF Issues
    <2>3. CASE (m \in psCmds /\ n \in D) \/ (m \in D /\ n \in psCmds)
      BY <1>2, <1>4, <1>5, <2>3
    <2>. QED BY <1>3, <2>1, <2>2, <2>3
  <1>9. AwaitedIsOwn'
    <2> SUFFICES ASSUME NEW r \in PsReplicas, NEW m \in psCmds', m.id = psResume'[r]
                 PROVE  m.r = r /\ m.kind = "resume"
      BY DEF AwaitedIsOwn
    <2>1. CASE psResume'[r] = psResume[r]
      <3>1. m \notin D
        BY <1>2, <1>5, <1>6, <2>1
      <3>2. m \in psCmds
        BY <1>3, <3>1
      <3>. QED BY <1>1, <2>1, <3>2 DEF AwaitedIsOwn
    <2>2. CASE \E n \in D : n.r = r /\ n.kind = "resume" /\ n.id = psResume'[r]
      <3>1. PICK n \in D : n.r = r /\ n.kind = "resume" /\ n.id = psResume'[r]
        BY <2>2
      <3>2. m \notin psCmds
        BY <1>2, <1>4, <1>5, <3>1
      <3>3. m \in D
        BY <1>3, <3>2
      <3>4. m = n
        BY <3>1, <3>3 DEF Issues
      <3>. QED BY <3>1, <3>4
    <2>. QED BY <2>1, <2>2 DEF Issues
  <1>10. PausesPrecede'
    <2> SUFFICES ASSUME NEW r \in PsReplicas, psResume'[r] # 0,
                        NEW m \in psCmds', m.kind = "pause", m.c = PsContainer[r]
                 PROVE  m.id < psResume'[r]
      BY DEF PausesPrecede
    <2>1. m \in psCmds
      BY <1>3 DEF Issues
    <2>2. CASE psResume'[r] = psResume[r]
      BY <1>1, <2>1, <2>2 DEF PausesPrecede
    <2>3. CASE \E n \in D : n.r = r /\ n.kind = "resume" /\ n.id = psResume'[r]
      BY <1>2, <1>4, <1>5, <2>1, <2>3
    <2>. QED BY <2>2, <2>3 DEF Issues
  <1>11. AckedAwaited'
    <2> SUFFICES ASSUME NEW m \in psCmds', m.st = "acked"
                 PROVE  m.kind = "resume" /\ psResume'[m.r] = m.id /\ (m.c \notin psRaced' => ~psPaused'[m.c])
      BY DEF AckedAwaited
    <2>1. m \notin D
      BY <1>5
    <2>2. m \in psCmds
      BY <1>3, <2>1
    <2>3. m.kind = "resume" /\ psResume[m.r] = m.id /\ (m.c \notin psRaced => ~psPaused[m.c])
      BY <1>1, <2>2 DEF AckedAwaited
    <2>4. m.r \in PsReplicas /\ m.id # 0
      BY <1>4, <2>2 DEF CmdRecord
    <2>5. psResume'[m.r] = psResume[m.r]
      BY <2>3, <2>4 DEF Issues
    <2>. QED BY <2>3, <2>5
  <1>. QED BY <1>2, <1>7, <1>8, <1>9, <1>10, <1>11

-----------------------------------------------------------------------------
(* The server *)

LEMMA ReconcileStep ==
    ASSUME PauseInv, Reconcile
    PROVE  PauseInv'
  <1> DEFINE sus == {r \in PsReplicas : Suspends(r)}
             res == {r \in PsReplicas : ~MayPause(r) /\ StartsResume(r)}
             U == sus \cup res
             id(r) == psSent + Rank(U, r)
             P == {Cmd("pause", r, id(r)) : r \in sus}
             R == {Cmd("resume", r, id(r)) : r \in res}
  <1>1. /\ psSent + Cardinality(U) <= PsMaxCmds
        /\ psSent' = psSent + Cardinality(U)
        /\ psSuspended' = [r \in PsReplicas |-> psSuspended[r] \/ r \in sus]
        /\ psResume' = [r \in PsReplicas |-> IF r \in res THEN id(r) ELSE psResume[r]]
        /\ psCmds' = psCmds \cup P \cup R
        /\ UNCHANGED <<psPausable, psClient, psOutgoing, psPaused, psRaced>>
    BY DEF Reconcile, Rank
  <1>2. /\ U \in SUBSET PsReplicas
        /\ \A r \in sus : /\ Suspends(r) /\ r \in PsReplicas /\ psClient[r] = "none"
                          /\ PsContainer[r] \notin Blocked /\ ~psSuspended[r]
        /\ \A r \in res : r \in PsReplicas /\ ~MayPause(r) /\ psSuspended[r] /\ psResume[r] = 0
    BY DEF Suspends, MayPause, StartsResume
  <1>3. ASSUME NEW q \in sus, NEW r \in PsReplicas, PsContainer[r] = PsContainer[q]
        PROVE  psResume[r] = 0 /\ r \notin res
    <2>1. psPausable[r] /\ psResume[r] = 0
      BY <1>2, <1>3 DEF Blocked
    <2>2. MayPause(r)
      BY <1>2, <1>3, <2>1 DEF MayPause
    <2>. QED BY <2>1, <2>2
  <1> HIDE DEF sus, res
  <1>4. sus \in SUBSET PsReplicas /\ res \in SUBSET PsReplicas /\ sus \cap res = {}
    BY <1>2, <1>3
  <1> HIDE DEF U
  <1>5. Cardinality(U) \in Nat
    BY <1>2, PsAssumption, FS_Subset, FS_CardinalityType
  <1>6. psSent \in Nat
    BY DEF PauseInv, PauseTypes
  <1>7. ASSUME NEW r \in U
        PROVE  id(r) \in Nat \ {0} /\ id(r) > psSent /\ id(r) <= psSent + Cardinality(U)
    <2>1. Rank(U, r) \in 1..Cardinality(U)
      BY <1>2, RankType
    <2>. QED BY <1>5, <1>6, <2>1
  <1>8. ASSUME NEW r \in U, NEW q \in U, id(q) = id(r) PROVE q = r
    <2>1. Rank(U, r) \in 1..Cardinality(U) /\ Rank(U, q) \in 1..Cardinality(U)
      BY <1>2, RankType
    <2>2. Rank(U, q) = Rank(U, r)
      BY <1>6, <1>8, <2>1
    <2>. QED BY <1>2, <2>2, RankOwn
  <1> HIDE DEF id
  <1>9. sus \subseteq U /\ res \subseteq U
    BY DEF U
  <1>10. ASSUME NEW m \in P
         PROVE  \E r \in sus : /\ m \in CmdRecord /\ m.kind = "pause" /\ m.r = r /\ m.c = PsContainer[r]
                               /\ m.id = id(r) /\ m.st = "sent" /\ m = Cmd("pause", r, id(r))
    <2>1. PICK r \in sus : m = Cmd("pause", r, id(r))
      OBVIOUS
    <2>2. r \in PsReplicas /\ id(r) \in Nat \ {0}
      BY <1>4, <1>7, <1>9
    <2>. QED BY <2>1, <2>2, CmdFields
  <1>11. ASSUME NEW m \in R
         PROVE  \E r \in res : /\ m \in CmdRecord /\ m.kind = "resume" /\ m.r = r /\ m.c = PsContainer[r]
                               /\ m.id = id(r) /\ m.st = "sent" /\ m = Cmd("resume", r, id(r))
    <2>1. PICK r \in res : m = Cmd("resume", r, id(r))
      OBVIOUS
    <2>2. r \in PsReplicas /\ id(r) \in Nat \ {0}
      BY <1>4, <1>7, <1>9
    <2>. QED BY <2>1, <2>2, CmdFields
  <1>12. ASSUME NEW r \in res
         PROVE  \E m \in R : m.r = r /\ m.kind = "resume" /\ m.id = id(r)
    <2>1. Cmd("resume", r, id(r)) \in R
      OBVIOUS
    <2>2. r \in PsReplicas /\ id(r) \in Nat \ {0}
      BY <1>4, <1>7, <1>9
    <2>. QED BY <2>1, <2>2, CmdFields
  <1> HIDE DEF P, R
  <1> DEFINE D == P \cup R
  <1>13. Issues(D)
    <2>1. psSent' \in psSent..PsMaxCmds /\ psCmds' = psCmds \cup D
      BY <1>1, <1>5, <1>6, PsAssumption
    <2>2. ASSUME NEW m \in D
          PROVE  \E r \in U : m \in CmdRecord /\ m.r = r /\ m.c = PsContainer[r] /\ m.id = id(r) /\ m.st = "sent"
      BY <1>9, <1>10, <1>11
    <2>3. ASSUME NEW m \in D
          PROVE  /\ m \in CmdRecord /\ m.c = PsContainer[m.r] /\ m.st = "sent"
                 /\ m.id > psSent /\ m.id <= psSent'
      BY <1>1, <1>7, <2>2
    <2>4. ASSUME NEW m \in D, m.kind = "resume" PROVE psResume'[m.r] = m.id
      <3>1. m \in R
        BY <1>10, <2>4
      <3>2. PICK r \in res : m.r = r /\ m.id = id(r)
        BY <1>11, <3>1
      <3>. QED BY <1>1, <1>4, <3>2
    <2>5. ASSUME NEW m \in D, m.kind = "pause", NEW r \in PsReplicas, PsContainer[r] = m.c PROVE psResume'[r] = 0
      <3>1. m \in P
        BY <1>11, <2>5
      <3>2. PICK q \in sus : m.c = PsContainer[q]
        BY <1>10, <3>1
      <3>3. psResume[r] = 0 /\ r \notin res
        BY <1>3, <2>5, <3>2
      <3>. QED BY <1>1, <3>3
    <2>6. ASSUME NEW m \in D, NEW n \in D, m.id = n.id PROVE m = n
      <3>1. PICK r \in U : m.r = r /\ m.id = id(r)
        BY <2>2
      <3>2. PICK q \in U : n.r = q /\ n.id = id(q)
        BY <2>2
      <3>3. q = r
        BY <1>8, <2>6, <3>1, <3>2
      <3>4. CASE r \in sus
        <4>1. m \in P /\ n \in P
          BY <1>4, <1>11, <3>1, <3>2, <3>3, <3>4
        <4>. QED BY <1>10, <3>1, <3>2, <3>3, <4>1
      <3>5. CASE r \in res
        <4>1. m \in R /\ n \in R
          BY <1>4, <1>10, <3>1, <3>2, <3>3, <3>5
        <4>. QED BY <1>11, <3>1, <3>2, <3>3, <4>1
      <3>. QED BY <3>4, <3>5 DEF U
    <2>7. psResume' \in [PsReplicas -> 0..psSent']
      <3>1. ASSUME NEW r \in PsReplicas PROVE psResume[r] \in 0..psSent'
        BY <1>1, <1>5, <1>6 DEF PauseInv, PauseTypes
      <3>2. ASSUME NEW r \in res PROVE id(r) \in 0..psSent'
        BY <1>1, <1>5, <1>6, <1>7, <1>9
      <3>. QED BY <1>1, <3>1, <3>2
    <2>8. ASSUME NEW r \in PsReplicas
          PROVE  \/ psResume'[r] = psResume[r]
                 \/ psResume[r] = 0 /\ \E m \in D : m.r = r /\ m.kind = "resume" /\ m.id = psResume'[r]
      <3>1. CASE r \notin res
        BY <1>1, <3>1
      <3>2. CASE r \in res
        <4>1. psResume'[r] = id(r) /\ psResume[r] = 0
          BY <1>1, <1>2, <3>2
        <4>. QED BY <1>12, <3>2, <4>1
      <3>. QED BY <3>1, <3>2
    <2> HIDE DEF D
    <2>. QED BY <2>1, <2>3, <2>4, <2>5, <2>6, <2>7, <2>8 DEF Issues
  <1> HIDE DEF D
  <1>14. psPaused' = psPaused /\ psRaced' = psRaced /\ psClient' = psClient
    BY <1>1
  <1>15. /\ psSent' \in 0..PsMaxCmds
         /\ \A m \in psCmds' : m \in CmdRecord /\ m.c = PsContainer[m.r] /\ m.id <= psSent'
         /\ OwnIds' /\ AwaitedIsOwn' /\ PausesPrecede' /\ AckedAwaited'
    BY <1>13, <1>14, Issued
  <1>16. psSuspended' \in [PsReplicas -> BOOLEAN] /\ \A r \in PsReplicas : psSuspended'[r] <=> (psSuspended[r] \/ r \in sus)
    BY <1>1 DEF PauseInv, PauseTypes
  <1>17. PauseTypes'
    BY <1>1, <1>13, <1>15, <1>16 DEF PauseInv, PauseTypes, Issues
  <1>18. AwaitsSuspended'
    <2> SUFFICES ASSUME NEW r \in PsReplicas, psResume'[r] # 0 PROVE psSuspended'[r]
      BY DEF AwaitsSuspended
    <2>1. psSuspended[r]
      BY <1>1, <1>2 DEF PauseInv, AwaitsSuspended
    <2>. QED BY <1>16, <2>1
  <1>19. LiveIsAwake'
    BY <1>2, <1>14, <1>16 DEF PauseInv, LiveIsAwake
  <1>20. AwakeRuns'
    BY <1>14, <1>16 DEF PauseInv, AwakeRuns
  <1>. QED BY <1>15, <1>17, <1>18, <1>19, <1>20 DEF PauseInv

\* The reservation and the resume it waits for.
LEMMA ReserveStep ==
    ASSUME PauseInv, NEW r \in PsReplicas, Reserve(r)
    PROVE  PauseInv'
  <1>1. PauseTypes
    BY DEF PauseInv
  <1>2. /\ psClient[r] = "none" /\ psClient' \in [PsReplicas -> {"none", "reserved", "live"}]
        /\ \A q \in PsReplicas : q # r => psClient'[q] = psClient[q]
        /\ psClient'[r] = "live" => ~psSuspended[r]
        /\ UNCHANGED <<psSuspended, psPausable, psOutgoing, psPaused, psRaced>>
    BY <1>1 DEF Reserve, PauseTypes
  <1> DEFINE D == IF StartsResume(r) THEN {Cmd("resume", r, psSent + 1)} ELSE {}
  <1>3. psSent \in Nat /\ psSent <= PsMaxCmds
    BY <1>1, PsAssumption DEF PauseTypes
  <1>4. Issues(D)
    <2>1. CASE StartsResume(r)
      <3> DEFINE c == Cmd("resume", r, psSent + 1)
      <3>1. /\ psSent < PsMaxCmds /\ psSent' = psSent + 1 /\ psResume' = [psResume EXCEPT ![r] = psSent + 1]
            /\ psCmds' = psCmds \cup {c} /\ D = {c} /\ psResume[r] = 0
        BY <2>1 DEF Reserve, Resume, StartsResume
      <3>2. c \in CmdRecord /\ c.kind = "resume" /\ c.r = r /\ c.c = PsContainer[r] /\ c.id = psSent + 1 /\ c.st = "sent"
        BY <1>3, CmdFields
      <3> HIDE DEF c, D
      <3>3. psResume' \in [PsReplicas -> 0..psSent']
        BY <1>1, <1>3, <3>1 DEF PauseTypes
      <3>4. psResume'[r] = psSent + 1 /\ \A q \in PsReplicas : q # r => psResume'[q] = psResume[q]
        BY <1>1, <3>1 DEF PauseTypes
      <3>5. psSent' \in psSent..PsMaxCmds
        BY <1>3, <3>1, PsAssumption
      <3>6. \A m \in D : /\ m \in CmdRecord /\ m.c = PsContainer[m.r] /\ m.st = "sent"
                         /\ m.id > psSent /\ m.id <= psSent' /\ m.kind = "resume" /\ psResume'[m.r] = m.id
        BY <1>3, <3>1, <3>2, <3>4
      <3>7. \A q \in PsReplicas : \/ psResume'[q] = psResume[q]
                                  \/ psResume[q] = 0 /\ \E m \in D : m.r = q /\ m.kind = "resume" /\ m.id = psResume'[q]
        BY <3>1, <3>2, <3>4
      <3>. QED BY <3>1, <3>3, <3>5, <3>6, <3>7 DEF Issues
    <2>2. CASE ~StartsResume(r)
      <3>1. D = {} /\ UNCHANGED <<psSent, psResume, psCmds>>
        BY <2>2 DEF Reserve, Resume
      <3> HIDE DEF D
      <3>. QED BY <1>1, <1>3, <3>1 DEF Issues, PauseTypes
    <2>. QED BY <2>1, <2>2
  <1> HIDE DEF D
  <1>5. /\ psSent' \in 0..PsMaxCmds
        /\ \A m \in psCmds' : m \in CmdRecord /\ m.c = PsContainer[m.r] /\ m.id <= psSent'
        /\ OwnIds' /\ AwaitedIsOwn' /\ PausesPrecede' /\ AckedAwaited'
    BY <1>2, <1>4, Issued
  <1>6. PauseTypes'
    BY <1>1, <1>2, <1>4, <1>5 DEF PauseTypes, Issues
  <1>7. AwaitsSuspended'
    <2> SUFFICES ASSUME NEW q \in PsReplicas, psResume'[q] # 0 PROVE psSuspended[q]
      BY <1>2 DEF AwaitsSuspended
    <2>1. psResume'[q] = psResume[q] \/ (q = r /\ StartsResume(r))
      BY <1>1 DEF Reserve, Resume, PauseTypes
    <2>. QED BY <2>1 DEF PauseInv, AwaitsSuspended, StartsResume
  <1>8. LiveIsAwake'
    BY <1>2 DEF PauseInv, LiveIsAwake
  <1>9. AwakeRuns'
    BY <1>2 DEF PauseInv, AwakeRuns
  <1>. QED BY <1>5, <1>6, <1>7, <1>8, <1>9 DEF PauseInv

\* Steps that only change what a declaration says, or end a client.
LEMMA QuietStep ==
    ASSUME PauseInv, UNCHANGED <<psSuspended, psResume, psPaused, psCmds, psSent, psRaced>>,
           psPausable' \in [PsReplicas -> BOOLEAN], psOutgoing' \in [PsContainers -> BOOLEAN],
           psClient' \in [PsReplicas -> {"none", "reserved", "live"}],
           \A r \in PsReplicas : psClient'[r] = "live" => psClient[r] = "live"
    PROVE  PauseInv'
  <1>1. PauseTypes' /\ AwaitsSuspended'
    BY DEF PauseInv, PauseTypes, AwaitsSuspended
  <1>2. OwnIds' /\ AwaitedIsOwn' /\ PausesPrecede' /\ AckedAwaited'
    BY DEF PauseInv, OwnIds, AwaitedIsOwn, PausesPrecede, AckedAwaited
  <1>3. LiveIsAwake' /\ AwakeRuns'
    BY DEF PauseInv, LiveIsAwake, AwakeRuns
  <1>. QED BY <1>1, <1>2, <1>3 DEF PauseInv

LEMMA ClientLeavesStep ==
    ASSUME PauseInv, NEW r \in PsReplicas, ClientLeaves(r)
    PROVE  PauseInv'
  <1>1. PauseTypes /\ UNCHANGED <<psSuspended, psResume, psPausable, psOutgoing, psPaused, psCmds, psSent, psRaced>>
    BY DEF PauseInv, ClientLeaves
  <1>2. psPausable' \in [PsReplicas -> BOOLEAN] /\ psOutgoing' \in [PsContainers -> BOOLEAN]
    BY <1>1 DEF PauseTypes
  <1>3. /\ psClient' \in [PsReplicas -> {"none", "reserved", "live"}]
        /\ \A q \in PsReplicas : psClient'[q] = "live" => psClient[q] = "live"
    BY <1>1 DEF PauseTypes, ClientLeaves
  <1>. QED BY <1>1, <1>2, <1>3, QuietStep

LEMMA OutgoingChangesStep ==
    ASSUME PauseInv, NEW c \in PsContainers, OutgoingChanges(c)
    PROVE  PauseInv'
  <1>1. PauseTypes /\ UNCHANGED <<psSuspended, psResume, psPausable, psClient, psPaused, psCmds, psSent, psRaced>>
    BY DEF PauseInv, OutgoingChanges
  <1>2. psPausable' \in [PsReplicas -> BOOLEAN] /\ psClient' \in [PsReplicas -> {"none", "reserved", "live"}]
    BY <1>1 DEF PauseTypes
  <1>3. psOutgoing' \in [PsContainers -> BOOLEAN]
    BY <1>1 DEF PauseTypes, OutgoingChanges
  <1>. QED BY <1>1, <1>2, <1>3, QuietStep

LEMMA PausableChangesStep ==
    ASSUME PauseInv, NEW r \in PsReplicas, PausableChanges(r)
    PROVE  PauseInv'
  <1>1. PauseTypes /\ UNCHANGED <<psSuspended, psResume, psClient, psOutgoing, psPaused, psCmds, psSent, psRaced>>
    BY DEF PauseInv, PausableChanges
  <1>2. psOutgoing' \in [PsContainers -> BOOLEAN] /\ psClient' \in [PsReplicas -> {"none", "reserved", "live"}]
    BY <1>1 DEF PauseTypes
  <1>3. psPausable' \in [PsReplicas -> BOOLEAN]
    BY <1>1 DEF PauseTypes, PausableChanges
  <1>. QED BY <1>1, <1>2, <1>3, QuietStep

\* The resume is over; only an acknowledged one makes the replica awake.
LEMMA ResumeEndsStep ==
    ASSUME PauseInv, NEW r \in PsReplicas, NEW ok \in BOOLEAN, ResumeEnds(r, ok)
    PROVE  PauseInv'
  <1>1. PauseTypes /\ AwaitsSuspended /\ OwnIds /\ AwaitedIsOwn /\ LiveIsAwake /\ AwakeRuns /\ PausesPrecede /\ AckedAwaited
    BY DEF PauseInv
  <1>2. /\ psResume[r] # 0
        /\ ok => \E m \in psCmds : m.id = psResume[r] /\ m.st = "acked"
        /\ psCmds' = {m \in psCmds : ~(m.id = psResume[r] /\ m.st = "acked")}
        /\ UNCHANGED <<psPausable, psOutgoing, psPaused, psSent, psRaced>>
    BY DEF ResumeEnds
  <1>3. /\ psSuspended' \in [PsReplicas -> BOOLEAN]
        /\ psSuspended'[r] = ~ok /\ \A q \in PsReplicas : q # r => psSuspended'[q] = psSuspended[q]
    BY <1>1 DEF ResumeEnds, Answered, PauseTypes
  <1>4. /\ psResume' \in [PsReplicas -> 0..psSent]
        /\ psResume'[r] = 0 /\ \A q \in PsReplicas : q # r => psResume'[q] = psResume[q]
    <2>1. psSent \in Nat
      BY <1>1 DEF PauseTypes
    <2>. QED BY <1>1, <2>1 DEF ResumeEnds, PauseTypes
  <1>5. /\ psClient' \in [PsReplicas -> {"none", "reserved", "live"}]
        /\ psClient'[r] = "live" => psClient[r] = "live" \/ ok
        /\ \A q \in PsReplicas : q # r => psClient'[q] = psClient[q]
    BY <1>1 DEF ResumeEnds, PauseTypes
  <1>6. psCmds' \subseteq psCmds
    BY <1>2
  <1>7. PauseTypes'
    BY <1>1, <1>2, <1>3, <1>4, <1>5, <1>6 DEF PauseTypes
  <1>8. AwaitsSuspended'
    BY <1>1, <1>3, <1>4 DEF AwaitsSuspended
  <1>9. OwnIds'
    BY <1>1, <1>6 DEF OwnIds
  <1>10. AwaitedIsOwn'
    <2> SUFFICES ASSUME NEW q \in PsReplicas, NEW m \in psCmds', m.id = psResume'[q]
                 PROVE  m.r = q /\ m.kind = "resume"
      BY DEF AwaitedIsOwn
    <2>1. m \in psCmds /\ m.id # 0
      BY <1>1, <1>6 DEF PauseTypes, CmdRecord
    <2>2. psResume[q] = m.id
      BY <1>4, <2>1
    <2>. QED BY <1>1, <2>1, <2>2 DEF AwaitedIsOwn
  <1>11. LiveIsAwake'
    <2> SUFFICES ASSUME NEW q \in PsReplicas, psClient'[q] = "live" PROVE ~psSuspended'[q]
      BY DEF LiveIsAwake
    <2>1. CASE q # r
      BY <1>1, <1>3, <1>5, <2>1 DEF LiveIsAwake
    <2>2. CASE q = r
      <3>1. psClient[r] # "live"
        BY <1>1, <1>2 DEF AwaitsSuspended, LiveIsAwake
      <3>. QED BY <1>3, <1>5, <2>2, <3>1
    <2>. QED BY <2>1, <2>2
  <1>12. AwakeRuns'
    <2> SUFFICES ASSUME NEW q \in PsReplicas, ~psSuspended'[q], PsContainer[q] \notin psRaced
                 PROVE  ~psPaused[PsContainer[q]]
      BY <1>2 DEF AwakeRuns
    <2>1. CASE q # r
      BY <1>1, <1>3, <2>1 DEF AwakeRuns
    <2>2. CASE q = r
      <3>1. PICK m \in psCmds : m.id = psResume[r] /\ m.st = "acked"
        BY <1>2, <1>3, <2>2
      <3>2. m.r = r /\ m.c = PsContainer[r]
        BY <1>1, <3>1 DEF AwaitedIsOwn, PauseTypes
      <3>3. m.c \notin psRaced => ~psPaused[m.c]
        BY <1>1, <3>1 DEF AckedAwaited
      <3>. QED BY <2>2, <3>2, <3>3
    <2>. QED BY <2>1, <2>2
  <1>13. PausesPrecede'
    BY <1>1, <1>4, <1>6 DEF PausesPrecede
  <1>14. AckedAwaited'
    <2> SUFFICES ASSUME NEW m \in psCmds', m.st = "acked"
                 PROVE  m.kind = "resume" /\ psResume'[m.r] = m.id /\ (m.c \notin psRaced => ~psPaused[m.c])
      BY <1>2 DEF AckedAwaited
    <2>1. m \in psCmds /\ m.id # psResume[r]
      BY <1>2
    <2>2. m.kind = "resume" /\ psResume[m.r] = m.id /\ (m.c \notin psRaced => ~psPaused[m.c])
      BY <1>1, <2>1 DEF AckedAwaited
    <2>3. m.r \in PsReplicas
      BY <1>1, <2>1 DEF PauseTypes, CmdRecord
    <2>4. psResume'[m.r] = psResume[m.r]
      BY <1>4, <2>1, <2>2, <2>3
    <2>. QED BY <2>2, <2>4
  <1>. QED BY <1>7, <1>8, <1>9, <1>10, <1>11, <1>12, <1>13, <1>14 DEF PauseInv

-----------------------------------------------------------------------------
(* The client *)

\* What a command's progress on the client leaves alone.
LEMMA ServerSideKept ==
    ASSUME PauseInv, UNCHANGED <<psSuspended, psResume, psPausable, psClient, psOutgoing, psSent>>,
           psPaused' \in [PsContainers -> BOOLEAN],
           \A m \in psCmds' : m \in CmdRecord /\ m.c = PsContainer[m.r] /\ m.id <= psSent
    PROVE  PauseTypes' /\ AwaitsSuspended' /\ LiveIsAwake'
  <1>1. PauseTypes'
    BY DEF PauseInv, PauseTypes
  <1>2. AwaitsSuspended' /\ LiveIsAwake'
    BY DEF PauseInv, AwaitsSuspended, LiveIsAwake
  <1>. QED BY <1>1, <1>2

\* A pause that runs while a declaration is awake, or after the resume that is
\* acknowledged, shows in psRaced.
LEMMA RunPauseStep ==
    ASSUME PauseInv, NEW m \in psCmds, NEW ok \in BOOLEAN, RunPause(m, ok)
    PROVE  PauseInv'
  <1>1. PauseTypes /\ AwaitsSuspended /\ OwnIds /\ AwaitedIsOwn /\ LiveIsAwake /\ AwakeRuns /\ PausesPrecede /\ AckedAwaited
    BY DEF PauseInv
  <1>2. /\ m.kind = "pause" /\ psCmds' = psCmds \ {m}
        /\ UNCHANGED <<psSuspended, psResume, psPausable, psClient, psOutgoing, psSent>>
    BY DEF RunPause
  <1>3. m \in CmdRecord /\ m.c \in PsContainers
    BY <1>1 DEF PauseTypes, CmdRecord
  <1>4. /\ psPaused' \in [PsContainers -> BOOLEAN]
        /\ \A c \in PsContainers : c # m.c \/ ~ok => psPaused'[c] = psPaused[c]
    BY <1>1, <1>3 DEF RunPause, PauseTypes
  <1>5. /\ psRaced \subseteq psRaced'
        /\ ok /\ LaterResumeRan(m) => m.c \in psRaced'
        /\ ok /\ (\E r \in PsReplicas : PsContainer[r] = m.c /\ ~psSuspended[r]) => m.c \in psRaced'
    BY DEF RunPause
  <1>6. psCmds' \subseteq psCmds
    BY <1>2
  <1>7. PauseTypes' /\ AwaitsSuspended' /\ LiveIsAwake'
    <2>1. \A n \in psCmds' : n \in CmdRecord /\ n.c = PsContainer[n.r] /\ n.id <= psSent
      BY <1>1, <1>6 DEF PauseTypes
    <2>. QED BY <1>2, <1>4, <2>1, ServerSideKept
  <1>8. OwnIds' /\ AwaitedIsOwn' /\ PausesPrecede'
    BY <1>1, <1>2, <1>6 DEF OwnIds, AwaitedIsOwn, PausesPrecede
  <1>9. AwakeRuns'
    <2> SUFFICES ASSUME NEW q \in PsReplicas, ~psSuspended[q], PsContainer[q] \notin psRaced'
                 PROVE  ~psPaused'[PsContainer[q]]
      BY <1>2 DEF AwakeRuns
    <2>1. ~psPaused[PsContainer[q]] /\ PsContainer[q] \in PsContainers
      BY <1>1, <1>5 DEF AwakeRuns, PsContainers
    <2>2. PsContainer[q] # m.c \/ ~ok
      BY <1>5
    <2>. QED BY <1>4, <2>1, <2>2
  <1>10. AckedAwaited'
    <2> SUFFICES ASSUME NEW n \in psCmds', n.st = "acked"
                 PROVE  n.kind = "resume" /\ psResume[n.r] = n.id /\ (n.c \notin psRaced' => ~psPaused'[n.c])
      BY <1>2 DEF AckedAwaited
    <2>1. n \in psCmds /\ n \in CmdRecord /\ n.c = PsContainer[n.r]
      BY <1>1, <1>6 DEF PauseTypes
    <2>2. n.kind = "resume" /\ psResume[n.r] = n.id /\ (n.c \notin psRaced => ~psPaused[n.c])
      BY <1>1, <2>1 DEF AckedAwaited
    <2>3. n.r \in PsReplicas /\ n.c \in PsContainers /\ n.id \in Nat \ {0} /\ m.id \in Nat
      BY <1>3, <2>1 DEF CmdRecord
    <2>4. n.c = m.c => LaterResumeRan(m)
      <3>1. n.c = m.c => m.id < n.id
        BY <1>1, <1>2, <2>1, <2>2, <2>3 DEF PausesPrecede
      <3>. QED BY <2>1, <2>2, <2>3, <3>1 DEF LaterResumeRan
    <2>5. n.c \notin psRaced' => ~psPaused'[n.c]
      BY <1>4, <1>5, <2>2, <2>3, <2>4
    <2>. QED BY <2>2, <2>5
  <1>. QED BY <1>7, <1>8, <1>9, <1>10 DEF PauseInv

\* A command is replaced by its next stage, or dropped: its identity stays.
LEMMA Advanced ==
    ASSUME PauseInv, NEW m \in psCmds, m.kind = "resume", NEW E, psResume' = psResume,
           psCmds' = (psCmds \ {m}) \cup E,
           \A n \in E : n.kind = m.kind /\ n.r = m.r /\ n.c = m.c /\ n.id = m.id,
           \A n, o \in E : n = o
    PROVE  OwnIds' /\ AwaitedIsOwn' /\ PausesPrecede'
  <1>1. OwnIds /\ AwaitedIsOwn /\ PausesPrecede
    BY DEF PauseInv
  <1>2. ASSUME NEW n \in psCmds' PROVE (n \in psCmds /\ n # m) \/ n \in E
    OBVIOUS
  <1>3. OwnIds'
    <2> SUFFICES ASSUME NEW n \in psCmds', NEW o \in psCmds', n.id = o.id PROVE n = o
      BY DEF OwnIds
    <2>1. CASE n \in E /\ o \in E
      BY <2>1
    <2>2. CASE n \in E /\ o \in psCmds /\ o # m
      BY <1>1, <2>2 DEF OwnIds
    <2>3. CASE o \in E /\ n \in psCmds /\ n # m
      BY <1>1, <2>3 DEF OwnIds
    <2>4. CASE n \in psCmds /\ o \in psCmds
      BY <1>1, <2>4 DEF OwnIds
    <2>. QED BY <1>2, <2>1, <2>2, <2>3, <2>4
  <1>4. AwaitedIsOwn'
    <2> SUFFICES ASSUME NEW q \in PsReplicas, NEW n \in psCmds', n.id = psResume[q]
                 PROVE  n.r = q /\ n.kind = "resume"
      BY DEF AwaitedIsOwn
    <2>1. CASE n \in E
      BY <1>1, <2>1 DEF AwaitedIsOwn
    <2>2. CASE n \in psCmds
      BY <1>1, <2>2 DEF AwaitedIsOwn
    <2>. QED BY <1>2, <2>1, <2>2
  <1>5. PausesPrecede'
    <2> SUFFICES ASSUME NEW r \in PsReplicas, psResume[r] # 0,
                        NEW n \in psCmds', n.kind = "pause", n.c = PsContainer[r]
                 PROVE  n.id < psResume[r]
      BY DEF PausesPrecede
    <2>1. n \in psCmds
      BY <1>2
    <2>. QED BY <1>1, <2>1 DEF PausesPrecede
  <1>. QED BY <1>3, <1>4, <1>5

LEMMA RunUnpauseStep ==
    ASSUME PauseInv, NEW m \in psCmds, NEW ok \in BOOLEAN, RunUnpause(m, ok)
    PROVE  PauseInv'
  <1>1. PauseTypes /\ AwakeRuns /\ AckedAwaited
    BY DEF PauseInv
  <1> DEFINE u == [m EXCEPT !.st = "unpaused"]
             E == IF ok THEN {u} ELSE {}
  <1>2. /\ m.kind = "resume" /\ psCmds' = (psCmds \ {m}) \cup E
        /\ UNCHANGED <<psSuspended, psResume, psPausable, psClient, psOutgoing, psSent>>
    BY DEF RunUnpause
  <1>3. m \in CmdRecord /\ m.c \in PsContainers /\ m.c = PsContainer[m.r] /\ m.id <= psSent
    BY <1>1 DEF PauseTypes, CmdRecord
  <1>4. u \in CmdRecord /\ u.kind = m.kind /\ u.r = m.r /\ u.c = m.c /\ u.id = m.id /\ u.st = "unpaused"
    BY <1>3, MovedFields
  <1> HIDE DEF u
  <1>5. \A n \in E : n = u
    OBVIOUS
  <1> HIDE DEF E
  <1>6. /\ psPaused' \in [PsContainers -> BOOLEAN]
        /\ \A c \in PsContainers : ~psPaused[c] => ~psPaused'[c]
        /\ \A c \in PsContainers : c \in psRaced /\ c \notin psRaced' => ~psPaused'[c]
    BY <1>1, <1>3 DEF RunUnpause, PauseTypes
  <1>7. PauseTypes' /\ AwaitsSuspended' /\ LiveIsAwake'
    <2>1. \A n \in psCmds' : n \in CmdRecord /\ n.c = PsContainer[n.r] /\ n.id <= psSent
      BY <1>1, <1>2, <1>3, <1>4, <1>5 DEF PauseTypes
    <2>. QED BY <1>2, <1>6, <2>1, ServerSideKept
  <1>8. OwnIds' /\ AwaitedIsOwn' /\ PausesPrecede'
    <2>1. /\ \A n \in E : n.kind = m.kind /\ n.r = m.r /\ n.c = m.c /\ n.id = m.id
          /\ \A n, o \in E : n = o
      BY <1>4, <1>5
    <2>. QED BY <1>2, <2>1, Advanced
  <1>9. AwakeRuns'
    <2> SUFFICES ASSUME NEW q \in PsReplicas, ~psSuspended[q], PsContainer[q] \notin psRaced'
                 PROVE  ~psPaused'[PsContainer[q]]
      BY <1>2 DEF AwakeRuns
    <2>1. (PsContainer[q] \notin psRaced => ~psPaused[PsContainer[q]]) /\ PsContainer[q] \in PsContainers
      BY <1>1 DEF AwakeRuns, PsContainers
    <2>. QED BY <1>6, <2>1
  <1>10. AckedAwaited'
    <2> SUFFICES ASSUME NEW n \in psCmds', n.st = "acked"
                 PROVE  n.kind = "resume" /\ psResume[n.r] = n.id /\ (n.c \notin psRaced' => ~psPaused'[n.c])
      BY <1>2 DEF AckedAwaited
    <2>1. n \in psCmds
      BY <1>2, <1>4, <1>5
    <2>2. n.kind = "resume" /\ psResume[n.r] = n.id /\ (n.c \notin psRaced => ~psPaused[n.c])
      BY <1>1, <2>1 DEF AckedAwaited
    <2>3. n.c \in PsContainers
      BY <1>1, <2>1 DEF PauseTypes, CmdRecord
    <2>. QED BY <1>6, <2>2, <2>3
  <1>. QED BY <1>7, <1>8, <1>9, <1>10 DEF PauseInv

LEMMA AckResumeStep ==
    ASSUME PauseInv, NEW m \in psCmds, AckResume(m)
    PROVE  PauseInv'
  <1>1. PauseTypes /\ AwakeRuns /\ AckedAwaited
    BY DEF PauseInv
  <1> DEFINE u == [m EXCEPT !.st = "acked"]
             E == IF Running(m) /\ psResume[m.r] = m.id THEN {u} ELSE {}
  <1>2. /\ m.kind = "resume" /\ psCmds' = (psCmds \ {m}) \cup E
        /\ UNCHANGED <<psSuspended, psResume, psPausable, psClient, psOutgoing, psPaused, psSent, psRaced>>
    BY DEF AckResume
  <1>3. m \in CmdRecord /\ m.c \in PsContainers /\ m.c = PsContainer[m.r] /\ m.id <= psSent
    BY <1>1 DEF PauseTypes, CmdRecord
  <1>4. u \in CmdRecord /\ u.kind = m.kind /\ u.r = m.r /\ u.c = m.c /\ u.id = m.id /\ u.st = "acked"
    BY <1>3, MovedFields
  <1> HIDE DEF u
  <1>5. \A n \in E : n = u /\ ~psPaused[m.c] /\ psResume[m.r] = m.id
    BY DEF Running
  <1> HIDE DEF E
  <1>6. psPaused' \in [PsContainers -> BOOLEAN]
    BY <1>1, <1>2 DEF PauseTypes
  <1>7. PauseTypes' /\ AwaitsSuspended' /\ LiveIsAwake'
    <2>1. \A n \in psCmds' : n \in CmdRecord /\ n.c = PsContainer[n.r] /\ n.id <= psSent
      BY <1>1, <1>2, <1>3, <1>4, <1>5 DEF PauseTypes
    <2>. QED BY <1>2, <1>6, <2>1, ServerSideKept
  <1>8. OwnIds' /\ AwaitedIsOwn' /\ PausesPrecede'
    <2>1. /\ \A n \in E : n.kind = m.kind /\ n.r = m.r /\ n.c = m.c /\ n.id = m.id
          /\ \A n, o \in E : n = o
      BY <1>4, <1>5
    <2>. QED BY <1>2, <2>1, Advanced
  <1>9. AwakeRuns'
    BY <1>1, <1>2 DEF AwakeRuns
  <1>10. AckedAwaited'
    <2> SUFFICES ASSUME NEW n \in psCmds', n.st = "acked"
                 PROVE  n.kind = "resume" /\ psResume[n.r] = n.id /\ (n.c \notin psRaced => ~psPaused[n.c])
      BY <1>2 DEF AckedAwaited
    <2>1. CASE n \in E
      BY <1>2, <1>4, <1>5, <2>1
    <2>2. CASE n \in psCmds
      BY <1>1, <2>2 DEF AckedAwaited
    <2>. QED BY <1>2, <2>1, <2>2
  <1>. QED BY <1>7, <1>8, <1>9, <1>10 DEF PauseInv

-----------------------------------------------------------------------------
(* The theorem *)

LEMMA PauseStart == PauseInit => PauseInv
  <1> SUFFICES ASSUME PauseInit PROVE PauseInv
    OBVIOUS
  <1>1. \A r \in PsReplicas : PsContainer[r] \in PsContainers
    BY DEF PsContainers
  <1>2. PauseTypes
    BY <1>1, PsAssumption DEF PauseInit, PauseTypes
  <1>3. AwaitsSuspended /\ OwnIds /\ AwaitedIsOwn /\ PausesPrecede /\ AckedAwaited
    BY DEF PauseInit, AwaitsSuspended, OwnIds, AwaitedIsOwn, PausesPrecede, AckedAwaited
  <1>4. LiveIsAwake
    BY DEF PauseInit, LiveIsAwake
  <1>5. AwakeRuns
    BY DEF PauseInit, AwakeRuns
  <1>. QED BY <1>2, <1>3, <1>4, <1>5 DEF PauseInv

LEMMA PauseStep == PauseInv /\ [PauseNext]_psVars => PauseInv'
  <1> SUFFICES ASSUME PauseInv, [PauseNext]_psVars PROVE PauseInv'
    OBVIOUS
  <1>1. CASE Reconcile
    BY <1>1, ReconcileStep
  <1>2. ASSUME NEW r \in PsReplicas, \/ Reserve(r) \/ ClientLeaves(r) \/ PausableChanges(r)
                                     \/ \E ok \in BOOLEAN : ResumeEnds(r, ok)
        PROVE  PauseInv'
    BY <1>2, ReserveStep, ClientLeavesStep, PausableChangesStep, ResumeEndsStep
  <1>3. ASSUME NEW c \in PsContainers, OutgoingChanges(c) PROVE PauseInv'
    BY <1>3, OutgoingChangesStep
  <1>4. ASSUME NEW m \in psCmds, NEW ok \in BOOLEAN, RunPause(m, ok) \/ RunUnpause(m, ok) PROVE PauseInv'
    BY <1>4, RunPauseStep, RunUnpauseStep
  <1>5. ASSUME NEW m \in psCmds, AckResume(m) PROVE PauseInv'
    BY <1>5, AckResumeStep
  <1>6. CASE UNCHANGED psVars
    <2>1. UNCHANGED <<psSuspended, psResume, psPausable, psClient, psOutgoing, psPaused, psCmds, psSent, psRaced>>
      BY <1>6 DEF psVars
    <2>2. /\ psPausable' \in [PsReplicas -> BOOLEAN] /\ psOutgoing' \in [PsContainers -> BOOLEAN]
          /\ psClient' \in [PsReplicas -> {"none", "reserved", "live"}]
          /\ \A r \in PsReplicas : psClient'[r] = "live" => psClient[r] = "live"
      BY <2>1 DEF PauseInv, PauseTypes
    <2>. QED BY <2>1, <2>2, QuietStep
  <1>. QED BY <1>1, <1>2, <1>3, <1>4, <1>5, <1>6 DEF PauseNext

\* A pause is sent by a reconciliation only, and to a container nobody needs.
LEMMA PausesOnlyIdle ==
    ASSUME PauseInv, PauseNext, NEW m \in psCmds', m \notin psCmds, m.kind = "pause"
    PROVE  /\ ~psOutgoing[m.c]
           /\ \A q \in PsReplicas : PsContainer[q] = m.c => psPausable[q] /\ psClient[q] = "none"
  <1>1. \A n \in psCmds : n \in CmdRecord
    BY DEF PauseInv, PauseTypes
  <1>2. CASE Reconcile
    <2> DEFINE id(r) == psSent + Cardinality({q \in {x \in PsReplicas : Suspends(x)} \cup
                                                    {x \in PsReplicas : ~MayPause(x) /\ StartsResume(x)} : q <= r})
    <2>1. \/ \E r \in PsReplicas : Suspends(r) /\ m = Cmd("pause", r, id(r))
          \/ \E r \in PsReplicas : m = Cmd("resume", r, id(r))
      BY <1>2 DEF Reconcile
    <2> HIDE DEF id
    <2>2. \A r : Cmd("resume", r, id(r)).kind = "resume" /\ Cmd("pause", r, id(r)).c = PsContainer[r]
      BY DEF Cmd
    <2>3. PICK r \in PsReplicas : Suspends(r) /\ m.c = PsContainer[r]
      BY <2>1, <2>2
    <2>. QED BY <2>3 DEF Suspends, MayPause, Blocked
  <1>3. ASSUME NEW r \in PsReplicas, Reserve(r) PROVE FALSE
    <2>1. m = Cmd("resume", r, psSent + 1)
      BY <1>3 DEF Reserve, Resume
    <2>. QED BY <2>1 DEF Cmd
  <1>4. ASSUME NEW r \in PsReplicas, ClientLeaves(r) \/ PausableChanges(r) \/ \E ok \in BOOLEAN : ResumeEnds(r, ok)
        PROVE  FALSE
    BY <1>4 DEF ClientLeaves, PausableChanges, ResumeEnds
  <1>5. ASSUME NEW c \in PsContainers, OutgoingChanges(c) PROVE FALSE
    BY <1>5 DEF OutgoingChanges
  <1>6. ASSUME NEW n \in psCmds, NEW ok \in BOOLEAN, RunPause(n, ok) PROVE FALSE
    BY <1>6 DEF RunPause
  <1>7. ASSUME NEW n \in psCmds, NEW ok \in BOOLEAN, RunUnpause(n, ok) PROVE FALSE
    <2>1. m = [n EXCEPT !.st = "unpaused"] /\ n.kind = "resume"
      BY <1>7 DEF RunUnpause
    <2>. QED BY <1>1, <2>1, MovedFields
  <1>8. ASSUME NEW n \in psCmds, AckResume(n) PROVE FALSE
    <2>1. m = [n EXCEPT !.st = "acked"] /\ n.kind = "resume"
      BY <1>8 DEF AckResume
    <2>. QED BY <1>1, <2>1, MovedFields
  <1>. QED BY <1>2, <1>3, <1>4, <1>5, <1>6, <1>7, <1>8 DEF PauseNext

\* A container that serves a client runs, unless the last command that touched
\* it was a pause that ran after a resume sent later than it; refused, lost and
\* late answers, time-outs, reloads and shared containers do not stop it.  And a
\* pause is sent only to a container that no declaration needs (reconcile_suspend,
\* Replica::resume, handle_container_suspend, handle_container_resume).
THEOREM ServedContainersRunAlways == PauseSpec => ServedContainersRun
  <1>1. PauseInv => PauseTypeOK /\ LiveClientRuns
    <2> SUFFICES ASSUME PauseInv PROVE PauseTypeOK /\ LiveClientRuns
      OBVIOUS
    <2>1. psSent \in Nat /\ psSent <= PsMaxCmds /\ psResume \in [PsReplicas -> 0..psSent]
      BY PsAssumption DEF PauseInv, PauseTypes
    <2>2. psResume \in [PsReplicas -> 0..PsMaxCmds]
      BY <2>1, PsAssumption
    <2>3. PauseTypeOK
      BY <2>2 DEF PauseInv, AwaitsSuspended, OwnIds, PauseTypeOK
    <2>4. LiveClientRuns
      BY DEF PauseInv, LiveIsAwake, AwakeRuns, LiveClientRuns
    <2>. QED BY <2>3, <2>4
  <1>2. PauseInv /\ [PauseNext]_psVars =>
          [\A m \in psCmds' \ psCmds : m.kind = "pause" =>
              /\ ~psOutgoing[m.c]
              /\ \A q \in PsReplicas : PsContainer[q] = m.c => psPausable[q] /\ psClient[q] = "none"]_psVars
    BY PausesOnlyIdle
  <1>. QED BY <1>1, <1>2, PauseStart, PauseStep, PTL DEF PauseSpec, ServedContainersRun, SuspendOnlyIdle

-----------------------------------------------------------------------------
(* LoadPressure.  The invariant keeps the samples ordered and ties the     *)
(* number of growing windows in a row to the windows that were judged.     *)

LpCounters == [epoch : LpEpochs \cup Nat, arrivals : Nat, completions : Nat, pending : Nat]
LpVerdicts == {"growing", "healthy", "neutral"}

LpTypes ==
    /\ lpTrue \in LpCounters /\ lpStart \in LpCounters /\ lpLast \in LpCounters
    /\ lpClosed \in Seq(LpVerdicts) /\ Len(lpClosed) <= 2

\* A run of one growing window is the last window judged.
RunIsJudged ==
    /\ lpRun \in {0, 1}
    /\ lpRun = 1 => Len(lpClosed) > 0 /\ lpClosed[Len(lpClosed)] = "growing"

LpInv == LpTypes /\ RunIsJudged /\ NoUnderflow /\ CongestedNeedsARun

LEMMA CountersMove ==
    ASSUME NEW r \in LpCounters
    PROVE  /\ \A v, w \in Nat : [r EXCEPT !.arrivals = v, !.pending = w] \in LpCounters
           /\ \A v, w \in Nat : [r EXCEPT !.completions = v, !.pending = w] \in LpCounters
           /\ r.arrivals + 1 \in Nat /\ r.completions + 1 \in Nat /\ r.pending + 1 \in Nat
           /\ r.pending > 0 => r.pending - 1 \in Nat
  <1>1. /\ \A v, w \in Nat : [r EXCEPT !.arrivals = v, !.pending = w] \in LpCounters
        /\ \A v, w \in Nat : [r EXCEPT !.completions = v, !.pending = w] \in LpCounters
    BY DEF LpCounters
  <1>2. PICK a, c, p \in Nat : a = r.arrivals /\ c = r.completions /\ p = r.pending
    BY DEF LpCounters
  <1>3. a + 1 \in Nat /\ c + 1 \in Nat /\ p + 1 \in Nat /\ (p > 0 => p - 1 \in Nat)
    OBVIOUS
  <1>. QED BY <1>1, <1>2, <1>3

\* The history with one more window.
WithWindow(j) == Append(IF Len(lpClosed) < CONGESTED_WINDOWS THEN lpClosed ELSE Tail(lpClosed), j)

\* The window that closes is the last one judged, the one before it stays.
LEMMA ClosedWindow ==
    ASSUME LpInv, NEW j \in LpVerdicts, lpClosed' = WithWindow(j)
    PROVE  /\ lpClosed' \in Seq(LpVerdicts) /\ Len(lpClosed') \in 1..2 /\ lpClosed'[Len(lpClosed')] = j
           /\ Len(lpClosed) > 0 => Len(lpClosed') = 2 /\ lpClosed'[1] = lpClosed[Len(lpClosed)]
  <1>1. lpClosed \in Seq(LpVerdicts) /\ Len(lpClosed) \in {0, 1, 2}
    <2>1. lpClosed \in Seq(LpVerdicts) /\ Len(lpClosed) <= 2
      BY DEF LpInv, LpTypes
    <2>2. PICK k \in Nat : k = Len(lpClosed)
      BY <2>1, LenProperties
    <2>3. k \in {0, 1, 2}
      BY <2>1, <2>2
    <2>. QED BY <2>1, <2>2, <2>3
  <1>2. CASE Len(lpClosed) < 2
    <2>1. lpClosed' = Append(lpClosed, j)
      BY <1>2 DEF CONGESTED_WINDOWS, WithWindow
    <2>2. /\ lpClosed' \in Seq(LpVerdicts) /\ Len(lpClosed') = Len(lpClosed) + 1 /\ lpClosed'[Len(lpClosed) + 1] = j
          /\ \A i \in 1..Len(lpClosed) : lpClosed'[i] = lpClosed[i]
      BY <1>1, <2>1, AppendProperties
    <2>. QED BY <1>1, <1>2, <2>2
  <1>3. CASE Len(lpClosed) = 2
    <2>1. lpClosed' = Append(Tail(lpClosed), j)
      BY <1>3 DEF CONGESTED_WINDOWS, WithWindow
    <2>2. Tail(lpClosed) \in Seq(LpVerdicts) /\ Len(Tail(lpClosed)) = 1 /\ Tail(lpClosed)[1] = lpClosed[2]
      <3>1. PICK q \in Seq(LpVerdicts) : q = lpClosed /\ Len(q) = 2
        BY <1>1, <1>3
      <3>2. q # <<>>
        <4>1. Len(<<>>) = 0
          BY EmptySeq, Zenon
        <4>2. 0 # 2
          OBVIOUS
        <4>. QED BY <3>1, <4>1, <4>2, Zenon
      <3>3. Tail(q) \in Seq(LpVerdicts) /\ Len(Tail(q)) = Len(q) - 1 /\ \A i \in 1..Len(Tail(q)) : Tail(q)[i] = q[i + 1]
        BY <3>2, HeadTailProperties
      <3>4. Len(Tail(q)) = 1
        BY <3>1, <3>3
      <3>5. Tail(q)[1] = q[2]
        BY <3>3, <3>4
      <3>. QED BY <3>1, <3>3, <3>4, <3>5
    <2>3. /\ lpClosed' \in Seq(LpVerdicts) /\ Len(lpClosed') = 2
          /\ lpClosed'[2] = j /\ lpClosed'[1] = lpClosed[2]
      <3>1. PICK t \in Seq(LpVerdicts) : t = Tail(lpClosed) /\ Len(t) = 1 /\ t[1] = lpClosed[2]
        BY <2>2
      <3>2. lpClosed' = Append(t, j)
        BY <2>1, <3>1
      <3>3. /\ Append(t, j) \in Seq(LpVerdicts) /\ Len(Append(t, j)) = Len(t) + 1
            /\ Append(t, j)[Len(t) + 1] = j /\ \A i \in 1..Len(t) : Append(t, j)[i] = t[i]
        BY AppendProperties
      <3>. QED BY <3>1, <3>2, <3>3
    <2>. QED BY <1>3, <2>3
  <1>4. PICK k \in {0, 1, 2} : k = Len(lpClosed)
    BY <1>1
  <1>5. Len(lpClosed) < 2 \/ Len(lpClosed) = 2
    BY <1>4
  <1>. QED BY <1>2, <1>3, <1>5

LEMMA CloseWindowStep ==
    ASSUME LpInv, NEW s \in LpCounters, NEW sum, NEW lat, lpTrue' \in LpCounters, CloseWindow(s, sum, lat)
    PROVE  LpInv'
  <1> DEFINE j == Judged(s, Mean(sum))
  <1> DEFINE run == IF j = "growing" THEN lpRun + 1 ELSE 0
  <1> DEFINE full == run >= CONGESTED_WINDOWS
  <1>1. /\ lpTrend' = (IF j = "growing" THEN IF full THEN "congested" ELSE "neutral" ELSE j)
        /\ lpRun' = (IF full THEN 0 ELSE run)
        /\ lpClosed' = WithWindow(j)
        /\ lpStart' = s /\ lpLast' = s
    BY DEF CloseWindow, WithWindow
  <1>2. j \in LpVerdicts
    BY DEF Judged, LpVerdicts
  <1>3. /\ run \in {0, 1, 2} /\ (run > 0 <=> j = "growing") /\ (full <=> run = 2) /\ (run = 2 <=> j = "growing" /\ lpRun = 1)
    BY DEF LpInv, RunIsJudged, CONGESTED_WINDOWS
  <1> HIDE DEF j, run, full
  <1>4. /\ lpClosed' \in Seq(LpVerdicts) /\ Len(lpClosed') \in 1..2 /\ lpClosed'[Len(lpClosed')] = j
        /\ Len(lpClosed) > 0 => Len(lpClosed') = 2 /\ lpClosed'[1] = lpClosed[Len(lpClosed)]
    BY <1>1, <1>2, ClosedWindow
  <1>5. LpTypes'
    BY <1>1, <1>4 DEF LpTypes
  <1>6. RunIsJudged'
    BY <1>1, <1>3, <1>4 DEF RunIsJudged
  <1>7. NoUnderflow'
    BY <1>1 DEF NoUnderflow, LpCounters
  <1>8. CongestedNeedsARun'
    <2> SUFFICES ASSUME lpTrend' = "congested"
                 PROVE  Len(lpClosed') = 2 /\ \A i \in 1..2 : lpClosed'[i] = "growing"
      BY DEF CongestedNeedsARun, CONGESTED_WINDOWS
    <2>1. j = "growing" /\ lpRun = 1
      BY <1>1, <1>2, <1>3 DEF LpVerdicts
    <2>2. Len(lpClosed) > 0 /\ lpClosed[Len(lpClosed)] = "growing"
      BY <2>1 DEF LpInv, RunIsJudged
    <2>3. Len(lpClosed') = 2 /\ lpClosed'[1] = "growing" /\ lpClosed'[2] = "growing"
      BY <1>4, <2>1, <2>2
    <2>. QED BY <2>3
  <1>. QED BY <1>5, <1>6, <1>7, <1>8 DEF LpInv

\* Whatever sample the controller is given.
LEMMA ObserveStep ==
    ASSUME LpInv, NEW s \in LpCounters, NEW lat, lpTrue' \in LpCounters, Observe(s, lat)
    PROVE  LpInv'
  <1>1. CASE s.epoch # lpLast.epoch
    <2>1. lpStart' = s /\ lpLast' = s /\ lpRun' = 0 /\ lpTrend' = "neutral" /\ lpClosed' = <<>>
      BY <1>1 DEF Observe, Reset
    <2>2. LpTypes'
      BY <2>1 DEF LpTypes
    <2>3. PICK a, k \in Nat : a = s.arrivals /\ k = s.completions
      BY DEF LpCounters
    <2>4. NoUnderflow'
      BY <2>1, <2>3 DEF NoUnderflow
    <2>5. RunIsJudged' /\ CongestedNeedsARun'
      BY <2>1 DEF RunIsJudged, CongestedNeedsARun
    <2>. QED BY <2>2, <2>4, <2>5 DEF LpInv
  <1>2. CASE s.epoch = lpLast.epoch /\ Stale(s)
    <2>1. UNCHANGED <<lpStart, lpLast, lpRun, lpTrend, lpClosed>>
      BY <1>2 DEF Observe
    <2>. QED BY <2>1 DEF LpInv, LpTypes, RunIsJudged, NoUnderflow, CongestedNeedsARun
  <1>3. CASE s.epoch = lpLast.epoch /\ ~Stale(s) /\ lpElapsed
    <2>1. PICK sum : CloseWindow(s, sum, lat)
      BY <1>3 DEF Observe
    <2>. QED BY <2>1, CloseWindowStep
  <1>4. CASE s.epoch = lpLast.epoch /\ ~Stale(s) /\ ~lpElapsed
    <2>1. lpLast' = s /\ UNCHANGED <<lpStart, lpRun, lpTrend, lpClosed>>
      BY <1>4 DEF Observe
    <2>2. NoUnderflow'
      <3>1. PICK a, b, k, m, d, e \in Nat :
              /\ a = s.arrivals /\ b = lpLast.arrivals /\ d = lpStart.arrivals
              /\ k = s.completions /\ m = lpLast.completions /\ e = lpStart.completions
        BY DEF LpInv, LpTypes, LpCounters
      <3>2. b <= a /\ m <= k
        BY <1>4, <3>1 DEF Stale
      <3>3. d <= b /\ e <= m /\ lpLast.epoch = lpStart.epoch
        BY <3>1 DEF LpInv, NoUnderflow
      <3>4. d <= a /\ e <= k
        BY <3>2, <3>3
      <3>. QED BY <1>4, <2>1, <3>1, <3>3, <3>4 DEF NoUnderflow
    <2>. QED BY <2>1, <2>2 DEF LpInv, LpTypes, RunIsJudged, CongestedNeedsARun
  <1>. QED BY <1>1, <1>2, <1>3, <1>4

LEMMA PressureStart == PressureInit => LpInv
  <1> SUFFICES ASSUME PressureInit PROVE LpInv
    OBVIOUS
  <1>1. LpSample(1, 0, 0, 0) \in LpCounters
    BY LpAssumption DEF LpSample, LpCounters
  <1>2. lpTrue \in LpCounters /\ lpStart = lpTrue /\ lpLast = lpTrue /\ lpClosed = <<>> /\ lpRun = 0 /\ lpTrend = "neutral"
    BY <1>1 DEF PressureInit
  <1>. QED BY <1>2 DEF LpInv, LpTypes, LpCounters, RunIsJudged, NoUnderflow, CongestedNeedsARun

LEMMA PressureStep == LpInv /\ [PressureNext]_lpVars => LpInv'
  <1> SUFFICES ASSUME LpInv, [PressureNext]_lpVars PROVE LpInv'
    OBVIOUS
  <1>1. lpTrue \in LpCounters
    BY DEF LpInv, LpTypes
  <1> DEFINE more == [lpTrue EXCEPT !.arrivals = @ + 1, !.pending = @ + 1]
  <1> DEFINE done == [lpTrue EXCEPT !.completions = @ + 1, !.pending = @ - 1]
  <1>2. more \in LpCounters /\ (lpTrue.pending > 0 => done \in LpCounters)
    <2>1. lpTrue.arrivals + 1 \in Nat /\ lpTrue.completions + 1 \in Nat /\ lpTrue.pending + 1 \in Nat
      BY <1>1, CountersMove
    <2>2. lpTrue.pending > 0 => lpTrue.pending - 1 \in Nat
      BY <1>1, CountersMove
    <2>3. /\ more = [lpTrue EXCEPT !.arrivals = lpTrue.arrivals + 1, !.pending = lpTrue.pending + 1]
          /\ done = [lpTrue EXCEPT !.completions = lpTrue.completions + 1, !.pending = lpTrue.pending - 1]
      BY <1>1 DEF LpCounters
    <2>. QED BY <1>1, <2>1, <2>2, <2>3, CountersMove
  <1> HIDE DEF more, done
  <1>3. CASE WindowPasses
    BY <1>3 DEF WindowPasses, LpInv, LpTypes, RunIsJudged, NoUnderflow, CongestedNeedsARun
  <1>4. CASE ProxyCounts
    <2>1. lpTrue' \in LpCounters
      <3>1. CASE lpTrue' = more
        BY <1>2, <3>1
      <3>2. CASE lpTrue.pending > 0 /\ lpTrue' = done
        BY <1>2, <3>2
      <3>3. CASE lpTrue.epoch + 1 \in LpEpochs /\ lpTrue' = LpSample(lpTrue.epoch + 1, 0, 0, 0)
        BY <3>3 DEF LpSample, LpCounters
      <3>. QED BY <1>4, <3>1, <3>2, <3>3 DEF ProxyCounts, more, done
    <2>2. UNCHANGED <<lpStart, lpLast, lpRun, lpTrend, lpClosed>>
      BY <1>4 DEF ProxyCounts
    <2>. QED BY <2>1, <2>2 DEF LpInv, LpTypes, RunIsJudged, NoUnderflow, CongestedNeedsARun
  <1>5. CASE SetupStarted
    <2>1. lpTrue' = more /\ Observe(lpTrue', <<>>)
      BY <1>5 DEF SetupStarted, more
    <2>2. Observe(more, <<>>)
      BY <2>1
    <2>. QED BY <1>2, <2>1, <2>2, ObserveStep
  <1>6. ASSUME NEW lat \in LpLatencies, SetupCompleted(lat) PROVE LpInv'
    <2>1. lpTrue.pending > 0 /\ lpTrue' = done /\ Observe(lpTrue', <<lat>>)
      BY <1>6 DEF SetupCompleted, done
    <2>2. Observe(done, <<lat>>)
      BY <2>1
    <2>. QED BY <1>2, <2>1, <2>2, ObserveStep
  <1>7. ASSUME NEW lat \in LpLatencies, NEW e \in LpEpochs, NEW a \in 0..LpMaxCount, NEW c \in 0..LpMaxCount,
               ProxySample(e, a, c, lat)
        PROVE  LpInv'
    <2>1. c <= a /\ Observe(LpSample(e, a, c, a - c), <<lat>>) /\ lpTrue' = lpTrue
      BY <1>7 DEF ProxySample
    <2>2. LpSample(e, a, c, a - c) \in LpCounters
      BY <2>1, LpAssumption DEF LpSample, LpCounters
    <2>. QED BY <1>1, <2>1, <2>2, ObserveStep
  <1>8. CASE UNCHANGED lpVars
    BY <1>8 DEF lpVars, LpInv, LpTypes, RunIsJudged, NoUnderflow, CongestedNeedsARun
  <1>. QED BY <1>3, <1>4, <1>5, <1>6, <1>7, <1>8 DEF PressureNext

\* However late and out of order the samples come, and across restarts of the
\* proxy: no window of Pressure::observe is computed from counters that went
\* backwards, and a source is congested only after CONGESTED_WINDOWS growing
\* windows in a row of one life of its process (congestion.rs).
THEOREM VerdictsNeedEvidenceAlways == PressureSpec => []VerdictsNeedEvidence
  <1>1. LpInv => VerdictsNeedEvidence
    BY DEF LpInv, VerdictsNeedEvidence
  <1>. QED BY <1>1, PressureStart, PressureStep, PTL DEF PressureSpec


-----------------------------------------------------------------------------
(* Admission.  The invariant is said of one host's row at a time: the      *)
(* bucket is within its burst and empty where no rate fills it, and the    *)
(* last shortage is no older than the last congested window, which counts  *)
(* as one (RowOk); so the quiet the recovery asks for is quiet since the   *)
(* congestion.                                                             *)

RateRow == [rate : Int, tokens : Int, denied : Nat, done : SUBSET Nat, healthy : Nat, congested : Nat]

RowOk(r) ==
    /\ r.rate = NoRate \/ r.rate \in 0..AdMaxRate
    /\ r.tokens \in 0..BUCKET_BURST
    /\ r.rate \in {NoRate, 0} => r.tokens = 0
    /\ r.denied <= r.congested

AdInv ==
    /\ \A h \in AdHosts : HostRate(h) \in RateRow /\ RowOk(HostRate(h))
    /\ adRefilled \in [AdHosts -> Nat]

\* What a request that leaves its rate alone finds in the bucket of a host.
Level(h) == AdMin(adTokens[h] + adRefilled[h] * adRate[h], BUCKET_BURST)

LEMMA RefillOk ==
    ASSUME AdInv, NEW h \in AdHosts
    PROVE  /\ refill(h, HostRate(h)) \in RateRow /\ RowOk(refill(h, HostRate(h)))
           /\ refill(h, HostRate(h)).rate = adRate[h]
           /\ adRate[h] # NoRate => refill(h, HostRate(h)).tokens = Level(h)
           /\ adRate[h] = 0 => Level(h) = 0
  <1>1. PICK r \in RateRow : r = HostRate(h)
    BY DEF AdInv
  <1>2. RowOk(r) /\ r.rate = adRate[h] /\ r.tokens = adTokens[h] /\ adRefilled[h] \in Nat
    BY <1>1 DEF AdInv, HostRate
  <1>3. BUCKET_BURST \in Nat /\ AdMaxRate \in Nat
    BY AdAssumption
  <1>4. CASE r.rate = NoRate
    BY <1>1, <1>2, <1>4 DEF refill, NoRate
  <1>5. CASE r.rate # NoRate
    <2>1. r.rate \in Nat /\ r.rate <= AdMaxRate /\ r.tokens \in Nat /\ r.tokens <= BUCKET_BURST
      BY <1>2, <1>3, <1>5 DEF RowOk
    <2>2. PICK more : more = adRefilled[h] * r.rate
      OBVIOUS
    <2>3. more \in Nat /\ (r.rate = 0 => more = 0)
      BY <1>2, <2>1, <2>2
    <2>4. PICK n : n = AdMin(r.tokens + more, BUCKET_BURST)
      OBVIOUS
    <2>5. n \in 0..BUCKET_BURST /\ (r.rate = 0 => n = 0) /\ n = Level(h)
      BY <1>2, <1>3, <2>1, <2>2, <2>3, <2>4 DEF AdMin, RowOk, Level
    <2>6. PICK q : q = [r EXCEPT !.tokens = n]
      OBVIOUS
    <2>7. q \in RateRow /\ q.rate = r.rate /\ q.tokens = n /\ q.denied = r.denied /\ q.congested = r.congested
      BY <2>5, <2>6 DEF RateRow
    <2>8. refill(h, r) = q
      BY <1>5, <2>2, <2>4, <2>6 DEF refill
    <2>9. RowOk(q)
      BY <1>2, <1>5, <2>5, <2>7 DEF RowOk, NoRate
    <2>. QED BY <1>1, <1>2, <2>5, <2>7, <2>8, <2>9
  <1>. QED BY <1>4, <1>5

LEMMA DeniedOk ==
    ASSUME NEW r \in RateRow, RowOk(r)
    PROVE  /\ denied(r) \in RateRow /\ RowOk(denied(r))
           /\ denied(r).rate = r.rate /\ denied(r).tokens = r.tokens
  <1>1. PICK none : none = 0
    OBVIOUS
  <1>2. PICK q : q = [r EXCEPT !.denied = none, !.done = {}]
    OBVIOUS
  <1>3. q \in RateRow /\ q.rate = r.rate /\ q.tokens = r.tokens /\ q.denied = none /\ q.congested = r.congested
    BY <1>1, <1>2 DEF RateRow
  <1>4. denied(r) = q
    BY <1>1, <1>2 DEF denied
  <1>5. RowOk(q)
    BY <1>1, <1>3 DEF RowOk, RateRow
  <1>. QED BY <1>3, <1>4, <1>5

\* A verdict either empties the bucket of a host it finds congested, or leaves
\* the bucket alone, or ends the limit, which takes the quiet and the completions.
RowJudged(r, q) ==
    /\ q \in RateRow /\ RowOk(q)
    /\ \/ q.rate = 0 /\ q.tokens = 0
       \/ q.tokens = r.tokens
       \/ q.rate = NoRate /\ r.rate # NoRate
    /\ r.rate # NoRate /\ q.rate = NoRate => q.congested >= RECOVERY_QUIET /\ \E a \in q.done : a >= RECOVERY_QUIET

LEMMA CongestedOk ==
    ASSUME NEW r \in RateRow, RowOk(r)
    PROVE  RowJudged(r, Congested(r))
  <1>1. PICK none \in Nat : none = 0 /\ none \in Int
    OBVIOUS
  <1>2. PICK d : d = denied(r)
    OBVIOUS
  <1>3. PICK q : q = [d EXCEPT !.rate = none, !.tokens = none, !.healthy = none, !.congested = none]
    OBVIOUS
  <1>4. d \in RateRow
    BY <1>2, DeniedOk
  <1>5. q \in RateRow /\ q.rate = none /\ q.tokens = none /\ q.denied = d.denied /\ q.congested = none
    BY <1>1, <1>3, <1>4 DEF RateRow
  <1>6. d.denied = 0
    BY <1>2 DEF denied, RateRow
  <1>7. Congested(r) = q
    BY <1>1, <1>2, <1>3 DEF Congested
  <1>8. BUCKET_BURST \in Nat /\ AdMaxRate \in Nat
    BY AdAssumption
  <1>9. RowOk(q)
    BY <1>1, <1>5, <1>6, <1>8 DEF RowOk
  <1>. QED BY <1>1, <1>5, <1>7, <1>9 DEF RowJudged, NoRate

LEMMA HealthierOk ==
    ASSUME NEW r \in RateRow, RowOk(r)
    PROVE  RowJudged(r, Healthier(r))
  <1>1. BUCKET_BURST \in Nat /\ AdMaxRate \in Nat /\ RECOVERY_QUIET \in Nat
    BY AdAssumption
  <1>2. CASE r.rate = NoRate
    <2>1. Healthier(r) = r
      BY <1>2 DEF Healthier
    <2>. QED BY <1>2, <2>1 DEF RowJudged
  <1>3. CASE r.rate # NoRate
    <2>1. PICK windows : windows = r.healthy + 1
      OBVIOUS
    <2>2. windows \in Nat /\ r.rate \in 0..AdMaxRate
      BY <1>3, <2>1 DEF RateRow, RowOk
    <2>3. CASE windows < RECOVERY_WINDOWS
      <3>1. PICK q : q = [r EXCEPT !.healthy = windows]
        OBVIOUS
      <3>2. q \in RateRow /\ q.rate = r.rate /\ q.tokens = r.tokens /\ q.denied = r.denied /\ q.congested = r.congested
        BY <2>2, <3>1 DEF RateRow
      <3>3. Healthier(r) = q
        BY <1>3, <2>1, <2>3, <3>1 DEF Healthier
      <3>4. RowOk(q)
        BY <3>2 DEF RowOk
      <3>. QED BY <1>3, <3>2, <3>3, <3>4 DEF RowJudged
    <2>4. CASE ~(windows < RECOVERY_WINDOWS)
      <3>1. PICK rate : rate = AdMin(r.rate + 1, AdMaxRate)
        OBVIOUS
      <3>2. rate \in 0..AdMaxRate /\ rate >= r.rate /\ rate \in Int
        BY <1>1, <2>2, <3>1 DEF AdMin
      <3>3. PICK healthy : healthy = AdMin(windows, RECOVERY_WINDOWS)
        OBVIOUS
      <3>4. healthy \in Nat
        BY <2>2, <3>3 DEF AdMin, RECOVERY_WINDOWS
      <3>5. PICK q : q = [r EXCEPT !.healthy = healthy, !.rate = rate]
        OBVIOUS
      <3>6. /\ q \in RateRow /\ q.rate = rate /\ q.tokens = r.tokens /\ q.denied = r.denied /\ q.congested = r.congested
            /\ q.done = r.done
        BY <3>2, <3>4, <3>5 DEF RateRow
      <3>7. CASE ~Recovered(r)
        <4>1. Healthier(r) = q
          BY <1>3, <2>1, <2>4, <3>1, <3>3, <3>5, <3>7 DEF Healthier
        <4>2. RowOk(q)
          BY <1>1, <2>2, <3>2, <3>6 DEF RowOk, NoRate
        <4>. QED BY <3>2, <3>6, <4>1, <4>2 DEF RowJudged, NoRate
      <3>8. CASE Recovered(r)
        <4>1. PICK none \in Int : none = 0
          OBVIOUS
        <4>a. PICK free \in Int : free = NoRate
          BY DEF NoRate
        <4>2. PICK p : p = [q EXCEPT !.rate = free, !.tokens = none]
          OBVIOUS
        <4>3. /\ p \in RateRow /\ p.rate = free /\ p.tokens = none /\ p.denied = r.denied /\ p.congested = r.congested
              /\ p.done = r.done
          BY <3>6, <4>2 DEF RateRow
        <4>4. Healthier(r) = p
          BY <1>3, <2>1, <2>4, <3>1, <3>3, <3>5, <3>8, <4>1, <4>a, <4>2 DEF Healthier
        <4>5. RowOk(p)
          BY <1>1, <4>1, <4>a, <4>3 DEF RowOk
        <4>6. p.congested >= RECOVERY_QUIET /\ \E a \in p.done : a >= RECOVERY_QUIET
          BY <1>1, <3>8, <4>3 DEF Recovered, Sustained, RowOk, RateRow
        <4>. QED BY <1>3, <4>a, <4>3, <4>4, <4>5, <4>6 DEF RowJudged
      <3>. QED BY <3>7, <3>8
    <2>. QED BY <2>3, <2>4
  <1>. QED BY <1>2, <1>3

LEMMA ApplyOk ==
    ASSUME NEW r \in RateRow, RowOk(r), NEW ps
    PROVE  RowJudged(r, apply_all(r, ps))
  <1>1. RowJudged(r, r)
    BY DEF RowJudged
  <1>2. CASE apply_all(r, ps) = r
    BY <1>1, <1>2
  <1>3. CASE apply_all(r, ps) = Congested(r)
    BY <1>3, CongestedOk
  <1>4. CASE apply_all(r, ps) = Healthier(r)
    BY <1>4, HealthierOk
  <1>5. CASE apply_all(r, ps) = [r EXCEPT !.healthy = 0]
    <2>1. PICK none : none = 0
      OBVIOUS
    <2>2. PICK q : q = [r EXCEPT !.healthy = none]
      OBVIOUS
    <2>3. q \in RateRow /\ q.rate = r.rate /\ q.tokens = r.tokens /\ q.denied = r.denied /\ q.congested = r.congested
      BY <2>1, <2>2 DEF RateRow
    <2>4. RowOk(q)
      BY <2>3 DEF RowOk
    <2>5. RowJudged(r, q)
      BY <2>3, <2>4 DEF RowJudged
    <2>6. apply_all(r, ps) = q
      BY <1>5, <2>1, <2>2
    <2>. QED BY <2>5, <2>6
  <1>. QED BY <1>2, <1>3, <1>4, <1>5 DEF apply_all

\* Charging a host costs a token where it is limited, refusing costs none.
LEMMA ChargeOk ==
    ASSUME NEW r \in RateRow, RowOk(r)
    PROVE  /\ HasToken(r) => /\ Spend(r) \in RateRow /\ RowOk(Spend(r)) /\ Spend(r).rate = r.rate
                             /\ Spend(r).done = r.done /\ Spend(r).congested = r.congested
                             /\ r.rate # NoRate => Spend(r).tokens = r.tokens - 1
           /\ Refuse(r) \in RateRow /\ RowOk(Refuse(r)) /\ Refuse(r).rate = r.rate /\ Refuse(r).tokens = r.tokens
           /\ r.rate = NoRate => Refuse(r) = r /\ Spend(r) = r
  <1>1. Refuse(r) \in RateRow /\ RowOk(Refuse(r)) /\ Refuse(r).rate = r.rate /\ Refuse(r).tokens = r.tokens
    BY DeniedOk DEF Refuse
  <1>2. r.rate = NoRate => Refuse(r) = r /\ Spend(r) = r
    BY DEF Refuse, HasToken, Spend
  <1>3. ASSUME HasToken(r), r.rate # NoRate
        PROVE  /\ Spend(r) \in RateRow /\ RowOk(Spend(r)) /\ Spend(r).rate = r.rate
               /\ Spend(r).done = r.done /\ Spend(r).congested = r.congested /\ Spend(r).tokens = r.tokens - 1
    <2>1. PICK n : n = r.tokens - 1
      OBVIOUS
    <2>2. r.tokens \in 1..BUCKET_BURST /\ BUCKET_BURST \in Nat
      BY <1>3, AdAssumption DEF HasToken, RowOk
    <2>3. PICK q : q = [r EXCEPT !.tokens = n]
      OBVIOUS
    <2>4. /\ q \in RateRow /\ q.rate = r.rate /\ q.tokens = n /\ q.denied = r.denied /\ q.congested = r.congested
          /\ q.done = r.done
      BY <2>1, <2>2, <2>3 DEF RateRow
    <2>5. Spend(r) = q
      BY <1>3, <2>1, <2>3 DEF Spend
    <2>6. RowOk(q)
      BY <1>3, <2>1, <2>2, <2>4 DEF RowOk
    <2>. QED BY <2>1, <2>4, <2>5, <2>6
  <1>. QED BY <1>1, <1>2, <1>3

-----------------------------------------------------------------------------
(* The steps *)

\* The row of h is q after the step.
RowBecomes(h, q) ==
    /\ adRate'[h] = q.rate /\ adTokens'[h] = q.tokens /\ adDenied'[h] = q.denied
    /\ adDone'[h] = q.done /\ adHealthy'[h] = q.healthy /\ adCongested'[h] = q.congested

LEMMA RowAfter ==
    ASSUME NEW h \in AdHosts, NEW q \in RateRow, RowOk(q), RowBecomes(h, q)
    PROVE  HostRate(h)' \in RateRow /\ RowOk(HostRate(h))'
  <1>1. PICK p : p = HostRate(h)'
    OBVIOUS
  <1>2. /\ p = [rate |-> q.rate, tokens |-> q.tokens, denied |-> q.denied, done |-> q.done, healthy |-> q.healthy,
                congested |-> q.congested]
    BY <1>1 DEF RowBecomes, HostRate
  <1>3. /\ p \in RateRow /\ p.rate = q.rate /\ p.tokens = q.tokens /\ p.denied = q.denied /\ p.congested = q.congested
    BY <1>2 DEF RateRow
  <1>4. RowOk(p)
    BY <1>3 DEF RowOk
  <1>5. RowOk(HostRate(h)')
    BY <1>1, <1>4
  <1>. QED BY <1>1, <1>3, <1>5 DEF RowOk

\* What a request makes of the rows of its hosts: each is judged, and then all
\* are charged or all refuse.
LEMMA DedicatedRows ==
    ASSUME AdInv, NEW pair \in AdPairs, AllowDedicated(pair)
    PROVE  /\ \E rs : /\ \A h \in {pair[1], pair[2]} : h \in AdHosts /\ RowJudged(refill(h, HostRate(h)), rs[h])
                      /\ \/ \A h \in {pair[1], pair[2]} : HasToken(rs[h]) /\ RowBecomes(h, Spend(rs[h]))
                         \/ \A h \in {pair[1], pair[2]} : RowBecomes(h, Refuse(rs[h]))
           /\ \A h \in AdHosts \ {pair[1], pair[2]} : RowBecomes(h, HostRate(h))
           /\ adRefilled' \in [AdHosts -> Nat]
  <1>1. PICK hosts : hosts = {pair[1], pair[2]}
    OBVIOUS
  <1>2. hosts \subseteq AdHosts
    BY <1>1, AdAssumption
  <1>3. PICK rs : rs = [h \in hosts |-> apply_all(refill(h, HostRate(h)), Pressures(h, pair))]
    OBVIOUS
  <1>4. ASSUME NEW h \in hosts PROVE RowJudged(refill(h, HostRate(h)), rs[h])
    <2>1. rs[h] = apply_all(refill(h, HostRate(h)), Pressures(h, pair))
      BY <1>3
    <2>2. refill(h, HostRate(h)) \in RateRow /\ RowOk(refill(h, HostRate(h)))
      BY <1>2, RefillOk
    <2>. QED BY <2>1, <2>2, ApplyOk
  <1>5. PICK allowed \in BOOLEAN : allowed = (\A h \in hosts : HasToken(rs[h]))
    OBVIOUS
  <1>6. ASSUME NEW h \in hosts PROVE RowBecomes(h, Settled(rs, h, allowed))
    BY <1>1, <1>2, <1>3, <1>5 DEF AllowDedicated, RowBecomes
  <1>7. \/ \A h \in hosts : HasToken(rs[h]) /\ RowBecomes(h, Spend(rs[h]))
        \/ \A h \in hosts : RowBecomes(h, Refuse(rs[h]))
    <2>1. CASE allowed = TRUE
      BY <1>5, <1>6, <2>1 DEF Settled
    <2>2. CASE allowed = FALSE
      BY <1>6, <2>2 DEF Settled
    <2>. QED BY <2>1, <2>2
  <1>9. \A h \in AdHosts \ hosts : RowBecomes(h, HostRate(h))
    BY <1>1 DEF AllowDedicated, RowBecomes, HostRate
  <1>10. adRefilled' \in [AdHosts -> Nat]
    BY DEF AllowDedicated, AdInv
  <1>. QED BY <1>1, <1>2, <1>4, <1>7, <1>9, <1>10

LEMMA DedicatedStep ==
    ASSUME AdInv, NEW pair \in AdPairs, AllowDedicated(pair)
    PROVE  AdInv'
  <1>1. PICK rs : /\ \A h \in {pair[1], pair[2]} : h \in AdHosts /\ RowJudged(refill(h, HostRate(h)), rs[h])
                  /\ \/ \A h \in {pair[1], pair[2]} : HasToken(rs[h]) /\ RowBecomes(h, Spend(rs[h]))
                     \/ \A h \in {pair[1], pair[2]} : RowBecomes(h, Refuse(rs[h]))
    BY DedicatedRows
  <1>2. ASSUME NEW h \in AdHosts PROVE HostRate(h)' \in RateRow /\ RowOk(HostRate(h))'
    <2>1. CASE h \in {pair[1], pair[2]}
      <3>1. rs[h] \in RateRow /\ RowOk(rs[h])
        BY <1>1, <2>1 DEF RowJudged
      <3>2. \E q \in RateRow : RowOk(q) /\ RowBecomes(h, q)
        BY <1>1, <2>1, <3>1, ChargeOk
      <3>. QED BY <3>2, RowAfter
    <2>2. CASE h \notin {pair[1], pair[2]}
      <3>1. RowBecomes(h, HostRate(h)) /\ HostRate(h) \in RateRow /\ RowOk(HostRate(h))
        BY <2>2, DedicatedRows DEF AdInv
      <3>. QED BY <3>1, RowAfter
    <2>. QED BY <2>1, <2>2
  <1>3. adRefilled' \in [AdHosts -> Nat]
    BY DedicatedRows
  <1>. QED BY <1>2, <1>3 DEF AdInv

\* An age never runs ahead of another that it trailed.
LEMMA OlderKeeps ==
    ASSUME NEW a \in Nat, NEW b \in Nat, a <= b
    PROVE  Older(a) \in Nat /\ Older(a) <= Older(b)
  BY AdAssumption DEF Older, Long

LEMMA SecondStep ==
    ASSUME AdInv, Second
    PROVE  AdInv'
  <1>1. ASSUME NEW h \in AdHosts PROVE HostRate(h)' \in RateRow /\ RowOk(HostRate(h))'
    <2>1. PICK r \in RateRow : r = HostRate(h)
      BY DEF AdInv
    <2>2. /\ RowOk(r) /\ r.rate = adRate[h] /\ r.tokens = adTokens[h] /\ r.denied = adDenied[h] /\ r.done = adDone[h]
          /\ r.healthy = adHealthy[h] /\ r.congested = adCongested[h]
      BY <2>1 DEF AdInv, HostRate
    <2>3. PICK older : older = Older(r.denied)
      OBVIOUS
    <2>4. PICK colder : colder = Older(r.congested)
      OBVIOUS
    <2>5. PICK done : done = {Older(a) : a \in r.done} \ {Long}
      OBVIOUS
    <2>6. r.denied \in Nat /\ r.congested \in Nat /\ r.denied <= r.congested /\ r.done \subseteq Nat
      BY <2>2 DEF RateRow, RowOk
    <2>7. older \in Nat /\ colder \in Nat /\ older <= colder
      BY <2>3, <2>4, <2>6, OlderKeeps
    <2>8. done \subseteq Nat
      BY <2>5, <2>6, OlderKeeps
    <2>9. PICK q : q = [r EXCEPT !.denied = older, !.done = done, !.congested = colder]
      OBVIOUS
    <2>10. /\ q \in RateRow /\ q.rate = r.rate /\ q.tokens = r.tokens /\ q.denied = older /\ q.congested = colder
           /\ q.done = done /\ q.healthy = r.healthy
      BY <2>7, <2>8, <2>9 DEF RateRow
    <2>11. RowOk(q)
      BY <2>2, <2>7, <2>10 DEF RowOk
    <2>12. RowBecomes(h, q)
      BY <2>2, <2>3, <2>4, <2>5, <2>10 DEF Second, RowBecomes
    <2>. QED BY <2>10, <2>11, <2>12, RowAfter
  <1>2. adRefilled' \in [AdHosts -> Nat]
    BY OlderKeeps DEF Second, AdInv
  <1>. QED BY <1>1, <1>2 DEF AdInv

LEMMA CompletedStep ==
    ASSUME AdInv, NEW pair \in AdPairs, Completed(pair)
    PROVE  AdInv'
  <1>1. ASSUME NEW h \in AdHosts PROVE HostRate(h)' \in RateRow /\ RowOk(HostRate(h))'
    <2>1. PICK r \in RateRow : r = HostRate(h)
      BY DEF AdInv
    <2>2. /\ RowOk(r) /\ r.rate = adRate[h] /\ r.tokens = adTokens[h] /\ r.denied = adDenied[h] /\ r.done = adDone[h]
          /\ r.healthy = adHealthy[h] /\ r.congested = adCongested[h]
      BY <2>1 DEF AdInv, HostRate
    <2>3. PICK done : done = adDone'[h]
      OBVIOUS
    <2>4. r.done \subseteq Nat
      BY DEF RateRow
    <2>5. done \subseteq Nat
      BY <2>2, <2>3, <2>4 DEF Completed
    <2>6. PICK q : q = [r EXCEPT !.done = done]
      OBVIOUS
    <2>7. /\ q \in RateRow /\ q.rate = r.rate /\ q.tokens = r.tokens /\ q.denied = r.denied /\ q.congested = r.congested
          /\ q.done = done /\ q.healthy = r.healthy
      BY <2>5, <2>6 DEF RateRow
    <2>8. RowOk(q) /\ RowBecomes(h, q)
      BY <2>2, <2>3, <2>7 DEF RowOk, Completed, RowBecomes
    <2>. QED BY <2>7, <2>8, RowAfter
  <1>2. adRefilled' \in [AdHosts -> Nat]
    BY DEF Completed, AdInv
  <1>. QED BY <1>1, <1>2 DEF AdInv

LEMMA AdmissionStart == AdmissionInit => AdInv
  <1> SUFFICES ASSUME AdmissionInit PROVE AdInv
    OBVIOUS
  <1>1. Long \in Nat /\ BUCKET_BURST \in Nat
    BY AdAssumption DEF Long
  <1>2. ASSUME NEW h \in AdHosts PROVE HostRate(h) \in RateRow /\ RowOk(HostRate(h))
    <2>1. PICK r : r = [rate |-> NoRate, tokens |-> 0, denied |-> Long, done |-> {}, healthy |-> 0, congested |-> Long]
      OBVIOUS
    <2>2. HostRate(h) = r
      BY <2>1 DEF AdmissionInit, HostRate
    <2>3. r \in RateRow /\ r.rate = NoRate /\ r.tokens = 0 /\ r.denied = Long /\ r.congested = Long
      BY <1>1, <2>1 DEF RateRow, NoRate
    <2>4. RowOk(r)
      BY <1>1, <2>3 DEF RowOk
    <2>. QED BY <2>2, <2>3, <2>4
  <1>. QED BY <1>2 DEF AdInv, AdmissionInit

LEMMA AdmissionStep == AdInv /\ [AdmissionNext]_adVars => AdInv'
  <1> SUFFICES ASSUME AdInv, [AdmissionNext]_adVars PROVE AdInv'
    OBVIOUS
  <1>1. CASE UNCHANGED <<adRate, adTokens, adRefilled, adDenied, adDone, adHealthy, adCongested>>
    BY <1>1 DEF AdInv, HostRate, RowOk
  <1>2. CASE Second
    BY <1>2, SecondStep
  <1>3. ASSUME NEW s \in AdSources, NEW trend, NewWindow(s, trend) PROVE AdInv'
    BY <1>1, <1>3 DEF NewWindow
  <1>4. ASSUME NEW pair \in AdPairs, AllowDedicated(pair) \/ Completed(pair) PROVE AdInv'
    BY <1>4, DedicatedStep, CompletedStep
  <1>5. CASE UNCHANGED adVars
    BY <1>1, <1>5 DEF adVars
  <1>. QED BY <1>2, <1>3, <1>4, <1>5 DEF AdmissionNext

LEMMA EndsLate ==
    ASSUME AdInv, AdmissionNext, NEW h \in AdHosts, adRate[h] # NoRate, adRate'[h] = NoRate
    PROVE  adCongested'[h] >= RECOVERY_QUIET /\ \E a \in adDone'[h] : a >= RECOVERY_QUIET
  <1>1. CASE Second
    BY <1>1 DEF Second
  <1>2. ASSUME NEW s \in AdSources, NEW trend, NewWindow(s, trend) PROVE FALSE
    BY <1>2 DEF NewWindow
  <1>3. ASSUME NEW pair \in AdPairs, Completed(pair) PROVE FALSE
    BY <1>3 DEF Completed
  <1>4. ASSUME NEW pair \in AdPairs, AllowDedicated(pair)
        PROVE  adCongested'[h] >= RECOVERY_QUIET /\ \E a \in adDone'[h] : a >= RECOVERY_QUIET
    <2>1. PICK rs : /\ \A x \in {pair[1], pair[2]} : x \in AdHosts /\ RowJudged(refill(x, HostRate(x)), rs[x])
                    /\ \/ \A x \in {pair[1], pair[2]} : HasToken(rs[x]) /\ RowBecomes(x, Spend(rs[x]))
                       \/ \A x \in {pair[1], pair[2]} : RowBecomes(x, Refuse(rs[x]))
      BY <1>4, DedicatedRows
    <2>2. h \in {pair[1], pair[2]}
      <3>1. ASSUME h \notin {pair[1], pair[2]} PROVE FALSE
        <4>1. RowBecomes(h, HostRate(h))
          BY <1>4, <3>1, DedicatedRows
        <4>. QED BY <4>1 DEF RowBecomes, HostRate
      <3>. QED BY <3>1
    <2>3. rs[h] \in RateRow /\ RowOk(rs[h]) /\ RowJudged(refill(h, HostRate(h)), rs[h]) /\ refill(h, HostRate(h)).rate # NoRate
      BY <2>1, <2>2, RefillOk DEF RowJudged
    <2>4. rs[h].rate = NoRate
      BY <2>1, <2>2, <2>3, ChargeOk DEF RowBecomes
    <2>5. RowBecomes(h, rs[h])
      BY <2>1, <2>2, <2>3, <2>4, ChargeOk
    <2>. QED BY <2>3, <2>4, <2>5 DEF RowJudged, RowBecomes
  <1>. QED BY <1>1, <1>2, <1>3, <1>4 DEF AdmissionNext

LEMMA BothOrNone ==
    ASSUME AdInv, NEW pair \in AdPairs, AllowDedicated(pair),
           \A h \in {pair[1], pair[2]} : adRate[h] # NoRate /\ adRate'[h] = adRate[h],
           \E h \in {pair[1], pair[2]} : adTokens'[h] # Level(h)
    PROVE  \A h \in {pair[1], pair[2]} : adTokens'[h] = Level(h) - 1
  <1>1. PICK rs : /\ \A x \in {pair[1], pair[2]} : x \in AdHosts /\ RowJudged(refill(x, HostRate(x)), rs[x])
                  /\ \/ \A x \in {pair[1], pair[2]} : HasToken(rs[x]) /\ RowBecomes(x, Spend(rs[x]))
                     \/ \A x \in {pair[1], pair[2]} : RowBecomes(x, Refuse(rs[x]))
    BY DedicatedRows
  <1>2. ASSUME NEW h \in {pair[1], pair[2]}
        PROVE  rs[h] \in RateRow /\ RowOk(rs[h]) /\ rs[h].rate = adRate[h] /\ rs[h].rate # NoRate /\ rs[h].tokens = Level(h)
    <2>1. PICK r : r = refill(h, HostRate(h))
      OBVIOUS
    <2>2. /\ h \in AdHosts /\ RowJudged(r, rs[h]) /\ r.rate = adRate[h] /\ r.tokens = Level(h) /\ adRate[h] # NoRate
          /\ adRate[h] = 0 => Level(h) = 0
      BY <1>1, <2>1, RefillOk
    <2>3. rs[h] \in RateRow /\ RowOk(rs[h])
      BY <2>2 DEF RowJudged
    <2>4. rs[h].rate = adRate[h]
      BY <1>1, <2>3, ChargeOk DEF RowBecomes
    <2>5. rs[h].tokens = Level(h)
      BY <2>2, <2>4 DEF RowJudged
    <2>. QED BY <2>2, <2>3, <2>4, <2>5
  <1>3. CASE \A x \in {pair[1], pair[2]} : HasToken(rs[x]) /\ RowBecomes(x, Spend(rs[x]))
    <2>1. ASSUME NEW h \in {pair[1], pair[2]} PROVE adTokens'[h] = Level(h) - 1
      BY <1>2, <1>3, ChargeOk DEF RowBecomes
    <2>. QED BY <2>1
  <1>4. CASE \A x \in {pair[1], pair[2]} : RowBecomes(x, Refuse(rs[x]))
    <2>1. ASSUME NEW h \in {pair[1], pair[2]} PROVE adTokens'[h] = Level(h)
      BY <1>2, <1>4, ChargeOk DEF RowBecomes
    <2>. QED BY <2>1
  <1>. QED BY <1>1, <1>3, <1>4

\* A request is charged to both of its hosts or to neither, no bucket overflows
\* or is overdrawn and a multiplexing host has no token, and a limit ends no
\* sooner than RECOVERY_QUIET after the last congested window (HostRate,
\* allow_dedicated in congestion.rs): for any hosts, pairs and thresholds.
THEOREM LimitsHoldAlways == AdmissionSpec => LimitsHold
  <1>1. AdInv => BucketSound
    <2> SUFFICES ASSUME AdInv, NEW h \in AdHosts
                 PROVE  adTokens[h] \in 0..BUCKET_BURST /\ (adRate[h] \in {NoRate, 0} => adTokens[h] = 0)
      BY DEF BucketSound
    <2>1. RowOk(HostRate(h)) /\ HostRate(h).rate = adRate[h] /\ HostRate(h).tokens = adTokens[h]
      BY DEF AdInv, HostRate
    <2>. QED BY <2>1 DEF RowOk
  <1>2. AdInv /\ [AdmissionNext]_adVars =>
          [\A h \in AdHosts : adRate[h] # NoRate /\ adRate'[h] = NoRate
               => adCongested'[h] >= RECOVERY_QUIET /\ \E a \in adDone'[h] : a >= RECOVERY_QUIET]_adVars
    BY EndsLate
  <1>3. AdInv /\ [AdmissionNext]_adVars =>
          [\A pair \in AdPairs :
              LET hs == {pair[1], pair[2]}
                  level(h) == AdMin(adTokens[h] + adRefilled[h] * adRate[h], BUCKET_BURST)
              IN  (\A h \in hs : adRate[h] # NoRate /\ adRate'[h] = adRate[h])
                     /\ (\E h \in hs : adTokens'[h] # level(h)) /\ AllowDedicated(pair)
                  => \A h \in hs : adTokens'[h] = level(h) - 1]_adVars
    BY BothOrNone DEF Level
  <1>. QED BY <1>1, <1>2, <1>3, AdmissionStart, AdmissionStep, PTL
           DEF AdmissionSpec, LimitsHold, NoEarlyRecovery, ChargedTogether
=============================================================================
