-------------------------- MODULE ServerMaps_proof --------------------------
(***************************************************************************)
(* Theorems about two maps of the server that a database mirrors: the      *)
(* egress edges and their history (EgressEdges), for any initiators,       *)
(* destinations, builds and limits, and the configuration (ServicesConfig),*)
(* for any stacks, hosts, offers and requests; and about the traffic       *)
(* filters (TrafficFilter) and the rules they are made of (FilterRules).   *)
(* They share no state.                                                    *)
(***************************************************************************)
EXTENDS EgressEdges, ServicesConfig, TrafficFilter, FilterRules, FiniteSetTheorems, SequenceTheorems, TLAPS

-----------------------------------------------------------------------------
(* EgressEdges.  Neither NoStrandedNet nor RowsAgree is inductive.  What   *)
(* makes them so is SlotFollowsBuild: a slot of the map belongs to one     *)
(* build, which was started for that initiator, and the build has promoted *)
(* it exactly when it carries a network.  From it no two slots carry the   *)
(* same network (OwnNets), so a removal or a row of one edge never touches *)
(* another.                                                                *)

Slot == [gen : {0} \cup Builds, net : {0} \cup Builds, aged : BOOLEAN,
         idle : BOOLEAN, dests : [Dsts -> {"no", "open", "closed"}]]
TaskRecord == [pc : {"none", "reserved", "built", "persist", "done", "dead"}, key : Keys]
Entry == [key : Keys, dst : Dsts, active : BOOLEAN]
DstAccum == [known : BOOLEAN, active : BOOLEAN, dirty : BOOLEAN]

ServerTypes ==
    /\ edges \in [Keys -> Slot]
    /\ task \in [Builds -> TaskRecord]
    /\ nets \subseteq Builds /\ rows \subseteq Builds \X Dsts

\* An edge holds no more destinations than MAX_DESTS_PER_EDGE.
SeenBounded == \A k \in Keys : IsFiniteSet(Seen(k)) /\ Cardinality(Seen(k)) <= MAX_DESTS_PER_EDGE

\* A reservation is of a build under way, or dead; an edge is of a build that
\* has promoted it, and carries that build's network.
SlotFollowsBuild ==
    \A k \in Keys :
        /\ edges[k].gen = 0 => edges[k] = NoEdge
        /\ edges[k].gen # 0 =>
             /\ task[edges[k].gen].key = k
             /\ edges[k].net = 0 => task[edges[k].gen].pc \in {"reserved", "built", "dead"}
             /\ edges[k].net # 0 => edges[k].net = edges[k].gen /\ task[edges[k].gen].pc \in {"persist", "done"}

ServerInv ==
    /\ ServerTypes /\ SeenBounded /\ SlotFollowsBuild
    /\ NoStrandedNet /\ RowsOfLiveEdges /\ RowsComplete

ClientInv ==
    /\ acc \in [Keys -> [Dsts -> DstAccum]]
    /\ batch \subseteq Entry
    /\ IsFiniteSet(Known) /\ Cardinality(Known) <= MAX_PENDING_DSTS

-----------------------------------------------------------------------------
(* The slots *)

\* One slot of the map is written.
Writes(k, r) == edges' = [edges EXCEPT ![k] = r]

\* The initiator's builds are through with persist_edge_destinations.
Settled(k) == \A b \in Builds : ~(task[b].pc = "persist" /\ task[b].key = k)

\* The history says of k's network what the map says.
RowsMatch(k) ==
    \A d \in Dsts : /\ edges[k].dests[d] = "open" => <<edges[k].net, d>> \in rows
                    /\ edges[k].dests[d] = "closed" => <<edges[k].net, d>> \notin rows

LEMMA CompleteByKey == RowsComplete <=> \A k \in Keys : Live(k) /\ Settled(k) => RowsMatch(k)
  BY DEF RowsComplete, Settled, RowsMatch

\* Two different edges of the map carry two different networks.
LEMMA OwnNets ==
    ASSUME ServerTypes, SlotFollowsBuild, NEW k \in Keys, NEW q \in Keys,
           edges[k].net = edges[q].net, edges[k].net # 0
    PROVE  k = q
  <1>1. edges[k].gen # 0 /\ edges[q].gen # 0
    BY DEF SlotFollowsBuild, NoEdge
  <1>2. edges[k].net = edges[k].gen /\ edges[q].net = edges[q].gen
    BY <1>1 DEF SlotFollowsBuild
  <1>3. task[edges[k].gen].key = k /\ task[edges[q].gen].key = q
    BY <1>1 DEF SlotFollowsBuild
  <1>. QED BY <1>2, <1>3

LEMMA Written ==
    ASSUME ServerTypes, NEW k \in Keys, NEW r \in Slot, Writes(k, r)
    PROVE  /\ edges' \in [Keys -> Slot]
           /\ edges'[k] = r
           /\ \A q \in Keys : q # k => edges'[q] = edges[q]
  BY DEF ServerTypes, Writes

\* The bound of the slots that are not written stays, and an empty slot has it.
LEMMA BoundKept ==
    ASSUME SeenBounded, NEW k \in Keys,
           \A q \in Keys : q # k => edges'[q] = edges[q],
           edges'[k].dests = edges[k].dests \/ \A d \in Dsts : edges'[k].dests[d] = "no"
    PROVE  SeenBounded'
  <1> SUFFICES ASSUME NEW q \in Keys
               PROVE  IsFiniteSet(Seen(q)') /\ Cardinality(Seen(q)') <= MAX_DESTS_PER_EDGE
    BY DEF SeenBounded
  <1>1. CASE Seen(q)' = Seen(q)
    BY <1>1 DEF SeenBounded
  <1>2. CASE Seen(q)' = {}
    <2>1. IsFiniteSet(Seen(q)') /\ Cardinality(Seen(q)') = 0
      BY <1>2, FS_EmptySet
    <2>. QED BY <2>1, EgressAssumption
  <1>3. Seen(q)' = Seen(q) \/ Seen(q)' = {}
    BY DEF Seen
  <1>. QED BY <1>1, <1>2, <1>3

LEMMA NoEdgeFields ==
    /\ NoEdge \in Slot /\ NoEdge.gen = 0 /\ NoEdge.net = 0
    /\ \A d \in Dsts : NoEdge.dests[d] = "no"
  BY DEF NoEdge, Slot

LEMMA ReservationFields ==
    ASSUME NEW b \in Builds
    PROVE  /\ Reservation(b) \in Slot /\ Reservation(b).gen = b /\ Reservation(b).net = 0
           /\ \A d \in Dsts : Reservation(b).dests[d] = "no"
  BY DEF Reservation, NoEdge, Slot

\* What setting one field of a slot leaves of the others.
LEMMA SlotFields ==
    ASSUME NEW s \in Slot
    PROVE  /\ s.gen \in {0} \cup Builds /\ s.net \in {0} \cup Builds
           /\ \A v \in BOOLEAN : /\ [s EXCEPT !.aged = v] \in Slot
                                 /\ [s EXCEPT !.aged = v].gen = s.gen
                                 /\ [s EXCEPT !.aged = v].net = s.net
                                 /\ [s EXCEPT !.aged = v].dests = s.dests
           /\ \A v \in BOOLEAN : /\ [s EXCEPT !.idle = v] \in Slot
                                 /\ [s EXCEPT !.idle = v].gen = s.gen
                                 /\ [s EXCEPT !.idle = v].net = s.net
                                 /\ [s EXCEPT !.idle = v].dests = s.dests
  BY DEF Slot

LEMMA SlotNet ==
    ASSUME NEW s \in Slot, NEW b \in Builds
    PROVE  /\ [s EXCEPT !.net = b] \in Slot
           /\ [s EXCEPT !.net = b].gen = s.gen
           /\ [s EXCEPT !.net = b].net = b
           /\ [s EXCEPT !.net = b].dests = s.dests
  BY DEF Slot

LEMMA SlotDests ==
    ASSUME NEW s \in Slot, NEW f \in [Dsts -> {"no", "open", "closed"}]
    PROVE  /\ [s EXCEPT !.dests = f] \in Slot
           /\ [s EXCEPT !.dests = f].gen = s.gen
           /\ [s EXCEPT !.dests = f].net = s.net
           /\ [s EXCEPT !.dests = f].dests = f
  BY DEF Slot

\* A build moves on.
MovesTo(b, p) == task' = [task EXCEPT ![b].pc = p]

LEMMA Moved ==
    ASSUME ServerTypes, NEW b \in Builds,
           NEW p \in {"none", "reserved", "built", "persist", "done", "dead"}, MovesTo(b, p)
    PROVE  /\ task' \in [Builds -> TaskRecord]
           /\ task'[b].pc = p /\ task'[b].key = task[b].key /\ task[b].key \in Keys
           /\ \A c \in Builds : c # b => task'[c] = task[c]
  BY DEF ServerTypes, MovesTo, TaskRecord

\* Only a slot that carries no network is empty or reserved.
LEMMA Unpromoted ==
    ASSUME NEW k \in Keys, ServerTypes, SlotFollowsBuild, ~Present(k) \/ Reserved(k)
    PROVE  edges[k].net = 0
  BY DEF Present, Reserved, Live, NoEdge

LEMMA PresentHasBuild ==
    ASSUME NEW k \in Keys, ServerTypes, SlotFollowsBuild
    PROVE  /\ Present(k) => edges[k].gen \in Builds
           /\ edges[k].net # 0 => Present(k) /\ edges[k].gen \in Builds /\ edges[k].net = edges[k].gen
  BY NoEdgeFields DEF ServerTypes, SlotFollowsBuild, Present, Slot

-----------------------------------------------------------------------------
(* The steps of the server *)

\* A step that writes one slot, leaving its build, network and destinations,
\* and touches nothing else.
LEMMA FlagStep ==
    ASSUME ServerInv, NEW k \in Keys, Present(k), NEW r \in Slot, Writes(k, r),
           r.gen = edges[k].gen, r.net = edges[k].net, r.dests = edges[k].dests,
           UNCHANGED <<task, nets, rows>>
    PROVE  ServerInv'
  <1>1. ServerTypes /\ SlotFollowsBuild /\ SeenBounded
    BY DEF ServerInv
  <1>2. /\ edges' \in [Keys -> Slot]
        /\ \A q \in Keys : q # k => edges'[q] = edges[q]
        /\ edges'[k] = r
    BY <1>1, Written
  <1>3. \A q \in Keys : /\ edges'[q].gen = edges[q].gen /\ edges'[q].net = edges[q].net
                        /\ edges'[q].dests = edges[q].dests
    BY <1>2
  <1>4. ServerTypes'
    BY <1>1, <1>2 DEF ServerTypes
  <1>5. SeenBounded'
    BY <1>1, <1>2, <1>3, BoundKept
  <1>6. SlotFollowsBuild'
    <2>1. edges[k].gen # 0
      BY <1>1 DEF SlotFollowsBuild, Present
    <2>2. \A q \in Keys : edges'[q].gen = 0 => edges'[q] = NoEdge
      BY <1>1, <1>2, <1>3, <2>1 DEF SlotFollowsBuild
    <2>. QED BY <1>1, <1>3, <2>2 DEF SlotFollowsBuild
  <1>7. NoStrandedNet' /\ RowsOfLiveEdges'
    BY <1>3 DEF ServerInv, NoStrandedNet, RowsOfLiveEdges
  <1>8. RowsComplete'
    BY <1>3 DEF ServerInv, RowsComplete, Live
  <1>. QED BY <1>4, <1>5, <1>6, <1>7, <1>8 DEF ServerInv

LEMMA AgeStep ==
    ASSUME ServerInv, NEW k \in Keys, Age(k)
    PROVE  ServerInv'
  <1>1. edges[k] \in Slot /\ ServerTypes
    BY DEF ServerInv, ServerTypes
  <1>2. Writes(k, [edges[k] EXCEPT !.aged = TRUE]) /\ Present(k) /\ UNCHANGED <<task, nets, rows>>
    BY <1>1 DEF Age, Writes, Reserved, ServerTypes
  <1> DEFINE r == [edges[k] EXCEPT !.aged = TRUE]
  <1>3. r \in Slot /\ r.gen = edges[k].gen /\ r.net = edges[k].net /\ r.dests = edges[k].dests
    BY <1>1, SlotFields
  <1>4. Writes(k, r)
    BY <1>2
  <1> HIDE DEF r
  <1>. QED BY <1>2, <1>3, <1>4, FlagStep

LEMMA SetLivenessStep ==
    ASSUME ServerInv, NEW k \in Keys, NEW active \in BOOLEAN, SetLiveness(k, active)
    PROVE  ServerInv'
  <1>1. edges[k] \in Slot /\ ServerTypes
    BY DEF ServerInv, ServerTypes
  <1> DEFINE r == [edges[k] EXCEPT !.idle = ~active]
  <1>2. Writes(k, r) /\ Present(k) /\ UNCHANGED <<task, nets, rows>>
    BY <1>1 DEF SetLiveness, Writes, ServerTypes
  <1>3. r \in Slot /\ r.gen = edges[k].gen /\ r.net = edges[k].net /\ r.dests = edges[k].dests
    BY <1>1, SlotFields
  <1> HIDE DEF r
  <1>. QED BY <1>2, <1>3, FlagStep

\* ensure_egress_edge reserves: the slot was empty, or a stale reservation.
LEMMA TriggerStep ==
    ASSUME ServerInv, NEW b \in Builds, NEW k \in Keys, Trigger(b, k)
    PROVE  ServerInv'
  <1>1. ServerTypes /\ SlotFollowsBuild /\ SeenBounded
    BY DEF ServerInv
  <1>2. Writes(k, Reservation(b)) /\ UNCHANGED <<nets, rows>>
    BY DEF Trigger, Writes
  <1> DEFINE r == Reservation(b)
  <1>3. r \in Slot /\ r.gen = b /\ r.net = 0 /\ \A d \in Dsts : r.dests[d] = "no"
    BY ReservationFields
  <1>4. Writes(k, r)
    BY <1>2
  <1> HIDE DEF r
  <1>5. /\ edges' \in [Keys -> Slot] /\ edges'[k] = r
        /\ \A q \in Keys : q # k => edges'[q] = edges[q]
    BY <1>1, <1>3, <1>4, Written
  <1>6. /\ task' \in [Builds -> TaskRecord]
        /\ task'[b].pc = "reserved" /\ task'[b].key = k
        /\ \A c \in Builds : c # b => task'[c] = task[c]
    BY <1>1 DEF Trigger, ServerTypes, TaskRecord
  <1>7. /\ task[b].pc \in {"none", "done"} /\ b \notin nets
        /\ \A q \in Keys : edges[q].gen # b
    BY DEF Trigger, Unused
  <1>8. edges[k].net = 0
    BY <1>1, Unpromoted DEF Trigger
  <1>9. ServerTypes'
    BY <1>1, <1>2, <1>5, <1>6 DEF ServerTypes
  <1>10. SeenBounded'
    BY <1>1, <1>3, <1>5, BoundKept
  <1>11. b # 0
    BY EgressAssumption
  <1>12. SlotFollowsBuild'
    <2> SUFFICES ASSUME NEW q \in Keys
                 PROVE  /\ edges'[q].gen = 0 => edges'[q] = NoEdge
                        /\ edges'[q].gen # 0 =>
                             /\ task'[edges'[q].gen].key = q
                             /\ edges'[q].net = 0 => task'[edges'[q].gen].pc \in {"reserved", "built", "dead"}
                             /\ edges'[q].net # 0 => /\ edges'[q].net = edges'[q].gen
                                                     /\ task'[edges'[q].gen].pc \in {"persist", "done"}
      BY DEF SlotFollowsBuild
    <2>1. CASE q = k
      BY <1>3, <1>5, <1>6, <1>11, <2>1
    <2>2. CASE q # k
      <3>1. edges'[q] = edges[q] /\ edges[q].gen # b
        BY <1>5, <1>7, <2>2
      <3>2. edges[q].gen # 0 => task'[edges[q].gen] = task[edges[q].gen]
        BY <1>1, <1>6, <3>1 DEF ServerTypes, Slot
      <3>. QED BY <1>1, <3>1, <3>2 DEF SlotFollowsBuild
    <2>. QED BY <2>1, <2>2
  <1>13. NoStrandedNet'
    <2> SUFFICES ASSUME NEW n \in nets'
                 PROVE  task'[n].pc \in {"built", "dead"} \/ \E q \in Keys : edges'[q].net = n
      BY DEF NoStrandedNet
    <2>1. n \in nets /\ n \in Builds /\ n # b /\ n # 0
      BY <1>1, <1>2, <1>7, EgressAssumption DEF ServerTypes
    <2>2. CASE task[n].pc \in {"built", "dead"}
      BY <1>6, <2>1, <2>2
    <2>3. CASE \E q \in Keys : edges[q].net = n
      BY <1>5, <1>8, <2>1, <2>3
    <2>. QED BY <2>1, <2>2, <2>3 DEF ServerInv, NoStrandedNet
  <1>14. RowsOfLiveEdges'
    <2> SUFFICES ASSUME NEW w \in rows' PROVE \E q \in Keys : edges'[q].net = w[1]
      BY DEF RowsOfLiveEdges
    <2>1. w \in rows /\ w[1] # 0
      BY <1>1, <1>2, EgressAssumption DEF ServerTypes
    <2>2. PICK q \in Keys : edges[q].net = w[1]
      BY <2>1 DEF ServerInv, RowsOfLiveEdges
    <2>. QED BY <1>5, <1>8, <2>1, <2>2
  <1>15. RowsComplete'
    <2> SUFFICES ASSUME NEW q \in Keys, Live(q)', Settled(q)' PROVE RowsMatch(q)'
      BY DEF RowsComplete, Settled, RowsMatch
    <2>1. q # k /\ edges'[q] = edges[q]
      BY <1>3, <1>5 DEF Live
    <2>2. Live(q) /\ Settled(q)
      BY <1>6, <1>7, <2>1 DEF Live, Settled
    <2>3. RowsMatch(q)
      BY <2>2, CompleteByKey DEF ServerInv
    <2>. QED BY <1>2, <2>1, <2>3 DEF RowsMatch
  <1>. QED BY <1>9, <1>10, <1>12, <1>13, <1>14, <1>15 DEF ServerInv

\* What a build may change of itself without any slot changing: it moves within
\* the states its slot allows, and no build starts or ends its persist.
LEMMA BuildMovesStep ==
    ASSUME ServerInv, NEW b \in Builds, UNCHANGED <<edges, rows>>,
           task[b].pc \in {"reserved", "built"},
           NEW p \in {"built", "dead"}, MovesTo(b, p), nets' = nets \/ (nets' = nets \cup {b} /\ p = "built")
    PROVE  ServerInv'
  <1>1. ServerTypes /\ SlotFollowsBuild /\ SeenBounded
    BY DEF ServerInv
  <1>2. /\ task' \in [Builds -> TaskRecord]
        /\ task'[b].pc = p /\ task'[b].key = task[b].key
        /\ \A c \in Builds : c # b => task'[c] = task[c]
    BY <1>1, Moved
  <1>3. ServerTypes'
    BY <1>1, <1>2 DEF ServerTypes
  <1>4. SeenBounded'
    BY <1>1 DEF SeenBounded, Seen
  <1>5. SlotFollowsBuild'
    <2> SUFFICES ASSUME NEW q \in Keys, edges[q].gen # 0
                 PROVE  /\ task'[edges[q].gen].key = q
                        /\ edges[q].net = 0 => task'[edges[q].gen].pc \in {"reserved", "built", "dead"}
                        /\ edges[q].net # 0 => /\ edges[q].net = edges[q].gen
                                               /\ task'[edges[q].gen].pc \in {"persist", "done"}
      BY <1>1 DEF SlotFollowsBuild
    <2>1. edges[q].gen \in Builds
      BY <1>1 DEF ServerTypes, Slot
    <2>2. /\ task[edges[q].gen].key = q
          /\ edges[q].net = 0 => task[edges[q].gen].pc \in {"reserved", "built", "dead"}
          /\ edges[q].net # 0 => edges[q].net = edges[q].gen /\ task[edges[q].gen].pc \in {"persist", "done"}
      BY <1>1 DEF SlotFollowsBuild
    <2>3. CASE edges[q].gen = b
      BY <1>2, <2>2, <2>3
    <2>4. CASE edges[q].gen # b
      BY <1>2, <2>1, <2>2, <2>4
    <2>. QED BY <2>3, <2>4
  <1>6. NoStrandedNet'
    <2> SUFFICES ASSUME NEW n \in nets'
                 PROVE  task'[n].pc \in {"built", "dead"} \/ \E q \in Keys : edges[q].net = n
      BY DEF NoStrandedNet
    <2>1. CASE n = b
      BY <1>2, <2>1
    <2>2. CASE n # b
      <3>1. n \in nets /\ n \in Builds
        BY <1>1, <2>2 DEF ServerTypes
      <3>2. task'[n] = task[n]
        BY <1>2, <2>2, <3>1
      <3>. QED BY <3>1, <3>2 DEF ServerInv, NoStrandedNet
    <2>. QED BY <2>1, <2>2
  <1>7. RowsOfLiveEdges'
    BY DEF ServerInv, RowsOfLiveEdges
  <1>8. RowsComplete'
    <2> SUFFICES ASSUME NEW q \in Keys, Live(q)', Settled(q)' PROVE RowsMatch(q)'
      BY DEF RowsComplete, Settled, RowsMatch
    <2>1. Live(q)
      BY DEF Live
    <2>2. Settled(q)
      BY <1>2 DEF Settled
    <2>3. RowsMatch(q)
      BY <2>1, <2>2, CompleteByKey DEF ServerInv
    <2>. QED BY <2>3 DEF RowsMatch
  <1>. QED BY <1>3, <1>4, <1>5, <1>6, <1>7, <1>8 DEF ServerInv

LEMMA NetworkUpStep ==
    ASSUME ServerInv, NEW b \in Builds, NetworkUp(b)
    PROVE  ServerInv'
  <1>1. /\ task[b].pc \in {"reserved", "built"} /\ MovesTo(b, "built") /\ UNCHANGED <<edges, rows>>
        /\ nets' = nets \cup {b}
    BY DEF NetworkUp, MovesTo
  <1>. QED BY <1>1, BuildMovesStep

LEMMA TaskDiesStep ==
    ASSUME ServerInv, NEW b \in Builds, TaskDies(b)
    PROVE  ServerInv'
  <1>1. /\ task[b].pc \in {"reserved", "built"} /\ MovesTo(b, "dead") /\ UNCHANGED <<edges, rows>>
        /\ nets' = nets
    BY DEF TaskDies, MovesTo
  <1>. QED BY <1>1, BuildMovesStep

\* A build ends with nothing to show: its network, if it had one, is gone, and
\* so is its slot where it still had it.
LEMMA BuildGivesUpStep ==
    ASSUME ServerInv, NEW b \in Builds, MovesTo(b, "done"), task[b].pc \in {"reserved", "built"},
           b \notin nets', nets' \subseteq nets, nets \subseteq nets' \cup {b}, rows' = rows,
           IF Mine(b) THEN Writes(task[b].key, NoEdge) ELSE edges' = edges
    PROVE  ServerInv'
  <1>1. ServerTypes /\ SlotFollowsBuild /\ SeenBounded
    BY DEF ServerInv
  <1> DEFINE k == task[b].key
  <1>2. /\ task' \in [Builds -> TaskRecord] /\ k \in Keys
        /\ task'[b].pc = "done" /\ task'[b].key = k
        /\ \A c \in Builds : c # b => task'[c] = task[c]
    BY <1>1, Moved
  <1>3. Mine(b) <=> edges[k].gen = b
    BY DEF Mine
  <1>4. b # 0
    BY EgressAssumption
  <1>5. edges[k].gen = b => edges[k].net = 0
    BY <1>1, <1>2, <1>4 DEF SlotFollowsBuild
  <1>6. \A q \in Keys : edges[q].gen = b => q = k
    BY <1>1, <1>2, <1>4 DEF SlotFollowsBuild
  <1>7. /\ edges' \in [Keys -> Slot]
        /\ edges[k].gen = b => edges'[k] = NoEdge
        /\ \A q \in Keys : edges[q].gen # b => edges'[q] = edges[q]
    <2>1. CASE Mine(b)
      <3>1. Writes(k, NoEdge)
        BY <2>1
      <3>2. /\ edges' \in [Keys -> Slot] /\ edges'[k] = NoEdge
            /\ \A q \in Keys : q # k => edges'[q] = edges[q]
        BY <1>1, <1>2, <3>1, NoEdgeFields, Written
      <3>. QED BY <1>3, <2>1, <3>2
    <2>2. CASE ~Mine(b)
      BY <1>1, <1>3, <2>2 DEF ServerTypes
    <2>. QED BY <2>1, <2>2
  <1> HIDE DEF k
  <1>8. \A q \in Keys : edges'[q].net = edges[q].net
    <2> SUFFICES ASSUME NEW q \in Keys PROVE edges'[q].net = edges[q].net
      OBVIOUS
    <2>1. CASE edges[q].gen = b
      BY <1>5, <1>6, <1>7, <2>1, NoEdgeFields
    <2>2. CASE edges[q].gen # b
      BY <1>7, <2>2
    <2>. QED BY <2>1, <2>2
  <1>9. ServerTypes'
    BY <1>1, <1>2, <1>7 DEF ServerTypes
  <1>10. SeenBounded'
    <2>1. CASE edges[k].gen = b
      <3>1. \A q \in Keys : q # k => edges'[q] = edges[q]
        BY <1>6, <1>7
      <3>2. \A d \in Dsts : edges'[k].dests[d] = "no"
        BY <1>7, <2>1, NoEdgeFields
      <3>. QED BY <1>1, <1>2, <3>1, <3>2, BoundKept
    <2>2. CASE edges[k].gen # b
      <3>1. \A q \in Keys : edges'[q] = edges[q]
        BY <1>6, <1>7, <2>2
      <3>. QED BY <1>1, <1>2, <3>1, BoundKept
    <2>. QED BY <2>1, <2>2
  <1>11. SlotFollowsBuild'
    <2> SUFFICES ASSUME NEW q \in Keys
                 PROVE  /\ edges'[q].gen = 0 => edges'[q] = NoEdge
                        /\ edges'[q].gen # 0 =>
                             /\ task'[edges'[q].gen].key = q
                             /\ edges'[q].net = 0 => task'[edges'[q].gen].pc \in {"reserved", "built", "dead"}
                             /\ edges'[q].net # 0 => /\ edges'[q].net = edges'[q].gen
                                                     /\ task'[edges'[q].gen].pc \in {"persist", "done"}
      BY DEF SlotFollowsBuild
    <2>1. CASE edges[q].gen = b
      BY <1>6, <1>7, <2>1, NoEdgeFields
    <2>2. CASE edges[q].gen # b
      <3>1. edges'[q] = edges[q]
        BY <1>7, <2>2
      <3>2. edges[q].gen # 0 => task'[edges[q].gen] = task[edges[q].gen]
        BY <1>1, <1>2, <2>2 DEF ServerTypes, Slot
      <3>. QED BY <1>1, <3>1, <3>2 DEF SlotFollowsBuild
    <2>. QED BY <2>1, <2>2
  <1>12. NoStrandedNet'
    <2> SUFFICES ASSUME NEW n \in nets'
                 PROVE  task'[n].pc \in {"built", "dead"} \/ \E q \in Keys : edges'[q].net = n
      BY DEF NoStrandedNet
    <2>1. n \in nets /\ n # b /\ n \in Builds
      BY <1>1 DEF ServerTypes
    <2>2. task'[n] = task[n]
      BY <1>2, <2>1
    <2>. QED BY <1>8, <2>1, <2>2 DEF ServerInv, NoStrandedNet
  <1>13. RowsOfLiveEdges'
    BY <1>8 DEF ServerInv, RowsOfLiveEdges
  <1>14. RowsComplete'
    <2> SUFFICES ASSUME NEW q \in Keys, Live(q)', Settled(q)' PROVE RowsMatch(q)'
      BY DEF RowsComplete, Settled, RowsMatch
    <2>1. edges'[q] = edges[q]
      BY <1>6, <1>7, NoEdgeFields DEF Live
    <2>2. Live(q) /\ Settled(q)
      BY <1>2, <2>1 DEF Live, Settled
    <2>3. RowsMatch(q)
      BY <2>2, CompleteByKey DEF ServerInv
    <2>. QED BY <2>1, <2>3 DEF RowsMatch
  <1>. QED BY <1>9, <1>10, <1>11, <1>12, <1>13, <1>14 DEF ServerInv

\* The network of a build that has set up nothing does not stand.
LEMMA SetupFailsStep ==
    ASSUME ServerInv, NEW b \in Builds, SetupFails(b)
    PROVE  ServerInv'
  <1>1. task[b].pc = "reserved" /\ MovesTo(b, "done") /\ nets' = nets /\ rows' = rows
    BY DEF SetupFails, MovesTo
  <1>2. b \notin nets
    <2> SUFFICES ASSUME b \in nets PROVE FALSE
      OBVIOUS
    <2>1. PICK k \in Keys : edges[k].net = b
      BY <1>1 DEF ServerInv, NoStrandedNet
    <2>2. b # 0
      BY EgressAssumption
    <2>3. edges[k].gen = b
      BY <2>1, <2>2, PresentHasBuild DEF ServerInv
    <2>. QED BY <1>1, <2>1, <2>2, <2>3 DEF ServerInv, SlotFollowsBuild
  <1>3. IF Mine(b) THEN Writes(task[b].key, NoEdge) ELSE edges' = edges
    BY DEF SetupFails, Writes
  <1>4. b \notin nets' /\ nets' \subseteq nets /\ nets \subseteq nets' \cup {b}
    BY <1>1, <1>2
  <1>. QED BY <1>1, <1>3, <1>4, BuildGivesUpStep

\* The reservation becomes the edge: no row is filed under the network yet, and
\* the destinations reported so far wait for the persist.
LEMMA PromoteMineStep ==
    ASSUME ServerInv, NEW b \in Builds, Promote(b), Mine(b)
    PROVE  ServerInv'
  <1>1. ServerTypes /\ SlotFollowsBuild /\ SeenBounded
    BY DEF ServerInv
  <1> DEFINE k == task[b].key
             r == [edges[k] EXCEPT !.net = b]
  <1>2. task[b].pc = "built" /\ MovesTo(b, "persist") /\ UNCHANGED <<nets, rows>>
    BY DEF Promote, MovesTo
  <1>3. /\ task' \in [Builds -> TaskRecord] /\ k \in Keys
        /\ task'[b].pc = "persist" /\ task'[b].key = k
        /\ \A c \in Builds : c # b => task'[c] = task[c]
    BY <1>1, <1>2, Moved
  <1>4. edges[k] \in Slot /\ Writes(k, r)
    BY <1>1, <1>3 DEF Promote, Writes, ServerTypes
  <1>5. r \in Slot /\ r.gen = edges[k].gen /\ r.net = b /\ r.dests = edges[k].dests
    BY <1>4, SlotNet
  <1>6. edges[k].gen = b /\ b # 0
    BY EgressAssumption DEF Mine
  <1> HIDE DEF r, k
  <1>7. /\ edges' \in [Keys -> Slot] /\ edges'[k] = r
        /\ \A q \in Keys : q # k => edges'[q] = edges[q]
    BY <1>1, <1>3, <1>4, <1>5, Written
  <1>8. edges[k].net = 0
    BY <1>1, <1>2, <1>3, <1>6 DEF SlotFollowsBuild
  <1>9. \A q \in Keys : q # k => edges[q].gen # b
    BY <1>1, <1>3, <1>6, <1>2 DEF SlotFollowsBuild, k
  <1>10. ServerTypes'
    BY <1>1, <1>2, <1>3, <1>7 DEF ServerTypes
  <1>11. SeenBounded'
    BY <1>1, <1>3, <1>5, <1>7, BoundKept
  <1>12. SlotFollowsBuild'
    <2> SUFFICES ASSUME NEW q \in Keys
                 PROVE  /\ edges'[q].gen = 0 => edges'[q] = NoEdge
                        /\ edges'[q].gen # 0 =>
                             /\ task'[edges'[q].gen].key = q
                             /\ edges'[q].net = 0 => task'[edges'[q].gen].pc \in {"reserved", "built", "dead"}
                             /\ edges'[q].net # 0 => /\ edges'[q].net = edges'[q].gen
                                                     /\ task'[edges'[q].gen].pc \in {"persist", "done"}
      BY DEF SlotFollowsBuild
    <2>1. CASE q = k
      BY <1>3, <1>5, <1>6, <1>7, <2>1
    <2>2. CASE q # k
      <3>1. edges'[q] = edges[q] /\ edges[q].gen # b
        BY <1>7, <1>9, <2>2
      <3>2. edges[q].gen # 0 => task'[edges[q].gen] = task[edges[q].gen]
        BY <1>1, <1>3, <3>1 DEF ServerTypes, Slot
      <3>. QED BY <1>1, <3>1, <3>2 DEF SlotFollowsBuild
    <2>. QED BY <2>1, <2>2
  <1>13. NoStrandedNet'
    <2> SUFFICES ASSUME NEW n \in nets'
                 PROVE  task'[n].pc \in {"built", "dead"} \/ \E q \in Keys : edges'[q].net = n
      BY DEF NoStrandedNet
    <2>1. CASE n = b
      BY <1>3, <1>5, <1>7, <2>1
    <2>2. CASE n # b
      <3>1. n \in nets /\ n \in Builds /\ n # 0
        BY <1>1, <1>2, EgressAssumption DEF ServerTypes
      <3>2. task'[n] = task[n]
        BY <1>3, <2>2, <3>1
      <3>3. ASSUME NEW q \in Keys, edges[q].net = n PROVE edges'[q].net = n
        BY <1>7, <1>8, <3>1, <3>3
      <3>. QED BY <3>1, <3>2, <3>3 DEF ServerInv, NoStrandedNet
    <2>. QED BY <2>1, <2>2
  <1>14. RowsOfLiveEdges'
    <2> SUFFICES ASSUME NEW w \in rows' PROVE \E q \in Keys : edges'[q].net = w[1]
      BY DEF RowsOfLiveEdges
    <2>1. w \in rows /\ w[1] # 0
      BY <1>1, <1>2, EgressAssumption DEF ServerTypes
    <2>2. PICK q \in Keys : edges[q].net = w[1]
      BY <2>1 DEF ServerInv, RowsOfLiveEdges
    <2>. QED BY <1>7, <1>8, <2>1, <2>2
  <1>15. RowsComplete'
    <2> SUFFICES ASSUME NEW q \in Keys, Live(q)', Settled(q)' PROVE RowsMatch(q)'
      BY DEF RowsComplete, Settled, RowsMatch
    <2>1. q # k
      BY <1>3 DEF Settled
    <2>2. Live(q) /\ edges'[q] = edges[q]
      BY <1>7, <2>1 DEF Live
    <2>3. Settled(q)
      BY <1>2, <1>3 DEF Settled
    <2>4. RowsMatch(q)
      BY <2>2, <2>3, CompleteByKey DEF ServerInv
    <2>. QED BY <1>2, <2>2, <2>4 DEF RowsMatch
  <1>. QED BY <1>10, <1>11, <1>12, <1>13, <1>14, <1>15 DEF ServerInv

\* Promoted too late: the new network is taken down.
LEMMA PromoteStep ==
    ASSUME ServerInv, NEW b \in Builds, Promote(b)
    PROVE  ServerInv'
  <1>1. CASE Mine(b)
    BY <1>1, PromoteMineStep
  <1>2. CASE ~Mine(b)
    <2>1. /\ MovesTo(b, "done") /\ task[b].pc \in {"reserved", "built"} /\ rows' = rows
          /\ nets' = nets \ {b} /\ edges' = edges
      BY <1>2 DEF Promote, MovesTo
    <2>2. b \notin nets' /\ nets' \subseteq nets /\ nets \subseteq nets' \cup {b}
      BY <2>1
    <2>3. IF Mine(b) THEN Writes(task[b].key, NoEdge) ELSE edges' = edges
      BY <1>2, <2>1
    <2>. QED BY <2>1, <2>2, <2>3, BuildGivesUpStep
  <1>. QED BY <1>1, <1>2

\* persist_edge_destinations files under the network the slot has now, which
\* may be another build's.
LEMMA PersistStep ==
    ASSUME ServerInv, NEW b \in Builds, Persist(b)
    PROVE  ServerInv'
  <1>1. ServerTypes /\ SlotFollowsBuild /\ SeenBounded
    BY DEF ServerInv
  <1> DEFINE k == task[b].key
  <1>2. task[b].pc = "persist" /\ MovesTo(b, "done") /\ UNCHANGED <<edges, nets>>
    BY DEF Persist, MovesTo
  <1>3. /\ task' \in [Builds -> TaskRecord] /\ k \in Keys
        /\ task'[b].pc = "done" /\ task'[b].key = k
        /\ \A c \in Builds : c # b => task'[c] = task[c]
    BY <1>1, <1>2, Moved
  <1>4. /\ edges[k].net = 0 => rows' = rows
        /\ \A n, d : n # edges[k].net => (<<n, d>> \in rows' <=> <<n, d>> \in rows)
        /\ edges[k].net # 0 =>
             \A d \in Dsts : /\ edges[k].dests[d] = "open" => <<edges[k].net, d>> \in rows'
                             /\ edges[k].dests[d] = "closed" => <<edges[k].net, d>> \notin rows'
    <2>1. CASE edges[k].net = 0
      BY <2>1 DEF Persist
    <2>2. CASE edges[k].net # 0
      <3>1. rows' = (rows \cup {<<edges[k].net, d>> : d \in {x \in Dsts : edges[k].dests[x] = "open"}})
                          \ {<<edges[k].net, d>> : d \in {x \in Dsts : edges[k].dests[x] = "closed"}}
        BY <2>2 DEF Persist
      <3>2. \A n, d : n # edges[k].net => (<<n, d>> \in rows' <=> <<n, d>> \in rows)
        BY <3>1
      <3>3. ASSUME NEW d \in Dsts
            PROVE  /\ edges[k].dests[d] = "open" => <<edges[k].net, d>> \in rows'
                   /\ edges[k].dests[d] = "closed" => <<edges[k].net, d>> \notin rows'
        BY <3>1
      <3>. QED BY <2>2, <3>2, <3>3
    <2>. QED BY <2>1, <2>2
  <1>5. /\ rows' \subseteq Builds \X Dsts
        /\ \A w \in rows' : w \in rows \/ (edges[k].net # 0 /\ w[1] = edges[k].net)
    <2>1. edges[k].net \in {0} \cup Builds
      BY <1>1, <1>3, SlotFields DEF ServerTypes
    <2>2. CASE edges[k].net = 0
      BY <1>1, <1>4, <2>2 DEF ServerTypes
    <2>3. CASE edges[k].net # 0
      BY <1>1, <2>1, <2>3 DEF Persist, ServerTypes
    <2>. QED BY <2>2, <2>3
  <1> HIDE DEF k
  <1>6. ServerTypes'
    BY <1>1, <1>2, <1>3, <1>5 DEF ServerTypes
  <1>7. SeenBounded'
    BY <1>1, <1>2 DEF SeenBounded, Seen
  <1>8. SlotFollowsBuild'
    <2> SUFFICES ASSUME NEW q \in Keys, edges[q].gen # 0
                 PROVE  /\ task'[edges[q].gen].key = q
                        /\ edges[q].net = 0 => task'[edges[q].gen].pc \in {"reserved", "built", "dead"}
                        /\ edges[q].net # 0 => /\ edges[q].net = edges[q].gen
                                               /\ task'[edges[q].gen].pc \in {"persist", "done"}
      BY <1>1, <1>2 DEF SlotFollowsBuild
    <2>1. edges[q].gen \in Builds
      BY <1>1 DEF ServerTypes, Slot
    <2>2. /\ task[edges[q].gen].key = q
          /\ edges[q].net = 0 => task[edges[q].gen].pc \in {"reserved", "built", "dead"}
          /\ edges[q].net # 0 => edges[q].net = edges[q].gen /\ task[edges[q].gen].pc \in {"persist", "done"}
      BY <1>1 DEF SlotFollowsBuild
    <2>3. CASE edges[q].gen = b
      BY <1>2, <1>3, <2>2, <2>3 DEF k
    <2>4. CASE edges[q].gen # b
      BY <1>3, <2>1, <2>2, <2>4
    <2>. QED BY <2>3, <2>4
  <1>9. NoStrandedNet'
    <2> SUFFICES ASSUME NEW n \in nets
                 PROVE  task'[n].pc \in {"built", "dead"} \/ \E q \in Keys : edges[q].net = n
      BY <1>2 DEF NoStrandedNet
    <2>1. task[n].pc \in {"built", "dead"} => task'[n].pc \in {"built", "dead"}
      BY <1>1, <1>2, <1>3 DEF ServerTypes
    <2>. QED BY <2>1 DEF ServerInv, NoStrandedNet
  <1>10. RowsOfLiveEdges'
    <2> SUFFICES ASSUME NEW w \in rows' PROVE \E q \in Keys : edges[q].net = w[1]
      BY <1>2 DEF RowsOfLiveEdges
    <2>. QED BY <1>3, <1>5 DEF ServerInv, RowsOfLiveEdges
  <1>11. RowsComplete'
    <2> SUFFICES ASSUME NEW q \in Keys, Live(q)', Settled(q)' PROVE RowsMatch(q)'
      BY DEF RowsComplete, Settled, RowsMatch
    <2>1. edges'[q] = edges[q] /\ edges[q].net # 0
      BY <1>2 DEF Live
    <2>2. CASE q = k
      BY <1>2, <1>4, <2>1, <2>2 DEF RowsMatch
    <2>3. CASE q # k
      <3>1. Settled(q)
        BY <1>3, <2>3 DEF Settled, k
      <3>2. RowsMatch(q)
        BY <2>1, <3>1, CompleteByKey DEF ServerInv, Live
      <3>3. edges[q].net # edges[k].net
        BY <1>1, <1>3, <2>1, <2>3, OwnNets
      <3>. QED BY <1>4, <2>1, <3>2, <3>3 DEF RowsMatch
    <2>. QED BY <2>2, <2>3
  <1>. QED BY <1>6, <1>7, <1>8, <1>9, <1>10, <1>11 DEF ServerInv

\* The edge goes with its rows and its network, and with nobody else's.
LEMMA RemoveEdgeStep ==
    ASSUME ServerInv, NEW k \in Keys, RemoveEdge(k)
    PROVE  ServerInv'
  <1>1. ServerTypes /\ SlotFollowsBuild /\ SeenBounded
    BY DEF ServerInv
  <1>2. /\ Writes(k, NoEdge) /\ task' = task /\ nets' = nets \ {edges[k].net}
        /\ rows' = {r \in rows : r[1] # edges[k].net}
    BY DEF RemoveEdge, Writes
  <1>3. /\ edges' \in [Keys -> Slot] /\ edges'[k] = NoEdge
        /\ \A q \in Keys : q # k => edges'[q] = edges[q]
    BY <1>1, <1>2, NoEdgeFields, Written
  <1>4. ServerTypes'
    BY <1>1, <1>2, <1>3 DEF ServerTypes
  <1>5. SeenBounded'
    BY <1>1, <1>3, NoEdgeFields, BoundKept
  <1>6. SlotFollowsBuild'
    <2> SUFFICES ASSUME NEW q \in Keys
                 PROVE  /\ edges'[q].gen = 0 => edges'[q] = NoEdge
                        /\ edges'[q].gen # 0 =>
                             /\ task'[edges'[q].gen].key = q
                             /\ edges'[q].net = 0 => task'[edges'[q].gen].pc \in {"reserved", "built", "dead"}
                             /\ edges'[q].net # 0 => /\ edges'[q].net = edges'[q].gen
                                                     /\ task'[edges'[q].gen].pc \in {"persist", "done"}
      BY DEF SlotFollowsBuild
    <2>1. CASE q = k
      BY <1>3, <2>1, NoEdgeFields
    <2>2. CASE q # k
      BY <1>1, <1>2, <1>3, <2>2 DEF SlotFollowsBuild
    <2>. QED BY <2>1, <2>2
  <1>7. NoStrandedNet'
    <2> SUFFICES ASSUME NEW n \in nets'
                 PROVE  task'[n].pc \in {"built", "dead"} \/ \E q \in Keys : edges'[q].net = n
      BY DEF NoStrandedNet
    <2>1. n \in nets /\ n # edges[k].net
      BY <1>2
    <2>2. ASSUME NEW q \in Keys, edges[q].net = n PROVE edges'[q].net = n
      BY <1>3, <2>1, <2>2
    <2>. QED BY <1>2, <2>1, <2>2 DEF ServerInv, NoStrandedNet
  <1>8. RowsOfLiveEdges'
    <2> SUFFICES ASSUME NEW w \in rows' PROVE \E q \in Keys : edges'[q].net = w[1]
      BY DEF RowsOfLiveEdges
    <2>1. w \in rows /\ w[1] # edges[k].net
      BY <1>2
    <2>2. PICK q \in Keys : edges[q].net = w[1]
      BY <2>1 DEF ServerInv, RowsOfLiveEdges
    <2>. QED BY <1>3, <2>1, <2>2
  <1>9. RowsComplete'
    <2> SUFFICES ASSUME NEW q \in Keys, Live(q)', Settled(q)' PROVE RowsMatch(q)'
      BY DEF RowsComplete, Settled, RowsMatch
    <2>1. q # k /\ edges'[q] = edges[q] /\ edges[q].net # 0
      BY <1>3, NoEdgeFields DEF Live
    <2>2. RowsMatch(q)
      BY <1>2, <2>1, CompleteByKey DEF ServerInv, Live, Settled
    <2>3. edges[q].net # edges[k].net
      BY <1>1, <2>1, OwnNets
    <2>4. \A d \in Dsts : <<edges[q].net, d>> \in rows' <=> <<edges[q].net, d>> \in rows
      BY <1>2, <2>3
    <2>. QED BY <2>1, <2>2, <2>4 DEF RowsMatch
  <1>. QED BY <1>4, <1>5, <1>6, <1>7, <1>8, <1>9 DEF ServerInv

\* A destination more, and one less when the edge is full: the limit is kept.
LEMMA RoomMade ==
    ASSUME NEW S, NEW T, NEW x, NEW gone, NEW m \in Nat \ {0},
           IsFiniteSet(S), Cardinality(S) <= m,
           IF x \in S \/ Cardinality(S) < m THEN gone = {} ELSE \E y \in S : gone = {y},
           T = (S \ gone) \cup {x}
    PROVE  IsFiniteSet(T) /\ Cardinality(T) <= m
  <1>1. Cardinality(S) \in Nat
    BY FS_CardinalityType
  <1>2. CASE x \in S
    <2>1. T = S
      BY <1>2
    <2>. QED BY <2>1
  <1>3. CASE x \notin S /\ Cardinality(S) < m
    <2>1. T = S \cup {x}
      BY <1>3
    <2>2. IsFiniteSet(T) /\ Cardinality(T) = Cardinality(S) + 1
      BY <1>3, <2>1, FS_AddElement
    <2>. QED BY <1>1, <1>3, <2>2
  <1>4. CASE x \notin S /\ ~(Cardinality(S) < m)
    <2>1. PICK y \in S : gone = {y}
      BY <1>4
    <2>2. IsFiniteSet(S \ {y}) /\ Cardinality(S \ {y}) = Cardinality(S) - 1
      BY FS_RemoveElement
    <2>3. x \notin S \ {y} /\ T = (S \ {y}) \cup {x}
      BY <1>4, <2>1
    <2>4. IsFiniteSet(T) /\ Cardinality(T) = Cardinality(S \ {y}) + 1
      BY <2>2, <2>3, FS_AddElement
    <2>. QED BY <1>1, <2>2, <2>4
  <1>. QED BY <1>2, <1>3, <1>4

\* record_egress_destination on an edge or a reservation: the slot gets the
\* destination, a live edge's row follows.
LEMMA RecordPresent ==
    ASSUME ServerInv, NEW e \in Entry, NEW gone \in Evicted(e.key, e.dst), Present(e.key),
           edges' = [edges EXCEPT ![e.key].dests =
                       [d \in Dsts |-> IF d = e.dst THEN IF e.active THEN "open" ELSE "closed"
                                       ELSE IF d \in gone THEN "no" ELSE @[d]]],
           rows' = IF Live(e.key) THEN Filed(rows, edges[e.key].net, e.dst, e.active) ELSE rows,
           UNCHANGED <<task, nets>>
    PROVE  ServerInv'
  <1>1. ServerTypes /\ SlotFollowsBuild /\ SeenBounded
    BY DEF ServerInv
  <1> DEFINE k == e.key
             f == [d \in Dsts |-> IF d = e.dst THEN IF e.active THEN "open" ELSE "closed"
                                  ELSE IF d \in gone THEN "no" ELSE edges[k].dests[d]]
             r == [edges[k] EXCEPT !.dests = f]
  <1>2. k \in Keys /\ e.dst \in Dsts /\ e.active \in BOOLEAN
    BY DEF Entry
  <1>3. edges[k] \in Slot /\ edges[k].dests \in [Dsts -> {"no", "open", "closed"}]
    BY <1>1, <1>2 DEF ServerTypes, Slot
  <1>4. f \in [Dsts -> {"no", "open", "closed"}]
    BY <1>3
  <1>5. Writes(k, r)
    BY <1>1, <1>2 DEF Writes, ServerTypes
  <1>6. /\ f[e.dst] = IF e.active THEN "open" ELSE "closed"
        /\ \A d \in Dsts : d # e.dst => f[d] = IF d \in gone THEN "no" ELSE edges[k].dests[d]
    BY <1>2
  <1> HIDE DEF f
  <1>7. r \in Slot /\ r.gen = edges[k].gen /\ r.net = edges[k].net /\ r.dests = f
    BY <1>3, <1>4, SlotDests
  <1> HIDE DEF r
  <1>8. /\ edges' \in [Keys -> Slot] /\ edges'[k] = r
        /\ \A q \in Keys : q # k => edges'[q] = edges[q]
    BY <1>1, <1>2, <1>5, <1>7, Written
  <1>9. \A q \in Keys : edges'[q].gen = edges[q].gen /\ edges'[q].net = edges[q].net
    BY <1>7, <1>8
  <1>10. edges[k].net \in {0} \cup Builds /\ (Live(k) <=> edges[k].net # 0)
    BY <1>3, SlotFields DEF Live
  <1>11. /\ rows' \subseteq Builds \X Dsts
         /\ \A n, d : <<n, d>> # <<edges[k].net, e.dst>> => (<<n, d>> \in rows' <=> <<n, d>> \in rows)
         /\ edges[k].net # 0 => (<<edges[k].net, e.dst>> \in rows' <=> e.active)
         /\ \A w \in rows' : w \in rows \/ w[1] = edges[k].net
    <2>1. CASE edges[k].net = 0
      BY <1>1, <1>10, <2>1 DEF ServerTypes
    <2>2. CASE edges[k].net # 0 /\ e.active
      <3>1. rows' = rows \cup {<<edges[k].net, e.dst>>}
        BY <1>10, <2>2 DEF Filed
      <3>2. rows \subseteq Builds \X Dsts /\ edges[k].net \in Builds
        BY <1>1, <1>10, <2>2 DEF ServerTypes
      <3>3. rows' \subseteq Builds \X Dsts /\ \A w \in rows' : w \in rows \/ w[1] = edges[k].net
        BY <1>2, <3>1, <3>2
      <3>4. \A n, d : <<n, d>> # <<edges[k].net, e.dst>> => (<<n, d>> \in rows' <=> <<n, d>> \in rows)
        BY <3>1
      <3>5. <<edges[k].net, e.dst>> \in rows' <=> e.active
        BY <2>2, <3>1
      <3>. QED BY <2>2, <3>3, <3>4, <3>5
    <2>3. CASE edges[k].net # 0 /\ ~e.active
      <3>1. rows' = rows \ {<<edges[k].net, e.dst>>}
        BY <1>10, <2>3 DEF Filed
      <3>2. rows \subseteq Builds \X Dsts /\ edges[k].net \in Builds
        BY <1>1, <1>10, <2>3 DEF ServerTypes
      <3>3. rows' \subseteq Builds \X Dsts /\ \A w \in rows' : w \in rows \/ w[1] = edges[k].net
        BY <1>2, <3>1, <3>2
      <3>4. \A n, d : <<n, d>> # <<edges[k].net, e.dst>> => (<<n, d>> \in rows' <=> <<n, d>> \in rows)
        BY <3>1
      <3>5. <<edges[k].net, e.dst>> \in rows' <=> e.active
        BY <2>3, <3>1
      <3>. QED BY <2>3, <3>3, <3>4, <3>5
    <2>. QED BY <2>1, <2>2, <2>3
  <1>12. ServerTypes'
    BY <1>1, <1>8, <1>11 DEF ServerTypes
  <1>13. SeenBounded'
    <2> SUFFICES ASSUME NEW q \in Keys
                 PROVE  IsFiniteSet(Seen(q)') /\ Cardinality(Seen(q)') <= MAX_DESTS_PER_EDGE
      BY DEF SeenBounded
    <2>1. CASE q # k
      <3>1. Seen(q)' = Seen(q)
        BY <1>8, <2>1 DEF Seen
      <3>. QED BY <1>1, <3>1 DEF SeenBounded
    <2>2. CASE q = k
      <3> DEFINE S == Seen(k)
                 T == Seen(k)'
      <3>1. IsFiniteSet(S) /\ Cardinality(S) <= MAX_DESTS_PER_EDGE
        BY <1>1, <1>2 DEF SeenBounded
      <3>2. IF e.dst \in S \/ Cardinality(S) < MAX_DESTS_PER_EDGE THEN gone = {} ELSE \E y \in S : gone = {y}
        BY DEF Evicted
      <3>3. T = (S \ gone) \cup {e.dst}
        <4>1. T = {d \in Dsts : f[d] # "no"}
          BY <1>7, <1>8 DEF Seen
        <4>2. S = {d \in Dsts : edges[k].dests[d] # "no"}
          BY DEF Seen
        <4>3. f[e.dst] # "no"
          BY <1>2, <1>6
        <4>4. e.dst \notin gone
          BY <3>2
        <4>5. ASSUME NEW d PROVE d \in T <=> d \in (S \ gone) \cup {e.dst}
          <5>1. CASE d = e.dst
            BY <1>2, <4>1, <4>3, <5>1
          <5>2. CASE d # e.dst /\ d \in Dsts
            BY <1>6, <4>1, <4>2, <5>2
          <5>3. CASE d # e.dst /\ d \notin Dsts
            BY <4>1, <4>2, <5>3
          <5>. QED BY <5>1, <5>2, <5>3
        <4> HIDE DEF S, T
        <4>. QED BY <4>5
      <3>4. MAX_DESTS_PER_EDGE \in Nat \ {0}
        BY EgressAssumption
      <3> HIDE DEF S, T
      <3>5. IsFiniteSet(T) /\ Cardinality(T) <= MAX_DESTS_PER_EDGE
        BY <3>1, <3>2, <3>3, <3>4, RoomMade
      <3>. QED BY <2>2, <3>5 DEF T
    <2>. QED BY <2>1, <2>2
  <1>14. SlotFollowsBuild'
    <2>1. edges[k].gen # 0
      BY <1>1, <1>2 DEF SlotFollowsBuild, Present
    <2>2. \A q \in Keys : edges'[q].gen = 0 => edges'[q] = NoEdge
      BY <1>1, <1>8, <1>9, <2>1 DEF SlotFollowsBuild
    <2>. QED BY <1>1, <1>9, <2>2 DEF SlotFollowsBuild
  <1>15. NoStrandedNet'
    BY <1>9 DEF ServerInv, NoStrandedNet
  <1>16. RowsOfLiveEdges'
    <2> SUFFICES ASSUME NEW w \in rows' PROVE \E q \in Keys : edges'[q].net = w[1]
      BY DEF RowsOfLiveEdges
    <2>. QED BY <1>2, <1>9, <1>11 DEF ServerInv, RowsOfLiveEdges
  <1>17. RowsComplete'
    <2> SUFFICES ASSUME NEW q \in Keys, Live(q)', Settled(q)' PROVE RowsMatch(q)'
      BY DEF RowsComplete, Settled, RowsMatch
    <2>1. edges[q].net # 0 /\ Live(q)
      BY <1>9 DEF Live
    <2>2. RowsMatch(q)
      BY <2>1, CompleteByKey DEF ServerInv, Settled
    <2>3. CASE q # k
      <3>1. edges[q].net # edges[k].net /\ edges'[q] = edges[q]
        BY <1>1, <1>2, <1>8, <2>1, <2>3, OwnNets
      <3>2. \A d \in Dsts : <<edges[q].net, d>> \in rows' <=> <<edges[q].net, d>> \in rows
        BY <1>11, <3>1
      <3>. QED BY <2>2, <3>1, <3>2 DEF RowsMatch
    <2>4. CASE q = k
      <3> SUFFICES ASSUME NEW d \in Dsts
                   PROVE  /\ f[d] = "open" => <<edges[k].net, d>> \in rows'
                          /\ f[d] = "closed" => <<edges[k].net, d>> \notin rows'
        BY <1>7, <1>8, <2>4 DEF RowsMatch
      <3>1. CASE d = e.dst
        BY <1>2, <1>6, <1>11, <2>1, <2>4, <3>1
      <3>2. CASE d # e.dst
        <4>1. <<edges[k].net, d>> \in rows' <=> <<edges[k].net, d>> \in rows
          BY <1>11, <3>2
        <4>2. f[d] = "no" \/ f[d] = edges[k].dests[d]
          BY <1>6, <3>2
        <4>. QED BY <2>2, <2>4, <4>1, <4>2 DEF RowsMatch
      <3>. QED BY <3>1, <3>2
    <2>. QED BY <2>3, <2>4
  <1>. QED BY <1>12, <1>13, <1>14, <1>15, <1>16, <1>17 DEF ServerInv

LEMMA RecordStep ==
    ASSUME ServerInv, NEW e \in Entry, RecordEgressDestination(e)
    PROVE  ServerInv'
  <1>1. CASE ~Present(e.key)
    <2>1. UNCHANGED <<edges, task, nets, rows>>
      BY <1>1 DEF RecordEgressDestination
    <2>. QED BY <2>1 DEF ServerInv, ServerTypes, SeenBounded, Seen, SlotFollowsBuild, NoStrandedNet, RowsOfLiveEdges,
            RowsComplete, Live
  <1>2. CASE Present(e.key)
    <2>1. PICK gone \in Evicted(e.key, e.dst) :
              /\ edges' = [edges EXCEPT ![e.key].dests =
                             [d \in Dsts |-> IF d = e.dst THEN IF e.active THEN "open" ELSE "closed"
                                             ELSE IF d \in gone THEN "no" ELSE @[d]]]
              /\ rows' = IF Live(e.key) THEN Filed(rows, edges[e.key].net, e.dst, e.active) ELSE rows
      BY <1>2 DEF RecordEgressDestination
    <2>2. UNCHANGED <<task, nets>>
      BY DEF RecordEgressDestination
    <2>. QED BY <1>2, <2>1, <2>2, RecordPresent
  <1>. QED BY <1>1, <1>2

LEMMA ServerUnchanged ==
    ASSUME ServerInv, UNCHANGED serverVars
    PROVE  ServerInv'
  <1>1. UNCHANGED <<edges, task, nets, rows>>
    BY DEF serverVars
  <1>2. ServerTypes' /\ SeenBounded'
    BY <1>1 DEF ServerInv, ServerTypes, SeenBounded, Seen
  <1>3. SlotFollowsBuild'
    BY <1>1 DEF ServerInv, SlotFollowsBuild
  <1>4. NoStrandedNet' /\ RowsOfLiveEdges'
    BY <1>1 DEF ServerInv, NoStrandedNet, RowsOfLiveEdges
  <1>5. RowsComplete'
    BY <1>1 DEF ServerInv, RowsComplete, Live
  <1>. QED BY <1>2, <1>3, <1>4, <1>5 DEF ServerInv

-----------------------------------------------------------------------------
(* The steps of the client *)

\* The accumulator's limit depends on what it knows, and on nothing else.
LEMMA ClientKept ==
    ASSUME ClientInv, acc' \in [Keys -> [Dsts -> DstAccum]], batch' \subseteq Entry,
           \A k \in Keys, d \in Dsts : acc'[k][d].known = acc[k][d].known
    PROVE  ClientInv'
  <1>1. Known' = Known
    BY DEF Known
  <1>. QED BY <1>1 DEF ClientInv

LEMMA AccFields ==
    ASSUME NEW a \in DstAccum, NEW v \in BOOLEAN
    PROVE  [a EXCEPT !.dirty = v] \in DstAccum /\ [a EXCEPT !.dirty = v].known = a.known
  BY DEF DstAccum

LEMMA SetDirtyKeeps ==
    ASSUME ClientInv, NEW ds, NEW v \in BOOLEAN, SetDirty(ds, v)
    PROVE  /\ acc' \in [Keys -> [Dsts -> DstAccum]]
           /\ \A k \in Keys, d \in Dsts : acc'[k][d].known = acc[k][d].known
  <1> DEFINE F(k, d) == IF <<k, d>> \in ds THEN [acc[k][d] EXCEPT !.dirty = v] ELSE acc[k][d]
  <1>1. acc' = [k \in Keys |-> [d \in Dsts |-> F(k, d)]]
    BY DEF SetDirty
  <1>2. ASSUME NEW k \in Keys, NEW d \in Dsts
        PROVE  F(k, d) \in DstAccum /\ F(k, d).known = acc[k][d].known
    <2>1. acc[k][d] \in DstAccum
      BY DEF ClientInv
    <2>. QED BY <2>1, AccFields
  <1> HIDE DEF F
  <1>. QED BY <1>1, <1>2

\* record_destination makes room for the destination it adds.
LEMMA RecordDestinationStep ==
    ASSUME ClientInv, NEW k \in Keys, NEW d \in Dsts, NEW blocked \in BOOLEAN, RecordDestination(k, d, blocked)
    PROVE  ClientInv'
  <1> DEFINE a == acc[k][d]
             act == a.active /\ ~blocked
             now == [known |-> TRUE, active |-> act, dirty |-> a.dirty \/ blocked \/ act]
  <1>1. a \in DstAccum
    BY DEF ClientInv
  <1>2. now \in DstAccum /\ now.known
    BY <1>1 DEF DstAccum
  <1>3. PICK gone \in Forgotten(k, d) :
            acc' = [q \in Keys |-> [x \in Dsts |-> IF <<q, x>> = <<k, d>> THEN now
                                                   ELSE IF <<q, x>> \in gone THEN Unseen
                                                   ELSE acc[q][x]]]
    BY DEF RecordDestination
  <1> HIDE DEF now
  <1>4. Unseen \in DstAccum /\ ~Unseen.known
    BY DEF Unseen, DstAccum
  <1>5. acc \in [Keys -> [Dsts -> DstAccum]]
    BY DEF ClientInv
  <1>6. acc' \in [Keys -> [Dsts -> DstAccum]]
    BY <1>2, <1>3, <1>4, <1>5
  <1>7. ASSUME NEW q \in Keys, NEW x \in Dsts
        PROVE  acc'[q][x].known <=> (<<q, x>> = <<k, d>> \/ (<<q, x>> \notin gone /\ acc[q][x].known))
    BY <1>2, <1>3, <1>4
  <1> DEFINE S == Known
             T == Known'
  <1>8. IF <<k, d>> \in S \/ Cardinality(S) < MAX_PENDING_DSTS THEN gone = {} ELSE \E y \in S : gone = {y}
    <2>1. <<k, d>> \in S <=> acc[k][d].known
      BY DEF Known
    <2>. QED BY <2>1 DEF Forgotten
  <1>9. T = (S \ gone) \cup {<<k, d>>}
    <2>1. ASSUME NEW z PROVE z \in T <=> z \in (S \ gone) \cup {<<k, d>>}
      <3>1. CASE z \notin Keys \X Dsts
        BY <3>1 DEF Known
      <3>2. CASE z \in Keys \X Dsts
        <4>1. PICK q \in Keys, x \in Dsts : z = <<q, x>>
          BY <3>2
        <4>2. (z \in T <=> acc'[q][x].known) /\ (z \in S <=> acc[q][x].known)
          BY <4>1 DEF Known
        <4>. QED BY <1>7, <4>1, <4>2
      <3>. QED BY <3>1, <3>2
    <2> HIDE DEF S, T
    <2>. QED BY <2>1
  <1>10. IsFiniteSet(S) /\ Cardinality(S) <= MAX_PENDING_DSTS /\ MAX_PENDING_DSTS \in Nat \ {0}
    BY EgressAssumption DEF ClientInv
  <1> HIDE DEF S, T
  <1>11. IsFiniteSet(T) /\ Cardinality(T) <= MAX_PENDING_DSTS
    BY <1>8, <1>9, <1>10, RoomMade
  <1>12. batch' \subseteq Entry
    BY DEF RecordDestination, ClientInv
  <1>. QED BY <1>6, <1>11, <1>12 DEF ClientInv, T

LEMMA MarkDstLivenessStep ==
    ASSUME ClientInv, NEW k \in Keys, NEW d \in Dsts, NEW active \in BOOLEAN, MarkDstLiveness(k, d, active)
    PROVE  ClientInv'
  <1> DEFINE r == [acc[k][d] EXCEPT !.active = active, !.dirty = TRUE]
             s == [acc[k] EXCEPT ![d] = r]
  <1>1. acc \in [Keys -> [Dsts -> DstAccum]] /\ acc[k][d] \in DstAccum
    BY DEF ClientInv
  <1>2. acc' = [acc EXCEPT ![k] = s]
    BY <1>1 DEF MarkDstLiveness
  <1>3. r \in DstAccum /\ r.known = acc[k][d].known
    BY <1>1 DEF DstAccum
  <1> HIDE DEF r
  <1>4. s \in [Dsts -> DstAccum] /\ \A x \in Dsts : s[x].known = acc[k][x].known
    BY <1>1, <1>3
  <1> HIDE DEF s
  <1>5. acc' \in [Keys -> [Dsts -> DstAccum]]
    BY <1>1, <1>2, <1>4
  <1>6. \A q \in Keys, x \in Dsts : acc'[q][x].known = acc[q][x].known
    BY <1>1, <1>2, <1>4
  <1>7. batch' \subseteq Entry
    BY DEF MarkDstLiveness, ClientInv
  <1>. QED BY <1>5, <1>6, <1>7, ClientKept

\* The flush takes what is dirty; however it ends, what is known stays known.
LEMMA FlushStep ==
    ASSUME ClientInv, StartFlush \/ FlushReturns \/ FlushFails
    PROVE  ClientInv'
  <1>1. CASE StartFlush
    <2>1. SetDirty(Dirty, FALSE)
      BY <1>1 DEF StartFlush
    <2>2. batch' \subseteq Entry
      <3> SUFFICES ASSUME NEW e \in batch' PROVE e \in Entry
        OBVIOUS
      <3>1. PICK kd \in Dirty : e = [key |-> kd[1], dst |-> kd[2], active |-> acc[kd[1]][kd[2]].active]
        BY <1>1 DEF StartFlush
      <3>2. kd[1] \in Keys /\ kd[2] \in Dsts
        BY DEF Dirty
      <3>3. acc[kd[1]][kd[2]] \in DstAccum
        BY <3>2 DEF ClientInv
      <3>4. acc[kd[1]][kd[2]].active \in BOOLEAN
        BY <3>3 DEF DstAccum
      <3>. QED BY <3>1, <3>2, <3>4 DEF Entry
    <2>. QED BY <2>1, <2>2, SetDirtyKeeps, ClientKept
  <1>2. CASE FlushReturns
    BY <1>2 DEF FlushReturns, ClientInv, Known
  <1>3. CASE FlushFails
    <2>1. SetDirty(sent \cap Known, TRUE) /\ batch' \subseteq Entry
      BY <1>3 DEF FlushFails
    <2>. QED BY <2>1, SetDirtyKeeps, ClientKept
  <1>. QED BY <1>1, <1>2, <1>3

LEMMA ClientUnchanged ==
    ASSUME ClientInv, UNCHANGED acc, batch' \subseteq batch
    PROVE  ClientInv'
  <1>1. Known' = Known
    BY DEF Known
  <1>. QED BY <1>1 DEF ClientInv

-----------------------------------------------------------------------------
(* The theorems *)

\* Nothing is built, filed or accumulated when the server and the client start.
LEMMA EgressStart == Init => ServerInv /\ ClientInv
  <1> SUFFICES ASSUME Init PROVE ServerInv /\ ClientInv
    OBVIOUS
  <1>1. \A k \in Keys : edges[k] = NoEdge
    BY DEF Init
  <1>2. ServerTypes
    <2>1. (CHOOSE k \in Keys : TRUE) \in Keys
      BY EgressAssumption
    <2>2. edges \in [Keys -> Slot]
      BY NoEdgeFields DEF Init
    <2>3. task \in [Builds -> TaskRecord]
      BY <2>1 DEF Init, TaskRecord
    <2>. QED BY <2>2, <2>3 DEF Init, ServerTypes
  <1>3. SeenBounded
    <2> SUFFICES ASSUME NEW k \in Keys
                 PROVE  IsFiniteSet(Seen(k)) /\ Cardinality(Seen(k)) <= MAX_DESTS_PER_EDGE
      BY DEF SeenBounded
    <2>1. Seen(k) = {}
      BY <1>1, NoEdgeFields DEF Seen
    <2>2. IsFiniteSet(Seen(k)) /\ Cardinality(Seen(k)) = 0
      BY <2>1, FS_EmptySet
    <2>. QED BY <2>2, EgressAssumption
  <1>4. SlotFollowsBuild
    BY <1>1, NoEdgeFields DEF SlotFollowsBuild
  <1>5. NoStrandedNet /\ RowsOfLiveEdges
    BY DEF Init, NoStrandedNet, RowsOfLiveEdges
  <1>6. RowsComplete
    BY <1>1, NoEdgeFields DEF RowsComplete, Live
  <1>7. ClientInv
    <2>1. Unseen \in DstAccum /\ ~Unseen.known
      BY DEF Unseen, DstAccum
    <2>2. acc \in [Keys -> [Dsts -> DstAccum]] /\ batch \subseteq Entry
      BY <2>1 DEF Init
    <2>3. Known = {}
      BY <2>1 DEF Init, Known
    <2>4. IsFiniteSet(Known) /\ Cardinality(Known) = 0
      BY <2>3, FS_EmptySet
    <2>. QED BY <2>2, <2>4, EgressAssumption DEF ClientInv
  <1>. QED BY <1>2, <1>3, <1>4, <1>5, <1>6, <1>7 DEF ServerInv

LEMMA EgressStep == ServerInv /\ ClientInv /\ [Next]_vars => ServerInv' /\ ClientInv'
  <1> SUFFICES ASSUME ServerInv, ClientInv, [Next]_vars PROVE ServerInv' /\ ClientInv'
    OBVIOUS
  <1>1. ASSUME NEW b \in Builds, TaskStep(b) \/ TaskDies(b) \/ \E k \in Keys : Trigger(b, k)
        PROVE  ServerInv' /\ ClientInv'
    <2>1. UNCHANGED acc /\ batch' \subseteq batch
      BY <1>1 DEF TaskStep, TaskDies, Trigger, NetworkUp, SetupFails, Promote, Persist, clientVars
    <2>2. ServerInv'
      BY <1>1, NetworkUpStep, SetupFailsStep, PromoteStep, PersistStep, TaskDiesStep, TriggerStep DEF TaskStep
    <2>. QED BY <2>1, <2>2, ClientUnchanged
  <1>2. ASSUME NEW k \in Keys, \/ Age(k) \/ InitiatorGone(k) \/ ReapIdle(k)
                               \/ \E active \in BOOLEAN : SetLiveness(k, active)
        PROVE  ServerInv' /\ ClientInv'
    <2>1. UNCHANGED acc /\ batch' \subseteq batch
      BY <1>2 DEF Age, InitiatorGone, ReapIdle, RemoveEdge, SetLiveness, clientVars
    <2>2. ServerInv'
      BY <1>2, AgeStep, RemoveEdgeStep, SetLivenessStep DEF InitiatorGone, ReapIdle
    <2>. QED BY <2>1, <2>2, ClientUnchanged
  <1>3. ASSUME NEW k \in Keys, NEW d \in Dsts, NEW v \in BOOLEAN,
               RecordDestination(k, d, v) \/ MarkDstLiveness(k, d, v)
        PROVE  ServerInv' /\ ClientInv'
    <2>1. UNCHANGED serverVars
      BY <1>3 DEF RecordDestination, MarkDstLiveness
    <2>2. ClientInv'
      BY <1>3, RecordDestinationStep, MarkDstLivenessStep
    <2>. QED BY <2>1, <2>2, ServerUnchanged
  <1>4. CASE StartFlush \/ FlushReturns \/ FlushFails
    <2>1. UNCHANGED serverVars
      BY <1>4 DEF StartFlush, FlushReturns, FlushFails
    <2>. QED BY <1>4, <2>1, ServerUnchanged, FlushStep
  <1>5. ASSUME NEW e \in batch, RecordEgressDestination(e)
        PROVE  ServerInv' /\ ClientInv'
    <2>1. e \in Entry /\ UNCHANGED acc /\ batch' \subseteq batch
      BY <1>5 DEF ClientInv, RecordEgressDestination
    <2>. QED BY <1>5, <2>1, RecordStep, ClientUnchanged
  <1>6. CASE UNCHANGED vars
    <2>1. UNCHANGED serverVars /\ UNCHANGED acc /\ batch' \subseteq batch
      BY <1>6 DEF vars, serverVars
    <2>. QED BY <2>1, ServerUnchanged, ClientUnchanged
  <1>. QED BY <1>1, <1>2, <1>3, <1>4, <1>5, <1>6 DEF Next

LEMMA EgressInvAlways == Spec => [](ServerInv /\ ClientInv)
  BY EgressStart, EgressStep, PTL DEF Spec

\* No egress network is left standing that neither the map nor a build knows
\* of: not by a takeover of a stale reservation, not by a removal during the
\* build, not by a promotion that comes too late (ensure_egress_edge).
THEOREM NoStrandedNetAlways == Spec => []NoStrandedNet
  <1>1. ServerInv /\ ClientInv => NoStrandedNet
    BY DEF ServerInv
  <1>. QED BY <1>1, EgressInvAlways, PTL

\* The open rows of the history are those of the edges in the map, whatever
\* was reported before, during and after a build, and both tables keep to
\* their limits (record_egress_destination, persist_edge_destinations,
\* remove_egress_edges, record_destination).
THEOREM RowsAgreeAlways == Spec => []RowsAgree
  <1>1. ServerInv /\ ClientInv => RowsAgree
    <2> SUFFICES ASSUME ServerInv, ClientInv PROVE RowsAgree
      OBVIOUS
    <2>1. TypeOK
      BY DEF ServerInv, ServerTypes, SeenBounded, ClientInv, TypeOK, Slot, TaskRecord, DstAccum
    <2>. QED BY <2>1 DEF ServerInv, RowsAgree
  <1>. QED BY <1>1, EgressInvAlways, PTL
-----------------------------------------------------------------------------
(* ServicesConfig.  While no handler was dropped and no reload failed to   *)
(* read, what is stored validates and has no conflict, a handler that      *)
(* waits to write has checked that this will still be so (CommitOk), and   *)
(* what is live is what is stored, or is on its way in the one handler     *)
(* that has the lock (Carried).  The links of an observed stack need less  *)
(* and hold whatever fails: they are live, or in the snapshot the handler  *)
(* of observation is about to apply (Linked).                              *)

\* The stored rows db validate, with the observations obs.
Validates(db, obs) ==
    \A s \in DOMAIN db : /\ RoutesValid(db[s].svcs, db[s].routes)
                         /\ obs[s].state = "active" => Observable(db[s].svcs)

\* No two stacks of db claim one name, one host or the one port.
Apart(db) ==
    /\ \A s, t \in DOMAIN db : s # t => /\ DOMAIN db[s].svcs \cap DOMAIN db[t].svcs = {}
                                        /\ DOMAIN db[s].routes \cap DOMAIN db[t].routes = {}
    /\ \A s, t \in DOMAIN db : \A n \in DOMAIN db[s].svcs, o \in DOMAIN db[t].svcs :
          db[s].svcs[n] = "tcp" /\ db[t].svcs[o] = "tcp" => s = t /\ n = o

CommitOk(w) == Validates(Committed(w), ObsAfter(w)) /\ Apart(Committed(w))

IsFcn(f) == f = [x \in DOMAIN f |-> f[x]]
IsObs(x) == x = [state |-> x.state, saved |-> x.saved, applied |-> x.applied]

ConfigTypes ==
    /\ IsFcn(cfDb) /\ DOMAIN cfDb \subseteq CfStacks
    /\ IsFcn(cfObs) /\ DOMAIN cfObs = CfStacks /\ \A s \in CfStacks : IsObs(cfObs[s])
    /\ DOMAIN cfLive \subseteq CfStacks
    /\ IsFcn(cfReq) /\ DOMAIN cfReq = CfRequests
    /\ cfFaults \in Nat /\ cfUp \in BOOLEAN
    /\ \A w \in cfLate : w.stack \in CfStacks

OneHandler == \A q, r \in CfRequests : cfReq[q].pc # "idle" /\ cfReq[r].pc # "idle" => q = r

Linked(live) == \A s \in DOMAIN live : cfObs[s].state = "active" => live[s].links = AllLinks(live[s].svcs)

HandlerOk(q) ==
    /\ q.pc \in {"idle", "write", "reload", "routes", "apply", "finish"}
    /\ q.pc = "write" => q.stack \in CfStacks
    /\ q.pc = "apply" => DOMAIN q.live \subseteq CfStacks /\ Linked(q.live)

LiveIsStored == cfLive = LoadServices /\ cfRoutes = LoadRoutes

\* What a handler carries when nothing has failed.
Carried(q) ==
    /\ q.pc = "write" => LiveIsStored /\ CommitOk(q)
    /\ q.pc \in {"routes", "finish"} => cfLive = LoadServices /\ q.routes = LoadRoutes
    /\ q.pc = "apply" => q.live = LoadServices /\ q.routes = LoadRoutes

Faultless ==
    /\ cfLate = {} /\ cfUp
    /\ Validates(cfDb, cfObs) /\ Apart(cfDb)
    /\ \A r \in CfRequests : Carried(cfReq[r])
    /\ ~Locked => LiveIsStored

ConfigInv ==
    /\ ConfigTypes /\ OneHandler
    /\ \A r \in CfRequests : HandlerOk(cfReq[r])
    /\ (\A r \in CfRequests : cfReq[r].pc # "apply") => Linked(cfLive)
    /\ cfFaults = 0 => Faultless

\* What a load makes of the stored rows.
LEMMA RowsLoad ==
    /\ DOMAIN LoadServices = DOMAIN cfDb /\ DOMAIN LoadRoutes = DOMAIN cfDb
    /\ \A s \in DOMAIN cfDb : LoadServices[s].svcs = cfDb[s].svcs /\ LoadRoutes[s] = cfDb[s].routes
    /\ IsFcn(LoadServices) /\ IsFcn(LoadRoutes)
    /\ Linked(LoadServices)
  <1>1. DOMAIN LoadServices = DOMAIN cfDb /\ DOMAIN LoadRoutes = DOMAIN cfDb
    BY DEF LoadServices, LoadRoutes
  <1>2. \A s \in DOMAIN cfDb : LoadServices[s].svcs = cfDb[s].svcs /\ LoadRoutes[s] = cfDb[s].routes
    BY DEF LoadServices, LoadRoutes, Lists, Observed
  <1>3. IsFcn(LoadServices) /\ IsFcn(LoadRoutes)
    BY DEF LoadServices, LoadRoutes, IsFcn
  <1>4. Linked(LoadServices)
    BY <1>1 DEF Linked, LoadServices, Observed
  <1>. QED BY <1>1, <1>2, <1>3, <1>4

LEMMA LoadIsValidation == CanLoad <=> Validates(cfDb, cfObs)
  BY DEF CanLoad, StackLoads, Validates

LEMMA Holders ==
    ASSUME NEW live, NEW x
    PROVE  x \in PortHolders(live) <=>
             \E s \in DOMAIN live : \E n \in DOMAIN live[s].svcs : x = <<s, n>> /\ live[s].svcs[n] = "tcp"
  <1>1. ASSUME NEW s \in DOMAIN live, NEW n \in DOMAIN live[s].svcs
        PROVE  <<s, n>> \in UNION {{t} \X DOMAIN live[t].svcs : t \in DOMAIN live}
    OBVIOUS
  <1>2. ASSUME NEW y \in UNION {{t} \X DOMAIN live[t].svcs : t \in DOMAIN live}
        PROVE  \E s \in DOMAIN live : \E n \in DOMAIN live[s].svcs : y = <<s, n>>
    OBVIOUS
  <1>3. ASSUME x \in PortHolders(live)
        PROVE  \E s \in DOMAIN live : \E n \in DOMAIN live[s].svcs : x = <<s, n>> /\ live[s].svcs[n] = "tcp"
    <2>1. PICK s \in DOMAIN live : \E n \in DOMAIN live[s].svcs : x = <<s, n>>
      BY <1>2, <1>3 DEF PortHolders
    <2>2. PICK n \in DOMAIN live[s].svcs : x = <<s, n>>
      BY <2>1
    <2>3. live[x[1]].svcs[x[2]] = "tcp" /\ x[1] = s /\ x[2] = n
      BY <1>3, <2>2 DEF PortHolders
    <2>. QED BY <2>2, <2>3
  <1>4. ASSUME NEW s \in DOMAIN live, NEW n \in DOMAIN live[s].svcs, x = <<s, n>>, live[s].svcs[n] = "tcp"
        PROVE  x \in PortHolders(live)
    BY <1>1, <1>4 DEF PortHolders
  <1>. QED BY <1>3, <1>4

\* Rows that are apart have no conflict when they are loaded.
LEMMA NoConflicts == Apart(cfDb) => Conflicts(LoadServices, LoadRoutes) = {}
  <1> SUFFICES ASSUME Apart(cfDb) PROVE Conflicts(LoadServices, LoadRoutes) = {}
    OBVIOUS
  <1>0. PICK live, routes : live = LoadServices /\ routes = LoadRoutes
    OBVIOUS
  <1>1. /\ DOMAIN live = DOMAIN cfDb /\ DOMAIN routes = DOMAIN cfDb
        /\ \A s \in DOMAIN cfDb : live[s].svcs = cfDb[s].svcs /\ routes[s] = cfDb[s].routes
    BY <1>0, RowsLoad
  <1>2. NameConflicts(live) = {}
    BY <1>1 DEF NameConflicts, Apart
  <1>3. RouteConflicts(routes) = {}
    BY <1>1 DEF RouteConflicts, Apart
  <1>4. \A y, z \in PortHolders(live) : y = z
    <2> SUFFICES ASSUME NEW y \in PortHolders(live), NEW z \in PortHolders(live) PROVE y = z
      OBVIOUS
    <2>1. PICK s \in DOMAIN live : \E n \in DOMAIN live[s].svcs : y = <<s, n>> /\ live[s].svcs[n] = "tcp"
      BY Holders
    <2>2. PICK n \in DOMAIN live[s].svcs : y = <<s, n>> /\ live[s].svcs[n] = "tcp"
      BY <2>1
    <2>3. PICK t \in DOMAIN live : \E o \in DOMAIN live[t].svcs : z = <<t, o>> /\ live[t].svcs[o] = "tcp"
      BY Holders
    <2>4. PICK o \in DOMAIN live[t].svcs : z = <<t, o>> /\ live[t].svcs[o] = "tcp"
      BY <2>3
    <2>5. s = t /\ n = o
      BY <1>1, <2>2, <2>4 DEF Apart
    <2>. QED BY <2>2, <2>4, <2>5
  <1>5. PortConflicts(live) = {}
    BY <1>4 DEF PortConflicts
  <1>. QED BY <1>0, <1>2, <1>3, <1>5 DEF Conflicts

\* A row is put among rows that are apart, and its names and hosts are free.
LEMMA PutApart ==
    ASSUME NEW db, Apart(db), NEW s, NEW row,
           \A t \in DOMAIN db : t # s =>
              /\ DOMAIN row.svcs \cap DOMAIN db[t].svcs = {} /\ DOMAIN row.routes \cap DOMAIN db[t].routes = {}
              /\ \A n \in DOMAIN row.svcs, o \in DOMAIN db[t].svcs : ~(row.svcs[n] = "tcp" /\ db[t].svcs[o] = "tcp"),
           \A n, o \in DOMAIN row.svcs : row.svcs[n] = "tcp" /\ row.svcs[o] = "tcp" => n = o
    PROVE  Apart(Put(db, s, row))
  <1>0. PICK new : new = Put(db, s, row)
    OBVIOUS
  <1>1. DOMAIN new = DOMAIN db \cup {s} /\ new[s] = row /\ \A t \in DOMAIN db : t # s => new[t] = db[t]
    BY <1>0 DEF Put
  <1>2. ASSUME NEW x \in DOMAIN new, NEW y \in DOMAIN new, x # y
        PROVE  DOMAIN new[x].svcs \cap DOMAIN new[y].svcs = {} /\ DOMAIN new[x].routes \cap DOMAIN new[y].routes = {}
    <2>1. CASE x = s
      BY <1>1, <1>2, <2>1
    <2>2. CASE y = s
      BY <1>1, <1>2, <2>2
    <2>3. CASE x # s /\ y # s
      <3>1. x \in DOMAIN db /\ y \in DOMAIN db /\ new[x] = db[x] /\ new[y] = db[y]
        BY <1>1, <2>3
      <3>. QED BY <1>2, <3>1 DEF Apart
    <2>. QED BY <2>1, <2>2, <2>3
  <1>3. ASSUME NEW x \in DOMAIN new, NEW y \in DOMAIN new, NEW n \in DOMAIN new[x].svcs, NEW o \in DOMAIN new[y].svcs,
               new[x].svcs[n] = "tcp", new[y].svcs[o] = "tcp"
        PROVE  x = y /\ n = o
    <2>1. CASE x = s
      BY <1>1, <1>3, <2>1
    <2>2. CASE y = s
      BY <1>1, <1>3, <2>2
    <2>3. CASE x # s /\ y # s
      <3>1. x \in DOMAIN db /\ y \in DOMAIN db /\ new[x] = db[x] /\ new[y] = db[y]
        BY <1>1, <2>3
      <3>. QED BY <1>3, <3>1 DEF Apart
    <2>. QED BY <2>1, <2>2, <2>3
  <1>. QED BY <1>0, <1>2, <1>3 DEF Apart

\* A save that passed the pre-check writes rows that validate and are apart.
LEMMA CheckedIsOk ==
    ASSUME LiveIsStored, Validates(cfDb, cfObs), Apart(cfDb), NEW s, Inactive(s), NEW lists, NEW routes, NEW row,
           RoutesValid(lists.svcs, routes), PreCheck(s, lists, routes),
           row.svcs = lists.svcs, row.routes = routes
    PROVE  Validates(Put(cfDb, s, row), cfObs) /\ Apart(Put(cfDb, s, row))
  <1>0. PICK live, table, new : live = Put(cfLive, s, lists) /\ table = Put(cfRoutes, s, routes) /\ new = Put(cfDb, s, row)
    OBVIOUS
  <1>1. /\ DOMAIN live = DOMAIN cfDb \cup {s} /\ live[s] = lists
        /\ \A t \in DOMAIN cfDb : t # s => live[t].svcs = cfDb[t].svcs
    BY <1>0, RowsLoad DEF Put, LiveIsStored
  <1>2. /\ DOMAIN table = DOMAIN cfDb \cup {s} /\ table[s] = routes
        /\ \A t \in DOMAIN cfDb : t # s => table[t] = cfDb[t].routes
    BY <1>0, RowsLoad DEF Put, LiveIsStored
  <1>3. DOMAIN new = DOMAIN cfDb \cup {s} /\ new[s] = row /\ \A t \in DOMAIN cfDb : t # s => new[t] = cfDb[t]
    BY <1>0 DEF Put
  <1>4. s \notin NameConflicts(live) /\ s \notin RouteConflicts(table) /\ s \notin PortConflicts(live)
    BY <1>0 DEF PreCheck, Conflicts
  <1>5. Validates(new, cfObs)
    BY <1>3 DEF Validates, Inactive
  <1>6. ASSUME NEW t \in DOMAIN cfDb, t # s
        PROVE  DOMAIN row.svcs \cap DOMAIN cfDb[t].svcs = {} /\ DOMAIN row.routes \cap DOMAIN cfDb[t].routes = {}
    BY <1>1, <1>2, <1>4, <1>6 DEF NameConflicts, RouteConflicts
  <1>7. ASSUME NEW n \in DOMAIN row.svcs, row.svcs[n] = "tcp", NEW z \in PortHolders(live)
        PROVE  z = <<s, n>>
    <2>1. <<s, n>> \in PortHolders(live)
      BY <1>1, <1>7, Holders
    <2>2. <<s, n>>[1] = s
      OBVIOUS
    <2>. QED BY <1>4, <2>1, <2>2 DEF PortConflicts
  <1>8. ASSUME NEW t \in DOMAIN cfDb, t # s, NEW n \in DOMAIN row.svcs, NEW o \in DOMAIN cfDb[t].svcs
        PROVE  ~(row.svcs[n] = "tcp" /\ cfDb[t].svcs[o] = "tcp")
    <2> SUFFICES ASSUME row.svcs[n] = "tcp", cfDb[t].svcs[o] = "tcp" PROVE FALSE
      OBVIOUS
    <2>1. <<t, o>> \in PortHolders(live)
      BY <1>1, <1>8, Holders
    <2>2. <<t, o>> = <<s, n>>
      BY <1>7, <2>1
    <2>. QED BY <1>8, <2>2
  <1>9. ASSUME NEW n \in DOMAIN row.svcs, NEW o \in DOMAIN row.svcs, row.svcs[n] = "tcp", row.svcs[o] = "tcp"
        PROVE  n = o
    <2>1. <<s, o>> \in PortHolders(live)
      BY <1>1, <1>9, Holders
    <2>2. <<s, o>> = <<s, n>>
      BY <1>7, <1>9, <2>1
    <2>. QED BY <2>2
  <1>10. Apart(Put(cfDb, s, row))
    BY <1>6, <1>8, <1>9, PutApart
  <1>. QED BY <1>0, <1>5, <1>10

\* A step of the one handler at work.
LEMMA HandlerMoves ==
    ASSUME ConfigInv, ConfigTypes', NEW r \in CfRequests, NEW q, cfReq' = [cfReq EXCEPT ![r] = q],
           \A p \in CfRequests : p # r => cfReq[p].pc = "idle",
           HandlerOk(q)', q.pc # "apply" => Linked(cfLive)',
           cfFaults' = 0 => /\ cfLate' = {} /\ cfUp' /\ Validates(cfDb', cfObs') /\ Apart(cfDb')
                            /\ Carried(q)' /\ (q.pc = "idle" => LiveIsStored')
    PROVE  ConfigInv'
  <1>1. \A p \in CfRequests : cfReq'[p] = IF p = r THEN q ELSE cfReq[p]
    BY DEF ConfigInv, ConfigTypes, IsFcn
  <1>2. OneHandler'
    BY <1>1 DEF OneHandler
  <1>3. ASSUME NEW p \in CfRequests PROVE HandlerOk(cfReq[p])'
    <2>1. CASE p = r
      BY <1>1, <2>1 DEF HandlerOk, Linked
    <2>2. CASE p # r
      BY <1>1, <2>2 DEF HandlerOk, Linked
    <2>. QED BY <2>1, <2>2
  <1>4. (\A p \in CfRequests : cfReq'[p].pc # "apply") => Linked(cfLive)'
    BY <1>1
  <1>5. ASSUME cfFaults' = 0 PROVE Faultless'
    <2>1. ASSUME NEW p \in CfRequests PROVE Carried(cfReq[p])'
      <3>1. CASE p = r
        BY <1>1, <1>5, <3>1 DEF Carried
      <3>2. CASE p # r
        BY <1>1, <3>2 DEF Carried
      <3>. QED BY <3>1, <3>2
    <2>2. (~Locked)' => LiveIsStored'
      BY <1>1, <1>5 DEF Locked
    <2>. QED BY <1>5, <2>1, <2>2 DEF Faultless
  <1>. QED BY <1>2, <1>3, <1>4, <1>5 DEF ConfigInv

\* A handler takes the lock with a write that will leave the rows in order.
LEMMA WriteBegins ==
    ASSUME ConfigInv, NEW r \in CfRequests, Locks(r), NEW w, w.pc = "write", w.stack \in CfStacks,
           cfReq' = [cfReq EXCEPT ![r] = w],
           UNCHANGED <<cfDb, cfObs, cfLive, cfRoutes, cfLate, cfUp, cfFaults>>,
           cfFaults = 0 => CommitOk(w)
    PROVE  ConfigInv'
  <1>1. \A p \in CfRequests : cfReq[p].pc = "idle"
    BY DEF Locks, Locked
  <1>2. ConfigTypes'
    BY DEF ConfigInv, ConfigTypes, IsFcn
  <1>3. HandlerOk(w)' /\ Linked(cfLive)'
    BY <1>1 DEF HandlerOk, ConfigInv, Linked
  <1>4. ASSUME cfFaults' = 0
        PROVE  cfLate' = {} /\ cfUp' /\ Validates(cfDb', cfObs') /\ Apart(cfDb') /\ Carried(w)'
    <2>1. Faultless /\ LiveIsStored /\ CommitOk(w)
      BY <1>1, <1>4 DEF ConfigInv, Faultless, Locked
    <2>2. LiveIsStored' /\ CommitOk(w)'
      BY <2>1 DEF LiveIsStored, LoadServices, LoadRoutes, CommitOk, Committed, ObsAfter
    <2>3. Carried(w)'
      BY <2>2 DEF Carried
    <2>. QED BY <2>1, <2>3 DEF Faultless
  <1>. QED BY <1>1, <1>2, <1>3, <1>4, HandlerMoves

LEMMA SaveServicesOk ==
    ASSUME ConfigInv, NEW r \in CfRequests, NEW s \in CfStacks, NEW offer, SaveServices(r, s, offer)
    PROVE  ConfigInv'
  <1>0. PICK w : w = Write(s, "services", RouteRow(offer, NoRoutes))
    OBVIOUS
  <1>1. w.pc = "write" /\ w.stack = s /\ w.part = "services" /\ w.row.svcs = offer.svcs /\ w.row.links = offer.links
    BY <1>0 DEF Write, RouteRow
  <1>2. ASSUME cfFaults = 0 PROVE CommitOk(w)
    <2>1. LiveIsStored /\ Validates(cfDb, cfObs) /\ Apart(cfDb)
      BY <1>2 DEF ConfigInv, Faultless, SaveServices, Locks
    <2>2. PICK row : row = [svcs |-> offer.svcs, links |-> offer.links, routes |-> StoredRoutes(s)]
      OBVIOUS
    <2>3. Committed(w) = Put(cfDb, s, row) /\ ObsAfter(w) = cfObs
      BY <1>1, <2>2 DEF Committed, ObsAfter, StoredRoutes, RouteRow
    <2>4. row.svcs = offer.svcs /\ row.routes = StoredRoutes(s)
      BY <2>2
    <2>. QED BY <2>1, <2>3, <2>4, CheckedIsOk DEF CommitOk, SaveServices
  <1>. QED BY <1>0, <1>1, <1>2, WriteBegins DEF SaveServices

LEMMA ImportOk ==
    ASSUME ConfigInv, NEW r \in CfRequests, NEW s \in CfStacks, NEW offer, NEW routes, Import(r, s, offer, routes)
    PROVE  ConfigInv'
  <1>0. PICK w : w = Write(s, "both", RouteRow(offer, routes))
    OBVIOUS
  <1>1. /\ w.pc = "write" /\ w.stack = s /\ w.part = "both"
        /\ w.row.svcs = offer.svcs /\ w.row.links = offer.links /\ w.row.routes = routes
    BY <1>0 DEF Write, RouteRow
  <1>2. ASSUME cfFaults = 0 PROVE CommitOk(w)
    <2>1. LiveIsStored /\ Validates(cfDb, cfObs) /\ Apart(cfDb)
      BY <1>2 DEF ConfigInv, Faultless, Import, Locks
    <2>2. PICK row : row = [svcs |-> offer.svcs, links |-> offer.links, routes |-> routes]
      OBVIOUS
    <2>3. Committed(w) = Put(cfDb, s, row) /\ ObsAfter(w) = cfObs
      BY <1>1, <2>2 DEF Committed, ObsAfter
    <2>4. row.svcs = offer.svcs /\ row.routes = routes
      BY <2>2
    <2>. QED BY <2>1, <2>3, <2>4, CheckedIsOk DEF CommitOk, Import
  <1>. QED BY <1>0, <1>1, <1>2, WriteBegins DEF Import

LEMMA SaveRoutesOk ==
    ASSUME ConfigInv, NEW r \in CfRequests, NEW s \in CfStacks, NEW routes, SaveRoutes(r, s, routes)
    PROVE  ConfigInv'
  <1>0. PICK w : w = Write(s, "routes", RouteRow(cfLive[s], routes))
    OBVIOUS
  <1>1. w.pc = "write" /\ w.stack = s /\ w.part = "routes" /\ w.row.routes = routes
    BY <1>0 DEF Write, RouteRow
  <1>2. ASSUME cfFaults = 0 PROVE CommitOk(w)
    <2>1. LiveIsStored /\ Validates(cfDb, cfObs) /\ Apart(cfDb)
      BY <1>2 DEF ConfigInv, Faultless, SaveRoutes, Locks
    <2>2. s \in DOMAIN cfDb /\ cfLive[s].svcs = cfDb[s].svcs
      BY <2>1, RowsLoad DEF LiveIsStored, SaveRoutes
    <2>3. PICK row : row = [svcs |-> cfDb[s].svcs, links |-> cfDb[s].links, routes |-> routes]
      OBVIOUS
    <2>4. Committed(w) = Put(cfDb, s, row) /\ ObsAfter(w) = cfObs
      BY <1>1, <2>2, <2>3 DEF Committed, ObsAfter
    <2>5. row.svcs = cfDb[s].svcs /\ row.routes = routes
      BY <2>3
    <2>6. PICK new, table : new = Put(cfDb, s, row) /\ table = Put(cfRoutes, s, routes)
      OBVIOUS
    <2>7. DOMAIN new = DOMAIN cfDb \cup {s} /\ new[s] = row /\ \A t \in DOMAIN cfDb : t # s => new[t] = cfDb[t]
      BY <2>6 DEF Put
    <2>8. /\ DOMAIN table = DOMAIN cfDb \cup {s} /\ table[s] = routes
          /\ \A t \in DOMAIN cfDb : t # s => table[t] = cfDb[t].routes
      BY <2>1, <2>6, RowsLoad DEF Put, LiveIsStored
    <2>9. Validates(new, cfObs)
      BY <2>1, <2>2, <2>5, <2>7 DEF Validates, SaveRoutes
    <2>10. ASSUME NEW t \in DOMAIN cfDb, t # s
           PROVE  DOMAIN row.routes \cap DOMAIN cfDb[t].routes = {}
      BY <2>5, <2>6, <2>8, <2>10 DEF RouteConflicts, SaveRoutes
    <2>11. Apart(Put(cfDb, s, row))
      <3>1. \A t \in DOMAIN cfDb : t # s =>
              /\ DOMAIN row.svcs \cap DOMAIN cfDb[t].svcs = {}
              /\ \A n \in DOMAIN row.svcs, o \in DOMAIN cfDb[t].svcs :
                    ~(row.svcs[n] = "tcp" /\ cfDb[t].svcs[o] = "tcp")
        BY <2>1, <2>2, <2>5 DEF Apart
      <3>2. \A n, o \in DOMAIN row.svcs : row.svcs[n] = "tcp" /\ row.svcs[o] = "tcp" => n = o
        BY <2>1, <2>2, <2>5 DEF Apart
      <3>. QED BY <2>1, <2>10, <3>1, <3>2, PutApart
    <2>. QED BY <2>4, <2>6, <2>9, <2>11 DEF CommitOk
  <1>. QED BY <1>0, <1>1, <1>2, WriteBegins DEF SaveRoutes

LEMMA DeleteStackOk ==
    ASSUME ConfigInv, NEW r \in CfRequests, NEW s \in CfStacks, DeleteStack(r, s)
    PROVE  ConfigInv'
  <1>0. PICK w : w = Write(s, "delete", RouteRow(cfDb[s], NoRoutes))
    OBVIOUS
  <1>1. w.pc = "write" /\ w.stack = s /\ w.part = "delete"
    BY <1>0 DEF Write
  <1>2. ASSUME cfFaults = 0 PROVE CommitOk(w)
    <2>1. LiveIsStored /\ Validates(cfDb, cfObs) /\ Apart(cfDb)
      BY <1>2 DEF ConfigInv, Faultless, DeleteStack, Locks
    <2>2. PICK new, obs : new = Committed(w) /\ obs = ObsAfter(w)
      OBVIOUS
    <2>3. DOMAIN new = DOMAIN cfDb \ {s} /\ \A t \in DOMAIN new : new[t] = cfDb[t]
      BY <1>1, <2>2 DEF Committed, Restrict
    <2>4. \A t \in DOMAIN new : obs[t] = cfObs[t]
      BY <1>1, <2>2, <2>3 DEF ObsAfter, ConfigInv, ConfigTypes
    <2>5. Validates(new, obs) /\ Apart(new)
      BY <2>1, <2>3, <2>4 DEF Validates, Apart
    <2>. QED BY <2>2, <2>5 DEF CommitOk
  <1>. QED BY <1>0, <1>1, <1>2, WriteBegins DEF DeleteStack

\* What a commit leaves of the rows and of the observations.
LEMMA CommitTypes ==
    ASSUME ConfigTypes, NEW w, w.stack \in CfStacks
    PROVE  /\ IsFcn(Committed(w)) /\ DOMAIN Committed(w) \subseteq CfStacks
           /\ IsFcn(ObsAfter(w)) /\ DOMAIN ObsAfter(w) = CfStacks /\ \A s \in CfStacks : IsObs(ObsAfter(w)[s])
           /\ \A s \in CfStacks : ObsAfter(w)[s].state = "active" => cfObs[s].state = "active"
  <1>1. IsFcn(Committed(w)) /\ DOMAIN Committed(w) \subseteq CfStacks
    <2>1. CASE w.part = "delete"
      BY <2>1 DEF Committed, Restrict, IsFcn, ConfigTypes
    <2>2. CASE w.part # "delete"
      <3>1. PICK row : Committed(w) = Put(cfDb, w.stack, row)
        BY <2>2 DEF Committed
      <3>2. IsFcn(Put(cfDb, w.stack, row)) /\ DOMAIN Put(cfDb, w.stack, row) = DOMAIN cfDb \cup {w.stack}
        BY DEF Put, IsFcn
      <3>. QED BY <3>1, <3>2 DEF ConfigTypes
    <2>. QED BY <2>1, <2>2
  <1>2. CASE w.part = "delete"
    <2>1. ObsAfter(w) = [cfObs EXCEPT ![w.stack] = NoRow]
      BY <1>2 DEF ObsAfter
    <2>2. IsFcn(ObsAfter(w)) /\ DOMAIN ObsAfter(w) = CfStacks
      <3>1. PICK k, obs : k = w.stack /\ obs = [cfObs EXCEPT ![k] = NoRow]
        OBVIOUS
      <3>2. obs = [t \in CfStacks |-> IF t = k THEN NoRow ELSE cfObs[t]]
        BY <3>1 DEF ConfigTypes
      <3>3. IsFcn(obs) /\ DOMAIN obs = CfStacks
        BY <3>2 DEF IsFcn
      <3>. QED BY <2>1, <3>1, <3>3
    <2>3. \A s \in CfStacks : ObsAfter(w)[s] = IF s = w.stack THEN NoRow ELSE cfObs[s]
      BY <2>1 DEF ConfigTypes
    <2>4. IsObs(NoRow) /\ NoRow.state = "none"
      BY DEF NoRow, IsObs
    <2>. QED BY <1>1, <2>2, <2>3, <2>4 DEF ConfigTypes
  <1>3. CASE w.part # "delete"
    BY <1>1, <1>3 DEF ObsAfter, ConfigTypes
  <1>. QED BY <1>2, <1>3

LEMMA OthersIdle ==
    ASSUME ConfigInv, NEW r \in CfRequests, cfReq[r].pc # "idle"
    PROVE  \A p \in CfRequests : p # r => cfReq[p].pc = "idle"
  BY DEF ConfigInv, OneHandler

LEMMA WriteRowsOk ==
    ASSUME ConfigInv, NEW r \in CfRequests, NEW ok \in BOOLEAN, WriteRows(r, ok)
    PROVE  ConfigInv'
  <1>1. \A p \in CfRequests : p # r => cfReq[p].pc = "idle"
    BY OthersIdle DEF WriteRows
  <1>2. cfReq[r].stack \in CfStacks /\ Linked(cfLive)
    BY <1>1 DEF WriteRows, ConfigInv, HandlerOk
  <1>3. CASE ok
    <2>0. PICK w : w = cfReq[r]
      OBVIOUS
    <2>1. /\ cfDb' = Committed(w) /\ cfObs' = ObsAfter(w) /\ cfReq' = [cfReq EXCEPT ![r] = [pc |-> "reload"]]
          /\ UNCHANGED <<cfLive, cfRoutes, cfLate, cfUp, cfEdits, cfFaults>> /\ w.pc = "write"
      BY <1>3, <2>0 DEF WriteRows
    <2>2. /\ IsFcn(cfDb') /\ DOMAIN cfDb' \subseteq CfStacks
          /\ IsFcn(cfObs') /\ DOMAIN cfObs' = CfStacks /\ \A s \in CfStacks : IsObs(cfObs'[s])
          /\ \A s \in CfStacks : cfObs'[s].state = "active" => cfObs[s].state = "active"
      BY <1>2, <2>0, <2>1, CommitTypes DEF ConfigInv
    <2>3. ConfigTypes'
      BY <2>1, <2>2 DEF ConfigInv, ConfigTypes, IsFcn
    <2>4. PICK q : q = [pc |-> "reload"]
      OBVIOUS
    <2>5. HandlerOk(q)' /\ Linked(cfLive)'
      BY <1>2, <2>1, <2>2, <2>4 DEF HandlerOk, Linked, ConfigInv, ConfigTypes
    <2>6. ASSUME cfFaults' = 0
          PROVE  cfLate' = {} /\ cfUp' /\ Validates(cfDb', cfObs') /\ Apart(cfDb') /\ Carried(q)'
      <3>1. Faultless /\ CommitOk(w)
        BY <2>0, <2>1, <2>6 DEF ConfigInv, Faultless, Carried
      <3>. QED BY <2>1, <2>4, <3>1 DEF CommitOk, Carried, Faultless
    <2>. QED BY <1>1, <2>1, <2>3, <2>4, <2>5, <2>6, HandlerMoves
  <1>4. CASE ~ok
    <2>1. cfReq' = [cfReq EXCEPT ![r] = CfIdle] /\ UNCHANGED <<cfDb, cfObs, cfLive, cfRoutes, cfLate, cfUp, cfEdits, cfFaults>>
      BY <1>4 DEF WriteRows
    <2>2. ConfigTypes'
      BY <2>1 DEF ConfigInv, ConfigTypes, IsFcn
    <2>3. HandlerOk(CfIdle)' /\ Linked(cfLive)' /\ CfIdle.pc = "idle"
      BY <1>2, <2>1 DEF HandlerOk, Linked, CfIdle
    <2>4. ASSUME cfFaults' = 0
          PROVE  /\ cfLate' = {} /\ cfUp' /\ Validates(cfDb', cfObs') /\ Apart(cfDb')
                 /\ Carried(CfIdle)' /\ LiveIsStored'
      <3>1. Faultless /\ LiveIsStored
        BY <2>1, <2>4 DEF ConfigInv, Faultless, Carried, WriteRows
      <3>2. LiveIsStored'
        BY <2>1, <3>1 DEF LiveIsStored, LoadServices, LoadRoutes
      <3>3. Carried(CfIdle)'
        BY DEF Carried, CfIdle
      <3>. QED BY <2>1, <3>1, <3>2, <3>3 DEF Faultless
    <2>. QED BY <1>1, <2>1, <2>2, <2>3, <2>4, HandlerMoves
  <1>. QED BY <1>3, <1>4

LEMMA ReloadOk ==
    ASSUME ConfigInv, NEW r \in CfRequests, NEW reads \in BOOLEAN, Reload(r, reads)
    PROVE  ConfigInv'
  <1>1. \A p \in CfRequests : p # r => cfReq[p].pc = "idle"
    BY OthersIdle DEF Reload
  <1>2. Linked(cfLive)
    BY <1>1 DEF Reload, ConfigInv
  <1>3. UNCHANGED <<cfDb, cfObs, cfRoutes, cfLate, cfUp, cfEdits>> /\ cfFaults' \in Nat
    <2>1. CASE reads
      BY <2>1 DEF Reload, ConfigInv, ConfigTypes
    <2>2. CASE ~reads
      BY <2>2 DEF Reload, Fault, ConfigInv, ConfigTypes
    <2>. QED BY <2>1, <2>2
  <1>4. LoadServices' = LoadServices /\ LoadRoutes' = LoadRoutes
    BY <1>3 DEF LoadServices, LoadRoutes
  <1>5. ASSUME cfFaults' = 0
        PROVE  reads /\ cfFaults = 0 /\ Faultless
    <2>1. reads
      BY <1>5 DEF Reload, Fault, ConfigInv, ConfigTypes
    <2>2. cfFaults = 0
      BY <1>5, <2>1 DEF Reload
    <2>. QED BY <2>1, <2>2 DEF ConfigInv
  <1>6. CASE reads /\ CanLoad /\ Conflicts(LoadServices, LoadRoutes) = {}
    <2>0. PICK q : q = [pc |-> "routes", routes |-> LoadRoutes]
      OBVIOUS
    <2>1. cfLive' = LoadServices /\ cfReq' = [cfReq EXCEPT ![r] = q]
      BY <1>6, <2>0 DEF Reload
    <2>2. ConfigTypes'
      BY <1>3, <2>1, RowsLoad DEF ConfigInv, ConfigTypes, IsFcn
    <2>3. HandlerOk(q)' /\ Linked(cfLive)'
      BY <1>3, <2>0, <2>1, RowsLoad DEF HandlerOk, Linked
    <2>4. ASSUME cfFaults' = 0
          PROVE  /\ cfLate' = {} /\ cfUp' /\ Validates(cfDb', cfObs') /\ Apart(cfDb') /\ Carried(q)'
                 /\ q.pc # "idle"
      <3>1. Carried(q)' /\ q.pc # "idle"
        BY <1>4, <2>0, <2>1 DEF Carried
      <3>. QED BY <1>3, <1>5, <2>4, <3>1 DEF Faultless
    <2>. QED BY <1>1, <2>1, <2>2, <2>3, <2>4, HandlerMoves
  <1>7. CASE ~(reads /\ CanLoad /\ Conflicts(LoadServices, LoadRoutes) = {})
    <2>1. cfLive' = cfLive /\ cfReq' = [cfReq EXCEPT ![r] = CfIdle]
      BY <1>7 DEF Reload
    <2>2. ConfigTypes'
      BY <1>3, <2>1 DEF ConfigInv, ConfigTypes, IsFcn
    <2>3. HandlerOk(CfIdle)' /\ Linked(cfLive)'
      BY <1>2, <1>3, <2>1 DEF HandlerOk, Linked, CfIdle
    <2>4. cfFaults' # 0
      <3> SUFFICES ASSUME cfFaults' = 0 PROVE FALSE
        OBVIOUS
      <3>1. CanLoad /\ Conflicts(LoadServices, LoadRoutes) = {}
        BY <1>5, LoadIsValidation, NoConflicts DEF Faultless
      <3>. QED BY <1>5, <1>7, <3>1
    <2>. QED BY <1>1, <2>1, <2>2, <2>3, <2>4, HandlerMoves
  <1>. QED BY <1>6, <1>7

LEMMA ApplyRoutesOk ==
    ASSUME ConfigInv, NEW r \in CfRequests, ApplyRoutes(r)
    PROVE  ConfigInv'
  <1>1. \A p \in CfRequests : p # r => cfReq[p].pc = "idle"
    BY OthersIdle DEF ApplyRoutes
  <1>2. Linked(cfLive)
    BY <1>1 DEF ApplyRoutes, ConfigInv
  <1>3. ConfigTypes'
    BY DEF ApplyRoutes, ConfigInv, ConfigTypes, IsFcn
  <1>4. HandlerOk(CfIdle)' /\ Linked(cfLive)' /\ cfReq' = [cfReq EXCEPT ![r] = CfIdle]
    BY <1>2 DEF ApplyRoutes, HandlerOk, Linked, CfIdle
  <1>5. ASSUME cfFaults' = 0
        PROVE  /\ cfLate' = {} /\ cfUp' /\ Validates(cfDb', cfObs') /\ Apart(cfDb')
               /\ Carried(CfIdle)' /\ LiveIsStored'
    <2>1. Faultless /\ cfLive = LoadServices /\ cfReq[r].routes = LoadRoutes
      BY <1>5 DEF ConfigInv, Faultless, Carried, ApplyRoutes
    <2>2. LoadServices' = LoadServices /\ LoadRoutes' = LoadRoutes
      BY DEF LoadServices, LoadRoutes, ApplyRoutes
    <2>3. LiveIsStored' /\ Carried(CfIdle)'
      BY <2>1, <2>2 DEF LiveIsStored, ApplyRoutes, Carried, CfIdle
    <2>. QED BY <2>1, <2>3 DEF Faultless, ApplyRoutes
  <1>. QED BY <1>1, <1>3, <1>4, <1>5, HandlerMoves

LEMMA DisconnectOk ==
    ASSUME ConfigInv, NEW r \in CfRequests, Disconnect(r)
    PROVE  ConfigInv'
  <1>0. cfReq[r].pc \in {"write", "reload", "routes"}
    BY DEF Disconnect
  <1>1. \A p \in CfRequests : p # r => cfReq[p].pc = "idle"
    BY <1>0, OthersIdle
  <1>2. Linked(cfLive)
    BY <1>0, <1>1 DEF ConfigInv
  <1>3. \A w \in cfLate' : w.stack \in CfStacks
    BY DEF Disconnect, ConfigInv, ConfigTypes, HandlerOk
  <1>4. ConfigTypes' /\ cfFaults' # 0
    <2>1. cfFaults' \in Nat /\ cfFaults' # 0
      BY DEF Disconnect, Fault, ConfigInv, ConfigTypes
    <2>. QED BY <1>3, <2>1 DEF Disconnect, ConfigInv, ConfigTypes, IsFcn
  <1>5. HandlerOk(CfIdle)' /\ Linked(cfLive)' /\ cfReq' = [cfReq EXCEPT ![r] = CfIdle]
    BY <1>2 DEF Disconnect, HandlerOk, Linked, CfIdle
  <1>. QED BY <1>1, <1>4, <1>5, HandlerMoves

LEMMA CommitLateOk ==
    ASSUME ConfigInv, NEW w \in cfLate, CommitLate(w)
    PROVE  ConfigInv'
  <1>1. /\ IsFcn(cfDb') /\ DOMAIN cfDb' \subseteq CfStacks
        /\ IsFcn(cfObs') /\ DOMAIN cfObs' = CfStacks /\ \A s \in CfStacks : IsObs(cfObs'[s])
        /\ \A s \in CfStacks : cfObs'[s].state = "active" => cfObs[s].state = "active"
    BY CommitTypes DEF ConfigInv, ConfigTypes, CommitLate
  <1>2. ConfigTypes'
    BY <1>1 DEF ConfigInv, ConfigTypes, CommitLate, IsFcn
  <1>3. cfFaults' # 0
    BY DEF ConfigInv, Faultless, CommitLate
  <1>4. ASSUME NEW live, DOMAIN live \subseteq CfStacks, Linked(live) PROVE Linked(live)'
    BY <1>1, <1>4 DEF Linked
  <1>5. ASSUME NEW p \in CfRequests PROVE HandlerOk(cfReq[p])'
    <2>1. PICK q : q = cfReq[p]
      OBVIOUS
    <2>2. HandlerOk(q) /\ cfReq'[p] = q
      BY <2>1 DEF ConfigInv, CommitLate
    <2>3. HandlerOk(q)'
      BY <1>4, <2>2 DEF HandlerOk
    <2>. QED BY <2>2, <2>3 DEF HandlerOk, Linked
  <1>6. OneHandler'
    BY DEF CommitLate, ConfigInv, OneHandler
  <1>7. (\A p \in CfRequests : cfReq'[p].pc # "apply") => Linked(cfLive)'
    BY <1>1 DEF Linked, ConfigInv, ConfigTypes, CommitLate
  <1>. QED BY <1>2, <1>3, <1>5, <1>6, <1>7 DEF ConfigInv

\* A handler of observation takes the lock, with the snapshot to apply.
LEMMA ObservationBegins ==
    ASSUME ConfigInv, NEW r \in CfRequests, Locks(r), NEW db, NEW obs, NEW loaded,
           cfDb' = db, cfObs' = obs, Apply(r, loaded),
           UNCHANGED <<cfLive, cfRoutes, cfLate, cfUp, cfFaults>>,
           IsFcn(db), DOMAIN db = DOMAIN cfDb, \A t \in DOMAIN db : db[t].routes = cfDb[t].routes,
           IsFcn(obs), DOMAIN obs = CfStacks, \A t \in CfStacks : IsObs(obs[t]),
           loaded = [t \in DOMAIN db |-> IF obs[t].state = "active" THEN Observed(db[t]) ELSE Lists(db[t])],
           cfFaults = 0 => Validates(db, obs) /\ Apart(db)
    PROVE  ConfigInv'
  <1>0. \A p \in CfRequests : cfReq[p].pc = "idle"
    BY DEF Locks, Locked
  <1>1. ConfigTypes'
    BY DEF ConfigInv, ConfigTypes, Apply, IsFcn
  <1>2. LoadServices' = loaded /\ LoadRoutes' = LoadRoutes
    BY DEF LoadServices, LoadRoutes
  <1>3. PICK q : q = [pc |-> "apply", live |-> loaded, routes |-> LoadRoutes]
    OBVIOUS
  <1>4. q.pc = "apply" /\ q.live = loaded /\ q.routes = LoadRoutes /\ cfReq' = [cfReq EXCEPT ![r] = q]
    BY <1>3 DEF Apply
  <1>5. DOMAIN loaded \subseteq CfStacks
    BY DEF ConfigInv, ConfigTypes
  <1>6. Linked(loaded)'
    BY DEF Linked, Observed
  <1>7. HandlerOk(q)'
    BY <1>4, <1>5, <1>6 DEF HandlerOk, Linked
  <1>8. ASSUME cfFaults' = 0
        PROVE  cfLate' = {} /\ cfUp' /\ Validates(cfDb', cfObs') /\ Apart(cfDb') /\ Carried(q)'
    <2>1. Faultless
      BY <1>8 DEF ConfigInv
    <2>2. Carried(q)'
      BY <1>2, <1>4 DEF Carried
    <2>. QED BY <1>8, <2>1, <2>2 DEF Faultless
  <1>. QED BY <1>0, <1>1, <1>4, <1>7, <1>8, HandlerMoves

LEMMA StartObservationOk ==
    ASSUME ConfigInv, NEW r \in CfRequests, NEW s \in CfStacks, StartObservation(r, s)
    PROVE  ConfigInv'
  <1>0. PICK db, obs, x, loaded :
            /\ db = cfDb /\ x = [state |-> "active", saved |-> {Lists(cfDb[s])}, applied |-> FALSE]
            /\ obs = [cfObs EXCEPT ![s] = x] /\ loaded = Put(LoadServices, s, Observed(cfDb[s]))
    OBVIOUS
  <1>1. /\ cfDb' = db /\ cfObs' = obs /\ Apply(r, loaded) /\ Locks(r)
        /\ UNCHANGED <<cfLive, cfRoutes, cfLate, cfUp, cfFaults>>
    BY <1>0 DEF StartObservation
  <1>2. IsObs(x) /\ x.state = "active"
    BY <1>0 DEF IsObs
  <1>3. obs = [t \in CfStacks |-> IF t = s THEN x ELSE cfObs[t]]
    BY <1>0 DEF ConfigInv, ConfigTypes
  <1>4. IsFcn(obs) /\ DOMAIN obs = CfStacks /\ \A t \in CfStacks : IsObs(obs[t])
    BY <1>2, <1>3 DEF IsFcn, ConfigInv, ConfigTypes
  <1>5. s \in DOMAIN cfDb /\ DOMAIN cfDb \subseteq CfStacks /\ IsFcn(cfDb)
    BY DEF StartObservation, ConfigInv, ConfigTypes
  <1>6. loaded = [t \in DOMAIN db |-> IF obs[t].state = "active" THEN Observed(db[t]) ELSE Lists(db[t])]
    BY <1>0, <1>2, <1>3, <1>5, RowsLoad DEF Put, LoadServices
  <1>7. ASSUME cfFaults = 0 PROVE Validates(db, obs) /\ Apart(db)
    <2>1. Validates(cfDb, cfObs) /\ Apart(cfDb)
      BY <1>7 DEF ConfigInv, Faultless
    <2>2. Observable(cfDb[s].svcs)
      BY DEF StartObservation
    <2>. QED BY <1>0, <1>3, <1>5, <2>1, <2>2 DEF Validates
  <1>. QED BY <1>0, <1>1, <1>4, <1>5, <1>6, <1>7, ObservationBegins

LEMMA StopObservationOk ==
    ASSUME ConfigInv, NEW r \in CfRequests, NEW s \in CfStacks, StopObservation(r, s)
    PROVE  ConfigInv'
  <1>0. PICK db, obs, x, loaded :
            /\ db = cfDb /\ x = [cfObs[s] EXCEPT !.state = "ended"]
            /\ obs = [cfObs EXCEPT ![s] = x] /\ loaded = Put(LoadServices, s, Lists(cfDb[s]))
    OBVIOUS
  <1>1. /\ cfDb' = db /\ cfObs' = obs /\ Apply(r, loaded) /\ Locks(r)
        /\ UNCHANGED <<cfLive, cfRoutes, cfLate, cfUp, cfFaults>>
    BY <1>0 DEF StopObservation
  <1>2. IsObs(x) /\ x.state = "ended"
    <2>1. IsObs(cfObs[s])
      BY DEF ConfigInv, ConfigTypes
    <2>. QED BY <1>0, <2>1 DEF IsObs
  <1>3. obs = [t \in CfStacks |-> IF t = s THEN x ELSE cfObs[t]]
    BY <1>0 DEF ConfigInv, ConfigTypes
  <1>4. IsFcn(obs) /\ DOMAIN obs = CfStacks /\ \A t \in CfStacks : IsObs(obs[t])
    BY <1>2, <1>3 DEF IsFcn, ConfigInv, ConfigTypes
  <1>5. s \in DOMAIN cfDb /\ DOMAIN cfDb \subseteq CfStacks /\ IsFcn(cfDb)
    BY DEF StopObservation, ConfigInv, ConfigTypes
  <1>6. loaded = [t \in DOMAIN db |-> IF obs[t].state = "active" THEN Observed(db[t]) ELSE Lists(db[t])]
    BY <1>0, <1>2, <1>3, <1>5, RowsLoad DEF Put, LoadServices
  <1>7. ASSUME cfFaults = 0 PROVE Validates(db, obs) /\ Apart(db)
    <2>1. Validates(cfDb, cfObs) /\ Apart(cfDb)
      BY <1>7 DEF ConfigInv, Faultless
    <2>. QED BY <1>0, <1>2, <1>3, <1>5, <2>1 DEF Validates
  <1>. QED BY <1>0, <1>1, <1>4, <1>5, <1>6, <1>7, ObservationBegins

LEMMA ApplyObservationOk ==
    ASSUME ConfigInv, NEW r \in CfRequests, NEW s \in CfStacks, NEW seen, ApplyObservation(r, s, seen)
    PROVE  ConfigInv'
  <1>0. PICK db, obs, x, row, loaded :
            /\ row = RouteRow([svcs |-> cfDb[s].svcs, links |-> seen], cfDb[s].routes)
            /\ db = [cfDb EXCEPT ![s] = row] /\ x = [cfObs[s] EXCEPT !.applied = TRUE]
            /\ obs = [cfObs EXCEPT ![s] = x] /\ loaded = Put(LoadServices, s, [svcs |-> cfDb[s].svcs, links |-> seen])
    OBVIOUS
  <1>1. /\ cfDb' = db /\ cfObs' = obs /\ Apply(r, loaded) /\ Locks(r)
        /\ UNCHANGED <<cfLive, cfRoutes, cfLate, cfUp, cfFaults>>
    BY <1>0 DEF ApplyObservation
  <1>2. IsObs(x) /\ x.state = "ended"
    <2>1. IsObs(cfObs[s]) /\ cfObs[s].state = "ended"
      BY DEF ConfigInv, ConfigTypes, ApplyObservation
    <2>. QED BY <1>0, <2>1 DEF IsObs
  <1>3. obs = [t \in CfStacks |-> IF t = s THEN x ELSE cfObs[t]]
    BY <1>0 DEF ConfigInv, ConfigTypes
  <1>4. IsFcn(obs) /\ DOMAIN obs = CfStacks /\ \A t \in CfStacks : IsObs(obs[t])
    BY <1>2, <1>3 DEF IsFcn, ConfigInv, ConfigTypes
  <1>5. s \in DOMAIN cfDb /\ DOMAIN cfDb \subseteq CfStacks
    BY DEF ApplyObservation, ConfigInv, ConfigTypes
  <1>6. db = [t \in DOMAIN cfDb |-> IF t = s THEN row ELSE cfDb[t]]
    BY <1>0 DEF ConfigInv, ConfigTypes
  <1>7. IsFcn(db) /\ DOMAIN db = DOMAIN cfDb
    BY <1>6 DEF IsFcn
  <1>8. row.svcs = cfDb[s].svcs /\ row.routes = cfDb[s].routes /\ Lists(row) = [svcs |-> cfDb[s].svcs, links |-> seen]
    BY <1>0 DEF RouteRow, Lists
  <1>9. \A t \in DOMAIN db : db[t].routes = cfDb[t].routes /\ db[t].svcs = cfDb[t].svcs
    BY <1>6, <1>8
  <1>10. loaded = [t \in DOMAIN db |-> IF obs[t].state = "active" THEN Observed(db[t]) ELSE Lists(db[t])]
    <2>1. loaded = [t \in DOMAIN cfDb |-> IF t = s THEN Lists(row) ELSE LoadServices[t]]
      BY <1>0, <1>5, <1>8, RowsLoad DEF Put
    <2>2. ASSUME NEW t \in DOMAIN cfDb
          PROVE  (IF t = s THEN Lists(row) ELSE LoadServices[t])
                   = IF obs[t].state = "active" THEN Observed(db[t]) ELSE Lists(db[t])
      BY <1>2, <1>3, <1>5, <1>6 DEF LoadServices
    <2>. QED BY <1>7, <2>1, <2>2
  <1>11. ASSUME cfFaults = 0 PROVE Validates(db, obs) /\ Apart(db)
    <2>1. Validates(cfDb, cfObs) /\ Apart(cfDb)
      BY <1>11 DEF ConfigInv, Faultless
    <2>2. Validates(db, obs)
      BY <1>2, <1>3, <1>5, <1>7, <1>9, <2>1 DEF Validates
    <2>3. Apart(db)
      BY <1>7, <1>9, <2>1 DEF Apart
    <2>. QED BY <2>2, <2>3
  <1>. QED BY <1>1, <1>4, <1>7, <1>9, <1>10, <1>11, ObservationBegins

LEMMA ApplyLoadedOk ==
    ASSUME ConfigInv, NEW r \in CfRequests, ApplyLoaded(r)
    PROVE  ConfigInv'
  <1>1. \A p \in CfRequests : p # r => cfReq[p].pc = "idle"
    BY OthersIdle DEF ApplyLoaded
  <1>2. PICK q : q = [pc |-> "finish", routes |-> cfReq[r].routes]
    OBVIOUS
  <1>3. q.pc = "finish" /\ q.routes = cfReq[r].routes /\ cfReq' = [cfReq EXCEPT ![r] = q]
    BY <1>2 DEF ApplyLoaded
  <1>4. Linked(cfLive') /\ DOMAIN cfLive' \subseteq CfStacks
    BY DEF ApplyLoaded, ConfigInv, HandlerOk, Linked
  <1>5. ConfigTypes'
    BY <1>4 DEF ApplyLoaded, ConfigInv, ConfigTypes, IsFcn
  <1>6. HandlerOk(q)' /\ Linked(cfLive)'
    BY <1>3, <1>4 DEF HandlerOk, Linked, ApplyLoaded
  <1>7. ASSUME cfFaults' = 0
        PROVE  cfLate' = {} /\ cfUp' /\ Validates(cfDb', cfObs') /\ Apart(cfDb') /\ Carried(q)'
    <2>1. Faultless /\ cfReq[r].live = LoadServices /\ cfReq[r].routes = LoadRoutes
      BY <1>7 DEF ConfigInv, Faultless, Carried, ApplyLoaded
    <2>2. LoadServices' = LoadServices /\ LoadRoutes' = LoadRoutes
      BY DEF LoadServices, LoadRoutes, ApplyLoaded
    <2>3. Carried(q)'
      BY <1>3, <2>1, <2>2 DEF Carried, ApplyLoaded
    <2>. QED BY <2>1, <2>3 DEF Faultless, ApplyLoaded
  <1>. QED BY <1>1, <1>3, <1>5, <1>6, <1>7, HandlerMoves

LEMMA RestartOk ==
    ASSUME ConfigInv, Restart
    PROVE  ConfigInv'
  <1>0. PICK stacks : /\ stacks = IF CanLoad THEN StartStacks ELSE {}
                      /\ cfLive' = Restrict(LoadServices, stacks) /\ cfRoutes' = Restrict(LoadRoutes, stacks)
    BY DEF Restart
  <1>1. stacks \subseteq DOMAIN cfDb
    BY <1>0 DEF StartStacks
  <1>2. DOMAIN cfLive' = stacks /\ \A t \in stacks : cfLive'[t] = LoadServices[t]
    BY <1>0 DEF Restrict
  <1>3. \A p \in CfRequests : cfReq'[p] = CfIdle
    BY DEF Restart
  <1>4. CfIdle.pc = "idle"
    BY DEF CfIdle
  <1>5. ConfigTypes'
    <2>1. cfUp' \in BOOLEAN
      BY DEF Restart, CanLoad
    <2>. QED BY <1>1, <1>2, <2>1 DEF Restart, ConfigInv, ConfigTypes, IsFcn
  <1>6. Linked(cfLive)'
    BY <1>1, <1>2, RowsLoad DEF Linked, Restart
  <1>7. OneHandler' /\ \A p \in CfRequests : HandlerOk(cfReq[p])'
    BY <1>3, <1>4 DEF OneHandler, HandlerOk
  <1>8. ASSUME cfFaults' = 0 PROVE Faultless'
    <2>1. Faultless
      BY <1>8 DEF Restart, ConfigInv
    <2>2. CanLoad /\ Conflicts(LoadServices, LoadRoutes) = {}
      BY <2>1, LoadIsValidation, NoConflicts DEF Faultless
    <2>3. stacks = DOMAIN cfDb
      BY <1>0, <2>2 DEF StartStacks
    <2>4. LoadServices' = LoadServices /\ LoadRoutes' = LoadRoutes
      BY DEF LoadServices, LoadRoutes, Restart
    <2>5. LiveIsStored'
      BY <1>0, <2>3, <2>4, RowsLoad DEF LiveIsStored, Restrict, IsFcn
    <2>6. \A p \in CfRequests : Carried(cfReq[p])'
      BY <1>3, <1>4 DEF Carried
    <2>7. cfLate' = {} /\ cfUp'
      BY <2>2 DEF Restart
    <2>. QED BY <2>1, <2>5, <2>6, <2>7 DEF Faultless, Restart
  <1>. QED BY <1>5, <1>6, <1>7, <1>8 DEF ConfigInv

\* What is live can change under a handler that reloads only by its reload or
\* by a restart, and both leave out what conflicts.
LEMMA ReloadKeepsApart ==
    ASSUME ConfigInv, [ConfigNext]_cfVars, NEW r \in CfRequests, cfReq[r].pc = "reload", cfLive' # cfLive
    PROVE  PortConflicts(cfLive') \cup NameConflicts(cfLive') = {}
  <1>1. (\E q \in CfRequests, b \in BOOLEAN : Reload(q, b)) \/ (\E q \in CfRequests : ApplyLoaded(q)) \/ Restart
    <2>1. ASSUME NEW q, NEW s, NEW o, NEW t
          PROVE  /\ SaveServices(q, s, o) => cfLive' = cfLive
                 /\ SaveRoutes(q, s, t) => cfLive' = cfLive
                 /\ Import(q, s, o, t) => cfLive' = cfLive
                 /\ DeleteStack(q, s) => cfLive' = cfLive
      BY DEF SaveServices, SaveRoutes, Import, DeleteStack
    <2>2. ASSUME NEW q, NEW s, NEW seen
          PROVE  /\ StartObservation(q, s) => cfLive' = cfLive
                 /\ StopObservation(q, s) => cfLive' = cfLive
                 /\ ApplyObservation(q, s, seen) => cfLive' = cfLive
      BY DEF StartObservation, StopObservation, ApplyObservation
    <2>3. ASSUME NEW q, NEW b
          PROVE  /\ WriteRows(q, b) => cfLive' = cfLive
                 /\ ApplyRoutes(q) => cfLive' = cfLive
                 /\ Disconnect(q) => cfLive' = cfLive
                 /\ CommitLate(q) => cfLive' = cfLive
      BY DEF WriteRows, ApplyRoutes, Disconnect, CommitLate
    <2>4. UNCHANGED cfVars => cfLive' = cfLive
      BY DEF cfVars
    <2>. QED BY <2>1, <2>2, <2>3, <2>4 DEF ConfigNext
  <1>2. ASSUME NEW q \in CfRequests, NEW b \in BOOLEAN, Reload(q, b)
        PROVE  PortConflicts(cfLive') \cup NameConflicts(cfLive') = {}
    <2>1. Conflicts(LoadServices, LoadRoutes) = {} /\ cfLive' = LoadServices
      BY <1>2 DEF Reload
    <2>. QED BY <2>1 DEF Conflicts
  <1>3. ASSUME NEW q \in CfRequests, ApplyLoaded(q) PROVE FALSE
    BY <1>3 DEF ApplyLoaded, ConfigInv, OneHandler
  <1>4. ASSUME Restart PROVE PortConflicts(cfLive') \cup NameConflicts(cfLive') = {}
    <2>0. PICK stacks, full, live : /\ stacks = IF CanLoad THEN StartStacks ELSE {}
                                    /\ full = LoadServices /\ live = Restrict(full, stacks) /\ live = cfLive'
      BY <1>4 DEF Restart
    <2>1. /\ stacks \subseteq DOMAIN full
          /\ \A t \in stacks : t \notin PortConflicts(full) /\ t \notin NameConflicts(full)
      BY <2>0, RowsLoad DEF StartStacks, Conflicts
    <2>2. DOMAIN live = stacks /\ \A t \in stacks : live[t] = full[t]
      BY <2>0 DEF Restrict
    <2>3. NameConflicts(live) = {}
      BY <2>1, <2>2 DEF NameConflicts
    <2>4. ASSUME NEW y \in PortHolders(live) PROVE y \in PortHolders(full) /\ y[1] \in stacks
      <3>1. PICK s \in DOMAIN live : \E n \in DOMAIN live[s].svcs : y = <<s, n>> /\ live[s].svcs[n] = "tcp"
        BY Holders
      <3>2. y \in PortHolders(full)
        BY <2>1, <2>2, <3>1, Holders
      <3>. QED BY <2>2, <3>1, <3>2
    <2>5. PortConflicts(live) = {}
      BY <2>1, <2>4 DEF PortConflicts
    <2>. QED BY <2>0, <2>3, <2>5
  <1>. QED BY <1>1, <1>2, <1>3, <1>4

LEMMA ConfigStarts == ConfigInit => ConfigInv
  <1> SUFFICES ASSUME ConfigInit PROVE ConfigInv
    OBVIOUS
  <1>1. DOMAIN cfDb = {} /\ IsFcn(cfDb) /\ DOMAIN cfLive = {} /\ DOMAIN cfRoutes = {}
    BY DEF ConfigInit, IsFcn
  <1>2. IsFcn(cfObs) /\ DOMAIN cfObs = CfStacks /\ \A s \in CfStacks : cfObs[s] = NoRow
    BY DEF ConfigInit, IsFcn
  <1>3. IsObs(NoRow) /\ NoRow.state = "none"
    BY DEF NoRow, IsObs
  <1>4. IsFcn(cfReq) /\ DOMAIN cfReq = CfRequests /\ \A r \in CfRequests : cfReq[r].pc = "idle"
    BY DEF ConfigInit, IsFcn, CfIdle
  <1>5. ConfigTypes
    BY <1>1, <1>2, <1>3, <1>4 DEF ConfigTypes, ConfigInit
  <1>6. OneHandler /\ Linked(cfLive) /\ \A r \in CfRequests : HandlerOk(cfReq[r]) /\ Carried(cfReq[r])
    BY <1>1, <1>4 DEF OneHandler, Linked, HandlerOk, Carried
  <1>7. LiveIsStored
    <2>1. cfLive = LoadServices
      BY <1>1 DEF ConfigInit, LoadServices
    <2>2. cfRoutes = LoadRoutes
      BY <1>1 DEF ConfigInit, LoadRoutes
    <2>. QED BY <2>1, <2>2 DEF LiveIsStored
  <1>8. Validates(cfDb, cfObs) /\ Apart(cfDb)
    BY <1>1 DEF Validates, Apart
  <1>. QED BY <1>5, <1>6, <1>7, <1>8 DEF ConfigInv, Faultless, ConfigInit

LEMMA ConfigSteps == ConfigInv /\ [ConfigNext]_cfVars => ConfigInv'
  <1> SUFFICES ASSUME ConfigInv, [ConfigNext]_cfVars PROVE ConfigInv'
    OBVIOUS
  <1>1. CASE UNCHANGED cfVars
    <2>1. ConfigTypes' /\ OneHandler'
      BY <1>1 DEF cfVars, ConfigInv, ConfigTypes, IsFcn, OneHandler
    <2>2. \A r \in CfRequests : HandlerOk(cfReq[r])'
      BY <1>1 DEF cfVars, ConfigInv, HandlerOk, Linked
    <2>3. (\A r \in CfRequests : cfReq'[r].pc # "apply") => Linked(cfLive)'
      BY <1>1 DEF cfVars, ConfigInv, Linked
    <2>4. ASSUME cfFaults' = 0 PROVE Faultless'
      <3>1. Faultless
        BY <1>1, <2>4 DEF cfVars, ConfigInv
      <3>2. LoadServices' = LoadServices /\ LoadRoutes' = LoadRoutes
        BY <1>1 DEF cfVars, LoadServices, LoadRoutes
      <3>3. ASSUME NEW r \in CfRequests PROVE Carried(cfReq[r])'
        <4>1. CommitOk(cfReq[r]) => CommitOk(cfReq[r])'
          BY <1>1 DEF cfVars, CommitOk, Committed, ObsAfter
        <4>. QED BY <1>1, <3>1, <3>2, <4>1 DEF cfVars, Carried, LiveIsStored, Faultless
      <3>4. (~Locked)' => LiveIsStored'
        BY <1>1, <3>1, <3>2 DEF cfVars, Locked, LiveIsStored, Faultless
      <3>. QED BY <1>1, <3>1, <3>3, <3>4 DEF cfVars, Faultless
    <2>. QED BY <2>1, <2>2, <2>3, <2>4 DEF ConfigInv
  <1>2. ASSUME NEW r \in CfRequests, NEW s \in CfStacks, NEW o \in CfOffers, SaveServices(r, s, o) PROVE ConfigInv'
    BY <1>2, SaveServicesOk
  <1>3. ASSUME NEW r \in CfRequests, NEW s \in CfStacks, NEW t \in RouteTables, SaveRoutes(r, s, t) PROVE ConfigInv'
    BY <1>3, SaveRoutesOk
  <1>4. ASSUME NEW r \in CfRequests, NEW s \in CfStacks, NEW o \in CfOffers, NEW t \in RouteTables, Import(r, s, o, t)
        PROVE  ConfigInv'
    BY <1>4, ImportOk
  <1>5. ASSUME NEW r \in CfRequests, NEW s \in CfStacks, DeleteStack(r, s) PROVE ConfigInv'
    BY <1>5, DeleteStackOk
  <1>6. ASSUME NEW r \in CfRequests, NEW s \in CfStacks, StartObservation(r, s) PROVE ConfigInv'
    BY <1>6, StartObservationOk
  <1>7. ASSUME NEW r \in CfRequests, NEW s \in CfStacks, StopObservation(r, s) PROVE ConfigInv'
    BY <1>7, StopObservationOk
  <1>8. ASSUME NEW r \in CfRequests, NEW s \in CfStacks, NEW seen, ApplyObservation(r, s, seen) PROVE ConfigInv'
    BY <1>8, ApplyObservationOk
  <1>9. ASSUME NEW r \in CfRequests, NEW b \in BOOLEAN, WriteRows(r, b) PROVE ConfigInv'
    BY <1>9, WriteRowsOk
  <1>10. ASSUME NEW r \in CfRequests, NEW b \in BOOLEAN, Reload(r, b) PROVE ConfigInv'
    BY <1>10, ReloadOk
  <1>11. ASSUME NEW r \in CfRequests, ApplyRoutes(r) PROVE ConfigInv'
    BY <1>11, ApplyRoutesOk
  <1>12. ASSUME NEW r \in CfRequests, ApplyLoaded(r) PROVE ConfigInv'
    BY <1>12, ApplyLoadedOk
  <1>13. ASSUME NEW r \in CfRequests, Disconnect(r) PROVE ConfigInv'
    BY <1>13, DisconnectOk
  <1>14. ASSUME NEW w \in cfLate, CommitLate(w) PROVE ConfigInv'
    BY <1>14, CommitLateOk
  <1>15. CASE Restart
    BY <1>15, RestartOk
  <1>. QED BY <1>1, <1>2, <1>3, <1>4, <1>5, <1>6, <1>7, <1>8, <1>9, <1>10, <1>11, <1>12, <1>13, <1>14, <1>15 DEF ConfigNext

\* Whatever the stacks, hosts, offers and bounds: what is stored can be loaded
\* and what was answered is live as long as nothing failed, an observed stack
\* has every link, and no reload makes two stacks claim one name or port.
THEOREM EditsTakeEffectAlways == ConfigSpec => EditsTakeEffect
  <1>1. ConfigSpec => []ConfigInv
    BY ConfigStarts, ConfigSteps, PTL DEF ConfigSpec
  <1>2. ConfigInv => EditsKeepConfigLoadable /\ AnsweredEditIsLive /\ ObservedHasEveryLink
    <2> SUFFICES ASSUME ConfigInv PROVE EditsKeepConfigLoadable /\ AnsweredEditIsLive /\ ObservedHasEveryLink
      OBVIOUS
    <2>1. EditsKeepConfigLoadable
      BY LoadIsValidation DEF EditsKeepConfigLoadable, ConfigInv, Faultless
    <2>2. AnsweredEditIsLive
      BY DEF AnsweredEditIsLive, ConfigInv, Faultless, LiveIsStored
    <2>3. ObservedHasEveryLink
      BY DEF ObservedHasEveryLink, ConfigInv, Linked, Locked
    <2>. QED BY <2>1, <2>2, <2>3
  <1>3. ConfigInv /\ [ConfigNext]_cfVars
          => [\A r \in CfRequests : (cfReq[r].pc = "reload" /\ cfLive' # cfLive) =>
                PortConflicts(cfLive') \cup NameConflicts(cfLive') = {}]_cfVars
    BY ReloadKeepsApart
  <1>. QED BY <1>1, <1>2, <1>3, PTL DEF ConfigSpec, EditsTakeEffect, ReloadKeepsNamesApart

-----------------------------------------------------------------------------
(* TrafficFilter.  A verdict, and a flow that is let in on one, is of the  *)
(* egress policy in force unless an announcement is still under way or it  *)
(* was held while one was handled; a session is on its way with the        *)
(* ingress policy in force, or was let in by it, unless a change overtook  *)
(* it.  Each is said of one flow, verdict or session at a time.            *)

CheckSteps == {"check", "claim", "lookup"}
EndRecord == [pc : {"new", "ask", "answer", "steer", "open", "cached"} \cup CheckSteps, pol : Policies,
              ok : BOOLEAN, gen : Nat, geo : {"listed", "unknown"}, over : BOOLEAN]

FilterTypes ==
    /\ tfPolicy \in [{"egress", "ingress"} -> Policies]
    /\ tfGen \in Nat /\ tfChanged \in Nat /\ tfFlushes \in Nat /\ tfEnsure \in Nat
    /\ tfFlushed \in BOOLEAN /\ tfInflight \in BOOLEAN
    /\ tfEnd \in [TfEnds -> EndRecord]
    /\ tfVerdicts \subseteq EndRecord

\* t is of the egress policy in force, or a change overtook it.
InForce(t) == t.gen = tfGen \/ t.over

FlowOk(t) ==
    /\ t.pc \in CheckSteps \cup {"answer", "steer"} /\ tfChanged = 0 => InForce(t)
    /\ t.pc = "open" /\ tfChanged = 0 /\ tfFlushes = 0 /\ tfFlushed => InForce(t)

VerdictOk(t) == tfChanged = 0 => InForce(t)

SessionOk(t) ==
    ~t.over =>
        /\ t.pc \in CheckSteps => t.pol = tfPolicy["ingress"]
        /\ t.pc \in {"steer", "open"} \/ (t.pc = "answer" /\ t.ok) => Allows(tfPolicy["ingress"], t.geo)

EndOk(e, t) == (e \in TfFlows => FlowOk(t)) /\ (e \in TfSessions => SessionOk(t))

FilterInv ==
    /\ FilterTypes
    /\ \A e \in TfEnds : EndOk(e, tfEnd[e])
    /\ \A v \in tfVerdicts : VerdictOk(v)
    /\ LookupNotPinned

\* The record an end of a check moves to is typed when its fields are.
LEMMA NewEndRecord == NewEnd \in EndRecord /\ \A e : EndOk(e, NewEnd)
  BY DEF NewEnd, EndRecord, EndOk, FlowOk, SessionOk, CheckSteps, Policies

\* One flow or session moves to t, and the change of policy stands still.
LEMMA EndMoves ==
    ASSUME FilterInv, NEW e \in TfEnds, NEW t \in EndRecord, Set(e, t), EndOk(e, t), UNCHANGED changeVars,
           tfVerdicts' \subseteq EndRecord, \A v \in tfVerdicts' : VerdictOk(v),
           tfInflight' \in BOOLEAN, tfEnsure' \in Nat,
           tfInflight' => \/ t.pc = "lookup" \/ tfEnsure' > 0
                          \/ tfInflight /\ tfEnsure' = tfEnsure /\ tfEnd[e].pc # "lookup"
    PROVE  FilterInv'
  <1>1. FilterTypes /\ LookupNotPinned /\ \A x \in TfEnds : EndOk(x, tfEnd[x])
    BY DEF FilterInv
  <1>2. /\ tfEnd' = [tfEnd EXCEPT ![e] = t]
        /\ UNCHANGED <<tfPolicy, tfGen, tfChanged, tfFlushes, tfFlushed>>
    BY DEF Set, changeVars
  <1>3. \A x \in TfEnds : tfEnd'[x] = IF x = e THEN t ELSE tfEnd[x]
    BY <1>1, <1>2 DEF FilterTypes
  <1>4. tfEnd' \in [TfEnds -> EndRecord]
    BY <1>1, <1>2 DEF FilterTypes
  <1>5. FilterTypes'
    BY <1>1, <1>2, <1>4 DEF FilterTypes
  <1>6. \A x \in TfEnds : EndOk(x, tfEnd[x])'
    BY <1>1, <1>3, <1>2 DEF EndOk, FlowOk, SessionOk, InForce
  <1>7. \A v \in tfVerdicts' : VerdictOk(v)'
    BY <1>2 DEF VerdictOk, InForce
  <1>8. LookupNotPinned'
    BY <1>1, <1>3 DEF LookupNotPinned
  <1>. QED BY <1>5, <1>6, <1>7, <1>8 DEF FilterInv

\* What an answer is worth: the policy that was read, on the country found.
LEMMA Decided ==
    ASSUME FilterInv, NEW e \in TfEnds, tfEnd[e].pc \in CheckSteps,
           NEW geo \in {"listed", "unknown"}, Decide(e, geo)
    PROVE  \E t \in EndRecord : Set(e, t) /\ t.pc = "answer" /\ EndOk(e, t)
  <1> DEFINE o == tfEnd[e]
             t == [o EXCEPT !.pc = "answer", !.ok = Allows(o.pol, geo), !.pol = "none",
                            !.geo = IF e \in TfSessions THEN geo ELSE @]
  <1>1. o \in EndRecord /\ EndOk(e, o)
    BY DEF FilterInv, FilterTypes
  <1>2. Allows(o.pol, geo) \in BOOLEAN
    BY <1>1 DEF Allows, EndRecord, Policies
  <1>3. Set(e, t)
    BY DEF Decide
  <1> HIDE DEF o
  <1>4. t \in EndRecord
    BY <1>1, <1>2 DEF EndRecord, Policies
  <1>5. /\ t.pc = "answer" /\ t.ok = Allows(o.pol, geo) /\ t.gen = o.gen /\ t.over = o.over
        /\ e \in TfSessions => t.geo = geo
    BY <1>1 DEF EndRecord
  <1>6. o.pc \in CheckSteps
    BY DEF o
  <1> HIDE DEF t
  <1>7. e \in TfFlows => FlowOk(t)
    BY <1>1, <1>5, <1>6 DEF EndOk, FlowOk, InForce, CheckSteps
  <1>8. e \in TfSessions => SessionOk(t)
    BY <1>1, <1>5, <1>6 DEF EndOk, SessionOk, CheckSteps
  <1>. QED BY <1>3, <1>4, <1>5, <1>7, <1>8 DEF EndOk

\* An end that only moves to another step of its check stays right.
LEMMA StepOf ==
    ASSUME FilterInv, NEW e \in TfEnds, tfEnd[e].pc \in CheckSteps, NEW pc \in CheckSteps
    PROVE  /\ [tfEnd[e] EXCEPT !.pc = pc] \in EndRecord /\ EndOk(e, [tfEnd[e] EXCEPT !.pc = pc])
           /\ [tfEnd[e] EXCEPT !.pc = pc].pc = pc
  <1> DEFINE o == tfEnd[e]
             t == [o EXCEPT !.pc = pc]
  <1>1. o \in EndRecord /\ EndOk(e, o) /\ o.pc \in CheckSteps
    BY DEF FilterInv, FilterTypes
  <1> HIDE DEF o
  <1>2. t \in EndRecord
    BY <1>1 DEF EndRecord
  <1>3. t.pc = pc /\ t.gen = o.gen /\ t.over = o.over /\ t.pol = o.pol /\ t.geo = o.geo
    BY <1>1 DEF EndRecord
  <1> HIDE DEF t
  <1>4. EndOk(e, t)
    BY <1>1, <1>3 DEF EndOk, FlowOk, SessionOk, InForce, CheckSteps
  <1>. QED BY <1>2, <1>3, <1>4 DEF o, t

LEMMA CheckStepsMove ==
    ASSUME FilterInv, NEW e \in TfEnds,
           LookupCached(e) \/ ClaimLookup(e) \/ \E res \in {"listed", "empty"} : LookupDone(e, res)
    PROVE  FilterInv'
  <1>1. FilterTypes /\ \A v \in tfVerdicts : VerdictOk(v)
    BY DEF FilterInv
  <1>2. CASE LookupCached(e)
    <2>1. tfEnd[e].pc = "check" /\ tfEnd[e].pc \in CheckSteps /\ UNCHANGED <<tfVerdicts, changeVars, geoVars>>
      BY <1>2 DEF LookupCached, CheckSteps
    <2>2. UNCHANGED <<tfInflight, tfEnsure>>
      BY <2>1 DEF geoVars
    <2>3. CASE Decide(e, CachedGeo)
      <3>1. CachedGeo \in {"listed", "unknown"}
        BY DEF CachedGeo
      <3>2. PICK t \in EndRecord : Set(e, t) /\ t.pc = "answer" /\ EndOk(e, t)
        BY <2>1, <2>3, <3>1, Decided
      <3>. QED BY <1>1, <2>1, <2>2, <3>2, EndMoves DEF FilterTypes
    <2>4. CASE Set(e, [tfEnd[e] EXCEPT !.pc = "claim"])
      <3> DEFINE t == [tfEnd[e] EXCEPT !.pc = "claim"]
      <3>1. t \in EndRecord /\ EndOk(e, t)
        BY <2>1, StepOf DEF CheckSteps
      <3>2. Set(e, t)
        BY <2>4
      <3> HIDE DEF t
      <3>. QED BY <1>1, <2>1, <2>2, <3>1, <3>2, EndMoves DEF FilterTypes
    <2>. QED BY <1>2, <2>3, <2>4 DEF LookupCached
  <1>3. CASE ClaimLookup(e)
    <2>1. tfEnd[e].pc = "claim" /\ tfEnd[e].pc \in CheckSteps /\ UNCHANGED <<tfVerdicts, changeVars, tfGeo, tfEnsure>>
      BY <1>3 DEF ClaimLookup, CheckSteps
    <2>2. CASE Set(e, [tfEnd[e] EXCEPT !.pc = "check"]) /\ UNCHANGED tfInflight
      <3> DEFINE t == [tfEnd[e] EXCEPT !.pc = "check"]
      <3>1. t \in EndRecord /\ EndOk(e, t)
        BY <2>1, StepOf DEF CheckSteps
      <3>2. Set(e, t)
        BY <2>2
      <3> HIDE DEF t
      <3>. QED BY <1>1, <2>1, <2>2, <3>1, <3>2, EndMoves DEF FilterTypes
    <2>3. CASE Decide(e, "unknown") /\ UNCHANGED tfInflight
      <3>1. PICK t \in EndRecord : Set(e, t) /\ t.pc = "answer" /\ EndOk(e, t)
        BY <2>1, <2>3, Decided
      <3>. QED BY <1>1, <2>1, <2>3, <3>1, EndMoves DEF FilterTypes
    <2>4. CASE Set(e, [tfEnd[e] EXCEPT !.pc = "lookup"]) /\ tfInflight' = TRUE
      <3> DEFINE t == [tfEnd[e] EXCEPT !.pc = "lookup"]
      <3>1. t \in EndRecord /\ EndOk(e, t) /\ t.pc = "lookup"
        BY <2>1, StepOf DEF CheckSteps
      <3>2. Set(e, t)
        BY <2>4
      <3> HIDE DEF t
      <3>. QED BY <1>1, <2>1, <2>4, <3>1, <3>2, EndMoves DEF FilterTypes
    <2>. QED BY <1>3, <2>2, <2>3, <2>4 DEF ClaimLookup
  <1>4. ASSUME NEW res \in {"listed", "empty"}, LookupDone(e, res) PROVE FilterInv'
    <2> DEFINE geo == IF res = "listed" THEN "listed" ELSE "unknown"
    <2>1. /\ tfEnd[e].pc \in CheckSteps /\ UNCHANGED <<tfVerdicts, changeVars, tfEnsure>>
          /\ tfInflight' = FALSE /\ Decide(e, geo)
      BY <1>4 DEF LookupDone, CheckSteps
    <2>2. PICK t \in EndRecord : Set(e, t) /\ t.pc = "answer" /\ EndOk(e, t)
      BY <2>1, Decided
    <2>. QED BY <1>1, <2>1, <2>2, EndMoves DEF FilterTypes
  <1>. QED BY <1>2, <1>3, <1>4

LEMMA AskedStep ==
    ASSUME FilterInv, NEW e \in TfEnds, Packet(e) \/ Arrive(e)
    PROVE  FilterInv'
  <1> DEFINE a == [NewEnd EXCEPT !.pc = "ask"]
  <1>1. FilterTypes /\ \A v \in tfVerdicts : VerdictOk(v)
    BY DEF FilterInv
  <1>2. a \in EndRecord /\ EndOk(e, a)
    BY DEF NewEnd, EndRecord, EndOk, FlowOk, SessionOk, CheckSteps, Policies
  <1> HIDE DEF a
  <1>3. CASE Packet(e)
    <2>1. e \in TfFlows /\ e \notin TfSessions /\ tfEnd[e].pc = "new" /\ UNCHANGED <<tfVerdicts, changeVars, geoVars>>
      BY <1>3, TfAssumption DEF Packet
    <2>2. UNCHANGED <<tfInflight, tfEnsure>>
      BY <2>1 DEF geoVars
    <2>3. ASSUME NEW v \in tfVerdicts, Set(e, [v EXCEPT !.pc = "steer"]) PROVE FilterInv'
      <3> DEFINE t == [v EXCEPT !.pc = "steer"]
      <3>1. v \in EndRecord /\ VerdictOk(v)
        BY <1>1 DEF FilterTypes
      <3>2. t \in EndRecord
        BY <3>1 DEF EndRecord
      <3>3. t.pc = "steer" /\ t.gen = v.gen /\ t.over = v.over
        BY <3>1 DEF EndRecord
      <3>4. Set(e, t)
        BY <2>3
      <3> HIDE DEF t
      <3>5. EndOk(e, t)
        BY <2>1, <3>1, <3>3 DEF EndOk, FlowOk, VerdictOk, InForce
      <3>. QED BY <1>1, <2>1, <2>2, <3>2, <3>4, <3>5, EndMoves DEF FilterTypes
    <2>4. CASE Set(e, a)
      BY <1>1, <1>2, <2>1, <2>2, <2>4, EndMoves DEF FilterTypes
    <2>. QED BY <1>3, <2>3, <2>4 DEF Packet, a
  <1>4. CASE Arrive(e)
    <2>1. Set(e, a) /\ tfEnd[e].pc = "new" /\ UNCHANGED <<tfVerdicts, changeVars>>
      BY <1>4 DEF Arrive, a
    <2>2. /\ tfInflight' \in BOOLEAN /\ tfEnsure' \in Nat
          /\ tfInflight' => tfEnsure' > 0 \/ (tfInflight /\ tfEnsure' = tfEnsure)
      <3>1. CASE tfInflight' = TRUE /\ tfEnsure' = tfEnsure + 1
        BY <1>1, <3>1 DEF FilterTypes
      <3>2. CASE UNCHANGED <<tfInflight, tfEnsure>>
        BY <1>1, <3>2 DEF FilterTypes
      <3>. QED BY <1>4, <3>1, <3>2 DEF Arrive, EnsureGeo
    <2>. QED BY <1>1, <1>2, <2>1, <2>2, EndMoves DEF FilterTypes
  <1>. QED BY <1>3, <1>4

LEMMA ReadPolicyStep ==
    ASSUME FilterInv, NEW e \in TfEnds, ReadPolicy(e)
    PROVE  FilterInv'
  <1> DEFINE o == tfEnd[e]
             pol == tfPolicy[Dir(e)]
             read == [o EXCEPT !.pol = pol, !.gen = IF e \in TfFlows THEN tfGen ELSE @]
             t == IF pol = "none" THEN [read EXCEPT !.pc = "answer", !.ok = TRUE] ELSE [read EXCEPT !.pc = "check"]
  <1>1. FilterTypes /\ \A v \in tfVerdicts : VerdictOk(v)
    BY DEF FilterInv
  <1>2. o \in EndRecord /\ o.pc = "ask" /\ pol \in Policies /\ tfGen \in Nat
    BY <1>1 DEF FilterTypes, ReadPolicy, Dir
  <1>3. Set(e, t) /\ UNCHANGED <<tfVerdicts, changeVars, geoVars>>
    BY DEF ReadPolicy
  <1>4. e \in TfSessions => pol = tfPolicy["ingress"]
    BY TfAssumption DEF Dir
  <1> HIDE DEF o, pol
  <1>5. read \in EndRecord /\ (e \in TfFlows => read.gen = tfGen) /\ read.pol = pol
    BY <1>2 DEF EndRecord
  <1> HIDE DEF read
  <1>6. /\ t \in EndRecord /\ (e \in TfFlows => t.gen = tfGen) /\ t.pol = pol
        /\ t.pc = IF pol = "none" THEN "answer" ELSE "check"
    <2>1. CASE pol = "none"
      BY <1>5, <2>1 DEF EndRecord
    <2>2. CASE pol # "none"
      BY <1>5, <2>2 DEF EndRecord, CheckSteps
    <2>. QED BY <2>1, <2>2
  <1> HIDE DEF t
  <1>7. e \in TfFlows => FlowOk(t)
    BY <1>6 DEF FlowOk, InForce
  <1>8. e \in TfSessions => SessionOk(t)
    <2>1. CASE pol = "none"
      BY <1>4, <1>6, <2>1 DEF SessionOk, Allows, CheckSteps
    <2>2. CASE pol # "none"
      BY <1>4, <1>6, <2>2 DEF SessionOk, CheckSteps
    <2>. QED BY <2>1, <2>2
  <1>9. UNCHANGED <<tfInflight, tfEnsure>> /\ tfEnd[e].pc # "lookup"
    BY <1>2, <1>3 DEF geoVars, o
  <1>. QED BY <1>1, <1>3, <1>6, <1>7, <1>8, <1>9, EndMoves DEF FilterTypes, EndOk

LEMMA AnsweredStep ==
    ASSUME FilterInv, NEW e \in TfEnds, CheckAnswered(e)
    PROVE  FilterInv'
  <1> DEFINE o == tfEnd[e]
             s == [o EXCEPT !.pc = "steer"]
             c == [o EXCEPT !.pc = "cached"]
  <1>1. FilterTypes /\ \A v \in tfVerdicts : VerdictOk(v)
    BY DEF FilterInv
  <1>2. o \in EndRecord /\ EndOk(e, o) /\ o.pc = "answer"
    BY <1>1 DEF FilterInv, FilterTypes, CheckAnswered
  <1>3. /\ Set(e, IF o.ok THEN s ELSE NewEnd)
        /\ tfVerdicts' = IF e \in TfFlows THEN {c} ELSE tfVerdicts
        /\ UNCHANGED <<changeVars, geoVars>>
    BY DEF CheckAnswered
  <1> HIDE DEF o
  <1>4. /\ s \in EndRecord /\ s.pc = "steer" /\ s.gen = o.gen /\ s.over = o.over /\ s.geo = o.geo
        /\ c \in EndRecord /\ c.gen = o.gen /\ c.over = o.over
    BY <1>2 DEF EndRecord
  <1> HIDE DEF s, c
  <1>5. tfVerdicts' \subseteq EndRecord /\ \A v \in tfVerdicts' : VerdictOk(v)
    <2>1. e \in TfFlows => VerdictOk(c)
      BY <1>2, <1>4 DEF EndOk, FlowOk, VerdictOk, InForce
    <2>. QED BY <1>1, <1>3, <1>4, <2>1 DEF FilterTypes
  <1>6. UNCHANGED <<tfInflight, tfEnsure>> /\ tfEnd[e].pc # "lookup"
    BY <1>2, <1>3 DEF geoVars, o
  <1>7. CASE o.ok
    <2>1. Set(e, s)
      BY <1>3, <1>7
    <2>2. EndOk(e, s)
      BY <1>2, <1>4, <1>7 DEF EndOk, FlowOk, SessionOk, InForce, CheckSteps
    <2>. QED BY <1>1, <1>3, <1>4, <1>5, <1>6, <2>1, <2>2, EndMoves DEF FilterTypes
  <1>8. CASE ~o.ok
    <2>1. Set(e, NewEnd)
      BY <1>3, <1>8
    <2>. QED BY <1>1, <1>3, <1>5, <1>6, <2>1, NewEndRecord, EndMoves DEF FilterTypes
  <1>. QED BY <1>7, <1>8

LEMMA LeavesStep ==
    ASSUME FilterInv, NEW e \in TfEnds, CheckTimeout(e) \/ Gone(e) \/ Accept(e)
    PROVE  FilterInv'
  <1>1. FilterTypes /\ \A v \in tfVerdicts : VerdictOk(v)
    BY DEF FilterInv
  <1>2. CASE CheckTimeout(e)
    <2>1. Set(e, NewEnd) /\ UNCHANGED <<tfVerdicts, changeVars, tfEnsure>>
      BY <1>2 DEF CheckTimeout
    <2>2. tfInflight' = (tfInflight /\ tfEnd[e].pc # "lookup")
      BY <1>2 DEF CheckTimeout
    <2>3. tfInflight' \in BOOLEAN /\ (tfInflight' => tfInflight /\ tfEnd[e].pc # "lookup")
      BY <2>2
    <2>. QED BY <1>1, <2>1, <2>3, NewEndRecord, EndMoves DEF FilterTypes
  <1>3. CASE Gone(e)
    <2>1. Set(e, NewEnd) /\ UNCHANGED <<tfVerdicts, changeVars, tfInflight, tfEnsure>> /\ tfEnd[e].pc # "lookup"
      BY <1>3 DEF Gone, geoVars
    <2>. QED BY <1>1, <2>1, NewEndRecord, EndMoves DEF FilterTypes
  <1>4. CASE Accept(e)
    <2> DEFINE o == tfEnd[e]
               t == [o EXCEPT !.pc = "open"]
    <2>1. o \in EndRecord /\ EndOk(e, o) /\ o.pc = "steer"
      BY <1>1, <1>4 DEF FilterInv, FilterTypes, Accept
    <2>2. Set(e, t) /\ UNCHANGED <<tfVerdicts, changeVars, tfInflight, tfEnsure>>
      BY <1>4 DEF Accept, geoVars
    <2>3. tfEnd[e].pc # "lookup"
      BY <2>1
    <2> HIDE DEF o
    <2>4. t \in EndRecord /\ t.pc = "open" /\ t.gen = o.gen /\ t.over = o.over /\ t.geo = o.geo
      BY <2>1 DEF EndRecord
    <2> HIDE DEF t
    <2>5. EndOk(e, t)
      BY <2>1, <2>4 DEF EndOk, FlowOk, SessionOk, InForce, CheckSteps
    <2>. QED BY <1>1, <2>2, <2>3, <2>4, <2>5, EndMoves DEF FilterTypes
  <1>. QED BY <1>2, <1>3, <1>4

LEMMA CachesStep ==
    ASSUME FilterInv, ExpireVerdict \/ \E res \in {"listed", "empty"} : EnsureDone(res)
    PROVE  FilterInv'
  <1>1. FilterTypes /\ \A e \in TfEnds : EndOk(e, tfEnd[e])
    BY DEF FilterInv
  <1>2. UNCHANGED <<tfPolicy, tfGen, tfChanged, tfFlushes, tfFlushed, tfEnd>>
    BY DEF ExpireVerdict, EnsureDone, changeVars
  <1>3. \A e \in TfEnds : EndOk(e, tfEnd[e])'
    BY <1>1, <1>2 DEF EndOk, FlowOk, SessionOk, InForce
  <1>4. CASE ExpireVerdict
    <2>1. tfVerdicts' = {} /\ UNCHANGED <<tfInflight, tfEnsure>>
      BY <1>4 DEF ExpireVerdict, geoVars
    <2>2. FilterTypes'
      BY <1>1, <1>2, <2>1 DEF FilterTypes
    <2>3. LookupNotPinned'
      BY <1>2, <2>1 DEF FilterInv, LookupNotPinned
    <2>. QED BY <1>3, <2>1, <2>2, <2>3 DEF FilterInv
  <1>5. ASSUME NEW res \in {"listed", "empty"}, EnsureDone(res) PROVE FilterInv'
    <2>1. tfEnsure > 0 /\ tfInflight' = FALSE /\ tfEnsure' = tfEnsure - 1 /\ UNCHANGED tfVerdicts
      BY <1>5 DEF EnsureDone
    <2>2. tfEnsure' \in Nat
      BY <1>1, <2>1 DEF FilterTypes
    <2>3. FilterTypes'
      BY <1>1, <1>2, <2>1, <2>2 DEF FilterTypes
    <2>4. \A v \in tfVerdicts' : VerdictOk(v)'
      BY <1>2, <2>1 DEF FilterInv, VerdictOk, InForce
    <2>. QED BY <1>3, <2>1, <2>3, <2>4 DEF FilterInv, LookupNotPinned
  <1>. QED BY <1>4, <1>5

LEMMA ChangeIngressStep ==
    ASSUME FilterInv, NEW new \in Policies, ChangeIngress(new)
    PROVE  FilterInv'
  <1>1. FilterTypes
    BY DEF FilterInv
  <1>2. /\ tfPolicy' = [tfPolicy EXCEPT !["ingress"] = new]
        /\ UNCHANGED <<tfGen, tfVerdicts, tfChanged, tfFlushes, tfFlushed, tfInflight, tfEnsure>>
    BY DEF ChangeIngress, geoVars
  <1>3. tfPolicy' \in [{"egress", "ingress"} -> Policies] /\ tfPolicy'["ingress"] = new
    BY <1>1, <1>2 DEF FilterTypes
  <1>4. ASSUME NEW e \in TfEnds
        PROVE  /\ tfEnd'[e] \in EndRecord /\ EndOk(e, tfEnd[e])'
               /\ tfEnd[e].pc = "lookup" => tfEnd'[e].pc = "lookup"
    <2> DEFINE o == tfEnd[e]
               g == [o EXCEPT !.geo = CachedGeo]
               v == [o EXCEPT !.over = TRUE]
    <2>1. o \in EndRecord /\ EndOk(e, o)
      BY <1>1 DEF FilterInv, FilterTypes
    <2>2. tfEnd'[e] = IF e \in TfFlows THEN o
                      ELSE IF o.pc = "open" /\ Reevaluated(tfPolicy["ingress"], new)
                      THEN IF Allows(new, CachedGeo) THEN g ELSE NewEnd
                      ELSE IF BeingJudged(e) THEN v ELSE o
      BY DEF ChangeIngress
    <2>3. BeingJudged(e) <=> o.pc \in {"ask", "check", "claim", "lookup", "answer", "steer"}
      BY DEF BeingJudged
    <2>4. CachedGeo \in {"listed", "unknown"}
      BY DEF CachedGeo
    <2> HIDE DEF o
    <2>5. /\ g \in EndRecord /\ g.pc = o.pc /\ g.geo = CachedGeo /\ g.over = o.over
          /\ v \in EndRecord /\ v.pc = o.pc /\ v.over = TRUE
      BY <2>1, <2>4 DEF EndRecord
    <2> HIDE DEF g, v
    <2>6. CASE e \in TfFlows
      <3>1. tfEnd'[e] = o /\ e \notin TfSessions
        BY <2>2, <2>6, TfAssumption
      <3>2. EndOk(e, tfEnd[e])'
        BY <1>2, <2>1, <2>6, <3>1 DEF EndOk, FlowOk, InForce
      <3>. QED BY <2>1, <3>1, <3>2 DEF o
    <2>7. CASE e \notin TfFlows /\ o.pc = "open" /\ Reevaluated(tfPolicy["ingress"], new)
      <3>1. CASE Allows(new, CachedGeo)
        <4>1. tfEnd'[e] = g
          BY <2>2, <2>7, <3>1
        <4>2. EndOk(e, tfEnd[e])'
          BY <1>3, <2>5, <2>7, <3>1, <4>1 DEF EndOk, SessionOk, CheckSteps
        <4>. QED BY <2>5, <4>1, <4>2 DEF o
      <3>2. CASE ~Allows(new, CachedGeo)
        <4>1. tfEnd'[e] = NewEnd
          BY <2>2, <2>7, <3>2
        <4>2. EndOk(e, tfEnd[e])'
          BY <4>1 DEF NewEnd, EndOk, FlowOk, SessionOk, CheckSteps
        <4>3. tfEnd[e].pc # "lookup"
          BY <2>7 DEF o
        <4>. QED BY <4>1, <4>2, <4>3, NewEndRecord
      <3>. QED BY <3>1, <3>2
    <2>8. CASE e \notin TfFlows /\ ~(o.pc = "open" /\ Reevaluated(tfPolicy["ingress"], new)) /\ BeingJudged(e)
      <3>1. tfEnd'[e] = v
        BY <2>2, <2>8
      <3>2. EndOk(e, tfEnd[e])'
        BY <2>5, <2>8, <3>1 DEF EndOk, SessionOk
      <3>. QED BY <2>5, <3>1, <3>2 DEF o
    <2>9. CASE e \notin TfFlows /\ ~(o.pc = "open" /\ Reevaluated(tfPolicy["ingress"], new)) /\ ~BeingJudged(e)
      <3>1. tfEnd'[e] = o
        BY <2>2, <2>9
      <3>2. CASE o.pc = "open"
        <4>1. new = "none"
          BY <2>9, <3>2 DEF Reevaluated, ChangeIngress
        <4>2. EndOk(e, tfEnd[e])'
          BY <1>3, <2>9, <3>1, <3>2, <4>1 DEF EndOk, SessionOk, Allows, CheckSteps
        <4>. QED BY <2>1, <3>1, <4>2 DEF o
      <3>3. CASE o.pc # "open"
        <4>1. EndOk(e, tfEnd[e])'
          BY <2>3, <2>9, <3>1, <3>3 DEF EndOk, SessionOk, CheckSteps
        <4>. QED BY <2>1, <3>1, <4>1 DEF o
      <3>. QED BY <3>2, <3>3
    <2>. QED BY <2>6, <2>7, <2>8, <2>9
  <1>5. tfEnd' \in [TfEnds -> EndRecord]
    <2>1. tfEnd' = [e \in TfEnds |-> tfEnd'[e]]
      BY DEF ChangeIngress
    <2>. QED BY <1>4, <2>1
  <1>6. FilterTypes'
    BY <1>1, <1>2, <1>3, <1>5 DEF FilterTypes
  <1>7. \A v \in tfVerdicts' : VerdictOk(v)'
    BY <1>2 DEF FilterInv, VerdictOk, InForce
  <1>8. LookupNotPinned'
    BY <1>2, <1>4 DEF FilterInv, LookupNotPinned
  <1>. QED BY <1>4, <1>6, <1>7, <1>8 DEF FilterInv

LEMMA ChangeEgressStep ==
    ASSUME FilterInv, NEW new \in Policies, ChangeEgress(new)
    PROVE  FilterInv'
  <1>1. FilterTypes
    BY DEF FilterInv
  <1>2. /\ tfPolicy' = [tfPolicy EXCEPT !["egress"] = new] /\ tfGen' = tfGen + 1 /\ tfChanged' = tfChanged + 1
        /\ UNCHANGED <<tfEnd, tfVerdicts, tfFlushes, tfFlushed, tfInflight, tfEnsure>>
    BY DEF ChangeEgress, Announces, geoVars
  <1>3. /\ tfPolicy' \in [{"egress", "ingress"} -> Policies] /\ tfPolicy'["ingress"] = tfPolicy["ingress"]
        /\ tfGen' \in Nat /\ tfChanged' \in Nat /\ tfChanged' # 0
    BY <1>1, <1>2 DEF FilterTypes
  <1>4. FilterTypes'
    BY <1>1, <1>2, <1>3 DEF FilterTypes
  <1>5. \A e \in TfEnds : EndOk(e, tfEnd[e])'
    BY <1>2, <1>3 DEF FilterInv, EndOk, FlowOk, SessionOk
  <1>6. \A v \in tfVerdicts' : VerdictOk(v)'
    BY <1>3 DEF VerdictOk
  <1>7. LookupNotPinned'
    BY <1>2 DEF FilterInv, LookupNotPinned
  <1>. QED BY <1>4, <1>5, <1>6, <1>7 DEF FilterInv

LEMMA ClearVerdictsStep ==
    ASSUME FilterInv, ClearVerdicts
    PROVE  FilterInv'
  <1>1. FilterTypes
    BY DEF FilterInv
  <1>2. /\ tfChanged > 0 /\ tfChanged' = tfChanged - 1 /\ tfFlushes' = tfFlushes + 1
        /\ tfVerdicts' = {} /\ tfEnd' = Overtaken
        /\ UNCHANGED <<tfPolicy, tfGen, tfFlushed, tfInflight, tfEnsure>>
    BY DEF ClearVerdicts, geoVars
  <1>3. tfChanged' \in Nat /\ tfFlushes' \in Nat /\ tfFlushes' # 0
    BY <1>1, <1>2 DEF FilterTypes
  <1>4. ASSUME NEW e \in TfEnds
        PROVE  /\ tfEnd'[e] \in EndRecord /\ EndOk(e, tfEnd[e])'
               /\ tfEnd[e].pc = "lookup" => tfEnd'[e].pc = "lookup"
    <2> DEFINE o == tfEnd[e]
               v == [o EXCEPT !.over = TRUE]
    <2>1. o \in EndRecord /\ EndOk(e, o)
      BY <1>1 DEF FilterInv, FilterTypes
    <2>2. tfEnd'[e] = IF e \in TfFlows /\ BeingJudged(e) THEN v ELSE o
      BY <1>2 DEF Overtaken
    <2>3. BeingJudged(e) <=> o.pc \in {"ask", "check", "claim", "lookup", "answer", "steer"}
      BY DEF BeingJudged
    <2> HIDE DEF o
    <2>4. v \in EndRecord /\ v.pc = o.pc /\ v.over = TRUE
      BY <2>1 DEF EndRecord
    <2> HIDE DEF v
    <2>5. CASE e \in TfFlows /\ BeingJudged(e)
      <3>1. EndOk(e, tfEnd[e])'
        BY <2>2, <2>4, <2>5, TfAssumption DEF EndOk, FlowOk, InForce
      <3>. QED BY <2>2, <2>4, <2>5, <3>1 DEF o
    <2>6. CASE e \in TfFlows /\ ~BeingJudged(e)
      <3>1. EndOk(e, tfEnd[e])'
        BY <1>3, <2>2, <2>3, <2>6, TfAssumption DEF EndOk, FlowOk, CheckSteps
      <3>. QED BY <2>1, <2>2, <2>6, <3>1 DEF o
    <2>7. CASE e \notin TfFlows
      <3>1. EndOk(e, tfEnd[e])'
        BY <1>2, <2>1, <2>2, <2>7 DEF EndOk, SessionOk
      <3>. QED BY <2>1, <2>2, <2>7, <3>1 DEF o
    <2>. QED BY <2>5, <2>6, <2>7
  <1>5. tfEnd' \in [TfEnds -> EndRecord]
    <2>1. tfEnd' = [e \in TfEnds |-> tfEnd'[e]]
      BY <1>2 DEF Overtaken
    <2>. QED BY <1>4, <2>1
  <1>6. FilterTypes'
    BY <1>1, <1>2, <1>3, <1>5 DEF FilterTypes
  <1>7. LookupNotPinned'
    BY <1>2, <1>4 DEF FilterInv, LookupNotPinned
  <1>. QED BY <1>2, <1>4, <1>6, <1>7 DEF FilterInv

LEMMA FlushConntrackStep ==
    ASSUME FilterInv, NEW ok \in BOOLEAN, FlushConntrack(ok)
    PROVE  FilterInv'
  <1>1. FilterTypes
    BY DEF FilterInv
  <1>2. /\ tfFlushes > 0 /\ tfFlushes' = tfFlushes - 1 /\ tfEnd' = IF ok THEN Reheld ELSE tfEnd
        /\ UNCHANGED <<tfPolicy, tfGen, tfVerdicts, tfChanged, tfInflight, tfEnsure>>
    BY DEF FlushConntrack, geoVars
  <1>3. tfFlushes' \in Nat
    BY <1>1, <1>2 DEF FilterTypes
  <1>4. tfFlushed' = (tfFlushed /\ ok)
    BY DEF FlushConntrack
  <1>5. tfFlushed' \in BOOLEAN /\ (tfFlushed' => ok)
    BY <1>4
  <1>6. ASSUME NEW e \in TfEnds
        PROVE  /\ tfEnd'[e] \in EndRecord /\ EndOk(e, tfEnd[e])'
               /\ tfEnd[e].pc = "lookup" => tfEnd'[e].pc = "lookup"
    <2> DEFINE o == tfEnd[e]
    <2>1. o \in EndRecord /\ EndOk(e, o)
      BY <1>1 DEF FilterInv, FilterTypes
    <2>2. tfEnd'[e] = IF ok /\ e \in TfFlows /\ o.pc = "open" THEN NewEnd ELSE o
      BY <1>2 DEF Reheld
    <2> HIDE DEF o
    <2>3. CASE ok /\ e \in TfFlows /\ o.pc = "open"
      <3>1. EndOk(e, tfEnd[e])'
        BY <2>2, <2>3 DEF NewEnd, EndOk, FlowOk, SessionOk, CheckSteps
      <3>2. tfEnd[e].pc # "lookup"
        BY <2>3 DEF o
      <3>. QED BY <2>2, <2>3, <3>1, <3>2, NewEndRecord
    <2>4. CASE ~(ok /\ e \in TfFlows /\ o.pc = "open")
      <3>1. tfEnd'[e] = o
        BY <2>2, <2>4
      <3>2. e \in TfFlows => FlowOk(tfEnd[e])'
        BY <1>2, <1>5, <2>1, <2>4, <3>1 DEF EndOk, FlowOk, InForce
      <3>3. e \in TfSessions => SessionOk(tfEnd[e])'
        BY <1>2, <2>1, <3>1 DEF EndOk, SessionOk
      <3>. QED BY <2>1, <3>1, <3>2, <3>3 DEF EndOk, o
    <2>. QED BY <2>3, <2>4
  <1>7. tfEnd' \in [TfEnds -> EndRecord]
    <2>1. tfEnd' = [e \in TfEnds |-> tfEnd'[e]]
      BY <1>1, <1>2 DEF Reheld, FilterTypes
    <2>. QED BY <1>6, <2>1
  <1>8. FilterTypes'
    BY <1>1, <1>2, <1>3, <1>5, <1>7 DEF FilterTypes
  <1>9. \A v \in tfVerdicts' : VerdictOk(v)'
    BY <1>2 DEF FilterInv, VerdictOk, InForce
  <1>10. LookupNotPinned'
    BY <1>2, <1>6 DEF FilterInv, LookupNotPinned
  <1>. QED BY <1>6, <1>8, <1>9, <1>10 DEF FilterInv

LEMMA FilterStart == FilterInit => FilterInv
  <1> SUFFICES ASSUME FilterInit PROVE FilterInv
    OBVIOUS
  <1>1. \A e \in TfEnds : tfEnd[e] = NewEnd
    BY DEF FilterInit
  <1>2. FilterTypes
    BY NewEndRecord DEF FilterInit, FilterTypes, Policies
  <1>3. \A e \in TfEnds : EndOk(e, tfEnd[e])
    BY <1>1, NewEndRecord
  <1>. QED BY <1>2, <1>3 DEF FilterInit, FilterInv, LookupNotPinned

LEMMA FilterStep == FilterInv /\ [FilterNext]_tfVars => FilterInv'
  <1> SUFFICES ASSUME FilterInv, [FilterNext]_tfVars PROVE FilterInv'
    OBVIOUS
  <1>1. CASE UNCHANGED tfVars
    <2>1. /\ UNCHANGED <<tfPolicy, tfGen, tfEnd, tfVerdicts, tfChanged, tfFlushes, tfFlushed, tfGeo>>
          /\ UNCHANGED <<tfInflight, tfEnsure>>
      BY <1>1 DEF tfVars
    <2>2. FilterTypes' /\ LookupNotPinned'
      BY <2>1 DEF FilterInv, FilterTypes, LookupNotPinned
    <2>3. (\A e \in TfEnds : EndOk(e, tfEnd[e])') /\ \A v \in tfVerdicts' : VerdictOk(v)'
      BY <2>1 DEF FilterInv, EndOk, FlowOk, SessionOk, VerdictOk, InForce
    <2>. QED BY <2>2, <2>3 DEF FilterInv
  <1>2. CASE \E e \in TfEnds :
                \/ Packet(e) \/ Arrive(e) \/ ReadPolicy(e) \/ LookupCached(e) \/ ClaimLookup(e)
                \/ \E res \in {"listed", "empty"} : LookupDone(e, res)
                \/ CheckAnswered(e) \/ CheckTimeout(e) \/ Accept(e) \/ Gone(e)
    BY <1>2, AskedStep, ReadPolicyStep, CheckStepsMove, AnsweredStep, LeavesStep
  <1>3. CASE ExpireVerdict \/ \E res \in {"listed", "empty"} : EnsureDone(res)
    BY <1>3, CachesStep
  <1>4. CASE \E p \in Policies : ChangeIngress(p) \/ ChangeEgress(p)
    BY <1>4, ChangeIngressStep, ChangeEgressStep
  <1>5. CASE ClearVerdicts \/ \E ok \in BOOLEAN : FlushConntrack(ok)
    BY <1>5, ClearVerdictsStep, FlushConntrackStep
  <1>. QED BY <1>1, <1>2, <1>3, <1>4, <1>5 DEF FilterNext

\* For any flows and sessions, however changes of policy, checks, lookups,
\* time-outs and the handlers of the announcements interleave: what a change
\* denies is gone once it is handled, save what was on its way through a check
\* at the time, and no cancelled lookup leaves its address marked (firewall.rs,
\* geo.rs, egress_policy.rs).
THEOREM DenialsReachAlways == FilterSpec => []DenialsReach
  <1>1. FilterInv => DenialsReach
    <2> SUFFICES ASSUME FilterInv PROVE DenialsReach
      OBVIOUS
    <2>1. DeniedFlowDies
      BY DEF FilterInv, EndOk, FlowOk, InForce, DeniedFlowDies, TfEnds
    <2>2. DeniedSessionIsGone
      BY DEF FilterInv, EndOk, SessionOk, DeniedSessionIsGone, TfEnds
    <2>. QED BY <2>1, <2>2 DEF FilterInv, DenialsReach
  <1>. QED BY <1>1, FilterStart, FilterStep, PTL DEF FilterSpec

-----------------------------------------------------------------------------
(* FilterRules.  The stack never holds more than three values: what the    *)
(* groups before this one come to, what the rules of this group before     *)
(* this one come to, and the rule just evaluated (StackOk).                *)

RulesMatch(g, r) == \A x \in 1..r : RuleMatches(frPolicy.groups[g][x], frCtx)
GroupMatches(g) == RulesMatch(g, Len(frPolicy.groups[g]))
Earlier(g) == \E x \in 1..(g - 1) : GroupMatches(x)

RulesTypes ==
    /\ Len(frPolicy.groups) \in Nat \ {0} /\ DOMAIN frPolicy.groups = 1..Len(frPolicy.groups)
    /\ \A g \in DOMAIN frPolicy.groups : /\ Len(frPolicy.groups[g]) \in Nat \ {0}
                                         /\ DOMAIN frPolicy.groups[g] = 1..Len(frPolicy.groups[g])
    /\ frPolicy.kind \in {"block", "allow"}
    /\ frStack \in Seq(BOOLEAN)

PlaceOk ==
    /\ frAt = Place(frAt.gi, frAt.ri, frAt.op)
    /\ frAt.gi \in 1..(Len(frPolicy.groups) + 1) /\ frAt.ri \in Nat \ {0} /\ frAt.op \in {"predicate", "and", "or"}
    /\ Done => frAt.ri = 1 /\ frAt.op = "predicate"
    /\ ~Done => frAt.ri <= Len(frPolicy.groups[frAt.gi])
    /\ frAt.op = "and" => frAt.ri > 1
    /\ frAt.op = "or" => frAt.ri = Len(frPolicy.groups[frAt.gi]) /\ frAt.gi > 1

\* The values below those of this group.
Below == IF frAt.gi > 1 THEN 1 ELSE 0

StackOk ==
    /\ Below = 1 => (frStack[1] <=> Earlier(frAt.gi))
    /\ frAt.op = "predicate" =>
         /\ Len(frStack) = Below + IF frAt.ri > 1 THEN 1 ELSE 0
         /\ frAt.ri > 1 => (frStack[Below + 1] <=> RulesMatch(frAt.gi, frAt.ri - 1))
    /\ frAt.op = "and" =>
         /\ Len(frStack) = Below + 2
         /\ frStack[Below + 1] <=> RulesMatch(frAt.gi, frAt.ri - 1)
         /\ frStack[Below + 2] <=> RuleMatches(frPolicy.groups[frAt.gi][frAt.ri], frCtx)
    /\ frAt.op = "or" =>
         /\ Len(frStack) = 2
         /\ frStack[2] <=> GroupMatches(frAt.gi)

RulesInv == RulesTypes /\ PlaceOk /\ StackOk

\* The stack after one token, value by value.
LEMMA PushOf ==
    ASSUME NEW s \in Seq(BOOLEAN), NEW v \in BOOLEAN
    PROVE  /\ Append(s, v) \in Seq(BOOLEAN) /\ Len(Append(s, v)) = Len(s) + 1
           /\ Append(s, v)[Len(s) + 1] = v /\ \A i \in 1..Len(s) : Append(s, v)[i] = s[i]
  OBVIOUS

LEMMA CombineOf ==
    ASSUME NEW s \in Seq(BOOLEAN), Len(s) >= 2, NEW v \in BOOLEAN
    PROVE  LET t == Append(SubSeq(s, 1, Len(s) - 2), v) IN
           /\ t \in Seq(BOOLEAN) /\ Len(t) = Len(s) - 1
           /\ t[Len(s) - 1] = v /\ \A i \in 1..(Len(s) - 2) : t[i] = s[i]
  <1>1. PICK u : u = SubSeq(s, 1, Len(s) - 2)
    OBVIOUS
  <1>2. u \in Seq(BOOLEAN) /\ Len(u) = Len(s) - 2 /\ \A i \in 1..(Len(s) - 2) : u[i] = s[i]
    <2>0. PICK m : m = Len(s) - 2 /\ m \in Nat
      OBVIOUS
    <2>1. m \in Int /\ 1 \in Int /\ \A i \in 1..m : s[i] \in BOOLEAN
      BY <2>0
    <2>2. /\ SubSeq(s, 1, m) \in Seq(BOOLEAN)
          /\ Len(SubSeq(s, 1, m)) = IF 1 <= m THEN m - 1 + 1 ELSE 0
          /\ \A i \in 1..(m - 1 + 1) : SubSeq(s, 1, m)[i] = s[1 + i - 1]
      BY <2>1, SubSeqProperties
    <2>. QED BY <1>1, <2>0, <2>2
  <1>. QED BY <1>1, <1>2, PushOf

\* One rule more, and one group more.
LEMMA OneMore ==
    ASSUME NEW g \in Nat \ {0}, NEW r \in Nat \ {0}
    PROVE  /\ RulesMatch(g, r) <=> RulesMatch(g, r - 1) /\ RuleMatches(frPolicy.groups[g][r], frCtx)
           /\ RulesMatch(g, 1) <=> RuleMatches(frPolicy.groups[g][1], frCtx)
           /\ Earlier(g + 1) <=> Earlier(g) \/ GroupMatches(g)
           /\ ~Earlier(1)
  <1>1. 1..r = 1..(r - 1) \cup {r} /\ 1..g = 1..(g - 1) \cup {g} /\ (g + 1) - 1 = g /\ 1..1 = {1} /\ 1..(1 - 1) = {}
    OBVIOUS
  <1>2. RulesMatch(g, r) <=> RulesMatch(g, r - 1) /\ RuleMatches(frPolicy.groups[g][r], frCtx)
    BY <1>1 DEF RulesMatch
  <1>3. RulesMatch(g, 1) <=> RuleMatches(frPolicy.groups[g][1], frCtx)
    BY <1>1 DEF RulesMatch
  <1>4. Earlier(g + 1) <=> Earlier(g) \/ GroupMatches(g)
    BY <1>1 DEF Earlier
  <1>5. ~Earlier(1)
    BY <1>1 DEF Earlier
  <1>. QED BY <1>2, <1>3, <1>4, <1>5

\* Where a token leads to, and what is on the stack there.
LEMMA ArriveAnd ==
    ASSUME RulesInv, NEW g \in 1..Len(frPolicy.groups), NEW r \in 1..Len(frPolicy.groups[g]), r > 1,
           NEW t \in Seq(BOOLEAN), NEW b, b = (IF g > 1 THEN 1 ELSE 0),
           frAt' = Place(g, r, "and"), frStack' = t, frPolicy' = frPolicy, frCtx' = frCtx,
           Len(t) = b + 2, t[b + 1] <=> RulesMatch(g, r - 1),
           t[b + 2] <=> RuleMatches(frPolicy.groups[g][r], frCtx), b = 1 => (t[1] <=> Earlier(g))
    PROVE  RulesInv'
  <1>1. frAt'.gi = g /\ frAt'.ri = r /\ frAt'.op = "and" /\ Below' = b
    BY DEF Place, Below
  <1>2. RulesTypes' /\ PlaceOk'
    <2>1. RulesTypes'
      BY DEF RulesInv, RulesTypes
    <2>2. Len(frPolicy.groups) \in Nat /\ \A x \in 1..Len(frPolicy.groups) : Len(frPolicy.groups[x]) \in Nat \ {0}
      BY DEF RulesInv, RulesTypes
    <2>3. PlaceOk'
      BY <1>1, <2>2 DEF PlaceOk, Done
    <2>. QED BY <2>1, <2>3
  <1>3. (RulesMatch(g, r - 1)' <=> RulesMatch(g, r - 1)) /\ (Earlier(g)' <=> Earlier(g))
    BY DEF RulesMatch, Earlier, GroupMatches
  <1>4. StackOk'
    BY <1>1, <1>3 DEF StackOk
  <1>. QED BY <1>2, <1>4 DEF RulesInv

LEMMA NextGroup ==
    ASSUME RulesInv, NEW g \in 1..Len(frPolicy.groups), NEW t \in Seq(BOOLEAN),
           frAt' = Place(g + 1, 1, "predicate"), frStack' = t, frPolicy' = frPolicy, frCtx' = frCtx,
           Len(t) = 1, t[1] <=> Earlier(g + 1)
    PROVE  RulesInv'
  <1>1. frAt'.gi = g + 1 /\ frAt'.ri = 1 /\ frAt'.op = "predicate" /\ Below' = 1
    BY DEF Place, Below, RulesInv, RulesTypes
  <1>2. RulesTypes' /\ PlaceOk'
    <2>1. RulesTypes'
      BY DEF RulesInv, RulesTypes
    <2>2. Len(frPolicy.groups) \in Nat /\ \A x \in 1..Len(frPolicy.groups) : Len(frPolicy.groups[x]) \in Nat \ {0}
      BY DEF RulesInv, RulesTypes
    <2>3. PlaceOk'
      BY <1>1, <2>2 DEF PlaceOk, Done
    <2>. QED BY <2>1, <2>3
  <1>3. Earlier(g + 1)' <=> Earlier(g + 1)
    BY DEF RulesMatch, Earlier, GroupMatches
  <1>4. StackOk'
    BY <1>1, <1>3 DEF StackOk
  <1>. QED BY <1>2, <1>4 DEF RulesInv

LEMMA GroupSoFar ==
    ASSUME RulesInv, NEW g \in 1..Len(frPolicy.groups), NEW n, n = Len(frPolicy.groups[g]), NEW r \in 1..n,
           NEW t \in Seq(BOOLEAN), NEW b, b = (IF g > 1 THEN 1 ELSE 0),
           frAt' = (IF r < n THEN Place(g, r + 1, "predicate")
                    ELSE IF g > 1 THEN Place(g, r, "or") ELSE Place(g + 1, 1, "predicate")),
           frStack' = t, frPolicy' = frPolicy, frCtx' = frCtx,
           Len(t) = b + 1, t[b + 1] <=> RulesMatch(g, r), b = 1 => (t[1] <=> Earlier(g))
    PROVE  RulesInv'
  <1>0. /\ n \in Nat /\ g \in Nat \ {0} /\ r \in Nat \ {0} /\ Len(frPolicy.groups) \in Nat
    BY DEF RulesInv, RulesTypes
  <1>1. /\ RulesMatch(g, r)' <=> RulesMatch(g, r)
        /\ Earlier(g)' <=> Earlier(g)
        /\ GroupMatches(g)' <=> RulesMatch(g, n)
    BY DEF RulesMatch, Earlier, GroupMatches
  <1>2. CASE r < n
    <2>1. frAt'.gi = g /\ frAt'.ri = r + 1 /\ frAt'.op = "predicate" /\ Below' = b /\ (r + 1) - 1 = r /\ r + 1 > 1
      BY <1>0, <1>2 DEF Place, Below
    <2>2. RulesTypes'
      BY DEF RulesInv, RulesTypes
    <2>3. PlaceOk'
      BY <1>0, <1>2, <2>1 DEF PlaceOk, Done
    <2>4. StackOk'
      BY <1>0, <1>1, <2>1 DEF StackOk
    <2>. QED BY <2>2, <2>3, <2>4 DEF RulesInv
  <1>3. CASE r = n /\ g > 1
    <2>1. frAt' = Place(g, r, "or") /\ frAt'.gi = g /\ frAt'.ri = r /\ frAt'.op = "or" /\ Below' = 1 /\ b = 1
      BY <1>0, <1>3 DEF Place, Below
    <2>2. RulesTypes'
      BY DEF RulesInv, RulesTypes
    <2>3. PlaceOk'
      BY <1>0, <1>3, <2>1 DEF PlaceOk, Done
    <2>4. StackOk'
      BY <1>0, <1>1, <1>3, <2>1 DEF StackOk
    <2>. QED BY <2>2, <2>3, <2>4 DEF RulesInv
  <1>4. CASE r = n /\ ~(g > 1)
    <2>1. frAt' = Place(g + 1, 1, "predicate") /\ b = 0 /\ g = 1
      BY <1>0, <1>4
    <2>2. t[1] <=> Earlier(g + 1)
      <3>1. GroupMatches(g) <=> RulesMatch(g, n)
        BY DEF GroupMatches
      <3>. QED BY <1>0, <1>4, <2>1, <3>1, OneMore
    <2>. QED BY <2>1, <2>2, NextGroup
  <1>. QED BY <1>0, <1>2, <1>3, <1>4

LEMMA TokenOk ==
    ASSUME RulesInv, EvaluateToken
    PROVE  RulesInv'
  <1>0. PICK g, r, s, t, n : g = frAt.gi /\ r = frAt.ri /\ s = frStack /\ t = frStack' /\ n = Len(frPolicy.groups[g])
    OBVIOUS
  <1>1. /\ g \in 1..Len(frPolicy.groups) /\ r \in 1..n /\ n \in Nat \ {0} /\ Len(frPolicy.groups) \in Nat
        /\ frAt = Place(g, r, frAt.op) /\ frAt.op \in {"predicate", "and", "or"} /\ s \in Seq(BOOLEAN)
        /\ frAt.op = "and" => r > 1
        /\ frAt.op = "or" => r = n /\ g > 1
    BY <1>0 DEF RulesInv, RulesTypes, PlaceOk, EvaluateToken, Done
  <1>2. /\ \A x, y : RulesMatch(x, y)' <=> RulesMatch(x, y)
        /\ \A x : GroupMatches(x)' <=> GroupMatches(x)
        /\ \A x : Earlier(x)' <=> Earlier(x)
    BY DEF EvaluateToken, RulesMatch, GroupMatches, Earlier
  <1>3. /\ RulesMatch(g, r) <=> RulesMatch(g, r - 1) /\ RuleMatches(frPolicy.groups[g][r], frCtx)
        /\ RulesMatch(g, 1) <=> RuleMatches(frPolicy.groups[g][1], frCtx)
        /\ Earlier(g + 1) <=> Earlier(g) \/ GroupMatches(g)
        /\ ~Earlier(1)
        /\ GroupMatches(g) <=> RulesMatch(g, n)
    <2>1. g \in Nat \ {0} /\ r \in Nat \ {0}
      BY <1>1
    <2>2. GroupMatches(g) <=> RulesMatch(g, n)
      BY <1>0 DEF GroupMatches
    <2>. QED BY <2>1, <2>2, OneMore
  <1>4. PICK b : b = Below /\ b = IF g > 1 THEN 1 ELSE 0
    BY <1>0 DEF Below
  <1>5. b = 1 => (s[1] <=> Earlier(g))
    BY <1>0, <1>4 DEF RulesInv, StackOk
  \* What the token leaves on the stack.
  <1>6. CASE frAt.op = "predicate"
    <2>1. /\ t \in Seq(BOOLEAN) /\ Len(t) = b + IF r > 1 THEN 2 ELSE 1
          /\ r > 1 => (t[b + 1] <=> RulesMatch(g, r - 1))
          /\ t[Len(t)] <=> RuleMatches(frPolicy.groups[g][r], frCtx)
          /\ b = 1 => (t[1] <=> Earlier(g))
      <3>0. PICK v : v = RuleMatches(frPolicy.groups[g][r], frCtx)
        OBVIOUS
      <3>1. v \in BOOLEAN /\ (v <=> RuleMatches(frPolicy.groups[g][r], frCtx))
        BY <3>0 DEF RuleMatches
      <3>2. t = Append(s, v)
        BY <1>0, <1>6, <3>0 DEF EvaluateToken
      <3>3. Len(s) = b + (IF r > 1 THEN 1 ELSE 0) /\ (r > 1 => (s[b + 1] <=> RulesMatch(g, r - 1)))
        BY <1>0, <1>4, <1>6 DEF RulesInv, StackOk
      <3>. QED BY <1>1, <1>4, <1>5, <3>1, <3>2, <3>3, PushOf
    <2>2. CASE r > 1
      <3>1. frAt' = Place(g, r, "and") /\ frPolicy' = frPolicy /\ frCtx' = frCtx
        BY <1>0, <1>6, <2>2 DEF EvaluateToken, ToPostfix
      <3>. QED BY <1>0, <1>1, <1>2, <1>4, <2>1, <2>2, <3>1, ArriveAnd
    <2>3. CASE r = 1
      <3>1. frAt' = (IF r < n THEN Place(g, r + 1, "predicate") ELSE IF g > 1 THEN Place(g, r, "or") ELSE Place(g + 1, 1, "predicate"))
        BY <1>0, <1>6, <2>3 DEF EvaluateToken, ToPostfix
      <3>2. t[b + 1] <=> RulesMatch(g, r)
        BY <1>3, <1>4, <2>1, <2>3
      <3>3. frPolicy' = frPolicy /\ frCtx' = frCtx
        BY DEF EvaluateToken
      <3>4. Len(t) = b + 1 /\ t \in Seq(BOOLEAN) /\ (b = 1 => (t[1] <=> Earlier(g)))
        BY <2>1, <2>3
      <3>5. g \in 1..Len(frPolicy.groups) /\ n = Len(frPolicy.groups[g]) /\ r \in 1..n /\ b = (IF g > 1 THEN 1 ELSE 0) /\ frStack' = t
        BY <1>0, <1>1, <1>4
      <3>. QED BY <3>1, <3>2, <3>3, <3>4, <3>5, GroupSoFar
    <2>. QED BY <1>1, <2>2, <2>3
  <1>7. CASE frAt.op = "and"
    <2>1. /\ Len(s) = b + 2 /\ (s[b + 1] <=> RulesMatch(g, r - 1))
          /\ s[b + 2] <=> RuleMatches(frPolicy.groups[g][r], frCtx)
      BY <1>0, <1>4, <1>7 DEF RulesInv, StackOk
    <2>2. PICK v : v = (s[Len(s) - 1] /\ s[Len(s)])
      OBVIOUS
    <2>3. t = Append(SubSeq(s, 1, Len(s) - 2), v)
      BY <1>0, <1>7, <2>2 DEF EvaluateToken
    <2>4. v \in BOOLEAN /\ (v <=> RulesMatch(g, r))
      BY <1>1, <1>3, <1>4, <2>1, <2>2
    <2>5. /\ t \in Seq(BOOLEAN) /\ Len(t) = b + 1 /\ (t[b + 1] <=> RulesMatch(g, r))
          /\ b = 1 => (t[1] <=> Earlier(g))
      BY <1>1, <1>4, <1>5, <2>1, <2>3, <2>4, CombineOf
    <2>6. frAt' = (IF r < n THEN Place(g, r + 1, "predicate") ELSE IF g > 1 THEN Place(g, r, "or") ELSE Place(g + 1, 1, "predicate"))
      BY <1>0, <1>7 DEF EvaluateToken, ToPostfix
    <2>7. frPolicy' = frPolicy /\ frCtx' = frCtx
      BY DEF EvaluateToken
    <2>8. g \in 1..Len(frPolicy.groups) /\ n = Len(frPolicy.groups[g]) /\ r \in 1..n /\ b = (IF g > 1 THEN 1 ELSE 0) /\ frStack' = t
      BY <1>0, <1>1, <1>4
    <2>. QED BY <2>5, <2>6, <2>7, <2>8, GroupSoFar
  <1>8. CASE frAt.op = "or"
    <2>1. Len(s) = 2 /\ b = 1 /\ (s[2] <=> GroupMatches(g)) /\ (s[1] <=> Earlier(g))
      BY <1>0, <1>1, <1>4, <1>5, <1>8 DEF RulesInv, StackOk
    <2>2. PICK v : v = (s[Len(s) - 1] \/ s[Len(s)])
      OBVIOUS
    <2>3. t = Append(SubSeq(s, 1, Len(s) - 2), v)
      BY <1>0, <1>8, <2>2 DEF EvaluateToken
    <2>4. v \in BOOLEAN /\ (v <=> Earlier(g + 1))
      <3>1. v = (s[1] \/ s[2])
        BY <2>1, <2>2
      <3>. QED BY <1>3, <2>1, <3>1
    <2>5. t \in Seq(BOOLEAN) /\ Len(t) = 1 /\ (t[1] <=> Earlier(g + 1))
      BY <1>1, <2>1, <2>3, <2>4, CombineOf
    <2>6. frAt' = Place(g + 1, 1, "predicate") /\ frPolicy' = frPolicy /\ frCtx' = frCtx
      BY <1>0, <1>1, <1>8 DEF EvaluateToken, ToPostfix
    <2>. QED BY <1>0, <1>1, <2>5, <2>6, NextGroup
  <1>. QED BY <1>1, <1>6, <1>7, <1>8

LEMMA RulesStart == RulesInit => RulesInv
  <1> SUFFICES ASSUME RulesInit PROVE RulesInv
    OBVIOUS
  <1>1. frPolicy.kind \in {"block", "allow"} /\ frPolicy.groups \in UNION {[1..n -> RuleLists] : n \in 1..FrMaxGroups}
    BY DEF RulesInit
  <1>2. PICK n \in 1..FrMaxGroups : frPolicy.groups \in [1..n -> RuleLists]
    BY <1>1
  <1>3. DOMAIN frPolicy.groups = 1..n /\ n \in Nat \ {0} /\ frPolicy.groups \in Seq(RuleLists)
    BY <1>2
  <1>4. Len(frPolicy.groups) = n
    BY <1>3
  <1>5. ASSUME NEW g \in 1..n
        PROVE  Len(frPolicy.groups[g]) \in Nat \ {0} /\ DOMAIN frPolicy.groups[g] = 1..Len(frPolicy.groups[g])
    <2>0. frPolicy.groups[g] \in RuleLists
      BY <1>2
    <2>1. PICK m \in 1..FrMaxRules : frPolicy.groups[g] \in [1..m -> FrRules]
      BY <2>0 DEF RuleLists
    <2>2. DOMAIN frPolicy.groups[g] = 1..m /\ m \in Nat \ {0} /\ frPolicy.groups[g] \in Seq(FrRules)
      BY <2>1
    <2>3. Len(frPolicy.groups[g]) = m
      BY <2>2
    <2>. QED BY <2>2, <2>3
  <1>6. RulesTypes
    BY <1>1, <1>3, <1>4, <1>5 DEF RulesTypes, RulesInit
  <1>7. frAt.gi = 1 /\ frAt.ri = 1 /\ frAt.op = "predicate" /\ frAt = Place(1, 1, "predicate") /\ frStack = <<>>
    BY DEF RulesInit, Place
  <1>8. PlaceOk
    BY <1>3, <1>4, <1>5, <1>7 DEF PlaceOk, Done
  <1>9. StackOk
    BY <1>7 DEF StackOk, Below
  <1>. QED BY <1>6, <1>8, <1>9 DEF RulesInv

\* The value that is left is what the policy's groups mean.
LEMMA RulesEnd == RulesInv => RulesMeanOrOfAnds
  <1>a. ~Done => RulesMeanOrOfAnds
    BY DEF RulesMeanOrOfAnds, PostfixIsOrOfAnds, UnknownFollowsKind
  <1> SUFFICES ASSUME RulesInv, Done PROVE RulesMeanOrOfAnds
    BY <1>a
  <1>0. PICK n, v : n = Len(frPolicy.groups) /\ v = frStack[1]
    OBVIOUS
  <1>1. /\ n \in Nat \ {0} /\ DOMAIN frPolicy.groups = 1..n /\ frStack \in Seq(BOOLEAN)
        /\ frAt.gi = n + 1 /\ frAt.ri = 1 /\ frAt.op = "predicate" /\ (n + 1) - 1 = n
    BY <1>0 DEF RulesInv, RulesTypes, PlaceOk, Done
  <1>2. Len(frStack) = 1 /\ (v <=> Earlier(n + 1))
    BY <1>0, <1>1 DEF RulesInv, StackOk, Below
  <1>3. v \in BOOLEAN /\ frStack = <<v>>
    <2>1. PICK s \in Seq(BOOLEAN) : s = frStack
      BY <1>1
    <2>0. Len(s) = 1 /\ s[1] = v
      BY <1>0, <1>2, <2>1
    <2>2. Len(s) = 1 /\ s[1] = v /\ v \in BOOLEAN
      BY <2>0
    <2>3. s = <<v>>
      BY <2>2
    <2>. QED BY <2>1, <2>2, <2>3
  <1>4. \A g \in 1..n : /\ DOMAIN frPolicy.groups[g] = 1..Len(frPolicy.groups[g])
                         /\ Len(frPolicy.groups[g]) \in Nat \ {0}
    BY <1>1 DEF RulesInv, RulesTypes
  <1>5. Earlier(n + 1) <=> \E gi \in DOMAIN frPolicy.groups :
                              \A ri \in DOMAIN frPolicy.groups[gi] : RuleMatches(frPolicy.groups[gi][ri], frCtx)
    BY <1>1, <1>4 DEF Earlier, GroupMatches, RulesMatch
  <1>6. PostfixIsOrOfAnds
    BY <1>2, <1>3, <1>5 DEF PostfixIsOrOfAnds
  <1>7. UnknownFollowsKind
    <2> SUFFICES ASSUME frCtx.country = "unknown",
                        \A gi \in DOMAIN frPolicy.groups : \A ri \in DOMAIN frPolicy.groups[gi] :
                           frPolicy.groups[gi][ri].field = "country"
                 PROVE  PolicyAllows = (frPolicy.kind = "block")
      BY DEF UnknownFollowsKind
    <2>1. \A gi \in DOMAIN frPolicy.groups : \A ri \in DOMAIN frPolicy.groups[gi] :
             ~RuleMatches(frPolicy.groups[gi][ri], frCtx)
      BY DEF RuleMatches
    <2>2. \A gi \in DOMAIN frPolicy.groups : 1 \in DOMAIN frPolicy.groups[gi]
      BY <1>1, <1>4
    <2>3. ~v
      BY <1>2, <1>5, <2>1, <2>2
    <2>4. frPolicy.kind \in {"block", "allow"} /\ frStack[1] = v
      BY <1>0 DEF RulesInv, RulesTypes
    <2>5. CASE frPolicy.kind = "block"
      BY <1>3, <2>3, <2>4, <2>5 DEF PolicyAllows
    <2>6. CASE frPolicy.kind = "allow"
      BY <1>3, <2>3, <2>4, <2>6 DEF PolicyAllows
    <2>. QED BY <2>4, <2>5, <2>6
  <1>. QED BY <1>6, <1>7 DEF RulesMeanOrOfAnds

\* Whatever the rules, groups, addresses and countries: the expression means
\* the disjunction of the groups, and a country that is unknown follows the
\* kind of the policy.
THEOREM RulesMeanOrOfAndsAlways == RulesSpec => []RulesMeanOrOfAnds
  <1>1. RulesInv /\ [RulesNext]_frVars => RulesInv'
    <2> SUFFICES ASSUME RulesInv, [RulesNext]_frVars PROVE RulesInv'
      OBVIOUS
    <2>1. CASE EvaluateToken
      BY <2>1, TokenOk
    <2>2. CASE UNCHANGED frVars
      BY <2>2 DEF frVars, RulesInv, RulesTypes, PlaceOk, StackOk, Below, Done, Earlier, GroupMatches, RulesMatch
    <2>. QED BY <2>1, <2>2 DEF RulesNext
  <1>. QED BY <1>1, RulesStart, RulesEnd, PTL DEF RulesSpec
=============================================================================
