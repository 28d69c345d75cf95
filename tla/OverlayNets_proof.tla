------------------------- MODULE OverlayNets_proof -------------------------
(***************************************************************************)
(* The orchestrator keeps the contract of the pool, a live edge stands,    *)
(* and two lives of an id never meet, for any nodes, builds, shapes of     *)
(* edges, streams and ids.                                                 *)
(***************************************************************************)
EXTENDS OverlayNets, SequenceTheorems, TLAPS

Held == {edge[g].id : g \in {b \in Builds : edge[b].phase \notin {"none", "done"}}}
PoolProof == INSTANCE NetIdPool_proof WITH held <- Held, peak <- 0

EdgeRecord == [id : {0} \cup MIN_NET_ID..MAX_NET_ID, ends : {<<>>} \cup [Sides -> Nodes],
               phase : Phases, toReady : ReadyOrders, reply : [Sides -> Replies], via : [Sides -> 0..MaxSessions]]
CommandRecord == [kind : Kinds, build : Builds, side : Sides, via : Sessions]
AckRecord == [node : Nodes, kind : Kinds, build : Builds, side : Sides, via : Sessions]

Active(g) == edge[g].phase \notin {"none", "done"}
\* Not released yet: the server still means to have the edge.
Standing(g) == edge[g].phase \in {"setup", "ready", "built", "live"}
Queued(n, g, d) == \E i \in 1..Len(inbox[n]) : inbox[n][i].build = g /\ inbox[n][i].side = d
Present(n, g, d) == Holds(n, g, d) \/ Queued(n, g, d)

-----------------------------------------------------------------------------
(* The inductive invariant *)

\* What is on a host or on its way from or to it belongs to a build that has
\* an end there.
EdgesPlaced ==
    \A g \in Builds : edge[g].phase # "none" =>
        edge[g].id \in MIN_NET_ID..MAX_NET_ID /\ edge[g].ends \in [Sides -> Nodes]
KernelPlaced ==
    \A n \in Nodes : \A x \in kernel[n] : edge[x[1]].phase # "none" /\ Node(x[1], x[2]) = n
InboxPlaced ==
    \A n \in Nodes : \A i \in 1..Len(inbox[n]) :
        /\ edge[inbox[n][i].build].phase # "none"
        /\ Node(inbox[n][i].build, inbox[n][i].side) = n
        /\ inbox[n][i].via = session[n]
AcksPlaced == \A a \in acks : edge[a.build].phase # "none" /\ Node(a.build, a.side) = a.node

WellPlaced ==
    /\ inbox \in [Nodes -> Seq(CommandRecord)]
    /\ EdgesPlaced /\ KernelPlaced /\ InboxPlaced /\ AcksPlaced

\* A process runs exactly on an open stream, and nothing mentions a stream
\* that has not been opened yet.
StreamsKnown ==
    /\ \A n \in Nodes : session[n] # 0 => stream[n][session[n]] = "open"
    /\ \A n \in Nodes : clients[n] # 0 => stream[n][clients[n]] # "unused"
    /\ \A g \in Builds : edge[g].phase # "none" => \A d \in Sides :
          edge[g].via[d] # 0 => stream[Node(g, d)][edge[g].via[d]] # "unused"
    /\ \A a \in acks : stream[a.node][a.via] # "unused"

\* No two builds in progress or standing share an id.
IdsDistinct == \A g, h \in Builds : Active(g) /\ Active(h) /\ edge[g].id = edge[h].id => g = h

\* A teardown on its way is the last command of its build and side, and the
\* task that sent it waits.
TeardownQueued ==
    \A n \in Nodes : \A i \in 1..Len(inbox[n]) : inbox[n][i].kind = "teardown" =>
        /\ edge[inbox[n][i].build].phase = "releasing"
        /\ edge[inbox[n][i].build].reply[inbox[n][i].side] = "waiting"
        /\ edge[inbox[n][i].build].via[inbox[n][i].side] = inbox[n][i].via
        /\ \A j \in 1..Len(inbox[n]) : j > i =>
              ~(inbox[n][j].build = inbox[n][i].build /\ inbox[n][j].side = inbox[n][i].side)

\* One that was confirmed is not on its way a second time.
TeardownAcked ==
    \A a \in acks : a.kind = "teardown" =>
        /\ edge[a.build].phase \in {"releasing", "done"} /\ edge[a.build].reply[a.side] # "unsent"
        /\ a.via = session[a.node] => \A i \in 1..Len(inbox[a.node]) :
              ~(inbox[a.node][i].kind = "teardown" /\ inbox[a.node][i].build = a.build /\ inbox[a.node][i].side = a.side)

\* How far a build has come tells which answers it has.
RepliesFollowPhase ==
    \A g \in Builds :
        /\ edge[g].phase = "ready" =>
              edge[g].toReady # <<>> /\ \A d \in Sides : d # Head(edge[g].toReady) => edge[g].reply[d] = "ok"
        /\ edge[g].phase \in {"built", "live", "done"} => \A d \in Sides : edge[g].reply[d] = "ok"

\* An endpoint that confirmed, and still runs, has the objects.
AckedIsInstalled ==
    \A a \in acks : a.kind # "teardown" /\ Standing(a.build) /\ a.via = session[a.node] =>
        Holds(a.node, a.build, a.side)
AnsweredIsInstalled ==
    \A g \in Builds : Standing(g) => \A d \in Sides : edge[g].reply[d] = "ok" =>
        /\ edge[g].via[d] # 0
        /\ edge[g].via[d] = session[Node(g, d)] => Holds(Node(g, d), g, d)

\* The part of the invariant that holds for VLAN and VXLAN edges.
EdgeInv ==
    /\ TypeOK /\ WellPlaced /\ StreamsKnown
    /\ PoolProof!PoolInv /\ IdsDistinct
    /\ TeardownQueued /\ TeardownAcked
    /\ RepliesFollowPhase /\ AckedIsInstalled /\ AnsweredIsInstalled

\* The builds that are on host n, or that may still be sent there through the
\* stream its process holds.
Reach(n, g) ==
    \/ \E d \in Sides : Present(n, g, d)
    \/ Active(g) /\ \E d \in Sides : Node(g, d) = n /\ edge[g].via[d] = session[n]

\* No two builds a running host has, or may get, share an id.
ReachDistinct ==
    \A n \in Nodes : session[n] # 0 =>
        \A g, h \in Builds : Reach(n, g) /\ Reach(n, h) /\ edge[g].id = edge[h].id => g = h

\* What is on a host the server can reach has not been freed.
PresentIsActive ==
    \A n \in Nodes : session[n] # 0 /\ clients[n] = session[n] =>
        \A g \in Builds, d \in Sides : Present(n, g, d) =>
            Active(g) /\ (edge[g].phase = "releasing" => edge[g].via[d] = session[n])

\* A confirmed teardown left nothing behind.
AnsweredIsGone ==
    \A g \in Builds, d \in Sides :
        /\ edge[g].phase \in {"releasing", "done"} /\ edge[g].reply[d] = "ok"
        /\ edge[g].via[d] # 0 /\ edge[g].via[d] = session[Node(g, d)]
        => ~Present(Node(g, d), g, d)
AckedIsGone ==
    \A a \in acks : a.kind = "teardown" /\ a.via = session[a.node] => ~Present(a.node, a.build, a.side)

\* What the order of the commands of an id adds.
Lives == ReachDistinct /\ PresentIsActive /\ AnsweredIsGone /\ AckedIsGone
LivesInv == EdgeInv /\ Lives
-----------------------------------------------------------------------------
(* The steps, by what they change *)

\* The builds other than g are left alone.
OthersStay(g) == \A h \in Builds : h # g => edge'[h] = edge[h]

\* The fields that say which build g is.
SameBuild(g) == edge'[g].id = edge[g].id /\ edge'[g].ends = edge[g].ends

\* The reply of one endpoint is set.
SetsReply(g, d, v) == edge' = [edge EXCEPT ![g].reply[d] = v]

\* ... and nothing else about the build changes.
LEMMA ReplySet ==
    ASSUME edge \in [Builds -> EdgeRecord], NEW g \in Builds, NEW d \in Sides, NEW v \in Replies,
           SetsReply(g, d, v)
    PROVE  /\ edge' \in [Builds -> EdgeRecord]
           /\ OthersStay(g) /\ SameBuild(g)
           /\ edge'[g].phase = edge[g].phase /\ edge'[g].toReady = edge[g].toReady /\ edge'[g].via = edge[g].via
           /\ edge'[g].reply[d] = v
           /\ \A b \in Sides : b # d => edge'[g].reply[b] = edge[g].reply[b]
  <1> DEFINE rep == [edge[g].reply EXCEPT ![d] = v]
             e == [edge[g] EXCEPT !.reply = rep]
  <1>1. edge[g] \in EdgeRecord /\ edge[g].reply \in [Sides -> Replies]
    BY DEF EdgeRecord
  <1>2. rep \in [Sides -> Replies] /\ rep[d] = v /\ \A b \in Sides : b # d => rep[b] = edge[g].reply[b]
    BY <1>1
  <1>3. edge' = [edge EXCEPT ![g] = e]
    BY DEF SetsReply
  <1> HIDE DEF rep
  <1>4. /\ e \in EdgeRecord /\ e.id = edge[g].id /\ e.ends = edge[g].ends /\ e.phase = edge[g].phase
        /\ e.toReady = edge[g].toReady /\ e.via = edge[g].via /\ e.reply = rep
    BY <1>1, <1>2 DEF EdgeRecord
  <1> HIDE DEF e
  <1>. QED BY <1>2, <1>3, <1>4 DEF OthersStay, SameBuild

\* A command is on its way over stream k.
AsksOver(g, d, k) == edge' = [edge EXCEPT ![g].reply[d] = "waiting", ![g].via[d] = k]

\* ... and nothing else about the build changes.
LEMMA Asked ==
    ASSUME edge \in [Builds -> EdgeRecord], NEW g \in Builds, NEW d \in Sides, NEW k \in 0..MaxSessions,
           AsksOver(g, d, k)
    PROVE  /\ edge' \in [Builds -> EdgeRecord]
           /\ OthersStay(g) /\ SameBuild(g)
           /\ edge'[g].phase = edge[g].phase /\ edge'[g].toReady = edge[g].toReady
           /\ edge'[g].via[d] = k /\ edge'[g].reply[d] = "waiting"
           /\ \A b \in Sides : b # d => edge'[g].reply[b] = edge[g].reply[b] /\ edge'[g].via[b] = edge[g].via[b]
  <1> DEFINE rep == [edge[g].reply EXCEPT ![d] = "waiting"]
             str == [edge[g].via EXCEPT ![d] = k]
             e == [edge[g] EXCEPT !.reply = rep, !.via = str]
  <1>1. edge[g] \in EdgeRecord /\ edge[g].reply \in [Sides -> Replies] /\ edge[g].via \in [Sides -> 0..MaxSessions]
    BY DEF EdgeRecord
  <1>2. /\ rep \in [Sides -> Replies] /\ rep[d] = "waiting" /\ \A b \in Sides : b # d => rep[b] = edge[g].reply[b]
        /\ str \in [Sides -> 0..MaxSessions] /\ str[d] = k /\ \A b \in Sides : b # d => str[b] = edge[g].via[b]
    BY <1>1 DEF Replies
  <1>3. edge' = [edge EXCEPT ![g] = e]
    BY DEF AsksOver
  <1> HIDE DEF rep, str
  <1>4. /\ e \in EdgeRecord /\ e.id = edge[g].id /\ e.ends = edge[g].ends /\ e.phase = edge[g].phase
        /\ e.toReady = edge[g].toReady /\ e.via = str /\ e.reply = rep
    BY <1>1, <1>2 DEF EdgeRecord
  <1> HIDE DEF e
  <1>. QED BY <1>2, <1>3, <1>4 DEF OthersStay, SameBuild

\* The phase of one build is set.
LEMMA PhaseSet ==
    ASSUME edge \in [Builds -> EdgeRecord], NEW g \in Builds, NEW p \in Phases,
           edge' = [edge EXCEPT ![g].phase = p]
    PROVE  /\ edge' \in [Builds -> EdgeRecord]
           /\ OthersStay(g) /\ SameBuild(g)
           /\ edge'[g].phase = p /\ edge'[g].toReady = edge[g].toReady /\ edge'[g].via = edge[g].via
           /\ edge'[g].reply = edge[g].reply
  <1> DEFINE e == [edge[g] EXCEPT !.phase = p]
  <1>1. edge[g] \in EdgeRecord
    OBVIOUS
  <1>2. edge' = [edge EXCEPT ![g] = e]
    OBVIOUS
  <1>3. /\ e \in EdgeRecord /\ e.id = edge[g].id /\ e.ends = edge[g].ends /\ e.phase = p
        /\ e.toReady = edge[g].toReady /\ e.via = edge[g].via /\ e.reply = edge[g].reply
    BY <1>1 DEF EdgeRecord
  <1> HIDE DEF e
  <1>. QED BY <1>2, <1>3 DEF OthersStay, SameBuild

\* send_net_teardown_kind notes the streams of both endpoints.
LEMMA ReleasedRecord ==
    ASSUME NEW e \in EdgeRecord, e.ends \in [Sides -> Nodes], NEW cl \in [Nodes -> 0..MaxSessions]
    PROVE  LET r == Released(e, cl) IN
           /\ r \in EdgeRecord /\ r.id = e.id /\ r.ends = e.ends /\ r.phase = "releasing"
           /\ \A d \in Sides : r.via[d] = cl[e.ends[d]] /\ r.reply[d] = IF cl[e.ends[d]] = 0 THEN "ok" ELSE "unsent"
  <1> DEFINE rep == [d \in Sides |-> IF cl[e.ends[d]] = 0 THEN "ok" ELSE "unsent"]
             str == [d \in Sides |-> cl[e.ends[d]]]
             r == [e EXCEPT !.phase = "releasing", !.toReady = <<>>, !.via = str, !.reply = rep]
  <1>1. rep \in [Sides -> Replies] /\ str \in [Sides -> 0..MaxSessions]
    BY DEF Replies
  <1>2. \A d \in Sides : str[d] = cl[e.ends[d]] /\ rep[d] = IF cl[e.ends[d]] = 0 THEN "ok" ELSE "unsent"
    OBVIOUS
  <1>3. r = Released(e, cl)
    BY DEF Released
  <1>4. <<>> \in ReadyOrders /\ "releasing" \in Phases
    BY DEF ReadyOrders, Phases
  <1> HIDE DEF rep, str
  <1>5. /\ r \in EdgeRecord /\ r.id = e.id /\ r.ends = e.ends /\ r.phase = "releasing"
        /\ r.via = str /\ r.reply = rep
    BY <1>1, <1>4 DEF EdgeRecord
  <1> HIDE DEF r
  <1>. QED BY <1>2, <1>3, <1>5

\* The NetReady messages still to be sent.
LEMMA Orders ==
    ASSUME NEW q \in ReadyOrders, q # <<>>
    PROVE  Head(q) \in Sides /\ Tail(q) \in ReadyOrders
  <1>1. Head(<<"c">>) = "c" /\ Tail(<<"c">>) = <<>> /\ Head(<<"s", "c">>) = "s" /\ Tail(<<"s", "c">>) = <<"c">>
    OBVIOUS
  <1>2. q = <<"c">> \/ q = <<"s", "c">>
    BY DEF ReadyOrders
  <1>. QED BY <1>1, <1>2 DEF ReadyOrders, Sides

\* What follows the last answer of a round.
LEMMA AfterRepliesRecord ==
    ASSUME NEW e \in EdgeRecord
    PROVE  LET r == AfterReplies(e) IN
           /\ r \in EdgeRecord /\ r.id = e.id /\ r.ends = e.ends /\ r.via = e.via /\ r.toReady = e.toReady
           /\ e.toReady = <<>> => r.phase = "built" /\ r.reply = e.reply
           /\ e.toReady # <<>> => /\ r.phase = "ready" /\ r.reply[Head(e.toReady)] = "unsent"
                                  /\ \A d \in Sides : d # Head(e.toReady) => r.reply[d] = e.reply[d]
  <1>1. CASE e.toReady = <<>>
    <2> DEFINE r == [e EXCEPT !.phase = "built"]
    <2>1. /\ r \in EdgeRecord /\ r.id = e.id /\ r.ends = e.ends /\ r.via = e.via /\ r.toReady = e.toReady
          /\ r.phase = "built" /\ r.reply = e.reply
      BY DEF EdgeRecord, Phases
    <2>2. AfterReplies(e) = r
      BY <1>1 DEF AfterReplies
    <2> HIDE DEF r
    <2>. QED BY <1>1, <2>1, <2>2
  <1>2. CASE e.toReady # <<>>
    <2> DEFINE h == Head(e.toReady)
               rep == [e.reply EXCEPT ![h] = "unsent"]
               r == [e EXCEPT !.phase = "ready", !.reply = rep]
    <2>1. h \in Sides /\ e.reply \in [Sides -> Replies]
      BY <1>2, Orders DEF EdgeRecord
    <2>2. AfterReplies(e) = r
      BY <1>2 DEF AfterReplies
    <2> HIDE DEF h
    <2>3. rep \in [Sides -> Replies] /\ rep[h] = "unsent" /\ \A d \in Sides : d # h => rep[d] = e.reply[d]
      BY <2>1 DEF Replies
    <2> HIDE DEF rep
    <2>4. /\ r \in EdgeRecord /\ r.id = e.id /\ r.ends = e.ends /\ r.via = e.via /\ r.toReady = e.toReady
          /\ r.phase = "ready" /\ r.reply = rep
      BY <2>3 DEF EdgeRecord, Phases
    <2> HIDE DEF r
    <2>. QED BY <1>2, <2>2, <2>3, <2>4 DEF h
  <1>. QED BY <1>1, <1>2

\* A command is taken out of the queue of a host, in whatever place it is.
LEMMA Removed ==
    ASSUME NEW S, NEW q \in Seq(S), NEW i \in 1..Len(q)
    PROVE  /\ Without(q, i) \in Seq(S) /\ Len(Without(q, i)) = Len(q) - 1
           /\ \A j \in 1..(Len(q) - 1) : Without(q, i)[j] = IF j < i THEN q[j] ELSE q[j + 1]
  <1> DEFINE l == SubSeq(q, 1, i - 1)
             r == SubSeq(q, i + 1, Len(q))
  <1>1. Len(q) \in Nat /\ i \in Nat /\ 1 <= i /\ i <= Len(q)
    OBVIOUS
  <1>2. l \in Seq(S) /\ Len(l) = i - 1 /\ \A j \in 1..(i - 1) : l[j] = q[j]
    OBVIOUS
  <1>3. r \in Seq(S) /\ Len(r) = Len(q) - i /\ \A j \in 1..(Len(q) - i) : r[j] = q[j + i]
    OBVIOUS
  <1>4. Without(q, i) = l \o r
    BY DEF Without
  <1> HIDE DEF l, r
  <1>5. /\ l \o r \in Seq(S) /\ Len(l \o r) = Len(q) - 1
        /\ \A j \in 1..(Len(q) - 1) : (l \o r)[j] = IF j <= i - 1 THEN l[j] ELSE r[j - (i - 1)]
    <2>1. /\ l \o r \in Seq(S) /\ Len(l \o r) = Len(l) + Len(r)
          /\ \A j \in 1..(Len(l) + Len(r)) : (l \o r)[j] = IF j <= Len(l) THEN l[j] ELSE r[j - Len(l)]
      BY <1>2, <1>3, ConcatProperties
    <2>. QED BY <1>1, <1>2, <1>3, <2>1
  <1>6. ASSUME NEW j \in 1..(Len(q) - 1)
        PROVE  (l \o r)[j] = IF j < i THEN q[j] ELSE q[j + 1]
    <2>1. CASE j < i
      BY <1>1, <1>2, <1>5, <2>1
    <2>2. CASE ~(j < i)
      <3>1. j - (i - 1) \in 1..(Len(q) - i) /\ (j - (i - 1)) + i = j + 1
        BY <1>1, <2>2
      <3>. QED BY <1>1, <1>3, <1>5, <2>2, <3>1
    <2>. QED BY <2>1, <2>2
  <1>. QED BY <1>4, <1>5, <1>6

\* A command arrives at a host.
LEMMA Appended ==
    ASSUME NEW S, NEW q \in Seq(S), NEW m \in S
    PROVE  /\ Append(q, m) \in Seq(S) /\ Len(Append(q, m)) = Len(q) + 1
           /\ \A j \in 1..Len(q) : Append(q, m)[j] = q[j]
           /\ Append(q, m)[Len(q) + 1] = m
  OBVIOUS

\* The pool and the ids in use are left alone.
PoolStays ==
    /\ next_fresh' = next_fresh /\ freed' = freed /\ freed_set' = freed_set
    /\ \A g \in Builds : /\ Active(g)' <=> Active(g)
                         /\ Active(g) => edge'[g].id = edge[g].id

\* ... so the pool keeps its invariant and the orchestrator took no step of it.
LEMMA PoolKept ==
    ASSUME PoolStays, PoolProof!PoolInv, IdsDistinct
    PROVE  PoolProof!PoolInv' /\ IdsDistinct' /\ UNCHANGED Pool!poolVars
  <1>1. Held' = Held
    BY DEF Held, PoolStays, Active
  <1>2. PoolProof!PoolInv'
    <2>1. UNCHANGED PoolProof!poolVars
      BY <1>1 DEF PoolStays, PoolProof!poolVars
    <2>2. [PoolProof!PoolNext]_(PoolProof!poolVars)
      BY <2>1
    <2>. QED BY <2>2, OverlayAssumption, PoolProof!PoolStep
  <1>3. IdsDistinct'
    BY DEF IdsDistinct, PoolStays
  <1>4. UNCHANGED Pool!poolVars
    BY <1>1 DEF PoolStays, Pool!poolVars, Held
  <1>. QED BY <1>2, <1>3, <1>4

\* What the commands, the acknowledgements and the kernel objects name.
LEMMA Members ==
    ASSUME TypeOK, WellPlaced
    PROVE  /\ \A n \in Nodes : Len(inbox[n]) \in Nat
           /\ \A n \in Nodes : \A i \in 1..Len(inbox[n]) :
                 /\ inbox[n][i].build \in Builds /\ inbox[n][i].side \in Sides
                 /\ inbox[n][i].via \in Sessions /\ inbox[n][i].kind \in Kinds
           /\ \A a \in acks : a.node \in Nodes /\ a.build \in Builds /\ a.side \in Sides /\ a.via \in Sessions
           /\ \A n \in Nodes : \A x \in kernel[n] : x[1] \in Builds /\ x[2] \in Sides /\ x = <<x[1], x[2]>>
           /\ \A n \in Nodes : session[n] \in 0..MaxSessions /\ clients[n] \in 0..MaxSessions
           /\ \A g \in Builds, d \in Sides : edge[g].via[d] \in 0..MaxSessions
  <1>1. inbox \in [Nodes -> Seq(CommandRecord)]
    BY DEF WellPlaced
  <1>2. \A n \in Nodes : \A i \in 1..Len(inbox[n]) : inbox[n][i] \in CommandRecord
    BY <1>1
  <1>3. \A n \in Nodes : kernel[n] \subseteq Builds \X Sides
    BY DEF TypeOK
  <1>4. acks \subseteq AckRecord
    BY DEF TypeOK, AckRecord
  <1>5. \A g \in Builds, d \in Sides : edge[g].via[d] \in 0..MaxSessions
    BY DEF TypeOK
  <1>6. \A n \in Nodes : session[n] \in 0..MaxSessions /\ clients[n] \in 0..MaxSessions
    BY DEF TypeOK
  <1>7. \A n \in Nodes : Len(inbox[n]) \in Nat
    BY <1>1
  <1>8. \A n \in Nodes : \A x \in kernel[n] : x[1] \in Builds /\ x[2] \in Sides /\ x = <<x[1], x[2]>>
    BY <1>3
  <1>9. \A a \in acks : a.node \in Nodes /\ a.build \in Builds /\ a.side \in Sides /\ a.via \in Sessions
    BY <1>4 DEF AckRecord
  <1>10. \A n \in Nodes : \A i \in 1..Len(inbox[n]) :
            /\ inbox[n][i].build \in Builds /\ inbox[n][i].side \in Sides
            /\ inbox[n][i].via \in Sessions /\ inbox[n][i].kind \in Kinds
    BY <1>2 DEF CommandRecord
  <1>. QED BY <1>5, <1>6, <1>7, <1>8, <1>9, <1>10

\* What is on the hosts stays, and so do the builds it belongs to.
LEMMA KernelStays ==
    ASSUME TypeOK, WellPlaced, kernel' = kernel,
           \A h \in Builds : edge[h].phase # "none" =>
               edge'[h].phase # "none" /\ \A b \in Sides : Node(h, b)' = Node(h, b)
    PROVE  KernelPlaced'
  <1> SUFFICES ASSUME NEW n \in Nodes, NEW x \in kernel[n]
               PROVE  edge'[x[1]].phase # "none" /\ Node(x[1], x[2])' = n
    BY DEF KernelPlaced
  <1>1. x[1] \in Builds /\ x[2] \in Sides
    BY Members
  <1>2. edge[x[1]].phase # "none" /\ Node(x[1], x[2]) = n
    BY DEF WellPlaced, KernelPlaced
  <1>. QED BY <1>1, <1>2

\* A build that has not been released goes on: it gets an answer, none in
\* time, or takes its next phase.  Acknowledgements may be used up.
Advances(g) ==
    /\ Standing(g) /\ Standing(g)'
    /\ edge' \in [Builds -> EdgeRecord] /\ OthersStay(g) /\ SameBuild(g) /\ edge'[g].via = edge[g].via
    /\ RepliesFollowPhase'
    /\ \A d \in Sides : edge'[g].reply[d] = "ok" =>
          \/ edge[g].reply[d] = "ok"
          \/ /\ edge[g].via[d] # 0
             /\ edge[g].via[d] = session[Node(g, d)] => Holds(Node(g, d), g, d)
    /\ acks' \subseteq acks
    /\ UNCHANGED <<poolVars, netVars, inbox, kernel>>

\* ... and what it counts as installed is installed.
LEMMA AdvancesStep ==
    ASSUME EdgeInv, NEW g \in Builds, Advances(g)
    PROVE  EdgeInv' /\ UNCHANGED Pool!poolVars /\ (Lives => Lives')
  <1> USE DEF EdgeInv
  <1>1. /\ \A h \in Builds : edge'[h].id = edge[h].id /\ edge'[h].ends = edge[h].ends /\ edge'[h].via = edge[h].via
        /\ \A h \in Builds : h # g => edge'[h] = edge[h]
        /\ edge[g].phase \in {"setup", "ready", "built", "live"} /\ edge'[g].phase \in {"setup", "ready", "built", "live"}
        /\ acks' \subseteq acks
        /\ clients' = clients /\ stream' = stream /\ session' = session /\ inbox' = inbox /\ kernel' = kernel
        /\ next_fresh' = next_fresh /\ freed' = freed /\ freed_set' = freed_set
    BY DEF Advances, Standing, OthersStay, SameBuild, poolVars, netVars
  <1>2. \A h \in Builds, d \in Sides : Node(h, d)' = Node(h, d)
    BY <1>1 DEF Node
  <1>3. \A h \in Builds : /\ edge'[h].phase = "none" <=> edge[h].phase = "none"
                          /\ edge[h].phase \in {"releasing", "done"} \/ edge'[h].phase \in {"releasing", "done"}
                             => edge'[h] = edge[h]
                          /\ Standing(h)' <=> Standing(h)
    BY <1>1 DEF Standing
  <1>4. TypeOK'
    BY <1>1 DEF TypeOK, Advances, EdgeRecord
  <1>5. WellPlaced'
    <2>1. EdgesPlaced'
      BY <1>1, <1>3 DEF WellPlaced, EdgesPlaced
    <2>2. KernelPlaced'
      BY <1>1, <1>2, <1>3, Members DEF WellPlaced, KernelPlaced
    <2>3. InboxPlaced'
      BY <1>1, <1>2, <1>3, Members DEF WellPlaced, InboxPlaced
    <2>4. AcksPlaced'
      BY <1>1, <1>2, <1>3, Members DEF WellPlaced, AcksPlaced
    <2>. QED BY <1>1, <2>1, <2>2, <2>3, <2>4 DEF WellPlaced
  <1>6. StreamsKnown'
    BY <1>1, <1>2, <1>3, Members DEF StreamsKnown
  <1>7. PoolStays
    BY <1>1 DEF PoolStays, Active
  <1>8. TeardownQueued' /\ TeardownAcked'
    <2>1. TeardownQueued'
      BY <1>1, <1>3, Members DEF TeardownQueued
    <2>2. TeardownAcked'
      BY <1>1, <1>3, Members DEF TeardownAcked
    <2>. QED BY <2>1, <2>2
  <1>9. AckedIsInstalled' /\ AnsweredIsInstalled'
    <2>1. AckedIsInstalled'
      BY <1>1, <1>3, Members DEF AckedIsInstalled, Holds
    <2>2. AnsweredIsInstalled'
      BY <1>1, <1>2, <1>3 DEF AnsweredIsInstalled, Advances, Holds
    <2>. QED BY <2>1, <2>2
  <1>10. Lives => Lives'
    <2>1. /\ \A n \in Nodes, h \in Builds, d \in Sides : Present(n, h, d)' <=> Present(n, h, d)
          /\ \A n \in Nodes, h \in Builds : Reach(n, h)' <=> Reach(n, h)
      <3>1. \A n \in Nodes, h \in Builds, d \in Sides : Present(n, h, d)' <=> Present(n, h, d)
        BY <1>1 DEF Present, Holds, Queued
      <3>2. \A h \in Builds : Active(h)' <=> Active(h)
        BY <1>1 DEF Active
      <3>3. session' = session /\ \A h \in Builds : edge'[h].via = edge[h].via
        BY <1>1
      <3>. QED BY <1>2, <3>1, <3>2, <3>3 DEF Reach
    <2>2. ReachDistinct => ReachDistinct'
      BY <1>1, <2>1 DEF ReachDistinct
    <2>3. PresentIsActive => PresentIsActive'
      BY <1>1, <2>1 DEF PresentIsActive, Active
    <2>4. AnsweredIsGone => AnsweredIsGone'
      <3>1. \A h \in Builds, d \in Sides : edge[h].phase \in {"releasing", "done"} => Node(h, d) \in Nodes
        BY DEF WellPlaced, EdgesPlaced, Node
      <3>. QED BY <1>1, <1>2, <1>3, <2>1, <3>1 DEF AnsweredIsGone
    <2>5. AckedIsGone => AckedIsGone'
      BY <1>1, <2>1, Members DEF AckedIsGone
    <2>. QED BY <2>2, <2>3, <2>4, <2>5 DEF Lives
  <1>. QED BY <1>4, <1>5, <1>6, <1>7, <1>8, <1>9, <1>10, PoolKept DEF Advances

\* A build is released by one endpoint: it confirmed, or its process is gone.
LetGo(g, d) ==
    /\ edge[g].phase = "releasing" /\ SetsReply(g, d, "ok")
    /\ \/ edge[g].via[d] = 0 \/ edge[g].via[d] # session[Node(g, d)]
       \/ \E a \in acks : a.kind = "teardown" /\ a.build = g /\ a.side = d /\ a.via = edge[g].via[d]
    /\ acks' \subseteq acks
    /\ UNCHANGED <<poolVars, netVars, inbox, kernel>>

\* ... and nothing of the build is left there.
LEMMA LetGoStep ==
    ASSUME EdgeInv, NEW g \in Builds, NEW d \in Sides, LetGo(g, d)
    PROVE  EdgeInv' /\ UNCHANGED Pool!poolVars /\ (Lives => Lives')
  <1> USE DEF EdgeInv
  <1>1. /\ edge' \in [Builds -> EdgeRecord]
        /\ \A h \in Builds : /\ edge'[h].id = edge[h].id /\ edge'[h].ends = edge[h].ends /\ edge'[h].via = edge[h].via
                             /\ edge'[h].phase = edge[h].phase
        /\ \A h \in Builds : h # g => edge'[h] = edge[h]
        /\ edge'[g].reply[d] = "ok" /\ \A b \in Sides : b # d => edge'[g].reply[b] = edge[g].reply[b]
    <2>1. edge \in [Builds -> EdgeRecord] /\ "ok" \in Replies /\ SetsReply(g, d, "ok")
      BY DEF TypeOK, EdgeRecord, Replies, LetGo
    <2>2. /\ edge' \in [Builds -> EdgeRecord] /\ OthersStay(g) /\ SameBuild(g)
          /\ edge'[g].phase = edge[g].phase /\ edge'[g].via = edge[g].via /\ edge'[g].reply[d] = "ok"
          /\ \A b \in Sides : b # d => edge'[g].reply[b] = edge[g].reply[b]
      BY <2>1, ReplySet
    <2>. QED BY <2>2 DEF OthersStay, SameBuild
  <1>1a. /\ edge[g].phase = "releasing"
         /\ acks' \subseteq acks
         /\ clients' = clients /\ stream' = stream /\ session' = session /\ inbox' = inbox /\ kernel' = kernel
         /\ next_fresh' = next_fresh /\ freed' = freed /\ freed_set' = freed_set
    BY DEF LetGo, poolVars, netVars
  <1>2. \A h \in Builds, b \in Sides : Node(h, b)' = Node(h, b)
    BY <1>1 DEF Node
  <1>3. \A h \in Builds : Standing(h)' <=> Standing(h)
    BY <1>1 DEF Standing
  <1>4. TypeOK'
    BY <1>1, <1>1a DEF TypeOK, EdgeRecord
  <1>5. WellPlaced'
    <2>1. EdgesPlaced'
      BY <1>1 DEF WellPlaced, EdgesPlaced
    <2>2. KernelPlaced'
      BY <1>1, <1>1a, <1>2, Members DEF WellPlaced, KernelPlaced
    <2>3. InboxPlaced'
      BY <1>1, <1>1a, <1>2, Members DEF WellPlaced, InboxPlaced
    <2>4. AcksPlaced'
      BY <1>1, <1>1a, <1>2, Members DEF WellPlaced, AcksPlaced
    <2>. QED BY <1>1a, <2>1, <2>2, <2>3, <2>4 DEF WellPlaced
  <1>6. StreamsKnown'
    BY <1>1, <1>1a, <1>2, Members DEF StreamsKnown
  <1>7. PoolStays
    BY <1>1, <1>1a DEF PoolStays, Active
  <1>8. TeardownQueued' /\ TeardownAcked'
    <2>1. ASSUME NEW n \in Nodes, NEW i \in 1..Len(inbox[n]), inbox[n][i].kind = "teardown",
                 inbox[n][i].build = g, inbox[n][i].side = d
          PROVE  FALSE
      <3>1. Node(g, d) = n /\ edge[g].via[d] = session[n] /\ session[n] # 0
        BY <2>1, Members DEF WellPlaced, InboxPlaced, TeardownQueued, Sessions
      <3>2. PICK a \in acks : a.kind = "teardown" /\ a.build = g /\ a.side = d /\ a.via = edge[g].via[d]
        BY <3>1 DEF LetGo
      <3>3. a.node = n
        BY <3>1, <3>2 DEF WellPlaced, AcksPlaced
      <3>. QED BY <2>1, <3>1, <3>2, <3>3 DEF TeardownAcked
    <2>2. TeardownQueued'
      BY <1>1, <1>1a, <2>1, Members DEF TeardownQueued
    <2>3. TeardownAcked'
      BY <1>1, <1>1a, Members DEF TeardownAcked
    <2>. QED BY <2>2, <2>3
  <1>9. RepliesFollowPhase'
    BY <1>1, <1>1a DEF RepliesFollowPhase
  <1>10. AckedIsInstalled' /\ AnsweredIsInstalled'
    <2>1. AckedIsInstalled'
      BY <1>1, <1>1a, <1>3, Members DEF AckedIsInstalled, Holds
    <2>2. AnsweredIsInstalled'
      BY <1>1, <1>1a, <1>2, <1>3 DEF AnsweredIsInstalled, Standing, Holds
    <2>. QED BY <2>1, <2>2
  <1>11. Lives => Lives'
    <2>1. /\ \A n \in Nodes, h \in Builds, b \in Sides : Present(n, h, b)' <=> Present(n, h, b)
          /\ \A n \in Nodes, h \in Builds : Reach(n, h)' <=> Reach(n, h)
      <3>1. \A n \in Nodes, h \in Builds, b \in Sides : Present(n, h, b)' <=> Present(n, h, b)
        BY <1>1a DEF Present, Holds, Queued
      <3>2. \A h \in Builds : Active(h)' <=> Active(h)
        BY <1>1 DEF Active
      <3>3. session' = session /\ \A h \in Builds : edge'[h].via = edge[h].via
        BY <1>1, <1>1a
      <3>. QED BY <1>2, <3>1, <3>2, <3>3 DEF Reach
    <2>2. ReachDistinct => ReachDistinct'
      BY <1>1, <1>1a, <2>1 DEF ReachDistinct
    <2>3. PresentIsActive => PresentIsActive'
      BY <1>1, <1>1a, <2>1 DEF PresentIsActive, Active
    <2>4. AnsweredIsGone /\ AckedIsGone => AnsweredIsGone'
      <3>1. \A h \in Builds, b \in Sides : edge[h].phase \in {"releasing", "done"} => Node(h, b) \in Nodes
        BY DEF WellPlaced, EdgesPlaced, Node
      <3>2. ASSUME AckedIsGone, edge[g].via[d] # 0, edge[g].via[d] = session[Node(g, d)]
            PROVE  ~Present(Node(g, d), g, d)
        <4>1. PICK a \in acks : a.kind = "teardown" /\ a.build = g /\ a.side = d /\ a.via = edge[g].via[d]
          BY <3>2 DEF LetGo
        <4>2. a.node = Node(g, d)
          BY <4>1 DEF WellPlaced, AcksPlaced
        <4>. QED BY <3>2, <4>1, <4>2 DEF AckedIsGone
      <3>. QED BY <1>1, <1>1a, <1>2, <2>1, <3>1, <3>2 DEF AnsweredIsGone
    <2>5. AckedIsGone => AckedIsGone'
      BY <1>1, <1>1a, <2>1, Members DEF AckedIsGone
    <2>. QED BY <2>2, <2>3, <2>4, <2>5 DEF Lives
  <1>. QED BY <1>4, <1>5, <1>6, <1>7, <1>8, <1>9, <1>10, <1>11, PoolKept

\* Standing builds are released while the server has the streams cl on record;
\* streams that are gone may be noticed and forgotten, and what they carried
\* is lost.
Releases(L, cl) ==
    /\ \A g \in L : Standing(g)
    /\ edge' = [g \in Builds |-> IF g \in L THEN Released(edge[g], cl) ELSE edge[g]]
    /\ clients' = cl
    /\ \A n \in Nodes : cl[n] = clients[n] \/ cl[n] = 0
    /\ stream' \in [Nodes -> [Sessions -> {"unused", "open", "dead", "closed", "handled"}]]
    /\ \A n \in Nodes, k \in Sessions :
          \/ stream'[n][k] = stream[n][k]
          \/ stream[n][k] \in {"dead", "closed"} /\ stream'[n][k] # "unused"
    /\ acks' \subseteq acks
    /\ UNCHANGED <<poolVars, session, inbox, kernel>>

\* ... and what may still be on a host is noted for the teardown.
LEMMA ReleasesStep ==
    ASSUME EdgeInv, NEW L \in SUBSET Builds, NEW cl \in [Nodes -> 0..MaxSessions], Releases(L, cl)
    PROVE  EdgeInv' /\ UNCHANGED Pool!poolVars /\ (Lives => Lives')
  <1> USE DEF EdgeInv
  <1>1. /\ edge' \in [Builds -> EdgeRecord]
        /\ \A h \in Builds : edge'[h].id = edge[h].id /\ edge'[h].ends = edge[h].ends
        /\ \A h \in Builds : h \notin L => edge'[h] = edge[h]
        /\ \A h \in L : edge[h].phase \in {"setup", "ready", "built", "live"} /\ edge'[h].phase = "releasing"
        /\ \A h \in L, d \in Sides : edge'[h].via[d] = cl[Node(h, d)]
        /\ \A h \in L, d \in Sides : edge'[h].reply[d] = "ok" => edge'[h].via[d] = 0
    <2>1. ASSUME NEW h \in L
          PROVE  /\ edge[h].phase \in {"setup", "ready", "built", "live"}
                 /\ edge'[h] \in EdgeRecord /\ edge'[h].id = edge[h].id /\ edge'[h].ends = edge[h].ends
                 /\ edge'[h].phase = "releasing"
                 /\ \A d \in Sides : /\ edge'[h].via[d] = cl[Node(h, d)]
                                     /\ edge'[h].reply[d] = "ok" => edge'[h].via[d] = 0
      <3>1. edge[h].phase \in {"setup", "ready", "built", "live"} /\ edge'[h] = Released(edge[h], cl)
        BY DEF Releases, Standing
      <3>2. edge[h] \in EdgeRecord /\ edge[h].ends \in [Sides -> Nodes]
        BY <3>1 DEF TypeOK, EdgeRecord, WellPlaced, EdgesPlaced
      <3>. QED BY <3>1, <3>2, ReleasedRecord DEF Node
    <2>2. \A h \in Builds : h \notin L => edge'[h] = edge[h] /\ edge[h] \in EdgeRecord
      BY DEF Releases, TypeOK, EdgeRecord
    <2>3. edge' \in [Builds -> EdgeRecord]
      BY <2>1, <2>2 DEF Releases
    <2>4. \A h \in Builds : edge'[h].id = edge[h].id /\ edge'[h].ends = edge[h].ends
      BY <2>1, <2>2
    <2>5. \A h \in L : edge[h].phase \in {"setup", "ready", "built", "live"} /\ edge'[h].phase = "releasing"
      BY <2>1
    <2>6. /\ \A h \in L, d \in Sides : edge'[h].via[d] = cl[Node(h, d)]
          /\ \A h \in L, d \in Sides : edge'[h].reply[d] = "ok" => edge'[h].via[d] = 0
      BY <2>1
    <2>. QED BY <2>2, <2>3, <2>4, <2>5, <2>6
  <1>1a. /\ acks' \subseteq acks /\ clients' = cl
         /\ \A n \in Nodes : cl[n] = clients[n] \/ cl[n] = 0
         /\ session' = session /\ inbox' = inbox /\ kernel' = kernel
         /\ next_fresh' = next_fresh /\ freed' = freed /\ freed_set' = freed_set
    BY DEF Releases, poolVars
  <1>2. \A h \in Builds, b \in Sides : Node(h, b)' = Node(h, b)
    BY <1>1 DEF Node
  <1>3. \A h \in Builds : /\ edge'[h].phase = "none" <=> edge[h].phase = "none"
                          /\ edge[h].phase \in {"releasing", "done"} => edge'[h] = edge[h]
    BY <1>1
  <1>3a. \A h \in Builds : (Standing(h)' => h \notin L) /\ (Active(h)' <=> Active(h))
    BY <1>1 DEF Standing, Active
  <1>4. TypeOK'
    <2>1. edge' \in [Builds -> EdgeRecord]
      BY <1>1
    <2>2. stream' \in [Nodes -> [Sessions -> {"unused", "open", "dead", "closed", "handled"}]]
      BY DEF Releases
    <2>. QED BY <1>1a, <2>1, <2>2 DEF TypeOK, EdgeRecord
  <1>5. WellPlaced'
    <2>1. EdgesPlaced'
      BY <1>1, <1>3 DEF WellPlaced, EdgesPlaced
    <2>2. KernelPlaced'
      BY <1>1a, <1>2, <1>3, KernelStays
    <2>3. InboxPlaced'
      BY <1>1a, <1>2, <1>3, Members DEF WellPlaced, InboxPlaced
    <2>4. AcksPlaced'
      BY <1>1a, <1>2, <1>3, Members DEF WellPlaced, AcksPlaced
    <2>. QED BY <1>1a, <2>1, <2>2, <2>3, <2>4 DEF WellPlaced
  <1>5a. \A h \in Builds, b \in Sides : edge[h].phase # "none" => Node(h, b) \in Nodes
    BY DEF WellPlaced, EdgesPlaced, Node
  <1>6. StreamsKnown'
    <2>1. \A n \in Nodes, k \in Sessions : /\ stream[n][k] = "open" => stream'[n][k] = "open"
                                           /\ stream[n][k] # "unused" => stream'[n][k] # "unused"
      BY DEF Releases
    <2>2. \A n \in Nodes : /\ session[n] # 0 => session[n] \in Sessions
                           /\ clients[n] # 0 => clients[n] \in Sessions
      BY Members DEF Sessions
    <2>3. ASSUME NEW h \in Builds, edge'[h].phase # "none", NEW d \in Sides, edge'[h].via[d] # 0
          PROVE  stream'[Node(h, d)][edge'[h].via[d]] # "unused"
      <3>1. Node(h, d) \in Nodes
        BY <1>3, <1>5a, <2>3
      <3>2. CASE h \in L
        <4>1. edge'[h].via[d] = clients[Node(h, d)]
          <5>1. edge'[h].via[d] = cl[Node(h, d)]
            BY <1>1, <3>2
          <5>. QED BY <1>1a, <2>3, <3>1, <5>1
        <4>. QED BY <2>1, <2>2, <2>3, <3>1, <4>1 DEF StreamsKnown
      <3>3. CASE h \notin L
        <4>1. edge'[h] = edge[h] /\ edge[h].via[d] \in Sessions
          BY <1>1, <2>3, <3>3, Members DEF Sessions
        <4>. QED BY <2>1, <2>3, <3>1, <4>1 DEF StreamsKnown
      <3>. QED BY <3>2, <3>3
    <2>4. \A a \in acks : stream'[a.node][a.via] # "unused"
      BY <2>1, Members DEF StreamsKnown
    <2>5. \A n \in Nodes : session[n] # 0 => stream'[n][session[n]] = "open"
      BY <2>1, <2>2 DEF StreamsKnown
    <2>6. \A n \in Nodes : cl[n] # 0 => stream'[n][cl[n]] # "unused"
      BY <1>1a, <2>1, <2>2 DEF StreamsKnown
    <2>. QED BY <1>1a, <1>2, <2>3, <2>4, <2>5, <2>6 DEF StreamsKnown
  <1>7. PoolStays
    BY <1>1, <1>1a, <1>3a DEF PoolStays
  <1>8. TeardownQueued' /\ TeardownAcked'
    <2>1. TeardownQueued'
      BY <1>1a, <1>3, Members DEF TeardownQueued
    <2>2. TeardownAcked'
      BY <1>1a, <1>3, Members DEF TeardownAcked
    <2>. QED BY <2>1, <2>2
  <1>9. RepliesFollowPhase'
    BY <1>1 DEF RepliesFollowPhase
  <1>10. AckedIsInstalled' /\ AnsweredIsInstalled'
    <2>1. AckedIsInstalled'
      BY <1>1, <1>1a, <1>3a, Members DEF AckedIsInstalled, Standing, Holds
    <2>2. AnsweredIsInstalled'
      BY <1>1, <1>1a, <1>2, <1>3a DEF AnsweredIsInstalled, Standing, Holds
    <2>. QED BY <2>1, <2>2
  <1>11. Lives => Lives'
    <2>1. \A n \in Nodes, h \in Builds, b \in Sides : Present(n, h, b)' <=> Present(n, h, b)
      BY <1>1a DEF Present, Holds, Queued
    <2>2. ReachDistinct /\ PresentIsActive => ReachDistinct'
      <3> SUFFICES ASSUME ReachDistinct, PresentIsActive, NEW n \in Nodes, session[n] # 0,
                          NEW g \in Builds, NEW h \in Builds, Reach(n, g)', Reach(n, h)', edge[g].id = edge[h].id
                   PROVE  g = h
        BY <1>1, <1>1a DEF ReachDistinct
      <3>1. ASSUME NEW f \in Builds, Reach(n, f)'
            PROVE  Reach(n, f) \/ (clients[n] = session[n] /\ Active(f))
        <4>1. CASE \E d \in Sides : Present(n, f, d)'
          BY <2>1, <4>1 DEF Reach
        <4>2. CASE Active(f)' /\ \E d \in Sides : Node(f, d)' = n /\ edge'[f].via[d] = session[n]
          <5>1. PICK d \in Sides : Node(f, d) = n /\ edge'[f].via[d] = session[n]
            BY <1>2, <4>2
          <5>2. Active(f)
            BY <1>3a, <4>2
          <5>3. CASE f \in L
            <6>1. edge'[f].via[d] = cl[n]
              BY <1>1, <5>1, <5>3
            <6>. QED BY <1>1a, <5>1, <5>2, <6>1
          <5>4. CASE f \notin L
            BY <1>1, <5>1, <5>2, <5>4 DEF Reach
          <5>. QED BY <5>3, <5>4
        <4>. QED BY <1>1a, <3>1, <4>1, <4>2 DEF Reach
      <3>2. CASE clients[n] = session[n]
        <4>1. ASSUME NEW f \in Builds, Reach(n, f) PROVE Active(f)
          BY <3>2, <4>1 DEF Reach, PresentIsActive
        <4>. QED BY <3>1, <4>1 DEF IdsDistinct
      <3>3. CASE clients[n] # session[n]
        BY <3>1, <3>3 DEF ReachDistinct
      <3>. QED BY <3>2, <3>3
    <2>3. PresentIsActive => PresentIsActive'
      <3> SUFFICES ASSUME PresentIsActive, NEW n \in Nodes, session[n] # 0, cl[n] = session[n],
                          NEW h \in Builds, NEW b \in Sides, Present(n, h, b)
                   PROVE  Active(h)' /\ (edge'[h].phase = "releasing" => edge'[h].via[b] = session[n])
        BY <1>1a, <2>1 DEF PresentIsActive
      <3>1. clients[n] = session[n]
        BY <1>1a
      <3>2. Active(h) /\ (edge[h].phase = "releasing" => edge[h].via[b] = session[n])
        BY <3>1 DEF PresentIsActive
      <3>3. Node(h, b) = n
        BY Members DEF Present, Holds, Queued, WellPlaced, KernelPlaced, InboxPlaced
      <3>4. CASE h \in L
        <4>1. edge'[h].via[b] = cl[n]
          BY <1>1, <3>3, <3>4
        <4>. QED BY <1>3a, <3>2, <4>1
      <3>5. CASE h \notin L
        BY <1>1, <1>3a, <3>2, <3>5
      <3>. QED BY <3>4, <3>5
    <2>4. AnsweredIsGone => AnsweredIsGone'
      <3> SUFFICES ASSUME AnsweredIsGone, NEW h \in Builds, NEW b \in Sides,
                          edge'[h].phase \in {"releasing", "done"}, edge'[h].reply[b] = "ok",
                          edge'[h].via[b] # 0, edge'[h].via[b] = session[Node(h, b)]
                   PROVE  ~Present(Node(h, b), h, b)'
        BY <1>1a, <1>2 DEF AnsweredIsGone
      <3>1. h \notin L
        BY <1>1
      <3>1a. edge'[h] = edge[h]
        BY <1>1, <3>1
      <3>2. Node(h, b) \in Nodes
        BY <1>5a, <3>1a
      <3>. QED BY <1>2, <2>1, <3>1a, <3>2 DEF AnsweredIsGone
    <2>5. AckedIsGone => AckedIsGone'
      BY <1>1a, <2>1, Members DEF AckedIsGone
    <2>. QED BY <2>2, <2>3, <2>4, <2>5 DEF Lives
  <1>. QED BY <1>4, <1>5, <1>6, <1>7, <1>8, <1>9, <1>10, <1>11, PoolKept

\* Every endpoint asked has let go: the id is free, and nothing of its life is
\* left on a host the server can reach.
LEMMA FreeStep ==
    ASSUME EdgeInv, NEW g \in Builds, FreeNetId(g)
    PROVE  EdgeInv' /\ Pool!PoolNext /\ (Lives => Lives')
  <1> USE DEF EdgeInv
  <1>1. /\ edge' \in [Builds -> EdgeRecord]
        /\ \A h \in Builds : /\ edge'[h].id = edge[h].id /\ edge'[h].ends = edge[h].ends /\ edge'[h].via = edge[h].via
                             /\ edge'[h].reply = edge[h].reply
        /\ \A h \in Builds : h # g => edge'[h] = edge[h]
        /\ edge[g].phase = "releasing" /\ edge'[g].phase = "done" /\ \A d \in Sides : edge[g].reply[d] = "ok"
    <2>1. edge \in [Builds -> EdgeRecord] /\ "done" \in Phases /\ edge' = [edge EXCEPT ![g].phase = "done"]
      BY DEF TypeOK, EdgeRecord, Phases, FreeNetId
    <2>2. /\ edge' \in [Builds -> EdgeRecord] /\ OthersStay(g) /\ SameBuild(g)
          /\ edge'[g].phase = "done" /\ edge'[g].via = edge[g].via /\ edge'[g].reply = edge[g].reply
      BY <2>1, PhaseSet
    <2>. QED BY <2>2 DEF OthersStay, SameBuild, FreeNetId
  <1>1a. /\ acks' = acks /\ clients' = clients /\ stream' = stream /\ session' = session
         /\ inbox' = inbox /\ kernel' = kernel
    BY DEF FreeNetId, netVars, hostVars
  <1>2. \A h \in Builds, b \in Sides : Node(h, b)' = Node(h, b)
    BY <1>1 DEF Node
  <1>3. \A h \in Builds : /\ edge'[h].phase = "none" <=> edge[h].phase = "none"
                          /\ edge[h].phase \in {"setup", "ready", "built", "live"} => edge'[h] = edge[h]
                          /\ edge'[h].phase \in {"releasing", "done"} <=> edge[h].phase \in {"releasing", "done"}
    BY <1>1
  <1>3a. \A h \in Builds : (Standing(h)' <=> Standing(h)) /\ (Active(h)' <=> Active(h) /\ h # g)
    BY <1>1 DEF Standing, Active
  <1>4. TypeOK'
    BY <1>1, <1>1a DEF TypeOK, EdgeRecord
  <1>5. WellPlaced'
    <2>1. EdgesPlaced'
      BY <1>1, <1>3 DEF WellPlaced, EdgesPlaced
    <2>2. KernelPlaced'
      BY <1>1a, <1>2, <1>3, KernelStays
    <2>3. InboxPlaced'
      BY <1>1a, <1>2, <1>3, Members DEF WellPlaced, InboxPlaced
    <2>4. AcksPlaced'
      BY <1>1a, <1>2, <1>3, Members DEF WellPlaced, AcksPlaced
    <2>. QED BY <1>1a, <2>1, <2>2, <2>3, <2>4 DEF WellPlaced
  <1>6. StreamsKnown'
    BY <1>1, <1>1a, <1>2, <1>3, Members DEF StreamsKnown
  <1>7. PoolProof!PoolInv' /\ IdsDistinct' /\ Pool!PoolNext
    <2>1. edge[g].id \in Held /\ Held' = Held \ {edge[g].id}
      <3>1. Active(g)
        BY <1>1 DEF Active
      <3>2. \A h \in Builds : Active(h) /\ edge[h].id = edge[g].id => h = g
        BY <3>1 DEF IdsDistinct
      <3>3. Held = {edge[h].id : h \in {b \in Builds : Active(b)}}
        BY DEF Held, Active
      <3>4. Held' = {edge[h].id : h \in {b \in Builds : Active(b) /\ b # g}}
        BY <1>1, <1>3a DEF Held, Active
      <3>. QED BY <3>1, <3>2, <3>3, <3>4
    <2>2. edge[g].id \in MIN_NET_ID..MAX_NET_ID /\ Pool!free(edge[g].id)
      BY <1>1 DEF FreeNetId, WellPlaced, EdgesPlaced
    <2>3. PoolProof!PoolNext
      BY <2>1, <2>2 DEF PoolProof!PoolNext, PoolProof!Free, PoolProof!free, PoolProof!NetIds, PoolProof!pool,
         Pool!free, Pool!NetIds, Pool!pool
    <2>4. Pool!PoolNext
      BY <2>1, <2>2 DEF Pool!PoolNext, Pool!Free, Pool!NetIds, Held
    <2>5. PoolProof!PoolInv'
      BY <2>3, OverlayAssumption, PoolProof!PoolStep
    <2>6. IdsDistinct'
      BY <1>1, <1>3a DEF IdsDistinct
    <2>. QED BY <2>4, <2>5, <2>6
  <1>8. TeardownQueued' /\ TeardownAcked'
    <2>1. TeardownQueued'
      BY <1>1, <1>1a, Members DEF TeardownQueued
    <2>2. TeardownAcked'
      BY <1>1, <1>1a, <1>3, Members DEF TeardownAcked
    <2>. QED BY <2>1, <2>2
  <1>9. RepliesFollowPhase'
    BY <1>1 DEF RepliesFollowPhase
  <1>10. AckedIsInstalled' /\ AnsweredIsInstalled'
    <2>1. AckedIsInstalled'
      BY <1>1a, <1>3a, Members DEF AckedIsInstalled, Holds
    <2>2. AnsweredIsInstalled'
      BY <1>1, <1>1a, <1>2, <1>3a DEF AnsweredIsInstalled, Holds
    <2>. QED BY <2>1, <2>2
  <1>11. Lives => Lives'
    <2>1. \A n \in Nodes, h \in Builds, b \in Sides : Present(n, h, b)' <=> Present(n, h, b)
      BY <1>1a DEF Present, Holds, Queued
    <2>2. ReachDistinct => ReachDistinct'
      <3>1. \A n \in Nodes, h \in Builds : Reach(n, h)' => Reach(n, h)
        BY <1>1, <1>1a, <1>2, <1>3a, <2>1 DEF Reach
      <3>. QED BY <1>1, <1>1a, <3>1 DEF ReachDistinct
    <2>3. PresentIsActive /\ AnsweredIsGone => PresentIsActive'
      <3> SUFFICES ASSUME PresentIsActive, AnsweredIsGone, NEW n \in Nodes, session[n] # 0, clients[n] = session[n],
                          NEW h \in Builds, NEW b \in Sides, Present(n, h, b)
                   PROVE  Active(h)' /\ (edge'[h].phase = "releasing" => edge'[h].via[b] = session[n])
        BY <1>1a, <2>1 DEF PresentIsActive
      <3>1. Active(h) /\ (edge[h].phase = "releasing" => edge[h].via[b] = session[n])
        BY DEF PresentIsActive
      <3>2. Node(h, b) = n
        BY Members DEF Present, Holds, Queued, WellPlaced, KernelPlaced, InboxPlaced
      <3>3. h # g
        BY <1>1, <3>1, <3>2 DEF AnsweredIsGone
      <3>. QED BY <1>1, <1>3a, <3>1, <3>3
    <2>4. AnsweredIsGone => AnsweredIsGone'
      <3>1. \A h \in Builds, b \in Sides : edge[h].phase \in {"releasing", "done"} => Node(h, b) \in Nodes
        BY DEF WellPlaced, EdgesPlaced, Node
      <3>. QED BY <1>1, <1>1a, <1>2, <1>3, <2>1, <3>1 DEF AnsweredIsGone
    <2>5. AckedIsGone => AckedIsGone'
      BY <1>1a, <2>1, Members DEF AckedIsGone
    <2>. QED BY <2>2, <2>3, <2>4, <2>5 DEF Lives
  <1>. QED BY <1>4, <1>5, <1>6, <1>7, <1>8, <1>9, <1>10, <1>11

\* A new build takes an id nobody holds, and nothing of it is anywhere yet.
LEMMA StartStep ==
    ASSUME EdgeInv, NEW g \in Builds, NEW shape \in Shapes, StartBuild(g, shape)
    PROVE  EdgeInv' /\ Pool!PoolNext /\ (Lives => Lives')
  <1> USE DEF EdgeInv
  <1>0. PICK id \in MIN_NET_ID..MAX_NET_ID :
           /\ Pool!allocate(id)
           /\ edge' = [edge EXCEPT ![g] = [NoEdge EXCEPT !.id = id, !.ends = [d \in Sides |-> shape[d]],
                                                        !.phase = "setup", !.toReady = shape.order]]
    BY DEF StartBuild
  <1>1. /\ edge' \in [Builds -> EdgeRecord]
        /\ \A h \in Builds : h # g => edge'[h] = edge[h]
        /\ edge[g].phase = "none" /\ edge'[g].phase = "setup" /\ edge'[g].id = id
        /\ edge'[g].ends \in [Sides -> Nodes]
        /\ \A d \in Sides : edge'[g].reply[d] = "unsent" /\ edge'[g].via[d] = 0
    <2> DEFINE ends == [d \in Sides |-> shape[d]]
               e == [NoEdge EXCEPT !.id = id, !.ends = ends, !.phase = "setup", !.toReady = shape.order]
    <2>1. edge' = [edge EXCEPT ![g] = e]
      BY <1>0
    <2>2. ends \in [Sides -> Nodes] /\ shape.order \in ReadyOrders
      BY OverlayAssumption DEF Sides
    <2>3. NoEdge \in EdgeRecord /\ \A d \in Sides : NoEdge.reply[d] = "unsent" /\ NoEdge.via[d] = 0
      BY OverlayAssumption DEF NoEdge, EdgeRecord, Phases, Replies, ReadyOrders
    <2> HIDE DEF ends
    <2>4. /\ e \in EdgeRecord /\ e.phase = "setup" /\ e.id = id /\ e.ends = ends
          /\ e.reply = NoEdge.reply /\ e.via = NoEdge.via
      BY <2>2, <2>3 DEF EdgeRecord, Phases
    <2> HIDE DEF e
    <2>5. edge \in [Builds -> EdgeRecord] /\ edge[g].phase = "none"
      BY DEF TypeOK, EdgeRecord, StartBuild
    <2>. QED BY <2>1, <2>2, <2>3, <2>4, <2>5
  <1>1a. /\ acks' = acks /\ clients' = clients /\ stream' = stream /\ session' = session
         /\ inbox' = inbox /\ kernel' = kernel
    BY DEF StartBuild, netVars, hostVars
  <1>2. \A h \in Builds, b \in Sides : h # g => Node(h, b)' = Node(h, b)
    BY <1>1 DEF Node
  <1>3. \A h \in Builds : edge[h].phase # "none" => h # g /\ edge'[h] = edge[h]
    BY <1>1
  <1>4. TypeOK'
    BY <1>1, <1>1a DEF TypeOK, EdgeRecord
  <1>5. WellPlaced'
    <2>1. EdgesPlaced'
      BY <1>1 DEF WellPlaced, EdgesPlaced
    <2>2. KernelPlaced'
      BY <1>1a, <1>2, <1>3, Members DEF WellPlaced, KernelPlaced
    <2>3. InboxPlaced'
      BY <1>1a, <1>2, <1>3, Members DEF WellPlaced, InboxPlaced
    <2>4. AcksPlaced'
      BY <1>1a, <1>2, <1>3, Members DEF WellPlaced, AcksPlaced
    <2>. QED BY <1>1a, <2>1, <2>2, <2>3, <2>4 DEF WellPlaced
  <1>6. StreamsKnown'
    <2>1. ASSUME NEW h \in Builds, edge'[h].phase # "none", NEW d \in Sides, edge'[h].via[d] # 0
          PROVE  stream[Node(h, d)'][edge'[h].via[d]] # "unused"
      BY <1>1, <1>2, <2>1 DEF StreamsKnown
    <2>. QED BY <1>1a, <2>1 DEF StreamsKnown
  <1>7. PoolProof!PoolInv' /\ IdsDistinct' /\ Pool!PoolNext
    <2>1. Held' = Held \cup {id} /\ \A h \in Builds : Active(h) => edge[h].id \in Held
      <3>1. /\ \A h \in Builds : h # g => (Active(h)' <=> Active(h)) /\ edge'[h].id = edge[h].id
            /\ ~Active(g) /\ Active(g)' /\ edge'[g].id = id
        BY <1>1 DEF Active
      <3>2. Held = {edge[h].id : h \in {b \in Builds : Active(b)}}
        BY DEF Held, Active
      <3>3. Held' = {edge'[h].id : h \in {b \in Builds : Active(b)'}}
        BY DEF Held, Active
      <3>. QED BY <3>1, <3>2, <3>3
    <2>2. PoolProof!allocate(id)
      BY <1>0 DEF Pool!allocate, Pool!AllocateReused, Pool!AllocateFresh,
         PoolProof!allocate, PoolProof!AllocateReused, PoolProof!AllocateFresh
    <2>3. PoolProof!PoolNext
      BY <2>1, <2>2 DEF PoolProof!PoolNext, PoolProof!Allocate, PoolProof!NetIds
    <2>4. Pool!PoolNext
      BY <1>0, <2>1 DEF Pool!PoolNext, Pool!Allocate, Pool!NetIds, Held
    <2>5. PoolProof!PoolInv'
      BY <2>3, OverlayAssumption, PoolProof!PoolStep
    <2>6. id \notin Held
      <3>1. CASE PoolProof!AllocateReused(id)
        BY <3>1 DEF PoolProof!AllocateReused, PoolProof!PoolInv, PoolProof!FreedIndexAgrees,
           PoolProof!Conservation, PoolProof!PoolTypeOK
      <3>2. CASE PoolProof!AllocateFresh(id)
        BY <3>2, OverlayAssumption DEF PoolProof!AllocateFresh, PoolProof!PoolInv, PoolProof!Conservation, PoolProof!PoolTypeOK
      <3>. QED BY <2>2, <3>1, <3>2 DEF PoolProof!allocate
    <2>7. IdsDistinct'
      BY <1>1, <2>1, <2>6 DEF IdsDistinct, Active
    <2>. QED BY <2>4, <2>5, <2>7
  <1>8. TeardownQueued' /\ TeardownAcked'
    <2>1. TeardownQueued'
      BY <1>1a, <1>3, Members DEF TeardownQueued
    <2>2. TeardownAcked'
      BY <1>1a, <1>3, Members DEF TeardownAcked
    <2>. QED BY <2>1, <2>2
  <1>9. RepliesFollowPhase'
    BY <1>1 DEF RepliesFollowPhase
  <1>10. AckedIsInstalled' /\ AnsweredIsInstalled'
    <2>1. AckedIsInstalled'
      BY <1>1a, <1>3, Members DEF AckedIsInstalled, Holds, Standing, WellPlaced, AcksPlaced
    <2>2. AnsweredIsInstalled'
      BY <1>1, <1>1a, <1>2 DEF AnsweredIsInstalled, Holds, Standing
    <2>. QED BY <2>1, <2>2
  <1>11. Lives => Lives'
    <2>1. \A n \in Nodes, h \in Builds, b \in Sides : Present(n, h, b)' <=> Present(n, h, b)
      BY <1>1a DEF Present, Holds, Queued
    <2>1a. \A n \in Nodes, b \in Sides : ~Present(n, g, b)
      BY <1>1, Members DEF Present, Holds, Queued, WellPlaced, KernelPlaced, InboxPlaced
    <2>2. ReachDistinct => ReachDistinct'
      <3>1. \A n \in Nodes : session[n] # 0 => ~Reach(n, g)'
        BY <1>1, <1>1a, <2>1, <2>1a DEF Reach
      <3>2. \A n \in Nodes, h \in Builds : h # g => (Reach(n, h)' <=> Reach(n, h))
        BY <1>1, <1>1a, <1>2, <2>1 DEF Reach, Active
      <3>. QED BY <1>1, <1>1a, <3>1, <3>2 DEF ReachDistinct
    <2>3. PresentIsActive => PresentIsActive'
      BY <1>1, <1>1a, <2>1, <2>1a DEF PresentIsActive, Active
    <2>4. AnsweredIsGone => AnsweredIsGone'
      <3>1. \A h \in Builds, b \in Sides : edge[h].phase \in {"releasing", "done"} => Node(h, b) \in Nodes
        BY DEF WellPlaced, EdgesPlaced, Node
      <3>. QED BY <1>1, <1>1a, <1>2, <2>1, <3>1 DEF AnsweredIsGone
    <2>5. AckedIsGone => AckedIsGone'
      BY <1>1a, <2>1, Members DEF AckedIsGone
    <2>. QED BY <2>2, <2>3, <2>4, <2>5 DEF Lives
  <1>. QED
    <2>1. EdgeInv'
      BY <1>4, <1>5, <1>6, <1>7, <1>8, <1>9, <1>10 DEF EdgeInv
    <2>. QED BY <1>7, <1>11, <2>1

\* The queue of a host whose process is down is empty.
LEMMA NothingQueued ==
    ASSUME TypeOK, WellPlaced, NEW n \in Nodes, session[n] = 0
    PROVE  Len(inbox[n]) = 0
  <1>1. \A i \in 1..Len(inbox[n]) : inbox[n][i].via = 0 /\ inbox[n][i].via \in Sessions
    BY Members DEF WellPlaced, InboxPlaced
  <1>2. 0 \notin Sessions /\ Len(inbox[n]) \in Nat
    BY Members DEF Sessions
  <1>. QED BY <1>1, <1>2

\* A process starts on a host it has purged, over a stream nothing mentions yet.
LEMMA ConnectStep ==
    ASSUME EdgeInv, NEW n \in Nodes, Connect(n)
    PROVE  EdgeInv' /\ UNCHANGED Pool!poolVars /\ (Lives => Lives')
  <1> USE DEF EdgeInv
  <1>0. PICK k \in 1..SessionsOf[n] :
           /\ stream[n][k] = "unused"
           /\ session' = [session EXCEPT ![n] = k]
           /\ stream' = [stream EXCEPT ![n][k] = "open"]
           /\ clients' = [clients EXCEPT ![n] = k]
    BY DEF Connect
  <1>1. /\ k \in Sessions /\ k # 0 /\ session[n] = 0 /\ stream[n][k] = "unused"
        /\ session'[n] = k /\ clients'[n] = k
        /\ \A q \in Nodes : q # n => session'[q] = session[q] /\ clients'[q] = clients[q] /\ kernel'[q] = kernel[q]
        /\ kernel'[n] = {}
        /\ \A q \in Nodes, j \in Sessions : stream'[q][j] = IF q = n /\ j = k THEN "open" ELSE stream[q][j]
        /\ edge' = edge /\ inbox' = inbox /\ acks' = acks
        /\ next_fresh' = next_fresh /\ freed' = freed /\ freed_set' = freed_set
    <2>1. k \in Sessions /\ k # 0
      BY OverlayAssumption DEF Sessions
    <2>2. /\ session' = [session EXCEPT ![n] = k] /\ clients' = [clients EXCEPT ![n] = k]
          /\ kernel' = [kernel EXCEPT ![n] = {}] /\ stream' = [stream EXCEPT ![n][k] = "open"]
          /\ session[n] = 0 /\ edge' = edge /\ inbox' = inbox /\ acks' = acks
          /\ next_fresh' = next_fresh /\ freed' = freed /\ freed_set' = freed_set
      BY <1>0 DEF Connect, Purged, poolVars
    <2>3. /\ session'[n] = k /\ clients'[n] = k /\ kernel'[n] = {}
          /\ \A q \in Nodes : q # n => session'[q] = session[q] /\ clients'[q] = clients[q] /\ kernel'[q] = kernel[q]
      BY <2>2 DEF TypeOK
    <2>4. \A q \in Nodes, j \in Sessions : stream'[q][j] = IF q = n /\ j = k THEN "open" ELSE stream[q][j]
      BY <2>1, <2>2 DEF TypeOK
    <2>. QED BY <1>0, <2>1, <2>2, <2>3, <2>4
  <1>2. \A h \in Builds, b \in Sides : Node(h, b)' = Node(h, b)
    BY <1>1 DEF Node
  <1>3. Len(inbox[n]) = 0
    BY <1>1, NothingQueued
  <1>4. TypeOK'
    <2>1. k \in 0..MaxSessions
      BY <1>1, OverlayAssumption DEF Sessions
    <2>2. kernel' = [kernel EXCEPT ![n] = {}]
      BY DEF Connect, Purged
    <2>. QED BY <1>0, <1>1, <2>1, <2>2 DEF TypeOK
  <1>5. WellPlaced'
    <2>1. EdgesPlaced'
      BY <1>1 DEF WellPlaced, EdgesPlaced
    <2>2. KernelPlaced'
      BY <1>1, <1>2, Members DEF WellPlaced, KernelPlaced
    <2>3. InboxPlaced'
      <3>1. \A q \in Nodes : 1..Len(inbox[q]) # {} => q # n
        BY <1>3
      <3>. QED BY <1>1, <1>2, <3>1, Members DEF WellPlaced, InboxPlaced
    <2>4. AcksPlaced'
      BY <1>1, <1>2, Members DEF WellPlaced, AcksPlaced
    <2>. QED BY <1>1, <2>1, <2>2, <2>3, <2>4 DEF WellPlaced
  <1>5a. \A h \in Builds, b \in Sides : edge[h].phase # "none" => Node(h, b) \in Nodes
    BY DEF WellPlaced, EdgesPlaced, Node
  <1>5b. /\ \A h \in Builds, b \in Sides : edge[h].phase # "none" /\ Node(h, b) = n => edge[h].via[b] # k
         /\ \A a \in acks : a.node = n => a.via # k
    BY <1>1 DEF StreamsKnown
  <1>6. StreamsKnown'
    <2>1. \A q \in Nodes, j \in Sessions : /\ stream[q][j] # "unused" => stream'[q][j] # "unused"
                                           /\ stream[q][j] = "open" => stream'[q][j] = "open"
      BY <1>1
    <2>2. \A q \in Nodes : /\ session[q] # 0 => session[q] \in Sessions
                           /\ clients[q] # 0 => clients[q] \in Sessions
      BY Members DEF Sessions
    <2>3. \A h \in Builds, b \in Sides : edge[h].via[b] # 0 => edge[h].via[b] \in Sessions
      BY Members DEF Sessions
    <2>4. \A a \in acks : stream'[a.node][a.via] # "unused"
      BY <2>1, Members DEF StreamsKnown
    <2>4a. stream'[n][session'[n]] = "open" /\ stream'[n][clients'[n]] # "unused"
      BY <1>1
    <2>5. \A q \in Nodes : session'[q] # 0 => stream'[q][session'[q]] = "open"
      <3> SUFFICES ASSUME NEW q \in Nodes, q # n, session'[q] # 0 PROVE stream'[q][session'[q]] = "open"
        BY <2>4a
      <3>1. session'[q] = session[q] /\ session[q] \in Sessions
        BY <1>1, <2>2
      <3>. QED BY <2>1, <3>1 DEF StreamsKnown
    <2>6. \A q \in Nodes : clients'[q] # 0 => stream'[q][clients'[q]] # "unused"
      <3> SUFFICES ASSUME NEW q \in Nodes, q # n, clients'[q] # 0 PROVE stream'[q][clients'[q]] # "unused"
        BY <2>4a
      <3>1. clients'[q] = clients[q] /\ clients[q] \in Sessions
        BY <1>1, <2>2
      <3>. QED BY <2>1, <3>1 DEF StreamsKnown
    <2>7. \A h \in Builds : edge[h].phase # "none" => \A b \in Sides :
             edge[h].via[b] # 0 => stream'[Node(h, b)][edge[h].via[b]] # "unused"
      BY <1>5a, <2>1, <2>3 DEF StreamsKnown
    <2>. QED BY <1>1, <1>2, <2>4, <2>5, <2>6, <2>7 DEF StreamsKnown
  <1>7. PoolStays
    BY <1>1 DEF PoolStays, Active
  <1>8. TeardownQueued' /\ TeardownAcked'
    <2>1. TeardownQueued'
      BY <1>1 DEF TeardownQueued
    <2>2. TeardownAcked'
      BY <1>1, <1>5b, Members DEF TeardownAcked
    <2>. QED BY <2>1, <2>2
  <1>9. RepliesFollowPhase'
    BY <1>1 DEF RepliesFollowPhase
  <1>10. AckedIsInstalled' /\ AnsweredIsInstalled'
    <2>1. AckedIsInstalled'
      <3>1. \A a \in acks : a.via = session'[a.node] => a.via = session[a.node] /\ kernel'[a.node] = kernel[a.node]
        BY <1>1, <1>5b, Members
      <3>2. acks' = acks /\ edge' = edge
        BY <1>1
      <3>. QED BY <3>1, <3>2 DEF AckedIsInstalled, Standing, Holds
    <2>2. AnsweredIsInstalled'
      BY <1>1, <1>2, <1>5a, <1>5b DEF AnsweredIsInstalled, Standing, Holds
    <2>. QED BY <2>1, <2>2
  <1>11. Lives => Lives'
    <2>1. /\ \A q \in Nodes, h \in Builds, b \in Sides : q # n => (Present(q, h, b)' <=> Present(q, h, b))
          /\ \A h \in Builds, b \in Sides : ~Present(n, h, b)'
      BY <1>1, <1>3 DEF Present, Holds, Queued
    <2>2. ReachDistinct => ReachDistinct'
      <3>1. \A h \in Builds : ~Reach(n, h)'
        BY <1>1, <1>2, <1>5b, <2>1 DEF Reach, Active
      <3>2. \A q \in Nodes, h \in Builds : q # n => (Reach(q, h)' <=> Reach(q, h))
        BY <1>1, <1>2, <2>1 DEF Reach, Active
      <3>. QED BY <1>1, <3>1, <3>2 DEF ReachDistinct
    <2>3. PresentIsActive => PresentIsActive'
      BY <1>1, <2>1 DEF PresentIsActive, Active
    <2>4. AnsweredIsGone => AnsweredIsGone'
      BY <1>1, <1>2, <1>5a, <1>5b, <2>1 DEF AnsweredIsGone
    <2>5. AckedIsGone => AckedIsGone'
      BY <1>1, <1>5b, <2>1, Members DEF AckedIsGone
    <2>. QED BY <2>2, <2>3, <2>4, <2>5 DEF Lives
  <1>. QED BY <1>4, <1>5, <1>6, <1>7, <1>8, <1>9, <1>10, <1>11, PoolKept

\* A process stops: what it was sent is lost with it, and its stream is over.
LEMMA StopStep ==
    ASSUME EdgeInv, NEW n \in Nodes, Stop(n)
    PROVE  EdgeInv' /\ UNCHANGED Pool!poolVars /\ (Lives => Lives')
  <1> USE DEF EdgeInv
  <1>1. /\ session'[n] = 0 /\ Len(inbox'[n]) = 0 /\ inbox' \in [Nodes -> Seq(CommandRecord)]
        /\ \A q \in Nodes : q # n => session'[q] = session[q] /\ inbox'[q] = inbox[q]
        /\ \A q \in Nodes, j \in Sessions : stream'[q][j] = IF q = n /\ j = session[n] THEN "dead" ELSE stream[q][j]
        /\ edge' = edge /\ clients' = clients /\ kernel' = kernel /\ acks' = acks
        /\ next_fresh' = next_fresh /\ freed' = freed /\ freed_set' = freed_set
    <2>1. session[n] \in Sessions
      BY Members DEF Stop, Sessions
    <2>2. /\ session' = [session EXCEPT ![n] = 0] /\ inbox' = [inbox EXCEPT ![n] = <<>>]
          /\ stream' = [stream EXCEPT ![n][session[n]] = "dead"]
          /\ edge' = edge /\ clients' = clients /\ kernel' = kernel /\ acks' = acks
          /\ next_fresh' = next_fresh /\ freed' = freed /\ freed_set' = freed_set
      BY DEF Stop, poolVars
    <2>3. /\ session'[n] = 0 /\ \A q \in Nodes : q # n => session'[q] = session[q]
      BY <2>2 DEF TypeOK
    <2>4. /\ inbox' \in [Nodes -> Seq(CommandRecord)] /\ inbox'[n] = <<>>
          /\ \A q \in Nodes : q # n => inbox'[q] = inbox[q]
      BY <2>2 DEF WellPlaced
    <2>5. \A q \in Nodes, j \in Sessions : stream'[q][j] = IF q = n /\ j = session[n] THEN "dead" ELSE stream[q][j]
      BY <2>1, <2>2 DEF TypeOK
    <2>. QED BY <2>2, <2>3, <2>4, <2>5
  <1>2. \A h \in Builds, b \in Sides : Node(h, b)' = Node(h, b)
    BY <1>1 DEF Node
  <1>3. \A q \in Nodes : 1..Len(inbox'[q]) # {} => q # n
    BY <1>1
  <1>4. TypeOK'
    <2>1. stream' \in [Nodes -> [Sessions -> {"unused", "open", "dead", "closed", "handled"}]]
      BY DEF TypeOK, Stop
    <2>2. session' \in [Nodes -> 0..MaxSessions]
      BY OverlayAssumption DEF TypeOK, Stop
    <2>3. \A q \in Nodes : inbox'[q] \in Seq([kind : Kinds, build : Builds, side : Sides, via : Sessions])
      BY <1>1 DEF CommandRecord
    <2>. QED BY <1>1, <2>1, <2>2, <2>3 DEF TypeOK
  <1>5. WellPlaced'
    <2>1. EdgesPlaced'
      BY <1>1 DEF WellPlaced, EdgesPlaced
    <2>2. KernelPlaced'
      BY <1>1, <1>2, Members DEF WellPlaced, KernelPlaced
    <2>3. InboxPlaced'
      BY <1>1, <1>2, <1>3, Members DEF WellPlaced, InboxPlaced
    <2>4. AcksPlaced'
      BY <1>1, <1>2, Members DEF WellPlaced, AcksPlaced
    <2>. QED BY <1>1, <2>1, <2>2, <2>3, <2>4 DEF WellPlaced
  <1>5a. \A h \in Builds, b \in Sides : edge[h].phase # "none" => Node(h, b) \in Nodes
    BY DEF WellPlaced, EdgesPlaced, Node
  <1>5b. 0 \notin Sessions
    BY DEF Sessions
  <1>6. StreamsKnown'
    <2>1. \A q \in Nodes, j \in Sessions : stream[q][j] # "unused" => stream'[q][j] # "unused"
      BY <1>1
    <2>2. \A q \in Nodes : /\ session[q] # 0 => session[q] \in Sessions
                           /\ clients[q] # 0 => clients[q] \in Sessions
      BY Members DEF Sessions
    <2>3. \A h \in Builds, b \in Sides : edge[h].via[b] # 0 => edge[h].via[b] \in Sessions
      BY Members DEF Sessions
    <2>4. \A a \in acks : stream'[a.node][a.via] # "unused"
      BY <2>1, Members DEF StreamsKnown
    <2>5. \A q \in Nodes : session'[q] # 0 => stream'[q][session'[q]] = "open"
      BY <1>1, <2>2 DEF StreamsKnown
    <2>6. \A q \in Nodes : clients[q] # 0 => stream'[q][clients[q]] # "unused"
      BY <2>1, <2>2 DEF StreamsKnown
    <2>7. \A h \in Builds : edge[h].phase # "none" => \A b \in Sides :
             edge[h].via[b] # 0 => stream'[Node(h, b)][edge[h].via[b]] # "unused"
      BY <1>5a, <2>1, <2>3 DEF StreamsKnown
    <2>. QED BY <1>1, <1>2, <2>4, <2>5, <2>6, <2>7 DEF StreamsKnown
  <1>7. PoolStays
    BY <1>1 DEF PoolStays, Active
  <1>8. TeardownQueued' /\ TeardownAcked'
    <2>0. edge' = edge
      BY <1>1
    <2>1. TeardownQueued'
      <3> SUFFICES ASSUME NEW q \in Nodes, NEW i \in 1..Len(inbox'[q]), inbox'[q][i].kind = "teardown"
                   PROVE  /\ edge[inbox'[q][i].build].phase = "releasing"
                          /\ edge[inbox'[q][i].build].reply[inbox'[q][i].side] = "waiting"
                          /\ edge[inbox'[q][i].build].via[inbox'[q][i].side] = inbox'[q][i].via
                          /\ \A j \in 1..Len(inbox'[q]) : j > i =>
                                ~(inbox'[q][j].build = inbox'[q][i].build /\ inbox'[q][j].side = inbox'[q][i].side)
        BY <2>0 DEF TeardownQueued
      <3>1. q # n
        BY <1>3
      <3>2. inbox'[q] = inbox[q]
        BY <1>1, <3>1
      <3>. QED BY <3>2 DEF TeardownQueued
    <2>2. TeardownAcked'
      <3>1. \A a \in acks : a.via = session'[a.node] => a.via = session[a.node] /\ inbox'[a.node] = inbox[a.node]
        BY <1>1, <1>5b, Members
      <3>2. ASSUME NEW a \in acks, a.kind = "teardown"
            PROVE  /\ edge[a.build].phase \in {"releasing", "done"} /\ edge[a.build].reply[a.side] # "unsent"
                   /\ a.via = session'[a.node] => \A i \in 1..Len(inbox'[a.node]) :
                         ~(inbox'[a.node][i].kind = "teardown" /\ inbox'[a.node][i].build = a.build /\ inbox'[a.node][i].side = a.side)
        <4>1. CASE a.via = session'[a.node]
          <5>1. a.via = session[a.node] /\ inbox'[a.node] = inbox[a.node]
            BY <3>1, <4>1
          <5>. QED BY <3>2, <5>1 DEF TeardownAcked
        <4>2. CASE a.via # session'[a.node]
          BY <3>2, <4>2 DEF TeardownAcked
        <4>. QED BY <4>1, <4>2
      <3>3. acks' = acks /\ edge' = edge
        BY <1>1
      <3>. QED BY <3>2, <3>3 DEF TeardownAcked
    <2>. QED BY <2>1, <2>2
  <1>9. RepliesFollowPhase'
    BY <1>1 DEF RepliesFollowPhase
  <1>10. AckedIsInstalled' /\ AnsweredIsInstalled'
    <2>1. AckedIsInstalled'
      <3>1. \A a \in acks : a.via = session'[a.node] => a.via = session[a.node]
        BY <1>1, <1>5b, Members
      <3>. QED BY <1>1, <3>1 DEF AckedIsInstalled, Standing, Holds
    <2>2. AnsweredIsInstalled'
      <3>1. \A q \in Nodes : session'[q] # 0 => session'[q] = session[q]
        BY <1>1
      <3>2. \A h \in Builds, b \in Sides : Standing(h) => Node(h, b) \in Nodes
        BY <1>5a DEF Standing
      <3>. QED BY <1>1, <1>2, <3>1, <3>2 DEF AnsweredIsInstalled, Standing, Holds
    <2>. QED BY <2>1, <2>2
  <1>11. Lives => Lives'
    <2>1. /\ \A q \in Nodes, h \in Builds, b \in Sides : q # n => (Present(q, h, b)' <=> Present(q, h, b))
      BY <1>1 DEF Present, Holds, Queued
    <2>2. ReachDistinct => ReachDistinct'
      <3>1. \A q \in Nodes, h \in Builds : q # n => (Reach(q, h)' <=> Reach(q, h))
        BY <1>1, <1>2, <2>1 DEF Reach, Active
      <3>. QED BY <1>1, <3>1 DEF ReachDistinct
    <2>3. PresentIsActive => PresentIsActive'
      BY <1>1, <2>1 DEF PresentIsActive, Active
    <2>4. AnsweredIsGone => AnsweredIsGone'
      BY <1>1, <1>2, <1>5a, <2>1 DEF AnsweredIsGone
    <2>5. AckedIsGone => AckedIsGone'
      BY <1>1, <1>5b, <2>1, Members DEF AckedIsGone
    <2>. QED BY <2>2, <2>3, <2>4, <2>5 DEF Lives
  <1>. QED BY <1>4, <1>5, <1>6, <1>7, <1>8, <1>9, <1>10, <1>11, PoolKept

\* A command is put on a stream: the process that holds it finds it last in its
\* queue, any other process never sees it.
LEMMA Delivered ==
    ASSUME WellPlaced, NEW n \in Nodes, NEW m \in CommandRecord,
           inbox' = IF session[n] = m.via THEN [inbox EXCEPT ![n] = Append(@, m)] ELSE inbox
    PROVE  /\ inbox' \in [Nodes -> Seq(CommandRecord)]
           /\ \A q \in Nodes : \A j \in 1..Len(inbox'[q]) :
                 \/ j \in 1..Len(inbox[q]) /\ inbox'[q][j] = inbox[q][j]
                 \/ q = n /\ session[n] = m.via /\ j = Len(inbox[n]) + 1 /\ inbox'[q][j] = m
           /\ \A q \in Nodes, h \in Builds, b \in Sides : Queued(q, h, b)' =>
                 Queued(q, h, b) \/ (q = n /\ session[n] = m.via /\ h = m.build /\ b = m.side)
  <1>1. inbox \in [Nodes -> Seq(CommandRecord)]
    BY DEF WellPlaced
  <1>2. /\ inbox' \in [Nodes -> Seq(CommandRecord)]
        /\ \A q \in Nodes : \A j \in 1..Len(inbox'[q]) :
              \/ j \in 1..Len(inbox[q]) /\ inbox'[q][j] = inbox[q][j]
              \/ q = n /\ session[n] = m.via /\ j = Len(inbox[n]) + 1 /\ inbox'[q][j] = m
    <2>1. CASE session[n] = m.via
      <3> DEFINE l == Append(inbox[n], m)
      <3>1. /\ l \in Seq(CommandRecord) /\ Len(l) = Len(inbox[n]) + 1
            /\ \A j \in 1..Len(inbox[n]) : l[j] = inbox[n][j]
            /\ l[Len(inbox[n]) + 1] = m
        BY <1>1, Appended
      <3>2. inbox' = [inbox EXCEPT ![n] = l]
        BY <2>1
      <3> HIDE DEF l
      <3>3. /\ inbox' \in [Nodes -> Seq(CommandRecord)] /\ inbox'[n] = l
            /\ \A q \in Nodes : q # n => inbox'[q] = inbox[q]
        BY <1>1, <3>1, <3>2
      <3>4. Len(inbox[n]) \in Nat
        BY <1>1
      <3>5. \A j \in 1..Len(l) : j \in 1..Len(inbox[n]) \/ j = Len(inbox[n]) + 1
        BY <3>1, <3>4
      <3>. QED BY <2>1, <3>1, <3>3, <3>5
    <2>2. CASE session[n] # m.via
      BY <1>1, <2>2
    <2>. QED BY <2>1, <2>2
  <1>. QED BY <1>2 DEF Queued

\* send_control has sent a setup or a ready command over the stream on record.
Asks(kind, g, d) ==
    LET k == clients[Node(g, d)] IN
    /\ edge[g].phase = kind /\ kind \in {"setup", "ready"}
    /\ kind = "ready" => d = Head(edge[g].toReady)
    /\ k # 0
    /\ AsksOver(g, d, k)
    /\ Enqueue(kind, g, d, k)
    /\ UNCHANGED <<poolVars, netVars, kernel, acks>>

\* ... over the stream of a process that has nothing of a freed build.
LEMMA AsksStep ==
    ASSUME EdgeInv, NEW g \in Builds, NEW d \in Sides, NEW kind, Asks(kind, g, d)
    PROVE  EdgeInv' /\ UNCHANGED Pool!poolVars /\ (Lives => Lives')
  <1> USE DEF EdgeInv
  <1>01. PICK n \in Nodes : Node(g, d) = n
    BY DEF Asks, WellPlaced, EdgesPlaced, Node
  <1>02. PICK k \in Sessions : k = clients[n]
    BY <1>01, Members DEF Asks, Sessions
  <1>03. PICK m \in CommandRecord : /\ m.kind \in {"setup", "ready"} /\ m.build = g /\ m.side = d /\ m.via = k
                                    /\ inbox' = IF session[n] = m.via THEN [inbox EXCEPT ![n] = Append(@, m)] ELSE inbox
    <2>1. Command(kind, g, d, k) \in CommandRecord
      BY DEF Command, CommandRecord, Kinds, Asks
    <2>. QED BY <1>01, <1>02, <2>1 DEF Asks, Enqueue, Command
  <1>0. m.build = g /\ m.side = d /\ m.via = k /\ m.kind # "teardown" /\ Node(g, d) = n /\ clients[n] = k /\ k # 0
    BY <1>01, <1>02, <1>03 DEF Sessions
  <1>1. /\ edge' \in [Builds -> EdgeRecord]
        /\ \A h \in Builds : /\ edge'[h].id = edge[h].id /\ edge'[h].ends = edge[h].ends /\ edge'[h].phase = edge[h].phase
                             /\ edge'[h].toReady = edge[h].toReady
        /\ \A h \in Builds : h # g => edge'[h] = edge[h]
        /\ edge[g].phase \in {"setup", "ready"}
        /\ edge'[g].via[d] = k /\ edge'[g].reply[d] = "waiting"
        /\ \A b \in Sides : b # d => edge'[g].reply[b] = edge[g].reply[b] /\ edge'[g].via[b] = edge[g].via[b]
    <2>1. edge[g].phase \in {"setup", "ready"}
      BY DEF Asks
    <2>1a. edge \in [Builds -> EdgeRecord]
      BY DEF TypeOK, EdgeRecord
    <2>1b. k \in 0..MaxSessions
      BY <1>02 DEF Sessions
    <2>1c. AsksOver(g, d, k)
      BY <1>01, <1>02 DEF Asks
    <2>2. /\ edge' \in [Builds -> EdgeRecord] /\ OthersStay(g) /\ SameBuild(g)
          /\ edge'[g].phase = edge[g].phase /\ edge'[g].toReady = edge[g].toReady
          /\ edge'[g].via[d] = k /\ edge'[g].reply[d] = "waiting"
          /\ \A b \in Sides : b # d => edge'[g].reply[b] = edge[g].reply[b] /\ edge'[g].via[b] = edge[g].via[b]
      BY <2>1a, <2>1b, <2>1c, Asked
    <2>. QED BY <2>1, <2>2 DEF OthersStay, SameBuild
  <1>1a. /\ acks' = acks /\ clients' = clients /\ stream' = stream /\ session' = session /\ kernel' = kernel
         /\ next_fresh' = next_fresh /\ freed' = freed /\ freed_set' = freed_set
    BY DEF Asks, netVars, poolVars
  <1>2. /\ \A h \in Builds, b \in Sides : Node(h, b)' = Node(h, b)
        /\ \A h \in Builds : edge'[h].phase = edge[h].phase /\ edge'[h].ends = edge[h].ends
    BY <1>1 DEF Node
  <1>3. /\ inbox' \in [Nodes -> Seq(CommandRecord)]
        /\ \A q \in Nodes : \A j \in 1..Len(inbox'[q]) :
              \/ j \in 1..Len(inbox[q]) /\ inbox'[q][j] = inbox[q][j]
              \/ q = n /\ session[n] = m.via /\ j = Len(inbox[n]) + 1 /\ inbox'[q][j] = m
        /\ \A q \in Nodes, h \in Builds, b \in Sides : Queued(q, h, b)' =>
              Queued(q, h, b) \/ (q = n /\ session[n] = m.via /\ h = m.build /\ b = m.side)
    BY <1>03, Delivered
  <1>4. TypeOK'
    <2>1. \A q \in Nodes : inbox'[q] \in Seq([kind : Kinds, build : Builds, side : Sides, via : Sessions])
      BY <1>3 DEF CommandRecord
    <2>. QED BY <1>1, <1>1a, <2>1 DEF TypeOK, EdgeRecord
  <1>5. WellPlaced'
    <2>1. EdgesPlaced'
      BY <1>1 DEF WellPlaced, EdgesPlaced
    <2>2. KernelPlaced'
      BY <1>1a, <1>2, KernelStays
    <2>3. InboxPlaced'
      <3> SUFFICES ASSUME NEW q \in Nodes, NEW i \in 1..Len(inbox'[q])
                   PROVE  /\ edge'[inbox'[q][i].build].phase # "none"
                          /\ edge'[inbox'[q][i].build].ends[inbox'[q][i].side] = q
                          /\ inbox'[q][i].via = session[q]
        BY <1>1a DEF InboxPlaced, Node
      <3>1. CASE i \in 1..Len(inbox[q]) /\ inbox'[q][i] = inbox[q][i]
        BY <1>2, <3>1, Members DEF WellPlaced, InboxPlaced, Node
      <3>2. CASE q = n /\ session[n] = m.via /\ inbox'[q][i] = m
        <4>1. edge'[g].phase # "none"
          BY <1>1
        <4>. QED BY <1>0, <1>2, <3>2, <4>1 DEF Node
      <3>. QED BY <1>3, <3>1, <3>2
    <2>4. AcksPlaced'
      BY <1>1a, <1>2, Members DEF WellPlaced, AcksPlaced
    <2>. QED BY <1>3, <2>1, <2>2, <2>3, <2>4 DEF WellPlaced
  <1>6. StreamsKnown'
    <2>1. stream[n][k] # "unused"
      BY <1>0 DEF StreamsKnown
    <2>. QED BY <1>0, <1>1, <1>1a, <1>2, <2>1, Members DEF StreamsKnown
  <1>7. PoolStays
    BY <1>1, <1>1a DEF PoolStays, Active
  <1>8. TeardownQueued' /\ TeardownAcked'
    <2>1. TeardownQueued'
      <3> SUFFICES ASSUME NEW q \in Nodes, NEW i \in 1..Len(inbox'[q]), inbox'[q][i].kind = "teardown"
                   PROVE  /\ edge'[inbox'[q][i].build].phase = "releasing"
                          /\ edge'[inbox'[q][i].build].reply[inbox'[q][i].side] = "waiting"
                          /\ edge'[inbox'[q][i].build].via[inbox'[q][i].side] = inbox'[q][i].via
                          /\ \A j \in 1..Len(inbox'[q]) : j > i =>
                                ~(inbox'[q][j].build = inbox'[q][i].build /\ inbox'[q][j].side = inbox'[q][i].side)
        BY DEF TeardownQueued
      <3>1. i \in 1..Len(inbox[q]) /\ inbox'[q][i] = inbox[q][i]
        BY <1>0, <1>3
      <3>2. inbox[q][i].build \in Builds /\ edge[inbox[q][i].build].phase = "releasing"
        BY <3>1, Members DEF TeardownQueued
      <3>3. inbox[q][i].build # g /\ edge'[inbox[q][i].build] = edge[inbox[q][i].build]
        BY <1>1, <3>2
      <3>4. ASSUME NEW j \in 1..Len(inbox'[q]), j > i
            PROVE  ~(inbox'[q][j].build = inbox[q][i].build /\ inbox'[q][j].side = inbox[q][i].side)
        <4>1. CASE j \in 1..Len(inbox[q]) /\ inbox'[q][j] = inbox[q][j]
          BY <3>1, <3>4, <4>1 DEF TeardownQueued
        <4>2. CASE inbox'[q][j] = m
          BY <1>0, <3>3, <4>2
        <4>. QED BY <1>3, <4>1, <4>2
      <3>. QED BY <3>1, <3>3, <3>4 DEF TeardownQueued
    <2>2. TeardownAcked'
      <3> SUFFICES ASSUME NEW a \in acks, a.kind = "teardown"
                   PROVE  /\ edge'[a.build].phase \in {"releasing", "done"} /\ edge'[a.build].reply[a.side] # "unsent"
                          /\ a.via = session[a.node] => \A i \in 1..Len(inbox'[a.node]) :
                                ~(inbox'[a.node][i].kind = "teardown" /\ inbox'[a.node][i].build = a.build
                                  /\ inbox'[a.node][i].side = a.side)
        BY <1>1a DEF TeardownAcked
      <3>1. a.build \in Builds /\ a.node \in Nodes /\ edge[a.build].phase \in {"releasing", "done"}
        BY Members DEF TeardownAcked
      <3>2. a.build # g /\ edge'[a.build] = edge[a.build]
        BY <1>1, <3>1
      <3>3. \A i \in 1..Len(inbox'[a.node]) : inbox'[a.node][i].build = a.build =>
               i \in 1..Len(inbox[a.node]) /\ inbox'[a.node][i] = inbox[a.node][i]
        BY <1>0, <1>3, <3>1, <3>2
      <3>. QED BY <3>2, <3>3 DEF TeardownAcked
    <2>. QED BY <2>1, <2>2
  <1>9. RepliesFollowPhase'
    <2>1. edge[g].phase = "ready" => d = Head(edge[g].toReady)
      BY DEF Asks
    <2>. QED BY <1>1, <2>1 DEF RepliesFollowPhase
  <1>9a. \A h \in Builds : (Standing(h)' <=> Standing(h)) /\ (Active(h)' <=> Active(h))
    BY <1>1 DEF Standing, Active
  <1>10. AckedIsInstalled' /\ AnsweredIsInstalled'
    <2>1. AckedIsInstalled'
      BY <1>1a, <1>9a, Members DEF AckedIsInstalled, Holds
    <2>2. AnsweredIsInstalled'
      BY <1>1, <1>1a, <1>2, <1>9a DEF AnsweredIsInstalled, Holds
    <2>. QED BY <2>1, <2>2
  <1>11. Lives => Lives'
    <2>1. \A q \in Nodes, h \in Builds, b \in Sides : Present(q, h, b)' =>
             Present(q, h, b) \/ (q = n /\ session[n] = k /\ h = g /\ b = d)
      BY <1>0, <1>1a, <1>3 DEF Present, Holds
    <2>2. ReachDistinct /\ PresentIsActive => ReachDistinct'
      <3> SUFFICES ASSUME ReachDistinct, PresentIsActive, NEW q \in Nodes, session[q] # 0,
                          NEW f \in Builds, NEW h \in Builds, Reach(q, f)', Reach(q, h)', edge[f].id = edge[h].id
                   PROVE  f = h
        BY <1>1, <1>1a DEF ReachDistinct
      <3>1. ASSUME NEW e \in Builds, Reach(q, e)'
            PROVE  Reach(q, e) \/ (clients[q] = session[q] /\ Active(e))
        <4>0. Active(g)
          BY <1>1 DEF Active
        <4>1. CASE \E b \in Sides : Present(q, e, b)'
          BY <1>0, <2>1, <4>0, <4>1 DEF Reach
        <4>2. CASE Active(e)' /\ \E b \in Sides : Node(e, b)' = q /\ edge'[e].via[b] = session[q]
          <5>1. PICK b \in Sides : Node(e, b) = q /\ edge'[e].via[b] = session[q]
            BY <1>2, <4>2
          <5>2. Active(e)
            BY <1>9a, <4>2
          <5>3. CASE e = g /\ b = d
            BY <1>0, <1>1, <5>1, <5>2, <5>3
          <5>4. CASE ~(e = g /\ b = d)
            <6>1. edge[e].via[b] = session[q]
              BY <1>1, <5>1, <5>4
            <6>. QED BY <5>1, <5>2, <6>1 DEF Reach
          <5>. QED BY <5>3, <5>4
        <4>. QED BY <1>1a, <3>1, <4>1, <4>2 DEF Reach
      <3>2. CASE clients[q] = session[q]
        <4>1. ASSUME NEW e \in Builds, Reach(q, e) PROVE Active(e)
          BY <3>2, <4>1 DEF Reach, PresentIsActive
        <4>. QED BY <3>1, <4>1 DEF IdsDistinct
      <3>3. CASE clients[q] # session[q]
        BY <3>1, <3>3 DEF ReachDistinct
      <3>. QED BY <3>2, <3>3
    <2>3. PresentIsActive => PresentIsActive'
      BY <1>1, <1>1a, <2>1 DEF PresentIsActive, Active
    <2>4. AnsweredIsGone => AnsweredIsGone'
      <3>1. \A h \in Builds, b \in Sides : edge[h].phase \in {"releasing", "done"} => Node(h, b) \in Nodes
        BY DEF WellPlaced, EdgesPlaced, Node
      <3>. QED BY <1>1, <1>1a, <1>2, <2>1, <3>1 DEF AnsweredIsGone
    <2>5. AckedIsGone => AckedIsGone'
      <3>1. \A a \in acks : a.kind = "teardown" => a.build # g
        BY <1>1 DEF TeardownAcked
      <3>. QED BY <1>1a, <2>1, <3>1, Members DEF AckedIsGone
    <2>. QED BY <2>2, <2>3, <2>4, <2>5 DEF Lives
  <1>. QED BY <1>4, <1>5, <1>6, <1>7, <1>8, <1>9, <1>10, <1>11, PoolKept

\* send_net_teardown_kind's task has sent the teardown over the stream it noted.
AsksTeardown(g, d) ==
    /\ edge[g].phase = "releasing" /\ edge[g].reply[d] = "unsent" /\ edge[g].via[d] # 0
    /\ SetsReply(g, d, "waiting")
    /\ Enqueue("teardown", g, d, edge[g].via[d])
    /\ UNCHANGED <<poolVars, netVars, kernel, acks>>

\* The teardown is the only one of its build and side, and it comes last.
LEMMA AsksTeardownStep ==
    ASSUME EdgeInv, NEW g \in Builds, NEW d \in Sides, AsksTeardown(g, d)
    PROVE  EdgeInv' /\ UNCHANGED Pool!poolVars /\ (Lives => Lives')
  <1> USE DEF EdgeInv
  <1>01. PICK n \in Nodes : Node(g, d) = n
    BY DEF AsksTeardown, WellPlaced, EdgesPlaced, Node
  <1>02. PICK k \in Sessions : k = edge[g].via[d]
    BY <1>01, Members DEF AsksTeardown, Sessions
  <1>03. PICK m \in CommandRecord : /\ m.kind = "teardown" /\ m.build = g /\ m.side = d /\ m.via = k
                                    /\ inbox' = IF session[n] = m.via THEN [inbox EXCEPT ![n] = Append(@, m)] ELSE inbox
    <2>1. Command("teardown", g, d, k) \in CommandRecord
      BY DEF Command, CommandRecord, Kinds
    <2>. QED BY <1>01, <1>02, <2>1 DEF AsksTeardown, Enqueue, Command
  <1>0. /\ m.build = g /\ m.side = d /\ m.via = k /\ m.kind = "teardown" /\ Node(g, d) = n /\ k # 0
        /\ edge[g].phase = "releasing" /\ edge[g].reply[d] = "unsent" /\ edge[g].via[d] = k
    BY <1>01, <1>02, <1>03 DEF Sessions, AsksTeardown
  <1>1. /\ edge' \in [Builds -> EdgeRecord]
        /\ \A h \in Builds : /\ edge'[h].id = edge[h].id /\ edge'[h].ends = edge[h].ends /\ edge'[h].phase = edge[h].phase
                             /\ edge'[h].via = edge[h].via
        /\ \A h \in Builds : h # g => edge'[h] = edge[h]
        /\ edge'[g].reply[d] = "waiting"
        /\ \A b \in Sides : b # d => edge'[g].reply[b] = edge[g].reply[b]
    <2>1. edge \in [Builds -> EdgeRecord]
      BY DEF TypeOK, EdgeRecord
    <2>1a. "waiting" \in Replies
      BY DEF Replies
    <2>1b. SetsReply(g, d, "waiting")
      BY DEF AsksTeardown
    <2>2. /\ edge' \in [Builds -> EdgeRecord] /\ OthersStay(g) /\ SameBuild(g)
          /\ edge'[g].phase = edge[g].phase /\ edge'[g].via = edge[g].via /\ edge'[g].reply[d] = "waiting"
          /\ \A b \in Sides : b # d => edge'[g].reply[b] = edge[g].reply[b]
      BY <2>1, <2>1a, <2>1b, ReplySet
    <2>. QED BY <2>2 DEF OthersStay, SameBuild
  <1>1a. /\ acks' = acks /\ clients' = clients /\ stream' = stream /\ session' = session /\ kernel' = kernel
         /\ next_fresh' = next_fresh /\ freed' = freed /\ freed_set' = freed_set
    BY DEF AsksTeardown, netVars, poolVars
  <1>1b. \A h \in Builds, b \in Sides : ~(h = g /\ b = d) => edge'[h].reply[b] = edge[h].reply[b]
    BY <1>1
  <1>2. /\ \A h \in Builds, b \in Sides : Node(h, b)' = Node(h, b)
        /\ \A h \in Builds : edge'[h].phase = edge[h].phase /\ edge'[h].ends = edge[h].ends /\ edge'[h].via = edge[h].via
    BY <1>1 DEF Node
  <1>3. /\ inbox' \in [Nodes -> Seq(CommandRecord)]
        /\ \A q \in Nodes : \A j \in 1..Len(inbox'[q]) :
              \/ j \in 1..Len(inbox[q]) /\ inbox'[q][j] = inbox[q][j]
              \/ q = n /\ session[n] = m.via /\ j = Len(inbox[n]) + 1 /\ inbox'[q][j] = m
        /\ \A q \in Nodes, h \in Builds, b \in Sides : Queued(q, h, b)' =>
              Queued(q, h, b) \/ (q = n /\ session[n] = m.via /\ h = m.build /\ b = m.side)
    BY <1>03, Delivered
  <1>4. TypeOK'
    <2>1. \A q \in Nodes : inbox'[q] \in Seq([kind : Kinds, build : Builds, side : Sides, via : Sessions])
      BY <1>3 DEF CommandRecord
    <2>. QED BY <1>1, <1>1a, <2>1 DEF TypeOK, EdgeRecord
  <1>5. WellPlaced'
    <2>1. EdgesPlaced'
      BY <1>1 DEF WellPlaced, EdgesPlaced
    <2>2. KernelPlaced'
      <3>1. \A h \in Builds : /\ edge'[h].phase = edge[h].phase
                              /\ \A b \in Sides : Node(h, b)' = Node(h, b)
        BY <1>2
      <3>2. kernel' = kernel
        BY <1>1a
      <3>. QED BY <3>1, <3>2, KernelStays
    <2>3. InboxPlaced'
      <3> SUFFICES ASSUME NEW q \in Nodes, NEW i \in 1..Len(inbox'[q])
                   PROVE  /\ edge'[inbox'[q][i].build].phase # "none"
                          /\ edge'[inbox'[q][i].build].ends[inbox'[q][i].side] = q
                          /\ inbox'[q][i].via = session[q]
        BY <1>1a DEF InboxPlaced, Node
      <3>1. CASE i \in 1..Len(inbox[q]) /\ inbox'[q][i] = inbox[q][i]
        BY <1>2, <3>1, Members DEF WellPlaced, InboxPlaced, Node
      <3>2. CASE q = n /\ session[n] = m.via /\ inbox'[q][i] = m
        <4>1. edge'[g].phase # "none"
          BY <1>0, <1>2
        <4>. QED BY <1>0, <1>2, <3>2, <4>1 DEF Node
      <3>. QED BY <1>3, <3>1, <3>2
    <2>4. AcksPlaced'
      BY <1>1a, <1>2, Members DEF WellPlaced, AcksPlaced
    <2>. QED BY <1>3, <2>1, <2>2, <2>3, <2>4 DEF WellPlaced
  <1>6. StreamsKnown'
    BY <1>1a, <1>2, Members DEF StreamsKnown
  <1>7. PoolStays
    BY <1>1, <1>1a DEF PoolStays, Active
  <1>8. TeardownQueued' /\ TeardownAcked'
    <2>1. TeardownQueued'
      <3> SUFFICES ASSUME NEW q \in Nodes, NEW i \in 1..Len(inbox'[q]), inbox'[q][i].kind = "teardown"
                   PROVE  /\ edge'[inbox'[q][i].build].phase = "releasing"
                          /\ edge'[inbox'[q][i].build].reply[inbox'[q][i].side] = "waiting"
                          /\ edge'[inbox'[q][i].build].via[inbox'[q][i].side] = inbox'[q][i].via
                          /\ \A j \in 1..Len(inbox'[q]) : j > i =>
                                ~(inbox'[q][j].build = inbox'[q][i].build /\ inbox'[q][j].side = inbox'[q][i].side)
        BY DEF TeardownQueued
      <3>1. CASE i \in 1..Len(inbox[q]) /\ inbox'[q][i] = inbox[q][i]
        <4>1. /\ inbox[q][i].build \in Builds /\ inbox[q][i].side \in Sides
              /\ edge[inbox[q][i].build].phase = "releasing"
              /\ edge[inbox[q][i].build].reply[inbox[q][i].side] = "waiting"
              /\ edge[inbox[q][i].build].via[inbox[q][i].side] = inbox[q][i].via
          BY <3>1, Members DEF TeardownQueued
        <4>2. ~(inbox[q][i].build = g /\ inbox[q][i].side = d)
          BY <1>0, <4>1
        <4>3. ASSUME NEW j \in 1..Len(inbox'[q]), j > i
              PROVE  ~(inbox'[q][j].build = inbox[q][i].build /\ inbox'[q][j].side = inbox[q][i].side)
          <5>1. CASE j \in 1..Len(inbox[q]) /\ inbox'[q][j] = inbox[q][j]
            BY <3>1, <4>3, <5>1 DEF TeardownQueued
          <5>2. CASE inbox'[q][j] = m
            BY <1>0, <4>2, <5>2
          <5>. QED BY <1>3, <5>1, <5>2
        <4>. QED BY <1>1b, <1>2, <3>1, <4>1, <4>2, <4>3
      <3>2. CASE q = n /\ i = Len(inbox[n]) + 1 /\ inbox'[q][i] = m
        <4>1. \A j \in 1..Len(inbox'[q]) : ~(j > i)
          <5>1. \A j \in 1..Len(inbox'[q]) : j \in 1..Len(inbox[q]) \/ j = Len(inbox[n]) + 1
            BY <1>3
          <5>2. Len(inbox[n]) \in Nat
            BY Members
          <5>. QED BY <3>2, <5>1, <5>2
        <4>2. edge'[g].phase = "releasing" /\ edge'[g].reply[d] = "waiting" /\ edge'[g].via[d] = k
          BY <1>0, <1>1
        <4>. QED BY <1>0, <3>2, <4>1, <4>2
      <3>. QED BY <1>3, <3>1, <3>2
    <2>2. TeardownAcked'
      <3> SUFFICES ASSUME NEW a \in acks, a.kind = "teardown"
                   PROVE  /\ edge'[a.build].phase \in {"releasing", "done"} /\ edge'[a.build].reply[a.side] # "unsent"
                          /\ a.via = session[a.node] => \A i \in 1..Len(inbox'[a.node]) :
                                ~(inbox'[a.node][i].kind = "teardown" /\ inbox'[a.node][i].build = a.build
                                  /\ inbox'[a.node][i].side = a.side)
        BY <1>1a DEF TeardownAcked
      <3>1. /\ a.build \in Builds /\ a.side \in Sides /\ a.node \in Nodes
            /\ edge[a.build].phase \in {"releasing", "done"} /\ edge[a.build].reply[a.side] # "unsent"
        BY Members DEF TeardownAcked
      <3>2. ~(a.build = g /\ a.side = d)
        BY <1>0, <3>1
      <3>3. \A i \in 1..Len(inbox'[a.node]) : inbox'[a.node][i].build = a.build /\ inbox'[a.node][i].side = a.side =>
               i \in 1..Len(inbox[a.node]) /\ inbox'[a.node][i] = inbox[a.node][i]
        BY <1>0, <1>3, <3>1, <3>2
      <3>4. edge'[a.build].phase \in {"releasing", "done"} /\ edge'[a.build].reply[a.side] # "unsent"
        BY <1>1b, <1>2, <3>1, <3>2
      <3>. QED BY <3>3, <3>4 DEF TeardownAcked
    <2>. QED BY <2>1, <2>2
  <1>9. RepliesFollowPhase'
    BY <1>0, <1>1 DEF RepliesFollowPhase
  <1>9a. \A h \in Builds : /\ (Standing(h)' <=> Standing(h)) /\ (Active(h)' <=> Active(h))
                           /\ Standing(h) => h # g
    BY <1>0, <1>2 DEF Standing, Active
  <1>10. AckedIsInstalled' /\ AnsweredIsInstalled'
    <2>1. AckedIsInstalled'
      BY <1>1a, <1>9a, Members DEF AckedIsInstalled, Holds
    <2>2. AnsweredIsInstalled'
      BY <1>1, <1>1a, <1>2, <1>9a DEF AnsweredIsInstalled, Holds
    <2>. QED BY <2>1, <2>2
  <1>11. Lives => Lives'
    <2>1. \A q \in Nodes, h \in Builds, b \in Sides : Present(q, h, b)' =>
             Present(q, h, b) \/ (q = n /\ session[n] = k /\ h = g /\ b = d)
      BY <1>0, <1>1a, <1>3 DEF Present, Holds
    <2>2. ReachDistinct => ReachDistinct'
      <3>0. Active(g)
        BY <1>0 DEF Active
      <3>1. ASSUME NEW q \in Nodes, NEW e \in Builds, Reach(q, e)' PROVE Reach(q, e)
        <4>1. CASE \E b \in Sides : Present(q, e, b)'
          BY <1>0, <2>1, <3>0, <4>1 DEF Reach
        <4>2. CASE Active(e)' /\ \E b \in Sides : Node(e, b)' = q /\ edge'[e].via[b] = session[q]
          BY <1>2, <1>9a, <4>2 DEF Reach
        <4>. QED BY <1>1a, <3>1, <4>1, <4>2 DEF Reach
      <3>. QED BY <1>1, <1>1a, <3>1 DEF ReachDistinct
    <2>3. PresentIsActive => PresentIsActive'
      <3>1. Active(g) /\ edge[g].via[d] = k
        BY <1>0 DEF Active
      <3>. QED BY <1>1a, <1>2, <1>9a, <2>1, <3>1 DEF PresentIsActive
    <2>4. AnsweredIsGone => AnsweredIsGone'
      <3>1. \A h \in Builds, b \in Sides : edge[h].phase \in {"releasing", "done"} => Node(h, b) \in Nodes
        BY DEF WellPlaced, EdgesPlaced, Node
      <3>2. edge'[g].reply[d] # "ok"
        BY <1>1
      <3>. QED BY <1>1a, <1>1b, <1>2, <2>1, <3>1, <3>2 DEF AnsweredIsGone
    <2>5. AckedIsGone => AckedIsGone'
      <3>1. \A a \in acks : a.kind = "teardown" => ~(a.build = g /\ a.side = d)
        BY <1>0 DEF TeardownAcked
      <3>. QED BY <1>1a, <2>1, <3>1, Members DEF AckedIsGone
    <2>. QED BY <2>2, <2>3, <2>4, <2>5 DEF Lives
  <1>. QED BY <1>4, <1>5, <1>6, <1>7, <1>8, <1>9, <1>10, <1>11, PoolKept

\* Where the command in place j was before the one in place i was taken.
From(i, j) == IF j < i THEN j ELSE j + 1

\* A command is taken out of the queue of host n; the others keep their order.
LEMMA Dequeued ==
    ASSUME WellPlaced, NEW n \in Nodes, NEW i \in 1..Len(inbox[n]),
           inbox' = [inbox EXCEPT ![n] = Without(@, i)]
    PROVE  /\ inbox' \in [Nodes -> Seq(CommandRecord)]
           /\ \A q \in Nodes : q # n => inbox'[q] = inbox[q]
           /\ \A j \in 1..Len(inbox'[n]) :
                 /\ From(i, j) \in 1..Len(inbox[n]) /\ From(i, j) # i /\ inbox'[n][j] = inbox[n][From(i, j)]
                 /\ \A l \in 1..Len(inbox'[n]) : j < l => From(i, j) < From(i, l)
           /\ \A q \in Nodes : \A j \in 1..Len(inbox'[q]) : \E l \in 1..Len(inbox[q]) : inbox'[q][j] = inbox[q][l]
           /\ \A q \in Nodes, h \in Builds, b \in Sides : Queued(q, h, b)' => Queued(q, h, b)
  <1> DEFINE w == Without(inbox[n], i)
  <1>1. inbox \in [Nodes -> Seq(CommandRecord)] /\ inbox[n] \in Seq(CommandRecord)
    BY DEF WellPlaced
  <1>2. /\ w \in Seq(CommandRecord) /\ Len(w) = Len(inbox[n]) - 1
        /\ \A j \in 1..(Len(inbox[n]) - 1) : w[j] = IF j < i THEN inbox[n][j] ELSE inbox[n][j + 1]
    BY <1>1, Removed
  <1>3. inbox' = [inbox EXCEPT ![n] = w]
    OBVIOUS
  <1> HIDE DEF w
  <1>4. inbox' \in [Nodes -> Seq(CommandRecord)] /\ inbox'[n] = w /\ \A q \in Nodes : q # n => inbox'[q] = inbox[q]
    BY <1>1, <1>2, <1>3
  <1>5. Len(inbox[n]) \in Nat /\ i \in Nat /\ 1 <= i
    BY <1>1
  <1>6. ASSUME NEW j \in 1..Len(w)
        PROVE  /\ From(i, j) \in 1..Len(inbox[n]) /\ From(i, j) # i /\ w[j] = inbox[n][From(i, j)]
               /\ \A l \in 1..Len(w) : j < l => From(i, j) < From(i, l)
    <2>1. j \in Nat /\ 1 <= j /\ j <= Len(inbox[n]) - 1
      BY <1>2, <1>5
    <2>2. From(i, j) \in 1..Len(inbox[n]) /\ From(i, j) # i
      BY <1>5, <2>1 DEF From
    <2>3. w[j] = inbox[n][From(i, j)]
      BY <1>2 DEF From
    <2>4. ASSUME NEW l \in 1..Len(w), j < l PROVE From(i, j) < From(i, l)
      BY <1>2, <1>5, <2>1, <2>4 DEF From
    <2>. QED BY <2>2, <2>3, <2>4
  <1>7. \A q \in Nodes : \A j \in 1..Len(inbox'[q]) : \E l \in 1..Len(inbox[q]) : inbox'[q][j] = inbox[q][l]
    <2> SUFFICES ASSUME NEW q \in Nodes, NEW j \in 1..Len(inbox'[q])
                 PROVE  \E l \in 1..Len(inbox[q]) : inbox'[q][j] = inbox[q][l]
      OBVIOUS
    <2>1. CASE q = n
      BY <1>4, <1>6, <2>1
    <2>2. CASE q # n
      BY <1>4, <2>2
    <2>. QED BY <2>1, <2>2
  <1>8. \A q \in Nodes, h \in Builds, b \in Sides : Queued(q, h, b)' => Queued(q, h, b)
    <2> SUFFICES ASSUME NEW q \in Nodes, NEW h \in Builds, NEW b \in Sides, Queued(q, h, b)'
                 PROVE  Queued(q, h, b)
      OBVIOUS
    <2>1. PICK j \in 1..Len(inbox'[q]) : inbox'[q][j].build = h /\ inbox'[q][j].side = b
      BY DEF Queued
    <2>2. PICK l \in 1..Len(inbox[q]) : inbox'[q][j] = inbox[q][l]
      BY <1>7, Zenon
    <2>. QED BY <2>1, <2>2 DEF Queued
  <1>. QED BY <1>4, <1>6, <1>7, <1>8

\* The teardowns that are left are still the last of their builds and sides.
LEMMA OthersStayQueued ==
    ASSUME WellPlaced, TeardownQueued, NEW n \in Nodes, NEW i \in 1..Len(inbox[n]), edge' = edge,
           inbox' = [inbox EXCEPT ![n] = Without(@, i)]
    PROVE  TeardownQueued'
  <1>0. /\ \A q \in Nodes : q # n => inbox'[q] = inbox[q]
        /\ \A j \in 1..Len(inbox'[n]) :
              /\ From(i, j) \in 1..Len(inbox[n]) /\ From(i, j) # i /\ inbox'[n][j] = inbox[n][From(i, j)]
              /\ \A l \in 1..Len(inbox'[n]) : j < l => From(i, j) < From(i, l)
    BY Dequeued
  <1> SUFFICES ASSUME NEW q \in Nodes, NEW j \in 1..Len(inbox'[q]), inbox'[q][j].kind = "teardown"
               PROVE  /\ edge[inbox'[q][j].build].phase = "releasing"
                      /\ edge[inbox'[q][j].build].reply[inbox'[q][j].side] = "waiting"
                      /\ edge[inbox'[q][j].build].via[inbox'[q][j].side] = inbox'[q][j].via
                      /\ \A l \in 1..Len(inbox'[q]) : l > j =>
                            ~(inbox'[q][l].build = inbox'[q][j].build /\ inbox'[q][l].side = inbox'[q][j].side)
    BY SMTT(30) DEF TeardownQueued
  <1>1. CASE q # n
    <2>1. inbox'[q] = inbox[q]
      BY <1>0, <1>1
    <2>. QED BY <2>1 DEF TeardownQueued
  <1>2. CASE q = n
    <2>1. PICK f \in 1..Len(inbox[n]) : f = From(i, j) /\ inbox'[n][j] = inbox[n][f]
      BY <1>0, <1>2
    <2>2. ASSUME NEW l \in 1..Len(inbox'[n]), l > j
          PROVE  ~(inbox'[n][l].build = inbox'[n][j].build /\ inbox'[n][l].side = inbox'[n][j].side)
      <3>1. PICK t \in 1..Len(inbox[n]) : t = From(i, l) /\ inbox'[n][l] = inbox[n][t]
        BY <1>0, <1>2
      <3>2. j < l
        BY <2>2
      <3>3. f < t
        BY <1>0, <1>2, <2>1, <3>1, <3>2
      <3>4. t > f
        BY <3>3
      <3>. QED BY <1>2, <2>1, <3>1, <3>4 DEF TeardownQueued
    <2>. QED BY <1>2, <2>1, <2>2 DEF TeardownQueued
  <1>. QED BY <1>1, <1>2

\* The client takes a command that removes nothing: it may install the objects
\* of its build and side, and confirms only what is installed.
Takes(n, i) ==
    LET m == inbox[n][i] IN
    /\ inbox' = [inbox EXCEPT ![n] = Without(@, i)]
    /\ kernel' \in [Nodes -> SUBSET (Builds \X Sides)]
    /\ \A q \in Nodes : kernel[q] \subseteq kernel'[q]
    /\ \A q \in Nodes : q # n => kernel'[q] = kernel[q]
    /\ kernel'[n] \subseteq kernel[n] \cup {<<m.build, m.side>>}
    /\ acks \subseteq acks' /\ acks' \subseteq acks \cup {Ack(m, n)}
    /\ acks' # acks => m.kind # "teardown" /\ <<m.build, m.side>> \in kernel'[n]
    /\ UNCHANGED <<poolVars, edge, netVars>>

\* ... so what it confirms exists, and nothing is on the host that was not
\* there or on its way there.
LEMMA TakesStep ==
    ASSUME EdgeInv, NEW n \in Nodes, NEW i \in 1..Len(inbox[n]), Takes(n, i)
    PROVE  EdgeInv' /\ UNCHANGED Pool!poolVars /\ (Lives => Lives')
  <1> USE DEF EdgeInv
  <1>01. PICK m \in CommandRecord : m = inbox[n][i]
    BY DEF WellPlaced
  <1>0. /\ m.build \in Builds /\ m.side \in Sides /\ m.via \in Sessions /\ m.kind \in Kinds
        /\ edge[m.build].phase # "none" /\ Node(m.build, m.side) = n /\ m.via = session[n]
        /\ session[n] # 0
    <2>1. 0 \notin Sessions
      BY DEF Sessions
    <2>. QED BY <1>01, <2>1, Members DEF WellPlaced, InboxPlaced
  <1>1. /\ edge' = edge /\ clients' = clients /\ stream' = stream /\ session' = session
        /\ next_fresh' = next_fresh /\ freed' = freed /\ freed_set' = freed_set
    BY DEF Takes, netVars, poolVars
  <1>1a. /\ \A q \in Nodes : kernel[q] \subseteq kernel'[q]
         /\ \A q \in Nodes : q # n => kernel'[q] = kernel[q]
         /\ kernel'[n] \subseteq kernel[n] \cup {<<m.build, m.side>>}
         /\ kernel' \in [Nodes -> SUBSET (Builds \X Sides)]
    BY <1>01 DEF Takes
  <1>1b. /\ \A a \in acks' : \/ a \in acks
                             \/ /\ a.kind # "teardown" /\ a.kind = m.kind /\ a.build = m.build /\ a.side = m.side
                                /\ a.via = m.via /\ a.node = n /\ <<m.build, m.side>> \in kernel'[n]
         /\ acks' \subseteq AckRecord
    <2>1. Ack(m, n).kind = m.kind /\ Ack(m, n).build = m.build /\ Ack(m, n).side = m.side /\ Ack(m, n).via = m.via /\ Ack(m, n).node = n
      BY DEF Ack
    <2>2. Ack(m, n) \in AckRecord
      BY <1>0 DEF Ack, AckRecord
    <2>3. acks \subseteq AckRecord
      BY DEF TypeOK, AckRecord
    <2>4. acks' \subseteq acks \cup {Ack(m, n)} /\ (acks' # acks => m.kind # "teardown" /\ <<m.build, m.side>> \in kernel'[n])
      BY <1>01 DEF Takes
    <2>. QED BY <2>1, <2>2, <2>3, <2>4
  <1>2. \A h \in Builds, b \in Sides : Node(h, b)' = Node(h, b)
    BY <1>1 DEF Node
  <1>3. /\ inbox' \in [Nodes -> Seq(CommandRecord)]
        /\ \A q \in Nodes : q # n => inbox'[q] = inbox[q]
        /\ \A j \in 1..Len(inbox'[n]) :
              /\ From(i, j) \in 1..Len(inbox[n]) /\ From(i, j) # i /\ inbox'[n][j] = inbox[n][From(i, j)]
              /\ \A l \in 1..Len(inbox'[n]) : j < l => From(i, j) < From(i, l)
        /\ \A q \in Nodes : \A j \in 1..Len(inbox'[q]) : \E l \in 1..Len(inbox[q]) : inbox'[q][j] = inbox[q][l]
        /\ \A q \in Nodes, h \in Builds, b \in Sides : Queued(q, h, b)' => Queued(q, h, b)
    BY Dequeued DEF Takes
  <1>3a. \A q \in Nodes : \A j \in 1..Len(inbox'[q]) : \E l \in 1..Len(inbox[q]) : inbox'[q][j] = inbox[q][l]
    BY <1>3
  <1>4. TypeOK'
    <2>1. \A q \in Nodes : inbox'[q] \in Seq([kind : Kinds, build : Builds, side : Sides, via : Sessions])
      BY <1>3 DEF CommandRecord
    <2>2. acks' \subseteq [node : Nodes, kind : Kinds, build : Builds, side : Sides, via : Sessions]
      BY <1>1b DEF AckRecord
    <2>. QED BY <1>1, <1>1a, <2>1, <2>2 DEF TypeOK
  <1>5. WellPlaced'
    <2>1. EdgesPlaced'
      BY <1>1 DEF WellPlaced, EdgesPlaced
    <2>2. KernelPlaced'
      <3> SUFFICES ASSUME NEW q \in Nodes, NEW x \in kernel'[q]
                   PROVE  edge[x[1]].phase # "none" /\ Node(x[1], x[2]) = q
        BY <1>1 DEF KernelPlaced, Node
      <3>1. CASE x \in kernel[q]
        BY <3>1 DEF WellPlaced, KernelPlaced
      <3>2. CASE q = n /\ x = <<m.build, m.side>>
        <4>1. x[1] = m.build /\ x[2] = m.side
          BY <3>2
        <4>. QED BY <1>0, <3>2, <4>1
      <3>. QED BY <1>1a, <3>1, <3>2
    <2>3. InboxPlaced'
      <3> SUFFICES ASSUME NEW q \in Nodes, NEW j \in 1..Len(inbox'[q])
                   PROVE  /\ edge[inbox'[q][j].build].phase # "none"
                          /\ edge[inbox'[q][j].build].ends[inbox'[q][j].side] = q
                          /\ inbox'[q][j].via = session[q]
        BY <1>1 DEF InboxPlaced, Node
      <3>1. PICK l \in 1..Len(inbox[q]) : inbox'[q][j] = inbox[q][l]
        BY <1>3a
      <3>. QED BY <3>1 DEF WellPlaced, InboxPlaced, Node
    <2>4. AcksPlaced'
      BY <1>0, <1>1, <1>1b DEF WellPlaced, AcksPlaced, Node
    <2>. QED BY <1>3, <2>1, <2>2, <2>3, <2>4 DEF WellPlaced
  <1>6. StreamsKnown'
    <2>1. \A a \in acks' : stream[a.node][a.via] # "unused"
      <3>1. stream[n][m.via] = "open"
        BY <1>0 DEF StreamsKnown
      <3>. QED BY <1>1b, <3>1 DEF StreamsKnown
    <2>. QED BY <1>1, <2>1 DEF StreamsKnown, Node
  <1>7. PoolStays
    BY <1>1 DEF PoolStays, Active
  <1>8. TeardownQueued' /\ TeardownAcked'
    <2>1. TeardownQueued'
      BY <1>1, OthersStayQueued DEF Takes
    <2>2. TeardownAcked'
      <3>1. \A a \in acks' : a.kind = "teardown" => a \in acks /\ a.node \in Nodes
        BY <1>1b, Members
      <3> SUFFICES ASSUME NEW a \in acks', a.kind = "teardown"
                   PROVE  /\ edge[a.build].phase \in {"releasing", "done"} /\ edge[a.build].reply[a.side] # "unsent"
                          /\ a.via = session[a.node] => \A j \in 1..Len(inbox'[a.node]) :
                                ~(inbox'[a.node][j].kind = "teardown" /\ inbox'[a.node][j].build = a.build
                                  /\ inbox'[a.node][j].side = a.side)
        BY <1>1 DEF TeardownAcked
      <3>2. a \in acks /\ a.node \in Nodes
        BY <3>1
      <3>3. ASSUME a.via = session[a.node], NEW j \in 1..Len(inbox'[a.node])
            PROVE  ~(inbox'[a.node][j].kind = "teardown" /\ inbox'[a.node][j].build = a.build
                     /\ inbox'[a.node][j].side = a.side)
        <4>1. PICK l \in 1..Len(inbox[a.node]) : inbox'[a.node][j] = inbox[a.node][l]
          BY <1>3a, <3>2
        <4>. QED BY <3>2, <3>3, <4>1 DEF TeardownAcked
      <3>4. edge[a.build].phase \in {"releasing", "done"} /\ edge[a.build].reply[a.side] # "unsent"
        BY <3>2 DEF TeardownAcked
      <3>. QED BY <3>3, <3>4
    <2>. QED BY <2>1, <2>2
  <1>9. RepliesFollowPhase'
    BY <1>1 DEF RepliesFollowPhase
  <1>10. AckedIsInstalled' /\ AnsweredIsInstalled'
    <2>1. AckedIsInstalled'
      BY <1>1, <1>1a, <1>1b, Members DEF AckedIsInstalled, Holds, Standing
    <2>2. AnsweredIsInstalled'
      <3>1. \A h \in Builds, b \in Sides : Standing(h) => Node(h, b) \in Nodes
        BY DEF Standing, WellPlaced, EdgesPlaced, Node
      <3>. QED BY <1>1, <1>1a, <1>2, <3>1 DEF AnsweredIsInstalled, Holds, Standing
    <2>. QED BY <2>1, <2>2
  <1>11. Lives => Lives'
    <2>1. \A q \in Nodes, h \in Builds, b \in Sides : Present(q, h, b)' => Present(q, h, b)
      <3>1. Queued(n, m.build, m.side)
        BY <1>01 DEF Queued
      <3>2. \A q \in Nodes, h \in Builds, b \in Sides : <<h, b>> \in kernel'[q] =>
               <<h, b>> \in kernel[q] \/ (q = n /\ h = m.build /\ b = m.side)
        BY <1>1a
      <3>. QED BY <1>3, <3>1, <3>2 DEF Present, Holds
    <2>2. ReachDistinct => ReachDistinct'
      <3>1. \A q \in Nodes, h \in Builds : Reach(q, h)' => Reach(q, h)
        BY <1>1, <1>2, <2>1 DEF Reach, Active
      <3>. QED BY <1>1, <3>1 DEF ReachDistinct
    <2>3. PresentIsActive => PresentIsActive'
      BY <1>1, <2>1 DEF PresentIsActive, Active
    <2>4. AnsweredIsGone => AnsweredIsGone'
      <3>1. \A h \in Builds, b \in Sides : edge[h].phase \in {"releasing", "done"} => Node(h, b) \in Nodes
        BY DEF WellPlaced, EdgesPlaced, Node
      <3>. QED BY <1>1, <1>2, <2>1, <3>1 DEF AnsweredIsGone
    <2>5. AckedIsGone => AckedIsGone'
      <3>1. \A a \in acks' : a.kind = "teardown" => a \in acks /\ a.node \in Nodes /\ a.build \in Builds /\ a.side \in Sides
        BY <1>1b, Members
      <3>. QED BY <1>1, <2>1, <3>1 DEF AckedIsGone
    <2>. QED BY <2>2, <2>3, <2>4, <2>5 DEF Lives
  <1>. QED BY <1>4, <1>5, <1>6, <1>7, <1>8, <1>9, <1>10, <1>11, PoolKept

\* A teardown runs: no standing build loses its objects, since none shares the
\* id; with the commands of an id in order, nothing of the build is left.
LEMMA TeardownStep ==
    ASSUME EdgeInv, NEW n \in Nodes, NEW i \in 1..Len(inbox[n]), RunTeardown(n, i)
    PROVE  EdgeInv' /\ UNCHANGED Pool!poolVars /\ (Ordered /\ Lives => Lives')
  <1> USE DEF EdgeInv
  <1>01. PICK m \in CommandRecord : m = inbox[n][i]
    BY DEF WellPlaced
  <1>02. PICK id \in MIN_NET_ID..MAX_NET_ID : id = edge[m.build].id
    BY <1>01, Members DEF WellPlaced, InboxPlaced, EdgesPlaced
  <1>0. /\ m.build \in Builds /\ m.side \in Sides /\ m.via \in Sessions /\ m.kind = "teardown"
        /\ Node(m.build, m.side) = n /\ m.via = session[n] /\ session[n] # 0
        /\ edge[m.build].phase = "releasing" /\ edge[m.build].reply[m.side] = "waiting"
    <2>1. 0 \notin Sessions
      BY DEF Sessions
    <2>2. m.kind = "teardown"
      BY <1>01 DEF RunTeardown, TakeTask
    <2>. QED BY <1>01, <2>1, <2>2, Members DEF WellPlaced, InboxPlaced, TeardownQueued
  <1>1. /\ edge' = edge /\ clients' = clients /\ stream' = stream /\ session' = session
        /\ next_fresh' = next_fresh /\ freed' = freed /\ freed_set' = freed_set
    BY DEF RunTeardown, TakeTask, netVars, poolVars
  <1>1a. /\ \A q \in Nodes : q # n => kernel'[q] = kernel[q]
         /\ kernel'[n] = {x \in kernel[n] : ~(edge[x[1]].id = id /\ x[2] = m.side)}
         /\ kernel' \in [Nodes -> SUBSET (Builds \X Sides)]
    <2> DEFINE left == {x \in kernel[n] : ~(edge[x[1]].id = id /\ x[2] = m.side)}
    <2>1. kernel' = [kernel EXCEPT ![n] = left]
      BY <1>01, <1>02 DEF RunTeardown, IdOf
    <2>2. left \in SUBSET (Builds \X Sides) /\ kernel \in [Nodes -> SUBSET (Builds \X Sides)]
      BY DEF TypeOK
    <2> HIDE DEF left
    <2>3. kernel'[n] = left /\ (\A q \in Nodes : q # n => kernel'[q] = kernel[q]) /\ kernel' \in [Nodes -> SUBSET (Builds \X Sides)]
      BY <2>1, <2>2
    <2>. QED BY <2>3 DEF left
  <1>1b. /\ \A a \in acks' : \/ a \in acks
                             \/ a.kind = "teardown" /\ a.build = m.build /\ a.side = m.side /\ a.via = m.via /\ a.node = n
         /\ acks' \subseteq AckRecord
    <2>1. Ack(m, n).kind = "teardown" /\ Ack(m, n).build = m.build /\ Ack(m, n).side = m.side /\ Ack(m, n).via = m.via /\ Ack(m, n).node = n
      BY <1>0 DEF Ack
    <2>2. Ack(m, n) \in AckRecord
      BY <1>0 DEF Ack, AckRecord, Kinds
    <2>3. acks \subseteq AckRecord
      BY DEF TypeOK, AckRecord
    <2>4. acks' = acks \cup {Ack(m, n)}
      BY <1>01 DEF RunTeardown
    <2>. QED BY <2>1, <2>2, <2>3, <2>4
  <1>2. \A h \in Builds, b \in Sides : Node(h, b)' = Node(h, b)
    BY <1>1 DEF Node
  <1>3. /\ inbox' \in [Nodes -> Seq(CommandRecord)]
        /\ \A q \in Nodes : q # n => inbox'[q] = inbox[q]
        /\ \A j \in 1..Len(inbox'[n]) :
              /\ From(i, j) \in 1..Len(inbox[n]) /\ From(i, j) # i /\ inbox'[n][j] = inbox[n][From(i, j)]
              /\ \A l \in 1..Len(inbox'[n]) : j < l => From(i, j) < From(i, l)
        /\ \A q \in Nodes : \A j \in 1..Len(inbox'[q]) : \E l \in 1..Len(inbox[q]) : inbox'[q][j] = inbox[q][l]
        /\ \A q \in Nodes, h \in Builds, b \in Sides : Queued(q, h, b)' => Queued(q, h, b)
    BY Dequeued DEF RunTeardown, TakeTask
  <1>3a. \A q \in Nodes : \A j \in 1..Len(inbox'[q]) : \E l \in 1..Len(inbox[q]) : inbox'[q][j] = inbox[q][l]
    BY <1>3
  <1>3b. \A q \in Nodes : kernel'[q] \subseteq kernel[q]
    BY <1>1a
  <1>3c. ASSUME NEW h \in Builds, NEW b \in Sides, Standing(h), Holds(n, h, b)
         PROVE  Holds(n, h, b)'
    <2>1. h # m.build
      BY <1>0, <1>3c DEF Standing
    <2>2. Active(h) /\ Active(m.build)
      BY <1>0, <1>3c DEF Standing, Active
    <2>3. edge[h].id # id
      BY <1>0, <1>02, <2>1, <2>2 DEF IdsDistinct
    <2>. QED BY <1>1a, <1>3c, <2>3 DEF Holds
  <1>4. TypeOK'
    <2>1. \A q \in Nodes : inbox'[q] \in Seq([kind : Kinds, build : Builds, side : Sides, via : Sessions])
      BY <1>3 DEF CommandRecord
    <2>2. acks' \subseteq [node : Nodes, kind : Kinds, build : Builds, side : Sides, via : Sessions]
      BY <1>1b DEF AckRecord
    <2>. QED BY <1>1, <1>1a, <2>1, <2>2 DEF TypeOK
  <1>5. WellPlaced'
    <2>1. EdgesPlaced'
      BY <1>1 DEF WellPlaced, EdgesPlaced
    <2>2. KernelPlaced'
      BY <1>1, <1>3b DEF WellPlaced, KernelPlaced, Node
    <2>3. InboxPlaced'
      <3> SUFFICES ASSUME NEW q \in Nodes, NEW j \in 1..Len(inbox'[q])
                   PROVE  /\ edge[inbox'[q][j].build].phase # "none"
                          /\ edge[inbox'[q][j].build].ends[inbox'[q][j].side] = q
                          /\ inbox'[q][j].via = session[q]
        BY <1>1 DEF InboxPlaced, Node
      <3>1. PICK l \in 1..Len(inbox[q]) : inbox'[q][j] = inbox[q][l]
        BY <1>3a
      <3>. QED BY <3>1 DEF WellPlaced, InboxPlaced, Node
    <2>4. AcksPlaced'
      BY <1>0, <1>1, <1>1b DEF WellPlaced, AcksPlaced, Node
    <2>. QED BY <1>3, <2>1, <2>2, <2>3, <2>4 DEF WellPlaced
  <1>6. StreamsKnown'
    <2>1. \A a \in acks' : stream[a.node][a.via] # "unused"
      <3>1. stream[n][m.via] = "open"
        BY <1>0 DEF StreamsKnown
      <3>. QED BY <1>1b, <3>1 DEF StreamsKnown
    <2>. QED BY <1>1, <2>1 DEF StreamsKnown, Node
  <1>7. PoolStays
    BY <1>1 DEF PoolStays, Active
  <1>8. TeardownQueued' /\ TeardownAcked'
    <2>1. TeardownQueued'
      BY <1>1, OthersStayQueued DEF RunTeardown, TakeTask
    <2>2. TeardownAcked'
      <3> SUFFICES ASSUME NEW a \in acks', a.kind = "teardown"
                   PROVE  /\ edge[a.build].phase \in {"releasing", "done"} /\ edge[a.build].reply[a.side] # "unsent"
                          /\ a.via = session[a.node] => \A j \in 1..Len(inbox'[a.node]) :
                                ~(inbox'[a.node][j].kind = "teardown" /\ inbox'[a.node][j].build = a.build
                                  /\ inbox'[a.node][j].side = a.side)
        BY <1>1 DEF TeardownAcked
      <3>1. CASE a \in acks
        <4>1. a.node \in Nodes
          BY <3>1, Members
        <4>2. ASSUME a.via = session[a.node], NEW j \in 1..Len(inbox'[a.node])
              PROVE  ~(inbox'[a.node][j].kind = "teardown" /\ inbox'[a.node][j].build = a.build
                       /\ inbox'[a.node][j].side = a.side)
          <5>1. PICK l \in 1..Len(inbox[a.node]) : inbox'[a.node][j] = inbox[a.node][l]
            BY <1>3a, <4>1
          <5>. QED BY <3>1, <4>2, <5>1 DEF TeardownAcked
        <4>3. edge[a.build].phase \in {"releasing", "done"} /\ edge[a.build].reply[a.side] # "unsent"
          BY <3>1 DEF TeardownAcked
        <4>. QED BY <4>2, <4>3
      <3>2. CASE a.build = m.build /\ a.side = m.side /\ a.node = n
        <4>1. ASSUME NEW j \in 1..Len(inbox'[n]), inbox'[n][j].kind = "teardown",
                     inbox'[n][j].build = m.build, inbox'[n][j].side = m.side
              PROVE  FALSE
          <5>1. PICK l \in 1..Len(inbox[n]) : l # i /\ inbox'[n][j] = inbox[n][l]
            BY <1>3
          <5>2. CASE l > i
            BY <1>01, <1>0, <4>1, <5>1, <5>2 DEF TeardownQueued
          <5>3. CASE i > l
            BY <1>01, <1>0, <4>1, <5>1, <5>3 DEF TeardownQueued
          <5>. QED BY <5>1, <5>2, <5>3
        <4>. QED BY <1>0, <3>2, <4>1
      <3>. QED BY <1>1b, <3>1, <3>2
    <2>. QED BY <2>1, <2>2
  <1>9. RepliesFollowPhase'
    BY <1>1 DEF RepliesFollowPhase
  <1>10. AckedIsInstalled' /\ AnsweredIsInstalled'
    <2>0. \A q \in Nodes, h \in Builds, b \in Sides : Standing(h) /\ Holds(q, h, b) => Holds(q, h, b)'
      <3> SUFFICES ASSUME NEW q \in Nodes, NEW h \in Builds, NEW b \in Sides, Standing(h), Holds(q, h, b)
                   PROVE  Holds(q, h, b)'
        OBVIOUS
      <3>1. CASE q = n
        BY <1>3c, <3>1
      <3>2. CASE q # n
        BY <1>1a, <3>2 DEF Holds
      <3>. QED BY <3>1, <3>2
    <2>0a. \A h \in Builds : Standing(h)' <=> Standing(h)
      BY <1>1 DEF Standing
    <2>1. AckedIsInstalled'
      <3>1. \A a \in acks' : a.kind # "teardown" => /\ a \in acks /\ a.node \in Nodes
                                                    /\ a.build \in Builds /\ a.side \in Sides
        BY <1>1b, Members
      <3> SUFFICES ASSUME NEW a \in acks', a.kind # "teardown", Standing(a.build), a.via = session[a.node]
                   PROVE  Holds(a.node, a.build, a.side)'
        BY <1>1, <2>0a, <3>1 DEF AckedIsInstalled
      <3>. QED BY <2>0, <3>1 DEF AckedIsInstalled
    <2>2. AnsweredIsInstalled'
      <3>1. \A h \in Builds, b \in Sides : Standing(h) => Node(h, b) \in Nodes
        BY DEF Standing, WellPlaced, EdgesPlaced, Node
      <3>2. \A h \in Builds, b \in Sides : Standing(h) /\ Holds(Node(h, b), h, b) => <<h, b>> \in kernel'[Node(h, b)]
        BY <2>0, <3>1 DEF Holds
      <3>. QED BY <1>1, <1>2, <2>0a, <3>2 DEF AnsweredIsInstalled, Holds
    <2>. QED BY <2>1, <2>2
  <1>11. Ordered /\ Lives => Lives'
    <2>1. \A q \in Nodes, h \in Builds, b \in Sides : Present(q, h, b)' => Present(q, h, b)
      BY <1>3, <1>3b DEF Present, Holds
    <2>2. ReachDistinct => ReachDistinct'
      <3>1. \A q \in Nodes, h \in Builds : Reach(q, h)' => Reach(q, h)
        BY <1>1, <1>2, <2>1 DEF Reach, Active
      <3>. QED BY <1>1, <3>1 DEF ReachDistinct
    <2>3. PresentIsActive => PresentIsActive'
      BY <1>1, <2>1 DEF PresentIsActive, Active
    <2>4. AnsweredIsGone => AnsweredIsGone'
      <3>1. \A h \in Builds, b \in Sides : edge[h].phase \in {"releasing", "done"} => Node(h, b) \in Nodes
        BY DEF WellPlaced, EdgesPlaced, Node
      <3>. QED BY <1>1, <1>2, <2>1, <3>1 DEF AnsweredIsGone
    <2>5. Ordered /\ AckedIsGone => AckedIsGone'
      <3> SUFFICES ASSUME Ordered, AckedIsGone, NEW a \in acks', a.kind = "teardown", a.via = session[a.node]
                   PROVE  ~Present(a.node, a.build, a.side)'
        BY <1>1 DEF AckedIsGone
      <3>1. CASE a \in acks
        BY <2>1, <3>1, Members DEF AckedIsGone
      <3>2. CASE a.build = m.build /\ a.side = m.side /\ a.node = n
        <4>1. ~Holds(n, m.build, m.side)'
          BY <1>02, <1>1a DEF Holds
        <4>2. ASSUME NEW j \in 1..Len(inbox'[n]), inbox'[n][j].build = m.build, inbox'[n][j].side = m.side
              PROVE  FALSE
          <5>1. PICK l \in 1..Len(inbox[n]) : l # i /\ inbox'[n][j] = inbox[n][l]
            BY <1>3
          <5>2. CASE l > i
            BY <1>01, <1>0, <4>2, <5>1, <5>2 DEF TeardownQueued
          <5>3. CASE i > l
            <6>1. l \in 1..(i - 1)
              BY <5>3
            <6>2. IdOf(inbox[n][l]) # IdOf(inbox[n][i])
              BY <6>1 DEF RunTeardown, TakeTask, Runnable
            <6>. QED BY <1>01, <4>2, <5>1, <6>2 DEF IdOf
          <5>. QED BY <5>1, <5>2, <5>3
        <4>3. ~Queued(n, m.build, m.side)'
          BY <4>2 DEF Queued
        <4>. QED BY <3>2, <4>1, <4>3 DEF Present
      <3>. QED BY <1>1b, <3>1, <3>2
    <2>. QED BY <2>2, <2>3, <2>4, <2>5 DEF Lives
  <1>. QED BY <1>4, <1>5, <1>6, <1>7, <1>8, <1>9, <1>10, <1>11, PoolKept

-----------------------------------------------------------------------------
(* Every action takes one of these steps *)

\* What every step of the system keeps.
Kept == EdgeInv' /\ [Pool!PoolNext]_(Pool!poolVars) /\ (Ordered /\ Lives => Lives')

\* A standing build is given up.
LEMMA ReleaseOne ==
    ASSUME EdgeInv, NEW g \in Builds, Standing(g), edge' = [edge EXCEPT ![g] = Released(@, clients)],
           UNCHANGED <<poolVars, netVars, hostVars>>
    PROVE  Kept
  <1>1. clients \in [Nodes -> 0..MaxSessions] /\ edge \in [Builds -> EdgeRecord]
        /\ stream \in [Nodes -> [Sessions -> {"unused", "open", "dead", "closed", "handled"}]]
    BY DEF EdgeInv, TypeOK, EdgeRecord
  <1>2. edge' = [h \in Builds |-> IF h \in {g} THEN Released(edge[h], clients) ELSE edge[h]]
    BY <1>1
  <1>3. Releases({g}, clients)
    BY <1>1, <1>2 DEF Releases, poolVars, netVars, hostVars
  <1>. QED BY <1>1, <1>3, ReleasesStep DEF Kept

\* A stream that is gone is noticed, or an acknowledgement nobody waits for is
\* dropped.
LEMMA ReleaseNone ==
    ASSUME EdgeInv, edge' = edge, clients' = clients, acks' \subseteq acks,
           stream' \in [Nodes -> [Sessions -> {"unused", "open", "dead", "closed", "handled"}]],
           \A n \in Nodes, k \in Sessions :
              stream'[n][k] = stream[n][k] \/ (stream[n][k] \in {"dead", "closed"} /\ stream'[n][k] # "unused"),
           UNCHANGED <<poolVars, session, inbox, kernel>>
    PROVE  Kept
  <1>1. clients \in [Nodes -> 0..MaxSessions] /\ edge \in [Builds -> EdgeRecord]
    BY DEF EdgeInv, TypeOK, EdgeRecord
  <1>2. edge' = [h \in Builds |-> IF h \in {} THEN Released(edge[h], clients) ELSE edge[h]]
    BY <1>1
  <1>3. Releases({}, clients)
    BY <1>1, <1>2 DEF Releases
  <1>. QED BY <1>1, <1>3, ReleasesStep DEF Kept

\* The reader task of a stream ends, and the live edges of its node go.
LEMMA DisconnectStep ==
    ASSUME EdgeInv, NEW n \in Nodes, NEW k \in Sessions, HandleDisconnect(n, k)
    PROVE  Kept
  <1> DEFINE cl == [clients EXCEPT ![n] = 0]
             L == {g \in Builds : edge[g].phase = "live" /\ \E d \in Sides : Node(g, d) = n}
  <1>1. clients \in [Nodes -> 0..MaxSessions] /\ MaxSessions \in Nat
        /\ stream \in [Nodes -> [Sessions -> {"unused", "open", "dead", "closed", "handled"}]]
    BY OverlayAssumption DEF EdgeInv, TypeOK
  <1>2. cl \in [Nodes -> 0..MaxSessions] /\ \A q \in Nodes : cl[q] = clients[q] \/ cl[q] = 0
    BY <1>1
  <1>3. clients' = cl
    BY DEF HandleDisconnect
  <1>4. edge' = [g \in Builds |-> IF g \in L THEN Released(edge[g], cl) ELSE edge[g]]
    BY DEF HandleDisconnect
  <1>5. L \in SUBSET Builds /\ \A g \in L : Standing(g)
    BY DEF Standing
  <1>6. /\ stream' \in [Nodes -> [Sessions -> {"unused", "open", "dead", "closed", "handled"}]]
        /\ \A q \in Nodes, j \in Sessions :
              stream'[q][j] = stream[q][j] \/ (stream[q][j] \in {"dead", "closed"} /\ stream'[q][j] # "unused")
    BY <1>1 DEF HandleDisconnect
  <1>7. acks' \subseteq acks /\ UNCHANGED <<poolVars, session, inbox, kernel>>
    BY DEF HandleDisconnect, hostVars
  <1> HIDE DEF cl, L
  <1>8. Releases(L, cl)
    BY <1>2, <1>3, <1>4, <1>5, <1>6, <1>7 DEF Releases
  <1>. QED BY <1>2, <1>5, <1>8, ReleasesStep DEF Kept

\* No answer came, or the command could not be sent.
LEMMA FailedStep ==
    ASSUME EdgeInv, NEW g \in Builds, NEW d \in Sides, edge[g].phase \in {"setup", "ready"}, edge[g].reply[d] # "ok",
           SetsReply(g, d, "failed"), UNCHANGED <<poolVars, netVars, hostVars>>
    PROVE  Kept
  <1>1. edge \in [Builds -> EdgeRecord]
    BY DEF EdgeInv, TypeOK, EdgeRecord
  <1>2. "failed" \in Replies
    BY DEF Replies
  <1>3. /\ edge' \in [Builds -> EdgeRecord] /\ OthersStay(g) /\ SameBuild(g)
        /\ edge'[g].phase = edge[g].phase /\ edge'[g].toReady = edge[g].toReady /\ edge'[g].via = edge[g].via
        /\ edge'[g].reply[d] = "failed"
        /\ \A b \in Sides : b # d => edge'[g].reply[b] = edge[g].reply[b]
    BY <1>1, <1>2, ReplySet
  <1>4. RepliesFollowPhase'
    <2>1. edge[g].phase = "ready" => /\ edge[g].toReady # <<>> /\ d = Head(edge[g].toReady)
                                     /\ \A b \in Sides : b # Head(edge[g].toReady) => edge[g].reply[b] = "ok"
      BY DEF EdgeInv, RepliesFollowPhase
    <2>. QED BY <1>3, <2>1 DEF EdgeInv, RepliesFollowPhase, OthersStay
  <1>5. Standing(g) /\ Standing(g)'
    BY <1>3 DEF Standing
  <1>6. acks' \subseteq acks /\ UNCHANGED <<poolVars, netVars, inbox, kernel>>
    BY DEF hostVars
  <1>7. Advances(g)
    BY <1>3, <1>4, <1>5, <1>6 DEF Advances
  <1>. QED BY <1>7, AdvancesStep DEF Kept

\* Every answer of a round is in: the build goes on to its next NetReady message
\* or is complete.
LEMMA SettledStep ==
    ASSUME EdgeInv, NEW g \in Builds, edge[g].phase \in {"setup", "ready"}, NEW e \in EdgeRecord,
           e.id = edge[g].id, e.ends = edge[g].ends, e.via = edge[g].via,
           \A d \in Sides : e.reply[d] = "ok" /\ edge[g].reply[d] = "ok",
           edge' = [edge EXCEPT ![g] = AfterReplies(e)], UNCHANGED <<poolVars, netVars, hostVars>>
    PROVE  Kept
  <1>1. edge \in [Builds -> EdgeRecord]
    BY DEF EdgeInv, TypeOK, EdgeRecord
  <1>2. PICK r \in EdgeRecord :
           /\ r = AfterReplies(e) /\ r.id = e.id /\ r.ends = e.ends /\ r.via = e.via /\ r.toReady = e.toReady
           /\ e.toReady = <<>> => r.phase = "built" /\ r.reply = e.reply
           /\ e.toReady # <<>> => /\ r.phase = "ready" /\ r.reply[Head(e.toReady)] = "unsent"
                                  /\ \A d \in Sides : d # Head(e.toReady) => r.reply[d] = e.reply[d]
    BY AfterRepliesRecord
  <1>3. edge' = [edge EXCEPT ![g] = r]
    BY <1>2
  <1>4. edge' \in [Builds -> EdgeRecord] /\ edge'[g] = r /\ OthersStay(g)
    BY <1>1, <1>3 DEF OthersStay
  <1>5. SameBuild(g) /\ edge'[g].via = edge[g].via
    BY <1>2, <1>4 DEF SameBuild
  <1>6. RepliesFollowPhase'
    <2>1. r.phase = "ready" => r.toReady # <<>> /\ \A d \in Sides : d # Head(r.toReady) => r.reply[d] = "ok"
      BY <1>2
    <2>2. r.phase \in {"built", "live", "done"} => \A d \in Sides : r.reply[d] = "ok"
      BY <1>2
    <2>. QED BY <1>4, <2>1, <2>2 DEF EdgeInv, RepliesFollowPhase, OthersStay
  <1>7. Standing(g) /\ Standing(g)'
    BY <1>2, <1>4 DEF Standing
  <1>8. acks' \subseteq acks /\ UNCHANGED <<poolVars, netVars, inbox, kernel>>
    BY DEF hostVars
  <1>9. Advances(g)
    BY <1>4, <1>5, <1>6, <1>7, <1>8 DEF Advances
  <1>. QED BY <1>9, AdvancesStep DEF Kept

\* The server's steps for one build.
LEMMA ServerStep ==
    ASSUME EdgeInv, NEW g \in Builds, Server(g)
    PROVE  Kept
  <1>1. ASSUME NEW shape \in Shapes, StartBuild(g, shape) PROVE Kept
    BY <1>1, StartStep DEF Kept
  <1>2. CASE Teardown(g)
    BY <1>2, ReleaseOne DEF Teardown, Standing
  <1>3. CASE Promote(g)
    <2>1. edge \in [Builds -> EdgeRecord]
      BY DEF EdgeInv, TypeOK, EdgeRecord
    <2>2. "live" \in Phases
      BY DEF Phases
    <2>3. edge[g].phase = "built" /\ edge' = [edge EXCEPT ![g].phase = "live"]
      BY <1>3 DEF Promote
    <2>4. /\ edge' \in [Builds -> EdgeRecord] /\ OthersStay(g) /\ SameBuild(g)
          /\ edge'[g].phase = "live" /\ edge'[g].toReady = edge[g].toReady /\ edge'[g].via = edge[g].via
          /\ edge'[g].reply = edge[g].reply
      BY <2>1, <2>2, <2>3, PhaseSet
    <2>5. RepliesFollowPhase'
      BY <2>3, <2>4 DEF EdgeInv, RepliesFollowPhase, OthersStay
    <2>6. acks' \subseteq acks /\ UNCHANGED <<poolVars, netVars, inbox, kernel>>
      BY <1>3 DEF Promote, hostVars
    <2>7. Standing(g) /\ Standing(g)'
      BY <2>3, <2>4 DEF Standing
    <2>8. Advances(g)
      BY <2>4, <2>5, <2>6, <2>7 DEF Advances
    <2>. QED BY <2>8, AdvancesStep DEF Kept
  <1>4. CASE PromotionLost(g)
    BY <1>4, ReleaseOne DEF PromotionLost, Standing
  <1>5. CASE SetupSettled(g)
    <2>1. edge[g].phase = "setup" /\ UNCHANGED <<poolVars, netVars, hostVars>>
      BY <1>5 DEF SetupSettled
    <2>2. CASE \A d \in Sides : edge[g].reply[d] = "ok"
      <3>1. edge' = [edge EXCEPT ![g] = AfterReplies(edge[g])]
        BY <1>5, <2>2 DEF SetupSettled
      <3>2. edge[g] \in EdgeRecord
        BY DEF EdgeInv, TypeOK, EdgeRecord
      <3>. QED BY <2>1, <2>2, <3>1, <3>2, SettledStep
    <2>3. CASE ~(\A d \in Sides : edge[g].reply[d] = "ok")
      <3>1. edge' = [edge EXCEPT ![g] = Released(@, clients)]
        BY <1>5, <2>3 DEF SetupSettled
      <3>. QED BY <2>1, <3>1, ReleaseOne DEF Standing
    <2>. QED BY <2>2, <2>3
  <1>6. CASE ReadySettled(g)
    <2>1. edge[g].phase = "ready" /\ UNCHANGED <<poolVars, netVars, hostVars>>
      BY <1>6 DEF ReadySettled
    <2>2. edge[g] \in EdgeRecord /\ edge[g].toReady \in ReadyOrders
      BY DEF EdgeInv, TypeOK, EdgeRecord
    <2>3. edge[g].toReady # <<>> /\ \A d \in Sides : d # Head(edge[g].toReady) => edge[g].reply[d] = "ok"
      BY <2>1 DEF EdgeInv, RepliesFollowPhase
    <2>4. CASE edge[g].reply[Head(edge[g].toReady)] = "ok"
      <3> DEFINE rest == Tail(edge[g].toReady)
                 e == [edge[g] EXCEPT !.toReady = rest]
      <3>1. edge' = [edge EXCEPT ![g] = AfterReplies(e)]
        BY <1>6, <2>4 DEF ReadySettled
      <3>2. rest \in ReadyOrders
        BY <2>2, <2>3, Orders
      <3> HIDE DEF rest
      <3>3. /\ e \in EdgeRecord /\ e.id = edge[g].id /\ e.ends = edge[g].ends /\ e.via = edge[g].via
            /\ e.reply = edge[g].reply
        BY <2>2, <3>2 DEF EdgeRecord
      <3> HIDE DEF e
      <3>4. \A d \in Sides : e.reply[d] = "ok" /\ edge[g].reply[d] = "ok"
        BY <2>3, <2>4, <3>3
      <3>. QED BY <2>1, <3>1, <3>3, <3>4, SettledStep
    <2>5. CASE edge[g].reply[Head(edge[g].toReady)] # "ok"
      <3>1. edge' = [edge EXCEPT ![g] = Released(@, clients)]
        BY <1>6, <2>5 DEF ReadySettled
      <3>. QED BY <2>1, <3>1, ReleaseOne DEF Standing
    <2>. QED BY <2>4, <2>5
  <1>7. ASSUME NEW kind \in {"setup", "ready"}, NEW d \in Sides, edge[g].phase = kind, edge[g].reply[d] = "unsent",
               kind = "ready" => d = Head(edge[g].toReady), Send(kind, g, d), UNCHANGED <<poolVars, netVars, kernel, acks>>
        PROVE  Kept
    <2>1. CASE Refused(Node(g, d), clients[Node(g, d)])
      <3>1. SetsReply(g, d, "failed") /\ UNCHANGED <<poolVars, netVars, hostVars>>
        BY <1>7, <2>1 DEF Send, SetsReply, hostVars
      <3>. QED BY <1>7, <3>1, FailedStep
    <2>2. CASE ~Refused(Node(g, d), clients[Node(g, d)])
      <3>1. /\ AsksOver(g, d, clients[Node(g, d)]) /\ clients[Node(g, d)] # 0
            /\ Enqueue(kind, g, d, clients[Node(g, d)])
        BY <1>7, <2>2 DEF Send, AsksOver, Refused
      <3>2. Asks(kind, g, d)
        BY <1>7, <3>1 DEF Asks
      <3>. QED BY <3>2, AsksStep DEF Kept
    <2>. QED BY <2>1, <2>2
  <1>8. CASE SendReady(g)
    <2>1. edge[g].phase = "ready" /\ edge[g].toReady \in ReadyOrders /\ edge[g].toReady # <<>>
      BY <1>8 DEF SendReady, EdgeInv, TypeOK, RepliesFollowPhase
    <2>2. Head(edge[g].toReady) \in Sides
      BY <2>1, Orders
    <2>. QED BY <1>7, <1>8, <2>2 DEF SendReady
  <1>9. CASE FreeNetId(g)
    BY <1>9, FreeStep DEF Kept
  <1>10. ASSUME NEW d \in Sides, SendSetup(g, d) PROVE Kept
    BY <1>7, <1>10 DEF SendSetup
  <1>11. ASSUME NEW d \in Sides, ReplyTimeout(g, d) PROVE Kept
    <2>1. SetsReply(g, d, "failed") /\ edge[g].phase \in {"setup", "ready"} /\ edge[g].reply[d] # "ok"
      BY <1>11 DEF ReplyTimeout, SetsReply
    <2>. QED BY <1>11, <2>1, FailedStep DEF ReplyTimeout
  <1>12. ASSUME edge[g].phase = "releasing", NEW d \in Sides,
                edge[g].via[d] = 0 \/ stream[Node(g, d)][edge[g].via[d]] \in {"closed", "handled"}
         PROVE  edge[g].via[d] = 0 \/ edge[g].via[d] # session[Node(g, d)]
    <2>1. Node(g, d) \in Nodes
      BY <1>12 DEF EdgeInv, WellPlaced, EdgesPlaced, Node
    <2>. QED BY <1>12, <2>1 DEF EdgeInv, StreamsKnown
  <1>13. ASSUME NEW d \in Sides, SendTeardown(g, d) PROVE Kept
    <2>1. CASE Refused(Node(g, d), edge[g].via[d])
      <3>1. /\ edge[g].phase = "releasing" /\ SetsReply(g, d, "ok")
            /\ acks' \subseteq acks /\ UNCHANGED <<poolVars, netVars, inbox, kernel>>
        BY <1>13, <2>1 DEF SendTeardown, SetsReply
      <3>2. edge[g].via[d] = 0 \/ edge[g].via[d] # session[Node(g, d)]
        BY <1>12, <2>1, <3>1 DEF Refused
      <3>3. LetGo(g, d)
        BY <3>1, <3>2 DEF LetGo
      <3>. QED BY <3>3, LetGoStep DEF Kept
    <2>2. CASE ~Refused(Node(g, d), edge[g].via[d])
      <3>1. AsksTeardown(g, d)
        BY <1>13, <2>2 DEF SendTeardown, AsksTeardown, SetsReply, Refused
      <3>. QED BY <3>1, AsksTeardownStep DEF Kept
    <2>. QED BY <2>1, <2>2
  <1>14. ASSUME NEW d \in Sides, TeardownStreamClosed(g, d) PROVE Kept
    <2>1. /\ edge[g].phase = "releasing" /\ SetsReply(g, d, "ok")
          /\ acks' \subseteq acks /\ UNCHANGED <<poolVars, netVars, inbox, kernel>>
      BY <1>14 DEF TeardownStreamClosed, SetsReply, hostVars
    <2>2. edge[g].via[d] = 0 \/ edge[g].via[d] # session[Node(g, d)]
      BY <1>12, <1>14, <2>1 DEF TeardownStreamClosed
    <2>3. LetGo(g, d)
      BY <2>1, <2>2 DEF LetGo
    <2>. QED BY <2>3, LetGoStep DEF Kept
  <1>. QED BY <1>1, <1>2, <1>3, <1>4, <1>5, <1>6, <1>8, <1>9, <1>10, <1>11, <1>13, <1>14 DEF Server

\* The client's steps on one host.
LEMMA ClientStep ==
    ASSUME EdgeInv, NEW n \in Nodes, Client(n)
    PROVE  Kept
  <1>1. CASE Connect(n)
    BY <1>1, ConnectStep DEF Kept
  <1>2. CASE Stop(n)
    BY <1>2, StopStep DEF Kept
  <1>3. CASE StreamEnds(n)
    BY <1>3, StopStep DEF Kept, StreamEnds
  <1>4. ASSUME NEW i \in 1..Len(inbox[n]), RunTeardown(n, i) PROVE Kept
    BY <1>4, TeardownStep DEF Kept
  <1>5. ASSUME NEW i \in 1..Len(inbox[n]), RunSetup(n, i) \/ FailSetup(n, i) \/ RunReady(n, i) \/ FailTeardown(n, i)
        PROVE  Kept
    <2>1. inbox' = [inbox EXCEPT ![n] = Without(@, i)] /\ UNCHANGED <<poolVars, edge, netVars>>
      BY <1>5 DEF RunSetup, FailSetup, RunReady, FailTeardown, TakeTask
    <2>2. PICK m : m = inbox[n][i]
      OBVIOUS
    <2>3. m.build \in Builds /\ m.side \in Sides
      BY <2>2, Members DEF EdgeInv
    <2> DEFINE grown == [kernel EXCEPT ![n] = @ \cup {<<m.build, m.side>>}]
    <2>4. kernel \in [Nodes -> SUBSET (Builds \X Sides)]
      BY DEF EdgeInv, TypeOK
    <2>5. /\ grown \in [Nodes -> SUBSET (Builds \X Sides)] /\ grown[n] = kernel[n] \cup {<<m.build, m.side>>}
          /\ \A q \in Nodes : q # n => grown[q] = kernel[q]
      BY <2>3, <2>4
    <2>6. \/ kernel' = grown /\ acks' = acks \cup {Ack(m, n)} /\ m.kind = "setup"
          \/ kernel' \in {kernel, grown} /\ acks' = acks
          \/ kernel' = kernel /\ <<m.build, m.side>> \in kernel[n] /\ acks' = acks \cup {Ack(m, n)} /\ m.kind = "ready"
      BY <1>5, <2>2 DEF RunSetup, FailSetup, RunReady, FailTeardown, TakeTask, Holds
    <2> HIDE DEF grown
    <2>7. Takes(n, i)
      <3>1. CASE kernel' = grown /\ acks' = acks \cup {Ack(m, n)} /\ m.kind = "setup"
        BY <2>1, <2>2, <2>4, <2>5, <3>1 DEF Takes
      <3>2. CASE kernel' \in {kernel, grown} /\ acks' = acks
        BY <2>1, <2>2, <2>4, <2>5, <3>2 DEF Takes
      <3>3. CASE kernel' = kernel /\ <<m.build, m.side>> \in kernel[n] /\ acks' = acks \cup {Ack(m, n)} /\ m.kind = "ready"
        BY <2>1, <2>2, <2>4, <2>5, <3>3 DEF Takes
      <3>. QED BY <2>6, <3>1, <3>2, <3>3
    <2>. QED BY <2>7, TakesStep DEF Kept
  <1>. QED BY <1>1, <1>2, <1>3, <1>4, <1>5 DEF Client

\* The transport's steps.
LEMMA TransportStep ==
    ASSUME EdgeInv, Transport
    PROVE  Kept
  <1>1. ASSUME NEW n \in Nodes, NEW k \in Sessions, NoticeClosed(n, k) PROVE Kept
    <2>1. stream \in [Nodes -> [Sessions -> {"unused", "open", "dead", "closed", "handled"}]]
      BY DEF EdgeInv, TypeOK
    <2>2. /\ stream' \in [Nodes -> [Sessions -> {"unused", "open", "dead", "closed", "handled"}]]
          /\ \A q \in Nodes, j \in Sessions :
                stream'[q][j] = stream[q][j] \/ (stream[q][j] \in {"dead", "closed"} /\ stream'[q][j] # "unused")
      BY <1>1, <2>1 DEF NoticeClosed
    <2>3. edge' = edge /\ clients' = clients /\ acks' \subseteq acks /\ UNCHANGED <<poolVars, session, inbox, kernel>>
      BY <1>1 DEF NoticeClosed
    <2>. QED BY <2>2, <2>3, ReleaseNone
  <1>2. ASSUME NEW n \in Nodes, NEW k \in Sessions, HandleDisconnect(n, k) PROVE Kept
    BY <1>2, DisconnectStep
  <1>3. ASSUME NEW a \in acks, ReceiveAck(a) PROVE Kept
    <2>1. acks' \subseteq acks /\ UNCHANGED <<poolVars, netVars, inbox, kernel>>
      BY <1>3 DEF ReceiveAck
    <2>2. PICK g \in Builds : g = a.build
      BY Members DEF EdgeInv
    <2>3. PICK d \in Sides : d = a.side
      BY Members DEF EdgeInv
    <2>4. CASE ~Awaited(a)
      <3>1. edge' = edge
        BY <1>3, <2>4 DEF ReceiveAck
      <3>2. stream' = stream /\ clients' = clients /\ stream \in [Nodes -> [Sessions -> {"unused", "open", "dead", "closed", "handled"}]]
        BY <2>1 DEF EdgeInv, TypeOK, netVars
      <3>3. UNCHANGED <<poolVars, session, inbox, kernel>>
        BY <2>1 DEF netVars
      <3>. QED BY <2>1, <3>1, <3>2, <3>3, ReleaseNone
    <2>5. CASE Awaited(a) /\ a.kind = "teardown"
      <3>1. SetsReply(g, d, "ok") /\ edge[g].phase = "releasing" /\ a.via = edge[g].via[d]
        BY <1>3, <2>2, <2>3, <2>5 DEF ReceiveAck, SetsReply, Awaited
      <3>2. LetGo(g, d)
        BY <2>1, <2>2, <2>3, <2>5, <3>1 DEF LetGo
      <3>. QED BY <3>2, LetGoStep DEF Kept
    <2>6. CASE Awaited(a) /\ a.kind # "teardown"
      <3>0. a.kind \in {"setup", "ready"} /\ a.via # 0
        BY <2>6 DEF EdgeInv, TypeOK, Kinds, Sessions
      <3>1. /\ SetsReply(g, d, "ok") /\ edge[g].phase \in {"setup", "ready"} /\ a.via = edge[g].via[d]
            /\ edge[g].reply[d] = "waiting"
        BY <1>3, <2>2, <2>3, <2>6, <3>0 DEF ReceiveAck, SetsReply, Awaited
      <3>2. edge \in [Builds -> EdgeRecord]
        BY DEF EdgeInv, TypeOK, EdgeRecord
      <3>3. "ok" \in Replies
        BY DEF Replies
      <3>4. /\ edge' \in [Builds -> EdgeRecord] /\ OthersStay(g) /\ SameBuild(g)
            /\ edge'[g].phase = edge[g].phase /\ edge'[g].toReady = edge[g].toReady /\ edge'[g].via = edge[g].via
            /\ edge'[g].reply[d] = "ok"
            /\ \A b \in Sides : b # d => edge'[g].reply[b] = edge[g].reply[b]
        BY <3>1, <3>2, <3>3, ReplySet
      <3>5. RepliesFollowPhase'
        BY <3>1, <3>4 DEF EdgeInv, RepliesFollowPhase, OthersStay
      <3>6. Standing(g) /\ Standing(g)'
        BY <3>1, <3>4 DEF Standing
      <3>7. edge[g].via[d] = session[Node(g, d)] => Holds(Node(g, d), g, d)
        <4>1. a.node = Node(g, d)
          BY <2>2, <2>3 DEF EdgeInv, WellPlaced, AcksPlaced
        <4>. QED BY <2>2, <2>3, <2>6, <3>1, <3>6, <4>1 DEF EdgeInv, AckedIsInstalled
      <3>8. \A b \in Sides : edge'[g].reply[b] = "ok" =>
               \/ edge[g].reply[b] = "ok"
               \/ /\ edge[g].via[b] # 0
                  /\ edge[g].via[b] = session[Node(g, b)] => Holds(Node(g, b), g, b)
        BY <3>0, <3>1, <3>4, <3>7
      <3>9. Advances(g)
        BY <2>1, <3>4, <3>5, <3>6, <3>8 DEF Advances
      <3>. QED BY <3>9, AdvancesStep DEF Kept
    <2>. QED BY <2>4, <2>5, <2>6
  <1>. QED BY <1>1, <1>2, <1>3 DEF Transport

-----------------------------------------------------------------------------
(* The theorems *)

\* At the start there is no build, no stream and nothing on any host.
LEMMA AtStart == Init => LivesInv /\ Pool!PoolInit
  <1> SUFFICES ASSUME Init PROVE LivesInv /\ Pool!PoolInit
    OBVIOUS
  <1>1. /\ edge \in [Builds -> EdgeRecord]
        /\ \A g \in Builds : edge[g].phase = "none"
    <2>1. NoEdge \in EdgeRecord /\ NoEdge.phase = "none"
      BY OverlayAssumption DEF NoEdge, EdgeRecord, Phases, Replies, ReadyOrders
    <2>. QED BY <2>1 DEF Init
  <1>2. /\ \A n \in Nodes : session[n] = 0 /\ clients[n] = 0 /\ kernel[n] = {} /\ Len(inbox[n]) = 0
        /\ inbox \in [Nodes -> Seq(CommandRecord)] /\ acks = {}
    BY DEF Init
  <1>3. TypeOK
    <2>1. clients \in [Nodes -> 0..MaxSessions] /\ session \in [Nodes -> 0..MaxSessions]
      BY OverlayAssumption DEF Init
    <2>2. stream \in [Nodes -> [Sessions -> {"unused", "open", "dead", "closed", "handled"}]]
      BY DEF Init
    <2>3. kernel \in [Nodes -> SUBSET (Builds \X Sides)]
      BY DEF Init
    <2>. QED BY <1>1, <1>2, <2>1, <2>2, <2>3 DEF TypeOK, EdgeRecord, CommandRecord
  <1>4. WellPlaced
    BY <1>1, <1>2 DEF WellPlaced, EdgesPlaced, KernelPlaced, InboxPlaced, AcksPlaced
  <1>5. StreamsKnown
    BY <1>1, <1>2 DEF StreamsKnown
  <1>6. \A g \in Builds : ~Active(g) /\ ~Standing(g)
    BY <1>1 DEF Active, Standing
  <1>7. Pool!PoolInit /\ PoolProof!PoolInit
    <2>1. Held = {}
      BY <1>1 DEF Held
    <2>. QED BY <2>1 DEF Init, Pool!PoolInit, PoolProof!PoolInit, Held
  <1>8. PoolProof!PoolInv
    BY <1>7, OverlayAssumption, PoolProof!PoolStart
  <1>9. IdsDistinct /\ TeardownQueued /\ TeardownAcked /\ RepliesFollowPhase /\ AckedIsInstalled /\ AnsweredIsInstalled
    BY <1>1, <1>2, <1>6 DEF IdsDistinct, TeardownQueued, TeardownAcked, RepliesFollowPhase, AckedIsInstalled, AnsweredIsInstalled
  <1>10. Lives
    BY <1>1, <1>2, <1>6 DEF Lives, ReachDistinct, PresentIsActive, AnsweredIsGone, AckedIsGone
  <1>. QED BY <1>3, <1>4, <1>5, <1>7, <1>8, <1>9, <1>10 DEF LivesInv, EdgeInv

\* Every step keeps the invariant and is a step of the pool or none.
LEMMA EveryStep == ASSUME EdgeInv, [Next]_vars PROVE Kept
  <1>1. CASE Next
    BY <1>1, ServerStep, ClientStep, TransportStep DEF Next
  <1>2. CASE UNCHANGED vars
    <2>1. stream \in [Nodes -> [Sessions -> {"unused", "open", "dead", "closed", "handled"}]]
      BY DEF EdgeInv, TypeOK
    <2>2. /\ edge' = edge /\ clients' = clients /\ acks' \subseteq acks /\ stream' = stream
          /\ UNCHANGED <<poolVars, session, inbox, kernel>>
      BY <1>2 DEF vars, netVars, hostVars
    <2>. QED BY <2>1, <2>2, ReleaseNone
  <1>. QED BY <1>1, <1>2

\* The orchestrator implements the caller the pool expects: through failures,
\* timeouts, restarts and disconnects each id is allocated and freed once
\* (send_net_teardown_kind, spawn_deferred_net_id_free).
THEOREM PoolContractKept == Spec => PoolContract
  <1>1. Init => EdgeInv /\ Pool!PoolInit
    BY AtStart DEF LivesInv
  <1>2. EdgeInv /\ [Next]_vars => EdgeInv' /\ [Pool!PoolNext]_(Pool!poolVars)
    BY EveryStep DEF Kept
  <1>. QED BY <1>1, <1>2, PTL DEF Spec, PoolContract, Pool!PoolSpec

\* A live edge stands on both hosts as long as the processes that confirmed it
\* run, for VLAN and VXLAN edges (setup_edge, the client's teardown handlers).
THEOREM LiveEdgeStandsAlways == Spec => []LiveEdgeStands
  <1>1. Init => EdgeInv
    BY AtStart DEF LivesInv
  <1>2. EdgeInv /\ [Next]_vars => EdgeInv'
    BY EveryStep DEF Kept
  <1>3. EdgeInv => LiveEdgeStands
    BY DEF EdgeInv, LiveEdgeStands, AnsweredIsInstalled, RepliesFollowPhase, Standing
  <1>. QED BY <1>1, <1>2, <1>3, PTL DEF Spec

\* The whole invariant holds where the client runs the commands of an id in
\* order (VXLAN, LifecycleTasks).
LEMMA LivesInvAlways == ASSUME Ordered PROVE Spec => []LivesInv
  <1>1. LivesInv /\ [Next]_vars => LivesInv'
    BY EveryStep DEF Kept, LivesInv
  <1>. QED BY <1>1, AtStart, PTL DEF Spec

\* Where the client runs the commands of an id in order, no host carries two
\* lives of an id: an id is used again only after every endpoint has forgotten
\* it (spawn_deferred_net_id_free, LifecycleTasks, the client's startup purge).
THEOREM LivesKeptApartAlways == ASSUME Ordered PROVE Spec => []LivesKeptApart
  <1>1. LivesInv => LivesKeptApart
    <2> SUFFICES ASSUME LivesInv PROVE LivesKeptApart
      OBVIOUS
    <2> USE DEF LivesInv, EdgeInv
    <2>1. OneLifePerId
      <3> SUFFICES ASSUME NEW n \in Nodes, session[n] # 0, NEW x \in kernel[n], NEW y \in kernel[n],
                          edge[x[1]].id = edge[y[1]].id
                   PROVE  x[1] = y[1]
        BY DEF OneLifePerId
      <3>1. ASSUME NEW z \in kernel[n] PROVE z[1] \in Builds /\ Reach(n, z[1])
        <4>1. z[1] \in Builds /\ z[2] \in Sides /\ z = <<z[1], z[2]>>
          BY Members
        <4>2. Holds(n, z[1], z[2])
          BY <4>1 DEF Holds
        <4>. QED BY <4>1, <4>2 DEF Reach, Present
      <3>2. ReachDistinct
        BY DEF Lives
      <3>. QED BY <3>1, <3>2 DEF ReachDistinct
    <2>. QED BY <2>1 DEF LivesKeptApart
  <1>. QED BY <1>1, LivesInvAlways, PTL

\* There, when an id is free again nothing of its past lives is on a host the
\* server can reach or on its way there, and what a host confirmed to have torn
\* down never comes back (spawn_deferred_net_id_free, both teardown handlers).
THEOREM TornDownIsForgottenAlways == ASSUME Ordered PROVE Spec => []TornDownIsForgotten
  <1>1. LivesInv => TornDownIsForgotten
    <2> SUFFICES ASSUME LivesInv PROVE TornDownIsForgotten
      OBVIOUS
    <2> USE DEF LivesInv, EdgeInv
    <2>1. FreedIsForgotten
      <3>1. ASSUME NEW g \in Builds, Active(g) PROVE edge[g].id \notin freed_set
        <4>1. edge[g].id \in Held
          BY <3>1 DEF Held, Active
        <4>. QED BY <4>1 DEF PoolProof!PoolInv, PoolProof!FreedIndexAgrees, PoolProof!Conservation
      <3>2. ASSUME NEW n \in Nodes, clients[n] # 0, clients[n] = session[n], NEW g \in Builds, NEW d \in Sides, Present(n, g, d)
            PROVE  edge[g].id \notin freed_set
        <4>1. PresentIsActive
          BY DEF Lives
        <4>2. Active(g)
          BY <3>2, <4>1 DEF PresentIsActive
        <4>. QED BY <3>1, <4>2
      <3> SUFFICES ASSUME NEW n \in Nodes, clients[n] # 0, clients[n] = session[n]
                   PROVE  /\ \A x \in kernel[n] : edge[x[1]].id \notin freed_set
                          /\ \A i \in 1..Len(inbox[n]) : edge[inbox[n][i].build].id \notin freed_set
        BY DEF FreedIsForgotten, IdOf
      <3>3. ASSUME NEW x \in kernel[n] PROVE edge[x[1]].id \notin freed_set
        <4>1. x[1] \in Builds /\ x[2] \in Sides /\ x = <<x[1], x[2]>>
          BY Members
        <4>2. Present(n, x[1], x[2])
          BY <4>1 DEF Present, Holds
        <4>. QED BY <3>2, <4>1, <4>2
      <3>4. ASSUME NEW i \in 1..Len(inbox[n]) PROVE edge[inbox[n][i].build].id \notin freed_set
        <4>1. inbox[n][i].build \in Builds /\ inbox[n][i].side \in Sides
          BY Members
        <4>2. Present(n, inbox[n][i].build, inbox[n][i].side)
          BY DEF Present, Queued
        <4>. QED BY <3>2, <4>1, <4>2
      <3>. QED BY <3>3, <3>4
    <2>2. TeardownAckIsFinal
      <3>1. AnsweredIsGone
        BY DEF Lives
      <3>2. \A g \in Builds, d \in Sides : edge[g].phase = "done" => edge[g].reply[d] = "ok"
        BY DEF RepliesFollowPhase
      <3>. QED BY <3>1, <3>2 DEF TeardownAckIsFinal, AnsweredIsGone, Present
    <2>. QED BY <2>1, <2>2 DEF TornDownIsForgotten
  <1>. QED BY <1>1, LivesInvAlways, PTL
=============================================================================
