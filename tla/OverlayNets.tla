---------------------------- MODULE OverlayNets ----------------------------
(***************************************************************************)
(* One network id, many lives.  An edge is built by taking an id from the  *)
(* pool, asking both endpoints over their control streams to set it up,    *)
(* and (for some kinds of edge) telling them it is ready; it is removed by *)
(* asking both endpoints to tear it down, and its id goes back to the pool *)
(* only when every endpoint asked has confirmed or lost its stream.  Every *)
(* kernel object of an edge is named after its id alone, so a second life  *)
(* of an id must never meet what is left of the first.                     *)
(*                                                                         *)
(* Server: orchestrator.rs (clients, pending, send_control,                *)
(* send_net_teardown_kind, spawn_deferred_net_id_free, add_client,         *)
(* handle_node_disconnect) and the build sequence of setup_edge in         *)
(* nullnet_grpc_impl.rs.  Client: control_channel.rs and its lifecycle     *)
(* queue.  Who decides to build or to remove an edge is left open here: a  *)
(* build may start, and a live edge may be torn down, at any time.         *)
(*                                                                         *)
(* An operator placed just before the definition it varies is a faulty     *)
(* variant, kept to show that a property notices the fault.                *)
(***************************************************************************)
EXTENDS Integers, Sequences, FiniteSets

CONSTANTS
    Nodes,          (* hosts that run a client                              *)
    Builds,         (* edge builds: one element per life of an id           *)
    Shapes,         (* the edges that may be built: their two ends and the  *)
                    (* NetReady messages they send, in order                *)
    MaxSessions,    (* bound: most control streams any node opens           *)
    SessionsOf,     (* bound: node -> control streams it opens in a row     *)
    MIN_NET_ID, MAX_NET_ID,
    Ordered         (* TRUE for VXLAN: the client queues the commands of an *)
                    (* id; FALSE for VLAN: each command is its own task     *)

\* The NetReady messages a build may send, in order: both ends for a policy
\* group, the initiator for steered edges, nobody otherwise.
ReadyOrders == {<<>>, <<"c">>, <<"s", "c">>}

ASSUME OverlayAssumption ==
    /\ MIN_NET_ID \in Nat /\ MAX_NET_ID \in Nat
    /\ 0 < MIN_NET_ID /\ MIN_NET_ID <= MAX_NET_ID
    /\ MaxSessions \in Nat
    /\ SessionsOf \in [Nodes -> 0..MaxSessions]
    /\ Shapes \subseteq [c : Nodes, s : Nodes, order : ReadyOrders]
    /\ Ordered \in BOOLEAN

VARIABLES
    next_fresh, freed, freed_set,   (* the pool, see NetIdPool              *)
    edge,       (* [Builds -> record]: the server's view of each build      *)
    clients,    (* orchestrator.clients: node -> its stream, 0 for none     *)
    stream,     (* the server's knowledge of every stream of every node     *)
    session,    (* node -> the stream its running process holds, 0 if down  *)
    inbox,      (* node -> commands received or on their way, not yet run   *)
    kernel,     (* node -> <<build, side>> whose objects exist on the host  *)
    acks        (* acknowledgements on their way to the server              *)

poolVars == <<next_fresh, freed, freed_set>>
netVars  == <<clients, stream, session>>
hostVars == <<inbox, kernel, acks>>
vars     == <<poolVars, edge, netVars, hostVars>>

Sides    == {"c", "s"}
Sessions == 1..MaxSessions
Phases   == {"none", "setup", "ready", "built", "live", "releasing", "done"}
Replies  == {"unsent", "waiting", "ok", "failed"}
Kinds    == {"setup", "ready", "teardown"}

NoEdge == [id |-> 0, ends |-> <<>>, phase |-> "none", toReady |-> <<>>,
           reply |-> [d \in Sides |-> "unsent"], via |-> [d \in Sides |-> 0]]

Pool == INSTANCE NetIdPool
          WITH held <- {edge[g].id : g \in {b \in Builds :
                               edge[b].phase \notin {"none", "done"}}}

Node(g, d) == edge[g].ends[d]
Holds(n, g, d) == <<g, d>> \in kernel[n]

Init ==
    /\ next_fresh = MIN_NET_ID
    /\ freed = <<>>
    /\ freed_set = {}
    /\ edge = [g \in Builds |-> NoEdge]
    /\ clients = [n \in Nodes |-> 0]
    /\ stream = [n \in Nodes |-> [k \in Sessions |-> "unused"]]
    /\ session = [n \in Nodes |-> 0]
    /\ inbox = [n \in Nodes |-> <<>>]
    /\ kernel = [n \in Nodes |-> {}]
    /\ acks = {}

(***************************************************************************)
(* Streams.                                                                *)
(***************************************************************************)

\* cleanup_network removes every object a process of this program may have made.
Purged(n) == [kernel EXCEPT ![n] = {}]

\* A client process starts: it purges what a predecessor left on the host,
\* then opens its control stream, which replaces any stream the server still
\* has on record for that address.
ConnectWithoutPurge(n) ==
    /\ session[n] = 0
    /\ \E k \in 1..SessionsOf[n] :
          /\ stream[n][k] = "unused"
          /\ \A j \in 1..(k - 1) : stream[n][j] # "unused"
          /\ session' = [session EXCEPT ![n] = k]
          /\ stream' = [stream EXCEPT ![n][k] = "open"]
          /\ clients' = [clients EXCEPT ![n] = k]
    /\ UNCHANGED <<poolVars, edge, hostVars>>

Connect(n) ==
    /\ session[n] = 0
    /\ \E k \in 1..SessionsOf[n] :
          /\ stream[n][k] = "unused"
          /\ \A j \in 1..(k - 1) : stream[n][j] # "unused"
          /\ session' = [session EXCEPT ![n] = k]
          /\ stream' = [stream EXCEPT ![n][k] = "open"]
          /\ clients' = [clients EXCEPT ![n] = k]
    /\ kernel' = Purged(n)
    /\ UNCHANGED <<poolVars, edge, inbox, acks>>

\* The process dies, or its stream breaks and it exits: its tasks die with
\* it, the host's kernel objects stay, the server does not know yet.
Stop(n) ==
    /\ session[n] # 0
    /\ stream' = [stream EXCEPT ![n][session[n]] = "dead"]
    /\ session' = [session EXCEPT ![n] = 0]
    /\ inbox' = [inbox EXCEPT ![n] = <<>>]
    /\ UNCHANGED <<poolVars, edge, clients, kernel, acks>>

\* The server no longer has the stream of a running process on record and no
\* task keeps a copy of it: the process reads the end of its stream and exits.
StreamNeverEnds(n) ==
    /\ clients[n] # session[n]
    /\ FALSE
    /\ Stop(n)

StreamEnds(n) ==
    /\ clients[n] # session[n]
    /\ \A g \in Builds, d \in Sides :
          ~ /\ edge[g].phase \in {"setup", "ready", "releasing"}
            /\ Node(g, d) = n
            /\ edge[g].via[d] = session[n]
            /\ edge[g].reply[d] \in {"unsent", "waiting"}
    /\ Stop(n)

\* The server's transport notices that a stream is gone; acknowledgements it
\* still carried are lost.
NoticeClosed(n, k) ==
    /\ stream[n][k] = "dead"
    /\ stream' = [stream EXCEPT ![n][k] = "closed"]
    /\ acks' = {a \in acks : ~(a.node = n /\ a.via = k)}
    /\ UNCHANGED <<poolVars, edge, clients, session, inbox, kernel>>

-----------------------------------------------------------------------------
(***************************************************************************)
(* Tearing an edge down: send_net_teardown_kind looks both endpoints up    *)
(* and leaves the sending, the waiting and the free to a detached task.    *)
(* An endpoint without a stream is not asked ("ok" from the start); when   *)
(* neither is asked, FreeNetId follows at once (free_net_id waits for the  *)
(* pool's lock, so it is a step of its own there too).                     *)
(***************************************************************************)
Released(e, cl) ==
    [e EXCEPT !.phase = "releasing",
              !.toReady = <<>>,
              !.via = [d \in Sides |-> cl[e.ends[d]]],
              !.reply = [d \in Sides |->
                            IF cl[e.ends[d]] = 0 THEN "ok" ELSE "unsent"]]

\* The reader task of a stream has ended: handle_node_disconnect forgets the
\* node's stream, whichever one is on record, and tears down the live edges
\* that end there.
HandleDisconnect(n, k) ==
    LET cl == [clients EXCEPT ![n] = 0] IN
    /\ stream[n][k] = "closed"
    /\ stream' = [stream EXCEPT ![n][k] = "handled"]
    /\ clients' = cl
    /\ edge' = [g \in Builds |->
                  IF edge[g].phase = "live" /\ \E d \in Sides : Node(g, d) = n
                  THEN Released(edge[g], cl) ELSE edge[g]]
    /\ UNCHANGED <<poolVars, session, hostVars>>

\* Any other reason to remove a live edge: idle, reconfigured, last reference
\* dropped.
Teardown(g) ==
    /\ edge[g].phase = "live"
    /\ edge' = [edge EXCEPT ![g] = Released(@, clients)]
    /\ UNCHANGED <<poolVars, netVars, hostVars>>

\* Put a command on a stream.  It reaches the process only while the process
\* that opened the stream runs; a stream the transport has dropped refuses it.
Command(kind, g, d, k) == [kind |-> kind, build |-> g, side |-> d, via |-> k]

Enqueue(kind, g, d, k) ==
    inbox' = IF session[Node(g, d)] = k
             THEN [inbox EXCEPT ![Node(g, d)] = Append(@, Command(kind, g, d, k))]
             ELSE inbox

Refused(n, k) == k = 0 \/ stream[n][k] \in {"closed", "handled"}

\* The detached task sends the teardown to the client side, then to the
\* server side.
SendTeardown(g, d) ==
    /\ edge[g].phase = "releasing"
    /\ edge[g].reply[d] = "unsent"
    /\ d = "s" => edge[g].reply["c"] # "unsent"
    /\ IF Refused(Node(g, d), edge[g].via[d])
       THEN /\ edge' = [edge EXCEPT ![g].reply[d] = "ok"]
            /\ UNCHANGED inbox
       ELSE /\ edge' = [edge EXCEPT ![g].reply[d] = "waiting"]
            /\ Enqueue("teardown", g, d, edge[g].via[d])
    /\ UNCHANGED <<poolVars, netVars, kernel, acks>>

\* outbound.closed() resolves: the endpoint's process is gone.
TeardownWaitsForAckOnly(g, d) ==
    /\ edge[g].phase = "releasing"
    /\ edge[g].reply[d] = "waiting"
    /\ FALSE
    /\ UNCHANGED vars

TeardownStreamClosed(g, d) ==
    /\ edge[g].phase = "releasing"
    /\ edge[g].reply[d] = "waiting"
    /\ stream[Node(g, d)][edge[g].via[d]] \in {"closed", "handled"}
    /\ edge' = [edge EXCEPT ![g].reply[d] = "ok"]
    /\ UNCHANGED <<poolVars, netVars, hostVars>>

\* Every endpoint asked has answered or is gone: the id is free again.
FreeAndForget(g) ==
    /\ edge[g].phase = "releasing"
    /\ \A d \in Sides : edge[g].reply[d] = "ok"
    /\ Pool!free(edge[g].id)
    /\ UNCHANGED <<edge, netVars, hostVars>>

FreeNetId(g) ==
    /\ edge[g].phase = "releasing"
    /\ \A d \in Sides : edge[g].reply[d] = "ok"
    /\ Pool!free(edge[g].id)
    /\ edge' = [edge EXCEPT ![g].phase = "done"]
    /\ UNCHANGED <<netVars, hostVars>>

-----------------------------------------------------------------------------
(***************************************************************************)
(* Building an edge: the sequence of setup_edge (ensure_egress_edge is the *)
(* same sequence).                                                         *)
(***************************************************************************)
StartBuildNextId(g, shape) ==
    /\ edge[g].phase = "none"
    /\ \E id \in MIN_NET_ID .. MAX_NET_ID :
          /\ Pool!allocate(id)
          /\ edge' = [edge EXCEPT ![g] =
                        [NoEdge EXCEPT !.id = id + 1,
                                       !.ends = [d \in Sides |-> shape[d]],
                                       !.phase = "setup",
                                       !.toReady = shape.order]]
    /\ UNCHANGED <<netVars, hostVars>>

StartBuild(g, shape) ==
    /\ edge[g].phase = "none"
    /\ \E id \in MIN_NET_ID .. MAX_NET_ID :
          /\ Pool!allocate(id)
          /\ edge' = [edge EXCEPT ![g] =
                        [NoEdge EXCEPT !.id = id,
                                       !.ends = [d \in Sides |-> shape[d]],
                                       !.phase = "setup",
                                       !.toReady = shape.order]]
    /\ UNCHANGED <<netVars, hostVars>>

\* send_control: look the endpoint up, send, start waiting for the reply.
Send(kind, g, d) ==
    LET k == clients[Node(g, d)] IN
    IF Refused(Node(g, d), k)
    THEN /\ edge' = [edge EXCEPT ![g].reply[d] = "failed"]
         /\ UNCHANGED inbox
    ELSE /\ edge' = [edge EXCEPT ![g].reply[d] = "waiting", ![g].via[d] = k]
         /\ Enqueue(kind, g, d, k)

SendSetup(g, d) ==
    /\ edge[g].phase = "setup"
    /\ edge[g].reply[d] = "unsent"
    /\ Send("setup", g, d)
    /\ UNCHANGED <<poolVars, netVars, kernel, acks>>

\* The 30 second limit of send_control, which may race a late answer.
ReplyTimeout(g, d) ==
    /\ edge[g].phase \in {"setup", "ready"}
    /\ edge[g].reply[d] = "waiting"
    /\ edge' = [edge EXCEPT ![g].reply[d] = "failed"]
    /\ UNCHANGED <<poolVars, netVars, hostVars>>

\* The inbound task of a stream hands an acknowledgement to whoever waits for
\* it; one nobody waits for any more is dropped.
Awaited(a) ==
    /\ edge[a.build].reply[a.side] = "waiting"
    /\ edge[a.build].via[a.side] = a.via
    /\ edge[a.build].phase = IF a.kind = "teardown" THEN "releasing" ELSE a.kind

ReceiveAck(a) ==
    /\ a \in acks
    /\ acks' = acks \ {a}
    /\ edge' = IF Awaited(a)
               THEN [edge EXCEPT ![a.build].reply[a.side] = "ok"] ELSE edge
    /\ UNCHANGED <<poolVars, netVars, inbox, kernel>>

AfterReplies(e) ==
    IF e.toReady = <<>> THEN [e EXCEPT !.phase = "built"]
    ELSE [e EXCEPT !.phase = "ready",
                   !.reply[Head(e.toReady)] = "unsent"]

\* Both setups are settled: go on, or roll back.
SetupSettled(g) ==
    /\ edge[g].phase = "setup"
    /\ \A d \in Sides : edge[g].reply[d] \in {"ok", "failed"}
    /\ edge' = [edge EXCEPT ![g] =
                  IF \A d \in Sides : edge[g].reply[d] = "ok"
                  THEN AfterReplies(@) ELSE Released(@, clients)]
    /\ UNCHANGED <<poolVars, netVars, hostVars>>

SendReady(g) ==
    /\ edge[g].phase = "ready"
    /\ edge[g].reply[Head(edge[g].toReady)] = "unsent"
    /\ Send("ready", g, Head(edge[g].toReady))
    /\ UNCHANGED <<poolVars, netVars, kernel, acks>>

ReadySettled(g) ==
    /\ edge[g].phase = "ready"
    /\ edge[g].reply[Head(edge[g].toReady)] \in {"ok", "failed"}
    /\ edge' = [edge EXCEPT ![g] =
                  IF @.reply[Head(@.toReady)] = "ok"
                  THEN AfterReplies([edge[g] EXCEPT !.toReady = Tail(edge[g].toReady)])
                  ELSE Released(@, clients)]
    /\ UNCHANGED <<poolVars, netVars, hostVars>>

\* The reservation the build was made for still stands: the edge goes live.
Promote(g) ==
    /\ edge[g].phase = "built"
    /\ edge' = [edge EXCEPT ![g].phase = "live"]
    /\ UNCHANGED <<poolVars, netVars, hostVars>>

\* The reservation is gone: the tunnel nobody owns is taken down.
PromotionLost(g) ==
    /\ edge[g].phase = "built"
    /\ edge' = [edge EXCEPT ![g] = Released(@, clients)]
    /\ UNCHANGED <<poolVars, netVars, hostVars>>

-----------------------------------------------------------------------------
(***************************************************************************)
(* The client.  inbox[n] is in order of arrival.  With LifecycleTasks a    *)
(* command starts when no earlier command of the same id is left; without  *)
(* it every command is a task of its own and any of them may run next.     *)
(***************************************************************************)
IdOf(m) == edge[m.build].id

RunnableAnyOrder(n, i) == i \in 1..Len(inbox[n])

Runnable(n, i) ==
    Ordered => \A j \in 1..(i - 1) : IdOf(inbox[n][j]) # IdOf(inbox[n][i])

Without(q, i) == SubSeq(q, 1, i - 1) \o SubSeq(q, i + 1, Len(q))

Ack(m, n) == [node |-> n, kind |-> m.kind, build |-> m.build,
              side |-> m.side, via |-> m.via]

TakeTask(n, i, kind) ==
    /\ inbox[n][i].kind = kind
    /\ Runnable(n, i)
    /\ inbox' = [inbox EXCEPT ![n] = Without(@, i)]
    /\ UNCHANGED <<poolVars, edge, netVars>>

\* handle_*_setup: on failure part of the objects may be left for the server's
\* rollback, and nothing is acknowledged.
RunSetup(n, i) ==
    /\ TakeTask(n, i, "setup")
    /\ LET m == inbox[n][i] IN
       /\ kernel' = [kernel EXCEPT ![n] = @ \cup {<<m.build, m.side>>}]
       /\ acks' = acks \cup {Ack(m, n)}

AckFailedSetup(n, i) ==
    /\ TakeTask(n, i, "setup")
    /\ acks' = acks \cup {Ack(inbox[n][i], n)}
    /\ UNCHANGED kernel

FailSetup(n, i) ==
    /\ TakeTask(n, i, "setup")
    /\ LET m == inbox[n][i] IN
       kernel' \in {kernel, [kernel EXCEPT ![n] = @ \cup {<<m.build, m.side>>}]}
    /\ UNCHANGED acks

\* NetReady is confirmed only where the setup's objects are installed.
RunReady(n, i) ==
    /\ TakeTask(n, i, "ready")
    /\ LET m == inbox[n][i] IN
       \/ Holds(n, m.build, m.side) /\ acks' = acks \cup {Ack(m, n)}
       \/ UNCHANGED acks
    /\ UNCHANGED kernel

\* handle_*_teardown removes what carries the id and the side, whichever life
\* of the id put it there, and acknowledges last.
RunTeardown(n, i) ==
    /\ TakeTask(n, i, "teardown")
    /\ LET m == inbox[n][i] IN
       /\ kernel' = [kernel EXCEPT ![n] =
                       {x \in @ : ~(edge[x[1]].id = IdOf(m) /\ x[2] = m.side)}]
       /\ acks' = acks \cup {Ack(m, n)}

\* A VXLAN teardown that could not remove everything is not acknowledged.
AckFailedTeardown(n, i) ==
    /\ Ordered
    /\ TakeTask(n, i, "teardown")
    /\ acks' = acks \cup {Ack(inbox[n][i], n)}
    /\ UNCHANGED kernel

FailTeardown(n, i) ==
    /\ Ordered
    /\ TakeTask(n, i, "teardown")
    /\ UNCHANGED <<kernel, acks>>

-----------------------------------------------------------------------------
Server(g) ==
    \/ \E shape \in Shapes : StartBuild(g, shape)
    \/ Teardown(g)
    \/ Promote(g) \/ PromotionLost(g)
    \/ SetupSettled(g) \/ SendReady(g) \/ ReadySettled(g)
    \/ FreeNetId(g)
    \/ \E d \in Sides : \/ SendSetup(g, d) \/ ReplyTimeout(g, d)
                        \/ SendTeardown(g, d) \/ TeardownStreamClosed(g, d)

Client(n) ==
    \/ Connect(n) \/ Stop(n) \/ StreamEnds(n)
    \/ \E i \in 1..Len(inbox[n]) :
          \/ RunSetup(n, i) \/ FailSetup(n, i) \/ RunReady(n, i)
          \/ RunTeardown(n, i) \/ FailTeardown(n, i)

Transport ==
    \/ \E n \in Nodes, k \in Sessions : NoticeClosed(n, k) \/ HandleDisconnect(n, k)
    \/ \E a \in acks : ReceiveAck(a)

Next ==
    \/ \E g \in Builds : Server(g)
    \/ \E n \in Nodes : Client(n)
    \/ Transport

Spec == Init /\ [][Next]_vars

\* Tasks the runtime schedules: every waiting server task goes on, the
\* transport delivers and notices, a process runs what it received and reads
\* the end of its stream.  Building, tearing down, stopping, connecting and
\* failing are nobody's obligation.
Fairness ==
    /\ \A g \in Builds :
          /\ WF_vars(FreeNetId(g)) /\ WF_vars(SetupSettled(g))
          /\ WF_vars(SendReady(g)) /\ WF_vars(ReadySettled(g))
          /\ WF_vars(Promote(g) \/ PromotionLost(g))
          /\ \A d \in Sides :
                /\ WF_vars(SendSetup(g, d)) /\ WF_vars(ReplyTimeout(g, d))
                /\ WF_vars(SendTeardown(g, d)) /\ WF_vars(TeardownStreamClosed(g, d))
    /\ \A n \in Nodes :
          /\ WF_vars(StreamEnds(n))
          /\ WF_vars(\E i \in 1..Len(inbox[n]) :
                        \/ RunSetup(n, i) \/ FailSetup(n, i) \/ RunReady(n, i)
                        \/ RunTeardown(n, i) \/ FailTeardown(n, i))
          /\ \A k \in Sessions : WF_vars(NoticeClosed(n, k)) /\ WF_vars(HandleDisconnect(n, k))
    /\ WF_vars(\E a \in acks : ReceiveAck(a))

FairSpec == Spec /\ Fairness

-----------------------------------------------------------------------------
\* The server's records, the streams and the hosts are well formed.
TypeOK ==
    /\ edge \in [Builds ->
          [id : {0} \cup MIN_NET_ID..MAX_NET_ID,
           ends : {<<>>} \cup [Sides -> Nodes],
           phase : Phases, toReady : ReadyOrders,
           reply : [Sides -> Replies], via : [Sides -> 0..MaxSessions]]]
    /\ clients \in [Nodes -> 0..MaxSessions]
    /\ session \in [Nodes -> 0..MaxSessions]
    /\ stream \in [Nodes -> [Sessions -> {"unused", "open", "dead", "closed", "handled"}]]
    /\ kernel \in [Nodes -> SUBSET (Builds \X Sides)]
    /\ \A n \in Nodes : inbox[n] \in
          Seq([kind : Kinds, build : Builds, side : Sides, via : Sessions])
    /\ acks \subseteq [node : Nodes, kind : Kinds, build : Builds,
                       side : Sides, via : Sessions]

\* The kernel cannot tell two lives of an id apart, so no host whose client
\* runs ever carries objects of two lives of one id: the id is reused only
\* after every endpoint has forgotten it (send_net_teardown_kind,
\* spawn_deferred_net_id_free, the client's startup purge).
OneLifePerId ==
    \A n \in Nodes : session[n] # 0 =>
        \A x, y \in kernel[n] : edge[x[1]].id = edge[y[1]].id => x[1] = y[1]

\* A live edge stands on both hosts until the server itself decides to remove
\* it: no late teardown, retry or restart elsewhere takes it away, as long as
\* the process that confirmed the setup runs.
LiveEdgeStands ==
    \A g \in Builds : edge[g].phase = "live" =>
        \A d \in Sides :
            session[Node(g, d)] = edge[g].via[d] => Holds(Node(g, d), g, d)

\* When an id is back in the pool nothing of its past lives is left on a host
\* the server can reach, nor on its way there.
FreedIsForgotten ==
    \A n \in Nodes : clients[n] # 0 /\ clients[n] = session[n] =>
        /\ \A x \in kernel[n] : edge[x[1]].id \notin freed_set
        /\ \A i \in 1..Len(inbox[n]) : IdOf(inbox[n][i]) \notin freed_set

\* The orchestrator is a lawful caller of the pool: it allocates, and frees
\* each id it holds exactly once, through every failure, timeout, restart and
\* disconnect.
PoolContract == Pool!PoolSpec

\* An endpoint that still runs could not remove everything: its teardown has
\* run and nothing was acknowledged.
FailedCleanup(g) ==
    /\ edge[g].phase = "releasing"
    /\ \E d \in Sides :
        /\ edge[g].reply[d] = "waiting"
        /\ session[Node(g, d)] = edge[g].via[d]
        /\ \A i \in 1..Len(inbox[Node(g, d)]) :
              inbox[Node(g, d)][i] # Command("teardown", g, d, edge[g].via[d])
        /\ ~ \E a \in acks : a.kind = "teardown" /\ a.build = g /\ a.side = d

\* Every build ends: it goes live, or its id returns to the pool.  The one
\* exception is a failed cleanup on a host that keeps running, for which the
\* server deliberately keeps the id reserved.
BuildsSettle ==
    \A g \in Builds :
        edge[g].phase \notin {"none", "live", "done"} ~>
            (edge[g].phase \in {"live", "done"} \/ FailedCleanup(g))

\* A process the server no longer has on record (remove_client goes by
\* address, so its predecessor's late close takes the new stream off the
\* record) does not run on unheard: it reads the end of its stream and stops,
\* so that it can register again.  A failed cleanup is again the exception:
\* the task that waits for it keeps the stream open.
NoForgottenProcess ==
    \A n \in Nodes :
        (session[n] # 0 /\ clients[n] # session[n])
            ~> (session[n] = 0 \/ clients[n] = session[n] \/ \E g \in Builds : FailedCleanup(g))

\* "Acked last: the server frees the net id on this, so everything above must
\* already be undone" (control_channel.rs, both teardown handlers): once the
\* teardowns of a life are settled, its objects never reappear on a host that
\* has kept running.
TeardownAckIsFinal ==
    \A g \in Builds : edge[g].phase = "done" =>
        \A d \in Sides :
            (edge[g].via[d] # 0 /\ session[Node(g, d)] = edge[g].via[d])
                => ~Holds(Node(g, d), g, d)

\* Server and hosts agree on what can exist, and no two lives of an id meet
\* on a host (orchestrator.rs, control_channel.rs).
LivesKeptApart == TypeOK /\ OneLifePerId

\* What was torn down and acknowledged does not come back, and a freed id is
\* forgotten everywhere before it is used again (spawn_deferred_net_id_free).
TornDownIsForgotten == FreedIsForgotten /\ TeardownAckIsFinal
=============================================================================
