----------------------------- MODULE EgressEdges -----------------------------
(***************************************************************************)
(* The server's egress edges and what the history says of them.  The first *)
(* packet of a container to the outside makes its client trigger one edge  *)
(* to the proxy, which then carries every destination.  The slot is        *)
(* reserved, the network built without holding the lock, the reservation   *)
(* promoted; meanwhile the node may leave, the container die, the task die *)
(* and a later trigger take the stale reservation over.  The client        *)
(* accumulates the destinations of each container and flushes the changed  *)
(* ones in batches; the server files them under the edge's network.        *)
(*                                                                         *)
(* Source: orchestrator.rs (ensure_egress_edge, record_egress_destination, *)
(* persist_edge_destinations, remove_egress_edges and its callers),        *)
(* nfqueue/egress_listener.rs (record_destination, mark_dst_liveness,      *)
(* spawn_flush_task).  A build is also the number of the network it makes; *)
(* a row is open in the history from its first active report to its close, *)
(* in the order of submission (SessionHistory has the queue).              *)
(*                                                                         *)
(* An operator placed just before the definition it varies is a faulty     *)
(* variant, kept to show that a property notices the fault.                *)
(***************************************************************************)
EXTENDS Integers, FiniteSets

CONSTANTS
    Keys,               (* initiators: a node and a container               *)
    Dsts,               (* external destinations                            *)
    Builds,             (* tasks that build an edge, and their networks     *)
    MAX_DESTS_PER_EDGE,
    MAX_PENDING_DSTS,
    MaxDeaths           (* bound: builds that end without unwinding         *)

ASSUME EgressAssumption ==
    /\ Keys # {}
    /\ Builds \subseteq Nat \ {0}
    /\ MAX_DESTS_PER_EDGE \in Nat \ {0} /\ MAX_PENDING_DSTS \in Nat \ {0}
    /\ MaxDeaths \in Nat

VARIABLES
    edges,      (* egress_edges: initiator -> its reservation or edge       *)
    task,       (* build -> where it is, and for whom                       *)
    nets,       (* networks that stand on the hosts                         *)
    rows,       (* open history rows: <<network, destination>>              *)
    acc,        (* client: initiator -> destination -> DstAccum             *)
    batch,      (* entries of the flush under way, not yet filed            *)
    sent        (* initiator and destination of every entry of that flush   *)

vars == <<edges, task, nets, rows, acc, batch, sent>>
serverVars == <<edges, task, nets, rows>>
clientVars == <<acc, batch, sent>>

NoEdge == [gen |-> 0, net |-> 0, aged |-> FALSE, idle |-> FALSE, dests |-> [d \in Dsts |-> "no"]]
Reservation(b) == [NoEdge EXCEPT !.gen = b]

Present(k)  == edges[k] # NoEdge
Live(k)     == edges[k].net # 0
Reserved(k) == Present(k) /\ ~Live(k)

Unseen == [known |-> FALSE, active |-> FALSE, dirty |-> FALSE]

Init ==
    /\ edges = [k \in Keys |-> NoEdge]
    /\ task = [b \in Builds |-> [pc |-> "none", key |-> CHOOSE k \in Keys : TRUE]]
    /\ nets = {} /\ rows = {}
    /\ acc = [k \in Keys |-> [d \in Dsts |-> Unseen]]
    /\ batch = {} /\ sent = {}

-----------------------------------------------------------------------------
(***************************************************************************)
(* ensure_egress_edge.                                                     *)
(***************************************************************************)
Unused(b) ==
    /\ task[b].pc \in {"none", "done"}
    /\ b \notin nets
    /\ \A k \in Keys : edges[k].gen # b

\* A live edge, or a reservation that may still be resolved, answers the
\* trigger; a stale reservation is taken over.
TriggerNeverReclaims(b, k) ==
    /\ Unused(b)
    /\ ~Present(k)
    /\ edges' = [edges EXCEPT ![k] = Reservation(b)]
    /\ task' = [task EXCEPT ![b] = [pc |-> "reserved", key |-> k]]
    /\ UNCHANGED <<nets, rows, clientVars>>

Trigger(b, k) ==
    /\ Unused(b)
    /\ ~Present(k) \/ (Reserved(k) /\ edges[k].aged)
    /\ edges' = [edges EXCEPT ![k] = Reservation(b)]
    /\ task' = [task EXCEPT ![b] = [pc |-> "reserved", key |-> k]]
    /\ UNCHANGED <<nets, rows, clientVars>>

\* EDGE_CLAIM_TIMEOUT has passed since the slot was reserved.
Age(k) ==
    /\ Reserved(k) /\ ~edges[k].aged
    /\ edges' = [edges EXCEPT ![k].aged = TRUE]
    /\ UNCHANGED <<task, nets, rows, clientVars>>

\* Both ends are set up and the initiator has confirmed NetReady.
NetworkUp(b) ==
    /\ task[b].pc = "reserved"
    /\ task' = [task EXCEPT ![b].pc = "built"]
    /\ nets' = nets \cup {b}
    /\ UNCHANGED <<edges, rows, clientVars>>

Mine(b) == edges[task[b].key].gen = b

\* No id, or an end did not come up: roll back, and drop the slot if it is
\* still this build's.
SetupFails(b) ==
    /\ task[b].pc = "reserved"
    /\ task' = [task EXCEPT ![b].pc = "done"]
    /\ edges' = IF Mine(b) THEN [edges EXCEPT ![task[b].key] = NoEdge] ELSE edges
    /\ UNCHANGED <<nets, rows, clientVars>>

PromoteAnySlot(b) ==
    /\ task[b].pc = "built"
    /\ IF Present(task[b].key)
       THEN /\ edges' = [edges EXCEPT ![task[b].key].net = b]
            /\ task' = [task EXCEPT ![b].pc = "persist"]
            /\ UNCHANGED nets
       ELSE /\ nets' = nets \ {b}
            /\ task' = [task EXCEPT ![b].pc = "done"]
            /\ UNCHANGED edges
    /\ UNCHANGED <<rows, clientVars>>

\* The reservation becomes the edge; without it the new network is taken down.
Promote(b) ==
    /\ task[b].pc = "built"
    /\ IF Mine(b)
       THEN /\ edges' = [edges EXCEPT ![task[b].key].net = b]
            /\ task' = [task EXCEPT ![b].pc = "persist"]
            /\ UNCHANGED nets
       ELSE /\ nets' = nets \ {b}
            /\ task' = [task EXCEPT ![b].pc = "done"]
            /\ UNCHANGED edges
    /\ UNCHANGED <<rows, clientVars>>

\* The task ends without unwinding.
TaskDies(b) ==
    /\ task[b].pc \in {"reserved", "built"}
    /\ Cardinality({c \in Builds : task[c].pc = "dead"}) < MaxDeaths
    /\ task' = [task EXCEPT ![b].pc = "dead"]
    /\ UNCHANGED <<edges, nets, rows, clientVars>>

\* File destination d of network n: a row is open while d is active.
Filed(rs, n, d, active) == IF active THEN rs \cup {<<n, d>>} ELSE rs \ {<<n, d>>}

\* persist_edge_destinations: what was reported while there was no network to
\* file it under.
PersistNothing(b) ==
    /\ task[b].pc = "persist"
    /\ task' = [task EXCEPT ![b].pc = "done"]
    /\ UNCHANGED <<edges, nets, rows, clientVars>>

Persist(b) ==
    LET e == edges[task[b].key] IN
    /\ task[b].pc = "persist"
    /\ task' = [task EXCEPT ![b].pc = "done"]
    /\ rows' = IF e.net = 0 THEN rows
               ELSE (rows \cup {<<e.net, d>> : d \in {x \in Dsts : e.dests[x] = "open"}})
                          \ {<<e.net, d>> : d \in {x \in Dsts : e.dests[x] = "closed"}}
    /\ UNCHANGED <<edges, nets, clientVars>>

-----------------------------------------------------------------------------
(***************************************************************************)
(* The ways an edge goes: its node leaves or its container is gone (either *)
(* also drops a reservation), or it has been idle for the debounce.  Its   *)
(* rows are closed under the lock, its network is torn down.               *)
(***************************************************************************)
RemoveLeavingRows(k) ==
    /\ edges' = [edges EXCEPT ![k] = NoEdge]
    /\ nets' = nets \ {edges[k].net}
    /\ UNCHANGED <<task, rows, clientVars>>

RemoveEdge(k) ==
    /\ edges' = [edges EXCEPT ![k] = NoEdge]
    /\ rows' = {r \in rows : r[1] # edges[k].net}
    /\ nets' = nets \ {edges[k].net}
    /\ UNCHANGED <<task, clientVars>>

InitiatorGone(k) == Present(k) /\ RemoveEdge(k)

ReapIdle(k) == Live(k) /\ edges[k].idle /\ RemoveEdge(k)

\* set_egress_liveness, on a reservation too.
SetLiveness(k, active) ==
    /\ Present(k)
    /\ edges' = [edges EXCEPT ![k].idle = ~active]
    /\ UNCHANGED <<task, nets, rows, clientVars>>

-----------------------------------------------------------------------------
(***************************************************************************)
(* The client's accumulator.                                               *)
(***************************************************************************)

Known == {kd \in Keys \X Dsts : acc[kd[1]][kd[2]].known}

\* A new destination makes room when the accumulator is full.
Forgotten(k, d) ==
    IF acc[k][d].known \/ Cardinality(Known) < MAX_PENDING_DSTS THEN {{}} ELSE {{kd} : kd \in Known}

\* A first packet to d: a denied one is an attempt that ended where it began.
RecordDestination(k, d, blocked) ==
    LET a == acc[k][d]
        active == a.active /\ ~blocked
        now == [known |-> TRUE, active |-> active, dirty |-> a.dirty \/ blocked \/ active] IN
    /\ \E gone \in Forgotten(k, d) :
          acc' = [q \in Keys |-> [x \in Dsts |-> IF <<q, x>> = <<k, d>> THEN now
                                                 ELSE IF <<q, x>> \in gone THEN Unseen
                                                 ELSE acc[q][x]]]
    /\ UNCHANGED <<serverVars, batch, sent>>

\* mark_dst_liveness: the first connection to d opened, or the last closed.
MarkDstLiveness(k, d, active) ==
    /\ acc[k][d].known /\ acc[k][d].active # active
    /\ acc' = [acc EXCEPT ![k][d].active = active, ![k][d].dirty = TRUE]
    /\ UNCHANGED <<serverVars, batch, sent>>

Dirty == {kd \in Keys \X Dsts : acc[kd[1]][kd[2]].dirty}

SetDirty(ds, v) ==
    acc' = [k \in Keys |-> [d \in Dsts |->
              IF <<k, d>> \in ds THEN [acc[k][d] EXCEPT !.dirty = v] ELSE acc[k][d]]]

StartFlush ==
    /\ sent = {} /\ Dirty # {}
    /\ SetDirty(Dirty, FALSE)
    /\ sent' = Dirty
    /\ batch' = {[key |-> kd[1], dst |-> kd[2], active |-> acc[kd[1]][kd[2]].active] : kd \in Dirty}
    /\ UNCHANGED serverVars

\* record_egress_destination: an entry for an initiator without an edge is
\* ignored; a new destination evicts another when the edge is full.
RecordUnfiled(e) ==
    /\ e \in batch
    /\ batch' = batch \ {e}
    /\ edges' = IF Present(e.key)
                THEN [edges EXCEPT ![e.key].dests[e.dst] = IF e.active THEN "open" ELSE "closed"]
                ELSE edges
    /\ UNCHANGED <<task, nets, rows, acc, sent>>

Seen(k) == {d \in Dsts : edges[k].dests[d] # "no"}
Evicted(k, d) ==
    IF d \in Seen(k) \/ Cardinality(Seen(k)) < MAX_DESTS_PER_EDGE THEN {{}}
    ELSE {{x} : x \in Seen(k)}

RecordEgressDestination(e) ==
    /\ e \in batch
    /\ batch' = batch \ {e}
    /\ IF ~Present(e.key) THEN UNCHANGED <<edges, rows>>
       ELSE \E gone \in Evicted(e.key, e.dst) :
              /\ edges' = [edges EXCEPT ![e.key].dests =
                             [d \in Dsts |-> IF d = e.dst THEN IF e.active THEN "open" ELSE "closed"
                                             ELSE IF d \in gone THEN "no" ELSE @[d]]]
              /\ rows' = IF Live(e.key) THEN Filed(rows, edges[e.key].net, e.dst, e.active) ELSE rows
    /\ UNCHANGED <<task, nets, acc, sent>>

FlushReturns ==
    /\ sent # {} /\ batch = {}
    /\ sent' = {}
    /\ UNCHANGED <<serverVars, acc, batch>>

\* The RPC fails, whatever of it was filed: every entry is sent again.
FlushFails ==
    /\ sent # {}
    /\ SetDirty(sent \cap Known, TRUE)
    /\ sent' = {} /\ batch' = {}
    /\ UNCHANGED serverVars

-----------------------------------------------------------------------------
TaskStep(b) == NetworkUp(b) \/ SetupFails(b) \/ Promote(b) \/ Persist(b)

Next ==
    \/ \E b \in Builds : TaskStep(b) \/ TaskDies(b) \/ \E k \in Keys : Trigger(b, k)
    \/ \E k \in Keys : \/ Age(k) \/ InitiatorGone(k) \/ ReapIdle(k)
                       \/ \E active \in BOOLEAN : SetLiveness(k, active)
    \/ \E k \in Keys, d \in Dsts, v \in BOOLEAN :
          RecordDestination(k, d, v) \/ MarkDstLiveness(k, d, v)
    \/ StartFlush \/ FlushReturns \/ FlushFails
    \/ \E e \in batch : RecordEgressDestination(e)

Spec == Init /\ [][Next]_vars

\* Tasks run unless they die, time passes, the flush task runs and its RPC
\* returns; the initiator's packets keep triggering.
FairSpec ==
    /\ Spec
    /\ \A b \in Builds : WF_vars(TaskStep(b))
    /\ \A k \in Keys : WF_vars(Age(k)) /\ WF_vars(\E b \in Builds : Trigger(b, k))
    /\ WF_vars(StartFlush) /\ WF_vars(FlushReturns)
    /\ WF_vars(\E e \in batch : RecordEgressDestination(e))

-----------------------------------------------------------------------------
\* The map, the builds, the rows and the client's table are well formed, and
\* both tables stay within their limits.
TypeOK ==
    /\ edges \in [Keys -> [gen : {0} \cup Builds, net : {0} \cup Builds, aged : BOOLEAN,
                           idle : BOOLEAN, dests : [Dsts -> {"no", "open", "closed"}]]]
    /\ \A k \in Keys : Cardinality(Seen(k)) <= MAX_DESTS_PER_EDGE
    /\ Cardinality(Known) <= MAX_PENDING_DSTS
    /\ task \in [Builds -> [pc : {"none", "reserved", "built", "persist", "done", "dead"}, key : Keys]]
    /\ nets \subseteq Builds /\ rows \subseteq Builds \X Dsts
    /\ acc \in [Keys -> [Dsts -> [known : BOOLEAN, active : BOOLEAN, dirty : BOOLEAN]]]

\* Every egress network that stands is an edge of the map, or its build is
\* still going on to promote it or take it down (or died, which leaks it): no
\* takeover, removal during the build or late promotion strands one.
NoStrandedNet ==
    \A n \in nets : task[n].pc \in {"built", "dead"} \/ \E k \in Keys : edges[k].net = n

\* An open row belongs to an edge of the map: a report is filed and an edge's
\* rows are closed under the same lock, so no row is left for a reused id.
RowsOfLiveEdges ==
    \A r \in rows : \E k \in Keys : edges[k].net = r[1]

\* Of a live edge the history says what the map says, for every destination
\* the map still holds; reports that came before the edge had its network are
\* not missing once its build is through.
RowsComplete ==
    \A k \in Keys : Live(k) /\ (\A b \in Builds : ~(task[b].pc = "persist" /\ task[b].key = k)) =>
        \A d \in Dsts : /\ edges[k].dests[d] = "open" => <<edges[k].net, d>> \in rows
                        /\ edges[k].dests[d] = "closed" => <<edges[k].net, d>> \notin rows

\* A reservation whose task died does not block its initiator for ever: a
\* later trigger takes it over.
StaleIsReclaimed ==
    \A k \in Keys, b \in Builds :
        (Reserved(k) /\ edges[k].gen = b /\ task[b].pc = "dead") ~> ~(Present(k) /\ edges[k].gen = b)

\* The open rows are those of the edges in the map, no more and no fewer
\* (record_egress_destination, persist_edge_destinations, remove_egress_edges).
RowsAgree == TypeOK /\ RowsOfLiveEdges /\ RowsComplete
=============================================================================
