--------------------------- MODULE SessionHistory ---------------------------
(***************************************************************************)
(* The session history.  Ingress, backend and egress lifecycles submit     *)
(* mutations to a bounded queue and never wait for storage; one worker     *)
(* applies them in order, in batches that are transactions and are retried *)
(* until they succeed.  A full queue opens a gap: everything is dropped    *)
(* until the worker has drained what was accepted and has ended every open *)
(* row (Interrupt).  Rows are found again by net id, and net ids are       *)
(* reused, so a row left open would be adopted by a later session.         *)
(*                                                                         *)
(* Source: sessions.rs, sessions/persistence.rs, db/sessions.rs,           *)
(* db/session_mutations.rs.  Only open rows are kept here.  A `life'       *)
(* numbers the owner of an id: no code compares it, the properties do.     *)
(*                                                                         *)
(* An operator placed just before the definition it varies is a faulty     *)
(* variant, kept to show that a property notices the fault.                *)
(***************************************************************************)
EXTENDS Integers, Sequences

CONSTANTS
    IngressKeys,    (* (net id, service, peer)                              *)
    BackendKeys,    (* trigger sessions                                     *)
    EgressNets,     (* net ids of egress edges                              *)
    Dsts,           (* external destinations                                *)
    CAPACITY,       (* of the queue                                         *)
    BATCH_SIZE,     (* mutations per transaction                            *)
    MaxLives,       (* bound: sessions and edges ever opened                *)
    MaxRestarts     (* bound: restarts of the server                        *)

ASSUME HistoryAssumption ==
    /\ CAPACITY \in Nat \ {0} /\ BATCH_SIZE \in Nat \ {0}
    /\ MaxLives \in Nat /\ MaxRestarts \in Nat
    /\ IngressKeys \cap BackendKeys = {} /\ IngressKeys \cap EgressNets = {} /\ BackendKeys \cap EgressNets = {}

VARIABLES
    live,       (* key or edge -> its life, 0 when there is none            *)
    active,     (* egress edge -> destinations last reported active         *)
    token,      (* backend key -> the history_id it holds, 0 if none        *)
    lives,      (* lives so far                                             *)
    queue,      (* accepted mutations                                       *)
    gap,        (* some update was dropped                                  *)
    pc,         (* the worker: recv, persist, check, gap, interrupt, reset  *)
    batch,      (* what it is persisting                                    *)
    done,       (* mutations of the batch its transaction has applied       *)
    txn,        (* the open rows as its transaction sees them               *)
    rows,       (* open rows of the sessions table                          *)
    complete,   (* history: no update was dropped since the start           *)
    overtaken,  (* history: the queue filled up between the worker's two    *)
                (* looks at it, so an interrupt overtook what was accepted  *)
    restarts

vars == <<live, active, token, lives, queue, gap, pc, batch, done, txn, rows, complete, overtaken, restarts>>
lifecycle == <<live, active, token, lives>>
worker == <<pc, batch, done, txn, rows>>

Keys == IngressKeys \cup BackendKeys \cup EgressNets

Row(dir, key, dst, life) == [dir |-> dir, key |-> key, dst |-> dst, life |-> life]
Mutation(op, row, on) == [op |-> op, row |-> row, on |-> on]
NoRow == Row("none", "none", "none", 0)

-----------------------------------------------------------------------------
(***************************************************************************)
(* SessionTransaction::apply on the open rows.                             *)
(***************************************************************************)
SameEgress(r, q) == r.dir = "egress" /\ r.key = q.key /\ r.dst = q.dst

\* A destination that is already open is touched, not opened again; one that
\* is not active any more has no open row afterwards.
ApplyEgress(rs, m) ==
    IF m.on
    THEN IF \E r \in rs : SameEgress(r, m.row) THEN rs ELSE rs \cup {m.row}
    ELSE {r \in rs : ~SameEgress(r, m.row)}

apply(rs, m) ==
    CASE m.op = "Open"         -> rs \cup {m.row}
      [] m.op = "Egress"       -> ApplyEgress(rs, m)
      [] m.op = "CloseIngress" -> {r \in rs : ~(r.dir = "ingress" /\ r.key = m.row.key)}
      [] m.op = "CloseBackend" -> {r \in rs : ~(r.dir = "backend" /\ r.life = m.row.life)}
      [] m.op = "CloseEgress"  -> {r \in rs : ~(r.dir = "egress" /\ r.key = m.row.key)}
      [] m.op = "CloseAll"     -> {}

-----------------------------------------------------------------------------
(***************************************************************************)
(* Writer::submit.  While there is a gap nothing is accepted.              *)
(***************************************************************************)
Accepted == ~gap /\ Len(queue) < CAPACITY

SubmitUnbounded(m) ==
    /\ overtaken' = (overtaken \/ (pc = "gap" /\ ~gap /\ ~Accepted))
    /\ queue' = IF gap THEN queue ELSE Append(queue, m)
    /\ gap' = ~Accepted
    /\ complete' = (complete /\ Accepted)

submit(m) ==
    /\ overtaken' = (overtaken \/ (pc = "gap" /\ ~gap /\ ~Accepted))
    /\ queue' = IF Accepted THEN Append(queue, m) ELSE queue
    /\ gap' = ~Accepted
    /\ complete' = (complete /\ Accepted)

Init ==
    /\ live = [k \in Keys |-> 0]
    /\ active = [n \in EgressNets |-> {}]
    /\ token = [k \in BackendKeys |-> 0]
    /\ lives = 0
    /\ queue = <<Mutation("CloseAll", NoRow, FALSE)>>
    /\ gap = FALSE
    /\ pc = "recv" /\ batch = <<>> /\ done = 0
    /\ txn = {} /\ rows = {}
    /\ complete = TRUE /\ overtaken = FALSE
    /\ restarts = 0

NewLife(k) ==
    /\ live[k] = 0
    /\ lives < MaxLives
    /\ lives' = lives + 1
    /\ live' = [live EXCEPT ![k] = lives + 1]

EndLife(k) ==
    /\ live[k] # 0
    /\ live' = [live EXCEPT ![k] = 0]

open_ingress(k) ==
    /\ NewLife(k)
    /\ submit(Mutation("Open", Row("ingress", k, "none", lives + 1), TRUE))
    /\ UNCHANGED <<active, token, worker, restarts>>

close_ingress(k) ==
    /\ EndLife(k)
    /\ submit(Mutation("CloseIngress", Row("ingress", k, "none", 0), FALSE))
    /\ UNCHANGED <<active, token, lives, worker, restarts>>

\* The caller keeps the token only if the row was accepted, and closes by it.
open_backend(k) ==
    /\ NewLife(k)
    /\ submit(Mutation("Open", Row("backend", k, "none", lives + 1), TRUE))
    /\ token' = [token EXCEPT ![k] = IF Accepted THEN lives + 1 ELSE 0]
    /\ UNCHANGED <<active, worker, restarts>>

CloseBackendByKey(k) ==
    /\ EndLife(k)
    /\ IF token[k] # 0
       THEN submit(Mutation("CloseBackend", Row("backend", k, "none", 0), FALSE))
       ELSE UNCHANGED <<queue, gap, complete, overtaken>>
    /\ token' = [token EXCEPT ![k] = 0]
    /\ UNCHANGED <<active, lives, worker, restarts>>

close_backend(k) ==
    /\ EndLife(k)
    /\ IF token[k] # 0
       THEN submit(Mutation("CloseBackend", Row("backend", k, "none", token[k]), FALSE))
       ELSE UNCHANGED <<queue, gap, complete, overtaken>>
    /\ token' = [token EXCEPT ![k] = 0]
    /\ UNCHANGED <<active, lives, worker, restarts>>

\* An egress edge comes up, its destinations are reported, it is removed: all
\* under the lock of the edge map, so no report follows the close.
EgressUp(n) ==
    /\ NewLife(n)
    /\ UNCHANGED <<active, token, queue, gap, complete, overtaken, worker, restarts>>

record_egress_destination(n, d, on) ==
    /\ live[n] # 0
    /\ on # (d \in active[n])
    /\ active' = [active EXCEPT ![n] = IF on THEN @ \cup {d} ELSE @ \ {d}]
    /\ submit(Mutation("Egress", Row("egress", n, d, live[n]), on))
    /\ UNCHANGED <<live, token, lives, worker, restarts>>

close_egress_edge(n) ==
    /\ EndLife(n)
    /\ active' = [active EXCEPT ![n] = {}]
    /\ submit(Mutation("CloseEgress", Row("egress", n, "none", 0), FALSE))
    /\ UNCHANGED <<token, lives, worker, restarts>>

-----------------------------------------------------------------------------
(***************************************************************************)
(* The worker.                                                             *)
(***************************************************************************)
Receive ==
    LET n == IF Len(queue) < BATCH_SIZE THEN Len(queue) ELSE BATCH_SIZE IN
    /\ pc = "recv"
    /\ queue # <<>>
    /\ batch' = SubSeq(queue, 1, n)
    /\ queue' = SubSeq(queue, n + 1, Len(queue))
    /\ pc' = "persist"
    /\ UNCHANGED <<lifecycle, gap, done, txn, rows, complete, overtaken, restarts>>

\* apply_batch: the mutations in order, in one transaction.
ApplyNext ==
    /\ pc = "persist"
    /\ done < Len(batch)
    /\ txn' = apply(txn, batch[done + 1])
    /\ done' = done + 1
    /\ UNCHANGED <<lifecycle, queue, gap, pc, batch, rows, complete, overtaken, restarts>>

\* Storage fails: the transaction is rolled back, and persist tries again.
Rollback ==
    /\ pc = "persist"
    /\ done > 0
    /\ txn' = rows
    /\ done' = 0
    /\ UNCHANGED <<lifecycle, queue, gap, pc, batch, rows, complete, overtaken, restarts>>

Commit ==
    /\ pc = "persist"
    /\ done = Len(batch)
    /\ rows' = txn
    /\ batch' = <<>> /\ done' = 0
    /\ pc' = "check"
    /\ overtaken' = (overtaken /\ \A i \in DOMAIN batch : batch[i].op # "CloseAll")
    /\ UNCHANGED <<lifecycle, queue, gap, txn, complete, restarts>>

\* queue.is_empty() && gap > 0, read one after the other.
CheckSkipsQueue ==
    /\ pc = "check"
    /\ pc' = "gap"
    /\ UNCHANGED <<lifecycle, queue, gap, batch, done, txn, rows, complete, overtaken, restarts>>

CheckQueue ==
    /\ pc = "check"
    /\ pc' = IF queue # <<>> THEN "recv" ELSE "gap"
    /\ UNCHANGED <<lifecycle, queue, gap, batch, done, txn, rows, complete, overtaken, restarts>>

CheckGap ==
    /\ pc = "gap"
    /\ pc' = IF gap THEN "interrupt" ELSE "recv"
    /\ UNCHANGED <<lifecycle, queue, gap, batch, done, txn, rows, complete, overtaken, restarts>>

Interrupt ==
    /\ pc = "interrupt"
    /\ rows' = {} /\ txn' = {}
    /\ pc' = "reset"
    /\ overtaken' = (overtaken /\ queue # <<>>)
    /\ UNCHANGED <<lifecycle, queue, gap, batch, done, complete, restarts>>

NeverReset ==
    /\ pc = "reset"
    /\ pc' = "recv"
    /\ UNCHANGED <<lifecycle, queue, gap, batch, done, txn, rows, complete, overtaken, restarts>>

Reset ==
    /\ pc = "reset"
    /\ gap' = FALSE
    /\ pc' = "recv"
    /\ UNCHANGED <<lifecycle, queue, batch, done, txn, rows, complete, overtaken, restarts>>

\* The server stops, at any point, and starts again: the rows are what the
\* last transaction left, and close_stale_on_startup is the first mutation.
RestartKeepingRows ==
    /\ restarts < MaxRestarts
    /\ restarts' = restarts + 1
    /\ live' = [k \in Keys |-> 0] /\ active' = [n \in EgressNets |-> {}]
    /\ token' = [k \in BackendKeys |-> 0]
    /\ queue' = <<>> /\ gap' = FALSE
    /\ pc' = "recv" /\ batch' = <<>> /\ done' = 0 /\ txn' = rows
    /\ complete' = TRUE
    /\ UNCHANGED <<lives, rows, overtaken>>

Restart ==
    /\ restarts < MaxRestarts
    /\ restarts' = restarts + 1
    /\ live' = [k \in Keys |-> 0] /\ active' = [n \in EgressNets |-> {}]
    /\ token' = [k \in BackendKeys |-> 0]
    /\ queue' = <<Mutation("CloseAll", NoRow, FALSE)>> /\ gap' = FALSE
    /\ pc' = "recv" /\ batch' = <<>> /\ done' = 0 /\ txn' = rows
    /\ complete' = TRUE
    /\ UNCHANGED <<lives, rows, overtaken>>

Worker == Receive \/ ApplyNext \/ Commit \/ CheckQueue \/ CheckGap \/ Interrupt \/ Reset

Next ==
    \/ \E k \in IngressKeys : open_ingress(k) \/ close_ingress(k)
    \/ \E k \in BackendKeys : open_backend(k) \/ close_backend(k)
    \/ \E n \in EgressNets : \/ EgressUp(n) \/ close_egress_edge(n)
                             \/ \E d \in Dsts, on \in BOOLEAN : record_egress_destination(n, d, on)
    \/ Worker
    \/ Rollback
    \/ Restart

Spec == Init /\ [][Next]_vars

\* The worker task runs for the life of the process, and storage that fails
\* is retried every second until it recovers: it does not fail for ever.
FairSpec == Spec /\ WF_vars(Worker) /\ <>[][~Rollback]_vars

-----------------------------------------------------------------------------
\* The queue and the batch stay within their limits, whatever is submitted.
TypeOK ==
    /\ live \in [Keys -> 0..MaxLives]
    /\ active \in [EgressNets -> SUBSET Dsts]
    /\ token \in [BackendKeys -> 0..MaxLives]
    /\ Len(queue) <= CAPACITY /\ Len(batch) <= BATCH_SIZE
    /\ pc \in {"recv", "persist", "check", "gap", "interrupt", "reset"}
    /\ gap \in BOOLEAN /\ complete \in BOOLEAN /\ overtaken \in BOOLEAN

\* The rows that live sessions should have open.
Expected ==
    {Row("ingress", k, "none", live[k]) : k \in {x \in IngressKeys : live[x] # 0}}
      \cup {Row("backend", k, "none", live[k]) : k \in {x \in BackendKeys : live[x] # 0}}
      \cup UNION {{Row("egress", n, d, live[n]) : d \in active[n]} : n \in EgressNets}

Drained == queue = <<>> /\ pc = "recv" /\ ~gap

\* Once the worker has caught up, every open row is the row of a session that
\* is live now: no dropped close, overflow, retry or restart leaves a row that
\* reads as live for ever or that a reused net id is adopted onto.  The one
\* exception is a queue that fills up and overflows between is_empty() and the
\* look at the gap, until the next interrupt or restart.
NoStaleRow == Drained /\ ~overtaken => rows \subseteq Expected

\* As long as nothing had to be dropped the history is exact.
ExactUnlessInterrupted == Drained /\ complete => rows = Expected

\* At no time are two rows open for the same session key, so a close by
\* (net id, service, peer), by token or by net id ends what it means to end;
\* with the same exception.
OneOpenRow ==
    ~overtaken =>
        \A r, q \in rows : r.dir = q.dir /\ r.key = q.key /\ r.dst = q.dst => r = q

\* After an overflow recording resumes: the worker always gets to end the gap.
GapCloses == gap ~> ~gap

\* The history shows as open one row for each session that is live and none
\* for one that is gone (persistence.rs, session_mutations.rs).
OpenRowsAreLive == TypeOK /\ NoStaleRow /\ OneOpenRow
=============================================================================
