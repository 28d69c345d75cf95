----------------------------- MODULE ProxyDoor -----------------------------
(***************************************************************************)
(* The connections of one client through the ingress proxy, and the count  *)
(* of them the server keeps on the client's entry: the count is what keeps *)
(* the idle pass from tearing the session down under a connection.         *)
(*                                                                         *)
(* An http request (pingora re-enters upstream_peer when the upstream      *)
(* fails), a tcp connection and a udp session each ask the server for an   *)
(* upstream, are counted there, and owe it one close on every way out.     *)
(***************************************************************************)
EXTENDS Naturals, FiniteSets

CONSTANTS PdConns, PdKind,       \* connections and what each is: http, tcp or udp
          PdServices,
          CLOSE_RETRIES,
          PdSlots,               \* MAX_IN_FLIGHT_UNARY
          PdMaxFaults, PdMaxRetries   \* bounds: lost messages; re-entries of upstream_peer

ASSUME PdAssumption == IsFiniteSet(PdConns) /\ CLOSE_RETRIES \in Nat

VARIABLES pdConn,      \* connection -> where it stands
          pdMap,       \* the service new connections are routed to
          pdEntry,     \* service -> the client's entry: live, open_connections
          pdArrivals, pdCompletions,   \* ProxyMetrics
          pdExcused,   \* services whose count a fault has put off
          pdStale,     \* services a connection was handed a session of that was gone
          pdFaults, pdRetried

pdVars == <<pdConn, pdMap, pdEntry, pdArrivals, pdCompletions, pdExcused, pdStale, pdFaults, pdRetried>>

NewConn == [pc |-> "idle", svc |-> "", counted |-> FALSE, tries |-> 0, told |-> 0]
At(c, pcs) == pdConn[c].pc \in pcs
Moves(c, rec) == pdConn' = [pdConn EXCEPT ![c] = rec]
Asking(c) == At(c, {"wait", "rpc", "sticky", "build", "built", "srv"})
DoorInFlight == {c \in PdConns : At(c, {"rpc", "sticky", "build", "built", "srv"})}
Gone(s) == \A c \in PdConns : pdConn[c].svc # s
\* inflight_proxy: requests for one service of one client take turns from the
\* lookup to the count.
Turn(c) == \A d \in PdConns \ {c} : pdConn[d].svc = pdConn[c].svc => ~At(d, {"sticky", "build", "built"})

DoorInit ==
    /\ pdConn = [c \in PdConns |-> NewConn]
    /\ pdMap \in PdServices
    /\ pdEntry = [s \in PdServices |-> [live |-> FALSE, open |-> 0]]
    /\ pdArrivals = 0 /\ pdCompletions = 0
    /\ pdExcused = {} /\ pdStale = {} /\ pdFaults = 0 /\ pdRetried = 0

metricVars == <<pdArrivals, pdCompletions>>
faultVars == <<pdExcused, pdStale, pdFaults, pdRetried>>

-----------------------------------------------------------------------------
(* Asking for an upstream *)

\* A route push or a port mapping changes where new connections go.
Remap(s) ==
    /\ s # pdMap
    /\ pdMap' = s
    /\ UNCHANGED <<pdConn, pdEntry, metricVars, faultVars>>

\* The service is fixed here; check_ingress denied it, allowed it, or failed.
Arrives(c, allowed) ==
    /\ At(c, {"idle"})
    /\ IF allowed
       THEN /\ Moves(c, [NewConn EXCEPT !.pc = "wait", !.svc = pdMap])
            /\ pdArrivals' = pdArrivals + 1
            /\ pdStale' = IF Gone(pdMap) THEN pdStale \ {pdMap} ELSE pdStale
       ELSE /\ Moves(c, [NewConn EXCEPT !.pc = "done"])
            /\ UNCHANGED <<pdArrivals, pdStale>>
    /\ UNCHANGED <<pdMap, pdEntry, pdCompletions, pdExcused, pdFaults, pdRetried>>

RequestFilter(c, allowed) == PdKind[c] = "http" /\ Arrives(c, allowed)
HandleConnection(c, allowed) == PdKind[c] = "tcp" /\ Arrives(c, allowed)
HandleDatagram(c, allowed) == PdKind[c] = "udp" /\ Arrives(c, allowed)

\* proxy(): a permit of unary_slots.
Admitted(c) ==
    /\ At(c, {"wait"}) /\ Cardinality(DoorInFlight) < PdSlots
    /\ Moves(c, [pdConn[c] EXCEPT !.pc = "rpc"])
    /\ UNCHANGED <<pdMap, pdEntry, metricVars, faultVars>>

\* proxy_request_locked reads the client's entry, under a read lock that it
\* then gives back: a session it can reuse, or none.
LooksUp(c) ==
    /\ At(c, {"rpc"}) /\ Turn(c)
    /\ Moves(c, [pdConn[c] EXCEPT !.pc = IF pdEntry[pdConn[c].svc].live THEN "sticky" ELSE "build"])
    /\ UNCHANGED <<pdMap, pdEntry, metricVars, faultVars>>

\* set_latest_now, which does nothing when the entry has gone since: the
\* upstream of the lookup is returned all the same.
Reused(c) ==
    /\ At(c, {"sticky"})
    /\ pdStale' = IF pdEntry[pdConn[c].svc].live THEN pdStale ELSE pdStale \cup {pdConn[c].svc}
    /\ Moves(c, [pdConn[c] EXCEPT !.pc = "built"])
    /\ UNCHANGED <<pdMap, pdEntry, metricVars, pdExcused, pdFaults, pdRetried>>

\* The chain behind the session is no longer whole: StaleSessionEvicted, and
\* a new one is built.  Connections counted on the old entry lose their count.
StaleEvicted(c) ==
    /\ At(c, {"sticky"}) /\ pdFaults < PdMaxFaults
    /\ pdFaults' = pdFaults + 1
    /\ pdEntry' = [pdEntry EXCEPT ![pdConn[c].svc] = [live |-> FALSE, open |-> 0]]
    /\ pdExcused' = pdExcused \cup {pdConn[c].svc}
    /\ Moves(c, [pdConn[c] EXCEPT !.pc = "build"])
    /\ UNCHANGED <<pdMap, metricVars, pdStale, pdRetried>>

\* A network is reused or a chain built, and the entry made.
SessionBuilt(c) ==
    /\ At(c, {"build"})
    /\ pdEntry' = [pdEntry EXCEPT ![pdConn[c].svc].live = TRUE]
    /\ Moves(c, [pdConn[c] EXCEPT !.pc = "built"])
    /\ UNCHANGED <<pdMap, metricVars, faultVars>>

\* mark_connection_open: nothing when the entry is gone by now.
ServerCounts(c) ==
    /\ At(c, {"built"})
    /\ pdEntry' = [pdEntry EXCEPT ![pdConn[c].svc].open = IF pdEntry[pdConn[c].svc].live THEN @ + 1 ELSE @]
    /\ Moves(c, [pdConn[c] EXCEPT !.pc = "srv"])
    /\ UNCHANGED <<pdMap, metricVars, faultVars>>

\* Unknown service, or the chain could not be built: nothing was counted.
\* A connection that an earlier entry counted still owes its close.
LookupFails(c) ==
    /\ At(c, {"rpc", "build"}) /\ Turn(c)
    /\ pdCompletions' = pdCompletions + 1
    /\ Moves(c, IF pdConn[c].counted THEN [pdConn[c] EXCEPT !.pc = "close", !.tries = CLOSE_RETRIES]
                ELSE [NewConn EXCEPT !.pc = "done"])
    /\ UNCHANGED <<pdMap, pdEntry, pdArrivals, faultVars>>

FaultyAnswered(c) ==
    /\ At(c, {"srv"})
    /\ pdCompletions' = pdCompletions + 1
    /\ Moves(c, [pdConn[c] EXCEPT !.pc = "up", !.counted = TRUE])
    /\ UNCHANGED <<pdMap, pdEntry, pdArrivals, faultVars>>

\* resolve_upstream answered.  A re-entry of upstream_peer cancels the count
\* it has just made, and only then goes on.
Answered(c) ==
    /\ At(c, {"srv"})
    /\ pdCompletions' = pdCompletions + 1
    /\ Moves(c, IF pdConn[c].counted THEN [pdConn[c] EXCEPT !.pc = "cancel", !.tries = CLOSE_RETRIES]
                ELSE [pdConn[c] EXCEPT !.pc = "up", !.counted = TRUE])
    /\ UNCHANGED <<pdMap, pdEntry, pdArrivals, faultVars>>

\* The answer is lost: the server has counted what the proxy never saw.
AnswerLost(c) ==
    /\ At(c, {"srv"}) /\ pdFaults < PdMaxFaults
    /\ pdFaults' = pdFaults + 1
    /\ pdExcused' = pdExcused \cup {pdConn[c].svc}
    /\ pdCompletions' = pdCompletions + 1
    /\ Moves(c, IF pdConn[c].counted THEN [pdConn[c] EXCEPT !.pc = "close", !.tries = CLOSE_RETRIES]
                ELSE [NewConn EXCEPT !.pc = "done"])
    /\ UNCHANGED <<pdMap, pdEntry, pdArrivals, pdStale, pdRetried>>

FaultyAborted(c) ==
    /\ PdKind[c] = "udp"
    /\ \/ Asking(c) /\ Moves(c, [NewConn EXCEPT !.pc = "done"])
          /\ pdExcused' = pdExcused \cup {pdConn[c].svc}
          /\ UNCHANGED pdCompletions
       \/ At(c, {"up"}) /\ Moves(c, [pdConn[c] EXCEPT !.pc = "close", !.tries = CLOSE_RETRIES])
          /\ UNCHANGED <<pdExcused, pdCompletions>>
    /\ UNCHANGED <<pdMap, pdEntry, pdArrivals, pdStale, pdFaults, pdRetried>>

\* A udp listener is aborted: its sessions drop their guards.  A datagram
\* that is waiting for its upstream has none yet, and the server goes on.
Aborted(c) ==
    /\ PdKind[c] = "udp"
    /\ \/ Asking(c) /\ Moves(c, [NewConn EXCEPT !.pc = "done"])
          /\ pdExcused' = pdExcused \cup {pdConn[c].svc}
          /\ pdCompletions' = pdCompletions + 1
       \/ At(c, {"up"}) /\ Moves(c, [pdConn[c] EXCEPT !.pc = "close", !.tries = CLOSE_RETRIES])
          /\ UNCHANGED <<pdExcused, pdCompletions>>
    /\ UNCHANGED <<pdMap, pdEntry, pdArrivals, pdStale, pdFaults, pdRetried>>

-----------------------------------------------------------------------------
(* A counted connection *)

FaultyUpstreamFails(c) ==
    /\ PdKind[c] = "http" /\ At(c, {"up"}) /\ pdRetried < PdMaxRetries
    /\ pdRetried' = pdRetried + 1
    /\ pdEntry' = [pdEntry EXCEPT ![pdConn[c].svc].open = IF @ = 0 THEN 0 ELSE @ - 1]
    /\ Moves(c, [pdConn[c] EXCEPT !.pc = "wait"])
    /\ pdArrivals' = pdArrivals + 1
    /\ UNCHANGED <<pdMap, pdCompletions, pdExcused, pdStale, pdFaults>>

\* pingora re-enters upstream_peer with the same ctx, and so the same service.
UpstreamFails(c) ==
    /\ PdKind[c] = "http" /\ At(c, {"up"}) /\ pdRetried < PdMaxRetries
    /\ pdRetried' = pdRetried + 1
    /\ Moves(c, [pdConn[c] EXCEPT !.pc = "wait"])
    /\ pdArrivals' = pdArrivals + 1
    /\ UNCHANGED <<pdMap, pdEntry, pdCompletions, pdExcused, pdStale, pdFaults>>

\* The one close of a counted connection begins.
Ends(c) ==
    /\ At(c, {"up"})
    /\ Moves(c, [pdConn[c] EXCEPT !.pc = "close", !.tries = CLOSE_RETRIES])
    /\ UNCHANGED <<pdMap, pdEntry, metricVars, faultVars>>

Logging(c) == PdKind[c] = "http" /\ Ends(c)
\* The ConnectionGuard is dropped: the relay is over or failed, or the dial.
RelayEnds(c) == PdKind[c] = "tcp" /\ Ends(c)
\* ... the session is swept when idle, or its socket could not be opened.
SweepIdle(c) == PdKind[c] = "udp" /\ Ends(c)

Closed(s) == [pdEntry EXCEPT ![s].open = IF pdEntry[s].live /\ @ > 0 THEN @ - 1 ELSE @]
After(c) == IF At(c, {"cancel"}) THEN [pdConn[c] EXCEPT !.pc = "up", !.tries = 0, !.told = 0]
            ELSE [NewConn EXCEPT !.pc = "done"]

\* send_close: delivered and answered.
CloseOk(c) ==
    /\ At(c, {"cancel", "close"})
    /\ pdEntry' = Closed(pdConn[c].svc)
    /\ Moves(c, After(c))
    /\ pdExcused' = IF pdConn[c].told = 0 THEN pdExcused ELSE pdExcused \cup {pdConn[c].svc}
    /\ UNCHANGED <<pdMap, metricVars, pdStale, pdFaults, pdRetried>>

\* A try that fails, before or after the server has seen it, is repeated;
\* after the last one the report is given up.
CloseFails(c, delivered) ==
    /\ At(c, {"cancel", "close"}) /\ pdFaults < PdMaxFaults
    /\ pdFaults' = pdFaults + 1
    /\ pdEntry' = IF delivered THEN Closed(pdConn[c].svc) ELSE pdEntry
    /\ LET told == pdConn[c].told + (IF delivered THEN 1 ELSE 0)
           last == pdConn[c].tries = 1
       IN  /\ pdExcused' = IF told > 1 \/ (last /\ told = 0) THEN pdExcused \cup {pdConn[c].svc} ELSE pdExcused
           /\ Moves(c, IF last THEN After(c) ELSE [pdConn[c] EXCEPT !.tries = @ - 1, !.told = told])
    /\ UNCHANGED <<pdMap, metricVars, pdStale, pdRetried>>

-----------------------------------------------------------------------------
(* The server's side of the entry *)

\* reap_ingress_timeouts: idle_expired needs a count of zero and the time-out
\* since `latest'.  That is written when the entry is made or reused, so the
\* time is not over between that and the count; it may be over between the
\* lookup that finds the session and its reuse.
Reap(s) ==
    /\ pdEntry[s].live /\ pdEntry[s].open = 0
    /\ \A c \in PdConns : ~(At(c, {"built"}) /\ pdConn[c].svc = s)
    /\ pdEntry' = [pdEntry EXCEPT ![s].live = FALSE]
    /\ UNCHANGED <<pdConn, pdMap, metricVars, faultVars>>

\* A replica or a dependency edge goes away, or the session is evicted as
\* stale: the entry goes with its count, and closes of it come too late.
Evicted(s) ==
    /\ pdEntry[s].live /\ pdFaults < PdMaxFaults
    /\ pdFaults' = pdFaults + 1
    /\ pdEntry' = [pdEntry EXCEPT ![s] = [live |-> FALSE, open |-> 0]]
    /\ pdExcused' = pdExcused \cup {s}
    /\ UNCHANGED <<pdConn, pdMap, metricVars, pdStale, pdRetried>>

DoorNext ==
    \/ \E s \in PdServices : Remap(s) \/ Reap(s) \/ Evicted(s)
    \/ \E c \in PdConns :
           \/ \E b \in BOOLEAN : RequestFilter(c, b) \/ HandleConnection(c, b) \/ HandleDatagram(c, b) \/ CloseFails(c, b)
           \/ Admitted(c) \/ LooksUp(c) \/ Reused(c) \/ StaleEvicted(c) \/ SessionBuilt(c) \/ ServerCounts(c) \/ LookupFails(c)
           \/ Answered(c) \/ AnswerLost(c) \/ Aborted(c)
           \/ UpstreamFails(c) \/ Logging(c) \/ RelayEnds(c) \/ SweepIdle(c) \/ CloseOk(c)

DoorSpec == DoorInit /\ [][DoorNext]_pdVars

-----------------------------------------------------------------------------
\* The idle pass never takes a session from under a connection the proxy has
\* open, a retry in progress included: a re-entry counts again before it
\* cancels, so the count does not touch zero in between.  Excused are the
\* services whose count a fault has put off and, until its connections are
\* gone, a service whose session was reaped between the lookup and the reuse:
\* that connection is not counted, and its close takes another's count away.
OpenKeepsSession ==
    \A c \in PdConns :
        pdConn[c].counted /\ pdConn[c].pc # "close" /\ pdConn[c].svc \notin pdExcused \cup pdStale
            => pdEntry[pdConn[c].svc].live

\* Every count is given back, to the service it was made on, however the
\* connection ends, wherever new connections are routed meanwhile and
\* whichever were handed a session that was gone: with none left the count is
\* zero, so the session can expire.
CountSettles ==
    \A s \in PdServices \ pdExcused :
        Gone(s) => pdEntry[s].open = 0

\* Arrivals less completions are the requests in progress, also when one is
\* cancelled: the load the server computes from a report is never inflated
\* by requests that are gone.
LoadReportIsExact == pdArrivals - pdCompletions = Cardinality({c \in PdConns : Asking(c)})

\* The server's count of a session covers its open connections and returns to
\* zero, and the load the proxy reports is what waits (main.rs, nullnet_proxy.rs).
OpenConnectionsCounted == OpenKeepsSession /\ CountSettles /\ LoadReportIsExact
=============================================================================
