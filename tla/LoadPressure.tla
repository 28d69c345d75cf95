---------------------------- MODULE LoadPressure ----------------------------
(***************************************************************************)
(* One load source of the congestion controller (congestion.rs): Pressure, *)
(* fed by the cumulative counters a proxy attaches to its requests         *)
(* (observe_proxy), or by the setups towards a host (SetupPressure).       *)
(*                                                                         *)
(* Requests are concurrent, so a proxy's samples may arrive out of order;  *)
(* a restarted proxy counts from zero under a new epoch.  Latencies are    *)
(* small numbers; LpSlack is the tolerance of latency_not_rising.          *)
(***************************************************************************)
EXTENDS Naturals, Sequences

CONSTANTS LpMaxCount,   \* bound: arrivals per epoch
          LpEpochs,     \* bound: epochs of the proxy
          LpLatencies, LpSlack

ASSUME LpAssumption == {LpMaxCount, LpSlack} \subseteq Nat /\ LpLatencies \subseteq Nat /\ 1 \in LpEpochs

CONGESTED_WINDOWS == 2

VARIABLES lpKind,      \* "proxy" or "setup"
          lpTrue,      \* counters of the source itself: epoch, arrivals, completions
          lpStart,     \* the sample the window started with
          lpLast,      \* the last sample accepted
          lpSum,       \* latency_sum and latency_samples
          lpPrev,      \* previous_latency_mean (<<>> for None)
          lpElapsed,   \* PRESSURE_WINDOW has passed since the window started
          lpRun,       \* congested_windows
          lpTrend,
          lpClosed     \* history: how the windows of this epoch were judged

lpVars == <<lpKind, lpTrue, lpStart, lpLast, lpSum, lpPrev, lpElapsed, lpRun, lpTrend, lpClosed>>

LpSample(e, a, c, p) == [epoch |-> e, arrivals |-> a, completions |-> c, pending |-> p]
stalled_is_growing == lpKind = "setup"
carry_boundary_latency == lpKind = "proxy"

PressureInit ==
    /\ lpKind \in {"proxy", "setup"}
    /\ lpTrue = LpSample(1, 0, 0, 0)
    /\ lpStart = lpTrue /\ lpLast = lpTrue
    /\ lpSum = [sum |-> 0, n |-> 0]
    /\ lpPrev = <<>>
    /\ lpElapsed = FALSE
    /\ lpRun = 0
    /\ lpTrend = "neutral"
    /\ lpClosed = <<>>

WindowPasses ==
    /\ ~lpElapsed /\ lpElapsed' = TRUE
    /\ UNCHANGED <<lpKind, lpTrue, lpStart, lpLast, lpSum, lpPrev, lpRun, lpTrend, lpClosed>>

-----------------------------------------------------------------------------
(* Pressure::observe *)

Mean(sum) == IF sum.n = 0 THEN IF lpPrev = <<>> THEN 0 ELSE lpPrev[1] ELSE sum.sum \div sum.n

LatencyRising(m) == lpPrev = <<>> \/ m > lpPrev[1]
LatencyNotRising(m) == lpPrev = <<>> \/ m <= lpPrev[1] + LpSlack

\* How the window that ends with sample s is judged.
Judged(s, m) ==
    LET arrivals == s.arrivals - lpStart.arrivals
        completions == s.completions - lpStart.completions
        stalled == stalled_is_growing /\ arrivals > completions /\ completions = 0
    IN  IF arrivals > completions /\ s.pending > lpStart.pending /\ (LatencyRising(m) \/ stalled)
        THEN "growing"
        ELSE IF arrivals <= completions /\ s.pending <= lpStart.pending /\ LatencyNotRising(m)
        THEN "healthy" ELSE "neutral"

\* Faulty variant: the run of growing windows survives the restart.
ResetKeepsRun(s, lat) ==
    /\ lpStart' = s /\ lpLast' = s
    /\ lpSum' = [sum |-> lat, n |-> 1]
    /\ lpPrev' = <<>> /\ lpElapsed' = FALSE
    /\ lpRun' = lpRun /\ lpTrend' = "neutral"
    /\ lpClosed' = <<>>

\* reset: a sample of another epoch starts over.
Reset(s, lat) ==
    /\ lpStart' = s /\ lpLast' = s
    /\ lpSum' = [sum |-> lat, n |-> 1]
    /\ lpPrev' = <<>> /\ lpElapsed' = FALSE
    /\ lpRun' = 0 /\ lpTrend' = "neutral"
    /\ lpClosed' = <<>>

\* The window closes: the trend, the counters of the run, a fresh window.
CloseWindow(s, sum, lat) ==
    LET m == Mean(sum)
        j == Judged(s, m)
        run == IF j = "growing" THEN lpRun + 1 ELSE 0
        full == run >= CONGESTED_WINDOWS
    IN  /\ lpTrend' = IF j = "growing" THEN IF full THEN "congested" ELSE "neutral" ELSE j
        /\ lpRun' = IF full THEN 0 ELSE run
        /\ lpClosed' = Append(IF Len(lpClosed) < CONGESTED_WINDOWS THEN lpClosed ELSE Tail(lpClosed), j)
        /\ lpPrev' = <<m>>
        /\ lpStart' = s /\ lpLast' = s /\ lpElapsed' = FALSE
        /\ lpSum' = IF carry_boundary_latency /\ lat # <<>> THEN [sum |-> lat[1], n |-> 1] ELSE [sum |-> 0, n |-> 0]

\* Faulty variant: a sample is stale only if both counters are behind.
StaleBoth(s) == s.arrivals < lpLast.arrivals /\ s.completions < lpLast.completions

Stale(s) == s.arrivals < lpLast.arrivals \/ s.completions < lpLast.completions

\* lat is <<>> for a setup that starts, which carries no latency.
Observe(s, lat) ==
    IF s.epoch # lpLast.epoch THEN Reset(s, lat[1])
    ELSE IF Stale(s) THEN UNCHANGED <<lpStart, lpLast, lpSum, lpPrev, lpElapsed, lpRun, lpTrend, lpClosed>>
    ELSE LET sum == IF lat = <<>> THEN lpSum ELSE [sum |-> lpSum.sum + lat[1], n |-> lpSum.n + 1]
         IN  IF lpElapsed THEN CloseWindow(s, sum, lat)
             ELSE /\ lpLast' = s /\ lpSum' = sum
                  /\ UNCHANGED <<lpStart, lpPrev, lpElapsed, lpRun, lpTrend, lpClosed>>

-----------------------------------------------------------------------------
(* The sources *)

\* A request reaches the proxy, or one of its requests is answered.
ProxyCounts ==
    /\ lpKind = "proxy"
    /\ \/ lpTrue.arrivals < LpMaxCount /\ lpTrue' = [lpTrue EXCEPT !.arrivals = @ + 1, !.pending = @ + 1]
       \/ lpTrue.pending > 0 /\ lpTrue' = [lpTrue EXCEPT !.completions = @ + 1, !.pending = @ - 1]
       \/ lpTrue.epoch + 1 \in LpEpochs /\ lpTrue' = LpSample(lpTrue.epoch + 1, 0, 0, 0)
    /\ UNCHANGED <<lpKind, lpStart, lpLast, lpSum, lpPrev, lpElapsed, lpRun, lpTrend, lpClosed>>

\* observe_proxy: a sample taken at any moment so far, also one of an earlier
\* process that was still on its way.
ProxySample(e, a, c, lat) ==
    /\ lpKind = "proxy"
    /\ e <= lpTrue.epoch /\ c <= a
    /\ e = lpTrue.epoch => a <= lpTrue.arrivals /\ c <= lpTrue.completions
    /\ lpSum.n < LpMaxCount
    /\ Observe(LpSample(e, a, c, a - c), <<lat>>)
    /\ UNCHANGED <<lpKind, lpTrue>>

\* SetupPressure::started, and ::completed when the attempt is dropped.
SetupStarted ==
    /\ lpKind = "setup" /\ lpTrue.arrivals < LpMaxCount
    /\ lpTrue' = [lpTrue EXCEPT !.arrivals = @ + 1, !.pending = @ + 1]
    /\ Observe(lpTrue', <<>>)
    /\ UNCHANGED lpKind

SetupCompleted(lat) ==
    /\ lpKind = "setup" /\ lpTrue.pending > 0
    /\ lpTrue' = [lpTrue EXCEPT !.completions = @ + 1, !.pending = @ - 1]
    /\ Observe(lpTrue', <<lat>>)
    /\ UNCHANGED lpKind

PressureNext ==
    \/ WindowPasses \/ ProxyCounts \/ SetupStarted
    \/ \E lat \in LpLatencies : \/ SetupCompleted(lat)
                                \/ \E e \in LpEpochs, a, c \in 0..LpMaxCount : ProxySample(e, a, c, lat)

PressureSpec == PressureInit /\ [][PressureNext]_lpVars

-----------------------------------------------------------------------------
(* Properties *)

\* The window's differences are unsigned subtractions: samples that arrive out
\* of order never make one of them wrap around.
NoUnderflow ==
    /\ lpLast.epoch = lpStart.epoch
    /\ lpStart.arrivals <= lpLast.arrivals /\ lpStart.completions <= lpLast.completions

\* A source is congested only after CONGESTED_WINDOWS consecutive growing
\* windows of one life of the proxy: never on a burst, a restart or stale samples.
CongestedNeedsARun ==
    lpTrend = "congested" => Len(lpClosed) = CONGESTED_WINDOWS /\ \A i \in 1..CONGESTED_WINDOWS : lpClosed[i] = "growing"

\* A host is congested only after a run of bad windows of one life of its
\* process, and no window is computed from samples out of order (congestion.rs).
VerdictsNeedEvidence == NoUnderflow /\ CongestedNeedsARun
=============================================================================
