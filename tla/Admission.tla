------------------------------ MODULE Admission ------------------------------
(***************************************************************************)
(* Who may build a dedicated network: HostRate and allow_dedicated of the  *)
(* congestion controller (congestion.rs).  Each host has a mode: normal    *)
(* (no rate), multiplexing (rate 0) or recovery (a growing rate); a        *)
(* dedicated setup needs a token of both hosts it touches.                 *)
(*                                                                         *)
(* A source (module LoadPressure) is seen only through the trend of its    *)
(* last window and whether that window is new.  Time is in seconds.        *)
(***************************************************************************)
EXTENDS Integers, FiniteSets

CONSTANTS AdHosts, AdPairs,      \* requests: <<proxy, destination>>
          BUCKET_BURST, RECOVERY_QUIET, COMPLETION_HISTORY,
          AdMaxRate              \* bound: tokens per second

ASSUME AdAssumption ==
    /\ AdPairs \subseteq AdHosts \X AdHosts
    /\ {BUCKET_BURST, RECOVERY_QUIET, COMPLETION_HISTORY, AdMaxRate} \subseteq Nat

RECOVERY_WINDOWS == 2
NoRate == -1
Long == COMPLETION_HISTORY + 1   \* an age past every threshold
AdSources == {<<"proxy", pair[1]>> : pair \in AdPairs} \cup {<<"setup", pair[2]>> : pair \in AdPairs}

VARIABLES adRate,      \* NoRate, or tokens per second
          adTokens,
          adRefilled,  \* seconds since the last refill
          adDenied,    \* seconds since the last shortage
          adDone,      \* ages of the completions remembered
          adHealthy,   \* healthy_windows
          adTrend,     \* trend of each source's last window ("none": no source)
          adFresh,     \* sources whose window this host has not judged yet
          adCongested  \* history: seconds since the host was last congested

adVars == <<adRate, adTokens, adRefilled, adDenied, adDone, adHealthy, adTrend, adFresh, adCongested>>

AdmissionInit ==
    /\ adRate = [h \in AdHosts |-> NoRate]
    /\ adTokens = [h \in AdHosts |-> 0]
    /\ adRefilled = [h \in AdHosts |-> 0]
    /\ adDenied = [h \in AdHosts |-> Long]
    /\ adDone = [h \in AdHosts |-> {}]
    /\ adHealthy = [h \in AdHosts |-> 0]
    /\ adTrend = [s \in AdSources |-> "none"]
    /\ adFresh = {}
    /\ adCongested = [h \in AdHosts |-> Long]

Older(age) == IF age >= Long THEN Long ELSE age + 1

Second ==
    /\ adRefilled' = [h \in AdHosts |-> Older(adRefilled[h])]
    /\ adDenied' = [h \in AdHosts |-> Older(adDenied[h])]
    /\ adDone' = [h \in AdHosts |-> {Older(a) : a \in adDone[h]} \ {Long}]   \* trim_completions
    /\ adCongested' = [h \in AdHosts |-> Older(adCongested[h])]
    /\ UNCHANGED <<adRate, adTokens, adHealthy, adTrend, adFresh>>

\* A source closes a window.
NewWindow(s, trend) ==
    /\ adTrend' = [adTrend EXCEPT ![s] = trend]
    /\ adFresh' = adFresh \cup {s}
    /\ UNCHANGED <<adRate, adTokens, adRefilled, adDenied, adDone, adHealthy, adCongested>>

-----------------------------------------------------------------------------
(* One host's rate, as a record *)

HostRate(h) == [rate |-> adRate[h], tokens |-> adTokens[h], denied |-> adDenied[h],
                done |-> adDone[h], healthy |-> adHealthy[h], congested |-> adCongested[h]]

AdMin(a, b) == IF a <= b THEN a ELSE b

refill(h, r) ==
    IF r.rate = NoRate THEN r
    ELSE [r EXCEPT !.tokens = AdMin(@ + adRefilled[h] * r.rate, BUCKET_BURST)]

denied(r) == [r EXCEPT !.denied = 0, !.done = {}]

\* sustained_completions: from RECOVERY_QUIET ago until RECOVERY_QUIET ago or later.
Sustained(r) == \E a \in r.done, b \in r.done : a >= RECOVERY_QUIET /\ b <= RECOVERY_QUIET

\* Faulty variant: full speed as soon as the bucket is full.
RecoveredByTokens(r) == r.tokens >= BUCKET_BURST

Recovered(r) == r.denied >= RECOVERY_QUIET /\ r.tokens >= BUCKET_BURST /\ Sustained(r)

\* The pressures a request brings to a host that is its proxy, its destination
\* or both.
Pressures(h, pair) ==
    {s \in AdSources : /\ adTrend[s] # "none"
                       /\ \/ s = <<"proxy", pair[1]>> /\ h = pair[1]
                          \/ s = <<"setup", pair[2]>> /\ h = pair[2]}

\* Faulty variant: the tokens of the recovery stay in the bucket.
CongestedKeepsTokens(r) == [denied(r) EXCEPT !.rate = 0, !.healthy = 0, !.congested = 0]

Congested(r) == [denied(r) EXCEPT !.rate = 0, !.tokens = 0, !.healthy = 0, !.congested = 0]

Healthier(r) ==
    LET windows == r.healthy + 1
        faster == [r EXCEPT !.healthy = AdMin(windows, RECOVERY_WINDOWS), !.rate = AdMin(r.rate + 1, AdMaxRate)]
    IN  IF r.rate = NoRate THEN r
        ELSE IF windows < RECOVERY_WINDOWS THEN [r EXCEPT !.healthy = windows]
        ELSE IF Recovered(r) THEN [faster EXCEPT !.rate = NoRate, !.tokens = 0]
        ELSE faster

\* apply_all: one verdict over the pressures, when one of them is new.
apply_all(r, ps) ==
    IF ps \cap adFresh = {} THEN r
    ELSE IF \E s \in ps : adTrend[s] = "congested" THEN Congested(r)
    ELSE IF \A s \in ps : adTrend[s] = "healthy" THEN Healthier(r)
    ELSE IF r.rate = 0 THEN [r EXCEPT !.healthy = 0] ELSE r

HasToken(r) == r.rate = NoRate \/ r.tokens >= 1
Spend(r) == IF r.rate = NoRate THEN r ELSE [r EXCEPT !.tokens = @ - 1]
Refuse(r) == IF ~HasToken(r) THEN denied(r) ELSE r

\* Faulty variant: each host charges for itself.
SettledAlone(rs, h, allowed) == IF HasToken(rs[h]) THEN Spend(rs[h]) ELSE Refuse(rs[h])

Settled(rs, h, allowed) == IF allowed THEN Spend(rs[h]) ELSE Refuse(rs[h])

\* allow_dedicated: refill and judge both hosts, then charge both or neither.
AllowDedicated(pair) ==
    LET hosts == {pair[1], pair[2]}
        rs == [h \in hosts |-> apply_all(refill(h, HostRate(h)), Pressures(h, pair))]
        allowed == \A h \in hosts : HasToken(rs[h])
        new(h) == Settled(rs, h, allowed)
    IN  /\ adRate' = [h \in AdHosts |-> IF h \in hosts THEN new(h).rate ELSE adRate[h]]
        /\ adTokens' = [h \in AdHosts |-> IF h \in hosts THEN new(h).tokens ELSE adTokens[h]]
        /\ adDenied' = [h \in AdHosts |-> IF h \in hosts THEN new(h).denied ELSE adDenied[h]]
        /\ adDone' = [h \in AdHosts |-> IF h \in hosts THEN new(h).done ELSE adDone[h]]
        /\ adHealthy' = [h \in AdHosts |-> IF h \in hosts THEN new(h).healthy ELSE adHealthy[h]]
        /\ adCongested' = [h \in AdHosts |-> IF h \in hosts THEN new(h).congested ELSE adCongested[h]]
        /\ adRefilled' = [h \in AdHosts |-> IF h \in hosts THEN 0 ELSE adRefilled[h]]
        /\ adFresh' = adFresh \ UNION {Pressures(h, pair) : h \in hosts}
        /\ UNCHANGED adTrend

\* record_dedicated_completion; a gap longer than RECOVERY_QUIET starts over.
Completed(pair) ==
    LET kept(h) == IF adDone[h] # {} /\ \A a \in adDone[h] : a > RECOVERY_QUIET THEN {} ELSE adDone[h]
    IN  /\ adDone' = [h \in AdHosts |-> IF h \in {pair[1], pair[2]} THEN kept(h) \cup {0} ELSE adDone[h]]
        /\ UNCHANGED <<adRate, adTokens, adRefilled, adDenied, adHealthy, adTrend, adFresh, adCongested>>

AdmissionNext ==
    \/ Second
    \/ \E s \in AdSources, trend \in {"congested", "healthy", "neutral"} : NewWindow(s, trend)
    \/ \E pair \in AdPairs : AllowDedicated(pair) \/ Completed(pair)

AdmissionSpec == AdmissionInit /\ [][AdmissionNext]_adVars

-----------------------------------------------------------------------------
(* Properties *)

\* The bucket never overflows or goes below empty, and a multiplexing host has
\* no token: no dedicated network is built on it until recovery starts.
BucketSound ==
    \A h \in AdHosts : /\ adTokens[h] \in 0..BUCKET_BURST
                       /\ adRate[h] \in {NoRate, 0} => adTokens[h] = 0

\* A host goes back to normal no sooner than RECOVERY_QUIET after its last
\* congested window, and only with completions that span that time.
NoEarlyRecovery ==
    [][\A h \in AdHosts : adRate[h] # NoRate /\ adRate'[h] = NoRate
           => adCongested'[h] >= RECOVERY_QUIET /\ \E a \in adDone'[h] : a >= RECOVERY_QUIET]_adVars

\* A request is charged to both of its hosts or to neither: a shortage on one
\* never drains the other.
ChargedTogether ==
    [][\A pair \in AdPairs :
          LET hs == {pair[1], pair[2]}
              level(h) == AdMin(adTokens[h] + adRefilled[h] * adRate[h], BUCKET_BURST)
          IN  (\A h \in hs : adRate[h] # NoRate /\ adRate'[h] = adRate[h])
                 /\ (\E h \in hs : adTokens'[h] # level(h)) /\ AllowDedicated(pair)
              => \A h \in hs : adTokens'[h] = level(h) - 1]_adVars

\* A request is charged to all of its hosts or to none, buckets stay within
\* their burst, and a limit ends only after a quiet period (congestion.rs).
LimitsHold == []BucketSound /\ NoEarlyRecovery /\ ChargedTogether
=============================================================================
