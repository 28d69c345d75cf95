--------------------------- MODULE TrafficFilter ---------------------------
(***************************************************************************)
(* The traffic filters of the services: how a change of policy reaches     *)
(* the flows and sessions that stand.                                      *)
(*                                                                         *)
(* Egress: the client holds the first packet of a flow, asks the server    *)
(* for a verdict and caches it.  After a change the server sends           *)
(* EgressPolicyChanged, and the client clears the cache and deletes the    *)
(* conntrack entries, so that a flow that stands is held again.            *)
(* Ingress: the proxy asks at the door, then has the session built; a      *)
(* change tears down the sessions it denies.  Both need the country of an  *)
(* address, which geo.rs looks up through a cache; here every flow has the *)
(* same address, whose country is on the list of every policy.             *)
(***************************************************************************)
EXTENDS Naturals, FiniteSets

CONSTANTS TfFlows, TfSessions,
          TfCacheEmpty,       \* GeoCache.cache_empty: failed lookups are kept
          TfMaxChanges        \* bound on changes of policy

ASSUME TfAssumption == TfFlows \cap TfSessions = {} /\ TfCacheEmpty \in BOOLEAN

VARIABLES tfPolicy,     \* the live policy of each direction
          tfGen,        \* changes of the egress policy so far
          tfEnd,        \* flow or session -> where its check stands
          tfVerdicts,   \* PolicyVerdicts of the address, as a set of at most one
          tfChanged,    \* EgressPolicyChanged messages under way
          tfFlushes,    \* handlers that have cleared and not flushed
          tfFlushed,    \* no flush has failed
          tfGeo,        \* GeoCache.cache of the address
          tfInflight,   \* GeoCache.inflight has the address
          tfEnsure      \* lookups spawned by GeoCache::ensure

tfVars == <<tfPolicy, tfGen, tfEnd, tfVerdicts, tfChanged, tfFlushes, tfFlushed, tfGeo, tfInflight, tfEnsure>>

TfEnds == TfFlows \cup TfSessions
Dir(e) == IF e \in TfFlows THEN "egress" ELSE "ingress"
Policies == {"none", "block", "allow"}

\* gen: the egress policy a verdict is of; geo: the country it was given on;
\* over: a change was announced while this was held.
NewEnd == [pc |-> "new", pol |-> "none", ok |-> FALSE, gen |-> 0, geo |-> "unknown", over |-> FALSE]

FilterInit ==
    /\ tfPolicy = [d \in {"egress", "ingress"} |-> "none"]
    /\ tfGen = 0
    /\ tfEnd = [e \in TfEnds |-> NewEnd]
    /\ tfVerdicts = {}
    /\ tfChanged = 0 /\ tfFlushes = 0
    /\ tfFlushed = TRUE
    /\ tfGeo = "absent"
    /\ tfInflight = FALSE
    /\ tfEnsure = 0

\* FilterPolicy::allows: an unknown country matches no rule.
Allows(policy, geo) ==
    CASE policy = "none" -> TRUE
      [] policy = "block" -> geo # "listed"
      [] policy = "allow" -> geo = "listed"

\* GeoCache::get: an empty result is unknown too.
CachedGeo == IF tfGeo = "listed" THEN "listed" ELSE "unknown"

Set(e, rec) == tfEnd' = [tfEnd EXCEPT ![e] = rec]
geoVars == <<tfGeo, tfInflight, tfEnsure>>
changeVars == <<tfPolicy, tfGen, tfChanged, tfFlushes, tfFlushed>>

-----------------------------------------------------------------------------
(* Geo lookups *)

\* GeoCache::ensure, called by check_ingress: at most one lookup is spawned.
EnsureGeo ==
    IF tfGeo = "absent" /\ ~tfInflight
    THEN tfInflight' = TRUE /\ tfEnsure' = tfEnsure + 1
    ELSE UNCHANGED <<tfInflight, tfEnsure>>

GeoAfter(res) == IF res = "listed" \/ TfCacheEmpty THEN res ELSE tfGeo

EnsureDone(res) ==
    /\ tfEnsure > 0
    /\ tfGeo' = GeoAfter(res)
    /\ tfInflight' = FALSE
    /\ tfEnsure' = tfEnsure - 1
    /\ UNCHANGED <<tfEnd, tfVerdicts, changeVars>>

\* policy.allows with what is known of the address.
Decide(e, geo) ==
    Set(e, [tfEnd[e] EXCEPT !.pc = "answer", !.ok = Allows(tfEnd[e].pol, geo), !.pol = "none",
                            !.geo = IF e \in TfSessions THEN geo ELSE @])

\* lookup_now: the cache is read, then, under another lock, the lookup claimed.
LookupCached(e) ==
    /\ tfEnd[e].pc = "check"
    /\ IF tfGeo # "absent" THEN Decide(e, CachedGeo) ELSE Set(e, [tfEnd[e] EXCEPT !.pc = "claim"])
    /\ UNCHANGED <<tfVerdicts, changeVars, geoVars>>

ClaimLookup(e) ==
    /\ tfEnd[e].pc = "claim"
    /\ IF tfInflight
       THEN \/ Set(e, [tfEnd[e] EXCEPT !.pc = "check"]) /\ UNCHANGED tfInflight
            \/ Decide(e, "unknown") /\ UNCHANGED tfInflight      \* the last try
       ELSE Set(e, [tfEnd[e] EXCEPT !.pc = "lookup"]) /\ tfInflight' = TRUE
    /\ UNCHANGED <<tfVerdicts, changeVars, tfGeo, tfEnsure>>

LookupDone(e, res) ==
    /\ tfEnd[e].pc = "lookup"
    /\ tfGeo' = GeoAfter(res)
    /\ tfInflight' = FALSE
    /\ Decide(e, IF res = "listed" THEN "listed" ELSE "unknown")
    /\ UNCHANGED <<tfVerdicts, changeVars, tfEnsure>>

-----------------------------------------------------------------------------
(* A check *)

\* policy_allows: a cached verdict answers at once, a miss asks the server.
Packet(e) ==
    /\ e \in TfFlows /\ tfEnd[e].pc = "new"
    /\ \/ \E v \in tfVerdicts : v.ok /\ Set(e, [v EXCEPT !.pc = "steer"])
       \/ tfVerdicts = {} /\ Set(e, [NewEnd EXCEPT !.pc = "ask"])
    /\ UNCHANGED <<tfVerdicts, changeVars, geoVars>>

\* check_ingress of the proxy.
Arrive(e) ==
    /\ e \in TfSessions /\ tfEnd[e].pc = "new"
    /\ Set(e, [NewEnd EXCEPT !.pc = "ask"])
    /\ EnsureGeo
    /\ UNCHANGED <<tfVerdicts, changeVars, tfGeo>>

\* check_egress_destination_impl, check_ingress_impl: the policy is copied
\* under the lock of the services, and the country awaited after it.
ReadPolicy(e) ==
    /\ tfEnd[e].pc = "ask"
    /\ LET pol == tfPolicy[Dir(e)]
           read == [tfEnd[e] EXCEPT !.pol = pol, !.gen = IF e \in TfFlows THEN tfGen ELSE @]
       IN  IF pol = "none"
           THEN Set(e, [read EXCEPT !.pc = "answer", !.ok = TRUE])
           ELSE Set(e, [read EXCEPT !.pc = "check"])
    /\ UNCHANGED <<tfVerdicts, changeVars, geoVars>>

\* PolicyVerdicts::put of an answer; a denied packet is dropped.  A session
\* that is let in is built by handle_proxy_request.
CheckAnswered(e) ==
    /\ tfEnd[e].pc = "answer"
    /\ Set(e, IF tfEnd[e].ok THEN [tfEnd[e] EXCEPT !.pc = "steer"] ELSE NewEnd)
    /\ tfVerdicts' = IF e \in TfFlows THEN {[tfEnd[e] EXCEPT !.pc = "cached"]} ELSE tfVerdicts
    /\ UNCHANGED <<changeVars, geoVars>>

\* POLICY_TIMEOUT: the packet is dropped and the RPC cancelled; the guard
\* of a lookup it was running takes the address out of `inflight'.
FaultyTimeout(e) ==
    /\ tfEnd[e].pc \in {"ask", "check", "claim", "lookup", "answer"}
    /\ Set(e, NewEnd)
    /\ UNCHANGED <<tfVerdicts, changeVars, tfGeo, tfInflight, tfEnsure>>
CheckTimeout(e) ==
    /\ tfEnd[e].pc \in {"ask", "check", "claim", "lookup", "answer"}
    /\ Set(e, NewEnd)
    /\ tfInflight' = (tfInflight /\ tfEnd[e].pc # "lookup")
    /\ UNCHANGED <<tfVerdicts, changeVars, tfGeo, tfEnsure>>

\* The edge is there: the packet is accepted, or the session stands.
Accept(e) ==
    /\ tfEnd[e].pc = "steer"
    /\ Set(e, [tfEnd[e] EXCEPT !.pc = "open"])
    /\ UNCHANGED <<tfVerdicts, changeVars, geoVars>>

Gone(e) ==
    /\ tfEnd[e].pc \in {"steer", "open"}
    /\ Set(e, NewEnd)
    /\ UNCHANGED <<tfVerdicts, changeVars, geoVars>>

\* VERDICT_TTL, or the eviction of the oldest verdict.
ExpireVerdict ==
    /\ tfVerdicts # {}
    /\ tfVerdicts' = {}
    /\ UNCHANGED <<tfEnd, changeVars, geoVars>>

-----------------------------------------------------------------------------
(* A change of policy *)

BeingJudged(e) == tfEnd[e].pc \in {"ask", "check", "claim", "lookup", "answer", "steer"}

\* apply_config_update: the sessions the new ingress policy denies, by the
\* cached country alone (teardown_ingress_denied_sessions).
FaultyReevaluated(old, new) == old = "none" /\ new # "none"
Reevaluated(old, new) == new # old /\ new # "none"
ChangeIngress(new) ==
    /\ new # tfPolicy["ingress"]
    /\ tfPolicy' = [tfPolicy EXCEPT !["ingress"] = new]
    /\ tfEnd' = [e \in TfEnds |->
            IF e \in TfFlows THEN tfEnd[e]
            ELSE IF tfEnd[e].pc = "open" /\ Reevaluated(tfPolicy["ingress"], new)
            THEN IF Allows(new, CachedGeo) THEN [tfEnd[e] EXCEPT !.geo = CachedGeo] ELSE NewEnd
            ELSE IF BeingJudged(e) THEN [tfEnd[e] EXCEPT !.over = TRUE]
            ELSE tfEnd[e]]
    /\ UNCHANGED <<tfGen, tfVerdicts, tfChanged, tfFlushes, tfFlushed, geoVars>>

\* broadcast_egress_policy_changed, when egress_policies differ.
Announces(old, new) == old # new
ChangeEgress(new) ==
    /\ tfGen < TfMaxChanges
    /\ new # tfPolicy["egress"]
    /\ tfPolicy' = [tfPolicy EXCEPT !["egress"] = new]
    /\ tfGen' = tfGen + 1
    /\ tfChanged' = IF Announces(tfPolicy["egress"], new) THEN tfChanged + 1 ELSE tfChanged
    /\ UNCHANGED <<tfEnd, tfVerdicts, tfFlushes, tfFlushed, geoVars>>

Overtaken == [e \in TfEnds |-> IF e \in TfFlows /\ BeingJudged(e) THEN [tfEnd[e] EXCEPT !.over = TRUE] ELSE tfEnd[e]]
Reheld == [e \in TfEnds |-> IF e \in TfFlows /\ tfEnd[e].pc = "open" THEN NewEnd ELSE tfEnd[e]]

\* The handler of EgressPolicyChanged: clear the verdicts ...
FlushesOnly ==
    /\ tfChanged > 0
    /\ tfChanged' = tfChanged - 1 /\ tfFlushes' = tfFlushes + 1
    /\ tfEnd' = Reheld
    /\ UNCHANGED <<tfVerdicts, tfPolicy, tfGen, tfFlushed, geoVars>>
ClearVerdicts ==
    /\ tfChanged > 0
    /\ tfChanged' = tfChanged - 1 /\ tfFlushes' = tfFlushes + 1
    /\ tfVerdicts' = {}
    /\ tfEnd' = Overtaken
    /\ UNCHANGED <<tfPolicy, tfGen, tfFlushed, geoVars>>

\* ... then delete the conntrack entries (flush_container_conntrack).
FlushConntrack(ok) ==
    /\ tfFlushes > 0
    /\ tfFlushes' = tfFlushes - 1
    /\ tfFlushed' = (tfFlushed /\ ok)
    /\ tfEnd' = IF ok THEN Reheld ELSE tfEnd
    /\ UNCHANGED <<tfPolicy, tfGen, tfVerdicts, tfChanged, geoVars>>

FilterNext ==
    \/ \E e \in TfEnds :
        \/ Packet(e) \/ Arrive(e) \/ ReadPolicy(e) \/ LookupCached(e) \/ ClaimLookup(e)
        \/ \E res \in {"listed", "empty"} : LookupDone(e, res)
        \/ CheckAnswered(e) \/ CheckTimeout(e) \/ Accept(e) \/ Gone(e)
    \/ \E res \in {"listed", "empty"} : EnsureDone(res)
    \/ ExpireVerdict
    \/ \E p \in Policies : ChangeIngress(p) \/ ChangeEgress(p)
    \/ ClearVerdicts
    \/ \E ok \in BOOLEAN : FlushConntrack(ok)

FilterSpec == FilterInit /\ [][FilterNext]_tfVars

-----------------------------------------------------------------------------
\* "Flows the new policy denies die on their next packet" (egress_policy.rs):
\* once every announced change is handled, the flows that stand were let in by
\* the policy in force.  The exception is a packet that was held, for its
\* verdict or for its edge, while the cache was cleared, and what its late
\* answer put into the cache.
DeniedFlowDies ==
    (tfChanged = 0 /\ tfFlushes = 0 /\ tfFlushed) =>
        \A f \in TfFlows : tfEnd[f].pc = "open" => tfEnd[f].gen = tfGen \/ tfEnd[f].over

\* A session that stands is allowed by the ingress policy in force, on the
\* country it was last judged by, unless it was being let in when the policy
\* changed.
DeniedSessionIsGone ==
    \A s \in TfSessions : (tfEnd[s].pc = "open" /\ ~tfEnd[s].over) =>
        Allows(tfPolicy["ingress"], tfEnd[s].geo)

\* An address is only marked as being looked up while a lookup of it runs: a
\* cancelled check does not make its country unknown for good (geo.rs,
\* InflightGuard).
LookupNotPinned ==
    tfInflight => tfEnsure > 0 \/ \E e \in TfEnds : tfEnd[e].pc = "lookup"

\* After a change of policy what it denies is gone, in both directions, and a
\* lookup that was cancelled can be done again (firewall.rs, geo.rs,
\* egress_policy.rs).
DenialsReach == DeniedFlowDies /\ DeniedSessionIsGone /\ LookupNotPinned
=============================================================================
