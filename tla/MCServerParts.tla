--------------------------- MODULE MCServerParts ---------------------------
(***************************************************************************)
(* The parts of the server that share no state with one another,           *)
(* checked in one run: `part' says which of them a behaviour is about, the *)
(* others stay in their initial state.                                     *)
(***************************************************************************)
EXTENDS BackendSessions, Pause, LoadPressure, Admission, ServicesConfig,
        TrafficFilter, FilterRules, Accounts, Certificates, MCNetIdPool

VARIABLE part

MCPsContainer == [r \in PsReplicas |-> "c"]
PinnedPause ==
    /\ psPaused = [c \in PsContainers |-> FALSE]
    /\ psPausable = [r \in PsReplicas |-> FALSE]

MCAdPairs == {<<"p", "d">>}

MCCtUiNames == <<"e">>

Offer(svcs, links) == [svcs |-> svcs, links |-> links]
MCCfOffers ==
    {Offer([x |-> "http"], {}),
     Offer([x |-> "peer", y |-> "tcp"], {<<"x", "y">>}),
     Offer([z |-> "tcp", x |-> "slot"], {})}

MatchRule(field, condition, value) == [field |-> field, condition |-> condition, values |-> {value}]
PinnedRules ==
    /\ frPolicy = [kind |-> "block", groups |-> <<<<CHOOSE r \in FrRules : TRUE>>>>]
    /\ frCtx = [ip |-> "a", country |-> "x"]
MCFrRules == {MatchRule("country", "equal", "x"), MatchRule("country", "not_equal", "x"),
              MatchRule("dst_ip", "contains", "a"), MatchRule("dst_ip", "not_contains", "a")}

\* A token is a random value: which of the free ones it is makes no difference.
LeastToken ==
    \A t, x \in AcTokens :
        acTok[t].st = "none" /\ acTok'[t].st # "none" /\ x < t => acTok[x].st # "none"

\* Only the part a behaviour is about chooses its initial state.
MCInit ==
    /\ part \in {"backend", "pause", "load", "admission", "config", "filter", "rules", "accounts", "certs", "pool"}
    /\ BackendInit
    /\ PauseInit /\ (part = "pause" \/ PinnedPause)
    /\ PressureInit /\ (part = "load" \/ lpKind = "proxy")
    /\ AdmissionInit
    /\ ConfigInit
    /\ FilterInit
    /\ RulesInit /\ (part = "rules" \/ PinnedRules)
    /\ AccountsInit
    /\ CertificatesInit
    /\ PeakInit

MCNext ==
    /\ \/ part = "backend" /\ BackendNext
          /\ UNCHANGED <<psVars, lpVars, adVars, cfVars, tfVars, frVars, acVars, ctVars, poolVars, peak>>
       \/ part = "pause" /\ PauseNext
          /\ UNCHANGED <<bsVars, lpVars, adVars, cfVars, tfVars, frVars, acVars, ctVars, poolVars, peak>>
       \/ part = "load" /\ PressureNext
          /\ UNCHANGED <<bsVars, psVars, adVars, cfVars, tfVars, frVars, acVars, ctVars, poolVars, peak>>
       \/ part = "admission" /\ AdmissionNext
          /\ UNCHANGED <<bsVars, psVars, lpVars, cfVars, tfVars, frVars, acVars, ctVars, poolVars, peak>>
       \/ part = "config" /\ ConfigNext
          /\ UNCHANGED <<bsVars, psVars, lpVars, adVars, tfVars, frVars, acVars, ctVars, poolVars, peak>>
       \/ part = "filter" /\ FilterNext
          /\ UNCHANGED <<bsVars, psVars, lpVars, adVars, cfVars, frVars, acVars, ctVars, poolVars, peak>>
       \/ part = "rules" /\ RulesNext
          /\ UNCHANGED <<bsVars, psVars, lpVars, adVars, cfVars, tfVars, acVars, ctVars, poolVars, peak>>
       \/ part = "accounts" /\ AccountsNext /\ LeastToken
          /\ UNCHANGED <<bsVars, psVars, lpVars, adVars, cfVars, tfVars, frVars, ctVars, poolVars, peak>>
       \/ part = "certs" /\ CertificatesNext
          /\ UNCHANGED <<bsVars, psVars, lpVars, adVars, cfVars, tfVars, frVars, acVars, poolVars, peak>>
       \/ part = "pool" /\ PeakNext
          /\ UNCHANGED <<bsVars, psVars, lpVars, adVars, cfVars, tfVars, frVars, acVars, ctVars>>
    /\ UNCHANGED part

MCSpec == MCInit /\ [][MCNext]_<<bsVars, psVars, lpVars, adVars, cfVars, tfVars, frVars, acVars, ctVars, poolVars, peak, part>>
=============================================================================
