-------------------------- MODULE ClientParts_proof --------------------------
(***************************************************************************)
(* Theorems about the smaller parts of the client and the proxy: what a    *)
(* client installs on its host (HostEdges), the count of the proxy's       *)
(* connections (ProxyDoor), the encrypted endpoints (Endpoints) and what   *)
(* the proxy is told of the configuration (ProxyFeed).  The parts share no *)
(* state.                                                                  *)
(***************************************************************************)
EXTENDS HostEdges, ProxyDoor, Endpoints, ProxyFeed, FiniteSetTheorems, SequenceTheorems,
        WellFoundedInduction, TLAPS

-----------------------------------------------------------------------------
(* HostEdges.  The invariant says of each network what its handler may     *)
(* have left in the kernel and on record at every step (NetOk), so that a  *)
(* step of one network is a step of none of the others, and that of the    *)
(* networks a container has on this host at most one is not to be taken    *)
(* down.                                                                   *)

HeSteps == {"none", "list_install", "delete_install", "add_bypass", "add_route", "list_rollback", "delete_rollback",
            "install", "acked", "ready", "stands", "failed", "list_teardown", "delete_teardown", "rest", "gone", "stuck"}

\* What a handler of n may touch in the kernel.
Own(n) == {catch_all(n), snat(n), forward(n), endpoint(n)}
Rules == {bypass} \cup UNION {Own(n) : n \in HeNets}

HeTypes ==
    /\ heRole \in [HeNets -> HeRoles] /\ heStep \in [HeNets -> HeSteps]
    /\ heSent \subseteq HeNets /\ heStale \subseteq HeNets
    /\ heKernel \subseteq Rules
    /\ heSeen \in [HeNets -> SUBSET Rules]
    /\ heOk \in [HeNets -> BOOLEAN]
    /\ heRecord \subseteq HeNets
    /\ heLine \in HeNets \cup {Nobody}

\* FirewallPeers counts the networks it lists.
PeersCounted ==
    /\ hePeers \subseteq HeNets /\ IsFiniteSet(hePeers)
    /\ heRefs = Cardinality(hePeers) /\ heAllowed = (heRefs > 0)

\* The steps of each role, and when its record is there.
StepOk(n) ==
    /\ heStep[n] \in {"list_install", "delete_install", "add_bypass", "add_route", "list_rollback", "delete_rollback",
                      "list_teardown", "delete_teardown"} => heRole[n] = "steer"
    /\ heStep[n] = "install" => heRole[n] # "steer"
    /\ n \in heRecord => \/ heStep[n] \in {"failed", "acked", "ready", "stands"}
                         \/ heStep[n] = "rest" /\ heRole[n] = "hosts"
    /\ heStep[n] \in {"acked", "ready", "stands"} => n \in heRecord
    /\ heStep[n] \notin {"none", "gone", "stuck"} => n \in hePeers

\* What is in the kernel is on record, or was left by a process that died, or
\* its removal is under way or failed.
RulesOk(n) ==
    /\ catch_all(n) \in heKernel \/ snat(n) \in heKernel =>
          /\ heRole[n] = "steer"
          /\ \/ heStep[n] \in {"list_rollback", "delete_rollback", "list_teardown", "delete_teardown", "stuck"}
             \/ n \in heStale \cup heRecord
             \/ heStep[n] = "rest" /\ ~heOk[n]
    /\ heSeen[n] \subseteq {bypass, catch_all(n)}
    /\ heStep[n] \in {"delete_rollback", "delete_teardown"} /\ catch_all(n) \in heKernel => catch_all(n) \in heSeen[n]
    /\ forward(n) \in heKernel =>
          /\ heRole[n] = "forward"
          /\ n \in heStale \cup heRecord \/ heStep[n] = "stuck" \/ (heStep[n] = "rest" /\ ~heOk[n])
    /\ endpoint(n) \in heKernel => heStep[n] \notin {"none", "gone"}
    /\ heRole[n] = "steer" /\ heStep[n] \in {"acked", "ready", "stands"} => {catch_all(n), snat(n)} \subseteq heKernel

\* The name is of a network on record, or its line was left or could not be
\* removed.
LineOk(n) == heLine = n => heRole[n] = "hosts" /\ (n \in heStale \cup heRecord \/ heStep[n] = "stuck")

NetOk(n) == StepOk(n) /\ RulesOk(n) /\ LineOk(n)

\* Networks of the container that the server has not asked to take down.
Wanted(n) == heStep[n] \notin {"none", "gone"} /\ n \notin heSent
OneWanted == \A n, m \in HeNets : Wanted(n) /\ Wanted(m) => n = m

HostInv == HeTypes /\ PeersCounted /\ (\A n \in HeNets : NetOk(n)) /\ OneWanted /\ NameResolves

-----------------------------------------------------------------------------
(* What one network does leaves the others alone *)

LEMMA RuleFacts ==
    ASSUME NEW n \in HeNets
    PROVE  /\ bypass \notin Own(n) /\ Own(n) \subseteq Rules /\ bypass \in Rules
           /\ catch_all(n) \notin {snat(n), forward(n), endpoint(n)}
           /\ snat(n) \notin {forward(n), endpoint(n)}
           /\ forward(n) # endpoint(n)
           /\ \A m \in HeNets \ {n} : Own(m) \cap (Own(n) \cup {bypass}) = {}
  <1>1. /\ bypass \notin Own(n)
        /\ catch_all(n) \notin {snat(n), forward(n), endpoint(n)}
        /\ snat(n) \notin {forward(n), endpoint(n)}
        /\ forward(n) # endpoint(n)
    BY DEF bypass, Own, catch_all, snat, forward, endpoint
  <1>2. Own(n) \subseteq Rules /\ bypass \in Rules
    BY DEF Rules
  <1>3. ASSUME NEW m \in HeNets \ {n} PROVE Own(m) \cap (Own(n) \cup {bypass}) = {}
    BY DEF bypass, Own, catch_all, snat, forward, endpoint
  <1>. QED BY <1>1, <1>2, <1>3

\* A step of the handler of n.
StepOf(n) ==
    /\ heRole' = heRole
    /\ \A m \in HeNets \ {n} :
          /\ heStep'[m] = heStep[m] /\ heSeen'[m] = heSeen[m] /\ heOk'[m] = heOk[m]
          /\ m \in heRecord' <=> m \in heRecord
          /\ m \in hePeers' <=> m \in hePeers
          /\ m \in heStale' <=> m \in heStale
    /\ \A o : o \notin Own(n) \cup {bypass} => (o \in heKernel' <=> o \in heKernel)
    /\ heLine' \in {heLine, n, Nobody}

LEMMA OthersKept ==
    ASSUME NEW n \in HeNets, NEW m \in HeNets \ {n}, NetOk(m), StepOf(n)
    PROVE  NetOk(m)'
  <1>1. /\ heRole'[m] = heRole[m] /\ heStep'[m] = heStep[m] /\ heSeen'[m] = heSeen[m] /\ heOk'[m] = heOk[m]
        /\ m \in heRecord' <=> m \in heRecord
        /\ m \in hePeers' <=> m \in hePeers
        /\ m \in heStale' <=> m \in heStale
    BY DEF StepOf
  <1>2. \A o \in Own(m) : o \in heKernel' <=> o \in heKernel
    BY RuleFacts DEF StepOf
  <1>3. /\ catch_all(m) \in heKernel' <=> catch_all(m) \in heKernel
        /\ snat(m) \in heKernel' <=> snat(m) \in heKernel
        /\ forward(m) \in heKernel' <=> forward(m) \in heKernel
        /\ endpoint(m) \in heKernel' <=> endpoint(m) \in heKernel
    BY <1>2 DEF Own
  <1>4. heLine' = m => heLine = m
    BY HeAssumption DEF StepOf
  <1>5. StepOk(m)'
    BY <1>1 DEF NetOk, StepOk
  <1>6. RulesOk(m)'
    BY <1>1, <1>3 DEF NetOk, RulesOk
  <1>7. LineOk(m)'
    BY <1>1, <1>4 DEF NetOk, LineOk
  <1>. QED BY <1>5, <1>6, <1>7 DEF NetOk

\* The rest of the invariant, for a step that asks for nothing new.
LEMMA HandlerStep ==
    ASSUME HostInv, NEW n \in HeNets, StepOf(n), HeTypes', PeersCounted', NetOk(n)', NameResolves',
           heSent' = heSent, heStep[n] \notin {"none", "gone"}
    PROVE  HostInv'
  <1>1. \A m \in HeNets : NetOk(m)'
    <2> SUFFICES ASSUME NEW m \in HeNets PROVE NetOk(m)'
      OBVIOUS
    <2>1. CASE m = n
      BY <2>1
    <2>2. CASE m # n
      BY <2>2, OthersKept DEF HostInv
    <2>. QED BY <2>1, <2>2
  <1>2. \A m \in HeNets : heStep'[m] \notin {"none", "gone"} => heStep[m] \notin {"none", "gone"}
    BY DEF StepOf
  <1>3. OneWanted'
    BY <1>2 DEF HostInv, OneWanted, Wanted
  <1>. QED BY <1>1, <1>3 DEF HostInv

\* No name is published, and no line of a network that stands is removed.
LEMMA NameKept ==
    ASSUME NameResolves, heRole' = heRole, NEW n \in HeNets,
           heSent \ {n} \subseteq heSent', heOverwritten \ {n} \subseteq heOverwritten',
           \A m \in HeNets \ {n} : heStep'[m] = heStep[m],
           heRole[n] = "hosts" /\ heStep'[n] = "stands" => heLine' = n,
           heLine' = heLine \/ heLine = n
    PROVE  NameResolves'
  BY DEF NameResolves

LEMMA Went ==
    ASSUME HeTypes, NEW n \in HeNets, NEW to \in HeSteps, Goes(n, to)
    PROVE  /\ heStep' \in [HeNets -> HeSteps] /\ heStep'[n] = to
           /\ \A m \in HeNets \ {n} : heStep'[m] = heStep[m]
  BY DEF HeTypes, Goes

\* A network the handler of which publishes late has replaced, or is, the one wanted.
LEMMA Published ==
    ASSUME HostInv, NEW n \in HeNets, Publish(n), heRole' = heRole, heSent' = heSent,
           heStep[n] \notin {"none", "gone"}, \A m \in HeNets \ {n} : heStep'[m] = heStep[m]
    PROVE  heLine' = n /\ NameResolves'
  <1>1. heLine' = n /\ heOverwritten' = IF n \in heSent THEN heOverwritten \cup Others(n) ELSE heOverwritten
    BY DEF Publish, EditLine
  <1>2. ASSUME NEW m \in HeNets, heRole'[m] = "hosts", heStep'[m] = "stands", m \notin heSent' \cup heOverwritten'
        PROVE  heLine' = m
    <2> SUFFICES ASSUME m # n PROVE FALSE
      BY <1>1
    <2>1. heStep[m] = "stands" /\ m \notin heSent /\ m \notin heOverwritten'
      BY <1>2
    <2>2. CASE n \in heSent
      <3>1. m \in Others(n)
        BY <2>1 DEF Others
      <3>. QED BY <1>1, <2>1, <2>2, <3>1
    <2>3. CASE n \notin heSent
      BY <2>1, <2>3 DEF HostInv, OneWanted, Wanted
    <2>. QED BY <2>2, <2>3
  <1>. QED BY <1>1, <1>2 DEF NameResolves

-----------------------------------------------------------------------------
(* Setup *)

LEMMA PeersAdded ==
    ASSUME PeersCounted, NEW n \in HeNets, PeersAdd(n)
    PROVE  PeersCounted' /\ hePeers' = hePeers \cup {n}
  <1>1. hePeers' = hePeers \cup {n} /\ IsFiniteSet(hePeers') /\ hePeers' \subseteq HeNets
    BY FS_AddElement DEF PeersCounted, PeersAdd
  <1>2. Cardinality(hePeers') = IF n \in hePeers THEN Cardinality(hePeers) ELSE Cardinality(hePeers) + 1
    BY <1>1, FS_AddElement DEF PeersCounted
  <1>. QED BY <1>1, <1>2 DEF PeersCounted, PeersAdd

LEMMA PeersRemoved ==
    ASSUME PeersCounted, NEW n \in HeNets, PeersRemove(n)
    PROVE  PeersCounted' /\ hePeers' = hePeers \ {n}
  <1>1. hePeers' = hePeers \ {n} /\ IsFiniteSet(hePeers') /\ hePeers' \subseteq HeNets
    BY FS_RemoveElement DEF PeersCounted, PeersRemove
  <1>2. Cardinality(hePeers') = IF n \in hePeers THEN Cardinality(hePeers) - 1 ELSE Cardinality(hePeers)
    BY <1>1, FS_RemoveElement DEF PeersCounted
  <1>. QED BY <1>1, <1>2 DEF PeersCounted, PeersRemove

\* An allowance is there as long as somebody is listed.
LEMMA ListedAllowed ==
    ASSUME PeersCounted, NEW n \in hePeers
    PROVE  heAllowed
  <1>1. IsFiniteSet(hePeers) /\ hePeers # {}
    BY DEF PeersCounted
  <1>2. Cardinality(hePeers) \in Nat /\ Cardinality(hePeers) # 0
    BY <1>1, FS_CardinalityType, FS_EmptySet
  <1>3. heRefs > 0
    BY <1>2 DEF PeersCounted
  <1>4. heAllowed = (heRefs > 0)
    BY DEF PeersCounted
  <1>. QED BY <1>3, <1>4

LEMMA SetupArrivesStep ==
    ASSUME HostInv, NEW n \in HeNets, NEW ok \in BOOLEAN, SetupArrives(n, ok)
    PROVE  HostInv'
  <1>1. HeTypes /\ PeersCounted /\ NetOk(n) /\ OneWanted /\ NameResolves
    BY DEF HostInv
  <1> DEFINE to == IF ok THEN IF heRole[n] = "steer" THEN "list_install" ELSE "install" ELSE "failed"
  <1>2. /\ heStep[n] = "none" /\ PeersAdd(n) /\ Goes(n, to)
        /\ \A m \in HeNets \ {n} : heStep[m] \in {"none", "gone"} \/ m \in heSent
        /\ heOk' = [heOk EXCEPT ![n] = TRUE]
        /\ heOverwritten' = heOverwritten \ {n}
        /\ heKernel' = IF ok THEN heKernel \cup {endpoint(n)} ELSE heKernel
        /\ UNCHANGED <<heRole, heSent, heSeen, heRecord, heLine, heStale>>
    BY DEF SetupArrives
  <1>3. to \in HeSteps /\ to \notin {"none", "gone", "stuck", "stands"}
    BY DEF HeSteps
  <1>4. /\ heStep' \in [HeNets -> HeSteps] /\ heStep'[n] = to
        /\ \A m \in HeNets \ {n} : heStep'[m] = heStep[m]
    BY <1>1, <1>2, <1>3, Went
  <1>5. PeersCounted' /\ hePeers' = hePeers \cup {n}
    BY <1>1, <1>2, PeersAdded
  <1>6. /\ heOk' \in [HeNets -> BOOLEAN] /\ \A m \in HeNets \ {n} : heOk'[m] = heOk[m]
    BY <1>1, <1>2 DEF HeTypes
  <1>7. /\ heKernel' \subseteq Rules
        /\ \A o : o # endpoint(n) => (o \in heKernel' <=> o \in heKernel)
    BY <1>1, <1>2, RuleFacts DEF HeTypes, Own
  <1>8. HeTypes'
    BY <1>1, <1>2, <1>4, <1>6, <1>7 DEF HeTypes
  <1>9. StepOf(n)
    <2>1. \A o : o \notin Own(n) \cup {bypass} => (o \in heKernel' <=> o \in heKernel)
      BY <1>7 DEF Own
    <2>. QED BY <1>2, <1>4, <1>5, <1>6, <2>1 DEF StepOf
  <1>10. NetOk(n)'
    <2>1. /\ n \notin heRecord
          /\ heLine = n => heRole[n] = "hosts" /\ n \in heStale
          /\ forward(n) \in heKernel => heRole[n] = "forward" /\ n \in heStale
          /\ catch_all(n) \in heKernel \/ snat(n) \in heKernel => heRole[n] = "steer" /\ n \in heStale
          /\ heSeen[n] \subseteq {bypass, catch_all(n)}
      BY <1>1, <1>2 DEF NetOk, StepOk, RulesOk, LineOk
    <2>2. /\ catch_all(n) \in heKernel' => catch_all(n) \in heKernel
          /\ snat(n) \in heKernel' => snat(n) \in heKernel
          /\ forward(n) \in heKernel' => forward(n) \in heKernel
      BY <1>7, <2>1, RuleFacts
    <2>3. StepOk(n)'
      BY <1>2, <1>3, <1>4, <1>5, <2>1 DEF StepOk
    <2>4. RulesOk(n)'
      BY <1>2, <1>3, <1>4, <2>1, <2>2 DEF RulesOk
    <2>. QED BY <1>2, <2>1, <2>3, <2>4 DEF NetOk, LineOk
  <1>11. \A m \in HeNets : NetOk(m)'
    <2>1. ASSUME NEW m \in HeNets, m # n PROVE NetOk(m)'
      BY <1>9, <2>1, OthersKept DEF HostInv
    <2>. QED BY <1>10, <2>1
  <1>12. OneWanted'
    BY <1>1, <1>2, <1>4 DEF OneWanted, Wanted
  <1>13. NameResolves'
    BY <1>1, <1>2, <1>3, <1>4, NameKept
  <1>. QED BY <1>5, <1>8, <1>11, <1>12, <1>13 DEF HostInv

\* The stages of remove_steer.
LEMMA Stages ==
    \A why \in {"install", "rollback", "teardown"} :
        /\ Listing[why] \in {"list_install", "list_rollback", "list_teardown"}
        /\ Deleting[why] \in {"delete_install", "delete_rollback", "delete_teardown"}
        /\ Listing[why] = "list_teardown" <=> why = "teardown"
        /\ Deleting[why] = "delete_teardown" <=> why = "teardown"
        /\ Listing[why] = "list_install" <=> why = "install"
        /\ Deleting[why] = "delete_install" <=> why = "install"
  BY DEF Listing, Deleting

\* A step that touches neither the peers nor the name, and does not end in "stands".
LEMMA QuietStep ==
    ASSUME HostInv, NEW n \in HeNets, NEW to \in HeSteps \ {"stands"}, Goes(n, to), heStep[n] \notin {"none", "gone"},
           heKernel' \subseteq Rules, \A o : o \notin Own(n) \cup {bypass} => (o \in heKernel' <=> o \in heKernel),
           heSeen' \in [HeNets -> SUBSET Rules], heOk' \in [HeNets -> BOOLEAN],
           \A m \in HeNets \ {n} : heSeen'[m] = heSeen[m] /\ heOk'[m] = heOk[m] /\ (m \in heRecord' <=> m \in heRecord),
           heRecord' \subseteq HeNets, heStale' \subseteq heStale, heStale \ {n} \subseteq heStale',
           heLine' = heLine, hePeers' = hePeers, heRefs' = heRefs, heAllowed' = heAllowed,
           heRole' = heRole, heSent' = heSent, heOverwritten' = heOverwritten,
           StepOk(n)', RulesOk(n)', LineOk(n)'
    PROVE  HostInv'
  <1>1. HeTypes /\ PeersCounted /\ NetOk(n) /\ OneWanted /\ NameResolves
    BY DEF HostInv
  <1>2. /\ heStep' \in [HeNets -> HeSteps] /\ heStep'[n] = to
        /\ \A m \in HeNets \ {n} : heStep'[m] = heStep[m]
    BY <1>1, Went
  <1>3. HeTypes'
    BY <1>1, <1>2 DEF HeTypes
  <1>4. PeersCounted'
    BY <1>1 DEF PeersCounted
  <1>5. StepOf(n)
    BY <1>2 DEF StepOf
  <1>6. NameResolves'
    BY <1>1, <1>2, NameKept
  <1>. QED BY <1>3, <1>4, <1>5, <1>6, HandlerStep DEF NetOk

LEMMA ListRulesStep ==
    ASSUME HostInv, NEW n \in HeNets, NEW ok \in BOOLEAN, ListRules(n, ok)
    PROVE  HostInv'
  <1>1. HeTypes /\ PeersCounted /\ StepOk(n) /\ RulesOk(n) /\ LineOk(n)
    BY DEF HostInv, NetOk
  <1>2. PICK why \in {"install", "rollback", "teardown"} :
          /\ heStep[n] = Listing[why]
          /\ heSeen' = [heSeen EXCEPT ![n] = IF ok THEN Owned(n) ELSE {}]
          /\ heOk' = [heOk EXCEPT ![n] = ok]
          /\ IF ok THEN Goes(n, Deleting[why]) /\ heRecord' = heRecord
             ELSE IF why = "teardown" THEN Goes(n, "rest") /\ heRecord' = heRecord
             ELSE Goes(n, "failed") /\ heRecord' = heRecord \cup {n}
    BY DEF ListRules
  <1>3. /\ UNCHANGED <<heRole, heSent, heKernel, heLine, heOverwritten>> /\ UNCHANGED <<hePeers, heRefs, heAllowed>>
        /\ heStale' = IF n \in heRecord' THEN heStale \ {n} ELSE heStale
    BY DEF ListRules, peerVars, TakesOver
  <1> DEFINE to == IF ok THEN Deleting[why] ELSE IF why = "teardown" THEN "rest" ELSE "failed"
  <1>4. Goes(n, to) /\ heRecord' = IF ~ok /\ why # "teardown" THEN heRecord \cup {n} ELSE heRecord
    BY <1>2
  <1>5. /\ heStep[n] \in {"list_install", "list_rollback", "list_teardown"} /\ (heStep[n] = "list_teardown" <=> why = "teardown")
        /\ heStep[n] = "list_install" <=> why = "install"
        /\ to \in {"delete_install", "delete_rollback", "delete_teardown", "rest", "failed"}
        /\ to = "delete_install" => why = "install"
        /\ to = "rest" => ~ok /\ why = "teardown"
        /\ to = "failed" => ~ok /\ why # "teardown"
        /\ to \in {"delete_install", "delete_rollback", "delete_teardown"} => ok
        /\ to \in HeSteps \ {"stands"}
    BY <1>2, Stages DEF HeSteps
  <1> HIDE DEF to
  <1>6. heStep'[n] = to
    BY <1>1, <1>4, <1>5, Went
  <1>7. /\ heSeen' \in [HeNets -> SUBSET Rules] /\ heOk' \in [HeNets -> BOOLEAN]
        /\ heSeen'[n] = (IF ok THEN Owned(n) ELSE {}) /\ heOk'[n] = ok
        /\ \A m \in HeNets \ {n} : heSeen'[m] = heSeen[m] /\ heOk'[m] = heOk[m]
    <2>1. Owned(n) \subseteq Rules
      BY <1>1 DEF HeTypes, Owned
    <2>. QED BY <1>1, <1>2, <2>1 DEF HeTypes
  <1>8. heRole[n] = "steer" /\ n \in hePeers /\ n \notin heRecord
    BY <1>1, <1>5 DEF StepOk
  <1>9. StepOk(n)'
    BY <1>3, <1>4, <1>5, <1>6, <1>8 DEF StepOk
  <1>10. RulesOk(n)'
    <2>1. Owned(n) = heKernel \cap {bypass, catch_all(n)}
      BY DEF Owned
    <2>2. catch_all(n) \in heKernel \/ snat(n) \in heKernel => why # "install" \/ n \in heStale
      BY <1>1, <1>5, <1>8 DEF RulesOk
    <2>3. forward(n) \notin heKernel
      BY <1>1, <1>8 DEF RulesOk
    <2>4. catch_all(n) \in heKernel \/ snat(n) \in heKernel =>
            \/ to \in {"delete_rollback", "delete_teardown"}
            \/ n \in heStale' \cup heRecord'
            \/ to = "rest" /\ ~ok
      BY <1>3, <1>4, <1>5, <2>2
    <2>. QED BY <1>3, <1>5, <1>6, <1>7, <1>8, <2>1, <2>3, <2>4 DEF RulesOk
  <1>11. LineOk(n)'
    BY <1>1, <1>3, <1>8 DEF LineOk
  <1>12. heRecord' \subseteq HeNets /\ \A m \in HeNets \ {n} : m \in heRecord' <=> m \in heRecord
    BY <1>1, <1>4 DEF HeTypes
  <1>13. heStep[n] \notin {"none", "gone"} /\ heKernel' \subseteq Rules
    BY <1>1, <1>3, <1>5 DEF HeTypes
  <1>. QED BY <1>3, <1>4, <1>5, <1>7, <1>9, <1>10, <1>11, <1>12, <1>13, QuietStep

LEMMA DeleteRulesStep ==
    ASSUME HostInv, NEW n \in HeNets, DeleteRules(n)
    PROVE  HostInv'
  <1>1. HeTypes /\ PeersCounted /\ StepOk(n) /\ RulesOk(n) /\ LineOk(n)
    BY DEF HostInv, NetOk
  <1>2. PICK why \in {"install", "rollback", "teardown"}, left \in SUBSET (heSeen[n] \cup {snat(n)}) :
          /\ heStep[n] = Deleting[why]
          /\ heKernel' = heKernel \ ((heSeen[n] \cup {snat(n)}) \ left)
          /\ heOk' = [heOk EXCEPT ![n] = (left = {} /\ heSeen[n] \subseteq heKernel)]
          /\ IF why = "teardown" THEN Goes(n, "rest") /\ heRecord' = heRecord
             ELSE IF why = "install" /\ left = {} /\ heSeen[n] \subseteq heKernel
                  THEN Goes(n, "add_bypass") /\ heRecord' = heRecord
             ELSE Goes(n, "failed") /\ heRecord' = heRecord \cup {n}
          /\ heSeen' = [heSeen EXCEPT ![n] = {}]
    BY DEF DeleteRules
  <1>3. /\ UNCHANGED <<heRole, heSent, heLine, heOverwritten>> /\ UNCHANGED <<hePeers, heRefs, heAllowed>>
        /\ heStale' = IF n \in heRecord' THEN heStale \ {n} ELSE heStale
    BY DEF DeleteRules, peerVars, TakesOver
  <1> DEFINE ok == left = {} /\ heSeen[n] \subseteq heKernel
  <1> DEFINE to == IF why = "teardown" THEN "rest" ELSE IF why = "install" /\ ok THEN "add_bypass" ELSE "failed"
  <1>4. /\ Goes(n, to) /\ heRecord' = (IF to = "failed" THEN heRecord \cup {n} ELSE heRecord)
        /\ heOk' = [heOk EXCEPT ![n] = ok] /\ ok \in BOOLEAN /\ (ok => left = {})
    BY <1>2
  <1>5. /\ heStep[n] \in {"delete_install", "delete_rollback", "delete_teardown"}
        /\ heStep[n] = "delete_teardown" <=> why = "teardown"
        /\ heStep[n] = "delete_install" <=> why = "install"
        /\ to \in {"rest", "add_bypass", "failed"} /\ to \in HeSteps \ {"stands"}
        /\ to = "rest" <=> why = "teardown"
        /\ to = "add_bypass" => why = "install"
    BY <1>2, Stages DEF HeSteps
  <1> HIDE DEF to, ok
  <1>6. heStep'[n] = to
    BY <1>1, <1>4, <1>5, Went
  <1>7. /\ heSeen' \in [HeNets -> SUBSET Rules] /\ heOk' \in [HeNets -> BOOLEAN]
        /\ heSeen'[n] = {} /\ heOk'[n] = ok
        /\ \A m \in HeNets \ {n} : heSeen'[m] = heSeen[m] /\ heOk'[m] = heOk[m]
    BY <1>1, <1>2, <1>4 DEF HeTypes
  <1>8. heRole[n] = "steer" /\ n \in hePeers /\ n \notin heRecord
    BY <1>1, <1>5 DEF StepOk
  <1>9. /\ heKernel' \subseteq heKernel
        /\ \A o : o \notin {bypass, catch_all(n), snat(n)} => (o \in heKernel' <=> o \in heKernel)
        /\ snat(n) \in heKernel' => snat(n) \in left
        /\ catch_all(n) \in heKernel' /\ catch_all(n) \in heSeen[n] => catch_all(n) \in left
    <2>1. heSeen[n] \subseteq {bypass, catch_all(n)}
      BY <1>1 DEF RulesOk
    <2>. QED BY <1>2, <2>1
  <1>10. StepOk(n)'
    BY <1>3, <1>4, <1>5, <1>6, <1>8 DEF StepOk
  <1>11. RulesOk(n)'
    <2>1. catch_all(n) \in heKernel \/ snat(n) \in heKernel => why # "install" \/ n \in heStale
      BY <1>1, <1>5, <1>8 DEF RulesOk
    <2>2. why = "teardown" /\ catch_all(n) \in heKernel' => catch_all(n) \in left
      BY <1>1, <1>5, <1>9 DEF RulesOk
    <2>3. catch_all(n) \in heKernel' \/ snat(n) \in heKernel' => n \in heStale' \cup heRecord' \/ (to = "rest" /\ ~ok)
      BY <1>3, <1>4, <1>5, <1>9, <2>1, <2>2
    <2>4. forward(n) \notin heKernel'
      BY <1>1, <1>8, <1>9 DEF RulesOk
    <2>. QED BY <1>3, <1>5, <1>6, <1>7, <1>8, <2>3, <2>4 DEF RulesOk
  <1>12. LineOk(n)'
    BY <1>1, <1>3, <1>8 DEF LineOk
  <1>13. heRecord' \subseteq HeNets /\ \A m \in HeNets \ {n} : m \in heRecord' <=> m \in heRecord
    BY <1>1, <1>4 DEF HeTypes
  <1>14. heStep[n] \notin {"none", "gone"} /\ heKernel' \subseteq Rules
    BY <1>1, <1>5, <1>9 DEF HeTypes
  <1>15. \A o : o \notin Own(n) \cup {bypass} => (o \in heKernel' <=> o \in heKernel)
    BY <1>9 DEF Own
  <1>. QED BY <1>3, <1>4, <1>5, <1>7, <1>10, <1>11, <1>12, <1>13, <1>14, <1>15, QuietStep

-----------------------------------------------------------------------------
(* install_steer, the forwards and the mapping *)

LEMMA AddBypassStep ==
    ASSUME HostInv, NEW n \in HeNets, NEW ok \in BOOLEAN, AddBypass(n, ok)
    PROVE  HostInv'
  <1>1. HeTypes /\ PeersCounted /\ StepOk(n) /\ RulesOk(n) /\ LineOk(n)
    BY DEF HostInv, NetOk
  <1>2. /\ heStep[n] = "add_bypass" /\ Goes(n, "add_route")
        /\ heKernel' = (IF ok THEN heKernel \cup {bypass} ELSE heKernel)
        /\ heOk' = [heOk EXCEPT ![n] = ok /\ bypass \notin heKernel]
        /\ UNCHANGED <<heRole, heSent, heSeen, heRecord, heLine, heStale, heOverwritten>>
        /\ UNCHANGED <<hePeers, heRefs, heAllowed>>
    BY DEF AddBypass, peerVars
  <1>3. "add_route" \in HeSteps \ {"stands"}
    BY DEF HeSteps
  <1>4. heStep'[n] = "add_route"
    BY <1>1, <1>2, <1>3, Went
  <1>5. heOk' \in [HeNets -> BOOLEAN] /\ \A m \in HeNets \ {n} : heOk'[m] = heOk[m]
    BY <1>1, <1>2 DEF HeTypes
  <1>6. heKernel' \subseteq Rules /\ \A o : o # bypass => (o \in heKernel' <=> o \in heKernel)
    BY <1>1, <1>2, RuleFacts DEF HeTypes
  <1>7. /\ catch_all(n) # bypass /\ snat(n) # bypass /\ forward(n) # bypass /\ endpoint(n) # bypass
    BY RuleFacts DEF Own
  <1>8. heRole[n] = "steer" /\ n \in hePeers /\ n \notin heRecord
    BY <1>1, <1>2 DEF StepOk
  <1>9. StepOk(n)'
    BY <1>2, <1>4, <1>8 DEF StepOk
  <1>10. RulesOk(n)'
    <2>1. /\ catch_all(n) \in heKernel' \/ snat(n) \in heKernel' => n \in heStale
          /\ forward(n) \notin heKernel'
      BY <1>1, <1>2, <1>6, <1>7, <1>8 DEF RulesOk
    <2>2. heSeen[n] \subseteq {bypass, catch_all(n)}
      BY <1>1 DEF RulesOk
    <2>3. endpoint(n) \in heKernel' <=> endpoint(n) \in heKernel
      BY <1>6, <1>7
    <2>. QED BY <1>2, <1>4, <1>8, <2>1, <2>2, <2>3 DEF RulesOk
  <1>11. LineOk(n)'
    BY <1>1, <1>2, <1>8 DEF LineOk
  <1>12. heSeen' \in [HeNets -> SUBSET Rules] /\ heRecord' \subseteq HeNets /\ heStep[n] \notin {"none", "gone"}
    BY <1>1, <1>2 DEF HeTypes
  <1>. QED BY <1>2, <1>3, <1>5, <1>6, <1>9, <1>10, <1>11, <1>12, QuietStep

LEMMA AddRouteStep ==
    ASSUME HostInv, NEW n \in HeNets, AddRoute(n)
    PROVE  HostInv'
  <1>1. HeTypes /\ PeersCounted /\ StepOk(n) /\ RulesOk(n) /\ LineOk(n)
    BY DEF HostInv, NetOk
  <1>2. PICK added \in SUBSET {catch_all(n), snat(n)} :
          /\ heStep[n] = "add_route"
          /\ heKernel' = heKernel \cup added
          /\ IF heOk[n] /\ added = {catch_all(n), snat(n)}
             THEN Goes(n, "acked") /\ heRecord' = heRecord \cup {n}
             ELSE Goes(n, "list_rollback") /\ heRecord' = heRecord
    BY DEF AddRoute, Recorded
  <1>3. /\ UNCHANGED <<heRole, heSent, heSeen, heOk, heLine, heOverwritten>>
        /\ UNCHANGED <<hePeers, heRefs, heAllowed>>
        /\ heStale' = IF n \in heRecord' THEN heStale \ {n} ELSE heStale
    BY DEF AddRoute, peerVars, TakesOver
  <1> DEFINE to == IF heOk[n] /\ added = {catch_all(n), snat(n)} THEN "acked" ELSE "list_rollback"
  <1>4. /\ Goes(n, to) /\ heRecord' = (IF to = "acked" THEN heRecord \cup {n} ELSE heRecord)
        /\ to = "acked" => added = {catch_all(n), snat(n)}
        /\ to \in {"acked", "list_rollback"} /\ to \in HeSteps \ {"stands"}
    BY <1>2 DEF HeSteps
  <1> HIDE DEF to
  <1>5. heStep'[n] = to
    BY <1>1, <1>4, Went
  <1>6. heRole[n] = "steer" /\ n \in hePeers /\ n \notin heRecord
    BY <1>1, <1>2 DEF StepOk
  <1>7. /\ heKernel' \subseteq Rules
        /\ \A o : o \notin {catch_all(n), snat(n)} => (o \in heKernel' <=> o \in heKernel)
        /\ \A o : o \notin Own(n) \cup {bypass} => (o \in heKernel' <=> o \in heKernel)
    BY <1>1, <1>2, RuleFacts DEF HeTypes, Own
  <1>8. StepOk(n)'
    BY <1>3, <1>4, <1>5, <1>6 DEF StepOk
  <1>9. RulesOk(n)'
    <2>1. forward(n) \notin heKernel'
      BY <1>1, <1>6, <1>7, RuleFacts DEF RulesOk
    <2>2. heSeen[n] \subseteq {bypass, catch_all(n)}
      BY <1>1 DEF RulesOk
    <2>3. to = "acked" => {catch_all(n), snat(n)} \subseteq heKernel'
      BY <1>2, <1>4
    <2>4. n \in heRecord' \/ to = "list_rollback"
      BY <1>4
    <2>. QED BY <1>3, <1>4, <1>5, <1>6, <2>1, <2>2, <2>3, <2>4 DEF RulesOk
  <1>10. LineOk(n)'
    BY <1>1, <1>3, <1>6 DEF LineOk
  <1>11. /\ heRecord' \subseteq HeNets /\ \A m \in HeNets \ {n} : m \in heRecord' <=> m \in heRecord
         /\ heSeen' \in [HeNets -> SUBSET Rules] /\ heOk' \in [HeNets -> BOOLEAN] /\ heStep[n] \notin {"none", "gone"}
    BY <1>1, <1>2, <1>3, <1>4 DEF HeTypes
  <1>. QED BY <1>3, <1>4, <1>7, <1>8, <1>9, <1>10, <1>11, QuietStep

LEMMA InstallRoleStep ==
    ASSUME HostInv, NEW n \in HeNets, NEW ok \in BOOLEAN, InstallRole(n, ok)
    PROVE  HostInv'
  <1>1. HeTypes /\ PeersCounted /\ StepOk(n) /\ RulesOk(n) /\ LineOk(n) /\ NameResolves
    BY DEF HostInv, NetOk
  <1> DEFINE to == IF ok THEN "acked" ELSE "failed"
  <1>2. /\ heStep[n] = "install" /\ heRecord' = heRecord \cup {n} /\ Goes(n, to)
        /\ UNCHANGED <<heRole, heSent, heSeen, heOk>> /\ UNCHANGED <<hePeers, heRefs, heAllowed>>
        /\ to \in {"acked", "failed"} /\ to \in HeSteps \ {"stands"}
        /\ heStale' = heStale \ {n}
    BY DEF InstallRole, Recorded, peerVars, HeSteps, TakesOver
  <1> HIDE DEF to
  <1>3. /\ heStep' \in [HeNets -> HeSteps] /\ heStep'[n] = to
        /\ \A m \in HeNets \ {n} : heStep'[m] = heStep[m]
    BY <1>1, <1>2, Went
  <1>4. heRole[n] \in {"forward", "hosts"} /\ n \in hePeers
    BY <1>1, <1>2 DEF StepOk, HeTypes, HeRoles
  <1>5. /\ heRecord' \subseteq HeNets /\ \A m \in HeNets \ {n} : m \in heRecord' <=> m \in heRecord
        /\ heSeen' \in [HeNets -> SUBSET Rules] /\ heOk' \in [HeNets -> BOOLEAN] /\ heStep[n] \notin {"none", "gone"}
    BY <1>1, <1>2 DEF HeTypes
  <1>6. StepOk(n)'
    BY <1>2, <1>3, <1>4 DEF StepOk
  <1>7. catch_all(n) \notin heKernel /\ snat(n) \notin heKernel /\ heSeen[n] \subseteq {bypass, catch_all(n)}
    BY <1>1, <1>4 DEF RulesOk
  <1>8. CASE heRole[n] = "forward"
    <2>1. InstallForward(n, ok) /\ UNCHANGED <<heLine, heOverwritten>>
      BY <1>8 DEF InstallRole
    <2>2. /\ heStale' = heStale \ {n} /\ heKernel \subseteq heKernel' /\ heKernel' \subseteq heKernel \cup {forward(n)}
      BY <1>2, <2>1 DEF InstallForward
    <2>3. heKernel' \subseteq Rules /\ \A o : o \notin Own(n) \cup {bypass} => (o \in heKernel' <=> o \in heKernel)
      BY <1>1, <2>2, RuleFacts DEF HeTypes, Own
    <2>4. RulesOk(n)'
      <3>1. catch_all(n) \notin heKernel' /\ snat(n) \notin heKernel'
        BY <1>7, <2>2, RuleFacts
      <3>. QED BY <1>2, <1>3, <1>7, <1>8, <3>1 DEF RulesOk
    <2>5. LineOk(n)'
      BY <1>1, <1>2, <1>8, <2>1 DEF LineOk
    <2>6. heStale' \subseteq heStale /\ heStale \ {n} \subseteq heStale'
      BY <2>2
    <2>. QED BY <1>2, <1>5, <1>6, <2>1, <2>3, <2>4, <2>5, <2>6, QuietStep
  <1>9. CASE heRole[n] = "hosts"
    <2>1. /\ IF ok THEN Publish(n) ELSE UNCHANGED <<heLine, heOverwritten>>
          /\ heKernel' = heKernel
      BY <1>9 DEF InstallRole
    <2>2. RulesOk(n)'
      BY <1>1, <1>2, <1>3, <1>4, <1>7, <1>9, <2>1 DEF RulesOk
    <2>3. LineOk(n)'
      BY <1>2, <1>9 DEF LineOk
    <2>4. heLine' \in {heLine, n} /\ NameResolves'
      <3>1. CASE ok
        BY <1>2, <1>3, <2>1, <3>1, Published
      <3>2. CASE ~ok
        BY <1>1, <1>2, <1>3, <2>1, <3>2, NameKept
      <3>. QED BY <3>1, <3>2
    <2>5. HeTypes'
      BY <1>1, <1>2, <1>3, <1>5, <2>1, <2>4 DEF HeTypes
    <2>6. PeersCounted'
      BY <1>1, <1>2 DEF PeersCounted
    <2>7. StepOf(n)
      BY <1>2, <1>3, <1>5, <2>1, <2>4 DEF StepOf
    <2>. QED BY <1>2, <1>5, <1>6, <2>2, <2>3, <2>4, <2>5, <2>6, <2>7, HandlerStep DEF NetOk
  <1>. QED BY <1>4, <1>8, <1>9

-----------------------------------------------------------------------------
(* Readiness and teardown *)

LEMMA SendReadyStep ==
    ASSUME HostInv, NEW n \in HeNets, SendReady(n)
    PROVE  HostInv'
  <1>1. HeTypes /\ PeersCounted /\ StepOk(n) /\ RulesOk(n) /\ LineOk(n)
    BY DEF HostInv, NetOk
  <1>2. /\ heStep[n] = "acked" /\ Goes(n, "ready") /\ UNCHANGED <<hePeers, heRefs, heAllowed>>
        /\ UNCHANGED <<heRole, heSent, heKernel, heSeen, heOk, heRecord, heLine, heStale, heOverwritten>>
    BY DEF SendReady, peerVars
  <1>3. "ready" \in HeSteps \ {"stands"}
    BY DEF HeSteps
  <1>4. heStep'[n] = "ready"
    BY <1>1, <1>2, <1>3, Went
  <1>5. StepOk(n)'
    BY <1>1, <1>2, <1>4 DEF StepOk
  <1>6. RulesOk(n)'
    BY <1>1, <1>2, <1>4 DEF RulesOk
  <1>7. LineOk(n)'
    BY <1>1, <1>2, <1>4 DEF LineOk
  <1>8. /\ heKernel' \subseteq Rules /\ heSeen' \in [HeNets -> SUBSET Rules] /\ heOk' \in [HeNets -> BOOLEAN]
        /\ heRecord' \subseteq HeNets /\ heStep[n] \notin {"none", "gone"}
    BY <1>1, <1>2 DEF HeTypes
  <1>. QED BY <1>2, <1>3, <1>5, <1>6, <1>7, <1>8, QuietStep

LEMMA NetReadyStep ==
    ASSUME HostInv, NEW n \in HeNets, NEW ok \in BOOLEAN, NetReady(n, ok)
    PROVE  HostInv'
  <1>1. HeTypes /\ PeersCounted /\ StepOk(n) /\ RulesOk(n) /\ LineOk(n) /\ NameResolves
    BY DEF HostInv, NetOk
  <1> DEFINE to == IF ok THEN "stands" ELSE "failed"
  <1>2. /\ heStep[n] = "ready" /\ Goes(n, to)
        /\ IF heRole[n] = "hosts" /\ ok THEN Publish(n) ELSE UNCHANGED <<heLine, heOverwritten>>
        /\ UNCHANGED <<heRole, heSent, heKernel, heSeen, heOk, heRecord, heStale>>
        /\ UNCHANGED <<hePeers, heRefs, heAllowed>>
        /\ to \in {"stands", "failed"} /\ to \in HeSteps /\ (to = "stands" => ok)
    BY DEF NetReady, peerVars, HeSteps
  <1> HIDE DEF to
  <1>3. /\ heStep' \in [HeNets -> HeSteps] /\ heStep'[n] = to
        /\ \A m \in HeNets \ {n} : heStep'[m] = heStep[m]
    BY <1>1, <1>2, Went
  <1>4. n \in heRecord /\ n \in hePeers
    BY <1>1, <1>2 DEF StepOk
  <1>5. StepOk(n)'
    BY <1>2, <1>3, <1>4 DEF StepOk
  <1>6. RulesOk(n)'
    BY <1>1, <1>2, <1>3, <1>4 DEF RulesOk
  <1>7. (heLine' = heLine \/ (heRole[n] = "hosts" /\ heLine' = n)) /\ NameResolves'
    <2>1. CASE heRole[n] = "hosts" /\ ok
      BY <1>2, <1>3, <2>1, Published
    <2>2. CASE ~(heRole[n] = "hosts" /\ ok)
      BY <1>1, <1>2, <1>3, <2>2, NameKept
    <2>. QED BY <2>1, <2>2
  <1>8. LineOk(n)'
    BY <1>1, <1>2, <1>3, <1>4, <1>7 DEF LineOk
  <1>9. HeTypes'
    BY <1>1, <1>2, <1>3, <1>7 DEF HeTypes
  <1>10. PeersCounted'
    BY <1>1, <1>2 DEF PeersCounted
  <1>11. StepOf(n)
    BY <1>2, <1>3, <1>7 DEF StepOf
  <1>. QED BY <1>2, <1>5, <1>6, <1>7, <1>8, <1>9, <1>10, <1>11, HandlerStep DEF NetOk

LEMMA SendTeardownStep ==
    ASSUME HostInv, NEW n \in HeNets, SendTeardown(n)
    PROVE  HostInv'
  <1>1. /\ heSent' = heSent \cup {n} /\ UNCHANGED <<hePeers, heRefs, heAllowed>>
        /\ UNCHANGED <<heRole, heStep, heKernel, heSeen, heOk, heRecord, heLine, heStale, heOverwritten>>
    BY DEF SendTeardown, peerVars
  <1>2. HeTypes' /\ PeersCounted'
    BY <1>1 DEF HostInv, HeTypes, PeersCounted
  <1>3. ASSUME NEW m \in HeNets PROVE NetOk(m)'
    BY <1>1 DEF HostInv, NetOk, StepOk, RulesOk, LineOk
  <1>4. OneWanted' /\ NameResolves'
    BY <1>1 DEF HostInv, OneWanted, Wanted, NameResolves
  <1>. QED BY <1>2, <1>3, <1>4 DEF HostInv

LEMMA TeardownStep ==
    ASSUME HostInv, NEW n \in HeNets, NEW ok \in BOOLEAN, Teardown(n, ok)
    PROVE  HostInv'
  <1>1. HeTypes /\ PeersCounted /\ StepOk(n) /\ RulesOk(n) /\ LineOk(n)
    BY DEF HostInv, NetOk
  <1> DEFINE taken == n \in heRecord
  <1> DEFINE to == IF heRole[n] = "steer" /\ taken THEN "list_teardown" ELSE "rest"
  <1> DEFINE good == ~taken \/ heRole[n] # "forward" \/ ok
  <1>2. /\ heStep[n] \in {"acked", "failed", "stands"} /\ Goes(n, to)
        /\ heRecord' = (IF heRole[n] = "hosts" THEN heRecord ELSE heRecord \ {n})
        /\ heKernel' = (IF heRole[n] = "forward" /\ taken /\ ok THEN heKernel \ {forward(n)} ELSE heKernel)
        /\ heOk' = [heOk EXCEPT ![n] = good]
        /\ UNCHANGED <<heRole, heSent, heSeen, heLine, heStale, heOverwritten>>
        /\ UNCHANGED <<hePeers, heRefs, heAllowed>>
    BY DEF Teardown, TakeRecord, RemoveForward, peerVars
  <1>3. /\ to \in {"list_teardown", "rest"} /\ to \in HeSteps \ {"stands"} /\ good \in BOOLEAN
        /\ to = "list_teardown" <=> heRole[n] = "steer" /\ n \in heRecord
        /\ ~good <=> n \in heRecord /\ heRole[n] = "forward" /\ ~ok
    BY DEF HeSteps
  <1> HIDE DEF to, good
  <1>4. heStep'[n] = to
    BY <1>1, <1>2, <1>3, Went
  <1>5. /\ heOk' \in [HeNets -> BOOLEAN] /\ heOk'[n] = good /\ \A m \in HeNets \ {n} : heOk'[m] = heOk[m]
    BY <1>1, <1>2, <1>3 DEF HeTypes
  <1>6. n \in hePeers /\ heRole[n] \in HeRoles
    BY <1>1, <1>2 DEF StepOk, HeTypes
  <1>7. /\ heKernel' \subseteq heKernel /\ \A o : o # forward(n) => (o \in heKernel' <=> o \in heKernel)
        /\ forward(n) \in heKernel' => forward(n) \in heKernel /\ ~(heRole[n] = "forward" /\ n \in heRecord /\ ok)
    BY <1>2
  <1>8. StepOk(n)'
    BY <1>2, <1>3, <1>4, <1>6 DEF StepOk
  <1>9. RulesOk(n)'
    <2>1. /\ catch_all(n) \in heKernel' <=> catch_all(n) \in heKernel
          /\ snat(n) \in heKernel' <=> snat(n) \in heKernel
      BY <1>7, RuleFacts
    <2>2. catch_all(n) \in heKernel \/ snat(n) \in heKernel => heRole[n] = "steer" /\ n \in heStale \cup heRecord
      BY <1>1, <1>2 DEF RulesOk
    <2>3. forward(n) \in heKernel' => heRole[n] = "forward" /\ (n \in heStale \/ (to = "rest" /\ ~good))
      BY <1>1, <1>2, <1>3, <1>7 DEF RulesOk
    <2>4. heSeen[n] \subseteq {bypass, catch_all(n)}
      BY <1>1 DEF RulesOk
    <2>5. catch_all(n) \in heKernel' \/ snat(n) \in heKernel' =>
            heRole[n] = "steer" /\ (to = "list_teardown" \/ n \in heStale)
      BY <1>3, <2>1, <2>2
    <2>. QED BY <1>2, <1>3, <1>4, <1>5, <2>3, <2>4, <2>5 DEF RulesOk
  <1>10. LineOk(n)'
    <2>1. heLine = n => heRole[n] = "hosts" /\ n \in heStale \cup heRecord
      BY <1>1, <1>2 DEF LineOk
    <2>. QED BY <1>2, <2>1 DEF LineOk
  <1>11. /\ heRecord' \subseteq HeNets /\ \A m \in HeNets \ {n} : m \in heRecord' <=> m \in heRecord
         /\ heSeen' \in [HeNets -> SUBSET Rules] /\ heStep[n] \notin {"none", "gone"} /\ heKernel' \subseteq Rules
    BY <1>1, <1>2, <1>7 DEF HeTypes
  <1>12. \A o : o \notin Own(n) \cup {bypass} => (o \in heKernel' <=> o \in heKernel)
    BY <1>7 DEF Own
  <1>13. \A m \in HeNets \ {n} : heSeen'[m] = heSeen[m] /\ heOk'[m] = heOk[m] /\ (m \in heRecord' <=> m \in heRecord)
    BY <1>2, <1>5, <1>11
  <1>. QED BY <1>2, <1>3, <1>5, <1>8, <1>9, <1>10, <1>11, <1>12, <1>13, QuietStep

LEMMA TeardownRestStep ==
    ASSUME HostInv, NEW n \in HeNets, NEW mapped \in BOOLEAN, NEW ended \in BOOLEAN, TeardownRest(n, mapped, ended)
    PROVE  HostInv'
  <1>1. HeTypes /\ PeersCounted /\ StepOk(n) /\ RulesOk(n) /\ LineOk(n) /\ NameResolves
    BY DEF HostInv, NetOk
  <1> DEFINE to == IF heOk[n] /\ (mapped \/ n \notin heRecord) /\ ended THEN "gone" ELSE "stuck"
  <1>2. /\ heStep[n] = "rest" /\ PeersRemove(n) /\ Goes(n, to) /\ heRecord' = heRecord \ {n}
        /\ heLine' = (IF mapped /\ n \in heRecord /\ heLine = n THEN Nobody ELSE heLine)
        /\ heKernel' = (IF ended THEN heKernel \ {endpoint(n)} ELSE heKernel)
        /\ UNCHANGED <<heRole, heSent, heSeen, heOk, heStale, heOverwritten>>
    BY DEF TeardownRest, TakeRecord, RemoveLine
  <1>3. /\ to \in {"gone", "stuck"} /\ to \in HeSteps
        /\ to = "gone" => heOk[n] /\ (mapped \/ n \notin heRecord) /\ ended
    BY DEF HeSteps
  <1> HIDE DEF to
  <1>4. /\ heStep' \in [HeNets -> HeSteps] /\ heStep'[n] = to
        /\ \A m \in HeNets \ {n} : heStep'[m] = heStep[m]
    BY <1>1, <1>2, <1>3, Went
  <1>5. PeersCounted' /\ hePeers' = hePeers \ {n}
    BY <1>1, <1>2, PeersRemoved
  <1>6. /\ heKernel' \subseteq heKernel /\ \A o : o # endpoint(n) => (o \in heKernel' <=> o \in heKernel)
        /\ endpoint(n) \in heKernel' => ~ended
    BY <1>2
  <1>7. HeTypes'
    BY <1>1, <1>2, <1>4, <1>6 DEF HeTypes
  <1>8. StepOf(n)
    <2>1. \A o : o \notin Own(n) \cup {bypass} => (o \in heKernel' <=> o \in heKernel)
      BY <1>6 DEF Own
    <2>. QED BY <1>2, <1>4, <1>5, <2>1 DEF StepOf
  <1>9. StepOk(n)'
    BY <1>2, <1>3, <1>4 DEF StepOk
  <1>10. RulesOk(n)'
    <2>1. /\ catch_all(n) \in heKernel' => catch_all(n) \in heKernel
          /\ snat(n) \in heKernel' => snat(n) \in heKernel
          /\ forward(n) \in heKernel' => forward(n) \in heKernel
      BY <1>6
    <2>2. n \in heRecord => heRole[n] = "hosts"
      BY <1>1, <1>2 DEF StepOk
    <2>3. catch_all(n) \in heKernel \/ snat(n) \in heKernel => heRole[n] = "steer" /\ (n \in heStale \/ to = "stuck")
      BY <1>1, <1>2, <1>3, <2>2 DEF RulesOk
    <2>4. forward(n) \in heKernel => heRole[n] = "forward" /\ (n \in heStale \/ to = "stuck")
      BY <1>1, <1>2, <1>3, <2>2 DEF RulesOk
    <2>5. heSeen[n] \subseteq {bypass, catch_all(n)}
      BY <1>1 DEF RulesOk
    <2>. QED BY <1>2, <1>3, <1>4, <1>6, <2>1, <2>3, <2>4, <2>5 DEF RulesOk
  <1>11. LineOk(n)'
    <2>1. heLine = n => heRole[n] = "hosts" /\ n \in heStale \cup heRecord
      BY <1>1, <1>2 DEF LineOk
    <2>2. heLine' = n => heRole[n] = "hosts" /\ (n \in heStale \/ to = "stuck")
      BY <1>2, <1>3, <2>1, HeAssumption
    <2>. QED BY <1>2, <1>4, <2>2 DEF LineOk
  <1>12. NameResolves'
    BY <1>1, <1>2, <1>3, <1>4, NameKept
  <1>. QED BY <1>2, <1>5, <1>7, <1>8, <1>9, <1>10, <1>11, <1>12, HandlerStep DEF NetOk

LEMMA ReuseStep ==
    ASSUME HostInv, NEW n \in HeNets, Reuse(n)
    PROVE  HostInv'
  <1>1. HeTypes /\ PeersCounted /\ NetOk(n) /\ OneWanted /\ NameResolves
    BY DEF HostInv
  <1>2. /\ heStep[n] = "gone" /\ Goes(n, "none") /\ heSent' = heSent \ {n}
        /\ UNCHANGED <<heRole, heKernel, heSeen, heOk, heRecord, heLine, heStale, heOverwritten>>
        /\ UNCHANGED <<hePeers, heRefs, heAllowed>>
    BY DEF Reuse, peerVars
  <1>3. "none" \in HeSteps
    BY DEF HeSteps
  <1>4. /\ heStep' \in [HeNets -> HeSteps] /\ heStep'[n] = "none"
        /\ \A m \in HeNets \ {n} : heStep'[m] = heStep[m]
    BY <1>1, <1>2, <1>3, Went
  <1>5. HeTypes' /\ PeersCounted'
    BY <1>1, <1>2, <1>4 DEF HeTypes, PeersCounted
  <1>6. StepOf(n)
    BY <1>2, <1>4 DEF StepOf
  <1>7. NetOk(n)'
    <2>1. StepOk(n)'
      BY <1>1, <1>2, <1>4 DEF NetOk, StepOk
    <2>2. RulesOk(n)'
      BY <1>1, <1>2, <1>4 DEF NetOk, RulesOk
    <2>3. LineOk(n)'
      BY <1>1, <1>2, <1>4 DEF NetOk, LineOk
    <2>. QED BY <2>1, <2>2, <2>3 DEF NetOk
  <1>8. ASSUME NEW m \in HeNets, m # n PROVE NetOk(m)'
    BY <1>6, <1>8, OthersKept DEF HostInv
  <1>9. OneWanted'
    BY <1>1, <1>2, <1>4 DEF OneWanted, Wanted
  <1>10. NameResolves'
    BY <1>1, <1>2, <1>4, NameKept
  <1>. QED BY <1>5, <1>7, <1>8, <1>9, <1>10 DEF HostInv

LEMMA RestartStep ==
    ASSUME HostInv, Restart
    PROVE  HostInv'
  <1>1. HeTypes /\ \A n \in HeNets : NetOk(n)
    BY DEF HostInv
  <1>2. /\ heKernel' \subseteq heKernel /\ \A o \in heKernel' : o[1] # "endpoint"
        /\ heLine' \in {Nobody, heLine}
        /\ heStale' = {n \in HeNets : {catch_all(n), snat(n), forward(n)} \cap heKernel' # {} \/ heLine' = n}
        /\ heStep' = [n \in HeNets |-> "none"] /\ heSeen' = [n \in HeNets |-> {}]
        /\ heSent' = {} /\ heRecord' = {} /\ heOverwritten' = {}
        /\ hePeers' = {} /\ heRefs' = 0 /\ heAllowed' = FALSE
        /\ heRole' = heRole /\ heOk' = heOk
    BY DEF Restart, Purged, PurgedLine
  <1>3. HeTypes'
    BY <1>1, <1>2 DEF HeTypes, HeSteps
  <1>4. PeersCounted'
    <2>1. IsFiniteSet({}) /\ Cardinality({}) = 0
      BY FS_EmptySet
    <2>2. (heRefs' > 0) = FALSE
      BY <1>2
    <2>. QED BY <1>2, <2>1, <2>2 DEF PeersCounted
  <1>5. ASSUME NEW n \in HeNets PROVE NetOk(n)'
    <2>1. /\ heStep'[n] = "none" /\ heSeen'[n] = {} /\ n \notin heRecord'
      BY <1>2
    <2>2. endpoint(n) \notin heKernel'
      BY <1>2 DEF endpoint
    <2>3. /\ catch_all(n) \in heKernel' \/ snat(n) \in heKernel' => n \in heStale' /\ heRole'[n] = "steer"
          /\ forward(n) \in heKernel' => n \in heStale' /\ heRole'[n] = "forward"
      BY <1>1, <1>2 DEF NetOk, RulesOk
    <2>4. heLine' = n => n \in heStale' /\ heRole'[n] = "hosts"
      BY <1>1, <1>2, HeAssumption DEF NetOk, LineOk
    <2>. QED BY <2>1, <2>2, <2>3, <2>4 DEF NetOk, StepOk, RulesOk, LineOk
  <1>6. OneWanted' /\ NameResolves'
    BY <1>2 DEF OneWanted, Wanted, NameResolves
  <1>. QED BY <1>3, <1>4, <1>5, <1>6 DEF HostInv

-----------------------------------------------------------------------------

LEMMA HostStart == HostInit => HostInv
  <1> SUFFICES ASSUME HostInit PROVE HostInv
    OBVIOUS
  <1>1. HeTypes
    BY DEF HostInit, HeTypes, HeSteps
  <1>2. PeersCounted
    <2>1. IsFiniteSet({}) /\ Cardinality({}) = 0
      BY FS_EmptySet
    <2>2. (heRefs > 0) = FALSE
      BY DEF HostInit
    <2>. QED BY <2>1, <2>2 DEF HostInit, PeersCounted
  <1>3. ASSUME NEW n \in HeNets PROVE NetOk(n)
    BY HeAssumption DEF HostInit, NetOk, StepOk, RulesOk, LineOk
  <1>4. OneWanted /\ NameResolves
    BY DEF HostInit, OneWanted, Wanted, NameResolves
  <1>. QED BY <1>1, <1>2, <1>3, <1>4 DEF HostInv

LEMMA HostStep == HostInv /\ [HostNext]_heVars => HostInv'
  <1> SUFFICES ASSUME HostInv, [HostNext]_heVars PROVE HostInv'
    OBVIOUS
  <1>1. ASSUME NEW n \in HeNets, NEW ok \in BOOLEAN,
               \/ SetupArrives(n, ok)
               \/ ListRules(n, ok)
               \/ AddBypass(n, ok)
               \/ InstallRole(n, ok)
               \/ NetReady(n, ok)
               \/ Teardown(n, ok)
               \/ \E e \in BOOLEAN : TeardownRest(n, ok, e)
        PROVE  HostInv'
    BY <1>1, SetupArrivesStep, ListRulesStep, AddBypassStep, InstallRoleStep, NetReadyStep, TeardownStep,
       TeardownRestStep
  <1>2. ASSUME NEW n \in HeNets, DeleteRules(n) \/ AddRoute(n) \/ SendReady(n) \/ SendTeardown(n) \/ Reuse(n)
        PROVE  HostInv'
    BY <1>2, DeleteRulesStep, AddRouteStep, SendReadyStep, SendTeardownStep, ReuseStep
  <1>3. CASE Restart
    BY <1>3, RestartStep
  <1>4. CASE UNCHANGED heVars
    <2>1. /\ UNCHANGED <<heRole, heStep, heSent, heKernel, heSeen, heOk, heRecord, hePeers>>
          /\ UNCHANGED <<heRefs, heAllowed, heLine, heStale, heOverwritten>>
      BY <1>4 DEF heVars
    <2>2. HeTypes' /\ PeersCounted'
      BY <2>1 DEF HostInv, HeTypes, PeersCounted
    <2>3. ASSUME NEW m \in HeNets PROVE NetOk(m)'
      BY <2>1 DEF HostInv, NetOk, StepOk, RulesOk, LineOk
    <2>4. OneWanted' /\ NameResolves'
      BY <2>1 DEF HostInv, OneWanted, Wanted, NameResolves
    <2>. QED BY <2>2, <2>3, <2>4 DEF HostInv
  <1>. QED BY <1>1, <1>2, <1>3, <1>4 DEF HostNext

\* Whatever fails on the host, the purge at start included, and whenever the
\* process is killed, a network that stands has its routes, its peer and its
\* name, and an id that the server may use again names nothing but the rules
\* and names that a purge failed to remove (handle_vxlan_setup and
\* handle_vxlan_teardown of control_channel.rs, cleanup_network), for any
\* number of networks that share a peer, a container and a host name.
THEOREM StandingEdgesServeAlways == HostSpec => []StandingEdgesServe
  <1>1. HostInv => StandingEdgesServe
    <2> SUFFICES ASSUME HostInv PROVE StandingEdgesServe
      OBVIOUS
    <2>1. FreeIdNamesNothing
      <3> SUFFICES ASSUME NEW n \in HeNets, heStep[n] \in {"none", "gone"}
                   PROVE  /\ endpoint(n) \notin heKernel /\ n \notin heRecord
                          /\ n \notin heStale => {catch_all(n), snat(n), forward(n)} \cap heKernel = {} /\ heLine # n
        BY DEF FreeIdNamesNothing
      <3>1. StepOk(n) /\ RulesOk(n) /\ LineOk(n)
        BY DEF HostInv, NetOk
      <3>2. n \notin heRecord /\ (heLine = n => n \in heStale)
        BY <3>1 DEF StepOk, LineOk
      <3>3. /\ endpoint(n) \notin heKernel
            /\ catch_all(n) \in heKernel \/ snat(n) \in heKernel \/ forward(n) \in heKernel => n \in heStale
        BY <3>1, <3>2 DEF RulesOk
      <3>. QED BY <3>2, <3>3
    <2>2. StandingPeerAllowed
      <3> SUFFICES ASSUME NEW n \in HeNets, endpoint(n) \in heKernel, heStep[n] # "stuck" PROVE heAllowed
        BY DEF StandingPeerAllowed
      <3>1. n \in hePeers
        BY DEF HostInv, NetOk, StepOk, RulesOk
      <3>. QED BY <3>1, ListedAllowed DEF HostInv
    <2>3. StandingEdgeRoutes
      BY DEF HostInv, NetOk, RulesOk, StandingEdgeRoutes
    <2>. QED BY <2>1, <2>2, <2>3 DEF HostInv, StandingEdgesServe
  <1>. QED BY <1>1, HostStart, HostStep, PTL DEF HostSpec

-----------------------------------------------------------------------------
(* ProxyDoor.  The count of an entry is the number of connections that     *)
(* still owe it their close, a connection that is asked for again being    *)
(* counted twice until the second count is cancelled; so it is known what  *)
(* a step of one connection does to the count (OneConnection).  While a    *)
(* connection that was handed a session that had gone is there, the count  *)
(* is that number at most; it is exact again when they are all gone.       *)

DoorPcs == {"idle", "wait", "rpc", "sticky", "build", "built", "srv", "up", "cancel", "close", "done"}
ConnRec == [pc : DoorPcs, svc : PdServices \cup {""}, counted : BOOLEAN, tries : Int, told : Nat]
EntryRec == [live : BOOLEAN, open : Nat]

\* What a connection's record says wherever it stands.
ConnOk(r) ==
    /\ r.pc \in {"idle", "done"} => ~r.counted
    /\ r.pc \notin {"idle", "done"} => r.svc \in PdServices
    /\ r.pc \in {"up", "cancel", "close"} => r.counted
    /\ r.pc \notin {"cancel", "close"} => r.told = 0

\* A connection owes its close to s; it was counted there once more.
Owes(r, s) == r.svc = s /\ r.counted /\ ~(r.pc = "close" /\ r.told > 0)
Twice(r, s) == r.svc = s /\ (r.pc = "srv" \/ (r.pc = "cancel" /\ r.told = 0))
Asks(r) == r.pc \in {"wait", "rpc", "sticky", "build", "built", "srv"}

Bit(b) == IF b THEN 1 ELSE 0
Weight(r, s) == Bit(Owes(r, s)) + Bit(Twice(r, s))

Owing(s) == {c \in PdConns : Owes(pdConn[c], s)}
CountedTwice(s) == {c \in PdConns : Twice(pdConn[c], s)}
Waiting == {c \in PdConns : Asks(pdConn[c])}

DoorTypes ==
    /\ pdConn \in [PdConns -> ConnRec] /\ pdMap \in PdServices
    /\ pdEntry \in [PdServices -> EntryRec]
    /\ pdArrivals \in Nat /\ pdCompletions \in Nat

\* The count of a service that no fault has put off, and its session.
EntryOk(s) ==
    /\ pdEntry[s].open <= Cardinality(Owing(s)) + Cardinality(CountedTwice(s))
    /\ pdEntry[s].open > 0 => pdEntry[s].live
    /\ s \notin pdStale =>
          /\ pdEntry[s].open = Cardinality(Owing(s)) + Cardinality(CountedTwice(s))
          /\ \A c \in PdConns : pdConn[c].pc = "built" /\ pdConn[c].svc = s => pdEntry[s].live

\* A service is taken back into account only when its connections are gone.
StaleKept == \A s \in pdStale \ pdStale' : Gone(s)

\* What a step of c, which becomes rec, does to the entry of s.
EntryMoves(c, rec, s) ==
    /\ \/ pdEntry'[s].open + Weight(pdConn[c], s) = pdEntry[s].open + Weight(rec, s)
       \/ s \in pdStale' /\ pdEntry'[s].open + Weight(pdConn[c], s) <= pdEntry[s].open + Weight(rec, s)
       \/ s \in pdStale' /\ pdEntry'[s].open = 0
    /\ pdEntry[s].live => pdEntry'[s].live
    /\ pdEntry'[s].open > pdEntry[s].open => pdEntry'[s].live
    /\ s \notin pdStale' => (rec.pc = "built" /\ rec.svc = s => pdEntry'[s].live)

DoorInv ==
    /\ DoorTypes
    /\ \A c \in PdConns : ConnOk(pdConn[c])
    /\ \A s \in PdServices \ pdExcused : EntryOk(s)
    /\ pdArrivals = pdCompletions + Cardinality(Waiting)

LEMMA OneElement ==
    ASSUME NEW S, NEW T, IsFiniteSet(S), IsFiniteSet(T), NEW c, S \ {c} = T \ {c}
    PROVE  Cardinality(T) + Bit(c \in S) = Cardinality(S) + Bit(c \in T)
  <1>1. /\ Cardinality(S) \in Nat /\ Cardinality(T) \in Nat /\ Cardinality(S \ {c}) \in Nat
    BY FS_CardinalityType, FS_RemoveElement
  <1>2. Cardinality(S \ {c}) = IF c \in S THEN Cardinality(S) - 1 ELSE Cardinality(S)
    BY FS_RemoveElement
  <1>3. Cardinality(T \ {c}) = IF c \in T THEN Cardinality(T) - 1 ELSE Cardinality(T)
    BY FS_RemoveElement
  <1>. QED BY <1>1, <1>2, <1>3 DEF Bit

\* The sets that are counted, when one connection moves.
LEMMA OneMoves ==
    ASSUME DoorTypes, NEW c \in PdConns, NEW rec \in ConnRec, Moves(c, rec)
    PROVE  /\ pdConn' \in [PdConns -> ConnRec] /\ pdConn'[c] = rec
           /\ \A d \in PdConns \ {c} : pdConn'[d] = pdConn[d]
           /\ Cardinality(Waiting)' + Bit(Asks(pdConn[c])) = Cardinality(Waiting) + Bit(Asks(rec))
           /\ Cardinality(Waiting) \in Nat /\ Cardinality(Waiting)' \in Nat
           /\ \A s : LET n == Cardinality(Owing(s)) + Cardinality(CountedTwice(s))
                     IN  n \in Nat /\ n' \in Nat /\ n' + Weight(pdConn[c], s) = n + Weight(rec, s)
  <1>1. /\ pdConn' \in [PdConns -> ConnRec] /\ pdConn'[c] = rec
        /\ \A d \in PdConns \ {c} : pdConn'[d] = pdConn[d]
    BY DEF DoorTypes, Moves
  <1>2. /\ Cardinality(Waiting)' + Bit(Asks(pdConn[c])) = Cardinality(Waiting) + Bit(Asks(rec))
        /\ Cardinality(Waiting) \in Nat /\ Cardinality(Waiting)' \in Nat
    <2>1. IsFiniteSet(Waiting) /\ IsFiniteSet(Waiting')
      BY PdAssumption, FS_Subset DEF Waiting
    <2>2. Waiting \ {c} = Waiting' \ {c} /\ (c \in Waiting <=> Asks(pdConn[c])) /\ (c \in Waiting' <=> Asks(rec))
      BY <1>1 DEF Waiting
    <2>3. Cardinality(Waiting') + Bit(c \in Waiting) = Cardinality(Waiting) + Bit(c \in Waiting')
      BY <2>1, <2>2, OneElement
    <2>4. Cardinality(Waiting) \in Nat /\ Cardinality(Waiting') \in Nat
      BY <2>1, FS_CardinalityType
    <2>. QED BY <2>2, <2>3, <2>4 DEF Bit
  <1>3. ASSUME NEW s
        PROVE  LET n == Cardinality(Owing(s)) + Cardinality(CountedTwice(s))
               IN  n \in Nat /\ n' \in Nat /\ n' + Weight(pdConn[c], s) = n + Weight(rec, s)
    <2>1. /\ IsFiniteSet(Owing(s)) /\ IsFiniteSet(Owing(s)')
          /\ IsFiniteSet(CountedTwice(s)) /\ IsFiniteSet(CountedTwice(s)')
      BY PdAssumption, FS_Subset DEF Owing, CountedTwice
    <2>2. Owing(s) \ {c} = Owing(s)' \ {c} /\ (c \in Owing(s) <=> Owes(pdConn[c], s)) /\ (c \in Owing(s)' <=> Owes(rec, s))
      BY <1>1 DEF Owing
    <2>3. /\ CountedTwice(s) \ {c} = CountedTwice(s)' \ {c}
          /\ (c \in CountedTwice(s) <=> Twice(pdConn[c], s)) /\ (c \in CountedTwice(s)' <=> Twice(rec, s))
      BY <1>1 DEF CountedTwice
    <2>4. Cardinality(Owing(s)') + Bit(c \in Owing(s)) = Cardinality(Owing(s)) + Bit(c \in Owing(s)')
      BY <2>1, <2>2, OneElement
    <2>5. Cardinality(CountedTwice(s)') + Bit(c \in CountedTwice(s)) = Cardinality(CountedTwice(s)) + Bit(c \in CountedTwice(s)')
      BY <2>1, <2>3, OneElement
    <2>6. /\ Cardinality(Owing(s)) \in Nat /\ Cardinality(Owing(s)') \in Nat
          /\ Cardinality(CountedTwice(s)) \in Nat /\ Cardinality(CountedTwice(s)') \in Nat
      BY <2>1, FS_CardinalityType
    <2>7. Bit(c \in Owing(s)) = Bit(Owes(pdConn[c], s)) /\ Bit(c \in Owing(s)') = Bit(Owes(rec, s))
      BY <2>2 DEF Bit
    <2>8. /\ Bit(c \in CountedTwice(s)) = Bit(Twice(pdConn[c], s))
          /\ Bit(c \in CountedTwice(s)') = Bit(Twice(rec, s))
      BY <2>3 DEF Bit
    <2>9. \A b : Bit(b) \in {0, 1}
      BY DEF Bit
    <2>. QED BY <2>4, <2>5, <2>6, <2>7, <2>8, <2>9 DEF Weight
  <1>. QED BY <1>1, <1>2, <1>3

LEMMA WeightType == \A r, s : Weight(r, s) \in Nat
  BY DEF Weight, Bit

\* What is left to show of a step of one connection.
LEMMA OneConnection ==
    ASSUME DoorInv, NEW c \in PdConns, NEW rec \in ConnRec, ConnOk(rec), Moves(c, rec),
           pdMap' = pdMap, pdArrivals' \in Nat, pdCompletions' \in Nat,
           pdArrivals' + pdCompletions + Bit(Asks(pdConn[c])) = pdArrivals + pdCompletions' + Bit(Asks(rec)),
           pdEntry' \in [PdServices -> EntryRec], pdExcused \subseteq pdExcused', StaleKept,
           \A s \in PdServices \ pdExcused' : EntryMoves(c, rec, s)
    PROVE  DoorInv'
  <1>1. DoorTypes
    BY DEF DoorInv
  <1>2. /\ pdConn' \in [PdConns -> ConnRec] /\ pdConn'[c] = rec
        /\ \A d \in PdConns \ {c} : pdConn'[d] = pdConn[d]
        /\ Cardinality(Waiting)' + Bit(Asks(pdConn[c])) = Cardinality(Waiting) + Bit(Asks(rec))
        /\ Cardinality(Waiting) \in Nat /\ Cardinality(Waiting)' \in Nat
        /\ \A s : LET n == Cardinality(Owing(s)) + Cardinality(CountedTwice(s))
                  IN  n \in Nat /\ n' \in Nat /\ n' + Weight(pdConn[c], s) = n + Weight(rec, s)
    BY <1>1, OneMoves
  <1>3. DoorTypes'
    BY <1>1, <1>2 DEF DoorTypes
  <1>4. ASSUME NEW d \in PdConns PROVE ConnOk(pdConn[d])'
    <2>1. CASE d = c
      BY <1>2, <2>1 DEF ConnOk
    <2>2. CASE d # c
      BY <1>2, <2>2 DEF DoorInv, ConnOk
    <2>. QED BY <2>1, <2>2
  <1>5. (pdArrivals = pdCompletions + Cardinality(Waiting))'
    <2>1. pdArrivals = pdCompletions + Cardinality(Waiting) /\ pdArrivals \in Nat /\ pdCompletions \in Nat
      BY DEF DoorInv, DoorTypes
    <2>2. Bit(Asks(pdConn[c])) \in Nat /\ Bit(Asks(rec)) \in Nat
      BY DEF Bit
    <2>. QED BY <1>2, <2>1, <2>2
  <1>6. ASSUME NEW s \in PdServices \ pdExcused' PROVE EntryOk(s)'
    <2>1. EntryOk(s)
      BY DEF DoorInv
    <2>2. EntryMoves(c, rec, s)
      OBVIOUS
    <2> DEFINE n == Cardinality(Owing(s)) + Cardinality(CountedTwice(s))
    <2>3. pdEntry[s].open \in Nat /\ pdEntry'[s].open \in Nat
      BY <1>1 DEF DoorTypes, EntryRec
    <2>4. Weight(pdConn[c], s) \in Nat /\ Weight(rec, s) \in Nat
      BY WeightType
    <2>5. n \in Nat /\ n' \in Nat /\ n' + Weight(pdConn[c], s) = n + Weight(rec, s)
      BY <1>2
    <2>6. pdEntry[s].open <= n
      BY <2>1 DEF EntryOk
    <2> HIDE DEF n
    <2>7. pdEntry'[s].open <= n'
      BY <2>2, <2>3, <2>4, <2>5, <2>6 DEF EntryMoves
    <2>8. pdEntry'[s].open > 0 => pdEntry'[s].live
      BY <2>1, <2>2, <2>3 DEF EntryOk, EntryMoves
    <2>9. ASSUME s \notin pdStale'
          PROVE  /\ pdEntry'[s].open = n'
                 /\ \A d \in PdConns : pdConn'[d].pc = "built" /\ pdConn'[d].svc = s => pdEntry'[s].live
      <3>1. CASE s \notin pdStale
        <4>1. pdEntry[s].open = n /\ \A d \in PdConns : pdConn[d].pc = "built" /\ pdConn[d].svc = s => pdEntry[s].live
          BY <2>1, <3>1 DEF EntryOk, n
        <4>2. pdEntry'[s].open = n'
          BY <2>2, <2>3, <2>4, <2>5, <2>9, <4>1 DEF EntryMoves
        <4>. QED BY <1>2, <2>2, <2>9, <4>1, <4>2 DEF EntryMoves
      <3>2. CASE s \in pdStale
        <4>1. \A d \in PdConns : pdConn[d].svc # s
          BY <2>9, <3>2 DEF StaleKept, Gone
        <4>2. Owing(s) = {} /\ CountedTwice(s) = {}
          BY <4>1 DEF Owing, CountedTwice, Owes, Twice
        <4>3. n = 0
          <5>1. Cardinality({}) = 0
            BY FS_EmptySet
          <5>. QED BY <4>2, <5>1 DEF n
        <4>4. pdEntry[s].open = 0
          BY <2>3, <2>6, <4>3
        <4>5. pdEntry'[s].open = n'
          BY <2>2, <2>3, <2>4, <2>5, <2>9, <4>3, <4>4 DEF EntryMoves
        <4>. QED BY <1>2, <2>2, <2>9, <4>1, <4>5 DEF EntryMoves
      <3>. QED BY <3>1, <3>2
    <2>. QED BY <2>7, <2>8, <2>9 DEF EntryOk, n
  <1>. QED BY <1>3, <1>4, <1>5, <1>6 DEF DoorInv

LEMMA SameStale == ASSUME UNCHANGED pdStale PROVE StaleKept
  BY DEF StaleKept

\* The entries are not touched.
LEMMA SameEntries ==
    ASSUME DoorInv, NEW c \in PdConns, NEW rec \in ConnRec, ConnOk(rec), Moves(c, rec),
           pdMap' = pdMap, pdArrivals' \in Nat, pdCompletions' \in Nat,
           pdArrivals' + pdCompletions + Bit(Asks(pdConn[c])) = pdArrivals + pdCompletions' + Bit(Asks(rec)),
           pdEntry' = pdEntry, pdExcused \subseteq pdExcused', StaleKept, rec.pc # "built",
           \A s \in PdServices \ pdExcused' : Weight(pdConn[c], s) = Weight(rec, s)
    PROVE  DoorInv'
  <1>1. pdEntry' \in [PdServices -> EntryRec]
    BY DEF DoorInv, DoorTypes
  <1>2. ASSUME NEW s \in PdServices \ pdExcused' PROVE EntryMoves(c, rec, s)
    <2>1. pdEntry'[s] = pdEntry[s] /\ Weight(pdConn[c], s) = Weight(rec, s)
      OBVIOUS
    <2>2. pdEntry[s].open \in Nat
      BY DEF DoorInv, DoorTypes, EntryRec
    <2>. QED BY <2>1, <2>2 DEF EntryMoves
  <1>. QED BY <1>1, <1>2, OneConnection

\* The records a connection may go on with.
LEMMA ConnFields ==
    ASSUME NEW r \in ConnRec
    PROVE  /\ \A p \in DoorPcs : LET u == [r EXCEPT !.pc = p]
                                 IN  /\ u \in ConnRec /\ u.pc = p /\ u.svc = r.svc /\ u.counted = r.counted /\ u.told = r.told
           /\ \A p \in DoorPcs, t \in Int : LET u == [r EXCEPT !.pc = p, !.tries = t]
                                 IN  /\ u \in ConnRec /\ u.pc = p /\ u.svc = r.svc /\ u.counted = r.counted /\ u.told = r.told
           /\ LET u == [r EXCEPT !.pc = "up", !.counted = TRUE]
              IN  /\ u \in ConnRec /\ u.pc = "up" /\ u.svc = r.svc /\ u.counted = TRUE /\ u.told = r.told
           /\ LET u == [r EXCEPT !.pc = "up", !.tries = 0, !.told = 0]
              IN  /\ u \in ConnRec /\ u.pc = "up" /\ u.svc = r.svc /\ u.counted = r.counted /\ u.told = 0
           /\ \A k \in Nat, t \in Int : LET u == [r EXCEPT !.tries = t, !.told = k]
                                 IN  /\ u \in ConnRec /\ u.pc = r.pc /\ u.svc = r.svc /\ u.counted = r.counted /\ u.told = k
  <1>1. \A p \in DoorPcs : LET u == [r EXCEPT !.pc = p]
                           IN  /\ u \in ConnRec /\ u.pc = p /\ u.svc = r.svc /\ u.counted = r.counted /\ u.told = r.told
    BY DEF ConnRec
  <1>2. \A p \in DoorPcs, t \in Int :
          LET u == [r EXCEPT !.pc = p, !.tries = t]
          IN  /\ u \in ConnRec /\ u.pc = p /\ u.svc = r.svc /\ u.counted = r.counted /\ u.told = r.told
    BY DEF ConnRec
  <1>3. LET u == [r EXCEPT !.pc = "up", !.counted = TRUE]
        IN  /\ u \in ConnRec /\ u.pc = "up" /\ u.svc = r.svc /\ u.counted = TRUE /\ u.told = r.told
    BY DEF ConnRec, DoorPcs
  <1>4. LET u == [r EXCEPT !.pc = "up", !.tries = 0, !.told = 0]
        IN  /\ u \in ConnRec /\ u.pc = "up" /\ u.svc = r.svc /\ u.counted = r.counted /\ u.told = 0
    <2>1. PICK p \in DoorPcs, t \in Int, k \in Nat : p = "up" /\ t = 0 /\ k = 0
      BY DEF DoorPcs
    <2>2. [r EXCEPT !.pc = "up", !.tries = 0, !.told = 0] = [r EXCEPT !.pc = p, !.tries = t, !.told = k]
      BY <2>1
    <2>3. LET u == [r EXCEPT !.pc = p, !.tries = t, !.told = k]
          IN  /\ u \in ConnRec /\ u.pc = p /\ u.svc = r.svc /\ u.counted = r.counted /\ u.told = k
      BY DEF ConnRec
    <2>. QED BY <2>1, <2>2, <2>3
  <1>5. \A k \in Nat, t \in Int :
          LET u == [r EXCEPT !.tries = t, !.told = k]
          IN  /\ u \in ConnRec /\ u.pc = r.pc /\ u.svc = r.svc /\ u.counted = r.counted /\ u.told = k
    BY DEF ConnRec
  <1>. QED BY <1>1, <1>2, <1>3, <1>4, <1>5

\* A new connection, and one that is over.
LEMMA FreshConns ==
    /\ NewConn \in ConnRec /\ ConnOk(NewConn) /\ \A s : Weight(NewConn, s) = 0 /\ ~Asks(NewConn)
    /\ LET u == [NewConn EXCEPT !.pc = "done"]
       IN  u \in ConnRec /\ ConnOk(u) /\ (\A s : Weight(u, s) = 0) /\ ~Asks(u) /\ u.pc = "done"
    /\ \A m \in PdServices : LET u == [NewConn EXCEPT !.pc = "wait", !.svc = m]
                             IN  u \in ConnRec /\ ConnOk(u) /\ (\A s : Weight(u, s) = 0) /\ Asks(u) /\ u.pc = "wait"
  <1>1. NewConn \in ConnRec
    BY DEF NewConn, ConnRec, DoorPcs
  <1>2. /\ NewConn.pc = "idle" /\ NewConn.counted = FALSE /\ NewConn.told = 0
    BY DEF NewConn
  <1>3. ConnOk(NewConn) /\ (\A s : Weight(NewConn, s) = 0) /\ ~Asks(NewConn)
    BY <1>2 DEF ConnOk, Weight, Bit, Owes, Twice, Asks
  <1> DEFINE v == [NewConn EXCEPT !.pc = "done"]
  <1>4. v \in ConnRec /\ v.pc = "done" /\ v.counted = FALSE /\ v.told = 0
    <2>1. LET u == [NewConn EXCEPT !.pc = "done"]
          IN  u \in ConnRec /\ u.pc = "done" /\ u.counted = NewConn.counted /\ u.told = NewConn.told
      BY <1>1 DEF ConnRec, DoorPcs
    <2>. QED BY <1>2, <2>1
  <1>5. ConnOk(v) /\ (\A s : Weight(v, s) = 0) /\ ~Asks(v)
    <2> HIDE DEF v
    <2>. QED BY <1>4 DEF ConnOk, Weight, Bit, Owes, Twice, Asks
  <1>6. ASSUME NEW m \in PdServices
        PROVE  LET u == [NewConn EXCEPT !.pc = "wait", !.svc = m]
               IN  u \in ConnRec /\ ConnOk(u) /\ (\A s : Weight(u, s) = 0) /\ Asks(u) /\ u.pc = "wait"
    <2> DEFINE u == [NewConn EXCEPT !.pc = "wait", !.svc = m]
    <2>1. u \in ConnRec /\ u.pc = "wait" /\ u.counted = FALSE /\ u.told = 0 /\ u.svc = m
      <3>1. ASSUME NEW r \in ConnRec
            PROVE  LET w == [r EXCEPT !.pc = "wait", !.svc = m]
                   IN  w \in ConnRec /\ w.pc = "wait" /\ w.counted = r.counted /\ w.told = r.told /\ w.svc = m
        BY DEF ConnRec, DoorPcs
      <3>. QED BY <1>1, <1>2, <3>1
    <2> HIDE DEF u
    <2>2. ConnOk(u) /\ (\A s : Weight(u, s) = 0) /\ Asks(u)
      BY <2>1 DEF ConnOk, Weight, Bit, Owes, Twice, Asks
    <2>. QED BY <2>1, <2>2 DEF u
  <1>. QED BY <1>1, <1>3, <1>4, <1>5, <1>6

LEMMA WeightElsewhere == \A r, s : r.svc # s => Weight(r, s) = 0
  BY DEF Weight, Bit, Owes, Twice

\* A connection that owes its close to a service keeps its session.
LEMMA OwingCounts ==
    ASSUME DoorInv, NEW c \in PdConns, NEW s \in PdServices \ (pdExcused \cup pdStale), Owes(pdConn[c], s)
    PROVE  pdEntry[s].open > 0 /\ pdEntry[s].live
  <1>1. EntryOk(s)
    BY DEF DoorInv
  <1>2. c \in Owing(s) /\ IsFiniteSet(Owing(s)) /\ IsFiniteSet(CountedTwice(s))
    BY PdAssumption, FS_Subset DEF Owing, CountedTwice
  <1>3. Cardinality(Owing(s)) \in Nat /\ Cardinality(CountedTwice(s)) \in Nat /\ Cardinality(Owing(s)) # 0
    BY <1>2, FS_CardinalityType, FS_EmptySet
  <1>4. pdEntry[s].open > 0
    BY <1>1, <1>3 DEF EntryOk
  <1>. QED BY <1>1, <1>4 DEF EntryOk

-----------------------------------------------------------------------------
(* Asking for an upstream *)

LEMMA ArrivesStep ==
    ASSUME DoorInv, NEW c \in PdConns, NEW allowed \in BOOLEAN, Arrives(c, allowed)
    PROVE  DoorInv'
  <1>1. PICK r \in ConnRec : r = pdConn[c] /\ ConnOk(r) /\ r.pc = "idle"
    BY DEF DoorInv, DoorTypes, Arrives, At
  <1>2. PICK m \in PdServices : m = pdMap
    BY DEF DoorInv, DoorTypes
  <1>3. pdArrivals \in Nat /\ pdCompletions \in Nat
    BY DEF DoorInv, DoorTypes
  <1>4. /\ UNCHANGED <<pdMap, pdEntry, pdCompletions>> /\ pdExcused' = pdExcused /\ StaleKept
    BY DEF Arrives, StaleKept
  <1>5. ~r.counted /\ ~Asks(r) /\ \A s : Weight(r, s) = 0
    BY <1>1 DEF ConnOk, Asks, Weight, Bit, Owes, Twice
  <1>6. CASE allowed
    <2> DEFINE u == [NewConn EXCEPT !.pc = "wait", !.svc = m]
    <2>1. Moves(c, u) /\ pdArrivals' = pdArrivals + 1
      BY <1>2, <1>6 DEF Arrives
    <2>2. u \in ConnRec /\ ConnOk(u) /\ (\A s : Weight(u, s) = 0) /\ Asks(u) /\ u.pc = "wait"
      BY FreshConns
    <2> HIDE DEF u
    <2>3. Bit(Asks(u)) = 1 /\ Bit(Asks(pdConn[c])) = 0
      BY <1>1, <1>5, <2>2 DEF Bit
    <2>4. /\ pdArrivals' + pdCompletions + Bit(Asks(pdConn[c])) = pdArrivals + pdCompletions' + Bit(Asks(u))
          /\ pdArrivals' \in Nat /\ pdCompletions' \in Nat
      BY <1>3, <1>4, <2>1, <2>3
    <2>. QED BY <1>1, <1>4, <1>5, <2>1, <2>2, <2>4, SameEntries
  <1>7. CASE ~allowed
    <2> DEFINE u == [NewConn EXCEPT !.pc = "done"]
    <2>1. Moves(c, u) /\ pdArrivals' = pdArrivals
      BY <1>7 DEF Arrives
    <2>2. u \in ConnRec /\ ConnOk(u) /\ (\A s : Weight(u, s) = 0) /\ ~Asks(u) /\ u.pc = "done"
      BY FreshConns
    <2> HIDE DEF u
    <2>3. Bit(Asks(u)) = 0 /\ Bit(Asks(pdConn[c])) = 0
      BY <1>1, <1>5, <2>2 DEF Bit
    <2>. QED BY <1>1, <1>3, <1>4, <1>5, <2>1, <2>2, <2>3, SameEntries
  <1>. QED BY <1>6, <1>7

LEMMA AdmittedStep ==
    ASSUME DoorInv, NEW c \in PdConns, Admitted(c) \/ LooksUp(c)
    PROVE  DoorInv'
  <1>1. PICK r \in ConnRec : r = pdConn[c] /\ ConnOk(r) /\ r.pc \in {"wait", "rpc"}
    BY DEF DoorInv, DoorTypes, Admitted, LooksUp, At
  <1>2. pdArrivals \in Nat /\ pdCompletions \in Nat
    BY DEF DoorInv, DoorTypes
  <1>3. PICK p \in {"rpc", "sticky", "build"} : Moves(c, [r EXCEPT !.pc = p])
    BY <1>1 DEF Admitted, LooksUp
  <1> DEFINE u == [r EXCEPT !.pc = p]
  <1>4. UNCHANGED <<pdMap, pdEntry, pdArrivals, pdCompletions, pdStale>> /\ pdExcused' = pdExcused /\ Moves(c, u)
    BY <1>3 DEF Admitted, LooksUp, metricVars, faultVars
  <1>5. u \in ConnRec /\ u.pc = p /\ u.svc = r.svc /\ u.counted = r.counted /\ u.told = r.told
    BY DEF ConnRec, DoorPcs
  <1> HIDE DEF u
  <1>6. ConnOk(u) /\ \A s : Weight(u, s) = Weight(r, s)
    BY <1>1, <1>5 DEF ConnOk, Weight, Owes, Twice
  <1>7. Bit(Asks(u)) = 1 /\ Bit(Asks(pdConn[c])) = 1
    BY <1>1, <1>5 DEF Bit, Asks
  <1>8. u.pc # "built" /\ StaleKept
    BY <1>4, <1>5, SameStale
  <1>. QED BY <1>1, <1>2, <1>4, <1>5, <1>6, <1>7, <1>8, SameEntries

\* A field of the entry of one service.
LEMMA EntryFields ==
    ASSUME DoorTypes, NEW s \in PdServices, NEW e \in EntryRec, pdEntry' = [pdEntry EXCEPT ![s] = e]
    PROVE  /\ pdEntry' \in [PdServices -> EntryRec] /\ pdEntry'[s] = e
           /\ \A q \in PdServices \ {s} : pdEntry'[q] = pdEntry[q]
  BY DEF DoorTypes

LEMMA EntryChanges ==
    ASSUME NEW f \in EntryRec
    PROVE  /\ LET e == [f EXCEPT !.live = TRUE] IN e \in EntryRec /\ e.live = TRUE /\ e.open = f.open
           /\ \A k \in Nat : LET e == [f EXCEPT !.open = k] IN e \in EntryRec /\ e.live = f.live /\ e.open = k
  BY DEF EntryRec

LEMMA SessionBuiltStep ==
    ASSUME DoorInv, NEW c \in PdConns, SessionBuilt(c)
    PROVE  DoorInv'
  <1>1. PICK r \in ConnRec : r = pdConn[c] /\ ConnOk(r) /\ r.pc = "build"
    BY DEF DoorInv, DoorTypes, SessionBuilt, At
  <1>2. pdArrivals \in Nat /\ pdCompletions \in Nat /\ DoorTypes
    BY DEF DoorInv, DoorTypes
  <1>3. PICK t \in PdServices : t = r.svc
    BY <1>1 DEF ConnOk
  <1> DEFINE u == [r EXCEPT !.pc = "built"]
  <1> DEFINE e == [pdEntry[t] EXCEPT !.live = TRUE]
  <1>4. e \in EntryRec /\ e.live = TRUE /\ e.open = pdEntry[t].open
    <2>1. pdEntry[t] \in EntryRec
      BY <1>2 DEF DoorTypes
    <2>. QED BY <2>1, EntryChanges
  <1>5. pdEntry' = [pdEntry EXCEPT ![t] = e]
    <2>1. pdEntry' = [pdEntry EXCEPT ![t].live = TRUE]
      BY <1>1, <1>3 DEF SessionBuilt
    <2>. QED BY <1>2, <2>1 DEF DoorTypes
  <1>6. Moves(c, u) /\ UNCHANGED <<pdMap, pdArrivals, pdCompletions>> /\ pdExcused' = pdExcused /\ pdStale' = pdStale
    BY <1>1 DEF SessionBuilt, metricVars, faultVars
  <1>7. u \in ConnRec /\ u.pc = "built" /\ u.svc = r.svc /\ u.counted = r.counted /\ u.told = r.told
    BY DEF ConnRec, DoorPcs
  <1> HIDE DEF u, e
  <1>8. ConnOk(u) /\ \A s : Weight(u, s) = Weight(r, s)
    BY <1>1, <1>7 DEF ConnOk, Weight, Owes, Twice
  <1>9. Bit(Asks(u)) = 1 /\ Bit(Asks(pdConn[c])) = 1
    BY <1>1, <1>7 DEF Bit, Asks
  <1>10. /\ pdEntry' \in [PdServices -> EntryRec] /\ pdEntry'[t] = e
         /\ \A q \in PdServices \ {t} : pdEntry'[q] = pdEntry[q]
    BY <1>2, <1>4, <1>5, EntryFields
  <1>11. ASSUME NEW s \in PdServices \ pdExcused'
         PROVE  EntryMoves(c, u, s)
    <2>1. pdEntry[s].open \in Nat /\ pdEntry'[s].open = pdEntry[s].open
      BY <1>2, <1>4, <1>10 DEF DoorTypes, EntryRec
    <2>2. (pdEntry[s].live => pdEntry'[s].live) /\ (u.svc = s => pdEntry'[s].live)
      BY <1>3, <1>4, <1>7, <1>10
    <2>. QED BY <1>1, <1>8, <2>1, <2>2, WeightType DEF EntryMoves
  <1>12. StaleKept
    BY <1>6, SameStale
  <1>. QED BY <1>2, <1>6, <1>7, <1>8, <1>9, <1>10, <1>11, <1>12, OneConnection

\* The reuse of a session, which may have gone since it was looked up.
LEMMA ReusedStep ==
    ASSUME DoorInv, NEW c \in PdConns, Reused(c)
    PROVE  DoorInv'
  <1>1. PICK r \in ConnRec : r = pdConn[c] /\ ConnOk(r) /\ r.pc = "sticky"
    BY DEF DoorInv, DoorTypes, Reused, At
  <1>2. pdArrivals \in Nat /\ pdCompletions \in Nat /\ DoorTypes /\ pdEntry \in [PdServices -> EntryRec]
    BY DEF DoorInv, DoorTypes
  <1> DEFINE u == [r EXCEPT !.pc = "built"]
  <1>3. /\ Moves(c, u) /\ UNCHANGED <<pdMap, pdEntry, pdArrivals, pdCompletions>> /\ pdExcused' = pdExcused
        /\ pdStale' = IF pdEntry[r.svc].live THEN pdStale ELSE pdStale \cup {r.svc}
    BY <1>1 DEF Reused, metricVars
  <1>4. u \in ConnRec /\ u.pc = "built" /\ u.svc = r.svc /\ u.counted = r.counted /\ u.told = r.told
    BY DEF ConnRec, DoorPcs
  <1> HIDE DEF u
  <1>5. ConnOk(u) /\ \A s : Weight(u, s) = Weight(r, s)
    BY <1>1, <1>4 DEF ConnOk, Weight, Owes, Twice
  <1>6. Bit(Asks(u)) = 1 /\ Bit(Asks(pdConn[c])) = 1
    BY <1>1, <1>4 DEF Bit, Asks
  <1>7. StaleKept
    BY <1>3 DEF StaleKept
  <1>8. ASSUME NEW s \in PdServices \ pdExcused' PROVE EntryMoves(c, u, s)
    <2>1. pdEntry[s].open \in Nat /\ pdEntry'[s] = pdEntry[s]
      BY <1>2, <1>3 DEF EntryRec
    <2>2. s \notin pdStale' => (u.svc = s => pdEntry'[s].live)
      BY <1>3, <1>4, <2>1
    <2>3. Weight(u, s) = Weight(pdConn[c], s)
      BY <1>1, <1>5
    <2>. QED BY <2>1, <2>2, <2>3 DEF EntryMoves
  <1>. QED BY <1>2, <1>3, <1>4, <1>5, <1>6, <1>7, <1>8, OneConnection

LEMMA ServerCountsStep ==
    ASSUME DoorInv, NEW c \in PdConns, ServerCounts(c)
    PROVE  DoorInv'
  <1>1. PICK r \in ConnRec : r = pdConn[c] /\ ConnOk(r) /\ r.pc = "built"
    BY DEF DoorInv, DoorTypes, ServerCounts, At
  <1>2. pdArrivals \in Nat /\ pdCompletions \in Nat /\ DoorTypes
    BY DEF DoorInv, DoorTypes
  <1>3. PICK t \in PdServices : t = r.svc
    BY <1>1 DEF ConnOk
  <1>4. PICK k \in Nat, l \in BOOLEAN : k = pdEntry[t].open /\ l = pdEntry[t].live
    BY <1>2 DEF DoorTypes, EntryRec
  <1> DEFINE u == [r EXCEPT !.pc = "srv"]
  <1> DEFINE e == [pdEntry[t] EXCEPT !.open = IF l THEN k + 1 ELSE k]
  <1>5. e \in EntryRec /\ e.live = l /\ e.open = IF l THEN k + 1 ELSE k
    <2>1. pdEntry[t] \in EntryRec /\ (IF l THEN k + 1 ELSE k) \in Nat
      BY <1>2 DEF DoorTypes
    <2>. QED BY <1>4, <2>1, EntryChanges
  <1>6. pdEntry' = [pdEntry EXCEPT ![t] = e]
    <2>1. pdEntry' = [pdEntry EXCEPT ![t].open = IF pdEntry[t].live THEN @ + 1 ELSE @]
      BY <1>1, <1>3 DEF ServerCounts
    <2>. QED BY <1>2, <1>4, <2>1 DEF DoorTypes
  <1>7. Moves(c, u) /\ UNCHANGED <<pdMap, pdArrivals, pdCompletions>> /\ pdExcused' = pdExcused /\ pdStale' = pdStale
    BY <1>1 DEF ServerCounts, metricVars, faultVars
  <1>8. u \in ConnRec /\ u.pc = "srv" /\ u.svc = r.svc /\ u.counted = r.counted /\ u.told = r.told
    BY DEF ConnRec, DoorPcs
  <1> HIDE DEF u, e
  <1>9. ConnOk(u) /\ Weight(u, t) = Weight(r, t) + 1
    BY <1>1, <1>3, <1>8 DEF ConnOk, Weight, Owes, Twice, Bit
  <1>10. Bit(Asks(u)) = 1 /\ Bit(Asks(pdConn[c])) = 1
    BY <1>1, <1>8 DEF Bit, Asks
  <1>11. /\ pdEntry' \in [PdServices -> EntryRec] /\ pdEntry'[t] = e
         /\ \A q \in PdServices \ {t} : pdEntry'[q] = pdEntry[q]
    BY <1>2, <1>5, <1>6, EntryFields
  <1>12. t \notin pdExcused \cup pdStale => l
    BY <1>1, <1>3, <1>4 DEF DoorInv, EntryOk
  <1>13. ASSUME NEW s \in PdServices \ pdExcused'
         PROVE  EntryMoves(c, u, s)
    <2>1. CASE s = t
      <3>1. pdEntry'[s] = e /\ Weight(pdConn[c], s) \in Nat /\ Weight(u, s) = Weight(pdConn[c], s) + 1 /\ pdEntry[s].open = k
        BY <1>1, <1>4, <1>9, <1>11, <2>1, WeightType
      <3>2. l \/ s \in pdStale'
        BY <1>7, <1>12, <2>1
      <3>3. pdEntry[s].live = l /\ e.open \in Nat
        BY <1>4, <1>5, <2>1
      <3>4. e.open > k => l
        BY <1>4, <1>5
      <3>5. CASE l
        <4>1. e.open = k + 1 /\ pdEntry'[s].live
          BY <1>5, <3>1, <3>5
        <4>2. pdEntry'[s].open + Weight(pdConn[c], s) = pdEntry[s].open + Weight(u, s)
          BY <3>1, <4>1
        <4>. QED BY <4>1, <4>2 DEF EntryMoves
      <3>6. CASE ~l
        BY <1>5, <1>8, <3>1, <3>2, <3>3, <3>6 DEF EntryMoves
      <3>. QED BY <3>5, <3>6
    <2>2. CASE s # t
      <3>1. pdEntry'[s] = pdEntry[s] /\ Weight(pdConn[c], s) = 0 /\ Weight(u, s) = 0 /\ pdEntry[s].open \in Nat
        BY <1>1, <1>2, <1>3, <1>8, <1>11, <2>2, WeightElsewhere DEF DoorTypes, EntryRec
      <3>. QED BY <1>8, <3>1 DEF EntryMoves
    <2>. QED BY <2>1, <2>2
  <1>14. StaleKept
    BY <1>7, SameStale
  <1>. QED BY <1>2, <1>7, <1>8, <1>9, <1>10, <1>11, <1>13, <1>14, OneConnection

\* A connection that goes on, or is over, without a change of the entries.
LEMMA GoesOn ==
    ASSUME DoorInv, NEW c \in PdConns, NEW r \in ConnRec, r = pdConn[c], NEW rec \in ConnRec, ConnOk(rec), Moves(c, rec),
           pdMap' = pdMap, pdEntry' = pdEntry, rec.pc # "built",
           pdArrivals' = pdArrivals + Bit(Asks(rec) /\ ~Asks(r)),
           pdCompletions' = pdCompletions + Bit(Asks(r) /\ ~Asks(rec)),
           pdExcused \subseteq pdExcused', UNCHANGED pdStale, \A s \in PdServices \ pdExcused' : Weight(rec, s) = Weight(r, s)
    PROVE  DoorInv'
  <1>1. pdArrivals \in Nat /\ pdCompletions \in Nat
    BY DEF DoorInv, DoorTypes
  <1>2. /\ pdArrivals' + pdCompletions + Bit(Asks(pdConn[c])) = pdArrivals + pdCompletions' + Bit(Asks(rec))
        /\ pdArrivals' \in Nat /\ pdCompletions' \in Nat
    BY <1>1 DEF Bit
  <1>3. \A s \in PdServices \ pdExcused' : Weight(pdConn[c], s) = Weight(rec, s)
    OBVIOUS
  <1>. QED BY <1>2, <1>3, SameStale, SameEntries

\* The records of the ways out.
LEMMA WaysOut ==
    ASSUME NEW r \in ConnRec, ConnOk(r), r.counted, r.pc \notin {"idle", "done"}, r.told = 0
    PROVE  /\ LET u == [r EXCEPT !.pc = "close", !.tries = CLOSE_RETRIES]
              IN  /\ u \in ConnRec /\ ConnOk(u) /\ u.pc = "close" /\ u.svc = r.svc /\ ~Asks(u)
                  /\ r.pc \notin {"srv", "cancel"} => \A s : Weight(u, s) = Weight(r, s)
           /\ LET u == [r EXCEPT !.pc = "cancel", !.tries = CLOSE_RETRIES]
              IN  /\ u \in ConnRec /\ ConnOk(u) /\ u.pc = "cancel" /\ u.svc = r.svc /\ ~Asks(u)
                  /\ r.pc = "srv" => \A s : Weight(u, s) = Weight(r, s)
  <1>1. PICK t \in Int : t = CLOSE_RETRIES
    BY PdAssumption
  <1>2. ASSUME NEW p \in {"close", "cancel"}
        PROVE  LET u == [r EXCEPT !.pc = p, !.tries = t]
               IN  /\ u \in ConnRec /\ u.pc = p /\ u.svc = r.svc /\ u.counted = r.counted /\ u.told = r.told
    BY DEF ConnRec, DoorPcs
  <1> DEFINE u == [r EXCEPT !.pc = "close", !.tries = t]
  <1> DEFINE v == [r EXCEPT !.pc = "cancel", !.tries = t]
  <1>3. /\ u \in ConnRec /\ u.pc = "close" /\ u.svc = r.svc /\ u.counted = r.counted /\ u.told = r.told
        /\ v \in ConnRec /\ v.pc = "cancel" /\ v.svc = r.svc /\ v.counted = r.counted /\ v.told = r.told
    BY <1>2
  <1> HIDE DEF u, v
  <1>4. ConnOk(u) /\ ~Asks(u) /\ (r.pc \notin {"srv", "cancel"} => \A s : Weight(u, s) = Weight(r, s))
    BY <1>3 DEF ConnOk, Asks, Weight, Owes, Twice, Bit
  <1>5. ConnOk(v) /\ ~Asks(v) /\ (r.pc = "srv" => \A s : Weight(v, s) = Weight(r, s))
    BY <1>3 DEF ConnOk, Asks, Weight, Owes, Twice, Bit
  <1>. QED BY <1>1, <1>3, <1>4, <1>5 DEF u, v

LEMMA LookupFailsStep ==
    ASSUME DoorInv, NEW c \in PdConns, LookupFails(c)
    PROVE  DoorInv'
  <1>1. PICK r \in ConnRec : r = pdConn[c] /\ ConnOk(r) /\ r.pc \in {"rpc", "build"}
    BY DEF DoorInv, DoorTypes, LookupFails, At
  <1>2. /\ UNCHANGED <<pdMap, pdEntry, pdArrivals, pdStale>> /\ pdExcused' = pdExcused /\ pdCompletions' = pdCompletions + 1
        /\ Moves(c, IF r.counted THEN [r EXCEPT !.pc = "close", !.tries = CLOSE_RETRIES] ELSE [NewConn EXCEPT !.pc = "done"])
    BY <1>1 DEF LookupFails, faultVars
  <1>3. Asks(r) /\ r.told = 0 /\ pdArrivals \in Nat
    BY <1>1 DEF Asks, ConnOk, DoorInv, DoorTypes
  <1>4. CASE r.counted
    <2> DEFINE u == [r EXCEPT !.pc = "close", !.tries = CLOSE_RETRIES]
    <2>1. /\ u \in ConnRec /\ ConnOk(u) /\ u.pc = "close" /\ ~Asks(u)
          /\ \A s : Weight(u, s) = Weight(r, s)
      BY <1>1, <1>3, <1>4, WaysOut
    <2>2. Moves(c, u)
      BY <1>2, <1>4
    <2> HIDE DEF u
    <2>3. /\ pdArrivals' = pdArrivals + Bit(Asks(u) /\ ~Asks(r))
          /\ pdCompletions' = pdCompletions + Bit(Asks(r) /\ ~Asks(u))
      BY <1>2, <1>3, <2>1 DEF Bit
    <2>4. /\ pdMap' = pdMap /\ pdEntry' = pdEntry /\ pdStale' = pdStale /\ u.pc # "built" /\ pdExcused \subseteq pdExcused'
          /\ \A s \in PdServices \ pdExcused' : Weight(u, s) = Weight(r, s)
      BY <1>1, <1>2, <2>1, <2>2, <2>3
    <2>. QED BY <1>1, <2>1, <2>2, <2>3, <2>4, GoesOn, ZenonT(60)
  <1>5. CASE ~r.counted
    <2> DEFINE u == [NewConn EXCEPT !.pc = "done"]
    <2>1. u \in ConnRec /\ ConnOk(u) /\ (\A s : Weight(u, s) = 0) /\ ~Asks(u) /\ u.pc = "done"
      BY FreshConns
    <2>2. Moves(c, u)
      BY <1>2, <1>5
    <2> HIDE DEF u
    <2>3. /\ pdArrivals' = pdArrivals + Bit(Asks(u) /\ ~Asks(r))
          /\ pdCompletions' = pdCompletions + Bit(Asks(r) /\ ~Asks(u))
      BY <1>2, <1>3, <2>1 DEF Bit
    <2>4. \A s : Weight(r, s) = 0
      BY <1>1, <1>5 DEF Weight, Bit, Owes, Twice
    <2>5. /\ pdMap' = pdMap /\ pdEntry' = pdEntry /\ pdStale' = pdStale /\ u.pc # "built" /\ pdExcused \subseteq pdExcused'
          /\ \A s \in PdServices \ pdExcused' : Weight(u, s) = Weight(r, s)
      BY <1>1, <1>2, <2>1, <2>2, <2>3, <2>4
    <2>. QED BY <1>1, <2>1, <2>2, <2>3, <2>4, <2>5, GoesOn, Zenon
  <1>. QED BY <1>4, <1>5

LEMMA AnsweredStep ==
    ASSUME DoorInv, NEW c \in PdConns, Answered(c)
    PROVE  DoorInv'
  <1>1. PICK r \in ConnRec : r = pdConn[c] /\ ConnOk(r) /\ r.pc = "srv"
    BY DEF DoorInv, DoorTypes, Answered, At
  <1>2. /\ UNCHANGED <<pdMap, pdEntry, pdArrivals, pdStale>> /\ pdExcused' = pdExcused /\ pdCompletions' = pdCompletions + 1
        /\ Moves(c, IF r.counted THEN [r EXCEPT !.pc = "cancel", !.tries = CLOSE_RETRIES]
                    ELSE [r EXCEPT !.pc = "up", !.counted = TRUE])
    BY <1>1 DEF Answered, faultVars
  <1>3. Asks(r) /\ r.told = 0 /\ pdArrivals \in Nat /\ r.svc \in PdServices
    BY <1>1 DEF Asks, ConnOk, DoorInv, DoorTypes
  <1>4. CASE r.counted
    <2> DEFINE u == [r EXCEPT !.pc = "cancel", !.tries = CLOSE_RETRIES]
    <2>1. /\ u \in ConnRec /\ ConnOk(u) /\ u.pc = "cancel" /\ ~Asks(u)
          /\ \A s : Weight(u, s) = Weight(r, s)
      BY <1>1, <1>3, <1>4, WaysOut
    <2>2. Moves(c, u)
      BY <1>2, <1>4
    <2> HIDE DEF u
    <2>3. /\ pdArrivals' = pdArrivals + Bit(Asks(u) /\ ~Asks(r))
          /\ pdCompletions' = pdCompletions + Bit(Asks(r) /\ ~Asks(u))
      BY <1>2, <1>3, <2>1 DEF Bit
    <2>4. /\ pdMap' = pdMap /\ pdEntry' = pdEntry /\ pdStale' = pdStale /\ u.pc # "built" /\ pdExcused \subseteq pdExcused'
          /\ \A s \in PdServices \ pdExcused' : Weight(u, s) = Weight(r, s)
      BY <1>1, <1>2, <2>1, <2>2, <2>3
    <2>. QED BY <1>1, <2>1, <2>2, <2>3, <2>4, GoesOn, ZenonT(60)
  <1>5. CASE ~r.counted
    <2> DEFINE u == [r EXCEPT !.pc = "up", !.counted = TRUE]
    <2>1. u \in ConnRec /\ u.pc = "up" /\ u.svc = r.svc /\ u.counted = TRUE /\ u.told = r.told
      BY ConnFields, Zenon
    <2>2. Moves(c, u)
      BY <1>2, <1>5
    <2> HIDE DEF u
    <2>3. ConnOk(u) /\ ~Asks(u) /\ \A s : Weight(u, s) = Weight(r, s)
      BY <1>1, <1>3, <1>5, <2>1 DEF ConnOk, Asks, Weight, Owes, Twice, Bit
    <2>4. /\ pdArrivals' = pdArrivals + Bit(Asks(u) /\ ~Asks(r))
          /\ pdCompletions' = pdCompletions + Bit(Asks(r) /\ ~Asks(u))
      BY <1>2, <1>3, <2>3 DEF Bit
    <2>5. /\ pdMap' = pdMap /\ pdEntry' = pdEntry /\ pdStale' = pdStale /\ u.pc # "built" /\ pdExcused \subseteq pdExcused'
          /\ \A s \in PdServices \ pdExcused' : Weight(u, s) = Weight(r, s)
      BY <1>1, <1>2, <2>1, <2>2, <2>3, <2>4
    <2>. QED BY <1>1, <2>1, <2>2, <2>3, <2>4, <2>5, GoesOn, Zenon
  <1>. QED BY <1>4, <1>5

LEMMA AnswerLostStep ==
    ASSUME DoorInv, NEW c \in PdConns, AnswerLost(c)
    PROVE  DoorInv'
  <1>1. PICK r \in ConnRec : r = pdConn[c] /\ ConnOk(r) /\ r.pc = "srv"
    BY DEF DoorInv, DoorTypes, AnswerLost, At
  <1>2. /\ UNCHANGED <<pdMap, pdEntry, pdArrivals, pdStale>> /\ pdExcused' = pdExcused \cup {r.svc}
        /\ pdCompletions' = pdCompletions + 1
        /\ Moves(c, IF r.counted THEN [r EXCEPT !.pc = "close", !.tries = CLOSE_RETRIES] ELSE [NewConn EXCEPT !.pc = "done"])
    BY <1>1 DEF AnswerLost
  <1>3. Asks(r) /\ r.told = 0 /\ pdArrivals \in Nat
    BY <1>1 DEF Asks, ConnOk, DoorInv, DoorTypes
  <1>4. CASE r.counted
    <2> DEFINE u == [r EXCEPT !.pc = "close", !.tries = CLOSE_RETRIES]
    <2>1. u \in ConnRec /\ ConnOk(u) /\ u.pc = "close" /\ u.svc = r.svc /\ ~Asks(u)
      BY <1>1, <1>3, <1>4, WaysOut
    <2>2. Moves(c, u)
      BY <1>2, <1>4
    <2> HIDE DEF u
    <2>3. /\ pdArrivals' = pdArrivals + Bit(Asks(u) /\ ~Asks(r))
          /\ pdCompletions' = pdCompletions + Bit(Asks(r) /\ ~Asks(u))
      BY <1>2, <1>3, <2>1 DEF Bit
    <2>4. \A s : s # r.svc => Weight(u, s) = 0
      BY <2>1, WeightElsewhere
    <2>5. /\ pdMap' = pdMap /\ pdEntry' = pdEntry /\ pdStale' = pdStale /\ u.pc # "built" /\ pdExcused \subseteq pdExcused'
          /\ \A s \in PdServices \ pdExcused' : Weight(u, s) = Weight(r, s)
      BY <1>1, <1>2, <2>1, <2>2, <2>3, <2>4, WeightElsewhere
    <2>. QED BY <1>1, <2>1, <2>2, <2>3, <2>4, <2>5, GoesOn, ZenonT(60)
  <1>5. CASE ~r.counted
    <2> DEFINE u == [NewConn EXCEPT !.pc = "done"]
    <2>1. u \in ConnRec /\ ConnOk(u) /\ (\A s : Weight(u, s) = 0) /\ ~Asks(u) /\ u.pc = "done"
      BY FreshConns
    <2>2. Moves(c, u)
      BY <1>2, <1>5
    <2> HIDE DEF u
    <2>3. /\ pdArrivals' = pdArrivals + Bit(Asks(u) /\ ~Asks(r))
          /\ pdCompletions' = pdCompletions + Bit(Asks(r) /\ ~Asks(u))
      BY <1>2, <1>3, <2>1 DEF Bit
    <2>4. /\ pdMap' = pdMap /\ pdEntry' = pdEntry /\ pdStale' = pdStale /\ u.pc # "built" /\ pdExcused \subseteq pdExcused'
          /\ \A s \in PdServices \ pdExcused' : Weight(u, s) = Weight(r, s)
      BY <1>1, <1>2, <2>1, <2>2, <2>3, WeightElsewhere
    <2>. QED BY <1>1, <2>1, <2>2, <2>3, <2>4, GoesOn, Zenon
  <1>. QED BY <1>4, <1>5

\* Logging, the end of a relay, the sweep of an idle session, and the abort of
\* a listener.
CloseBegins(c) ==
    /\ At(c, {"up"})
    /\ Moves(c, [pdConn[c] EXCEPT !.pc = "close", !.tries = CLOSE_RETRIES])
    /\ UNCHANGED <<pdMap, pdEntry, pdArrivals, pdCompletions, pdExcused, pdStale>>

LEMMA EndsStep ==
    ASSUME DoorInv, NEW c \in PdConns, CloseBegins(c)
    PROVE  DoorInv'
  <1>0. At(c, {"up"}) /\ UNCHANGED <<pdMap, pdEntry, pdArrivals, pdCompletions, pdExcused, pdStale>>
    BY DEF CloseBegins
  <1>1. PICK r \in ConnRec : r = pdConn[c] /\ ConnOk(r) /\ r.pc = "up"
    BY <1>0 DEF DoorInv, DoorTypes, At
  <1>2. r.counted /\ r.told = 0 /\ ~Asks(r)
    BY <1>1 DEF ConnOk, Asks
  <1>7. pdArrivals \in Nat /\ pdCompletions \in Nat
    BY DEF DoorInv, DoorTypes
  <1> DEFINE u == [r EXCEPT !.pc = "close", !.tries = CLOSE_RETRIES]
  <1>3. /\ u \in ConnRec /\ ConnOk(u) /\ u.pc = "close" /\ ~Asks(u)
        /\ \A s : Weight(u, s) = Weight(r, s)
    BY <1>1, <1>2, WaysOut
  <1>4. Moves(c, u)
    BY <1>1 DEF CloseBegins
  <1> HIDE DEF u
  <1>5. /\ pdArrivals' = pdArrivals + Bit(Asks(u) /\ ~Asks(r))
        /\ pdCompletions' = pdCompletions + Bit(Asks(r) /\ ~Asks(u))
    BY <1>0, <1>2, <1>3, <1>7 DEF Bit
  <1>6. /\ pdMap' = pdMap /\ pdEntry' = pdEntry /\ pdStale' = pdStale /\ u.pc # "built" /\ pdExcused \subseteq pdExcused'
        /\ \A s \in PdServices \ pdExcused' : Weight(u, s) = Weight(r, s)
    BY <1>0, <1>1, <1>3, <1>4, <1>5
  <1>. QED BY <1>1, <1>3, <1>4, <1>5, <1>6, GoesOn, Zenon

LEMMA AbortedStep ==
    ASSUME DoorInv, NEW c \in PdConns, Aborted(c)
    PROVE  DoorInv'
  <1>1. UNCHANGED <<pdMap, pdEntry, pdArrivals, pdStale>>
    BY DEF Aborted
  <1>2. CASE /\ Asking(c) /\ Moves(c, [NewConn EXCEPT !.pc = "done"])
             /\ pdExcused' = pdExcused \cup {pdConn[c].svc}
             /\ pdCompletions' = pdCompletions + 1
    <2>1. PICK r \in ConnRec : r = pdConn[c] /\ Asks(r)
      BY <1>2 DEF DoorInv, DoorTypes, Asking, At, Asks
    <2> DEFINE u == [NewConn EXCEPT !.pc = "done"]
    <2>2. u \in ConnRec /\ ConnOk(u) /\ (\A s : Weight(u, s) = 0) /\ ~Asks(u) /\ u.pc = "done"
      BY FreshConns
    <2>3. Moves(c, u) /\ pdArrivals \in Nat
      BY <1>2 DEF DoorInv, DoorTypes
    <2> HIDE DEF u
    <2>4. /\ pdArrivals' = pdArrivals + Bit(Asks(u) /\ ~Asks(r))
          /\ pdCompletions' = pdCompletions + Bit(Asks(r) /\ ~Asks(u))
      BY <1>1, <1>2, <2>1, <2>2, <2>3 DEF Bit
    <2>5. /\ pdMap' = pdMap /\ pdEntry' = pdEntry /\ pdStale' = pdStale /\ u.pc # "built" /\ pdExcused \subseteq pdExcused'
          /\ \A s \in PdServices \ pdExcused' : Weight(u, s) = Weight(r, s)
      BY <1>1, <1>2, <2>1, <2>2, <2>3, <2>4, WeightElsewhere
    <2>. QED BY <1>1, <2>1, <2>2, <2>3, <2>4, <2>5, GoesOn, Zenon
  <1>3. CASE /\ At(c, {"up"}) /\ Moves(c, [pdConn[c] EXCEPT !.pc = "close", !.tries = CLOSE_RETRIES])
             /\ UNCHANGED <<pdExcused, pdCompletions>>
    BY <1>1, <1>3, EndsStep DEF CloseBegins
  <1>. QED BY <1>2, <1>3 DEF Aborted

LEMMA UpstreamFailsStep ==
    ASSUME DoorInv, NEW c \in PdConns, UpstreamFails(c)
    PROVE  DoorInv'
  <1>1. PICK r \in ConnRec : r = pdConn[c] /\ ConnOk(r) /\ r.pc = "up"
    BY DEF DoorInv, DoorTypes, UpstreamFails, At
  <1>2. ~Asks(r) /\ pdArrivals \in Nat /\ pdCompletions \in Nat
    BY <1>1 DEF Asks, DoorInv, DoorTypes
  <1> DEFINE u == [r EXCEPT !.pc = "wait"]
  <1>3. /\ Moves(c, u) /\ UNCHANGED <<pdMap, pdEntry, pdCompletions, pdExcused, pdStale>> /\ pdArrivals' = pdArrivals + 1
    BY <1>1 DEF UpstreamFails
  <1>4. u \in ConnRec /\ u.pc = "wait" /\ u.svc = r.svc /\ u.counted = r.counted /\ u.told = r.told
    BY DEF ConnRec, DoorPcs
  <1> HIDE DEF u
  <1>5. ConnOk(u) /\ Asks(u) /\ \A s : Weight(u, s) = Weight(r, s)
    BY <1>1, <1>4 DEF ConnOk, Asks, Weight, Owes, Twice
  <1>6. /\ pdArrivals' = pdArrivals + Bit(Asks(u) /\ ~Asks(r))
        /\ pdCompletions' = pdCompletions + Bit(Asks(r) /\ ~Asks(u))
    BY <1>2, <1>3, <1>5 DEF Bit
  <1>7. /\ pdMap' = pdMap /\ pdEntry' = pdEntry /\ pdStale' = pdStale /\ u.pc # "built" /\ pdExcused \subseteq pdExcused'
        /\ \A s \in PdServices \ pdExcused' : Weight(u, s) = Weight(r, s)
    BY <1>1, <1>3, <1>4, <1>5, <1>6
  <1>. QED BY <1>1, <1>3, <1>4, <1>5, <1>6, <1>7, GoesOn, Zenon

-----------------------------------------------------------------------------
(* The close of a counted connection, or of its second count *)

LEMMA ClosedEntry ==
    ASSUME DoorTypes, NEW t \in PdServices, pdEntry' = Closed(t)
    PROVE  /\ pdEntry' \in [PdServices -> EntryRec]
           /\ \A q \in PdServices \ {t} : pdEntry'[q] = pdEntry[q]
           /\ pdEntry'[t].live = pdEntry[t].live
           /\ pdEntry[t].live /\ pdEntry[t].open > 0 => pdEntry'[t].open = pdEntry[t].open - 1
           /\ pdEntry[t].open = 0 => pdEntry'[t].open = 0
  <1>1. PICK k \in Nat, l \in BOOLEAN : k = pdEntry[t].open /\ l = pdEntry[t].live
    BY DEF DoorTypes, EntryRec
  <1>2. PICK n \in Nat : n = IF l /\ k > 0 THEN k - 1 ELSE k
    OBVIOUS
  <1> DEFINE e == [pdEntry[t] EXCEPT !.open = n]
  <1>3. e \in EntryRec /\ e.live = l /\ e.open = n
    <2>1. pdEntry[t] \in EntryRec
      BY DEF DoorTypes
    <2>. QED BY <1>1, <2>1, EntryChanges
  <1>4. pdEntry' = [pdEntry EXCEPT ![t] = e]
    BY <1>1, <1>2 DEF Closed, DoorTypes
  <1> HIDE DEF e
  <1>5. /\ pdEntry' \in [PdServices -> EntryRec] /\ pdEntry'[t] = e
        /\ \A q \in PdServices \ {t} : pdEntry'[q] = pdEntry[q]
    BY <1>3, <1>4, EntryFields
  <1>. QED BY <1>1, <1>2, <1>3, <1>5

LEMMA CloseReport ==
    ASSUME DoorInv, NEW c \in PdConns, NEW r \in ConnRec, r = pdConn[c], ConnOk(r), r.pc \in {"cancel", "close"},
           NEW rec \in ConnRec, ConnOk(rec), ~Asks(rec), rec.pc # "built", Moves(c, rec),
           NEW delivered \in BOOLEAN, pdEntry' = IF delivered THEN Closed(r.svc) ELSE pdEntry,
           UNCHANGED <<pdMap, pdArrivals, pdCompletions, pdStale>>, pdExcused \subseteq pdExcused',
           \A s : s # r.svc => Weight(rec, s) = 0,
           r.svc \notin pdExcused' =>
               (delivered => r.told = 0) /\ Weight(rec, r.svc) + Bit(delivered) = Weight(r, r.svc)
    PROVE  DoorInv'
  <1>1. DoorTypes /\ pdArrivals' \in Nat /\ pdCompletions' \in Nat
    BY DEF DoorInv, DoorTypes
  <1>2. PICK t \in PdServices : t = r.svc
    BY DEF ConnOk
  <1>3. /\ pdEntry' \in [PdServices -> EntryRec]
        /\ \A q \in PdServices \ {t} : pdEntry'[q] = pdEntry[q]
        /\ pdEntry'[t].live = pdEntry[t].live
        /\ pdEntry[t].live /\ pdEntry[t].open > 0 /\ delivered => pdEntry'[t].open = pdEntry[t].open - 1
        /\ pdEntry[t].open = 0 => pdEntry'[t].open = 0
        /\ ~delivered => pdEntry'[t].open = pdEntry[t].open
    <2>1. CASE delivered
      <3>1. pdEntry' = Closed(t)
        BY <1>2, <2>1
      <3>. QED BY <1>1, <2>1, <3>1, ClosedEntry
    <2>2. CASE ~delivered
      BY <1>1, <2>2 DEF DoorTypes
    <2>. QED BY <2>1, <2>2
  <1>4. pdArrivals' + pdCompletions + Bit(Asks(pdConn[c])) = pdArrivals + pdCompletions' + Bit(Asks(rec))
    BY DEF Asks, Bit
  <1>5. ASSUME NEW s \in PdServices \ pdExcused'
        PROVE  EntryMoves(c, rec, s)
    <2>0. pdEntry[s].open \in Nat
      BY <1>1 DEF DoorTypes, EntryRec
    <2>1. CASE s = t
      <3>1. Weight(rec, s) + Bit(delivered) = Weight(pdConn[c], s) /\ Weight(rec, s) \in Nat
        BY <1>2, <2>1, WeightType
      <3>2. CASE delivered
        <4>1. Owes(pdConn[c], s)
          <5>1. r.svc = s /\ r.told = 0
            BY <1>2, <2>1, <3>2
          <5>2. r.counted
            BY DEF ConnOk
          <5>. QED BY <5>1, <5>2 DEF Owes
        <4>2. pdEntry[s].open > 0 => pdEntry[s].live
          BY DEF DoorInv, EntryOk
        <4>3. s \notin pdStale => pdEntry[s].open > 0
          BY <4>1, OwingCounts
        <4>4. Bit(delivered) = 1 /\ pdEntry'[s].live = pdEntry[s].live
          BY <1>3, <2>1, <3>2 DEF Bit
        <4>5. CASE pdEntry[s].open > 0
          <5>1. pdEntry'[s].open = pdEntry[s].open - 1
            BY <1>3, <2>1, <3>2, <4>2, <4>5
          <5>. QED BY <2>0, <3>1, <4>4, <5>1 DEF EntryMoves
        <4>6. CASE pdEntry[s].open = 0
          <5>1. pdEntry'[s].open = 0 /\ s \in pdStale'
            BY <1>3, <2>1, <4>3, <4>6
          <5>. QED BY <4>4, <4>6, <5>1 DEF EntryMoves
        <4>. QED BY <2>0, <4>5, <4>6
      <3>3. CASE ~delivered
        <4>1. pdEntry'[s].open = pdEntry[s].open /\ (pdEntry[s].live => pdEntry'[s].live)
          BY <1>3, <2>1, <3>3
        <4>2. Bit(delivered) = 0
          BY <3>3 DEF Bit
        <4>. QED BY <2>0, <3>1, <4>1, <4>2 DEF EntryMoves
      <3>. QED BY <3>2, <3>3
    <2>2. CASE s # t
      <3>1. pdEntry'[s] = pdEntry[s] /\ Weight(pdConn[c], s) = 0 /\ Weight(rec, s) = 0
        BY <1>2, <1>3, <2>2, WeightElsewhere
      <3>. QED BY <2>0, <3>1 DEF EntryMoves
    <2>. QED BY <2>1, <2>2
  <1>. QED BY <1>1, <1>3, <1>4, <1>5, SameStale, OneConnection

\* What After(c) leaves of a connection.
LEMMA AfterClose ==
    ASSUME NEW c \in PdConns, NEW r \in ConnRec, r = pdConn[c], ConnOk(r), r.pc \in {"cancel", "close"}
    PROVE  /\ After(c) \in ConnRec /\ ConnOk(After(c)) /\ ~Asks(After(c)) /\ After(c).pc # "built"
           /\ \A s : s # r.svc => Weight(After(c), s) = 0
           /\ Weight(After(c), r.svc) + Bit(r.told = 0) = Weight(r, r.svc)
  <1>1. CASE r.pc = "cancel"
    <2> DEFINE u == [r EXCEPT !.pc = "up", !.tries = 0, !.told = 0]
    <2>1. After(c) = u
      <3>1. At(c, {"cancel"})
        BY <1>1 DEF At
      <3>. QED BY <3>1 DEF After
    <2>2. u \in ConnRec /\ u.pc = "up" /\ u.svc = r.svc /\ u.counted = r.counted /\ u.told = 0
      BY ConnFields, Zenon
    <2> HIDE DEF u
    <2>3. ConnOk(u) /\ ~Asks(u) /\ (\A s : s # r.svc => Weight(u, s) = 0)
      BY <1>1, <2>2 DEF ConnOk, Asks, Weight, Bit, Owes, Twice
    <2>4. Weight(u, r.svc) + Bit(r.told = 0) = Weight(r, r.svc)
      BY <1>1, <2>2 DEF ConnOk, Weight, Bit, Owes, Twice
    <2>. QED BY <2>1, <2>2, <2>3, <2>4
  <1>2. CASE r.pc = "close"
    <2> DEFINE u == [NewConn EXCEPT !.pc = "done"]
    <2>1. After(c) = u
      BY <1>2 DEF After, At
    <2>2. u \in ConnRec /\ ConnOk(u) /\ (\A s : Weight(u, s) = 0) /\ ~Asks(u) /\ u.pc = "done"
      BY FreshConns
    <2> HIDE DEF u
    <2>3. Weight(r, r.svc) = Bit(r.told = 0)
      <3>1. PICK k \in Nat : k = r.told
        BY DEF ConnRec
      <3>2. ~(k > 0) <=> k = 0
        OBVIOUS
      <3>. QED BY <1>2, <3>1, <3>2 DEF ConnOk, Weight, Bit, Owes, Twice
    <2>4. Weight(u, r.svc) + Bit(r.told = 0) = Weight(r, r.svc)
      BY <2>2, <2>3 DEF Bit
    <2>. QED BY <2>1, <2>2, <2>4
  <1>. QED BY <1>1, <1>2

LEMMA CloseOkStep ==
    ASSUME DoorInv, NEW c \in PdConns, CloseOk(c)
    PROVE  DoorInv'
  <1>1. PICK r \in ConnRec : r = pdConn[c] /\ ConnOk(r) /\ r.pc \in {"cancel", "close"}
    BY DEF DoorInv, DoorTypes, CloseOk, At
  <1>2. PICK rec \in ConnRec :
          /\ rec = After(c) /\ ConnOk(rec) /\ ~Asks(rec) /\ rec.pc # "built"
          /\ \A s : s # r.svc => Weight(rec, s) = 0
          /\ Weight(rec, r.svc) + Bit(r.told = 0) = Weight(r, r.svc)
    BY <1>1, AfterClose
  <1>3. /\ Moves(c, rec) /\ pdEntry' = Closed(r.svc) /\ UNCHANGED <<pdMap, pdArrivals, pdCompletions, pdStale>>
        /\ pdExcused' = IF r.told = 0 THEN pdExcused ELSE pdExcused \cup {r.svc}
    BY <1>1, <1>2 DEF CloseOk, metricVars
  <1>4. PICK delivered \in BOOLEAN : delivered
    OBVIOUS
  <1>5. /\ pdExcused \subseteq pdExcused'
        /\ r.svc \notin pdExcused' => r.told = 0
    BY <1>3
  <1>6. r.svc \notin pdExcused' => (delivered => r.told = 0) /\ Weight(rec, r.svc) + Bit(delivered) = Weight(r, r.svc)
    BY <1>2, <1>4, <1>5 DEF Bit
  <1>7. pdEntry' = IF delivered THEN Closed(r.svc) ELSE pdEntry
    BY <1>3, <1>4
  <1>. QED BY <1>1, <1>2, <1>3, <1>5, <1>6, <1>7, CloseReport

LEMMA CloseFailsStep ==
    ASSUME DoorInv, NEW c \in PdConns, NEW delivered \in BOOLEAN, CloseFails(c, delivered)
    PROVE  DoorInv'
  <1>1. PICK r \in ConnRec : r = pdConn[c] /\ ConnOk(r) /\ r.pc \in {"cancel", "close"}
    BY DEF DoorInv, DoorTypes, CloseFails, At
  <1>2. PICK k \in Nat, t \in Int : k = r.told /\ t = r.tries
    BY DEF ConnRec
  <1>3. PICK told \in Nat : told = k + Bit(delivered)
    BY DEF Bit
  <1> DEFINE last == t = 1
  <1>4. /\ pdEntry' = IF delivered THEN Closed(r.svc) ELSE pdEntry
        /\ UNCHANGED <<pdMap, pdArrivals, pdCompletions, pdStale>>
        /\ pdExcused' = IF told > 1 \/ (last /\ told = 0) THEN pdExcused \cup {r.svc} ELSE pdExcused
        /\ Moves(c, IF last THEN After(c) ELSE [r EXCEPT !.tries = t - 1, !.told = told])
    BY <1>1, <1>2, <1>3 DEF CloseFails, metricVars, Bit
  <1>5. /\ pdExcused \subseteq pdExcused'
        /\ r.svc \notin pdExcused' => told \in {0, 1} /\ ~(last /\ told = 0)
    BY <1>4
  <1>6. CASE last
    <2>1. PICK rec \in ConnRec :
            /\ rec = After(c) /\ ConnOk(rec) /\ ~Asks(rec) /\ rec.pc # "built"
            /\ \A s : s # r.svc => Weight(rec, s) = 0
            /\ Weight(rec, r.svc) + Bit(r.told = 0) = Weight(r, r.svc)
      BY <1>1, AfterClose
    <2>2. Moves(c, rec)
      BY <1>4, <1>6, <2>1
    <2>3. r.svc \notin pdExcused' => told = 1 /\ (delivered <=> k = 0)
      BY <1>3, <1>5, <1>6 DEF Bit
    <2>4. r.svc \notin pdExcused' => (delivered => r.told = 0) /\ Weight(rec, r.svc) + Bit(delivered) = Weight(r, r.svc)
      BY <1>2, <2>1, <2>3 DEF Bit
    <2>. QED BY <1>1, <1>4, <1>5, <2>1, <2>2, <2>4, CloseReport
  <1>7. CASE ~last
    <2> DEFINE u == [r EXCEPT !.tries = t - 1, !.told = told]
    <2>1. u \in ConnRec /\ u.pc = r.pc /\ u.svc = r.svc /\ u.counted = r.counted /\ u.told = told
      <3>1. PICK i \in Int : i = t - 1
        OBVIOUS
      <3>2. LET v == [r EXCEPT !.tries = i, !.told = told]
            IN  v \in ConnRec /\ v.pc = r.pc /\ v.svc = r.svc /\ v.counted = r.counted /\ v.told = told
        BY DEF ConnRec
      <3>. QED BY <3>1, <3>2
    <2>2. Moves(c, u)
      BY <1>4, <1>7
    <2> HIDE DEF u
    <2>3. ConnOk(u) /\ ~Asks(u) /\ u.pc # "built" /\ (\A s : s # r.svc => Weight(u, s) = 0)
      BY <1>1, <2>1, WeightElsewhere DEF ConnOk, Asks
    <2>4. r.svc \notin pdExcused' => (delivered => k = 0)
      BY <1>3, <1>5 DEF Bit
    <2>5. r.svc \notin pdExcused' => Weight(u, r.svc) + Bit(delivered) = Weight(r, r.svc)
      BY <1>1, <1>2, <1>3, <2>1, <2>4 DEF ConnOk, Weight, Bit, Owes, Twice
    <2>. QED BY <1>1, <1>2, <1>4, <1>5, <2>1, <2>2, <2>3, <2>4, <2>5, CloseReport
  <1>. QED BY <1>6, <1>7

-----------------------------------------------------------------------------
(* The server's side *)

LEMMA RemapStep ==
    ASSUME DoorInv, NEW m \in PdServices, Remap(m)
    PROVE  DoorInv'
  <1>1. pdMap' = m /\ UNCHANGED <<pdConn, pdEntry, pdArrivals, pdCompletions, pdExcused, pdStale>>
    BY DEF Remap, metricVars, faultVars
  <1>. QED BY <1>1 DEF DoorInv, DoorTypes, ConnOk, EntryOk, Owing, CountedTwice, Owes, Twice, Waiting, Asks

LEMMA EntryGoesStep ==
    ASSUME DoorInv, NEW t \in PdServices, Reap(t) \/ Evicted(t)
    PROVE  DoorInv'
  <1>1. UNCHANGED <<pdConn, pdMap, pdArrivals, pdCompletions, pdStale>> /\ DoorTypes
    BY DEF Reap, Evicted, metricVars, faultVars, DoorInv
  <1>2. PICK e \in EntryRec : pdEntry' = [pdEntry EXCEPT ![t] = e]
    <2>1. CASE Reap(t)
      <3> DEFINE e == [pdEntry[t] EXCEPT !.live = FALSE]
      <3>1. pdEntry' = [pdEntry EXCEPT ![t] = e]
        BY <1>1, <2>1 DEF Reap, DoorTypes
      <3>2. ASSUME NEW f \in EntryRec PROVE [f EXCEPT !.live = FALSE] \in EntryRec
        BY DEF EntryRec
      <3>3. e \in EntryRec
        BY <1>1, <3>2 DEF DoorTypes
      <3>. QED BY <3>1, <3>3
    <2>2. CASE Evicted(t)
      <3> DEFINE e == [live |-> FALSE, open |-> 0]
      <3>1. pdEntry' = [pdEntry EXCEPT ![t] = e]
        BY <2>2 DEF Evicted
      <3>2. e \in EntryRec
        BY DEF EntryRec
      <3>. QED BY <3>1, <3>2
    <2>. QED BY <2>1, <2>2
  <1>3. /\ pdEntry' \in [PdServices -> EntryRec] /\ pdEntry'[t] = e
        /\ \A q \in PdServices \ {t} : pdEntry'[q] = pdEntry[q]
    BY <1>1, <1>2, EntryFields
  <1>4. DoorTypes' /\ (pdArrivals = pdCompletions + Cardinality(Waiting))'
    BY <1>1, <1>3 DEF DoorInv, DoorTypes, Waiting, Asks
  <1>5. \A d \in PdConns : ConnOk(pdConn[d])'
    BY <1>1 DEF DoorInv, ConnOk
  <1>6. pdExcused \subseteq pdExcused'
    BY DEF Reap, Evicted, faultVars
  <1>7. ASSUME NEW s \in PdServices \ pdExcused' PROVE EntryOk(s)'
    <2>1. EntryOk(s)
      BY <1>6 DEF DoorInv
    <2>2. Owing(s)' = Owing(s) /\ CountedTwice(s)' = CountedTwice(s)
      BY <1>1 DEF Owing, CountedTwice, Owes, Twice
    <2>3. CASE s # t
      BY <1>1, <1>3, <2>1, <2>2, <2>3 DEF EntryOk
    <2>4. CASE s = t
      <3>1. Reap(t)
        BY <2>4 DEF Evicted
      <3>2. pdEntry'[t].open = 0 /\ pdEntry[t].open = 0
        <4>1. pdEntry' = [pdEntry EXCEPT ![t].live = FALSE] /\ pdEntry[t].open = 0
          BY <3>1 DEF Reap
        <4>. QED BY <1>1, <4>1 DEF DoorTypes, EntryRec
      <3>3. \A d \in PdConns : ~(pdConn[d].pc = "built" /\ pdConn[d].svc = t)
        BY <3>1 DEF Reap, At
      <3>. QED BY <1>1, <2>1, <2>2, <2>4, <3>2, <3>3 DEF EntryOk
    <2>. QED BY <2>3, <2>4
  <1>. QED BY <1>4, <1>5, <1>7 DEF DoorInv

\* The session of c is found to be incomplete: its service is excused.
LEMMA StaleEvictedStep ==
    ASSUME DoorInv, NEW c \in PdConns, StaleEvicted(c)
    PROVE  DoorInv'
  <1>1. PICK r \in ConnRec : r = pdConn[c] /\ ConnOk(r) /\ r.pc = "sticky"
    BY DEF DoorInv, DoorTypes, StaleEvicted, At
  <1>2. pdArrivals \in Nat /\ pdCompletions \in Nat /\ DoorTypes
    BY DEF DoorInv, DoorTypes
  <1>3. PICK t \in PdServices : t = r.svc
    BY <1>1 DEF ConnOk
  <1> DEFINE u == [r EXCEPT !.pc = "build"]
  <1> DEFINE e == [live |-> FALSE, open |-> 0]
  <1>4. /\ Moves(c, u) /\ UNCHANGED <<pdMap, pdArrivals, pdCompletions, pdStale>>
        /\ pdExcused' = pdExcused \cup {t} /\ pdEntry' = [pdEntry EXCEPT ![t] = e]
    BY <1>1, <1>3 DEF StaleEvicted, metricVars
  <1>5. u \in ConnRec /\ u.pc = "build" /\ u.svc = r.svc /\ u.counted = r.counted /\ u.told = r.told
    BY DEF ConnRec, DoorPcs
  <1>6. e \in EntryRec
    BY DEF EntryRec
  <1> HIDE DEF u, e
  <1>7. ConnOk(u) /\ \A s : Weight(u, s) = Weight(r, s)
    BY <1>1, <1>5 DEF ConnOk, Weight, Owes, Twice
  <1>8. Bit(Asks(u)) = 1 /\ Bit(Asks(pdConn[c])) = 1
    BY <1>1, <1>5 DEF Bit, Asks
  <1>9. /\ pdEntry' \in [PdServices -> EntryRec]
        /\ \A q \in PdServices \ {t} : pdEntry'[q] = pdEntry[q]
    BY <1>2, <1>4, <1>6, EntryFields
  <1>10. ASSUME NEW s \in PdServices \ pdExcused' PROVE EntryMoves(c, u, s)
    <2>1. pdEntry[s].open \in Nat /\ pdEntry'[s] = pdEntry[s] /\ Weight(u, s) = Weight(pdConn[c], s)
      BY <1>1, <1>2, <1>4, <1>7, <1>9 DEF DoorTypes, EntryRec
    <2>. QED BY <1>5, <2>1 DEF EntryMoves
  <1>. QED BY <1>2, <1>4, <1>5, <1>7, <1>8, <1>9, <1>10, SameStale, OneConnection

-----------------------------------------------------------------------------

LEMMA DoorStart == DoorInit => DoorInv
  <1> SUFFICES ASSUME DoorInit PROVE DoorInv
    OBVIOUS
  <1>1. \A c \in PdConns : pdConn[c] = NewConn
    BY DEF DoorInit
  <1>2. \A s \in PdServices : pdEntry[s] = [live |-> FALSE, open |-> 0]
    BY DEF DoorInit
  <1>3. [live |-> FALSE, open |-> 0] \in EntryRec
    BY DEF EntryRec
  <1>4. DoorTypes
    BY <1>3, FreshConns DEF DoorInit, DoorTypes
  <1>5. Cardinality({}) = 0
    BY FS_EmptySet
  <1>6. ~Asks(NewConn) /\ NewConn.pc = "idle" /\ \A s : ~Owes(NewConn, s) /\ ~Twice(NewConn, s)
    BY DEF Asks, NewConn, Owes, Twice
  <1>7. Waiting = {} /\ \A s : Owing(s) = {} /\ CountedTwice(s) = {}
    BY <1>1, <1>6 DEF Waiting, Owing, CountedTwice
  <1>8. ASSUME NEW s \in PdServices PROVE EntryOk(s)
    BY <1>1, <1>2, <1>5, <1>6, <1>7 DEF EntryOk
  <1>9. pdArrivals = pdCompletions + Cardinality(Waiting)
    BY <1>5, <1>7 DEF DoorInit
  <1>. QED BY <1>1, <1>4, <1>8, <1>9, FreshConns DEF DoorInv

LEMMA DoorStep == DoorInv /\ [DoorNext]_pdVars => DoorInv'
  <1> SUFFICES ASSUME DoorInv, [DoorNext]_pdVars PROVE DoorInv'
    OBVIOUS
  <1>1. ASSUME NEW s \in PdServices, Remap(s) \/ Reap(s) \/ Evicted(s) PROVE DoorInv'
    BY <1>1, RemapStep, EntryGoesStep
  <1>2. ASSUME NEW c \in PdConns, NEW b \in BOOLEAN,
               RequestFilter(c, b) \/ HandleConnection(c, b) \/ HandleDatagram(c, b) \/ CloseFails(c, b)
        PROVE  DoorInv'
    BY <1>2, ArrivesStep, CloseFailsStep DEF RequestFilter, HandleConnection, HandleDatagram
  <1>3. ASSUME NEW c \in PdConns, Logging(c) \/ RelayEnds(c) \/ SweepIdle(c) PROVE DoorInv'
    BY <1>3, EndsStep DEF CloseBegins, Logging, RelayEnds, SweepIdle, Ends, metricVars, faultVars
  <1>4. ASSUME NEW c \in PdConns,
               \/ Admitted(c)
               \/ LooksUp(c)
               \/ Reused(c)
               \/ StaleEvicted(c)
               \/ SessionBuilt(c)
               \/ ServerCounts(c)
               \/ LookupFails(c)
               \/ Answered(c)
               \/ AnswerLost(c)
               \/ Aborted(c)
               \/ UpstreamFails(c)
               \/ CloseOk(c)
        PROVE  DoorInv'
    BY <1>4, AdmittedStep, ReusedStep, StaleEvictedStep, SessionBuiltStep, ServerCountsStep, LookupFailsStep, AnsweredStep, AnswerLostStep,
       AbortedStep, UpstreamFailsStep, CloseOkStep
  <1>5. CASE UNCHANGED pdVars
    <2>1. UNCHANGED <<pdConn, pdMap, pdEntry, pdArrivals, pdCompletions, pdExcused, pdStale>>
      BY <1>5 DEF pdVars
    <2>. QED BY <2>1 DEF DoorInv, DoorTypes, ConnOk, EntryOk, Owing, CountedTwice, Owes, Twice, Waiting, Asks
  <1>. QED BY <1>1, <1>2, <1>3, <1>4, <1>5 DEF DoorNext

\* However connections end, and whatever is retried, cancelled, lost or told
\* twice: as long as no fault has put a service's count off, its count returns
\* to zero, its session is never reaped under a connection the proxy has open
\* unless one of its connections was handed a session that had gone between
\* the lookup and the reuse, and the proxy's report is the requests in progress
\* (main.rs of the proxy, nullnet_proxy.rs, proxy_request_locked,
\* mark_connection_open, reap_ingress_timeouts).
THEOREM OpenConnectionsCountedAlways == DoorSpec => []OpenConnectionsCounted
  <1>1. DoorInv => OpenConnectionsCounted
    <2> SUFFICES ASSUME DoorInv PROVE OpenConnectionsCounted
      OBVIOUS
    <2>1. OpenKeepsSession
      <3> SUFFICES ASSUME NEW c \in PdConns, pdConn[c].counted, pdConn[c].pc # "close", pdConn[c].svc \notin pdExcused \cup pdStale
                   PROVE  pdEntry[pdConn[c].svc].live
        BY DEF OpenKeepsSession
      <3>1. PICK s \in PdServices \ (pdExcused \cup pdStale) : s = pdConn[c].svc
        BY DEF DoorInv, ConnOk
      <3>2. Owes(pdConn[c], s)
        BY <3>1 DEF Owes
      <3>. QED BY <3>1, <3>2, OwingCounts
    <2>2. CountSettles
      <3> SUFFICES ASSUME NEW s \in PdServices \ pdExcused, \A c \in PdConns : pdConn[c].svc # s
                   PROVE  pdEntry[s].open = 0
        BY DEF CountSettles, Gone
      <3>1. Owing(s) = {} /\ CountedTwice(s) = {} /\ EntryOk(s)
        BY DEF Owing, CountedTwice, Owes, Twice, DoorInv
      <3>2. Cardinality({}) = 0
        BY FS_EmptySet
      <3>3. pdEntry[s].open \in Nat
        BY DEF DoorInv, DoorTypes, EntryRec
      <3>. QED BY <3>1, <3>2, <3>3 DEF EntryOk
    <2>3. LoadReportIsExact
      <3>1. {c \in PdConns : Asking(c)} = Waiting
        BY DEF Asking, At, Waiting, Asks
      <3>2. IsFiniteSet(Waiting)
        BY PdAssumption, FS_Subset DEF Waiting
      <3>3. Cardinality(Waiting) \in Nat
        BY <3>2, FS_CardinalityType
      <3>4. pdArrivals = pdCompletions + Cardinality(Waiting) /\ pdArrivals \in Nat /\ pdCompletions \in Nat
        BY DEF DoorInv, DoorTypes
      <3>5. pdArrivals - pdCompletions = Cardinality(Waiting)
        BY <3>3, <3>4
      <3>. QED BY <3>1, <3>5 DEF LoadReportIsExact
    <2>. QED BY <2>1, <2>2, <2>3 DEF OpenConnectionsCounted
  <1>. QED BY <1>1, DoorStart, DoorStep, PTL DEF DoorSpec

-----------------------------------------------------------------------------
(* Endpoints.  The invariant says of each endpoint what its step has made  *)
(* and what a batch that holds it has removed (SideOk).  Of the two it     *)
(* says that the sides of a local network are never both inside the lock,  *)
(* and that associations with an owner are there unless a removal failed   *)
(* half way.  A transport that is up has an owner while the process that   *)
(* set it up runs; a new process clears the links before the associations. *)

EpSteps == EpLocked \cup {"none", "up", "failed", "gone", "stuck"}
BatchRecord == [reqs : SUBSET EpSides, left : SUBSET EpSides, ok : BOOLEAN]
Keyed == {"state", "out"} \subseteq epXfrm

EndpointTypes ==
    /\ epMode \in {"local", "remote"}
    /\ epStep \in [EpSides -> EpSteps]
    /\ epUp \subseteq EpSides /\ epKnown \subseteq EpSides /\ epActive \subseteq epKnown /\ epOwners \subseteq EpSides
    /\ epQueue \subseteq EpSides
    /\ epBatch \in BatchRecord /\ epBatch.left \subseteq epBatch.reqs /\ epQueue \cap epBatch.reqs = {}
    /\ epBoot \in {"run", "links", "xfrm"}
    /\ epHalf \in BOOLEAN

\* What a side's step has made.
MadeOk(e) ==
    /\ ~LocalPair /\ epStep[e] \in {"created", "keyed", "up"} => e \in epActive
    /\ ~LocalPair /\ epStep[e] \in {"keyed", "up"} => e \in epOwners
    /\ ~LocalPair /\ epStep[e] = "up" => LinkGroup(e) \subseteq epLinks /\ e \in epUp
    /\ e \in epUp => transportLink(e) \in epLinks
    /\ ~LocalPair /\ epBoot = "run" /\ e \in epUp => e \in epOwners

\* What the worker has removed of it.
BatchOk(e) ==
    /\ e \in epQueue \cup epBatch.reqs => epStep[e] \in {"dying", "removing", "unknown"}
    /\ e \in epBatch.reqs => e \notin epActive
    /\ e \in epBatch.reqs /\ (epBatch.ok \/ e \in epBatch.left) =>
           LinkGroup(e) \cap epLinks = {} /\ (LocalPair => transportLink(OtherSide(e)) \notin epLinks)
    /\ e \in epBatch.reqs /\ epBatch.ok /\ e \notin epBatch.left => e \notin epOwners

GoneOk(e) ==
    epStep[e] = "gone" =>
        /\ e \notin epKnown \cup epOwners /\ outerLink(e) \notin epLinks
        /\ (LocalPair => epStep[OtherSide(e)] \in {"none", "gone"}) => transportLink(e) \notin epLinks

SideOk(e) == MadeOk(e) /\ BatchOk(e) /\ GoneOk(e)

LocalOk ==
    LocalPair =>
        /\ epOwners = {} /\ epBatch.left = {}
        /\ \A e \in EpSides : epStep[e] \in EpLocked => epStep[OtherSide(e)] \notin EpLocked

KeysOk == (epOwners # {} /\ ~epHalf => Keyed) /\ EncryptedWhileUp

BootOk ==
    /\ epBoot # "run" => epStep = [e \in EpSides |-> "none"] /\ epQueue = {} /\ epBatch = NoBatch /\ epOwners = {}
    /\ epBoot = "xfrm" => epUp = {}

EndpointsInv ==
    /\ EndpointTypes
    /\ \A e \in EpSides : SideOk(e)
    /\ LocalOk /\ KeysOk /\ BootOk

LEMMA Sides ==
    /\ \A e \in EpSides : OtherSide(e) \in EpSides /\ OtherSide(e) # e /\ OtherSide(OtherSide(e)) = e
    /\ \A e, f \in EpSides : f = e \/ f = OtherSide(e)
  <1>1. PICK a \in EpSides, b \in EpSides : a # b /\ EpSides = {a, b}
    BY EpAssumption
  <1>2. OtherSide(a) = b /\ OtherSide(b) = a
    BY <1>1 DEF OtherSide
  <1>. QED BY <1>1, <1>2

LEMMA LinksDiffer ==
    \A e, f : /\ outerLink(e) # transportLink(f)
              /\ outerLink(e) = outerLink(f) => e = f
              /\ transportLink(e) = transportLink(f) => e = f
  BY DEF outerLink, transportLink

\* What is left when links are deleted.
LEMMA Remains ==
    ASSUME NEW links
    PROVE  /\ EpWithout(links) \subseteq epLinks /\ links \cap EpWithout(links) = {}
           /\ ~LocalPair => EpWithout(links) = epLinks \ links
           /\ \A e, f \in EpSides : LocalPair /\ transportLink(e) \in links => transportLink(f) \notin EpWithout(links)
  BY DEF EpWithout

\* A task moves and nothing else changes.
LEMMA TeardownEndpointStep ==
    ASSUME EndpointsInv, NEW e \in EpSides, TeardownEndpoint(e)
    PROVE  EndpointsInv'
  <1>1. /\ EndpointTypes /\ (\A f \in EpSides : SideOk(f)) /\ LocalOk /\ KeysOk /\ BootOk
    BY DEF EndpointsInv
  <1>2. /\ epBoot = "run" /\ epStep[e] \in {"up", "failed"} /\ LockFree(e)
        /\ \E to \in {"removing", "unknown"} : epStep' = [epStep EXCEPT ![e] = to]
        /\ UNCHANGED <<epMode, epLinks, epUp, epKnown, epActive, epOwners, epXfrm, epHalf, epQueue, epBatch, epBoot>>
    BY DEF TeardownEndpoint, EpGoto, xfrmVars, workerVars
  <1>3. PICK to \in {"removing", "unknown"} : epStep' = [epStep EXCEPT ![e] = to]
    BY <1>2
  <1>4. /\ epStep' \in [EpSides -> EpSteps]
        /\ \A f \in EpSides : epStep'[f] = IF f = e THEN to ELSE epStep[f]
    BY <1>1, <1>3 DEF EndpointTypes, EpSteps, EpLocked
  <1>5. EndpointTypes'
    BY <1>1, <1>2, <1>4 DEF EndpointTypes
  <1>6. \A f \in EpSides : SideOk(f)'
    <2> SUFFICES ASSUME NEW f \in EpSides PROVE SideOk(f)'
      OBVIOUS
    <2>1. SideOk(f)
      BY <1>1
    <2>2. MadeOk(f)' /\ BatchOk(f)'
      BY <1>2, <1>4, <2>1 DEF SideOk, MadeOk, BatchOk, LocalPair, Keyed
    <2>3. GoneOk(f)'
      BY <1>2, <1>4, <2>1, Sides DEF SideOk, GoneOk, LocalPair
    <2>. QED BY <2>2, <2>3 DEF SideOk
  <1>7. LocalOk' /\ KeysOk' /\ BootOk'
    <2>1. LocalOk'
      BY <1>1, <1>2, <1>4, Sides DEF LocalOk, LocalPair, LockFree
    <2>. QED BY <1>1, <1>2, <2>1 DEF KeysOk, BootOk, EncryptedWhileUp, LocalPair, Keyed
  <1>. QED BY <1>5, <1>6, <1>7 DEF EndpointsInv

LEMMA ReuseEndpointStep ==
    ASSUME EndpointsInv, NEW e \in EpSides, ReuseEndpoint(e)
    PROVE  EndpointsInv'
  <1>1. /\ EndpointTypes /\ (\A f \in EpSides : SideOk(f)) /\ LocalOk /\ KeysOk /\ BootOk
    BY DEF EndpointsInv
  <1>2. /\ epStep[e] = "gone" /\ (LocalPair => epStep[OtherSide(e)] \in {"gone", "none"})
        /\ epStep' = [epStep EXCEPT ![e] = "none"]
        /\ UNCHANGED <<epMode, epLinks, epUp, epKnown, epActive, epOwners, epXfrm, epHalf, epQueue, epBatch, epBoot>>
    BY DEF ReuseEndpoint, EpGoto, xfrmVars, workerVars
  <1>3. /\ epStep' \in [EpSides -> EpSteps]
        /\ \A f \in EpSides : epStep'[f] = IF f = e THEN "none" ELSE epStep[f]
    BY <1>1, <1>2 DEF EndpointTypes, EpSteps, EpLocked
  <1>4. epBoot = "run"
    BY <1>1, <1>2 DEF BootOk
  <1>5. EndpointTypes'
    BY <1>1, <1>2, <1>3 DEF EndpointTypes
  <1>6. \A f \in EpSides : SideOk(f)'
    <2> SUFFICES ASSUME NEW f \in EpSides PROVE SideOk(f)'
      OBVIOUS
    <2>1. SideOk(f)
      BY <1>1
    <2>2. MadeOk(f)' /\ BatchOk(f)'
      BY <1>2, <1>3, <2>1 DEF SideOk, MadeOk, BatchOk, LocalPair, Keyed
    <2>3. GoneOk(f)'
      BY <1>2, <1>3, <2>1, Sides DEF SideOk, GoneOk, LocalPair
    <2>. QED BY <2>2, <2>3 DEF SideOk
  <1>7. LocalOk' /\ KeysOk' /\ BootOk'
    <2>1. LocalOk'
      BY <1>1, <1>2, <1>3, Sides DEF LocalOk, LocalPair, EpLocked
    <2>. QED BY <1>1, <1>2, <1>4, <2>1 DEF KeysOk, BootOk, EncryptedWhileUp, LocalPair, Keyed
  <1>. QED BY <1>5, <1>6, <1>7 DEF EndpointsInv

LEMMA EnqueueCleanupStep ==
    ASSUME EndpointsInv, NEW e \in EpSides, EnqueueCleanup(e)
    PROVE  EndpointsInv'
  <1>1. /\ EndpointTypes /\ (\A f \in EpSides : SideOk(f)) /\ LocalOk /\ KeysOk /\ BootOk
    BY DEF EndpointsInv
  <1>2. /\ epStep[e] \in {"dying", "removing", "unknown"} /\ epQueue' = epQueue \cup {e} /\ e \notin epBatch.reqs
        /\ UNCHANGED <<epMode, epStep, epLinks, epUp, epKnown, epOwners, epXfrm, epHalf, epBatch, epBoot>>
        /\ epActive' \subseteq epActive /\ (~LocalPair => epActive' = epActive)
    BY DEF EnqueueCleanup, xfrmVars, RetireOther, Retire
  <1>3. epBoot = "run"
    BY <1>1, <1>2 DEF BootOk
  <1>4. EndpointTypes'
    BY <1>1, <1>2 DEF EndpointTypes
  <1>5. \A f \in EpSides : SideOk(f)'
    <2> SUFFICES ASSUME NEW f \in EpSides PROVE SideOk(f)'
      OBVIOUS
    <2>1. SideOk(f)
      BY <1>1
    <2>2. MadeOk(f)' /\ BatchOk(f)' /\ GoneOk(f)'
      BY <1>2, <2>1 DEF SideOk, MadeOk, BatchOk, GoneOk, LocalPair
    <2>. QED BY <2>2 DEF SideOk
  <1>6. LocalOk' /\ KeysOk' /\ BootOk'
    BY <1>1, <1>2, <1>3 DEF LocalOk, KeysOk, BootOk, EncryptedWhileUp, LocalPair, Keyed
  <1>. QED BY <1>4, <1>5, <1>6 DEF EndpointsInv

-----------------------------------------------------------------------------
(* Setup *)

LEMMA CreateEndpointStep ==
    ASSUME EndpointsInv, NEW e \in EpSides, NEW ok \in BOOLEAN, CreateEndpoint(e, ok)
    PROVE  EndpointsInv'
  <1>1. /\ EndpointTypes /\ (\A f \in EpSides : SideOk(f)) /\ LocalOk /\ KeysOk /\ BootOk
    BY DEF EndpointsInv
  <1>2. /\ epBoot = "run" /\ epStep[e] = "none" /\ LockFree(e)
        /\ UNCHANGED <<epMode, epUp, epOwners, epXfrm, epHalf, epQueue, epBatch, epBoot>>
        /\ epStep' = [epStep EXCEPT ![e] = IF ok THEN "created" ELSE "undo"]
        /\ IF ok THEN epActive' = epActive \cup {e} /\ epKnown' = epKnown \cup {e} ELSE UNCHANGED <<epActive, epKnown>>
    BY DEF CreateEndpoint, SetupStarts, EpGoto, xfrmVars, workerVars, Classified, RecordEndpoint
  <1>3. PICK mine : epLinks' = epLinks \cup mine /\ \A l \in mine : l \in LinkGroup(e) \/ (LocalPair /\ l = transportLink(OtherSide(e)))
    BY DEF CreateEndpoint
  <1>4. /\ epStep' \in [EpSides -> EpSteps] /\ epStep'[e] = (IF ok THEN "created" ELSE "undo")
        /\ \A f \in EpSides : f # e => epStep'[f] = epStep[f]
    BY <1>1, <1>2 DEF EndpointTypes, EpSteps, EpLocked
  <1>5. EndpointTypes'
    BY <1>1, <1>2, <1>4 DEF EndpointTypes
  <1>6. \A f \in EpSides : SideOk(f)'
    <2> SUFFICES ASSUME NEW f \in EpSides PROVE SideOk(f)'
      OBVIOUS
    <2>1. SideOk(f)
      BY <1>1
    <2>2. MadeOk(f)'
      BY <1>2, <1>3, <1>4, <2>1 DEF SideOk, MadeOk, LocalPair
    <2>3. CASE f = e
      <3>1. BatchOk(f)'
        BY <1>2, <1>4, <2>1, <2>3 DEF SideOk, BatchOk
      <3>2. GoneOk(f)'
        BY <1>4, <2>3 DEF GoneOk
      <3>. QED BY <2>2, <3>1, <3>2 DEF SideOk
    <2>4. CASE f # e
      <3>1. f = OtherSide(e) /\ OtherSide(f) = e
        BY <2>4, Sides
      <3>2. \A l \in mine : l # outerLink(f) /\ (~LocalPair => l # transportLink(f))
        BY <1>3, <2>4, LinksDiffer DEF LinkGroup
      <3>3. f \in epQueue \cup epBatch.reqs => ~LocalPair
        BY <1>2, <2>1, <3>1 DEF SideOk, BatchOk, LockFree, EpLocked
      <3>4. BatchOk(f)'
        <4>1. f \in epBatch.reqs /\ (epBatch.ok \/ f \in epBatch.left) => LinkGroup(f) \cap epLinks' = {}
          BY <1>3, <2>1, <3>2, <3>3 DEF SideOk, BatchOk, LinkGroup
        <4>. QED BY <1>2, <1>4, <2>1, <2>4, <3>3, <4>1 DEF SideOk, BatchOk, LocalPair
      <3>5. GoneOk(f)'
        BY <1>2, <1>3, <1>4, <2>1, <2>4, <3>1, <3>2 DEF SideOk, GoneOk, LocalPair
      <3>. QED BY <2>2, <3>4, <3>5 DEF SideOk
    <2>. QED BY <2>3, <2>4
  <1>7. LocalOk'
    BY <1>1, <1>2, <1>4, Sides DEF LocalOk, LocalPair, LockFree
  <1>8. KeysOk' /\ BootOk'
    BY <1>1, <1>2 DEF KeysOk, BootOk, EncryptedWhileUp, LocalPair, Keyed
  <1>. QED BY <1>5, <1>6, <1>7, <1>8 DEF EndpointsInv

LEMMA DestroyLinksStep ==
    ASSUME EndpointsInv, NEW e \in EpSides, NEW ok \in BOOLEAN, DestroyLinks(e, ok)
    PROVE  EndpointsInv'
  <1>1. /\ EndpointTypes /\ (\A f \in EpSides : SideOk(f)) /\ LocalOk /\ KeysOk /\ BootOk
    BY DEF EndpointsInv
  <1>2. /\ epStep[e] = "undo" /\ epStep' = [epStep EXCEPT ![e] = "failed"]
        /\ UNCHANGED <<epMode, epKnown, epOwners, epXfrm, epHalf, epQueue, epBatch, epBoot>>
        /\ epActive' \subseteq epActive /\ (~LocalPair => epActive \ {e} \subseteq epActive')
    BY DEF DestroyLinks, EpGoto, xfrmVars, workerVars, Retire, Retirements
  <1>3. /\ epLinks' \subseteq epLinks /\ (~LocalPair => epLinks \ LinkGroup(e) \subseteq epLinks')
        /\ epUp' = {f \in epUp : transportLink(f) \in epLinks'}
    <2>1. CASE ok
      BY <2>1, Remains DEF DestroyLinks, LinksGone
    <2>2. CASE ~ok
      <3>1. UNCHANGED <<epLinks, epUp>>
        BY <2>2 DEF DestroyLinks
      <3>. QED BY <1>1, <3>1 DEF SideOk, MadeOk, EndpointTypes
    <2>. QED BY <2>1, <2>2
  <1>4. /\ epStep' \in [EpSides -> EpSteps] /\ epStep'[e] = "failed"
        /\ \A f \in EpSides : f # e => epStep'[f] = epStep[f]
    BY <1>1, <1>2 DEF EndpointTypes, EpSteps, EpLocked
  <1>5. EndpointTypes'
    BY <1>1, <1>2, <1>3, <1>4 DEF EndpointTypes
  <1>6. \A f \in EpSides : SideOk(f)'
    <2> SUFFICES ASSUME NEW f \in EpSides PROVE SideOk(f)'
      OBVIOUS
    <2>1. SideOk(f)
      BY <1>1
    <2>2. f # e => LinkGroup(f) \cap LinkGroup(e) = {} /\ transportLink(f) \in LinkGroup(f)
      BY LinksDiffer DEF LinkGroup
    <2>3. MadeOk(f)'
      BY <1>2, <1>3, <1>4, <2>1, <2>2 DEF SideOk, MadeOk, LocalPair
    <2>4. BatchOk(f)'
      BY <1>2, <1>3, <1>4, <2>1 DEF SideOk, BatchOk, LocalPair
    <2>5. GoneOk(f)'
      BY <1>2, <1>3, <1>4, <2>1, Sides DEF SideOk, GoneOk, LocalPair
    <2>. QED BY <2>3, <2>4, <2>5 DEF SideOk
  <1>7. LocalOk'
    BY <1>1, <1>2, <1>4, Sides DEF LocalOk, LocalPair, EpLocked
  <1>8. KeysOk' /\ BootOk'
    BY <1>1, <1>2, <1>3 DEF KeysOk, BootOk, EncryptedWhileUp, LocalPair, Keyed
  <1>. QED BY <1>5, <1>6, <1>7, <1>8 DEF EndpointsInv

LEMMA InstallKeysStep ==
    ASSUME EndpointsInv, NEW e \in EpSides, NEW ok \in BOOLEAN, InstallKeys(e, ok)
    PROVE  EndpointsInv'
  <1>1. /\ EndpointTypes /\ (\A f \in EpSides : SideOk(f)) /\ LocalOk /\ KeysOk /\ BootOk
    BY DEF EndpointsInv
  <1>2. /\ epStep[e] = "created" /\ epStep' = [epStep EXCEPT ![e] = IF ok THEN "keyed" ELSE "dying"]
        /\ UNCHANGED <<epMode, epLinks, epUp, epKnown, epActive, epHalf, epQueue, epBatch, epBoot>>
    BY DEF InstallKeys, EpGoto, xfrmVars, workerVars, InstallXfrm
  <1>3. epOwners' = IF ok /\ ~LocalPair THEN epOwners \cup {e} ELSE epOwners
    BY DEF InstallKeys, InstallXfrm, xfrmVars
  <1>4. (Keyed => Keyed') /\ (epOwners' # {} /\ epOwners = {} => Keyed')
    <2>1. CASE LocalPair
      BY <1>3, <2>1 DEF InstallKeys, xfrmVars, Keyed
    <2>2. CASE ~LocalPair /\ FirstOfTransport(e) /\ ok
      BY <2>2 DEF InstallKeys, InstallXfrm, Keyed, Associations
    <2>3. CASE ~LocalPair /\ FirstOfTransport(e) /\ ~ok
      BY <1>3, <2>3 DEF InstallKeys, InstallXfrm, Keyed
    <2>4. CASE ~LocalPair /\ ~FirstOfTransport(e)
      BY <1>3, <2>4 DEF InstallKeys, InstallXfrm, Keyed, FirstOfTransport
    <2>. QED BY <2>1, <2>2, <2>3, <2>4
  <1>5. /\ epStep' \in [EpSides -> EpSteps] /\ epStep'[e] = (IF ok THEN "keyed" ELSE "dying")
        /\ \A f \in EpSides : f # e => epStep'[f] = epStep[f]
    BY <1>1, <1>2 DEF EndpointTypes, EpSteps, EpLocked
  <1>6. EndpointTypes'
    BY <1>1, <1>2, <1>3, <1>5 DEF EndpointTypes
  <1>7. \A f \in EpSides : SideOk(f)'
    <2> SUFFICES ASSUME NEW f \in EpSides PROVE SideOk(f)'
      OBVIOUS
    <2>1. SideOk(f)
      BY <1>1
    <2>2. MadeOk(f)'
      BY <1>2, <1>3, <1>5, <2>1 DEF SideOk, MadeOk, LocalPair
    <2>3. BatchOk(f)'
      BY <1>2, <1>3, <1>5, <2>1 DEF SideOk, BatchOk, LocalPair
    <2>4. GoneOk(f)'
      BY <1>2, <1>3, <1>5, <2>1, Sides DEF SideOk, GoneOk, LocalPair
    <2>. QED BY <2>2, <2>3, <2>4 DEF SideOk
  <1>8. LocalOk'
    BY <1>1, <1>2, <1>3, <1>5, Sides DEF LocalOk, LocalPair, EpLocked
  <1>9. KeysOk'
    BY <1>1, <1>2, <1>3, <1>4 DEF KeysOk, EncryptedWhileUp, LocalPair, Keyed
  <1>10. BootOk'
    BY <1>1, <1>2 DEF BootOk
  <1>. QED BY <1>6, <1>7, <1>8, <1>9, <1>10 DEF EndpointsInv

LEMMA ActivateStep ==
    ASSUME EndpointsInv, NEW e \in EpSides, NEW ok \in BOOLEAN, Activate(e, ok)
    PROVE  EndpointsInv'
  <1>1. /\ EndpointTypes /\ (\A f \in EpSides : SideOk(f)) /\ LocalOk /\ KeysOk /\ BootOk
    BY DEF EndpointsInv
  <1>2. /\ epStep[e] = "keyed" /\ epStep' = [epStep EXCEPT ![e] = IF ok THEN "up" ELSE "dying"]
        /\ UNCHANGED <<epMode, epLinks, epKnown, epActive, epOwners, epXfrm, epHalf, epQueue, epBatch, epBoot>>
        /\ ok => LinkGroup(e) \subseteq epLinks
    BY DEF Activate, EpGoto, xfrmVars, workerVars
  <1>3. /\ epUp \subseteq epUp' /\ epUp' \subseteq epUp \cup {e} /\ (e \in epUp' /\ e \notin epUp => transportLink(e) \in epLinks)
        /\ ok => e \in epUp'
    <2>1. PICK up \in {ok, TRUE} : epUp' = IF up THEN SetUp(e) ELSE epUp
      BY DEF Activate
    <2>2. CASE up = TRUE
      <3>1. epUp' = SetUp(e)
        BY <2>1, <2>2
      <3>2. ok => transportLink(e) \in epLinks
        BY <1>2 DEF LinkGroup
      <3>. QED BY <3>1, <3>2 DEF SetUp
    <2>3. CASE up = FALSE
      <3>1. epUp' = epUp /\ ~ok
        BY <2>1, <2>3
      <3>. QED BY <3>1
    <2>. QED BY <2>1, <2>2, <2>3
  <1>4. /\ epStep' \in [EpSides -> EpSteps] /\ epStep'[e] = (IF ok THEN "up" ELSE "dying")
        /\ \A f \in EpSides : f # e => epStep'[f] = epStep[f]
    BY <1>1, <1>2 DEF EndpointTypes, EpSteps, EpLocked
  <1>5. EndpointTypes'
    BY <1>1, <1>2, <1>3, <1>4 DEF EndpointTypes
  <1>6. \A f \in EpSides : SideOk(f)'
    <2> SUFFICES ASSUME NEW f \in EpSides PROVE SideOk(f)'
      OBVIOUS
    <2>1. SideOk(f)
      BY <1>1
    <2>2. MadeOk(f)'
      BY <1>2, <1>3, <1>4, <2>1 DEF SideOk, MadeOk, LocalPair
    <2>3. BatchOk(f)'
      BY <1>2, <1>4, <2>1 DEF SideOk, BatchOk, LocalPair
    <2>4. GoneOk(f)'
      BY <1>2, <1>4, <2>1, Sides DEF SideOk, GoneOk, LocalPair
    <2>. QED BY <2>2, <2>3, <2>4 DEF SideOk
  <1>7. LocalOk'
    BY <1>1, <1>2, <1>4, Sides DEF LocalOk, LocalPair, EpLocked
  <1>8. KeysOk'
    <2>1. ~LocalPair => e \in epOwners
      BY <1>1, <1>2 DEF SideOk, MadeOk
    <2>. QED BY <1>1, <1>2, <2>1 DEF KeysOk, EncryptedWhileUp, LocalPair, Keyed
  <1>9. BootOk'
    BY <1>1, <1>2 DEF BootOk
  <1>. QED BY <1>5, <1>6, <1>7, <1>8, <1>9 DEF EndpointsInv

-----------------------------------------------------------------------------
(* The cleanup worker *)

LEMMA RemoveGroupsStep ==
    ASSUME EndpointsInv, NEW ok \in BOOLEAN, RemoveGroups(ok)
    PROVE  EndpointsInv'
  <1>1. /\ EndpointTypes /\ (\A f \in EpSides : SideOk(f)) /\ LocalOk /\ KeysOk /\ BootOk
    BY DEF EndpointsInv
  <1>2. PICK b \in SUBSET epQueue, kept \in SUBSET epLinks :
            /\ b # {} /\ epBatch = NoBatch
            /\ ok <=> kept = {}
            /\ LinksGone(UNION {LinkGroup(e) : e \in b} \ kept)
            /\ Retire(epKnown \cap UNION {Retirements(e) : e \in b \cap epKnown})
            /\ epQueue' = epQueue \ b
            /\ epBatch' = [reqs |-> b, left |-> IF ok /\ ~LocalPair THEN b ELSE {}, ok |-> ok]
            /\ UNCHANGED <<epMode, epStep, epKnown, xfrmVars, epBoot>>
    BY DEF RemoveGroups
  <1>3. PICK links : links = UNION {LinkGroup(e) : e \in b} \ kept
    OBVIOUS
  <1>4. UNCHANGED <<epMode, epStep, epKnown, epOwners, epXfrm, epHalf, epBoot>>
    BY <1>2 DEF xfrmVars
  <1>5. /\ epBatch' \in BatchRecord /\ epBatch'.reqs = b /\ epBatch'.left = (IF ok /\ ~LocalPair THEN b ELSE {})
        /\ epBatch'.ok = ok
    BY <1>1, <1>2 DEF BatchRecord, EndpointTypes
  <1>6. /\ epLinks' \subseteq epLinks /\ links \cap epLinks' = {} /\ (~LocalPair => epLinks' = epLinks \ links)
        /\ \A e, f \in EpSides : LocalPair /\ transportLink(e) \in links => transportLink(f) \notin epLinks'
        /\ epUp' = {f \in epUp : transportLink(f) \in epLinks'}
    BY <1>2, <1>3, Remains DEF LinksGone
  <1>7. b \subseteq EpSides /\ \A f \in EpSides \ b : LinkGroup(f) \cap links = {} /\ transportLink(f) \in LinkGroup(f)
    BY <1>1, <1>3, LinksDiffer DEF LinkGroup, EndpointTypes
  <1>8. ok => \A f \in b : LinkGroup(f) \subseteq links /\ transportLink(f) \in links
    <2> SUFFICES ASSUME ok, NEW f \in b PROVE LinkGroup(f) \subseteq links /\ transportLink(f) \in links
      OBVIOUS
    <2>1. kept = {}
      BY <1>2
    <2>2. LinkGroup(f) \subseteq links
      BY <1>3, <2>1
    <2>. QED BY <2>2 DEF LinkGroup
  <1>9. /\ epActive' \subseteq epActive /\ epActive' \cap b = {}
        /\ ~LocalPair => epActive \ b \subseteq epActive'
    <2>1. epActive' = epActive \ (epKnown \cap UNION {Retirements(e) : e \in b \cap epKnown})
      BY <1>2 DEF Retire
    <2>2. \A e \in b : e \in Retirements(e)
      BY <1>7 DEF Retirements
    <2>3. ~LocalPair => \A e \in b : Retirements(e) = {e}
      BY DEF Retirements
    <2>4. epActive \subseteq epKnown
      BY <1>1 DEF EndpointTypes
    <2>5. \A x \in b : x \notin epActive'
      BY <2>1, <2>2, <2>4
    <2>6. ~LocalPair => \A x \in epActive \ b : x \in epActive'
      BY <2>1, <2>3
    <2>. QED BY <2>1, <2>5, <2>6
  <1>10. EndpointTypes'
    BY <1>1, <1>2, <1>4, <1>5, <1>6, <1>9 DEF EndpointTypes
  <1>11. \A f \in EpSides : SideOk(f)'
    <2> SUFFICES ASSUME NEW f \in EpSides PROVE SideOk(f)'
      OBVIOUS
    <2>1. SideOk(f)
      BY <1>1
    <2>2. f \in b => epStep[f] \in {"dying", "removing", "unknown"}
      BY <2>1 DEF SideOk, BatchOk
    <2>3. MadeOk(f)'
      BY <1>4, <1>6, <1>7, <1>9, <2>1, <2>2 DEF SideOk, MadeOk, LocalPair
    <2>4. BatchOk(f)'
      <3>1. f \in b /\ ok => LinkGroup(f) \cap epLinks' = {} /\ (LocalPair => transportLink(OtherSide(f)) \notin epLinks')
        BY <1>6, <1>8, Sides
      <3>2. f \in epQueue' \cup epBatch'.reqs => epStep'[f] \in {"dying", "removing", "unknown"}
        BY <1>2, <1>4, <1>5, <2>1 DEF SideOk, BatchOk
      <3>3. f \in epBatch'.reqs /\ epBatch'.ok /\ f \notin epBatch'.left => f \notin epOwners'
        BY <1>1, <1>4, <1>5 DEF LocalOk
      <3>. QED BY <1>4, <1>5, <1>9, <3>1, <3>2, <3>3 DEF BatchOk, LocalPair
    <2>5. GoneOk(f)'
      BY <1>4, <1>6, <2>1 DEF SideOk, GoneOk, LocalPair
    <2>. QED BY <2>3, <2>4, <2>5 DEF SideOk
  <1>12. LocalOk'
    BY <1>1, <1>4, <1>5 DEF LocalOk, LocalPair
  <1>13. KeysOk'
    BY <1>1, <1>4, <1>6 DEF KeysOk, EncryptedWhileUp, LocalPair, Keyed
  <1>14. BootOk'
    BY <1>1, <1>2, <1>4, <1>6 DEF BootOk
  <1>. QED BY <1>10, <1>11, <1>12, <1>13, <1>14 DEF EndpointsInv

LEMMA RemoveXfrmStep ==
    ASSUME EndpointsInv, NEW e \in EpSides, NEW ok \in BOOLEAN, RemoveXfrm(e, ok)
    PROVE  EndpointsInv'
  <1>1. /\ EndpointTypes /\ (\A f \in EpSides : SideOk(f)) /\ LocalOk /\ KeysOk /\ BootOk
    BY DEF EndpointsInv
  <1>2. PICK x : x = epBatch
    OBVIOUS
  <1>3. PICK y : y = [x EXCEPT !.left = x.left \ {e}, !.ok = x.ok /\ ok]
    OBVIOUS
  <1>4. /\ e \in x.left /\ epBatch' = y
        /\ UNCHANGED <<epMode, epStep, epLinks, epUp, epKnown, epActive, epQueue, epBoot>>
    BY <1>2, <1>3 DEF RemoveXfrm
  <1>5. x \in BatchRecord /\ x.left \subseteq x.reqs
    BY <1>1, <1>2 DEF EndpointTypes
  <1>6. y \in BatchRecord /\ y.reqs = x.reqs /\ y.left = x.left \ {e} /\ y.ok = (x.ok /\ ok)
    BY <1>3, <1>5 DEF BatchRecord
  <1>7. e \notin epUp /\ ~LocalPair
    <2>1. e \in epBatch.reqs /\ e \in epBatch.left /\ ~LocalPair
      BY <1>1, <1>2, <1>4, <1>5 DEF LocalOk
    <2>2. transportLink(e) \notin epLinks
      BY <1>1, <2>1 DEF SideOk, BatchOk, LinkGroup
    <2>. QED BY <1>1, <2>1, <2>2 DEF SideOk, MadeOk
  <1>8. epOwners' \subseteq epOwners /\ epOwners \ {e} \subseteq epOwners' /\ (ok => e \notin epOwners')
        /\ epHalf' \in BOOLEAN
    BY <1>1 DEF RemoveXfrm, xfrmVars, EndpointTypes
  <1>9. KeysOk'
    <2>1. CASE UNCHANGED <<epOwners, epXfrm, epHalf>>
      BY <1>1, <1>4, <2>1 DEF KeysOk, EncryptedWhileUp, LocalPair, Keyed
    <2>2. CASE e \in epOwners /\ ok
      <3>1. UNCHANGED epHalf /\ epOwners' = epOwners \ {e}
        BY <2>2 DEF RemoveXfrm
      <3>2. CASE LastOfTransport(e)
        <4>1. epOwners' = {}
          BY <3>1, <3>2 DEF LastOfTransport
        <4>2. epBoot = "run"
          BY <1>1, <2>2 DEF BootOk
        <4>3. epUp' = {}
          BY <1>1, <1>4, <1>7, <3>1, <4>1, <4>2 DEF SideOk, MadeOk, EndpointTypes
        <4>. QED BY <4>1, <4>3 DEF KeysOk, EncryptedWhileUp
      <3>3. CASE ~LastOfTransport(e)
        <4>1. UNCHANGED epXfrm
          BY <2>2, <3>3 DEF RemoveXfrm
        <4>. QED BY <1>1, <1>4, <3>1, <4>1 DEF KeysOk, EncryptedWhileUp, LocalPair, Keyed
      <3>. QED BY <3>2, <3>3
    <2>3. CASE e \in epOwners /\ ~ok
      <3>1. epHalf' = (epHalf \/ epXfrm' # epXfrm) /\ UNCHANGED epOwners
        BY <2>3 DEF RemoveXfrm
      <3>2. CASE UNCHANGED epXfrm
        BY <1>1, <1>4, <3>1, <3>2 DEF KeysOk, EncryptedWhileUp, LocalPair, Keyed
      <3>3. CASE epXfrm' # epXfrm
        BY <3>1, <3>3 DEF KeysOk, EncryptedWhileUp
      <3>. QED BY <3>2, <3>3
    <2>4. e \notin epOwners => UNCHANGED <<epOwners, epXfrm, epHalf>>
      BY DEF RemoveXfrm, xfrmVars
    <2>. QED BY <2>1, <2>2, <2>3, <2>4
  <1>10. EndpointTypes'
    BY <1>1, <1>2, <1>4, <1>5, <1>6, <1>8 DEF EndpointTypes
  <1>11. \A f \in EpSides : SideOk(f)'
    <2> SUFFICES ASSUME NEW f \in EpSides PROVE SideOk(f)'
      OBVIOUS
    <2>1. SideOk(f)
      BY <1>1
    <2>2. epStep[e] \in {"dying", "removing", "unknown"}
      BY <1>1, <1>2, <1>4, <1>5 DEF SideOk, BatchOk
    <2>3. MadeOk(f)'
      BY <1>4, <1>7, <1>8, <2>1, <2>2 DEF SideOk, MadeOk, LocalPair
    <2>4. BatchOk(f)'
      BY <1>2, <1>4, <1>6, <1>8, <2>1 DEF SideOk, BatchOk, LocalPair
    <2>5. GoneOk(f)'
      BY <1>4, <1>8, <2>1 DEF SideOk, GoneOk, LocalPair
    <2>. QED BY <2>3, <2>4, <2>5 DEF SideOk
  <1>12. LocalOk'
    BY <1>4, <1>7 DEF LocalOk, LocalPair
  <1>13. BootOk'
    <2>1. epBoot = "run"
      BY <1>1, <1>2, <1>4 DEF BootOk, NoBatch
    <2>. QED BY <1>4, <2>1 DEF BootOk
  <1>. QED BY <1>9, <1>10, <1>11, <1>12, <1>13 DEF EndpointsInv

LEMMA RespondBatchStep ==
    ASSUME EndpointsInv, NEW flows_ok \in BOOLEAN, RespondBatch(flows_ok)
    PROVE  EndpointsInv'
  <1>1. /\ EndpointTypes /\ (\A f \in EpSides : SideOk(f)) /\ LocalOk /\ KeysOk /\ BootOk
    BY DEF EndpointsInv
  <1>2. PICK ok : ok = ClearFlows(flows_ok)
    OBVIOUS
  <1>3. /\ epBatch.reqs # {} /\ epBatch.left = {}
        /\ epStep' = [e \in EpSides |-> IF e \in epBatch.reqs THEN AfterCleanup(e, ok) ELSE epStep[e]]
        /\ epKnown' = IF ok THEN epKnown \ epBatch.reqs ELSE epKnown
        /\ epBatch' = NoBatch
        /\ UNCHANGED <<epMode, epLinks, epUp, epActive, epOwners, epXfrm, epHalf, epQueue, epBoot>>
    BY <1>2 DEF RespondBatch, BatchDone, xfrmVars
  <1>4. /\ ok => epBatch.ok
        /\ \A e \in EpSides : AfterCleanup(e, ok) \in {"failed", "gone", "stuck"} /\ (AfterCleanup(e, ok) = "gone" => ok)
    BY <1>2 DEF AfterCleanup, ClearFlows
  <1>5. /\ epStep' \in [EpSides -> EpSteps]
        /\ \A e \in EpSides \ epBatch.reqs : epStep'[e] = epStep[e]
        /\ \A e \in EpSides : e \in epBatch.reqs => epStep'[e] \in {"failed", "gone", "stuck"} /\ (epStep'[e] = "gone" => ok)
    BY <1>1, <1>3, <1>4 DEF EndpointTypes, EpSteps
  <1>6. \A e \in EpSides : e \in epBatch.reqs => e \notin epActive /\ epStep[e] \in {"dying", "removing", "unknown"}
    BY <1>1 DEF SideOk, BatchOk
  <1>7. epBatch' \in BatchRecord /\ epBatch'.reqs = {} /\ epBatch'.left = {}
    BY <1>3 DEF BatchRecord, NoBatch
  <1>8. EndpointTypes'
    <2>1. epActive' \subseteq epKnown'
      BY <1>1, <1>3, <1>6 DEF EndpointTypes
    <2>2. epKnown' \subseteq EpSides
      BY <1>1, <1>3 DEF EndpointTypes
    <2>. QED BY <1>1, <1>3, <1>5, <1>7, <2>1, <2>2 DEF EndpointTypes
  <1>9. \A f \in EpSides : SideOk(f)'
    <2> SUFFICES ASSUME NEW f \in EpSides PROVE SideOk(f)'
      OBVIOUS
    <2>1. SideOk(f) /\ SideOk(OtherSide(f)) /\ OtherSide(f) \in EpSides /\ OtherSide(OtherSide(f)) = f
      BY <1>1, Sides
    <2>2. MadeOk(f)'
      BY <1>3, <1>5, <2>1 DEF SideOk, MadeOk, LocalPair
    <2>3. BatchOk(f)'
      <3>1. f \in epQueue => epStep[f] \in {"dying", "removing", "unknown"}
        BY <2>1 DEF SideOk, BatchOk
      <3>2. f \in epQueue => f \notin epBatch.reqs
        BY <1>1 DEF EndpointTypes
      <3>. QED BY <1>3, <1>5, <1>7, <3>1, <3>2 DEF BatchOk
    <2>4. GoneOk(f)'
      <3> SUFFICES ASSUME epStep'[f] = "gone" PROVE GoneOk(f)'
        BY DEF GoneOk
      <3>1. CASE f \in epBatch.reqs
        <4>1. ok /\ epBatch.ok
          BY <1>4, <1>5, <3>1
        <4>2. LinkGroup(f) \cap epLinks = {} /\ f \notin epOwners
          BY <1>3, <2>1, <3>1, <4>1 DEF SideOk, BatchOk
        <4>. QED BY <1>3, <3>1, <4>1, <4>2 DEF GoneOk, LinkGroup
      <3>2. CASE f \notin epBatch.reqs
        <4>1. epStep[f] = "gone" /\ f \notin epKnown /\ f \notin epOwners /\ outerLink(f) \notin epLinks
          BY <1>5, <2>1, <3>2 DEF SideOk, GoneOk
        <4>2. CASE OtherSide(f) \in epBatch.reqs /\ LocalPair
          <5>1. epStep'[OtherSide(f)] = "gone" => transportLink(f) \notin epLinks
            BY <1>4, <1>5, <2>1, <4>2 DEF SideOk, BatchOk
          <5>. QED BY <1>3, <1>5, <2>1, <4>1, <4>2, <5>1 DEF GoneOk, LocalPair
        <4>3. CASE ~(OtherSide(f) \in epBatch.reqs /\ LocalPair)
          BY <1>3, <1>5, <2>1, <4>1, <4>3 DEF SideOk, GoneOk, LocalPair
        <4>. QED BY <4>2, <4>3
      <3>. QED BY <3>1, <3>2
    <2>. QED BY <2>2, <2>3, <2>4 DEF SideOk
  <1>10. LocalOk'
    BY <1>1, <1>3, <1>5, <1>7, Sides DEF LocalOk, LocalPair, EpLocked
  <1>11. KeysOk'
    BY <1>1, <1>3 DEF KeysOk, EncryptedWhileUp, LocalPair, Keyed
  <1>12. BootOk'
    BY <1>1, <1>3 DEF BootOk, NoBatch
  <1>. QED BY <1>8, <1>9, <1>10, <1>11, <1>12 DEF EndpointsInv

-----------------------------------------------------------------------------
(* A new process, and the theorem *)

LEMMA CrashEndpointsStep ==
    ASSUME EndpointsInv, CrashEndpoints
    PROVE  EndpointsInv'
  <1>1. /\ EndpointTypes /\ (\A f \in EpSides : SideOk(f)) /\ KeysOk
    BY DEF EndpointsInv
  <1>2. /\ epBoot' = "links" /\ epStep' = [e \in EpSides |-> "none"]
        /\ epKnown' = {} /\ epActive' = {} /\ epOwners' = {} /\ epQueue' = {} /\ epBatch' = NoBatch
        /\ UNCHANGED <<epMode, epLinks, epUp, epXfrm, epHalf>>
    BY DEF CrashEndpoints
  <1>3. epBatch' \in BatchRecord /\ epBatch'.reqs = {} /\ epBatch'.left = {}
    BY <1>2 DEF BatchRecord, NoBatch
  <1>4. EndpointTypes'
    BY <1>1, <1>2, <1>3 DEF EndpointTypes, EpSteps
  <1>5. \A f \in EpSides : SideOk(f)'
    BY <1>1, <1>2, <1>3 DEF SideOk, MadeOk, BatchOk, GoneOk
  <1>6. LocalOk'
    BY <1>2, <1>3 DEF LocalOk, EpLocked
  <1>7. KeysOk' /\ BootOk'
    BY <1>1, <1>2 DEF KeysOk, EncryptedWhileUp, LocalPair, Keyed, BootOk
  <1>. QED BY <1>4, <1>5, <1>6, <1>7 DEF EndpointsInv

LEMMA RecoverStep ==
    ASSUME EndpointsInv, RecoverLinks \/ PurgeXfrm
    PROVE  EndpointsInv'
  <1>1. /\ EndpointTypes /\ (\A f \in EpSides : SideOk(f)) /\ LocalOk /\ KeysOk /\ BootOk
    BY DEF EndpointsInv
  <1>2. /\ epBoot # "run" /\ UNCHANGED <<epMode, epStep, epKnown, epActive, epOwners, epQueue, epBatch>>
        /\ epUp' = {} /\ epHalf' \in BOOLEAN /\ epBoot' \in {"run", "links", "xfrm"} /\ epLinks' \subseteq epLinks
    <2>1. CASE RecoverLinks
      BY <1>1, <2>1 DEF RecoverLinks, xfrmVars, workerVars, EndpointTypes
    <2>2. CASE PurgeXfrm
      BY <1>1, <2>2 DEF PurgeXfrm, workerVars, BootOk
    <2>. QED BY <2>1, <2>2
  <1>3. epStep = [e \in EpSides |-> "none"] /\ epQueue = {} /\ epBatch = NoBatch /\ epOwners = {}
    BY <1>1, <1>2 DEF BootOk
  <1>4. epBatch.reqs = {}
    BY <1>3 DEF NoBatch
  <1>5. EndpointTypes'
    BY <1>1, <1>2 DEF EndpointTypes
  <1>6. \A f \in EpSides : SideOk(f)'
    BY <1>2, <1>3, <1>4 DEF SideOk, MadeOk, BatchOk, GoneOk
  <1>7. LocalOk' /\ KeysOk' /\ BootOk'
    BY <1>1, <1>2, <1>3 DEF LocalOk, LocalPair, KeysOk, EncryptedWhileUp, BootOk
  <1>. QED BY <1>5, <1>6, <1>7 DEF EndpointsInv

LEMMA EndpointsStart == EndpointsInit => EndpointsInv
  <1> SUFFICES ASSUME EndpointsInit PROVE EndpointsInv
    OBVIOUS
  <1>1. epBatch \in BatchRecord /\ epBatch.reqs = {} /\ epBatch.left = {}
    BY DEF EndpointsInit, BatchRecord, NoBatch
  <1>2. EndpointTypes
    BY <1>1 DEF EndpointsInit, EndpointTypes, EpSteps
  <1>3. \A f \in EpSides : SideOk(f)
    BY <1>1 DEF EndpointsInit, SideOk, MadeOk, BatchOk, GoneOk
  <1>4. LocalOk /\ KeysOk /\ BootOk
    BY <1>1 DEF EndpointsInit, LocalOk, KeysOk, BootOk, EncryptedWhileUp, EpLocked
  <1>. QED BY <1>2, <1>3, <1>4 DEF EndpointsInv

LEMMA EndpointsStep == EndpointsInv /\ [EndpointsNext]_epVars => EndpointsInv'
  <1> SUFFICES ASSUME EndpointsInv, [EndpointsNext]_epVars PROVE EndpointsInv'
    OBVIOUS
  <1>1. CASE UNCHANGED epVars
    BY <1>1 DEF epVars, EndpointsInv, EndpointTypes, SideOk, MadeOk, BatchOk, GoneOk, LocalOk, LocalPair, KeysOk, Keyed,
                EncryptedWhileUp, BootOk
  <1>2. ASSUME NEW e \in EpSides, TeardownEndpoint(e) \/ EnqueueCleanup(e) \/ ReuseEndpoint(e) PROVE EndpointsInv'
    BY <1>2, TeardownEndpointStep, EnqueueCleanupStep, ReuseEndpointStep
  <1>3. ASSUME NEW e \in EpSides, NEW ok \in BOOLEAN,
               CreateEndpoint(e, ok) \/ DestroyLinks(e, ok) \/ InstallKeys(e, ok) \/ Activate(e, ok) \/ RemoveXfrm(e, ok)
        PROVE  EndpointsInv'
    BY <1>3, CreateEndpointStep, DestroyLinksStep, InstallKeysStep, ActivateStep, RemoveXfrmStep
  <1>4. ASSUME NEW ok \in BOOLEAN, RemoveGroups(ok) \/ RespondBatch(ok) PROVE EndpointsInv'
    BY <1>4, RemoveGroupsStep, RespondBatchStep
  <1>5. CASE CrashEndpoints \/ RecoverLinks \/ PurgeXfrm
    BY <1>5, CrashEndpointsStep, RecoverStep
  <1>. QED BY <1>1, <1>2, <1>3, <1>4, <1>5 DEF EndpointsNext

\* Whatever request to the kernel fails and wherever the process dies, a
\* remote transport that is up is encrypted unless a removal of associations
\* failed half way, a set-up network keeps its links, duties and owner, and an
\* answered teardown leaves nothing of the endpoint.
THEOREM EndpointsStandOrGoAlways == EndpointsSpec => []EndpointsStandOrGo
  <1>1. EndpointsInv => EndpointsStandOrGo
    <2> SUFFICES ASSUME EndpointsInv PROVE EndpointsStandOrGo
      OBVIOUS
    <2>1. EndpointTypes /\ (\A e \in EpSides : SideOk(e)) /\ EncryptedWhileUp
      BY DEF EndpointsInv, KeysOk
    <2>2. UpStands
      BY <2>1 DEF UpStands, SideOk, MadeOk
    <2>3. AnsweredIsGone
      BY <2>1 DEF AnsweredIsGone, SideOk, GoneOk, EndpointTypes, LinkGroup
    <2>. QED BY <2>1, <2>2, <2>3 DEF EndpointsStandOrGo
  <1>. QED BY <1>1, EndpointsStart, EndpointsStep, PTL DEF EndpointsSpec

-----------------------------------------------------------------------------
(* ProxyFeed.  The invariant follows an edit on its way: a builder that is *)
(* idle and not notified has published the live maps, unless an edit is    *)
(* still being applied (IsPublished); a stream that has nothing to send    *)
(* has sent that bundle last, or the proxy has what it says (Sent).  The   *)
(* route builder reads the services first and keeps their lock, so what it *)
(* has read is live (Reads).                                               *)

PortSets == {c.ports : c \in PfConfigs}
RouteBundles == {RouteBundle(Services(c), d.routes) : c \in PfConfigs, d \in PfConfigs}
Bundles(f) == IF f = "ports" THEN PortSets ELSE RouteBundles
PfTargets == {""} \cup UNION {{m[2] : m \in c.ports} : c \in PfConfigs}

FeedTypes ==
    /\ pfSvcs \in {Services(c) : c \in PfConfigs} /\ pfRoutes \in {c.routes : c \in PfConfigs}
    /\ pfApply \subseteq {c.routes : c \in PfConfigs}
    /\ pfPermit \in [Feeds -> BOOLEAN] /\ pfFresh \in [Feeds -> BOOLEAN] /\ pfUp \in BOOLEAN
    /\ pfBuild \in [Feeds -> {"idle", "woken", "reading"}] /\ pfBuild["ports"] # "reading"
    /\ DOMAIN pfWatch = Feeds /\ \A f \in Feeds : pfWatch[f] \in Bundles(f)
    /\ DOMAIN pfStream = Feeds /\ \A f \in Feeds : pfStream[f] \in Seq(Bundles(f))
    /\ pfLis \in [PfKeys -> [st : {"none", "starting", "bound", "ended"}, svc : PfTargets]]

LiveBundle(f) == IF f = "ports" THEN PortBundle(pfSvcs) ELSE RouteBundle(pfSvcs, pfRoutes)

Reads == pfGot = IF pfBuild["routes"] = "reading" THEN {pfSvcs} ELSE {}

IsPublished(f) == pfApply = {} /\ ~pfPermit[f] /\ pfBuild[f] = "idle" => pfWatch[f] = LiveBundle(f)

\* The proxy has what bundle b says.
Has(f, b) ==
    IF f = "routes" THEN pfTable \in FromBundle(b)
    ELSE {<<k, pfLis[k].svc>> : k \in {k \in PfKeys : pfLis[k].st # "none"}} = b

Sent(f) ==
    ~pfFresh[f] /\ (f = "ports" => pfUp) =>
        IF pfStream[f] = <<>> THEN Has(f, pfWatch[f]) ELSE pfStream[f][Len(pfStream[f])] = pfWatch[f]

FeedInv ==
    /\ FeedTypes /\ Reads
    /\ \A f \in Feeds : IsPublished(f) /\ Sent(f)
    /\ ~pfUp => pfStream["ports"] = <<>>
    /\ \E b \in RouteBundles \cup {{}} : pfTable \in FromBundle(b)

\* A set of numbers that is not empty has a least member.
LEMMA Least == ASSUME NEW T, T \subseteq Nat, T # {} PROVE \E x \in T : \A y \in T : x <= y
  <1> DEFINE R == OpToRel(<, Nat)
  <1>1. \A x, y \in Nat : x < y => <<x, y>> \in R
    BY DEF OpToRel
  <1>2. IsWellFoundedOn(R, Nat)
    BY NatLessThanWellFounded, Zenon
  <1> HIDE DEF R
  <1>3. PICK x \in T : \A y \in T : ~(<<y, x>> \in R)
    BY <1>2, WFMin
  <1>4. \A y \in T : ~(y < x)
    BY <1>1, <1>3, Zenon
  <1>5. \A y \in T : x <= y
    BY <1>4, SMT
  <1>. QED BY <1>5, Zenon

LEMMA FeedNames == \A f \in Feeds : f \in {"ports", "routes"}
  BY DEF Feeds

LEMMA PortsOk ==
    ASSUME NEW b \in PortSets
    PROVE  /\ \A m \in b : m = <<m[1], m[2]>> /\ m[1] \in PfKeys /\ m[2] \in PfTargets
           /\ \A m, n \in b : m[1] = n[1] => m = n
  <1>1. PICK c \in PfConfigs : b = c.ports
    BY DEF PortSets
  <1>2. \A m \in b : m = <<m[1], m[2]>>
    BY <1>1, PfAssumption
  <1>3. \A m, n \in b : m[1] = n[1] => m = n
    BY <1>1, PfAssumption
  <1>4. ASSUME NEW m \in b PROVE m[1] \in PfKeys /\ m[2] \in PfTargets
    <2>1. m[1] \in {x[1] : x \in c.ports} /\ m[2] \in {x[2] : x \in c.ports}
      BY <1>1
    <2>. QED BY <2>1 DEF PfKeys, PfTargets
  <1>. QED BY <1>2, <1>3, <1>4

\* Every route of a bundle has a prefix with a length.
LEMMA RoutesOk ==
    ASSUME NEW b \in RouteBundles \cup {{}}, NEW r \in b
    PROVE  Len(r[2]) \in Nat
  <1>1. PICK c \in PfConfigs, d \in PfConfigs : b = RouteBundle(Services(c), d.routes)
    BY DEF RouteBundles
  <1>2. CASE r \in d.routes
    BY <1>2, PfAssumption
  <1>3. CASE r \notin d.routes
    <2>1. PICK s : r = <<s, <<"/">>, s>>
      BY <1>1, <1>3 DEF RouteBundle
    <2>2. r[2] = <<"/">> /\ Len(<<"/">>) = 1
      BY <2>1
    <2>. QED BY <2>2
  <1>. QED BY <1>2, <1>3

LEMMA LiveIsBundle == FeedTypes => \A f \in Feeds : LiveBundle(f) \in Bundles(f)
  <1> SUFFICES ASSUME FeedTypes PROVE LiveBundle("ports") \in Bundles("ports") /\ LiveBundle("routes") \in Bundles("routes")
    BY DEF Feeds
  <1>1. PICK c \in PfConfigs, d \in PfConfigs : pfSvcs = Services(c) /\ pfRoutes = d.routes
    BY DEF FeedTypes
  <1>2. LiveBundle("ports") = c.ports
    BY <1>1 DEF LiveBundle, PortBundle, Services
  <1>3. LiveBundle("routes") = RouteBundle(Services(c), d.routes)
    BY <1>1 DEF LiveBundle
  <1>. QED BY <1>2, <1>3 DEF Bundles, PortSets, RouteBundles

\* A bundle is taken off its stream: the last one is still the last, or was it.
LEMMA TakenOff ==
    ASSUME NEW S, NEW q \in Seq(S), q # <<>>
    PROVE  /\ Head(q) \in S /\ Tail(q) \in Seq(S)
           /\ Tail(q) = <<>> => Head(q) = q[Len(q)]
           /\ Tail(q) # <<>> => Tail(q)[Len(Tail(q))] = q[Len(q)]
  <1>1. Len(q) \in Nat /\ Len(q) > 0 /\ Head(q) = q[1] /\ Tail(q) \in Seq(S) /\ Len(Tail(q)) = Len(q) - 1
    BY EmptySeq, HeadTailProperties
  <1>2. Head(q) \in S
    BY HeadTailProperties
  <1>3. Tail(q) = <<>> => Len(q) = 1
    <2>1. Len(<<>>) = 0
      OBVIOUS
    <2>2. Tail(q) = <<>> => Len(Tail(q)) = Len(<<>>)
      OBVIOUS
    <2>. QED BY <1>1, <2>1, <2>2
  <1>4. Tail(q) # <<>> => Tail(q)[Len(Tail(q))] = q[Len(q)]
    <2> SUFFICES ASSUME Tail(q) # <<>> PROVE Tail(q)[Len(Tail(q))] = q[Len(q)]
      OBVIOUS
    <2>1. Len(Tail(q)) # 0
      BY <1>1, EmptySeq
    <2>2. Len(q) - 1 \in 1..Len(Tail(q)) /\ (Len(q) - 1) + 1 = Len(q)
      BY <1>1, <2>1
    <2>. QED BY <1>1, <2>2, HeadTailProperties
  <1>. QED BY <1>1, <1>2, <1>3, <1>4

LEMMA FeedStart == FeedInit => FeedInv
  <1> SUFFICES ASSUME FeedInit PROVE FeedInv
    OBVIOUS
  <1>1. PICK c \in PfConfigs :
          /\ c.ports = {} /\ pfSvcs = Services(c) /\ pfRoutes = c.routes
          /\ pfWatch = [f \in Feeds |-> IF f = "ports" THEN {} ELSE RouteBundle(Services(c), c.routes)]
          /\ pfTable \in FromBundle(RouteBundle(Services(c), c.routes))
    BY DEF FeedInit
  <1>2. /\ pfApply = {} /\ pfGot = {} /\ pfPermit = [f \in Feeds |-> FALSE] /\ pfBuild = [f \in Feeds |-> "idle"]
        /\ pfFresh = [f \in Feeds |-> FALSE] /\ pfStream = [f \in Feeds |-> <<>>] /\ pfUp = TRUE
        /\ pfLis = [k \in PfKeys |-> NoListener]
    BY DEF FeedInit
  <1>3. pfWatch["ports"] = {} /\ {} \in PortSets
    BY <1>1 DEF Feeds, PortSets
  <1>4. pfWatch["routes"] = RouteBundle(Services(c), c.routes) /\ pfWatch["routes"] \in RouteBundles
    BY <1>1 DEF Feeds, RouteBundles
  <1>5. NoListener \in [st : {"none", "starting", "bound", "ended"}, svc : PfTargets] /\ NoListener.st = "none"
    BY DEF NoListener, PfTargets
  <1>6. FeedTypes
    <2>1. pfLis \in [PfKeys -> [st : {"none", "starting", "bound", "ended"}, svc : PfTargets]]
      BY <1>2, <1>5
    <2>2. DOMAIN pfWatch = Feeds /\ \A f \in Feeds : pfWatch[f] \in Bundles(f)
      BY <1>1, <1>3, <1>4 DEF Bundles, Feeds
    <2>3. DOMAIN pfStream = Feeds /\ \A f \in Feeds : pfStream[f] \in Seq(Bundles(f))
      BY <1>2
    <2>4. pfBuild["ports"] = "idle"
      BY <1>2 DEF Feeds
    <2>. QED BY <1>1, <1>2, <2>1, <2>2, <2>3, <2>4 DEF FeedTypes
  <1>7. Reads
    BY <1>2 DEF Reads, Feeds
  <1>8. Services(c).ports = {}
    BY <1>1 DEF Services
  <1>9. IsPublished("ports") /\ IsPublished("routes")
    BY <1>1, <1>3, <1>4, <1>8 DEF IsPublished, LiveBundle, PortBundle
  <1>10. Has("ports", {})
    BY <1>2, <1>5 DEF Has
  <1>11. Has("routes", pfWatch["routes"])
    BY <1>1, <1>4 DEF Has
  <1>12. Sent("ports") /\ Sent("routes")
    BY <1>2, <1>3, <1>10, <1>11 DEF Sent, Feeds
  <1>13. \E b \in RouteBundles \cup {{}} : pfTable \in FromBundle(b)
    BY <1>1, <1>4
  <1>. QED BY <1>2, <1>6, <1>7, <1>9, <1>12, <1>13 DEF FeedInv, Feeds

\* What the proxy has is the same while its table and its listeners are.
LEMMA HasStays == ASSUME UNCHANGED <<pfTable, pfLis>> PROVE \A f, b : Has(f, b)' <=> Has(f, b)
  BY DEF Has

LEMMA ApplyServicesKeeps == ASSUME FeedInv, NEW c \in PfConfigs, ApplyServices(c) PROVE FeedInv'
  <1>1. /\ pfGot = {} /\ pfSvcs' = Services(c) /\ pfApply' = {c.routes}
        /\ UNCHANGED <<pfRoutes, pfPermit, pfBuild, pfGot, pfWatch, pfFresh, pfStream, pfUp, pfTable, pfLis>>
    BY DEF ApplyServices, builderVars, proxyVars
  <1>2. FeedTypes'
    BY <1>1 DEF FeedInv, FeedTypes
  <1>3. Reads'
    BY <1>1 DEF FeedInv, Reads
  <1>4. \A f \in Feeds : IsPublished(f)'
    BY <1>1 DEF IsPublished
  <1>5. \A f \in Feeds : Sent(f)'
    BY <1>1, HasStays DEF FeedInv, Sent
  <1>. QED BY <1>1, <1>2, <1>3, <1>4, <1>5 DEF FeedInv

LEMMA ApplyTablesKeeps == ASSUME FeedInv, ApplyTables PROVE FeedInv'
  <1>1. /\ pfRoutes' \in pfApply /\ pfApply' = {} /\ pfPermit' = [f \in Feeds |-> TRUE]
        /\ UNCHANGED <<pfSvcs, pfBuild, pfGot, pfWatch, pfFresh, pfStream, pfUp, pfTable, pfLis>>
    BY DEF ApplyTables, proxyVars
  <1>2. FeedTypes'
    BY <1>1 DEF FeedInv, FeedTypes
  <1>3. Reads'
    BY <1>1 DEF FeedInv, Reads
  <1>4. \A f \in Feeds : IsPublished(f)'
    BY <1>1 DEF IsPublished
  <1>5. \A f \in Feeds : Sent(f)'
    BY <1>1, HasStays DEF FeedInv, Sent
  <1>. QED BY <1>1, <1>2, <1>3, <1>4, <1>5 DEF FeedInv

LEMMA WakeKeeps == ASSUME FeedInv, NEW g \in Feeds, Wake(g) PROVE FeedInv'
  <1>1. /\ pfBuild[g] = "idle" /\ pfPermit' = [pfPermit EXCEPT ![g] = FALSE] /\ pfBuild' = [pfBuild EXCEPT ![g] = "woken"]
        /\ UNCHANGED <<pfSvcs, pfRoutes, pfApply, pfGot, pfWatch, pfFresh, pfStream, pfUp, pfTable, pfLis>>
    BY DEF Wake, liveVars, proxyVars
  <1>2. FeedTypes
    BY DEF FeedInv
  <1>3. \A f \in Feeds : pfBuild'[f] = IF f = g THEN "woken" ELSE pfBuild[f]
    BY <1>1, <1>2 DEF FeedTypes
  <1>4. \A f \in Feeds : f # g => pfPermit'[f] = pfPermit[f]
    BY <1>1, <1>2 DEF FeedTypes
  <1>5. FeedTypes'
    <2>1. pfPermit' \in [Feeds -> BOOLEAN]
      BY <1>1, <1>2 DEF FeedTypes
    <2>2. pfBuild' \in [Feeds -> {"idle", "woken", "reading"}] /\ pfBuild'["ports"] # "reading"
      BY <1>1, <1>2, <1>3 DEF FeedTypes, Feeds
    <2>. QED BY <1>1, <1>2, <2>1, <2>2 DEF FeedTypes
  <1>6. Reads'
    BY <1>1, <1>3 DEF FeedInv, Reads, Feeds
  <1>7. \A f \in Feeds : IsPublished(f)'
    <2> SUFFICES ASSUME NEW f \in Feeds PROVE IsPublished(f)'
      OBVIOUS
    <2>1. IsPublished(f)
      BY DEF FeedInv
    <2>2. CASE f = g
      BY <1>3, <2>2 DEF IsPublished
    <2>3. CASE f # g
      BY <1>1, <1>3, <1>4, <2>1, <2>3 DEF IsPublished, LiveBundle
    <2>. QED BY <2>2, <2>3
  <1>8. \A f \in Feeds : Sent(f)'
    BY <1>1, HasStays DEF FeedInv, Sent
  <1>. QED BY <1>1, <1>5, <1>6, <1>7, <1>8 DEF FeedInv

LEMMA ReadServicesKeeps == ASSUME FeedInv, ReadServices PROVE FeedInv'
  <1>1. /\ pfBuild["routes"] = "woken" /\ pfGot' = {pfSvcs} /\ pfBuild' = [pfBuild EXCEPT !["routes"] = "reading"]
        /\ UNCHANGED <<pfSvcs, pfRoutes, pfApply, pfPermit, pfWatch, pfFresh, pfStream, pfUp, pfTable, pfLis>>
    BY DEF ReadServices, liveVars, proxyVars
  <1>2. FeedTypes
    BY DEF FeedInv
  <1>3. pfBuild'["ports"] = pfBuild["ports"] /\ pfBuild'["routes"] = "reading"
    BY <1>1, <1>2 DEF FeedTypes, Feeds
  <1>4. FeedTypes'
    <2>1. pfBuild' \in [Feeds -> {"idle", "woken", "reading"}]
      BY <1>1, <1>2 DEF FeedTypes
    <2>. QED BY <1>1, <1>2, <1>3, <2>1 DEF FeedTypes
  <1>5. Reads'
    BY <1>1, <1>3 DEF Reads
  <1>6. IsPublished("ports")' /\ IsPublished("routes")'
    <2>1. IsPublished("ports")
      BY DEF FeedInv, Feeds
    <2>. QED BY <1>1, <1>3, <2>1 DEF IsPublished, LiveBundle
  <1>7. \A f \in Feeds : Sent(f)'
    BY <1>1, HasStays DEF FeedInv, Sent
  <1>. QED BY <1>1, <1>4, <1>5, <1>6, <1>7 DEF FeedInv, Feeds

LEMMA PublishBundleKeeps == ASSUME FeedInv, NEW g \in Feeds, PublishBundle(g) PROVE FeedInv'
  <1> DEFINE got == CHOOSE s \in pfGot : TRUE
  <1>1. /\ pfBuild[g] = IF g = "routes" THEN "reading" ELSE "woken"
        /\ pfWatch' = [pfWatch EXCEPT ![g] = IF g = "ports" THEN PortBundle(pfSvcs) ELSE RouteBundle(got, pfRoutes)]
        /\ pfGot' = IF g = "routes" THEN {} ELSE pfGot
        /\ pfFresh' = [pfFresh EXCEPT ![g] = TRUE] /\ pfBuild' = [pfBuild EXCEPT ![g] = "idle"]
        /\ UNCHANGED <<pfSvcs, pfRoutes, pfApply, pfPermit, pfStream, pfUp, pfTable, pfLis>>
    BY DEF PublishBundle, liveVars, proxyVars
  <1>2. FeedTypes /\ Reads
    BY DEF FeedInv
  <1>3. g = "routes" => pfGot = {pfSvcs}
    BY <1>1, <1>2 DEF Reads
  <1>4. pfWatch' = [pfWatch EXCEPT ![g] = LiveBundle(g)]
    <2>1. ASSUME NEW x PROVE (CHOOSE s \in {x} : TRUE) = x
      OBVIOUS
    <2>2. g = "routes" => got = pfSvcs
      BY <1>3, <2>1
    <2> HIDE DEF got
    <2>3. CASE g = "ports"
      BY <1>1, <2>3 DEF LiveBundle
    <2>4. CASE g = "routes"
      BY <1>1, <2>2, <2>4 DEF LiveBundle
    <2>. QED BY <2>3, <2>4, FeedNames
  <1>5. LiveBundle(g) \in Bundles(g)
    BY <1>2, LiveIsBundle
  <1>6. \A f \in Feeds : /\ pfWatch'[f] = IF f = g THEN LiveBundle(g) ELSE pfWatch[f]
                         /\ pfFresh'[f] = IF f = g THEN TRUE ELSE pfFresh[f]
                         /\ pfBuild'[f] = IF f = g THEN "idle" ELSE pfBuild[f]
    BY <1>1, <1>2, <1>4 DEF FeedTypes
  <1>7. FeedTypes'
    <2>1. pfFresh' \in [Feeds -> BOOLEAN] /\ pfBuild' \in [Feeds -> {"idle", "woken", "reading"}] /\ DOMAIN pfWatch' = Feeds
      BY <1>1, <1>2 DEF FeedTypes
    <2>2. pfBuild'["ports"] # "reading"
      BY <1>2, <1>6 DEF FeedTypes, Feeds
    <2>3. \A f \in Feeds : pfWatch'[f] \in Bundles(f)
      BY <1>2, <1>5, <1>6 DEF FeedTypes
    <2>. QED BY <1>1, <1>2, <2>1, <2>2, <2>3 DEF FeedTypes
  <1>8. Reads'
    BY <1>1, <1>2, <1>6, FeedNames DEF Reads, Feeds
  <1>9. LiveBundle("ports")' = LiveBundle("ports") /\ LiveBundle("routes")' = LiveBundle("routes")
    BY <1>1 DEF LiveBundle
  <1>10. \A f \in Feeds : IsPublished(f)'
    <2> SUFFICES ASSUME NEW f \in Feeds PROVE IsPublished(f)'
      OBVIOUS
    <2>1. IsPublished(f) /\ LiveBundle(f)' = LiveBundle(f)
      BY <1>9, FeedNames DEF FeedInv
    <2>. QED BY <1>1, <1>6, <2>1 DEF IsPublished
  <1>11. \A f \in Feeds : Sent(f)'
    <2> SUFFICES ASSUME NEW f \in Feeds PROVE Sent(f)'
      OBVIOUS
    <2>1. Sent(f)
      BY DEF FeedInv
    <2>2. CASE f = g
      BY <1>6, <2>2 DEF Sent
    <2>3. CASE f # g
      <3>1. pfWatch'[f] = pfWatch[f] /\ pfFresh'[f] = pfFresh[f]
        BY <1>6, <2>3
      <3>. QED BY <1>1, <2>1, <3>1, HasStays DEF Sent
    <2>. QED BY <2>2, <2>3
  <1>. QED BY <1>1, <1>7, <1>8, <1>10, <1>11 DEF FeedInv

LEMMA SendSnapshotKeeps == ASSUME FeedInv, NEW g \in Feeds, SendSnapshot(g) PROVE FeedInv'
  <1>1. /\ g = "ports" => pfUp
        /\ pfFresh' = [pfFresh EXCEPT ![g] = FALSE]
        /\ pfStream' = [pfStream EXCEPT ![g] = Append(pfStream[g], pfWatch[g])]
        /\ UNCHANGED <<pfSvcs, pfRoutes, pfApply, pfPermit, pfBuild, pfGot, pfWatch, pfUp, pfTable, pfLis>>
    BY DEF SendSnapshot, liveVars, builderVars, proxyVars
  <1>2. FeedTypes
    BY DEF FeedInv
  <1>3. PICK q \in Seq(Bundles(g)), b \in Bundles(g) : q = pfStream[g] /\ b = pfWatch[g]
    BY <1>2 DEF FeedTypes
  <1>4. Append(q, b) \in Seq(Bundles(g)) /\ Append(q, b) # <<>> /\ Append(q, b)[Len(Append(q, b))] = b
    BY AppendProperties
  <1>5. \A f \in Feeds : /\ pfStream'[f] = IF f = g THEN Append(q, b) ELSE pfStream[f]
                         /\ f # g => pfFresh'[f] = pfFresh[f]
    BY <1>1, <1>2, <1>3 DEF FeedTypes
  <1>6. FeedTypes'
    <2>1. pfFresh' \in [Feeds -> BOOLEAN] /\ DOMAIN pfStream' = Feeds
      BY <1>1, <1>2 DEF FeedTypes
    <2>2. \A f \in Feeds : pfStream'[f] \in Seq(Bundles(f))
      BY <1>2, <1>4, <1>5 DEF FeedTypes
    <2>. QED BY <1>1, <1>2, <2>1, <2>2 DEF FeedTypes
  <1>7. \A f \in Feeds : IsPublished(f)'
    BY <1>1 DEF FeedInv, IsPublished, LiveBundle
  <1>8. \A f \in Feeds : Sent(f)'
    <2> SUFFICES ASSUME NEW f \in Feeds PROVE Sent(f)'
      OBVIOUS
    <2>1. Sent(f)
      BY DEF FeedInv
    <2>2. CASE f = g
      BY <1>1, <1>3, <1>4, <1>5, <2>2 DEF Sent
    <2>3. CASE f # g
      <3>1. pfStream'[f] = pfStream[f] /\ pfFresh'[f] = pfFresh[f]
        BY <1>5, <2>3
      <3>. QED BY <1>1, <2>1, <3>1, HasStays DEF Sent
    <2>. QED BY <2>2, <2>3
  <1>9. ~pfUp' => pfStream'["ports"] = <<>>
    BY <1>1, <1>5 DEF FeedInv, Feeds
  <1>10. Reads'
    BY <1>1 DEF FeedInv, Reads
  <1>. QED BY <1>1, <1>6, <1>7, <1>8, <1>9, <1>10 DEF FeedInv

\* The proxy acts: the server's side of the invariant stays, one feed's
\* bundle is taken or its stream is lost.
LEMMA ProxySide ==
    ASSUME FeedInv, UNCHANGED <<pfSvcs, pfRoutes, pfApply, pfPermit, pfBuild, pfGot, pfWatch>>,
           pfFresh' \in [Feeds -> BOOLEAN], pfUp' \in BOOLEAN,
           DOMAIN pfStream' = Feeds, \A f \in Feeds : pfStream'[f] \in Seq(Bundles(f)),
           pfLis' \in [PfKeys -> [st : {"none", "starting", "bound", "ended"}, svc : PfTargets]],
           \A f \in Feeds : Sent(f)', ~pfUp' => pfStream'["ports"] = <<>>,
           \E b \in RouteBundles \cup {{}} : pfTable' \in FromBundle(b)
    PROVE  FeedInv'
  <1>1. FeedTypes'
    BY DEF FeedInv, FeedTypes
  <1>2. Reads' /\ \A f \in Feeds : IsPublished(f)'
    BY DEF FeedInv, Reads, IsPublished, LiveBundle
  <1>. QED BY <1>1, <1>2 DEF FeedInv

LEMMA SwapTableKeeps == ASSUME FeedInv, SwapTable PROVE FeedInv'
  <1>1. /\ pfStream["routes"] # <<>> /\ pfTable' \in FromBundle(Head(pfStream["routes"]))
        /\ pfStream' = [pfStream EXCEPT !["routes"] = Tail(pfStream["routes"])]
        /\ UNCHANGED <<pfSvcs, pfRoutes, pfApply, pfPermit, pfBuild, pfGot, pfWatch, pfFresh, pfUp, pfLis>>
    BY DEF SwapTable, liveVars, builderVars
  <1>2. FeedTypes /\ Sent("routes") /\ Sent("ports")
    BY DEF FeedInv, Feeds
  <1>3. PICK q \in Seq(RouteBundles) : q = pfStream["routes"]
    BY <1>2 DEF FeedTypes, Feeds, Bundles
  <1>4. /\ Head(q) \in RouteBundles /\ Tail(q) \in Seq(RouteBundles)
        /\ Tail(q) = <<>> => Head(q) = q[Len(q)]
        /\ Tail(q) # <<>> => Tail(q)[Len(Tail(q))] = q[Len(q)]
    BY <1>1, <1>3, TakenOff
  <1>5. DOMAIN pfStream' = Feeds /\ pfStream'["routes"] = Tail(q) /\ pfStream'["ports"] = pfStream["ports"]
    BY <1>1, <1>2, <1>3 DEF FeedTypes, Feeds
  <1>6. \A f \in Feeds : pfStream'[f] \in Seq(Bundles(f))
    BY <1>2, <1>4, <1>5 DEF FeedTypes, Feeds, Bundles
  <1>7. Sent("routes")'
    <2>1. ~pfFresh["routes"] => q[Len(q)] = pfWatch["routes"]
      BY <1>1, <1>2, <1>3 DEF Sent
    <2>2. CASE Tail(q) = <<>>
      <3>1. ~pfFresh["routes"] => Has("routes", pfWatch["routes"])'
        BY <1>1, <1>3, <1>4, <2>1, <2>2 DEF Has
      <3>. QED BY <1>1, <1>5, <2>2, <3>1 DEF Sent
    <2>3. CASE Tail(q) # <<>>
      BY <1>1, <1>4, <1>5, <2>1, <2>3 DEF Sent
    <2>. QED BY <2>2, <2>3
  <1>8. Sent("ports")'
    <2>1. Has("ports", pfWatch["ports"])' <=> Has("ports", pfWatch["ports"])
      BY <1>1 DEF Has
    <2>. QED BY <1>1, <1>2, <1>5, <2>1 DEF Sent
  <1>9. \E b \in RouteBundles \cup {{}} : pfTable' \in FromBundle(b)
    BY <1>1, <1>3, <1>4
  <1>10. ~pfUp' => pfStream'["ports"] = <<>>
    BY <1>1, <1>5 DEF FeedInv
  <1>11. \A f \in Feeds : Sent(f)'
    BY <1>7, <1>8 DEF Feeds
  <1>12. /\ pfFresh' \in [Feeds -> BOOLEAN] /\ pfUp' \in BOOLEAN
         /\ pfLis' \in [PfKeys -> [st : {"none", "starting", "bound", "ended"}, svc : PfTargets]]
    BY <1>1, <1>2 DEF FeedTypes
  <1>. QED BY <1>1, <1>5, <1>6, <1>9, <1>10, <1>11, <1>12, ProxySide

\* What reconcile makes of the listeners is the bundle it was given.
LEMMA ReconciledHas ==
    ASSUME NEW b \in PortSets, pfLis \in [PfKeys -> [st : {"none", "starting", "bound", "ended"}, svc : PfTargets]],
           pfLis' = [k \in PfKeys |->
                  IF k \notin {m[1] : m \in b} THEN NoListener
                  ELSE [st |-> IF pfLis[k].st = "none" THEN "starting" ELSE pfLis[k].st,
                        svc |-> (CHOOSE m \in b : m[1] = k)[2]]]
    PROVE  /\ pfLis' \in [PfKeys -> [st : {"none", "starting", "bound", "ended"}, svc : PfTargets]]
           /\ Has("ports", b)'
  <1> DEFINE keys == {m[1] : m \in b}
             of(k) == CHOOSE m \in b : m[1] = k
  <1>1. NoListener \in [st : {"none", "starting", "bound", "ended"}, svc : PfTargets] /\ NoListener.st = "none"
    BY DEF NoListener, PfTargets
  <1>2. \A k \in keys : of(k) \in b /\ of(k)[1] = k /\ of(k)[2] \in PfTargets /\ of(k) = <<k, of(k)[2]>>
    BY PortsOk
  <1>3. \A m \in b : m[1] \in keys /\ m[1] \in PfKeys /\ of(m[1]) = m
    BY PortsOk
  <1>4. ASSUME NEW k \in PfKeys
        PROVE  /\ k \notin keys => pfLis'[k] = NoListener
               /\ k \in keys => pfLis'[k].svc = of(k)[2] /\ pfLis'[k].st # "none"
               /\ pfLis'[k] \in [st : {"none", "starting", "bound", "ended"}, svc : PfTargets]
    <2>1. pfLis[k].st \in {"none", "starting", "bound", "ended"}
      OBVIOUS
    <2>. HIDE DEF of
    <2>. QED BY <1>1, <1>2, <2>1
  <1>5. pfLis' \in [PfKeys -> [st : {"none", "starting", "bound", "ended"}, svc : PfTargets]]
    BY <1>4
  <1> HIDE DEF keys, of
  <1>6. {<<k, pfLis'[k].svc>> : k \in {k \in PfKeys : pfLis'[k].st # "none"}} = b
    <2>1. ASSUME NEW k \in PfKeys, pfLis'[k].st # "none" PROVE <<k, pfLis'[k].svc>> \in b
      <3>1. k \in keys
        BY <1>1, <1>4, <2>1
      <3>2. pfLis'[k].svc = of(k)[2] /\ of(k) \in b /\ of(k) = <<k, of(k)[2]>>
        BY <1>2, <1>4, <3>1
      <3>. QED BY <3>2, Zenon
    <2>2. ASSUME NEW m \in b PROVE m[1] \in PfKeys /\ pfLis'[m[1]].st # "none" /\ m = <<m[1], pfLis'[m[1]].svc>>
      BY <1>2, <1>3, <1>4
    <2> DEFINE up == {k \in PfKeys : pfLis'[k].st # "none"}
    <2>3. ASSUME NEW x \in {<<k, pfLis'[k].svc>> : k \in up} PROVE x \in b
      <3>1. PICK k \in up : x = <<k, pfLis'[k].svc>>
        OBVIOUS
      <3>. QED BY <2>1, <3>1
    <2>4. ASSUME NEW m \in b PROVE m \in {<<k, pfLis'[k].svc>> : k \in up}
      <3>1. m[1] \in up
        BY <2>2
      <3>. QED BY <2>2, <3>1, Zenon
    <2>. QED BY <2>3, <2>4
  <1>. QED BY <1>5, <1>6 DEF Has

LEMMA ReconcileKeeps == ASSUME FeedInv, Reconcile PROVE FeedInv'
  <1> DEFINE p == pfStream["ports"]
  <1>1. /\ p # <<>> /\ pfStream' = [pfStream EXCEPT !["ports"] = Tail(p)]
        /\ UNCHANGED <<pfSvcs, pfRoutes, pfApply, pfPermit, pfBuild, pfGot, pfWatch, pfFresh, pfUp, pfTable>>
    BY DEF Reconcile, liveVars, builderVars
  <1>2. FeedTypes /\ Sent("routes") /\ Sent("ports")
    BY DEF FeedInv, Feeds
  <1>3. PICK q \in Seq(PortSets) : q = p
    BY <1>2 DEF FeedTypes, Feeds, Bundles
  <1>4. /\ Head(q) \in PortSets /\ Tail(q) \in Seq(PortSets)
        /\ Tail(q) = <<>> => Head(q) = q[Len(q)]
        /\ Tail(q) # <<>> => Tail(q)[Len(Tail(q))] = q[Len(q)]
    BY <1>1, <1>3, TakenOff
  <1>5. PICK b \in PortSets : b = Head(q)
    BY <1>4
  <1>6. pfLis' \in [PfKeys -> [st : {"none", "starting", "bound", "ended"}, svc : PfTargets]] /\ Has("ports", b)'
    <2>1. pfLis' = [k \in PfKeys |->
                  IF k \notin {m[1] : m \in b} THEN NoListener
                  ELSE [st |-> IF pfLis[k].st = "none" THEN "starting" ELSE pfLis[k].st,
                        svc |-> (CHOOSE m \in b : m[1] = k)[2]]]
      BY <1>3, <1>5 DEF Reconcile
    <2>2. pfLis \in [PfKeys -> [st : {"none", "starting", "bound", "ended"}, svc : PfTargets]]
      BY <1>2 DEF FeedTypes
    <2>. QED BY <2>1, <2>2, ReconciledHas
  <1>7. DOMAIN pfStream' = Feeds /\ pfStream'["ports"] = Tail(q) /\ pfStream'["routes"] = pfStream["routes"]
    BY <1>1, <1>2, <1>3 DEF FeedTypes, Feeds
  <1>8. \A f \in Feeds : pfStream'[f] \in Seq(Bundles(f))
    BY <1>2, <1>4, <1>7 DEF FeedTypes, Feeds, Bundles
  <1>9. Sent("ports")'
    <2>1. ~pfFresh["ports"] /\ pfUp => q[Len(q)] = pfWatch["ports"]
      BY <1>1, <1>2, <1>3 DEF Sent
    <2>2. CASE Tail(q) = <<>>
      <3>1. ~pfFresh["ports"] /\ pfUp => Has("ports", pfWatch["ports"])'
        BY <1>1, <1>4, <1>5, <1>6, <2>1, <2>2 DEF Has
      <3>. QED BY <1>1, <1>7, <2>2, <3>1 DEF Sent
    <2>3. CASE Tail(q) # <<>>
      BY <1>1, <1>4, <1>7, <2>1, <2>3 DEF Sent
    <2>. QED BY <2>2, <2>3
  <1>10. Sent("routes")'
    <2>1. Has("routes", pfWatch["routes"])' <=> Has("routes", pfWatch["routes"])
      BY <1>1 DEF Has
    <2>. QED BY <1>1, <1>2, <1>7, <2>1 DEF Sent
  <1>11. \A f \in Feeds : Sent(f)'
    BY <1>9, <1>10 DEF Feeds
  <1>12. ~pfUp' => pfStream'["ports"] = <<>>
    BY <1>1 DEF FeedInv
  <1>13. pfFresh' \in [Feeds -> BOOLEAN] /\ pfUp' \in BOOLEAN /\ \E x \in RouteBundles \cup {{}} : pfTable' \in FromBundle(x)
    BY <1>1, <1>2 DEF FeedTypes, FeedInv
  <1>. QED BY <1>1, <1>6, <1>7, <1>8, <1>11, <1>12, <1>13, ProxySide

LEMMA BindKeeps == ASSUME FeedInv, NEW k \in PfKeys, Bind(k) PROVE FeedInv'
  <1>1. PICK st \in {"bound", "ended"} : pfLis' = [pfLis EXCEPT ![k].st = st]
    BY DEF Bind
  <1>2. /\ pfLis[k].st = "starting"
        /\ UNCHANGED <<pfSvcs, pfRoutes, pfApply, pfPermit, pfBuild, pfGot, pfWatch, pfFresh, pfStream, pfUp, pfTable>>
    BY DEF Bind, liveVars, builderVars
  <1>3. FeedTypes
    BY DEF FeedInv
  <1>4. pfLis' \in [PfKeys -> [st : {"none", "starting", "bound", "ended"}, svc : PfTargets]]
    BY <1>1, <1>3 DEF FeedTypes
  <1>5. \A x \in PfKeys : pfLis'[x].svc = pfLis[x].svc /\ (pfLis'[x].st # "none" <=> pfLis[x].st # "none")
    BY <1>1, <1>2, <1>3 DEF FeedTypes
  <1>6. \A f, b : Has(f, b)' <=> Has(f, b)
    <2>1. {<<x, pfLis'[x].svc>> : x \in {x \in PfKeys : pfLis'[x].st # "none"}}
            = {<<x, pfLis[x].svc>> : x \in {x \in PfKeys : pfLis[x].st # "none"}}
      BY <1>5
    <2>. QED BY <1>2, <2>1 DEF Has
  <1>7. \A f \in Feeds : Sent(f)'
    BY <1>2, <1>6 DEF FeedInv, Sent
  <1>8. /\ pfFresh' \in [Feeds -> BOOLEAN] /\ pfUp' \in BOOLEAN /\ DOMAIN pfStream' = Feeds
        /\ \A f \in Feeds : pfStream'[f] \in Seq(Bundles(f))
    BY <1>2, <1>3 DEF FeedTypes
  <1>9. (~pfUp' => pfStream'["ports"] = <<>>) /\ \E b \in RouteBundles \cup {{}} : pfTable' \in FromBundle(b)
    BY <1>2 DEF FeedInv
  <1>. QED BY <1>2, <1>4, <1>7, <1>8, <1>9, ProxySide

\* The invariant does not speak of the sockets of earlier listeners.
LEMMA SocketFreedKeeps == ASSUME FeedInv, UNCHANGED <<liveVars, builderVars, pfFresh, pfStream, pfUp, pfTable, pfLis>> PROVE FeedInv'
  BY DEF liveVars, builderVars, FeedInv, FeedTypes, Reads, IsPublished, Sent, Has, LiveBundle

LEMMA NoListeners == [k \in PfKeys |-> NoListener] \in [PfKeys -> [st : {"none", "starting", "bound", "ended"}, svc : PfTargets]]
  <1>1. NoListener \in [st : {"none", "starting", "bound", "ended"}, svc : PfTargets]
    BY DEF NoListener, PfTargets
  <1>. QED BY <1>1

LEMMA StreamDropsKeeps == ASSUME FeedInv, StreamDrops PROVE FeedInv'
  <1>1. /\ pfUp' = FALSE /\ pfStream' = [pfStream EXCEPT !["ports"] = <<>>] /\ pfLis' = [k \in PfKeys |-> NoListener]
        /\ UNCHANGED <<pfSvcs, pfRoutes, pfApply, pfPermit, pfBuild, pfGot, pfWatch, pfFresh, pfTable>>
    BY DEF StreamDrops, liveVars, builderVars
  <1>2. FeedTypes /\ Sent("routes")
    BY DEF FeedInv, Feeds
  <1>3. DOMAIN pfStream' = Feeds /\ pfStream'["ports"] = <<>> /\ pfStream'["routes"] = pfStream["routes"]
    BY <1>1, <1>2 DEF FeedTypes, Feeds
  <1>4. \A f \in Feeds : pfStream'[f] \in Seq(Bundles(f))
    <2>1. pfStream'["ports"] \in Seq(Bundles("ports"))
      BY <1>3
    <2>2. pfStream'["routes"] \in Seq(Bundles("routes"))
      BY <1>2, <1>3 DEF FeedTypes, Feeds
    <2>. QED BY <2>1, <2>2 DEF Feeds
  <1>5. Sent("ports")'
    BY <1>1 DEF Sent
  <1>6. Sent("routes")'
    BY <1>1, <1>2, <1>3 DEF Sent, Has
  <1>7. \A f \in Feeds : Sent(f)'
    BY <1>5, <1>6 DEF Feeds
  <1>8. pfFresh' \in [Feeds -> BOOLEAN] /\ \E b \in RouteBundles \cup {{}} : pfTable' \in FromBundle(b)
    BY <1>1, <1>2 DEF FeedInv, FeedTypes
  <1>9. pfLis' \in [PfKeys -> [st : {"none", "starting", "bound", "ended"}, svc : PfTargets]]
    BY <1>1, NoListeners
  <1>. QED BY <1>1, <1>3, <1>4, <1>7, <1>8, <1>9, ProxySide

LEMMA StreamReopensKeeps == ASSUME FeedInv, StreamReopens PROVE FeedInv'
  <1>1. /\ pfUp' = TRUE /\ pfFresh' = [pfFresh EXCEPT !["ports"] = TRUE]
        /\ UNCHANGED <<pfSvcs, pfRoutes, pfApply, pfPermit, pfBuild, pfGot, pfWatch, pfStream, pfTable, pfLis>>
    BY DEF StreamReopens, liveVars, builderVars, proxyVars
  <1>2. FeedTypes /\ Sent("routes")
    BY DEF FeedInv, Feeds
  <1>3. pfFresh' \in [Feeds -> BOOLEAN] /\ pfFresh'["ports"] = TRUE /\ pfFresh'["routes"] = pfFresh["routes"]
    BY <1>1, <1>2 DEF FeedTypes, Feeds
  <1>4. Sent("ports")' /\ Sent("routes")'
    BY <1>1, <1>2, <1>3, HasStays DEF Sent
  <1>5. \A f \in Feeds : Sent(f)'
    BY <1>4 DEF Feeds
  <1>6. /\ DOMAIN pfStream' = Feeds /\ \A f \in Feeds : pfStream'[f] \in Seq(Bundles(f))
        /\ pfLis' \in [PfKeys -> [st : {"none", "starting", "bound", "ended"}, svc : PfTargets]]
        /\ \E b \in RouteBundles \cup {{}} : pfTable' \in FromBundle(b)
    BY <1>1, <1>2 DEF FeedInv, FeedTypes
  <1>. QED BY <1>1, <1>3, <1>5, <1>6, ProxySide

LEMMA ProxyRestartsKeeps == ASSUME FeedInv, ProxyRestarts PROVE FeedInv'
  <1>1. /\ pfUp' = TRUE /\ pfFresh' = [f \in Feeds |-> TRUE] /\ pfStream' = [f \in Feeds |-> <<>>]
        /\ pfTable' \in FromBundle({}) /\ pfLis' = [k \in PfKeys |-> NoListener]
        /\ UNCHANGED <<pfSvcs, pfRoutes, pfApply, pfPermit, pfBuild, pfGot, pfWatch>>
    BY DEF ProxyRestarts, liveVars, builderVars
  <1>2. \A f \in Feeds : Sent(f)'
    BY <1>1 DEF Sent
  <1>3. /\ DOMAIN pfStream' = Feeds /\ \A f \in Feeds : pfStream'[f] \in Seq(Bundles(f))
        /\ pfFresh' \in [Feeds -> BOOLEAN]
    BY <1>1
  <1>4. pfLis' \in [PfKeys -> [st : {"none", "starting", "bound", "ended"}, svc : PfTargets]]
    BY <1>1, NoListeners
  <1>5. \E b \in RouteBundles \cup {{}} : pfTable' \in FromBundle(b)
    BY <1>1
  <1>. QED BY <1>1, <1>2, <1>3, <1>4, <1>5, ProxySide

LEMMA FeedStep == FeedInv /\ [FeedNext]_pfVars => FeedInv'
  <1> SUFFICES ASSUME FeedInv, [FeedNext]_pfVars PROVE FeedInv'
    OBVIOUS
  <1>1. CASE \E c \in PfConfigs : ApplyServices(c)
    BY <1>1, ApplyServicesKeeps
  <1>2. CASE \E f \in Feeds : Wake(f) \/ PublishBundle(f) \/ SendSnapshot(f)
    BY <1>2, WakeKeeps, PublishBundleKeeps, SendSnapshotKeeps
  <1>3. CASE \E k \in PfKeys : Bind(k)
    BY <1>3, BindKeeps
  <1>4. CASE (\E k \in PfKeys : SocketFreed(k)) \/ UNCHANGED pfVars
    <2>1. UNCHANGED <<liveVars, builderVars, pfFresh, pfStream, pfUp, pfTable, pfLis>>
      BY <1>4 DEF SocketFreed, pfVars, liveVars, builderVars
    <2>. QED BY <2>1, SocketFreedKeeps
  <1>. QED BY <1>1, <1>2, <1>3, <1>4, ApplyTablesKeeps, ReadServicesKeeps, SwapTableKeeps, ReconcileKeeps,
              StreamDropsKeeps, StreamReopensKeeps, ProxyRestartsKeeps DEF FeedNext

\* The first route that matches has the longest prefix of those that do.
LEMMA FirstIsLongest ==
    ASSUME NEW b \in RouteBundles \cup {{}}, NEW table \in FromBundle(b), NEW h \in DOMAIN table, NEW path,
           NEW i \in Matching(table, h, path), \A j \in Matching(table, h, path) : i <= j
    PROVE  /\ IsPrefix(table[h][i][2], path) /\ i \in DOMAIN table[h]
           /\ \A j \in Matching(table, h, path) : Len(table[h][j][2]) <= Len(table[h][i][2])
  <1> DEFINE mine == {r \in b : r[1] = h}
             q == table[h]
  <1>1. q \in LongestFirst(mine)
    BY DEF FromBundle
  <1>2. q \in SetToSeqs(mine) /\ \A x, y \in DOMAIN q : x < y => Len(q[x][2]) >= Len(q[y][2])
    BY <1>1 DEF LongestFirst
  <1>3. DOMAIN q = 1..Cardinality(mine) /\ \A x \in DOMAIN q : q[x] \in mine
    BY <1>2 DEF SetToSeqs
  <1>4. \A x \in DOMAIN q : Len(q[x][2]) \in Nat
    BY <1>3, RoutesOk
  <1>5. Matching(table, h, path) \subseteq DOMAIN q /\ IsPrefix(table[h][i][2], path)
    BY DEF Matching
  <1> HIDE DEF q, mine
  <1>6. \A j \in Matching(table, h, path) : Len(q[j][2]) <= Len(q[i][2])
    <2> SUFFICES ASSUME NEW j \in Matching(table, h, path) PROVE Len(q[j][2]) <= Len(q[i][2])
      OBVIOUS
    <2>1. i \in DOMAIN q /\ j \in DOMAIN q /\ i \in Int /\ j \in Int /\ i <= j
      BY <1>3, <1>5
    <2>2. PICK li \in Nat, lj \in Nat : li = Len(q[i][2]) /\ lj = Len(q[j][2])
      BY <1>4, <2>1
    <2>3. i < j => li >= lj
      BY <1>2, <2>1, <2>2
    <2>4. i = j => li = lj
      BY <2>2
    <2>5. lj <= li
      BY <2>1, <2>3, <2>4
    <2>. QED BY <2>2, <2>5
  <1>. QED BY <1>5, <1>6 DEF q

LEMMA Resolved ==
    ASSUME NEW b \in RouteBundles \cup {{}}, NEW table \in FromBundle(b), NEW h \in DOMAIN table, NEW path,
           Matching(table, h, path) # {}
    PROVE  \E i \in DOMAIN table[h] :
              /\ Resolve(table, h, path) = <<"service", table[h][i][3]>>
              /\ IsPrefix(table[h][i][2], path)
              /\ \A j \in Matching(table, h, path) : Len(table[h][j][2]) <= Len(table[h][i][2])
  <1> DEFINE match == Matching(table, h, path)
             i == CHOOSE x \in match : \A y \in match : x <= y
  <1>1. match \subseteq Nat
    <2>1. table[h] \in SetToSeqs({r \in b : r[1] = h})
      BY DEF FromBundle, LongestFirst
    <2>2. DOMAIN table[h] = 1..Cardinality({r \in b : r[1] = h})
      BY <2>1 DEF SetToSeqs
    <2>. QED BY <2>2 DEF Matching
  <1> HIDE DEF match
  <1>2. \E x \in match : \A y \in match : x <= y
    BY <1>1, Least DEF match
  <1>3. i \in match /\ \A y \in match : i <= y
    BY <1>2
  <1>4. Resolve(table, h, path) = <<"service", table[h][i][3]>>
    BY DEF Resolve, match
  <1> HIDE DEF i
  <1>. QED BY <1>3, <1>4, FirstIsLongest DEF match

\* Proxy configuration feed: whatever edits, builders, streams and restarts do
\* in between, at rest the proxy has a listener task, bound or ended, for exactly
\* the mapped ports and routes as the live configuration says, and at all times a request goes to the longest prefix of its host.
THEOREM RequestsFollowConfigAlways == FeedSpec => []RequestsFollowConfig
  <1>1. FeedInv => RequestsFollowConfig
    <2> SUFFICES ASSUME FeedInv PROVE RequestsFollowConfig
      OBVIOUS
    <2>1. ProxyFollowsConfig
      <3> SUFFICES ASSUME FeedQuiet
                   PROVE  /\ pfTable \in FromBundle(RouteBundle(pfSvcs, pfRoutes))
                          /\ {<<k, pfLis[k].svc>> : k \in {k \in PfKeys : pfLis[k].st # "none"}} = PortBundle(pfSvcs)
        BY DEF ProxyFollowsConfig
      <3>1. \A f \in Feeds : Has(f, LiveBundle(f))
        BY DEF FeedInv, FeedQuiet, IsPublished, Sent
      <3>2. Has("routes", LiveBundle("routes")) /\ Has("ports", LiveBundle("ports"))
        BY <3>1 DEF Feeds
      <3>. QED BY <3>2 DEF Has, LiveBundle
    <2>2. LongestPrefixWins
      <3> SUFFICES ASSUME NEW h \in PfHosts, NEW path \in PfPaths
                   PROVE  LET cover == {r \in UNION {Range(pfTable[g]) : g \in DOMAIN pfTable \cap {h}} : IsPrefix(r[2], path)}
                              best == {r \in cover : \A q \in cover : Len(q[2]) <= Len(r[2])}
                          IN  cover # {} => Resolve(pfTable, h, path) \in {<<"service", r[3]>> : r \in best}
        BY DEF LongestPrefixWins
      <3> DEFINE cover == {r \in UNION {Range(pfTable[g]) : g \in DOMAIN pfTable \cap {h}} : IsPrefix(r[2], path)}
                 best == {r \in cover : \A q \in cover : Len(q[2]) <= Len(r[2])}
      <3> SUFFICES ASSUME cover # {} PROVE Resolve(pfTable, h, path) \in {<<"service", r[3]>> : r \in best}
        OBVIOUS
      <3>1. PICK b \in RouteBundles \cup {{}} : pfTable \in FromBundle(b)
        BY DEF FeedInv
      <3>2. h \in DOMAIN pfTable
        OBVIOUS
      <3>3. \A r : r \in cover <=> \E i \in Matching(pfTable, h, path) : r = pfTable[h][i]
        BY <3>2 DEF Matching, Range
      <3>4. Matching(pfTable, h, path) # {}
        BY <3>3
      <3>5. PICK i \in DOMAIN pfTable[h] :
              /\ Resolve(pfTable, h, path) = <<"service", pfTable[h][i][3]>>
              /\ IsPrefix(pfTable[h][i][2], path)
              /\ \A j \in Matching(pfTable, h, path) : Len(pfTable[h][j][2]) <= Len(pfTable[h][i][2])
        BY <3>1, <3>2, <3>4, Resolved
      <3>6. i \in Matching(pfTable, h, path)
        BY <3>5 DEF Matching
      <3> HIDE DEF cover
      <3>7. pfTable[h][i] \in best
        BY <3>3, <3>5, <3>6
      <3>. QED BY <3>5, <3>7, Zenon
    <2>. QED BY <2>1, <2>2 DEF RequestsFollowConfig
  <1>. QED BY <1>1, FeedStart, FeedStep, PTL DEF FeedSpec
=============================================================================
