-------------------------- MODULE TriggerPath_proof --------------------------
(***************************************************************************)
(* The two ends of a trigger: the client's held packets and rules          *)
(* (Triggers: HeldPacketsWake, RulesFollowClaims) and the sessions the     *)
(* server builds for them (BackendSessions: SessionsOwnTheirReference).    *)
(* The ends share no state.                                                *)
(***************************************************************************)
EXTENDS Triggers, BackendSessions, FiniteSetTheorems, SequenceTheorems, TLAPS

-----------------------------------------------------------------------------
(* Triggers.  The invariant has four parts.  ClaimInv: a Notify belongs to *)
(* one key, whoever carries it, so NetReady wakes the packets of its own   *)
(* key and all of them.  NetInv: the commands of a network come in order   *)
(* and its teardown once.  SteerInv: while the rule of a network stands,   *)
(* so does the entry its teardown will look for, unless a later setup took *)
(* it over.  AskInv: a network was asked for by a packet whose claim is    *)
(* still there, or was forgotten or lost.                                  *)

Stages == {"new", "claimed", "registered", "calling", "waiting", "answered", "accept", "drop"}
Entry == [st : {"none", "pending", "installed"}, token : Tokens, aged : BOOLEAN, ready : BOOLEAN,
          net : TrNets \cup {TrNone}]
PacketRecord == [pc : Stages, key : TrKeys \cup {TrNone}, starts : BOOLEAN, token : Tokens]
NetRecord == [st : {"unused", "told", "installing", "prepared", "failed", "released", "torn", "stuck"},
              key : TrKeys \cup {TrNone}]
PastRecord == [forgotten : SUBSET TrPackets, ready : SUBSET TrKeys, lost : SUBSET TrPackets,
               replaced : SUBSET (TrNets \cup {TrNone})]

TrTypes ==
    /\ trEntry \in [TrKeys -> Entry]
    /\ trPacket \in [TrPackets -> PacketRecord]
    /\ trWoken \subseteq TrPackets
    /\ trServer \in [TrKeys -> TrNets \cup {TrNone}]
    /\ trNet \in [TrNets -> NetRecord]
    /\ trRules \subseteq [net : TrNets, scoped : BOOLEAN]
    /\ trPast \in PastRecord

-----------------------------------------------------------------------------
(* Claims *)

\* The Notify t was made for key k: by the claim of a packet, or by a setup.
TokenOf(t, k) ==
    \/ t \in TrPackets /\ trPacket[t].pc # "new" /\ trPacket[t].key = k
    \/ t \in TrNets /\ trNet[t].st # "unused" /\ trNet[t].key = k

PacketShape ==
    \A p \in TrPackets :
        /\ trPacket[p].pc = "new" => trPacket[p].key = TrNone /\ trPacket[p].token = TrNone
        /\ trPacket[p].pc \in {"claimed", "registered", "calling", "waiting", "answered"} => trPacket[p].key \in TrKeys
        /\ trPacket[p].pc = "calling" => trPacket[p].starts
        /\ trPacket[p].token # TrNone => TokenOf(trPacket[p].token, trPacket[p].key)

EntryShape ==
    \A k \in TrKeys :
        /\ trEntry[k].ready => trEntry[k].st = "installed"
        /\ trEntry[k].st = "pending" => trEntry[k].token \in TrPackets
        /\ trEntry[k].st # "none" => TokenOf(trEntry[k].token, k)
        /\ trEntry[k].st = "pending" /\ trEntry[k].aged
              => trPacket[trEntry[k].token].pc \notin {"new", "claimed", "registered", "calling"}

\* Only NetReady makes a key active or wakes a packet.
WokenReady ==
    /\ \A k \in TrKeys : Active(k) => k \in trPast.ready
    /\ \A p \in trWoken : trPacket[p].key \in trPast.ready

\* ClaimStands, from the claim on.
ClaimHeld ==
    \A p \in TrPackets :
        /\ trPacket[p].pc \in {"claimed", "registered", "calling"} /\ trPacket[p].starts
        /\ p \notin trPast.lost
        => trEntry[trPacket[p].key].st # "none" /\ trEntry[trPacket[p].key].token = p

ClaimInv == PacketShape /\ EntryShape /\ WokenReady /\ ClaimHeld /\ NoLostWakeup /\ NoPacketBeforeReady

-----------------------------------------------------------------------------
(* Networks *)

\* What may be on its way to a network in each of its states.
CmdsOf(st) ==
    CASE st = "unused" -> {<<>>}
      [] st \in {"told", "installing"} -> {<<"setup">>, <<"setup", "teardown">>}
      [] st \in {"prepared", "failed"} -> {<<>>, <<"teardown">>}
      [] st = "released" -> {<<>>, <<"ready">>, <<"teardown">>, <<"ready", "teardown">>}
      [] OTHER -> {<<>>}

\* What may be on its way to a network the server still holds.
BeforeTeardown == {<<>>, <<"setup">>, <<"ready">>}

NetInv ==
    /\ \A n \in TrNets : trCmds[n] \in CmdsOf(trNet[n].st)
    /\ trCmds \in [TrNets -> Seq({"setup", "ready", "teardown"})]
    /\ \A n \in TrNets : trNet[n].st # "unused" => trNet[n].key \in TrKeys
    /\ \A k \in TrKeys : trServer[k] # TrNone =>
          /\ trNet[trServer[k]].key = k
          /\ trNet[trServer[k]].st \in {"told", "installing", "prepared", "failed", "released"}
          /\ trCmds[trServer[k]] \in BeforeTeardown
    /\ \A r \in trRules : trNet[r.net].st \notin {"unused", "told"}

\* The entry a teardown of n will look for.
Steered(n) == trEntry[trNet[n].key].st = "installed" /\ trEntry[trNet[n].key].net = n

SteerInv ==
    /\ \A n \in TrNets : /\ trNet[n].st \in {"prepared", "failed", "released"}
                         /\ n \notin trPast.replaced
                         /\ \E r \in trRules : r.net = n
                         => Steered(n)
    /\ TornDownLeavesNoRule

\* Packets of key k whose claim was forgotten by its caller or lost to a teardown.
Losers(k) == {p \in trPast.forgotten \cup trPast.lost : trPacket[p].key = k}

AskInv ==
    /\ \A n \in TrNets : trNet[n].st # "unused" =>
          /\ \E p \in TrPackets : trPacket[p].key = trNet[n].key
          /\ trEntry[trNet[n].key].st # "none" \/ Losers(trNet[n].key) # {}
    /\ UnscopedOnlyAfterForget

TrInv == TrTypes /\ ClaimInv /\ NetInv /\ SteerInv /\ AskInv

-----------------------------------------------------------------------------
(* What a step must respect to keep each part *)

\* A key is no packet's before the packet has claimed, and never changes then.
LEMMA TokenIsOwn ==
    ASSUME NEW t, NEW k, NEW q, TokenOf(t, k), TokenOf(t, q)
    PROVE  k = q
  BY TrAssumption DEF TokenOf

LEMMA NoneIsNoKey == TrNone \notin TrKeys /\ TrNone \notin TrPackets /\ TrNone \notin TrNets
  BY TrAssumption DEF TrKeys

\* A Notify keeps its key.
LEMMA TokenKept ==
    ASSUME NEW t, NEW k, TokenOf(t, k),
           \A p \in TrPackets : trPacket[p].pc # "new" => trPacket'[p].pc # "new" /\ trPacket'[p].key = trPacket[p].key,
           \A n \in TrNets : trNet[n].st # "unused" => trNet'[n].st # "unused" /\ trNet'[n].key = trNet[n].key
    PROVE  TokenOf(t, k)'
  BY DEF TokenOf

\* Steps of the server and of the tunnel: no packet and no entry changes.
LEMMA ClaimKept ==
    ASSUME ClaimInv, UNCHANGED <<trEntry, trPacket, trWoken, trPast>>,
           \A n \in TrNets : trNet[n].st # "unused" => trNet'[n].st # "unused" /\ trNet'[n].key = trNet[n].key
    PROVE  ClaimInv'
  <1>1. ASSUME NEW t, NEW k, TokenOf(t, k) PROVE TokenOf(t, k)'
    BY <1>1, TokenKept
  <1>2. PacketShape'
    <2> SUFFICES ASSUME NEW p \in TrPackets
                 PROVE  /\ trPacket[p].pc = "new" => trPacket[p].key = TrNone /\ trPacket[p].token = TrNone
                        /\ trPacket[p].pc \in {"claimed", "registered", "calling", "waiting", "answered"}
                              => trPacket[p].key \in TrKeys
                        /\ trPacket[p].pc = "calling" => trPacket[p].starts
                        /\ trPacket[p].token # TrNone => TokenOf(trPacket[p].token, trPacket[p].key)'
      BY DEF PacketShape
    <2>1. PICK t, k : t = trPacket[p].token /\ k = trPacket[p].key
      OBVIOUS
    <2>2. t # TrNone => TokenOf(t, k)'
      BY <1>1, <2>1 DEF ClaimInv, PacketShape
    <2>3. trPacket' = trPacket
      OBVIOUS
    <2>4. trPacket[p].token # TrNone => TokenOf(trPacket[p].token, trPacket[p].key)'
      BY <2>1, <2>2, <2>3 DEF TokenOf
    <2>. QED BY <2>4 DEF ClaimInv, PacketShape
  <1>3. EntryShape'
    <2> SUFFICES ASSUME NEW k \in TrKeys
                 PROVE  /\ trEntry[k].ready => trEntry[k].st = "installed"
                        /\ trEntry[k].st = "pending" => trEntry[k].token \in TrPackets
                        /\ trEntry[k].st # "none" => TokenOf(trEntry[k].token, k)'
                        /\ trEntry[k].st = "pending" /\ trEntry[k].aged
                              => trPacket[trEntry[k].token].pc \notin {"new", "claimed", "registered", "calling"}
      BY DEF EntryShape
    <2>1. PICK t : t = trEntry[k].token
      OBVIOUS
    <2>2. trEntry[k].st # "none" => TokenOf(t, k)'
      BY <1>1, <2>1 DEF ClaimInv, EntryShape
    <2>3. trEntry' = trEntry
      OBVIOUS
    <2>4. trEntry[k].st # "none" => TokenOf(trEntry[k].token, k)'
      BY <2>1, <2>2, <2>3 DEF TokenOf
    <2>. QED BY <2>4 DEF ClaimInv, EntryShape
  <1>4. WokenReady' /\ NoLostWakeup' /\ NoPacketBeforeReady'
    BY DEF ClaimInv, WokenReady, NoLostWakeup, NoPacketBeforeReady, Active
  <1>5. ClaimHeld'
    BY DEF ClaimInv, ClaimHeld
  <1>. QED BY <1>2, <1>3, <1>4, <1>5 DEF ClaimInv

LEMMA NetKept ==
    ASSUME NetInv, UNCHANGED <<trServer, trNet, trCmds, trRules>>
    PROVE  NetInv'
  BY DEF NetInv

\* The entries that steer stay, and a network that gets as far as to need one
\* has none or has no rule.
LEMMA SteerKept ==
    ASSUME SteerInv, NetInv, trPast.replaced \subseteq trPast'.replaced,
           \A k \in TrKeys : trEntry[k].st = "installed" => trEntry'[k].st = "installed" /\ trEntry'[k].net = trEntry[k].net,
           \A n \in TrNets : /\ trNet'[n].st \in {"prepared", "failed", "released"} =>
                                 \/ trNet[n].st \in {"prepared", "failed", "released"} /\ trNet'[n].key = trNet[n].key
                                 \/ \A r \in trRules' : r.net # n
                             /\ trNet'[n].st = "torn" => trNet[n].st = "torn"
                             /\ trNet'[n].st \in {"prepared", "failed", "released", "torn"} =>
                                 \A r \in trRules' : r.net = n => r \in trRules
    PROVE  SteerInv'
  <1>1. ASSUME NEW n \in TrNets, trNet'[n].st \in {"prepared", "failed", "released"}, n \notin trPast'.replaced,
               NEW r \in trRules', r.net = n
        PROVE  trEntry'[trNet'[n].key].st = "installed" /\ trEntry'[trNet'[n].key].net = n
    <2>1. trNet[n].st \in {"prepared", "failed", "released"} /\ trNet'[n].key = trNet[n].key /\ r \in trRules
      BY <1>1
    <2>2. Steered(n)
      BY <1>1, <2>1 DEF SteerInv
    <2>3. trNet[n].key \in TrKeys
      BY <2>1 DEF NetInv
    <2>. QED BY <2>1, <2>2, <2>3 DEF Steered
  <1>2. TornDownLeavesNoRule'
    BY DEF SteerInv, TornDownLeavesNoRule
  <1>. QED BY <1>1, <1>2 DEF SteerInv, Steered

\* A claim that goes leaves its packet among the losers, and no network and no
\* rule appears.
LEMMA AskKept ==
    ASSUME AskInv, NetInv, TrTypes, TrTypes',
           \A n \in TrNets : /\ trNet'[n].st = "unused" <=> trNet[n].st = "unused"
                             /\ trNet[n].st # "unused" => trNet'[n].key = trNet[n].key,
           \A p \in TrPackets : trPacket[p].key \in TrKeys => trPacket'[p].key = trPacket[p].key,
           trPast.forgotten \subseteq trPast'.forgotten, trPast.lost \subseteq trPast'.lost,
           \A k \in TrKeys : trEntry[k].st # "none" /\ (\E p \in TrPackets : trPacket[p].key = k)
                               => trEntry'[k].st # "none" \/ Losers(k)' # {},
           \A r \in trRules' : r \in trRules
    PROVE  AskInv'
  <1>1. ASSUME NEW k \in TrKeys, Losers(k) # {} PROVE Losers(k)' # {}
    <2>1. PICK p \in trPast.forgotten \cup trPast.lost : trPacket[p].key = k
      BY <1>1 DEF Losers
    <2>2. p \in TrPackets /\ p \in trPast'.forgotten \cup trPast'.lost
      BY DEF TrTypes, PastRecord
    <2>. QED BY <2>1, <2>2 DEF Losers
  <1>2. ASSUME NEW n \in TrNets, trNet'[n].st # "unused"
        PROVE  /\ \E p \in TrPackets : trPacket'[p].key = trNet'[n].key
               /\ \/ trEntry'[trNet'[n].key].st # "none"
                  \/ \E p \in trPast'.forgotten \cup trPast'.lost : trPacket'[p].key = trNet'[n].key
    <2>1. trNet[n].st # "unused" /\ trNet'[n].key = trNet[n].key /\ trNet[n].key \in TrKeys
      BY <1>2 DEF NetInv
    <2>2. PICK k \in TrKeys : k = trNet[n].key /\ k = trNet'[n].key
      BY <2>1
    <2>3. PICK p \in TrPackets : trPacket[p].key = k
      BY <2>1, <2>2 DEF AskInv
    <2>4. trPacket'[p].key = k
      BY <2>2, <2>3
    <2>5. trEntry[k].st # "none" \/ Losers(k) # {}
      BY <2>1, <2>2 DEF AskInv
    <2>6. trEntry'[k].st # "none" \/ Losers(k)' # {}
      BY <1>1, <2>3, <2>5
    <2>7. trEntry'[k].st # "none" \/ \E q \in trPast'.forgotten \cup trPast'.lost : trPacket'[q].key = k
      BY <2>6 DEF Losers
    <2>. QED BY <2>2, <2>4, <2>7
  <1>3. UnscopedOnlyAfterForget'
    <2> SUFFICES ASSUME NEW r \in trRules', ~r.scoped
                 PROVE  \E p \in trPast'.forgotten \cup trPast'.lost : trPacket'[p].key = trNet'[r.net].key
      BY DEF UnscopedOnlyAfterForget
    <2>1. r \in trRules /\ r.net \in TrNets
      BY DEF TrTypes
    <2>2. PICK p \in trPast.forgotten \cup trPast.lost : trPacket[p].key = trNet[r.net].key
      BY <2>1 DEF AskInv, UnscopedOnlyAfterForget
    <2>3. trNet[r.net].st # "unused" /\ trNet[r.net].key \in TrKeys
      BY <2>1 DEF NetInv
    <2>4. p \in TrPackets /\ p \in trPast'.forgotten \cup trPast'.lost
      BY DEF TrTypes, PastRecord
    <2>5. trPacket'[p].key = trNet[r.net].key
      BY <2>2, <2>3, <2>4
    <2>6. trNet'[r.net].key = trNet[r.net].key
      BY <2>1, <2>3
    <2>. QED BY <2>4, <2>5, <2>6
  <1>. QED BY <1>2, <1>3 DEF AskInv, Losers

-----------------------------------------------------------------------------
(* The packets *)

LEMMA Moved ==
    ASSUME TrTypes, NEW p \in TrPackets, NEW v \in Stages, Verdict(p, v)
    PROVE  /\ trPacket' \in [TrPackets -> PacketRecord]
           /\ trPacket'[p].pc = v
           /\ \A q \in TrPackets : q # p => trPacket'[q] = trPacket[q]
           /\ \A q \in TrPackets : /\ trPacket'[q].key = trPacket[q].key
                                   /\ trPacket'[q].starts = trPacket[q].starts
                                   /\ trPacket'[q].token = trPacket[q].token
  BY DEF TrTypes, Verdict, PacketRecord

LEMMA TypesParts ==
    ASSUME TrTypes
    PROVE  /\ \A k \in TrKeys : trEntry[k] \in Entry
           /\ \A p \in TrPackets : trPacket[p] \in PacketRecord
           /\ \A n \in TrNets : trNet[n] \in NetRecord
           /\ trPast \in PastRecord
  BY DEF TrTypes

\* A handler moves on.  What it may move to depends on what it has seen.
LEMMA PcStep ==
    ASSUME TrInv, NEW p \in TrPackets, NEW v \in Stages \ {"new", "claimed"}, Verdict(p, v),
           UNCHANGED <<trEntry, trWoken, trServer, trNet, trCmds, trRules, trPast>>,
           trPacket[p].pc = "new" => v = "accept",
           v \in {"registered", "calling"} => trPacket[p].pc \in {"claimed", "registered", "calling"},
           v \in {"waiting", "answered"} => trPacket[p].key \in TrKeys,
           v = "calling" => trPacket[p].starts,
           v = "accept" /\ trPacket[p].key # TrNone => trPacket[p].key \in trPast.ready,
           v \in {"waiting", "calling", "answered"} /\ p \notin trWoken
               => ~(Active(trPacket[p].key) /\ trEntry[trPacket[p].key].token = trPacket[p].token)
    PROVE  TrInv'
  <1>1. TrTypes /\ ClaimInv /\ NetInv /\ SteerInv /\ AskInv
    BY DEF TrInv
  <1>2. /\ trPacket' \in [TrPackets -> PacketRecord]
        /\ trPacket'[p].pc = v
        /\ \A q \in TrPackets : q # p => trPacket'[q] = trPacket[q]
        /\ \A q \in TrPackets : /\ trPacket'[q].key = trPacket[q].key
                                /\ trPacket'[q].starts = trPacket[q].starts
                                /\ trPacket'[q].token = trPacket[q].token
    BY <1>1, Moved
  <1>3. TrTypes'
    BY <1>1, <1>2 DEF TrTypes
  <1>4. ASSUME NEW q \in TrPackets PROVE trPacket'[q].pc = "new" => trPacket[q].pc = "new" /\ q # p
    BY <1>2
  <1>5. ASSUME NEW t, NEW k, TokenOf(t, k) PROVE TokenOf(t, k)'
    BY <1>2, <1>4, <1>5 DEF TokenOf
  <1>6. PacketShape'
    <2> SUFFICES ASSUME NEW q \in TrPackets
                 PROVE  /\ trPacket'[q].pc = "new" => trPacket'[q].key = TrNone /\ trPacket'[q].token = TrNone
                        /\ trPacket'[q].pc \in {"claimed", "registered", "calling", "waiting", "answered"}
                              => trPacket'[q].key \in TrKeys
                        /\ trPacket'[q].pc = "calling" => trPacket'[q].starts
                        /\ \A t, k : t = trPacket'[q].token /\ k = trPacket'[q].key /\ t # TrNone => TokenOf(t, k)'
      BY DEF PacketShape, TokenOf
    <2>1. ASSUME NEW t, NEW k, t = trPacket'[q].token, k = trPacket'[q].key, t # TrNone PROVE TokenOf(t, k)'
      BY <1>1, <1>2, <1>5, <2>1 DEF ClaimInv, PacketShape
    <2>2. trPacket'[q].pc = "new" => trPacket'[q].key = TrNone /\ trPacket'[q].token = TrNone
      BY <1>1, <1>2, <1>4 DEF ClaimInv, PacketShape
    <2>3. CASE q = p
      <3>1. v \in {"registered", "calling"} => trPacket[p].key \in TrKeys
        BY <1>1 DEF ClaimInv, PacketShape
      <3>. QED BY <1>2, <2>1, <2>2, <2>3, <3>1
    <2>4. CASE q # p
      BY <1>1, <1>2, <2>1, <2>2, <2>4 DEF ClaimInv, PacketShape
    <2>. QED BY <2>3, <2>4
  <1>7. EntryShape'
    <2> SUFFICES ASSUME NEW k \in TrKeys
                 PROVE  /\ trEntry[k].ready => trEntry[k].st = "installed"
                        /\ trEntry[k].st = "pending" => trEntry[k].token \in TrPackets
                        /\ \A t : t = trEntry[k].token /\ trEntry[k].st # "none" => TokenOf(t, k)'
                        /\ trEntry[k].st = "pending" /\ trEntry[k].aged
                              => trPacket'[trEntry[k].token].pc \notin {"new", "claimed", "registered", "calling"}
      BY DEF EntryShape, TokenOf
    <2>1. /\ trEntry[k].ready => trEntry[k].st = "installed"
          /\ trEntry[k].st = "pending" => trEntry[k].token \in TrPackets
          /\ trEntry[k].st = "pending" /\ trEntry[k].aged
                => trPacket[trEntry[k].token].pc \notin {"new", "claimed", "registered", "calling"}
      BY <1>1 DEF ClaimInv, EntryShape
    <2>2. ASSUME NEW t, t = trEntry[k].token, trEntry[k].st # "none" PROVE TokenOf(t, k)'
      BY <1>1, <1>5, <2>2 DEF ClaimInv, EntryShape
    <2>3. trEntry[k].st = "pending" /\ trEntry[k].aged
             => trPacket'[trEntry[k].token].pc \notin {"new", "claimed", "registered", "calling"}
      BY <1>2, <2>1
    <2>. QED BY <2>1, <2>2, <2>3
  <1>8. WokenReady'
    BY <1>1, <1>2 DEF ClaimInv, WokenReady, Active, TrTypes
  <1>9. ClaimHeld'
    <2> SUFFICES ASSUME NEW q \in TrPackets, trPacket'[q].pc \in {"claimed", "registered", "calling"},
                        trPacket'[q].starts, q \notin trPast.lost
                 PROVE  trEntry[trPacket'[q].key].st # "none" /\ trEntry[trPacket'[q].key].token = q
      BY DEF ClaimHeld
    <2>1. trPacket[q].pc \in {"claimed", "registered", "calling"}
      BY <1>2
    <2>. QED BY <1>1, <1>2, <2>1 DEF ClaimInv, ClaimHeld
  <1>10. NoLostWakeup'
    <2> SUFFICES ASSUME NEW q \in TrPackets, trPacket'[q].pc \in {"waiting", "calling", "answered"}, q \notin trWoken
                 PROVE  ~(Active(trPacket[q].key) /\ trEntry[trPacket[q].key].token = trPacket[q].token)
      BY <1>2 DEF NoLostWakeup, Active
    <2>1. CASE q = p
      BY <1>2, <2>1
    <2>2. CASE q # p
      BY <1>1, <1>2, <2>2 DEF ClaimInv, NoLostWakeup
    <2>. QED BY <2>1, <2>2
  <1>11. NoPacketBeforeReady'
    <2> SUFFICES ASSUME NEW q \in TrPackets, trPacket'[q].pc = "accept", trPacket[q].key # TrNone
                 PROVE  trPacket[q].key \in trPast.ready
      BY <1>2 DEF NoPacketBeforeReady
    <2>1. CASE q = p
      BY <1>2, <2>1
    <2>2. CASE q # p
      BY <1>1, <1>2, <2>2 DEF ClaimInv, NoPacketBeforeReady
    <2>. QED BY <2>1, <2>2
  <1>12. ClaimInv'
    BY <1>6, <1>7, <1>8, <1>9, <1>10, <1>11 DEF ClaimInv
  <1>13. NetInv' /\ SteerInv'
    BY <1>1 DEF NetInv, SteerInv, Steered, TornDownLeavesNoRule
  <1>14. AskInv'
    BY <1>1, <1>2, <1>3, AskKept
  <1>. QED BY <1>3, <1>12, <1>13, <1>14 DEF TrInv

LEMMA RegisterStep ==
    ASSUME TrInv, NEW p \in TrPackets, Register(p)
    PROVE  TrInv'
  <1>1. /\ trPacket[p].pc = "claimed" /\ Verdict(p, "registered")
        /\ UNCHANGED <<trEntry, trWoken, trServer, trNet, trCmds, trRules, trPast>>
    BY DEF Register
  <1>2. "registered" \in Stages \ {"new", "claimed"}
    BY DEF Stages
  <1>. QED BY <1>1, <1>2, PcStep

LEMMA CheckReadyStep ==
    ASSUME TrInv, NEW p \in TrPackets, CheckReady(p)
    PROVE  TrInv'
  <1>1. /\ trPacket[p].pc = "registered"
        /\ UNCHANGED <<trEntry, trWoken, trServer, trNet, trCmds, trRules, trPast>>
    BY DEF CheckReady
  <1>2. trPacket[p].key \in TrKeys
    BY <1>1 DEF TrInv, ClaimInv, PacketShape
  <1>3. Stages \ {"new", "claimed"} = {"registered", "calling", "waiting", "answered", "accept", "drop"}
    BY DEF Stages
  <1>4. CASE p \in trWoken \/ Active(trPacket[p].key)
    <2>1. Verdict(p, "accept")
      BY <1>4 DEF CheckReady
    <2>2. trPacket[p].key \in trPast.ready
      BY <1>2, <1>4 DEF TrInv, ClaimInv, WokenReady
    <2>. QED BY <1>1, <1>3, <2>1, <2>2, PcStep
  <1>5. CASE ~(p \in trWoken \/ Active(trPacket[p].key)) /\ trPacket[p].starts
    <2>1. Verdict(p, "calling")
      BY <1>5 DEF CheckReady
    <2>. QED BY <1>1, <1>3, <1>5, <2>1, PcStep
  <1>6. CASE ~(p \in trWoken \/ Active(trPacket[p].key)) /\ ~trPacket[p].starts
    <2>1. Verdict(p, "waiting")
      BY <1>6 DEF CheckReady
    <2>. QED BY <1>1, <1>2, <1>3, <1>6, <2>1, PcStep
  <1>. QED BY <1>4, <1>5, <1>6

LEMMA WaitEndsStep ==
    ASSUME TrInv, NEW p \in TrPackets, WaitEnds(p)
    PROVE  TrInv'
  <1>1. /\ trPacket[p].pc \in {"waiting", "answered"}
        /\ UNCHANGED <<trEntry, trWoken, trServer, trNet, trCmds, trRules, trPast>>
    BY DEF WaitEnds
  <1>2. Stages \ {"new", "claimed"} = {"registered", "calling", "waiting", "answered", "accept", "drop"}
    BY DEF Stages
  <1>3. CASE p \in trWoken /\ Verdict(p, "accept")
    <2>1. trPacket[p].key \in trPast.ready
      BY <1>3 DEF TrInv, ClaimInv, WokenReady
    <2>. QED BY <1>1, <1>2, <1>3, <2>1, PcStep
  <1>4. CASE Verdict(p, "drop")
    BY <1>1, <1>2, <1>4, PcStep
  <1>. QED BY <1>3, <1>4 DEF WaitEnds

LEMMA TriggerAnsweredStep ==
    ASSUME TrInv, NEW p \in TrPackets, TriggerAnswered(p)
    PROVE  TrInv'
  <1>1. /\ trPacket[p].pc = "calling" /\ Verdict(p, "answered")
        /\ UNCHANGED <<trEntry, trWoken, trServer, trNet, trCmds, trRules, trPast>>
    BY DEF TriggerAnswered
  <1>2. "answered" \in Stages \ {"new", "claimed"}
    BY DEF Stages
  <1>3. trPacket[p].key \in TrKeys
    BY <1>1 DEF TrInv, ClaimInv, PacketShape
  <1>4. p \notin trWoken => ~(Active(trPacket[p].key) /\ trEntry[trPacket[p].key].token = trPacket[p].token)
    BY <1>1 DEF TrInv, ClaimInv, NoLostWakeup
  <1>. QED BY <1>1, <1>2, <1>3, <1>4, PcStep

LEMMA TriggerTimeoutStep ==
    ASSUME TrInv, NEW p \in TrPackets, TriggerTimeout(p)
    PROVE  TrInv'
  <1>1. /\ trPacket[p].pc = "calling"
        /\ UNCHANGED <<trEntry, trWoken, trServer, trNet, trCmds, trRules, trPast>>
    BY DEF TriggerTimeout
  <1>2. trPacket[p].key \in TrKeys
    BY <1>1 DEF TrInv, ClaimInv, PacketShape
  <1>3. Stages \ {"new", "claimed"} = {"registered", "calling", "waiting", "answered", "accept", "drop"}
    BY DEF Stages
  <1>4. CASE Active(trPacket[p].key)
    <2>1. Verdict(p, "accept")
      BY <1>4 DEF TriggerTimeout
    <2>2. trPacket[p].key \in trPast.ready
      BY <1>2, <1>4 DEF TrInv, ClaimInv, WokenReady
    <2>. QED BY <1>1, <1>3, <2>1, <2>2, PcStep
  <1>5. CASE ~Active(trPacket[p].key)
    <2>1. Verdict(p, "drop")
      BY <1>5 DEF TriggerTimeout
    <2>. QED BY <1>1, <1>3, <2>1, PcStep
  <1>. QED BY <1>4, <1>5

LEMMA EntryFields ==
    /\ NoEntry \in Entry /\ NoEntry.st = "none" /\ ~NoEntry.ready
    /\ \A p \in TrPackets : /\ PendingEntry(p) \in Entry /\ PendingEntry(p).st = "pending"
                            /\ PendingEntry(p).token = p /\ ~PendingEntry(p).aged /\ ~PendingEntry(p).ready
  BY DEF NoEntry, PendingEntry, Entry, Tokens

\* The first packet of a key becomes its sender, one that comes later joins the
\* setup in flight; only a claim whose caller has given up is taken over.
LEMMA ClaimStep ==
    ASSUME TrInv, NEW p \in TrPackets, NEW k \in TrKeys, trPacket[p].pc = "new", Claim(p, k),
           UNCHANGED <<trWoken, trServer, trNet, trCmds, trRules, trPast>>
    PROVE  TrInv'
  <1>1. TrTypes /\ ClaimInv /\ NetInv /\ SteerInv /\ AskInv
    BY DEF TrInv
  <1>2. trEntry[k] \in Entry /\ trEntry \in [TrKeys -> Entry] /\ trPacket \in [TrPackets -> PacketRecord]
    BY <1>1 DEF TrTypes
  <1> DEFINE joins == trEntry[k].st = "installed" \/ (trEntry[k].st = "pending" /\ ~trEntry[k].aged)
             takes == ~Active(k) /\ ~joins
             r == IF Active(k) THEN [pc |-> "accept", key |-> k, starts |-> FALSE, token |-> TrNone]
                  ELSE [pc |-> "claimed", key |-> k, starts |-> ~joins, token |-> IF joins THEN trEntry[k].token ELSE p]
  <1>3. trPacket' = [trPacket EXCEPT ![p] = r]
    BY DEF Claim
  <1>4. trEntry' = IF takes THEN [trEntry EXCEPT ![k] = PendingEntry(p)] ELSE trEntry
    BY DEF Claim
  <1>5. /\ r \in PacketRecord /\ r.key = k /\ r.pc \in {"accept", "claimed"}
        /\ r.pc = "accept" => Active(k)
        /\ r.starts => takes
        /\ r.token # TrNone => IF takes THEN r.token = p ELSE joins /\ r.token = trEntry[k].token
    <2>1. /\ k \in TrKeys \cup {TrNone} /\ trEntry[k].token \in Tokens /\ p \in Tokens /\ TrNone \in Tokens
          /\ "accept" \in Stages /\ "claimed" \in Stages
      BY <1>2 DEF Entry, Tokens, Stages
    <2>2. CASE Active(k)
      BY <2>1, <2>2 DEF PacketRecord
    <2>3. CASE ~Active(k) /\ joins
      BY <2>1, <2>3 DEF PacketRecord
    <2>4. CASE takes
      BY <2>1, <2>4 DEF PacketRecord
    <2>. QED BY <2>2, <2>3, <2>4
  <1>6. takes => trEntry[k].st # "installed" /\ (trEntry[k].st = "pending" => trEntry[k].aged)
    OBVIOUS
  <1> HIDE DEF r
  <1>7. /\ trPacket' \in [TrPackets -> PacketRecord] /\ trPacket'[p] = r
        /\ \A q \in TrPackets : q # p => trPacket'[q] = trPacket[q]
    BY <1>2, <1>3, <1>5
  <1>8. /\ trEntry' \in [TrKeys -> Entry]
        /\ \A q \in TrKeys : q # k \/ ~takes => trEntry'[q] = trEntry[q]
        /\ takes => trEntry'[k] = PendingEntry(p)
    <2>1. PendingEntry(p) \in Entry
      BY EntryFields
    <2>. QED BY <1>2, <1>4, <2>1
  <1>9. joins => trEntry[k].st # "none"
    OBVIOUS
  <1> HIDE DEF takes, joins
  <1>10. trPacket[p].key = TrNone /\ trPacket[p].token = TrNone /\ p \notin trWoken
    <2>1. trPacket[p].key = TrNone /\ trPacket[p].token = TrNone
      BY <1>1 DEF ClaimInv, PacketShape
    <2>2. TrNone \notin trPast.ready
      BY <1>1, NoneIsNoKey DEF TrTypes, PastRecord
    <2>. QED BY <1>1, <2>1, <2>2 DEF ClaimInv, WokenReady
  <1>11. ASSUME NEW t, NEW q, TokenOf(t, q) PROVE TokenOf(t, q)'
    <2>1. \A x \in TrPackets : trPacket[x].pc # "new" => trPacket'[x].pc # "new" /\ trPacket'[x].key = trPacket[x].key
      BY <1>7
    <2>. QED BY <1>11, <2>1, TokenKept
  <1>12. ASSUME NEW q \in TrKeys, trEntry[q].st # "none" PROVE trEntry[q].token # p
    <2>1. TokenOf(trEntry[q].token, q)
      BY <1>1, <1>12 DEF ClaimInv, EntryShape
    <2>. QED BY <2>1, TrAssumption DEF TokenOf
  <1>13. TokenOf(p, k)'
    BY <1>5, <1>7 DEF TokenOf
  <1>14. TrTypes'
    BY <1>1, <1>7, <1>8 DEF TrTypes
  <1>15. PacketShape'
    <2> SUFFICES ASSUME NEW q \in TrPackets
                 PROVE  /\ trPacket'[q].pc = "new" => trPacket'[q].key = TrNone /\ trPacket'[q].token = TrNone
                        /\ trPacket'[q].pc \in {"claimed", "registered", "calling", "waiting", "answered"}
                              => trPacket'[q].key \in TrKeys
                        /\ trPacket'[q].pc = "calling" => trPacket'[q].starts
                        /\ \A t, x : t = trPacket'[q].token /\ x = trPacket'[q].key /\ t # TrNone => TokenOf(t, x)'
      BY DEF PacketShape, TokenOf
    <2>1. CASE q = p
      <3>1. ASSUME NEW t, t = r.token, t # TrNone PROVE TokenOf(t, k)'
        <4>1. CASE t = p
          BY <1>13, <4>1
        <4>2. CASE joins /\ t = trEntry[k].token
          <5>1. TokenOf(t, k)
            BY <1>1, <1>9, <4>2 DEF ClaimInv, EntryShape
          <5>. QED BY <1>11, <5>1
        <4>. QED BY <1>5, <3>1, <4>1, <4>2
      <3>. QED BY <1>5, <1>7, <2>1, <3>1
    <2>2. CASE q # p
      <3>1. ASSUME NEW t, NEW x, t = trPacket[q].token, x = trPacket[q].key, t # TrNone PROVE TokenOf(t, x)'
        <4>1. TokenOf(t, x)
          BY <1>1, <3>1 DEF ClaimInv, PacketShape
        <4>. QED BY <1>11, <4>1
      <3>. QED BY <1>1, <1>7, <2>2, <3>1 DEF ClaimInv, PacketShape
    <2>. QED BY <2>1, <2>2
  <1>16. EntryShape'
    <2> SUFFICES ASSUME NEW q \in TrKeys
                 PROVE  /\ trEntry'[q].ready => trEntry'[q].st = "installed"
                        /\ trEntry'[q].st = "pending" => trEntry'[q].token \in TrPackets
                        /\ \A t : t = trEntry'[q].token /\ trEntry'[q].st # "none" => TokenOf(t, q)'
                        /\ trEntry'[q].st = "pending" /\ trEntry'[q].aged
                              => trPacket'[trEntry'[q].token].pc \notin {"new", "claimed", "registered", "calling"}
      BY DEF EntryShape, TokenOf
    <2>1. CASE q = k /\ takes
      BY <1>8, <1>13, <2>1, EntryFields
    <2>2. CASE q # k \/ ~takes
      <3>1. trEntry'[q] = trEntry[q]
        BY <1>8, <2>2
      <3>2. ASSUME NEW t, t = trEntry[q].token, trEntry[q].st # "none" PROVE TokenOf(t, q)'
        <4>1. TokenOf(t, q)
          BY <1>1, <3>2 DEF ClaimInv, EntryShape
        <4>. QED BY <1>11, <4>1
      <3>3. trEntry[q].st = "pending" => trEntry[q].token \in TrPackets /\ trEntry[q].token # p
        BY <1>1, <1>12 DEF ClaimInv, EntryShape
      <3>4. trEntry[q].st = "pending" => trPacket'[trEntry[q].token] = trPacket[trEntry[q].token]
        BY <1>7, <3>3
      <3>. QED BY <1>1, <3>1, <3>2, <3>4 DEF ClaimInv, EntryShape
    <2>. QED BY <2>1, <2>2
  <1>17. ASSUME NEW q \in TrKeys, Active(q)' PROVE Active(q) /\ trEntry'[q] = trEntry[q]
    BY <1>8, <1>17, EntryFields DEF Active
  <1>18. WokenReady'
    <2>1. \A q \in TrKeys : Active(q)' => q \in trPast.ready
      BY <1>1, <1>17 DEF ClaimInv, WokenReady
    <2>2. \A q \in trWoken : trPacket'[q].key \in trPast.ready
      BY <1>1, <1>7, <1>10 DEF ClaimInv, WokenReady, TrTypes
    <2>. QED BY <2>1, <2>2 DEF WokenReady
  <1>19. ClaimHeld'
    <2> SUFFICES ASSUME NEW q \in TrPackets, trPacket'[q].pc \in {"claimed", "registered", "calling"},
                        trPacket'[q].starts, q \notin trPast.lost
                 PROVE  trEntry'[trPacket'[q].key].st # "none" /\ trEntry'[trPacket'[q].key].token = q
      BY DEF ClaimHeld
    <2>1. CASE q = p
      BY <1>5, <1>7, <1>8, <2>1, EntryFields
    <2>2. CASE q # p
      <3>1. trPacket'[q] = trPacket[q]
        BY <1>7, <2>2
      <3>2. trPacket[q].key \in TrKeys
        BY <1>1, <3>1 DEF ClaimInv, PacketShape
      <3>3. trEntry[trPacket[q].key].st # "none" /\ trEntry[trPacket[q].key].token = q
        BY <1>1, <3>1 DEF ClaimInv, ClaimHeld
      <3>4. ~(trPacket[q].key = k /\ takes)
        <4> SUFFICES ASSUME trPacket[q].key = k, takes PROVE FALSE
          OBVIOUS
        <4>1. trEntry[k].st = "pending" /\ trEntry[k].aged /\ trEntry[k].token = q
          BY <1>2, <1>6, <3>3 DEF Entry
        <4>. QED BY <1>1, <3>1, <4>1 DEF ClaimInv, EntryShape
      <3>5. trEntry'[trPacket[q].key] = trEntry[trPacket[q].key]
        BY <1>8, <3>2, <3>4
      <3>. QED BY <3>1, <3>3, <3>5
    <2>. QED BY <2>1, <2>2
  <1>20. NoLostWakeup'
    <2> SUFFICES ASSUME NEW q \in TrPackets, trPacket'[q].pc \in {"waiting", "calling", "answered"}, q \notin trWoken,
                        NEW x, x = trPacket'[q].key, Active(x)', trEntry'[x].token = trPacket'[q].token
                 PROVE  FALSE
      BY DEF NoLostWakeup, Active
    <2>1. q # p /\ trPacket'[q] = trPacket[q]
      BY <1>5, <1>7
    <2>2. x \in TrKeys
      BY <1>1, <2>1 DEF ClaimInv, PacketShape
    <2>. QED BY <1>1, <1>17, <2>1, <2>2 DEF ClaimInv, NoLostWakeup
  <1>21. NoPacketBeforeReady'
    <2> SUFFICES ASSUME NEW q \in TrPackets, trPacket'[q].pc = "accept", trPacket'[q].key # TrNone
                 PROVE  trPacket'[q].key \in trPast.ready
      BY DEF NoPacketBeforeReady
    <2>1. CASE q = p
      BY <1>1, <1>5, <1>7, <2>1 DEF ClaimInv, WokenReady
    <2>2. CASE q # p
      BY <1>1, <1>7, <2>2 DEF ClaimInv, NoPacketBeforeReady
    <2>. QED BY <2>1, <2>2
  <1>22. ClaimInv'
    BY <1>15, <1>16, <1>18, <1>19, <1>20, <1>21 DEF ClaimInv
  <1>23. NetInv'
    BY <1>1, NetKept
  <1>24. SteerInv'
    <2>1. \A q \in TrKeys : trEntry[q].st = "installed" => trEntry'[q].st = "installed" /\ trEntry'[q].net = trEntry[q].net
      BY <1>6, <1>8
    <2>. QED BY <1>1, <2>1, SteerKept
  <1>25. AskInv'
    <2>1. \A q \in TrPackets : trPacket[q].key \in TrKeys => trPacket'[q].key = trPacket[q].key
      BY <1>7, <1>10, NoneIsNoKey
    <2>2. \A q \in TrKeys : trEntry[q].st # "none" => trEntry'[q].st # "none"
      BY <1>8, EntryFields
    <2>. QED BY <1>1, <1>14, <2>1, <2>2, AskKept
  <1>. QED BY <1>14, <1>22, <1>23, <1>24, <1>25 DEF TrInv

LEMMA PacketStep ==
    ASSUME TrInv, NEW p \in TrPackets, NEW c \in TrContainers, NEW port \in TrPorts, Packet(p, c, port)
    PROVE  TrInv'
  <1>1. /\ trPacket[p].pc = "new"
        /\ UNCHANGED <<trWoken, trServer, trNet, trCmds, trRules, trPast>>
    BY DEF Packet
  <1>2. CASE Verdict(p, "accept") /\ UNCHANGED trEntry
    <2>1. trPacket[p].key = TrNone
      BY <1>1 DEF TrInv, ClaimInv, PacketShape
    <2>2. "accept" \in Stages \ {"new", "claimed"}
      BY DEF Stages
    <2>. QED BY <1>1, <1>2, <2>1, <2>2, PcStep
  <1>3. CASE Claim(p, <<c, port>>)
    <2>1. <<c, port>> \in TrKeys
      BY DEF TrKeys
    <2>. QED BY <1>1, <1>3, <2>1, ClaimStep
  <1>. QED BY <1>2, <1>3 DEF Packet

-----------------------------------------------------------------------------
(* The entries *)

\* A step that changes entries and lets no packet go: which entries it may
\* change and whom it must wake.
LEMMA EntryStep ==
    ASSUME TrTypes, ClaimInv,
           \A p \in TrPackets : /\ trPacket'[p].pc = trPacket[p].pc \/ (trPacket'[p].pc = "drop" /\ trPacket[p].pc # "new")
                                /\ trPacket'[p].key = trPacket[p].key
                                /\ trPacket'[p].starts = trPacket[p].starts
                                /\ trPacket'[p].token = trPacket[p].token,
           \A n \in TrNets : trNet[n].st # "unused" => trNet'[n].st # "unused" /\ trNet'[n].key = trNet[n].key,
           trPast.ready \subseteq trPast'.ready, trPast.lost \subseteq trPast'.lost,
           trWoken \subseteq trWoken', trWoken' \subseteq TrPackets,
           \A p \in trWoken' : p \notin trWoken => trPacket[p].key \in trPast'.ready,
           \A k \in TrKeys :
             /\ trEntry'[k].ready => trEntry'[k].st = "installed" /\ k \in trPast'.ready
             /\ trEntry'[k].st = "pending" =>
                  /\ trEntry[k].st = "pending" /\ trEntry'[k].token = trEntry[k].token
                  /\ trEntry'[k].aged => trEntry[k].aged
                                           \/ trPacket[trEntry[k].token].pc \notin {"new", "claimed", "registered", "calling"}
             /\ trEntry'[k].st # "none" =>
                  \/ trEntry[k].st # "none" /\ trEntry'[k].token = trEntry[k].token
                  \/ \E n \in TrNets : trEntry'[k].token = n /\ trNet[n].st # "unused" /\ trNet[n].key = k
             /\ \A p \in TrPackets :
                  /\ trPacket'[p].pc \in {"claimed", "registered", "calling"} /\ p \notin trPast'.lost
                  /\ trPacket[p].key = k /\ trEntry[k].st # "none" /\ trEntry[k].token = p
                  => trEntry'[k].st # "none" /\ trEntry'[k].token = p
             /\ trEntry'[k].st = "installed" /\ trEntry'[k].ready =>
                  \/ Active(k) /\ trEntry'[k].token = trEntry[k].token
                  \/ \A p \in TrPackets :
                       /\ trPacket[p].pc \in {"waiting", "calling", "answered"}
                       /\ trPacket[p].key = k /\ trEntry'[k].token = trPacket[p].token
                       => p \in trWoken'
    PROVE  ClaimInv'
  <1>1. ASSUME NEW t, NEW k, TokenOf(t, k) PROVE TokenOf(t, k)'
    <2>1. \A p \in TrPackets : trPacket[p].pc # "new" => trPacket'[p].pc # "new" /\ trPacket'[p].key = trPacket[p].key
      OBVIOUS
    <2>. QED BY <1>1, <2>1, TokenKept
  <1>2. PacketShape'
    <2> SUFFICES ASSUME NEW q \in TrPackets
                 PROVE  /\ trPacket'[q].pc = "new" => trPacket'[q].key = TrNone /\ trPacket'[q].token = TrNone
                        /\ trPacket'[q].pc \in {"claimed", "registered", "calling", "waiting", "answered"}
                              => trPacket'[q].key \in TrKeys
                        /\ trPacket'[q].pc = "calling" => trPacket'[q].starts
                        /\ \A t, x : t = trPacket'[q].token /\ x = trPacket'[q].key /\ t # TrNone => TokenOf(t, x)'
      BY DEF PacketShape, TokenOf
    <2>1. ASSUME NEW t, NEW x, t = trPacket[q].token, x = trPacket[q].key, t # TrNone PROVE TokenOf(t, x)'
      <3>1. TokenOf(t, x)
        BY <2>1 DEF ClaimInv, PacketShape
      <3>. QED BY <1>1, <3>1
    <2>2. /\ trPacket[q].pc = "new" => trPacket[q].key = TrNone /\ trPacket[q].token = TrNone
          /\ trPacket[q].pc \in {"claimed", "registered", "calling", "waiting", "answered"} => trPacket[q].key \in TrKeys
          /\ trPacket[q].pc = "calling" => trPacket[q].starts
      BY DEF ClaimInv, PacketShape
    <2>. QED BY <2>1, <2>2
  <1>3. EntryShape'
    <2> SUFFICES ASSUME NEW q \in TrKeys
                 PROVE  /\ trEntry'[q].ready => trEntry'[q].st = "installed"
                        /\ trEntry'[q].st = "pending" => trEntry'[q].token \in TrPackets
                        /\ \A t : t = trEntry'[q].token /\ trEntry'[q].st # "none" => TokenOf(t, q)'
                        /\ trEntry'[q].st = "pending" /\ trEntry'[q].aged
                              => trPacket'[trEntry'[q].token].pc \notin {"new", "claimed", "registered", "calling"}
      BY DEF EntryShape, TokenOf
    <2>1. /\ trEntry[q].st = "pending" => trEntry[q].token \in TrPackets
          /\ trEntry[q].st = "pending" /\ trEntry[q].aged
                => trPacket[trEntry[q].token].pc \notin {"new", "claimed", "registered", "calling"}
      BY DEF ClaimInv, EntryShape
    <2>2. ASSUME NEW t, t = trEntry'[q].token, trEntry'[q].st # "none" PROVE TokenOf(t, q)'
      <3>1. TokenOf(t, q)
        <4>1. CASE trEntry[q].st # "none" /\ trEntry'[q].token = trEntry[q].token
          BY <2>2, <4>1 DEF ClaimInv, EntryShape
        <4>2. CASE \E n \in TrNets : trEntry'[q].token = n /\ trNet[n].st # "unused" /\ trNet[n].key = q
          BY <2>2, <4>2 DEF TokenOf
        <4>. QED BY <2>2, <4>1, <4>2
      <3>. QED BY <1>1, <3>1
    <2>3. trEntry'[q].st = "pending" =>
            /\ trEntry[q].token \in TrPackets /\ trEntry'[q].token = trEntry[q].token
            /\ trEntry'[q].aged => trPacket[trEntry[q].token].pc \notin {"new", "claimed", "registered", "calling"}
      BY <2>1
    <2>4. trEntry'[q].st = "pending" /\ trEntry'[q].aged
            => trPacket'[trEntry'[q].token].pc \notin {"new", "claimed", "registered", "calling"}
      BY <2>3
    <2>. QED BY <2>2, <2>3, <2>4
  <1>4. WokenReady'
    <2>1. \A q \in TrKeys : Active(q)' => q \in trPast'.ready
      BY DEF Active
    <2>2. \A q \in trWoken' : trPacket'[q].key \in trPast'.ready
      BY DEF ClaimInv, WokenReady
    <2>. QED BY <2>1, <2>2 DEF WokenReady
  <1>5. ClaimHeld'
    <2> SUFFICES ASSUME NEW q \in TrPackets, trPacket'[q].pc \in {"claimed", "registered", "calling"},
                        trPacket'[q].starts, q \notin trPast'.lost
                 PROVE  trEntry'[trPacket'[q].key].st # "none" /\ trEntry'[trPacket'[q].key].token = q
      BY DEF ClaimHeld
    <2>1. PICK k : k = trPacket[q].key /\ k = trPacket'[q].key
      OBVIOUS
    <2>2. trPacket[q].pc \in {"claimed", "registered", "calling"} /\ trPacket[q].starts /\ q \notin trPast.lost
      OBVIOUS
    <2>3. k \in TrKeys /\ trEntry[k].st # "none" /\ trEntry[k].token = q
      BY <2>1, <2>2 DEF ClaimInv, PacketShape, ClaimHeld
    <2>. QED BY <2>1, <2>3
  <1>6. NoLostWakeup'
    <2> SUFFICES ASSUME NEW q \in TrPackets, trPacket'[q].pc \in {"waiting", "calling", "answered"}, q \notin trWoken',
                        NEW k, k = trPacket'[q].key, trEntry'[k].st = "installed", trEntry'[k].ready,
                        trEntry'[k].token = trPacket'[q].token
                 PROVE  FALSE
      BY DEF NoLostWakeup, Active
    <2>1. trPacket[q].pc \in {"waiting", "calling", "answered"} /\ q \notin trWoken /\ k = trPacket[q].key
      OBVIOUS
    <2>2. k \in TrKeys
      BY <2>1 DEF ClaimInv, PacketShape
    <2>3. Active(k) /\ trEntry'[k].token = trEntry[k].token
      BY <2>1, <2>2
    <2>. QED BY <2>1, <2>3 DEF ClaimInv, NoLostWakeup
  <1>7. NoPacketBeforeReady'
    BY DEF ClaimInv, NoPacketBeforeReady
  <1>. QED BY <1>2, <1>3, <1>4, <1>5, <1>6, <1>7 DEF ClaimInv

\* The failed call of a packet erases the packet's own claim only.
LEMMA TriggerFailedStep ==
    ASSUME TrInv, NEW p \in TrPackets, TriggerFailed(p)
    PROVE  TrInv'
  <1>1. TrTypes /\ ClaimInv /\ NetInv /\ SteerInv /\ AskInv
    BY DEF TrInv
  <1>2. /\ trPacket[p].pc = "calling" /\ ForgetPending(p)
        /\ Verdict(p, IF Active(trPacket[p].key) THEN "accept" ELSE "drop")
        /\ UNCHANGED <<trWoken, trServer, trNet, trCmds, trRules>>
    BY DEF TriggerFailed
  <1>3. PICK k \in TrKeys : trPacket[p].key = k
    BY <1>1, <1>2 DEF ClaimInv, PacketShape
  <1>4. Stages \ {"new", "claimed"} = {"registered", "calling", "waiting", "answered", "accept", "drop"}
    BY DEF Stages
  <1>5. CASE ~OwnClaim(p)
    <2>1. UNCHANGED <<trEntry, trPast>>
      BY <1>2, <1>5 DEF ForgetPending
    <2>2. CASE Active(k)
      <3>1. Verdict(p, "accept") /\ k \in trPast.ready
        BY <1>1, <1>2, <1>3, <2>2 DEF ClaimInv, WokenReady
      <3>. QED BY <1>2, <1>3, <1>4, <2>1, <3>1, PcStep
    <2>3. CASE ~Active(k)
      <3>1. Verdict(p, "drop")
        BY <1>2, <1>3, <2>3
      <3>. QED BY <1>2, <1>3, <1>4, <2>1, <3>1, PcStep
    <2>. QED BY <2>2, <2>3
  <1>6. CASE OwnClaim(p)
    <2>1. trEntry[k].st = "pending" /\ trEntry[k].token = p
      BY <1>3, <1>6 DEF OwnClaim
    <2>2. /\ trEntry' = [trEntry EXCEPT ![k] = NoEntry]
          /\ trPast' = [trPast EXCEPT !.forgotten = @ \cup {p}]
      BY <1>2, <1>3, <1>6 DEF ForgetPending
    <2>3. Verdict(p, "drop")
      BY <1>2, <1>3, <2>1 DEF Active
    <2>4. /\ trPacket' \in [TrPackets -> PacketRecord] /\ trPacket'[p].pc = "drop"
          /\ \A q \in TrPackets : q # p => trPacket'[q] = trPacket[q]
          /\ \A q \in TrPackets : /\ trPacket'[q].key = trPacket[q].key
                                  /\ trPacket'[q].starts = trPacket[q].starts
                                  /\ trPacket'[q].token = trPacket[q].token
      BY <1>1, <1>4, <2>3, Moved
    <2>5. /\ trEntry' \in [TrKeys -> Entry] /\ trEntry'[k] = NoEntry
          /\ \A q \in TrKeys : q # k => trEntry'[q] = trEntry[q]
      BY <1>1, <2>2, EntryFields DEF TrTypes
    <2>6. /\ trPast' \in PastRecord /\ trPast'.forgotten = trPast.forgotten \cup {p}
          /\ trPast'.ready = trPast.ready /\ trPast'.lost = trPast.lost /\ trPast'.replaced = trPast.replaced
      BY <1>1, <2>2 DEF TrTypes, PastRecord
    <2>7. TrTypes'
      BY <1>1, <1>2, <2>4, <2>5, <2>6 DEF TrTypes
    <2>8. ClaimInv'
      <3>1. \A q \in TrPackets : trPacket'[q].pc = trPacket[q].pc \/ (trPacket'[q].pc = "drop" /\ trPacket[q].pc # "new")
        BY <1>2, <2>4
      <3>2. ASSUME NEW x \in TrKeys
            PROVE  /\ trEntry'[x].ready => trEntry'[x].st = "installed" /\ x \in trPast'.ready
                   /\ trEntry'[x].st # "none" => x # k /\ trEntry'[x] = trEntry[x]
        <4>1. CASE x = k
          BY <2>5, <4>1, EntryFields
        <4>2. CASE x # k
          <5>1. trEntry'[x] = trEntry[x]
            BY <2>5, <4>2
          <5>. QED BY <1>1, <2>6, <4>2, <5>1 DEF ClaimInv, EntryShape, WokenReady, Active
        <4>. QED BY <4>1, <4>2
      <3>3. ASSUME NEW x \in TrKeys, NEW q \in TrPackets, trPacket'[q].pc \in {"claimed", "registered", "calling"},
                   trPacket[q].key = x, trEntry[x].st # "none", trEntry[x].token = q
            PROVE  trEntry'[x].st # "none" /\ trEntry'[x].token = q
        <4>1. q # p
          BY <2>4, <3>3
        <4>2. x # k
          BY <2>1, <3>3, <4>1
        <4>. QED BY <2>5, <3>3, <4>2
      <3>. QED BY <1>1, <1>2, <2>4, <2>6, <3>1, <3>2, <3>3, EntryStep DEF Active, TrTypes
    <2>9. NetInv'
      BY <1>1, <1>2, NetKept
    <2>10. SteerInv'
      <3>1. \A q \in TrKeys : trEntry[q].st = "installed" => trEntry'[q].st = "installed" /\ trEntry'[q].net = trEntry[q].net
        BY <2>1, <2>5
      <3>. QED BY <1>1, <1>2, <2>6, <3>1, SteerKept
    <2>11. AskInv'
      <3>1. ASSUME NEW q \in TrKeys, trEntry[q].st # "none" PROVE trEntry'[q].st # "none" \/ Losers(q)' # {}
        <4>1. CASE q = k
          BY <1>3, <2>4, <2>6, <4>1 DEF Losers
        <4>2. CASE q # k
          BY <2>5, <3>1, <4>2
        <4>. QED BY <4>1, <4>2
      <3>. QED BY <1>1, <1>2, <2>4, <2>6, <2>7, <3>1, AskKept
    <2>. QED BY <2>7, <2>8, <2>9, <2>10, <2>11 DEF TrInv
  <1>. QED BY <1>5, <1>6

\* A claim ages only when its caller is done with it.
LEMMA PendingAgesStep ==
    ASSUME TrInv, NEW k \in TrKeys, PendingAges(k)
    PROVE  TrInv'
  <1>1. TrTypes /\ ClaimInv /\ NetInv /\ SteerInv /\ AskInv
    BY DEF TrInv
  <1>2. /\ trEntry[k].st = "pending" /\ trPacket[trEntry[k].token].pc \notin {"claimed", "registered", "calling"}
        /\ trEntry' = [trEntry EXCEPT ![k].aged = TRUE]
        /\ UNCHANGED <<trPacket, trWoken, trServer, trNet, trCmds, trRules, trPast>>
    BY DEF PendingAges
  <1>3. trPacket[trEntry[k].token].pc # "new"
    <2>1. trEntry[k].token \in TrPackets /\ TokenOf(trEntry[k].token, k)
      BY <1>1, <1>2 DEF ClaimInv, EntryShape
    <2>. QED BY <2>1, TrAssumption DEF TokenOf
  <1>4. /\ trEntry' \in [TrKeys -> Entry]
        /\ \A q \in TrKeys : q # k => trEntry'[q] = trEntry[q]
        /\ trEntry'[k].st = "pending" /\ trEntry'[k].token = trEntry[k].token /\ trEntry'[k].ready = trEntry[k].ready
    BY <1>1, <1>2 DEF TrTypes, Entry
  <1>5. TrTypes'
    BY <1>1, <1>2, <1>4 DEF TrTypes
  <1>6. ClaimInv'
    <2>1. \A x \in TrKeys : trEntry[x].ready => trEntry[x].st = "installed" /\ x \in trPast.ready
      BY <1>1 DEF ClaimInv, EntryShape, WokenReady, Active
    <2>2. ASSUME NEW x \in TrKeys
          PROVE  /\ trEntry'[x].st = trEntry[x].st /\ trEntry'[x].token = trEntry[x].token
                 /\ trEntry'[x].ready = trEntry[x].ready
                 /\ x # k => trEntry'[x].aged = trEntry[x].aged
      BY <1>2, <1>4
    <2>3. ASSUME NEW x \in TrKeys, trEntry'[x].aged
          PROVE  trEntry[x].aged \/ trPacket[trEntry[x].token].pc \notin {"new", "claimed", "registered", "calling"}
      BY <1>2, <1>3, <2>2, <2>3
    <2>. QED BY <1>1, <1>2, <2>1, <2>2, <2>3, EntryStep DEF Active, TrTypes
  <1>7. NetInv'
    BY <1>1, <1>2, NetKept
  <1>8. SteerInv'
    <2>1. \A q \in TrKeys : trEntry[q].st = "installed" => trEntry'[q].st = "installed" /\ trEntry'[q].net = trEntry[q].net
      BY <1>2, <1>4
    <2>. QED BY <1>1, <1>2, <2>1, SteerKept
  <1>9. AskInv'
    <2>1. \A q \in TrKeys : trEntry[q].st # "none" => trEntry'[q].st # "none"
      BY <1>4
    <2>. QED BY <1>1, <1>2, <1>5, <2>1, AskKept
  <1>. QED BY <1>5, <1>6, <1>7, <1>8, <1>9 DEF TrInv

-----------------------------------------------------------------------------
(* The server *)

Cmd == {"setup", "ready", "teardown"}

\* Commands sent one after the other.
LEMMA Sent ==
    /\ Append(<<>>, "ready") = <<"ready">>
    /\ Append(<<>>, "teardown") = <<"teardown">>
    /\ Append(<<"setup">>, "teardown") = <<"setup", "teardown">>
    /\ Append(<<"ready">>, "teardown") = <<"ready", "teardown">>
    /\ \A s \in Seq(Cmd), c \in Cmd : Append(s, c) \in Seq(Cmd)
    /\ <<>> \in Seq(Cmd) /\ <<"setup">> \in Seq(Cmd)
  <1>1. Append(<<>>, "ready") = <<"ready">> /\ Append(<<>>, "teardown") = <<"teardown">>
    OBVIOUS
  <1>2. Append(<<"setup">>, "teardown") = <<"setup", "teardown">>
    <2> DEFINE s == Append(<<"setup">>, "teardown")
               t == <<"setup", "teardown">>
    <2>1. s \in Seq(Cmd) /\ t \in Seq(Cmd)
      BY DEF Cmd
    <2>2. Len(s) = 2 /\ Len(t) = 2 /\ s[1] = t[1] /\ s[2] = t[2]
      OBVIOUS
    <2>3. \A i \in 1 .. Len(s) : s[i] = t[i]
      <3>1. \A i \in 1 .. 2 : i = 1 \/ i = 2
        OBVIOUS
      <3>. QED BY <2>2, <3>1
    <2>. HIDE DEF s, t
    <2>4. s = t
      BY <2>1, <2>2, <2>3, SeqEqual
    <2>. QED BY <2>4 DEF s, t
  <1>3. Append(<<"ready">>, "teardown") = <<"ready", "teardown">>
    <2> DEFINE s == Append(<<"ready">>, "teardown")
               t == <<"ready", "teardown">>
    <2>1. s \in Seq(Cmd) /\ t \in Seq(Cmd)
      BY DEF Cmd
    <2>2. Len(s) = 2 /\ Len(t) = 2 /\ s[1] = t[1] /\ s[2] = t[2]
      OBVIOUS
    <2>3. \A i \in 1 .. Len(s) : s[i] = t[i]
      <3>1. \A i \in 1 .. 2 : i = 1 \/ i = 2
        OBVIOUS
      <3>. QED BY <2>2, <3>1
    <2>. HIDE DEF s, t
    <2>4. s = t
      BY <2>1, <2>2, <2>3, SeqEqual
    <2>. QED BY <2>4 DEF s, t
  <1>4. \A s \in Seq(Cmd), c \in Cmd : Append(s, c) \in Seq(Cmd)
    OBVIOUS
  <1>5. <<>> \in Seq(Cmd) /\ <<"setup">> \in Seq(Cmd)
    BY DEF Cmd
  <1>. QED BY <1>1, <1>2, <1>3, <1>4, <1>5

\* Commands executed one after the other.
LEMMA Executed ==
    /\ Head(<<"setup">>) = "setup" /\ Tail(<<"setup">>) = <<>>
    /\ Head(<<"ready">>) = "ready" /\ Tail(<<"ready">>) = <<>>
    /\ Head(<<"teardown">>) = "teardown" /\ Tail(<<"teardown">>) = <<>>
    /\ Head(<<"setup", "teardown">>) = "setup" /\ Tail(<<"setup", "teardown">>) = <<"teardown">>
    /\ Head(<<"ready", "teardown">>) = "ready" /\ Tail(<<"ready", "teardown">>) = <<"teardown">>
    /\ \A s \in Seq(Cmd) : s # <<>> => Tail(s) \in Seq(Cmd)
  <1>1. Head(<<"setup">>) = "setup" /\ Head(<<"ready">>) = "ready" /\ Head(<<"teardown">>) = "teardown"
    OBVIOUS
  <1>2. Tail(<<"setup">>) = <<>> /\ Tail(<<"ready">>) = <<>> /\ Tail(<<"teardown">>) = <<>>
    OBVIOUS
  <1>3. Head(<<"setup", "teardown">>) = "setup" /\ Head(<<"ready", "teardown">>) = "ready"
    OBVIOUS
  <1>4. Tail(<<"setup", "teardown">>) = <<"teardown">>
    OBVIOUS
  <1>5. Tail(<<"ready", "teardown">>) = <<"teardown">>
    OBVIOUS
  <1>6. \A s \in Seq(Cmd) : s # <<>> => Tail(s) \in Seq(Cmd)
    OBVIOUS
  <1>. QED BY <1>1, <1>2, <1>3, <1>4, <1>5, <1>6

LEMMA NetParts ==
    ASSUME NetInv, TrTypes
    PROVE  /\ trCmds \in [TrNets -> Seq(Cmd)]
           /\ trNet \in [TrNets -> NetRecord]
           /\ trServer \in [TrKeys -> TrNets \cup {TrNone}]
  BY DEF NetInv, TrTypes, Cmd

LEMMA ServerHolds ==
    ASSUME NetInv, NEW q \in TrKeys, NEW n \in TrNets, trServer[q] = n
    PROVE  /\ trNet[n].key = q /\ trCmds[n] \in BeforeTeardown
           /\ trNet[n].st \in {"told", "installing", "prepared", "failed", "released"}
  <1>1. \A k \in TrKeys : trServer[k] # TrNone =>
          /\ trNet[trServer[k]].key = k
          /\ trNet[trServer[k]].st \in {"told", "installing", "prepared", "failed", "released"}
          /\ trCmds[trServer[k]] \in BeforeTeardown
    BY DEF NetInv
  <1>. QED BY <1>1, NoneIsNoKey

\* NetInv, one network at a time.
LEMMA NetStep ==
    ASSUME NetInv, TrTypes, NEW n \in TrNets, trNet'[n] \in NetRecord, trCmds' \in [TrNets -> Seq(Cmd)],
           \A m \in TrNets : m # n => trNet'[m] = trNet[m] /\ trCmds'[m] = trCmds[m],
           trCmds'[n] \in CmdsOf(trNet'[n].st),
           trNet'[n].st # "unused" => trNet'[n].key \in TrKeys,
           \A k \in TrKeys : /\ trServer'[k] \in {trServer[k], n, TrNone}
                             /\ trServer'[k] = n =>
                                  /\ trNet'[n].key = k
                                  /\ trNet'[n].st \in {"told", "installing", "prepared", "failed", "released"}
                                  /\ trCmds'[n] \in BeforeTeardown,
           \A r \in trRules' : (r \in trRules /\ r.net # n) \/ (r.net = n /\ trNet'[n].st \notin {"unused", "told"})
    PROVE  NetInv'
  <1>1. ASSUME NEW k \in TrKeys, trServer'[k] # TrNone
        PROVE  /\ trNet'[trServer'[k]].key = k
               /\ trNet'[trServer'[k]].st \in {"told", "installing", "prepared", "failed", "released"}
               /\ trCmds'[trServer'[k]] \in BeforeTeardown
    <2>1. CASE trServer'[k] = n
      BY <2>1
    <2>2. CASE trServer'[k] # n
      <3>1. trServer'[k] = trServer[k] /\ trServer[k] \in TrNets
        BY <1>1, <2>2 DEF TrTypes
      <3>. QED BY <1>1, <2>2, <3>1 DEF NetInv
    <2>. QED BY <2>1, <2>2
  <1>2. \A m \in TrNets : trCmds'[m] \in CmdsOf(trNet'[m].st)
    BY DEF NetInv
  <1>3. \A m \in TrNets : trNet'[m].st # "unused" => trNet'[m].key \in TrKeys
    BY DEF NetInv
  <1>4. \A r \in trRules' : trNet'[r.net].st \notin {"unused", "told"}
    BY DEF NetInv, TrTypes
  <1>. QED BY <1>1, <1>2, <1>3, <1>4 DEF NetInv, Cmd

\* The asker's claim is still there, or was lost to a teardown.
LEMMA ServerBuildsStep ==
    ASSUME TrInv, NEW k \in TrKeys, NEW n \in TrNets, ServerBuilds(k, n)
    PROVE  TrInv'
  <1>1. TrTypes /\ ClaimInv /\ NetInv /\ SteerInv /\ AskInv
    BY DEF TrInv
  <1> DEFINE e == [st |-> "told", key |-> k]
  <1>2. PICK p \in TrPackets : trPacket[p].pc = "calling" /\ trPacket[p].key = k
    BY DEF ServerBuilds
  <1>3. /\ trServer[k] = TrNone /\ trNet[n].st = "unused"
        /\ trServer' = [trServer EXCEPT ![k] = n]
        /\ trNet' = [trNet EXCEPT ![n] = e]
        /\ trCmds' = [trCmds EXCEPT ![n] = <<"setup">>]
        /\ UNCHANGED <<trEntry, trPacket, trWoken, trRules, trPast>>
    BY DEF ServerBuilds
  <1>4. e \in NetRecord /\ e.st = "told" /\ e.key = k
    BY DEF NetRecord
  <1> HIDE DEF e
  <1>5. /\ trNet' \in [TrNets -> NetRecord] /\ trNet'[n] = e
        /\ \A m \in TrNets : m # n => trNet'[m] = trNet[m]
    BY <1>1, <1>3, <1>4, NetParts
  <1>6. /\ trCmds' \in [TrNets -> Seq(Cmd)] /\ trCmds'[n] = <<"setup">>
        /\ \A m \in TrNets : m # n => trCmds'[m] = trCmds[m]
    BY <1>1, <1>3, NetParts, Sent
  <1>7. /\ trServer' \in [TrKeys -> TrNets \cup {TrNone}] /\ trServer'[k] = n
        /\ \A q \in TrKeys : q # k => trServer'[q] = trServer[q]
    BY <1>1, <1>3 DEF TrTypes
  <1>8. TrTypes'
    BY <1>1, <1>3, <1>5, <1>7 DEF TrTypes
  <1>9. \A q \in TrKeys : trServer[q] # n
    BY <1>1, <1>3, ServerHolds
  <1>10. \A r \in trRules : r.net # n
    BY <1>1, <1>3 DEF NetInv
  <1>11. ClaimInv'
    <2>1. \A m \in TrNets : trNet[m].st # "unused" => trNet'[m] = trNet[m]
      BY <1>3, <1>5
    <2>. QED BY <1>1, <1>3, <2>1, ClaimKept
  <1>12. NetInv'
    <2>1. trCmds'[n] \in CmdsOf(trNet'[n].st)
      BY <1>4, <1>5, <1>6 DEF CmdsOf
    <2>2. \A q \in TrKeys : trServer'[q] \in {trServer[q], n} /\ (trServer'[q] = n => q = k)
      BY <1>7, <1>9
    <2>3. \A r \in trRules' : r \in trRules /\ r.net # n
      BY <1>3, <1>10
    <2>4. trCmds'[n] \in BeforeTeardown
      BY <1>6 DEF BeforeTeardown
    <2>. QED BY <1>1, <1>4, <1>5, <1>6, <2>1, <2>2, <2>3, <2>4, NetStep
  <1>13. SteerInv'
    <2>1. \A m \in TrNets : trNet'[m] = trNet[m] \/ trNet'[m].st = "told"
      BY <1>4, <1>5
    <2>. QED BY <1>1, <1>3, <2>1, SteerKept
  <1>14. AskInv'
    <2>1. trEntry[k].st # "none" \/ Losers(k) # {}
      <3>1. CASE p \in trPast.lost
        BY <1>2, <3>1 DEF Losers
      <3>2. CASE p \notin trPast.lost
        BY <1>1, <1>2, <3>2 DEF ClaimInv, PacketShape, ClaimHeld
      <3>. QED BY <3>1, <3>2
    <2>2. ASSUME NEW m \in TrNets, trNet'[m].st # "unused"
          PROVE  /\ \E q \in TrPackets : trPacket[q].key = trNet'[m].key
                 /\ trEntry[trNet'[m].key].st # "none" \/ Losers(trNet'[m].key) # {}
      BY <1>1, <1>2, <1>4, <1>5, <2>1, <2>2 DEF AskInv
    <2>3. UnscopedOnlyAfterForget'
      <3>1. \A r \in trRules : r.net \in TrNets /\ trNet'[r.net] = trNet[r.net]
        BY <1>1, <1>5, <1>10 DEF TrTypes
      <3>. QED BY <1>1, <1>3, <3>1 DEF AskInv, UnscopedOnlyAfterForget
    <2>. QED BY <1>3, <2>2, <2>3 DEF AskInv, Losers
  <1>. QED BY <1>8, <1>11, <1>12, <1>13, <1>14 DEF TrInv

LEMMA ServerReadyStep ==
    ASSUME TrInv, NEW n \in TrNets, ServerReady(n)
    PROVE  TrInv'
  <1>1. TrTypes /\ ClaimInv /\ NetInv /\ SteerInv /\ AskInv
    BY DEF TrInv
  <1>2. /\ trNet[n].st = "prepared" /\ trServer[trNet[n].key] = n
        /\ trNet' = [trNet EXCEPT ![n].st = "released"]
        /\ trCmds' = [trCmds EXCEPT ![n] = Append(trCmds[n], "ready")]
        /\ UNCHANGED <<trEntry, trPacket, trWoken, trServer, trRules, trPast>>
    BY DEF ServerReady
  <1>3. /\ trNet' \in [TrNets -> NetRecord] /\ trNet'[n].st = "released" /\ trNet'[n].key = trNet[n].key
        /\ \A m \in TrNets : m # n => trNet'[m] = trNet[m]
    BY <1>1, <1>2, NetParts DEF NetRecord
  <1>4. trNet[n].key \in TrKeys
    BY <1>1, <1>2 DEF NetInv
  <1>5. trCmds[n] = <<>>
    <2>1. trCmds[n] \in BeforeTeardown
      BY <1>1, <1>2, <1>4, ServerHolds
    <2>2. trCmds[n] \in {<<>>, <<"teardown">>}
      BY <1>1, <1>2 DEF NetInv, CmdsOf
    <2>3. <<"teardown">> # <<"setup">> /\ <<"teardown">> # <<"ready">>
      BY Executed
    <2>. QED BY <2>1, <2>2, <2>3 DEF BeforeTeardown
  <1>6. /\ trCmds' \in [TrNets -> Seq(Cmd)] /\ trCmds'[n] = <<"ready">>
        /\ \A m \in TrNets : m # n => trCmds'[m] = trCmds[m]
    <2>1. Append(trCmds[n], "ready") = <<"ready">> /\ Append(trCmds[n], "ready") \in Seq(Cmd)
      BY <1>1, <1>5, NetParts, Sent DEF Cmd
    <2>. QED BY <1>1, <1>2, <2>1, NetParts
  <1>7. TrTypes'
    BY <1>1, <1>2, <1>3 DEF TrTypes
  <1>8. ClaimInv'
    <2>1. \A m \in TrNets : trNet[m].st # "unused" => trNet'[m].st # "unused" /\ trNet'[m].key = trNet[m].key
      BY <1>3
    <2>. QED BY <1>1, <1>2, <2>1, ClaimKept
  <1>9. NetInv'
    <2>1. trCmds'[n] \in CmdsOf(trNet'[n].st)
      BY <1>3, <1>6 DEF CmdsOf
    <2>2. \A q \in TrKeys : trServer'[q] = trServer[q] /\ (trServer'[q] = n => trNet'[n].key = q)
      BY <1>1, <1>2, <1>3, ServerHolds
    <2>3. trCmds'[n] \in BeforeTeardown
      BY <1>6 DEF BeforeTeardown
    <2>. QED BY <1>1, <1>2, <1>3, <1>4, <1>6, <2>1, <2>2, <2>3, NetStep
  <1>10. SteerInv'
    <2>1. \A m \in TrNets : trNet'[m].key = trNet[m].key /\ (trNet'[m] = trNet[m] \/ m = n)
      BY <1>3
    <2>. QED BY <1>1, <1>2, <1>3, <2>1, SteerKept
  <1>11. AskInv'
    <2>1. \A m \in TrNets : trNet'[m].key = trNet[m].key /\ (trNet'[m].st = "unused" <=> trNet[m].st = "unused")
      BY <1>2, <1>3
    <2>. QED BY <1>1, <1>2, <1>7, <2>1, AskKept
  <1>. QED BY <1>7, <1>8, <1>9, <1>10, <1>11 DEF TrInv

LEMMA Distinct ==
    /\ <<"setup">> # <<>> /\ <<"ready">> # <<>> /\ <<"teardown">> # <<>>
    /\ <<"setup", "teardown">> # <<>> /\ <<"ready", "teardown">> # <<>>
    /\ <<"setup">> # <<"ready">> /\ <<"setup">> # <<"teardown">> /\ <<"ready">> # <<"teardown">>
    /\ <<"setup", "teardown">> \notin {<<"setup">>, <<"ready">>} /\ <<"ready", "teardown">> \notin {<<"setup">>, <<"ready">>}
  <1>1. <<"setup">> # <<>> /\ <<"ready">> # <<>> /\ <<"teardown">> # <<>>
    OBVIOUS
  <1>2. <<"setup", "teardown">> # <<>> /\ <<"ready", "teardown">> # <<>>
    OBVIOUS
  <1>3. <<"setup">> # <<"ready">> /\ <<"setup">> # <<"teardown">> /\ <<"ready">> # <<"teardown">>
    BY Executed
  <1>4. <<"setup", "teardown">> \notin {<<"setup">>, <<"ready">>} /\ <<"ready", "teardown">> \notin {<<"setup">>, <<"ready">>}
    BY <1>1, Executed
  <1>. QED BY <1>1, <1>2, <1>3, <1>4

\* The teardown follows what was sent before and is sent once.
LEMMA ServerTearsDownStep ==
    ASSUME TrInv, NEW k \in TrKeys, ServerTearsDown(k)
    PROVE  TrInv'
  <1>1. TrTypes /\ ClaimInv /\ NetInv /\ SteerInv /\ AskInv
    BY DEF TrInv
  <1>2. PICK n \in TrNets : trServer[k] = n
    BY <1>1 DEF ServerTearsDown, TrTypes
  <1>3. /\ trServer' = [trServer EXCEPT ![k] = TrNone]
        /\ trCmds' = [trCmds EXCEPT ![n] = Append(trCmds[n], "teardown")]
        /\ UNCHANGED <<trEntry, trPacket, trWoken, trNet, trRules, trPast>>
    BY <1>2 DEF ServerTearsDown
  <1>4. /\ trNet[n].key = k /\ trCmds[n] \in BeforeTeardown
        /\ trNet[n].st \in {"told", "installing", "prepared", "failed", "released"}
    BY <1>1, <1>2, ServerHolds
  <1>5. /\ trServer' \in [TrKeys -> TrNets \cup {TrNone}]
        /\ \A q \in TrKeys : trServer'[q] \in {trServer[q], TrNone} /\ trServer'[q] # n
    <2>1. \A q \in TrKeys : trServer[q] = n => q = k
      BY <1>1, <1>4, ServerHolds
    <2>. QED BY <1>1, <1>3, <2>1, NoneIsNoKey DEF TrTypes
  <1>6. /\ trCmds' \in [TrNets -> Seq(Cmd)] /\ trCmds'[n] = Append(trCmds[n], "teardown")
        /\ \A m \in TrNets : m # n => trCmds'[m] = trCmds[m]
    <2>1. Append(trCmds[n], "teardown") \in Seq(Cmd)
      BY <1>1, NetParts, Sent DEF Cmd
    <2>. QED BY <1>1, <1>3, <2>1, NetParts
  <1>7. TrTypes'
    BY <1>1, <1>3, <1>5 DEF TrTypes
  <1>8. ClaimInv'
    BY <1>1, <1>3, ClaimKept
  <1>9. NetInv'
    <2>1. trCmds[n] \in CmdsOf(trNet[n].st)
      BY <1>1 DEF NetInv
    <2>2. CASE trNet[n].st \in {"told", "installing"}
      <3>1. trCmds[n] = <<"setup">>
        BY <1>4, <2>1, <2>2, Distinct DEF CmdsOf, BeforeTeardown
      <3>2. trCmds'[n] \in CmdsOf(trNet'[n].st)
        BY <1>3, <1>6, <2>2, <3>1, Sent DEF CmdsOf
      <3>. QED BY <1>1, <1>3, <1>4, <1>5, <1>6, <3>2, NetStep DEF TrTypes, NetInv
    <2>3. CASE trNet[n].st \in {"prepared", "failed"}
      <3>1. trCmds[n] = <<>>
        BY <1>4, <2>1, <2>3, Distinct DEF CmdsOf, BeforeTeardown
      <3>2. trCmds'[n] \in CmdsOf(trNet'[n].st)
        BY <1>3, <1>6, <2>3, <3>1, Sent DEF CmdsOf
      <3>. QED BY <1>1, <1>3, <1>4, <1>5, <1>6, <3>2, NetStep DEF TrTypes, NetInv
    <2>4. CASE trNet[n].st = "released"
      <3>1. trCmds[n] \in {<<>>, <<"ready">>}
        BY <1>4, <2>1, <2>4, Distinct DEF CmdsOf, BeforeTeardown
      <3>2. trCmds'[n] \in CmdsOf(trNet'[n].st)
        BY <1>3, <1>6, <2>4, <3>1, Sent DEF CmdsOf
      <3>. QED BY <1>1, <1>3, <1>4, <1>5, <1>6, <3>2, NetStep DEF TrTypes, NetInv
    <2>. QED BY <1>4, <2>2, <2>3, <2>4
  <1>10. SteerInv'
    BY <1>1, <1>3 DEF SteerInv, Steered, TornDownLeavesNoRule
  <1>11. AskInv'
    BY <1>1, <1>3 DEF AskInv, Losers, UnscopedOnlyAfterForget
  <1>. QED BY <1>7, <1>8, <1>9, <1>10, <1>11 DEF TrInv

-----------------------------------------------------------------------------
(* The commands *)

\* The rule is scoped if the claim is there; if it is not, it was forgotten or lost.
LEMMA SetupInstallsStep ==
    ASSUME TrInv, NEW n \in TrNets, SetupInstalls(n)
    PROVE  TrInv'
  <1>1. TrTypes /\ ClaimInv /\ NetInv /\ SteerInv /\ AskInv
    BY DEF TrInv
  <1> DEFINE rule == [net |-> n, scoped |-> trEntry[trNet[n].key].st # "none"]
  <1>2. /\ trNet[n].st = "told"
        /\ trRules' = trRules \cup {rule}
        /\ trNet' = [trNet EXCEPT ![n].st = "installing"]
        /\ UNCHANGED <<trEntry, trPacket, trWoken, trServer, trCmds, trPast>>
    BY DEF SetupInstalls
  <1>3. /\ rule \in [net : TrNets, scoped : BOOLEAN] /\ rule.net = n
        /\ ~rule.scoped => trEntry[trNet[n].key].st = "none"
    OBVIOUS
  <1> HIDE DEF rule
  <1>4. /\ trNet' \in [TrNets -> NetRecord] /\ trNet'[n].st = "installing" /\ trNet'[n].key = trNet[n].key
        /\ \A m \in TrNets : m # n => trNet'[m] = trNet[m]
    BY <1>1, <1>2, NetParts DEF NetRecord
  <1>5. trNet[n].key \in TrKeys /\ \A m \in TrNets : trNet'[m].key = trNet[m].key
    BY <1>1, <1>2, <1>4 DEF NetInv
  <1>6. TrTypes'
    BY <1>1, <1>2, <1>3, <1>4 DEF TrTypes
  <1>7. ClaimInv'
    <2>1. \A m \in TrNets : trNet[m].st # "unused" => trNet'[m].st # "unused" /\ trNet'[m].key = trNet[m].key
      BY <1>4
    <2>. QED BY <1>1, <1>2, <2>1, ClaimKept
  <1>8. NetInv'
    <2>1. trCmds'[n] \in CmdsOf(trNet'[n].st)
      <3>1. trCmds[n] \in CmdsOf(trNet[n].st)
        BY <1>1 DEF NetInv
      <3>. QED BY <1>2, <1>4, <3>1 DEF CmdsOf
    <2>2. \A q \in TrKeys : /\ trServer'[q] = trServer[q]
                            /\ trServer'[q] = n => trNet'[n].key = q /\ trCmds'[n] \in BeforeTeardown
      BY <1>1, <1>2, <1>5, ServerHolds
    <2>3. \A r \in trRules' : (r \in trRules /\ r.net # n) \/ r.net = n
      BY <1>2, <1>3
    <2>4. trCmds' \in [TrNets -> Seq(Cmd)]
      BY <1>1, <1>2, NetParts
    <2>5. \A q \in TrKeys : /\ trServer'[q] \in {trServer[q], n, TrNone}
                            /\ trServer'[q] = n =>
                                 /\ trNet'[n].key = q
                                 /\ trNet'[n].st \in {"told", "installing", "prepared", "failed", "released"}
                                 /\ trCmds'[n] \in BeforeTeardown
      BY <1>4, <2>2
    <2>6. \A r \in trRules' : (r \in trRules /\ r.net # n) \/ (r.net = n /\ trNet'[n].st \notin {"unused", "told"})
      BY <1>4, <2>3
    <2>7. \A m \in TrNets : m # n => trNet'[m] = trNet[m] /\ trCmds'[m] = trCmds[m]
      BY <1>2, <1>4
    <2>8. trNet'[n] \in NetRecord /\ trNet'[n].key \in TrKeys
      BY <1>4, <1>5
    <2>. QED BY <1>1, <2>1, <2>4, <2>5, <2>6, <2>7, <2>8, NetStep
  <1>9. SteerInv'
    <2>1. \A m \in TrNets : trNet'[m] = trNet[m] \/ (m = n /\ trNet'[m].st = "installing")
      BY <1>4
    <2>2. \A r \in trRules' : r.net # n => r \in trRules
      BY <1>2, <1>3
    <2>. QED BY <1>1, <1>2, <2>1, <2>2, SteerKept
  <1>10. AskInv'
    <2>1. ASSUME NEW m \in TrNets, trNet'[m].st # "unused"
          PROVE  /\ \E q \in TrPackets : trPacket[q].key = trNet'[m].key
                 /\ trEntry[trNet'[m].key].st # "none" \/ Losers(trNet'[m].key) # {}
      <3>1. trNet[m].st # "unused" /\ trNet'[m].key = trNet[m].key
        BY <1>2, <1>4, <2>1
      <3>. QED BY <1>1, <3>1 DEF AskInv
    <2>2. ASSUME NEW r \in trRules', ~r.scoped
          PROVE  \E q \in trPast.forgotten \cup trPast.lost : trPacket[q].key = trNet'[r.net].key
      <3>1. CASE r = rule
        <4>1. Losers(trNet[n].key) # {}
          BY <1>1, <1>2, <1>3, <2>2, <3>1 DEF AskInv
        <4>. QED BY <1>3, <1>4, <3>1, <4>1 DEF Losers
      <3>2. CASE r \in trRules
        <4>1. r.net \in TrNets
          BY <1>1, <3>2 DEF TrTypes
        <4>. QED BY <1>1, <1>5, <2>2, <3>2, <4>1 DEF AskInv, UnscopedOnlyAfterForget
      <3>. QED BY <1>2, <3>1, <3>2
    <2>. QED BY <1>2, <2>1, <2>2 DEF AskInv, Losers, UnscopedOnlyAfterForget
  <1>. QED BY <1>6, <1>7, <1>8, <1>9, <1>10 DEF TrInv

\* The setup is the first command of its network.
LEMMA SetupDone ==
    ASSUME NetInv, TrTypes, NEW n \in TrNets, trNet[n].st \in {"told", "installing"}
    PROVE  /\ trCmds[n] # <<>> /\ Tail(trCmds[n]) \in Seq(Cmd)
           /\ Tail(trCmds[n]) \in {<<>>, <<"teardown">>}
           /\ \A q \in TrKeys : trServer[q] = n => Tail(trCmds[n]) = <<>>
  <1>1. trCmds[n] \in CmdsOf(trNet[n].st)
    BY DEF NetInv
  <1>2. trCmds[n] \in {<<"setup">>, <<"setup", "teardown">>}
    BY <1>1 DEF CmdsOf
  <1>3. trCmds[n] # <<>> /\ Tail(trCmds[n]) \in {<<>>, <<"teardown">>}
    BY <1>2, Executed, Distinct
  <1>4. Tail(trCmds[n]) \in Seq(Cmd)
    BY <1>3, NetParts, Executed
  <1>5. ASSUME NEW q \in TrKeys, trServer[q] = n PROVE Tail(trCmds[n]) = <<>>
    <2>1. trCmds[n] \in BeforeTeardown
      BY <1>5, ServerHolds
    <2>2. trCmds[n] = <<"setup">>
      BY <1>2, <2>1, Distinct DEF BeforeTeardown
    <2>. QED BY <2>2, Executed
  <1>. QED BY <1>3, <1>4, <1>5

\* A setup that ends, whatever became of it, leaves its teardown to come.
LEMMA SetupOver ==
    ASSUME NetInv, TrTypes, NEW n \in TrNets, trNet[n].st \in {"told", "installing"}, NEW o \in {"prepared", "failed"},
           trNet' = [trNet EXCEPT ![n].st = o], trCmds' = [trCmds EXCEPT ![n] = Tail(trCmds[n])],
           UNCHANGED <<trServer, trRules>>
    PROVE  /\ NetInv'
           /\ trNet' \in [TrNets -> NetRecord] /\ trNet'[n].st = o /\ trNet'[n].key = trNet[n].key /\ trNet[n].key \in TrKeys
           /\ \A m \in TrNets : m # n => trNet'[m] = trNet[m]
  <1>1. /\ trNet' \in [TrNets -> NetRecord] /\ trNet'[n].st = o /\ trNet'[n].key = trNet[n].key
        /\ \A m \in TrNets : m # n => trNet'[m] = trNet[m]
    BY NetParts DEF NetRecord
  <1>2. /\ trCmds' \in [TrNets -> Seq(Cmd)] /\ trCmds'[n] = Tail(trCmds[n])
        /\ \A m \in TrNets : m # n => trCmds'[m] = trCmds[m]
    BY NetParts, SetupDone
  <1>3. trNet[n].key \in TrKeys
    BY DEF NetInv
  <1>4. trCmds'[n] \in CmdsOf(trNet'[n].st)
    <2>1. trCmds'[n] \in {<<>>, <<"teardown">>}
      BY <1>2, SetupDone
    <2>. QED BY <1>1, <2>1 DEF CmdsOf
  <1>5. \A q \in TrKeys : /\ trServer'[q] = trServer[q]
                          /\ trServer'[q] = n => trNet'[n].key = q /\ trCmds'[n] \in BeforeTeardown
    BY <1>1, <1>2, SetupDone, ServerHolds DEF BeforeTeardown
  <1>6. \A q \in TrKeys : /\ trServer'[q] \in {trServer[q], n, TrNone}
                          /\ trServer'[q] = n =>
                               /\ trNet'[n].key = q
                               /\ trNet'[n].st \in {"told", "installing", "prepared", "failed", "released"}
                               /\ trCmds'[n] \in BeforeTeardown
    BY <1>1, <1>5
  <1>7. \A r \in trRules' : (r \in trRules /\ r.net # n) \/ (r.net = n /\ trNet'[n].st \notin {"unused", "told"})
    BY <1>1
  <1>8. \A m \in TrNets : m # n => trNet'[m] = trNet[m] /\ trCmds'[m] = trCmds[m]
    BY <1>1, <1>2
  <1>9. trNet'[n] \in NetRecord /\ trNet'[n].key \in TrKeys
    BY <1>1, <1>3
  <1>10. trCmds' \in [TrNets -> Seq(Cmd)]
    BY <1>2
  <1>11. NetInv'
    BY <1>4, <1>6, <1>7, <1>8, <1>9, <1>10, NetStep
  <1>. QED BY <1>1, <1>3, <1>11

LEMMA SetupFailsStep ==
    ASSUME TrInv, NEW n \in TrNets, SetupFails(n)
    PROVE  TrInv'
  <1>1. TrTypes /\ ClaimInv /\ NetInv /\ SteerInv /\ AskInv
    BY DEF TrInv
  <1>2. /\ trNet[n].st = "told"
        /\ trNet' = [trNet EXCEPT ![n].st = "failed"]
        /\ trCmds' = [trCmds EXCEPT ![n] = Tail(trCmds[n])]
        /\ UNCHANGED <<trEntry, trPacket, trWoken, trServer, trRules, trPast>>
    BY DEF SetupFails
  <1>3. /\ NetInv'
        /\ trNet' \in [TrNets -> NetRecord] /\ trNet'[n].st = "failed" /\ trNet'[n].key = trNet[n].key
        /\ \A m \in TrNets : m # n => trNet'[m] = trNet[m]
    BY <1>1, <1>2, SetupOver
  <1>4. TrTypes'
    BY <1>1, <1>2, <1>3 DEF TrTypes
  <1>5. \A m \in TrNets : trNet'[m].key = trNet[m].key /\ (trNet'[m].st = "unused" <=> trNet[m].st = "unused")
    BY <1>2, <1>3
  <1>6. ClaimInv'
    BY <1>1, <1>2, <1>5, ClaimKept
  <1>7. SteerInv'
    <2>1. \A r \in trRules : r.net # n
      BY <1>1, <1>2 DEF NetInv
    <2>. QED BY <1>1, <1>2, <1>3, <2>1, SteerKept
  <1>8. AskInv'
    BY <1>1, <1>2, <1>4, <1>5, AskKept
  <1>. QED BY <1>3, <1>4, <1>6, <1>7, <1>8 DEF TrInv

\* mark_prepared keeps the Notify; an entry it takes over is remembered.
LEMMA SetupEndsStep ==
    ASSUME TrInv, NEW n \in TrNets, SetupEnds(n)
    PROVE  TrInv'
  <1>1. TrTypes /\ ClaimInv /\ NetInv /\ SteerInv /\ AskInv
    BY DEF TrInv
  <1>2. PICK o \in {"prepared", "failed"} : trNet' = [trNet EXCEPT ![n].st = o]
    BY DEF SetupEnds
  <1>3. /\ trNet[n].st = "installing" /\ MarkPrepared(n)
        /\ trCmds' = [trCmds EXCEPT ![n] = Tail(trCmds[n])]
        /\ UNCHANGED <<trPacket, trServer, trRules>>
    BY DEF SetupEnds
  <1>4. /\ NetInv' /\ trNet[n].key \in TrKeys
        /\ trNet' \in [TrNets -> NetRecord] /\ trNet'[n].st = o /\ trNet'[n].key = trNet[n].key
        /\ \A m \in TrNets : m # n => trNet'[m] = trNet[m]
    BY <1>1, <1>2, <1>3, SetupOver
  <1>5. PICK k \in TrKeys : trNet[n].key = k
    BY <1>4
  <1> DEFINE e == [st |-> "installed", token |-> Notify(trEntry[k], n), aged |-> FALSE, ready |-> FALSE, net |-> n]
  <1>6. /\ trEntry' = [trEntry EXCEPT ![k] = e] /\ trWoken' = trWoken
        /\ trPast' = IF trEntry[k].st = "installed" THEN [trPast EXCEPT !.replaced = @ \cup {trEntry[k].net}] ELSE trPast
    BY <1>3, <1>5 DEF MarkPrepared
  <1>7. /\ e \in Entry /\ e.st = "installed" /\ ~e.ready /\ e.net = n
        /\ e.token = n \/ trEntry[k].st # "none"
        /\ trEntry[k].st # "none" => e.token = trEntry[k].token
    <2>1. Notify(trEntry[k], n) \in Tokens
      BY <1>1, <1>5, TypesParts DEF Notify, Entry, Tokens
    <2>. QED BY <2>1 DEF Entry, Notify
  <1> HIDE DEF e
  <1>8. /\ trEntry' \in [TrKeys -> Entry] /\ trEntry'[k] = e
        /\ \A q \in TrKeys : q # k => trEntry'[q] = trEntry[q]
    BY <1>1, <1>6, <1>7 DEF TrTypes
  <1>9. /\ trPast' \in PastRecord /\ trPast'.forgotten = trPast.forgotten
        /\ trPast'.ready = trPast.ready /\ trPast'.lost = trPast.lost
        /\ trPast.replaced \subseteq trPast'.replaced
        /\ trEntry[k].st = "installed" => trEntry[k].net \in trPast'.replaced
    <2>1. trEntry[k].net \in TrNets \cup {TrNone}
      BY <1>1, <1>5, TypesParts DEF Entry
    <2>. QED BY <1>1, <1>6, <2>1 DEF TrTypes, PastRecord
  <1>10. TrTypes'
    BY <1>1, <1>3, <1>4, <1>6, <1>8, <1>9 DEF TrTypes
  <1>11. \A m \in TrNets : trNet'[m].key = trNet[m].key /\ (trNet'[m].st = "unused" <=> trNet[m].st = "unused")
    BY <1>3, <1>4
  <1>12. ClaimInv'
    <2>1. \A x \in TrKeys : trEntry[x].ready => trEntry[x].st = "installed" /\ x \in trPast.ready
      BY <1>1 DEF ClaimInv, EntryShape, WokenReady, Active
    <2>2. ASSUME NEW x \in TrKeys
          PROVE  /\ trEntry'[x].ready => trEntry'[x].st = "installed" /\ x \in trPast'.ready /\ trEntry'[x] = trEntry[x]
                 /\ trEntry'[x].st = "pending" => trEntry'[x] = trEntry[x]
                 /\ trEntry[x].st # "none" => trEntry'[x].st # "none" /\ trEntry'[x].token = trEntry[x].token
                 /\ trEntry'[x].st # "none" =>
                      \/ trEntry[x].st # "none" /\ trEntry'[x].token = trEntry[x].token
                      \/ \E m \in TrNets : trEntry'[x].token = m /\ trNet[m].st # "unused" /\ trNet[m].key = x
      <3>1. CASE x = k
        BY <1>3, <1>5, <1>7, <1>8, <3>1
      <3>2. CASE x # k
        BY <1>8, <1>9, <2>1, <3>2
      <3>. QED BY <3>1, <3>2
    <2>. QED BY <1>1, <1>3, <1>6, <1>9, <1>11, <2>2, EntryStep DEF Active, TrTypes
  <1>13. SteerInv'
    <2>1. ASSUME NEW m \in TrNets, trNet'[m].st \in {"prepared", "failed", "released"}, m \notin trPast'.replaced,
                 \E r \in trRules : r.net = m
          PROVE  trEntry'[trNet'[m].key].st = "installed" /\ trEntry'[trNet'[m].key].net = m
      <3>1. CASE m = n
        BY <1>4, <1>5, <1>7, <1>8, <3>1
      <3>2. CASE m # n
        <4>1. trNet'[m] = trNet[m] /\ m \notin trPast.replaced
          BY <1>4, <1>9, <2>1, <3>2
        <4>2. Steered(m) /\ trNet[m].key \in TrKeys
          BY <1>1, <2>1, <4>1 DEF SteerInv, NetInv
        <4>3. trNet[m].key # k
          BY <1>9, <2>1, <4>2 DEF Steered
        <4>. QED BY <1>8, <4>1, <4>2, <4>3 DEF Steered
      <3>. QED BY <3>1, <3>2
    <2>2. TornDownLeavesNoRule'
      <3>1. \A m \in TrNets : trNet'[m].st = "torn" => trNet[m].st = "torn"
        BY <1>4
      <3>. QED BY <1>1, <1>3, <1>9, <3>1 DEF SteerInv, TornDownLeavesNoRule
    <2>. QED BY <1>3, <2>1, <2>2 DEF SteerInv, Steered
  <1>14. AskInv'
    <2>1. \A q \in TrKeys : trEntry[q].st # "none" => trEntry'[q].st # "none"
      BY <1>7, <1>8
    <2>. QED BY <1>1, <1>3, <1>9, <1>10, <1>11, <2>1, AskKept
  <1>. QED BY <1>4, <1>10, <1>12, <1>13, <1>14 DEF TrInv

\* NetReady wakes packets of the key it makes active, and all that hold its Notify.
LEMMA ReadyExecutedStep ==
    ASSUME TrInv, NEW n \in TrNets, ReadyExecuted(n)
    PROVE  TrInv'
  <1>1. TrTypes /\ ClaimInv /\ NetInv /\ SteerInv /\ AskInv
    BY DEF TrInv
  <1> DEFINE woken == {p \in TrPackets : /\ trPacket[p].pc \notin {"new", "claimed"}
                                         /\ \E k \in Installed(n) : trEntry[k].token = trPacket[p].token}
  <1>2. /\ trCmds[n] # <<>> /\ Head(trCmds[n]) = "ready"
        /\ trEntry' = [k \in TrKeys |-> IF k \in Installed(n) THEN [trEntry[k] EXCEPT !.ready = TRUE] ELSE trEntry[k]]
        /\ trWoken' = trWoken \cup woken
        /\ trPast' = [trPast EXCEPT !.ready = @ \cup Installed(n)]
        /\ trCmds' = [trCmds EXCEPT ![n] = Tail(trCmds[n])]
        /\ UNCHANGED <<trPacket, trServer, trNet, trRules>>
    BY DEF ReadyExecuted, Next1
  <1>3. Installed(n) \subseteq TrKeys /\ \A k \in Installed(n) : trEntry[k].st = "installed" /\ trEntry[k].net = n
    BY DEF Installed
  <1>4. ASSUME NEW k \in TrKeys
        PROVE  /\ trEntry'[k] \in Entry
               /\ trEntry'[k].st = trEntry[k].st /\ trEntry'[k].token = trEntry[k].token
               /\ trEntry'[k].aged = trEntry[k].aged /\ trEntry'[k].net = trEntry[k].net
               /\ trEntry'[k].ready => trEntry[k].ready \/ k \in Installed(n)
    <2>1. trEntry[k] \in Entry
      BY <1>1, TypesParts
    <2>2. CASE k \in Installed(n)
      <3>1. trEntry'[k] = [trEntry[k] EXCEPT !.ready = TRUE]
        BY <1>2, <2>2
      <3>. QED BY <2>1, <2>2, <3>1 DEF Entry
    <2>3. CASE k \notin Installed(n)
      BY <1>2, <2>1, <2>3
    <2>. QED BY <2>2, <2>3
  <1>5. /\ trPast' \in PastRecord /\ trPast'.forgotten = trPast.forgotten /\ trPast'.lost = trPast.lost
        /\ trPast'.ready = trPast.ready \cup Installed(n) /\ trPast'.replaced = trPast.replaced
    BY <1>1, <1>2, <1>3 DEF TrTypes, PastRecord
  <1>6. TrTypes'
    <2>1. trEntry' \in [TrKeys -> Entry]
      BY <1>2, <1>4
    <2>. QED BY <1>1, <1>2, <1>5, <2>1 DEF TrTypes
  <1>7. ASSUME NEW p \in woken PROVE trPacket[p].key \in Installed(n)
    <2>1. PICK k \in Installed(n) : trEntry[k].token = trPacket[p].token
      OBVIOUS
    <2>2. TokenOf(trPacket[p].token, k)
      BY <1>1, <1>3, <2>1 DEF ClaimInv, EntryShape
    <2>3. trPacket[p].token # TrNone
      BY <2>2, NoneIsNoKey DEF TokenOf
    <2>4. TokenOf(trPacket[p].token, trPacket[p].key)
      BY <1>1, <2>3 DEF ClaimInv, PacketShape
    <2>. QED BY <2>2, <2>4, TokenIsOwn
  <1>8. ClaimInv'
    <2>1. \A x \in TrKeys : trEntry[x].ready => trEntry[x].st = "installed" /\ x \in trPast.ready
      BY <1>1 DEF ClaimInv, EntryShape, WokenReady, Active
    <2>2. \A x \in TrKeys : trEntry'[x].ready => trEntry'[x].st = "installed" /\ x \in trPast'.ready
      BY <1>3, <1>4, <1>5, <2>1
    <2>3. \A p \in trWoken' : p \notin trWoken => trPacket[p].key \in trPast'.ready
      BY <1>2, <1>5, <1>7
    <2>4. ASSUME NEW x \in TrKeys, trEntry'[x].ready
          PROVE  \/ Active(x)
                 \/ \A p \in TrPackets :
                      /\ trPacket[p].pc \in {"waiting", "calling", "answered"}
                      /\ trPacket[p].key = x /\ trEntry'[x].token = trPacket[p].token
                      => p \in trWoken'
      <3>1. CASE trEntry[x].ready
        BY <2>1, <3>1 DEF Active
      <3>2. CASE x \in Installed(n)
        <4>1. \A p \in TrPackets : trPacket[p].pc \in {"waiting", "calling", "answered"}
                                     /\ trEntry[x].token = trPacket[p].token => p \in woken
          BY <3>2
        <4>. QED BY <1>2, <1>4, <4>1
      <3>. QED BY <1>4, <2>4, <3>1, <3>2
    <2>5. trWoken \subseteq trWoken' /\ trWoken' \subseteq TrPackets
      BY <1>1, <1>2 DEF TrTypes
    <2>6. /\ trPast.ready \subseteq trPast'.ready /\ trPast.lost \subseteq trPast'.lost
          /\ UNCHANGED <<trPacket, trNet>>
      BY <1>2, <1>5
    <2>. HIDE DEF woken
    <2>. QED BY <1>1, <1>4, <2>2, <2>3, <2>4, <2>5, <2>6, EntryStep
  <1>9. NetInv'
    <2>1. trCmds[n] \in CmdsOf(trNet[n].st)
      BY <1>1 DEF NetInv
    <2>2. trCmds[n] \in {<<"ready">>, <<"ready", "teardown">>} /\ trNet[n].st = "released"
      BY <1>1, <1>2, <2>1, Executed, TypesParts DEF CmdsOf, NetRecord
    <2>3. Tail(trCmds[n]) \in {<<>>, <<"teardown">>} /\ Tail(trCmds[n]) \in Seq(Cmd)
      BY <1>1, <1>2, <2>2, Executed, NetParts
    <2>4. /\ trCmds' \in [TrNets -> Seq(Cmd)] /\ trCmds'[n] = Tail(trCmds[n])
          /\ \A m \in TrNets : m # n => trCmds'[m] = trCmds[m]
      BY <1>1, <1>2, <2>3, NetParts
    <2>5. ASSUME NEW q \in TrKeys, trServer[q] = n PROVE trNet[n].key = q /\ trCmds'[n] \in BeforeTeardown
      <3>1. trNet[n].key = q /\ trCmds[n] \in BeforeTeardown
        BY <1>1, <2>5, ServerHolds
      <3>2. trCmds[n] = <<"ready">>
        BY <2>2, <3>1, Distinct DEF BeforeTeardown
      <3>. QED BY <2>4, <3>1, <3>2, Executed DEF BeforeTeardown
    <2>6. trCmds'[n] \in CmdsOf(trNet'[n].st)
      BY <1>2, <2>2, <2>3, <2>4 DEF CmdsOf
    <2>7. trNet[n].key \in TrKeys /\ trNet'[n] \in NetRecord
      BY <1>1, <1>2, <2>2, TypesParts DEF NetInv
    <2>. QED BY <1>1, <1>2, <2>2, <2>4, <2>5, <2>6, <2>7, NetStep
  <1>10. SteerInv'
    BY <1>1, <1>2, <1>4, <1>5, SteerKept
  <1>11. AskInv'
    BY <1>1, <1>2, <1>4, <1>5, <1>6, AskKept
  <1>. QED BY <1>6, <1>8, <1>9, <1>10, <1>11 DEF TrInv

\* The teardown finds the entry of its network, or the network has no rule.
LEMMA TeardownExecutedStep ==
    ASSUME TrInv, NEW n \in TrNets, TeardownExecuted(n)
    PROVE  TrInv'
  <1>1. TrTypes /\ ClaimInv /\ NetInv /\ SteerInv /\ AskInv
    BY DEF TrInv
  <1> DEFINE robbed == {p \in TrPackets : trPacket[p].key \in Installed(n)}
  <1>2. PICK removed \in BOOLEAN :
          /\ trRules' = IF removed /\ Installed(n) # {} THEN {r \in trRules : r.net # n} ELSE trRules
          /\ trNet' = [trNet EXCEPT ![n].st = IF removed \/ Installed(n) = {} THEN "torn" ELSE "stuck"]
    BY DEF TeardownExecuted
  <1>3. /\ trCmds[n] # <<>> /\ Head(trCmds[n]) = "teardown"
        /\ trEntry' = [k \in TrKeys |-> IF k \in Installed(n) THEN NoEntry ELSE trEntry[k]]
        /\ trPast' = [trPast EXCEPT !.lost = @ \cup robbed]
        /\ trCmds' = [trCmds EXCEPT ![n] = Tail(trCmds[n])]
        /\ UNCHANGED <<trPacket, trWoken, trServer>>
    BY DEF TeardownExecuted, Next1
  <1>4. Installed(n) \subseteq TrKeys /\ \A k \in TrKeys : k \in Installed(n) <=> trEntry[k].st = "installed" /\ trEntry[k].net = n
    BY DEF Installed
  <1>5. trCmds[n] = <<"teardown">> /\ trNet[n].st \in {"prepared", "failed", "released"}
    <2>1. trCmds[n] \in CmdsOf(trNet[n].st) /\ trNet[n] \in NetRecord
      BY <1>1, TypesParts DEF NetInv
    <2>. QED BY <1>3, <2>1, Executed DEF CmdsOf, NetRecord
  <1>6. trNet[n].key \in TrKeys
    BY <1>1, <1>5 DEF NetInv
  <1>7. /\ trNet' \in [TrNets -> NetRecord] /\ trNet'[n].key = trNet[n].key /\ trNet'[n].st \in {"torn", "stuck"}
        /\ trNet'[n].st = "torn" => removed \/ Installed(n) = {}
        /\ \A m \in TrNets : m # n => trNet'[m] = trNet[m]
    BY <1>1, <1>2, NetParts DEF NetRecord
  <1>8. /\ trEntry' \in [TrKeys -> Entry]
        /\ \A k \in TrKeys : trEntry'[k] = IF k \in Installed(n) THEN NoEntry ELSE trEntry[k]
    BY <1>1, <1>3, EntryFields DEF TrTypes
  <1>9. /\ trPast' \in PastRecord /\ trPast'.forgotten = trPast.forgotten /\ trPast'.lost = trPast.lost \cup robbed
        /\ trPast'.ready = trPast.ready /\ trPast'.replaced = trPast.replaced
    BY <1>1, <1>3 DEF TrTypes, PastRecord
  <1>10. trRules' \subseteq trRules
    BY <1>2
  <1>11. TrTypes'
    BY <1>1, <1>3, <1>7, <1>8, <1>9, <1>10 DEF TrTypes
  <1>12. \A m \in TrNets : trNet'[m].key = trNet[m].key /\ (trNet'[m].st = "unused" <=> trNet[m].st = "unused")
    BY <1>5, <1>7
  <1>13. \A p \in TrPackets : trPacket[p].key \in Installed(n) => p \in trPast'.lost
    BY <1>9
  <1> HIDE DEF robbed
  <1>14. ClaimInv'
    <2>1. \A x \in TrKeys : trEntry[x].ready => trEntry[x].st = "installed" /\ x \in trPast.ready
      BY <1>1 DEF ClaimInv, EntryShape, WokenReady, Active
    <2>2. ASSUME NEW x \in TrKeys
          PROVE  /\ trEntry'[x].ready => trEntry'[x].st = "installed" /\ x \in trPast'.ready
                 /\ trEntry'[x].st # "none" => trEntry'[x] = trEntry[x]
                 /\ x \notin Installed(n) => trEntry'[x] = trEntry[x]
      <3>1. CASE x \in Installed(n)
        BY <1>8, <3>1, EntryFields
      <3>2. CASE x \notin Installed(n)
        BY <1>8, <1>9, <2>1, <3>2
      <3>. QED BY <3>1, <3>2
    <2>3. trPast.lost \subseteq trPast'.lost /\ trPast.ready \subseteq trPast'.ready /\ trWoken \subseteq TrPackets
      BY <1>1, <1>9 DEF TrTypes
    <2>4. ASSUME NEW x \in TrKeys, NEW p \in TrPackets, p \notin trPast'.lost, trPacket[p].key = x
          PROVE  trEntry'[x] = trEntry[x]
      BY <1>13, <2>2, <2>4
    <2>. QED BY <1>1, <1>3, <1>12, <2>2, <2>3, <2>4, EntryStep DEF Active
  <1>15. NetInv'
    <2>1. /\ trCmds' \in [TrNets -> Seq(Cmd)] /\ trCmds'[n] = <<>>
          /\ \A m \in TrNets : m # n => trCmds'[m] = trCmds[m]
      BY <1>1, <1>3, <1>5, NetParts, Executed, Sent
    <2>2. \A q \in TrKeys : trServer[q] # n
      BY <1>1, <1>5, Distinct, ServerHolds DEF BeforeTeardown
    <2>3. trCmds'[n] \in CmdsOf(trNet'[n].st)
      BY <1>7, <2>1 DEF CmdsOf
    <2>. QED BY <1>1, <1>3, <1>6, <1>7, <1>10, <2>1, <2>2, <2>3, NetStep
  <1>16. SteerInv'
    <2>1. ASSUME NEW m \in TrNets, trNet'[m].st \in {"prepared", "failed", "released"}, m \notin trPast'.replaced,
                 \E r \in trRules' : r.net = m
          PROVE  trEntry'[trNet'[m].key].st = "installed" /\ trEntry'[trNet'[m].key].net = m
      <3>1. m # n /\ trNet'[m] = trNet[m]
        BY <1>7, <2>1
      <3>2. Steered(m) /\ trNet[m].key \in TrKeys
        BY <1>1, <1>9, <1>10, <2>1, <3>1 DEF SteerInv, NetInv
      <3>3. trNet[m].key \notin Installed(n)
        BY <1>4, <3>1, <3>2 DEF Steered
      <3>. QED BY <1>8, <3>1, <3>2, <3>3 DEF Steered
    <2>2. TornDownLeavesNoRule'
      <3> SUFFICES ASSUME NEW m \in TrNets, trNet'[m].st = "torn", m \notin trPast'.replaced, NEW r \in trRules', r.net = m
                   PROVE  FALSE
        BY DEF TornDownLeavesNoRule
      <3>1. r \in trRules /\ m \notin trPast.replaced
        BY <1>9, <1>10
      <3>2. CASE m # n
        BY <1>1, <1>7, <3>1, <3>2 DEF SteerInv, TornDownLeavesNoRule
      <3>3. CASE m = n
        <4>1. Steered(n)
          BY <1>1, <1>5, <3>1, <3>3 DEF SteerInv
        <4>2. trNet[n].key \in Installed(n)
          BY <1>4, <1>6, <4>1 DEF Steered
        <4>. QED BY <1>2, <1>7, <3>3, <4>2
      <3>. QED BY <3>2, <3>3
    <2>. QED BY <2>1, <2>2 DEF SteerInv, Steered
  <1>17. AskInv'
    <2>1. ASSUME NEW k \in TrKeys, trEntry[k].st # "none", NEW p \in TrPackets, trPacket[p].key = k
          PROVE  trEntry'[k].st # "none" \/ Losers(k)' # {}
      <3>1. CASE k \in Installed(n)
        <4>1. p \in trPast'.lost /\ trPacket'[p].key = k
          BY <1>3, <1>13, <2>1, <3>1
        <4>. QED BY <4>1 DEF Losers
      <3>2. CASE k \notin Installed(n)
        BY <1>8, <2>1, <3>2
      <3>. QED BY <3>1, <3>2
    <2>2. trPast.forgotten \subseteq trPast'.forgotten /\ trPast.lost \subseteq trPast'.lost
      BY <1>9
    <2>. QED BY <1>1, <1>3, <1>10, <1>11, <1>12, <2>1, <2>2, AskKept
  <1>. QED BY <1>11, <1>14, <1>15, <1>16, <1>17 DEF TrInv

-----------------------------------------------------------------------------
(* The specification *)

LEMMA TriggersStart == TriggersInit => TrInv
  <1> SUFFICES ASSUME TriggersInit PROVE TrInv
    OBVIOUS
  <1>1. \A k \in TrKeys : trEntry[k] = NoEntry /\ trServer[k] = TrNone
    BY DEF TriggersInit
  <1>2. \A p \in TrPackets : trPacket[p].pc = "new" /\ trPacket[p].key = TrNone /\ trPacket[p].token = TrNone
    BY DEF TriggersInit
  <1>3. \A n \in TrNets : trNet[n].st = "unused" /\ trCmds[n] = <<>>
    BY DEF TriggersInit
  <1>4. TrTypes
    <2>1. trEntry \in [TrKeys -> Entry]
      BY EntryFields DEF TriggersInit
    <2>2. trPacket \in [TrPackets -> PacketRecord]
      BY DEF TriggersInit, PacketRecord, Stages, Tokens
    <2>3. trServer \in [TrKeys -> TrNets \cup {TrNone}]
      BY DEF TriggersInit
    <2>4. trNet \in [TrNets -> NetRecord]
      BY DEF TriggersInit, NetRecord
    <2>5. trWoken \subseteq TrPackets /\ trRules \subseteq [net : TrNets, scoped : BOOLEAN] /\ trPast \in PastRecord
      BY DEF TriggersInit, PastRecord
    <2>. QED BY <2>1, <2>2, <2>3, <2>4, <2>5 DEF TrTypes
  <1>5. ClaimInv
    <2>1. PacketShape /\ NoPacketBeforeReady /\ ClaimHeld /\ NoLostWakeup
      BY <1>2 DEF PacketShape, NoPacketBeforeReady, ClaimHeld, NoLostWakeup
    <2>2. EntryShape
      BY <1>1, EntryFields DEF EntryShape
    <2>3. WokenReady
      BY <1>1, EntryFields DEF WokenReady, Active, TriggersInit
    <2>. QED BY <2>1, <2>2, <2>3 DEF ClaimInv
  <1>6. NetInv
    <2>1. trCmds \in [TrNets -> Seq(Cmd)]
      BY Sent DEF TriggersInit
    <2>2. \A n \in TrNets : trCmds[n] \in CmdsOf(trNet[n].st)
      BY <1>3 DEF CmdsOf
    <2>3. trRules = {}
      BY DEF TriggersInit
    <2>. QED BY <1>1, <1>3, <2>1, <2>2, <2>3 DEF NetInv, Cmd
  <1>7. SteerInv /\ AskInv
    BY <1>3 DEF TriggersInit, SteerInv, AskInv, TornDownLeavesNoRule, UnscopedOnlyAfterForget
  <1>. QED BY <1>4, <1>5, <1>6, <1>7 DEF TrInv

LEMMA TriggersStep == TrInv /\ [TriggersNext]_trVars => TrInv'
  <1> SUFFICES ASSUME TrInv, [TriggersNext]_trVars PROVE TrInv'
    OBVIOUS
  <1>1. CASE \E p \in TrPackets, c \in TrContainers, port \in TrPorts : Packet(p, c, port)
    BY <1>1, PacketStep
  <1>2. CASE \E p \in TrPackets : Register(p) \/ CheckReady(p) \/ WaitEnds(p)
    BY <1>2, RegisterStep, CheckReadyStep, WaitEndsStep
  <1>3. CASE \E p \in TrPackets : TriggerAnswered(p) \/ TriggerFailed(p) \/ TriggerTimeout(p)
    BY <1>3, TriggerAnsweredStep, TriggerFailedStep, TriggerTimeoutStep
  <1>4. CASE \E k \in TrKeys : PendingAges(k) \/ ServerTearsDown(k)
    BY <1>4, PendingAgesStep, ServerTearsDownStep
  <1>5. CASE \E k \in TrKeys, n \in TrNets : ServerBuilds(k, n)
    BY <1>5, ServerBuildsStep
  <1>6. CASE \E n \in TrNets : ServerReady(n) \/ SetupInstalls(n) \/ SetupFails(n)
    BY <1>6, ServerReadyStep, SetupInstallsStep, SetupFailsStep
  <1>7. CASE \E n \in TrNets : SetupEnds(n) \/ ReadyExecuted(n) \/ TeardownExecuted(n)
    BY <1>7, SetupEndsStep, ReadyExecutedStep, TeardownExecutedStep
  <1>8. CASE UNCHANGED trVars
    <2>1. /\ UNCHANGED <<trEntry, trPacket, trWoken, trPast>>
          /\ UNCHANGED <<trServer, trNet, trCmds, trRules>>
      BY <1>8 DEF trVars
    <2>2. TrTypes /\ ClaimInv /\ NetInv /\ SteerInv /\ AskInv
      BY DEF TrInv
    <2>3. TrTypes'
      BY <2>1, <2>2 DEF TrTypes
    <2>4. ClaimInv'
      BY <2>1, <2>2, ClaimKept
    <2>5. NetInv'
      BY <2>1, <2>2, NetKept
    <2>6. SteerInv'
      BY <2>1, <2>2 DEF SteerInv, Steered, TornDownLeavesNoRule
    <2>7. AskInv'
      BY <2>1, <2>2 DEF AskInv, Losers, UnscopedOnlyAfterForget
    <2>. QED BY <2>3, <2>4, <2>5, <2>6, <2>7 DEF TrInv
  <1>. QED BY <1>1, <1>2, <1>3, <1>4, <1>5, <1>6, <1>7, <1>8 DEF TriggersNext

\* Whatever the order of claims, answers, timeouts, setups, NetReady and
\* teardowns, no packet sleeps through the NetReady of its claim and none of a
\* watched key is let go before the first of its key (decide_verdict, mark_ready).
THEOREM HeldPacketsWakeAlways == TriggersSpec => []HeldPacketsWake
  <1>1. TrInv => HeldPacketsWake
    BY DEF TrInv, ClaimInv, HeldPacketsWake
  <1>. QED BY <1>1, TriggersStart, TriggersStep, PTL DEF TriggersSpec

\* No caller loses its claim to another's failure, a rule that catches every
\* container appears only after a claim was forgotten or torn down, and an
\* acknowledged teardown has left no rule of its network (forget_pending,
\* handle_vxlan_setup, handle_vxlan_teardown).
THEOREM RulesFollowClaimsAlways == TriggersSpec => []RulesFollowClaims
  <1>1. ASSUME TrInv PROVE RulesFollowClaims
    <2>1. TrTypes /\ ClaimInv /\ NetInv /\ SteerInv /\ AskInv
      BY <1>1 DEF TrInv
    <2>2. TriggersTypeOK
      <3>1. \A k \in TrKeys : trEntry[k] \in Entry /\ trServer[k] \in TrNets \cup {TrNone}
        BY <2>1 DEF TrTypes
      <3>2. \A k \in TrKeys : /\ trEntry[k].st \in {"none", "pending", "installed"} /\ trEntry[k].token \in Tokens
                              /\ trEntry[k].ready => trEntry[k].st = "installed"
                              /\ trEntry[k].st = "pending" => trEntry[k].token \in TrPackets
        BY <2>1, <3>1 DEF Entry, ClaimInv, EntryShape
      <3>3. \A r \in trRules : r.net \in TrNets /\ r.scoped \in BOOLEAN
        BY <2>1 DEF TrTypes
      <3>. QED BY <2>1, <3>1, <3>2, <3>3 DEF TriggersTypeOK, TrTypes
    <2>3. ClaimStands
      BY <2>1 DEF ClaimInv, ClaimHeld, ClaimStands
    <2>. QED BY <2>1, <2>2, <2>3 DEF RulesFollowClaims, SteerInv, AskInv
  <1>. QED BY <1>1, TriggersStart, TriggersStep, PTL DEF TriggersSpec
-----------------------------------------------------------------------------
(* BackendSessions.  A build that holds a reference is the build its       *)
(* session names, and finitely many do.                                    *)

SessionRecord == [gen : BsGens \cup {0}, building : BOOLEAN, idle : {"no", "yes", "due"}, row : BsGens \cup {0}]
TaskRecord == [st : {"none", "building", "taken", "finished", "opened", "done"}, key : BsKeys \cup {0}, net : Nat]

\* The tables hold records of their types, and finitely many builds hold a
\* reference they have not handed over.
BackendTypes ==
    /\ bsSess \in [BsKeys -> SessionRecord]
    /\ bsTask \in [BsGens -> TaskRecord]
    /\ bsEdge \in [BsKeys -> [refs : Nat, net : Nat]]
    /\ bsIngress \in [BsKeys -> Nat]
    /\ bsNets \in Nat
    /\ bsDebt \in [BsKeys -> Int]
    /\ bsRows \subseteq BsGens /\ bsClosing \subseteq BsGens
    /\ \A k \in BsKeys : bsEdge[k].net \in 0..bsNets
    /\ \A k \in BsKeys : IsFiniteSet(TasksOf(k, {"taken"}))

\* The session of a generation is the one its build was started for, and
\* it is building exactly until that build has finished.
SessionOfTask ==
    /\ \A k \in BsKeys : bsSess[k].gen = 0 => ~bsSess[k].building
    /\ \A k \in BsKeys : bsSess[k].gen # 0 =>
          /\ bsTask[bsSess[k].gen].key = k
          /\ bsTask[bsSess[k].gen].st # "none"
          /\ bsTask[bsSess[k].gen].st \in {"building", "taken"} => bsSess[k].building
    /\ \A g \in BsGens : bsTask[g].st # "none" => bsTask[g].key \in BsKeys

\* A row is not there before its writer has written it.
RowIsWritten == \A g \in BsGens : bsTask[g].st \in {"none", "building", "taken", "finished"} => g \notin bsRows

BackendInv ==
    /\ BackendTypes
    /\ SessionOfTask
    /\ RowIsWritten
    /\ EveryReferenceSpentOnce
    /\ ClaimHasABuild
    /\ NoDanglingRow

\* The empty tables of a server that has just started.
LEMMA BackendTypesInit == BackendInit => BackendInv
  <1> SUFFICES ASSUME BackendInit PROVE BackendInv
    OBVIOUS
  <1>1. \A k \in BsKeys : TasksOf(k, {"taken"}) = {}
    BY DEF BackendInit, TasksOf, NoTask
  <1>2a. \A k \in BsKeys : IsFiniteSet(TasksOf(k, {"taken"}))
    BY <1>1, FS_EmptySet
  <1>2. BackendTypes
    BY <1>2a DEF BackendInit, BackendTypes, SessionRecord, TaskRecord, NoSession, NoTask
  <1>3a. \A k \in BsKeys : Cardinality(TasksOf(k, {"taken"})) = 0
    BY <1>1, FS_EmptySet
  <1>3. EveryReferenceSpentOnce
    BY <1>3a DEF BackendInit, EveryReferenceSpentOnce, Held, NoSession
  <1>. QED
    BY <1>2, <1>3 DEF BackendInit, BackendInv, SessionOfTask, RowIsWritten, ClaimHasABuild, NoDanglingRow,
       NoSession, NoTask

\* What decrement_chain does to the edges.
LEMMA Decremented ==
    ASSUME BackendTypes, NEW k \in BsKeys, DecrementChain(k)
    PROVE  /\ bsEdge' \in [BsKeys -> [refs : Nat, net : Nat]]
           /\ \A q \in BsKeys : bsEdge'[q].net = bsEdge[q].net
           /\ \A q \in BsKeys : q # k => bsEdge'[q] = bsEdge[q]
           /\ bsEdge'[k].refs = IF bsEdge[k].refs = 0 THEN 0 ELSE bsEdge[k].refs - 1
  BY DEF DecrementChain, BackendTypes

\* increment_chain on a live edge, or a fresh edge: one reference more.
LEMMA Taken ==
    ASSUME BackendTypes, NEW k \in BsKeys, Take(k)
    PROVE  /\ bsEdge' \in [BsKeys -> [refs : Nat, net : Nat]]
           /\ bsNets' \in Nat
           /\ \A q \in BsKeys : bsEdge'[q].net \in 0..bsNets'
           /\ \A q \in BsKeys : q # k => bsEdge'[q] = bsEdge[q]
           /\ bsEdge'[k].refs = bsEdge[k].refs + 1
  <1>1. CASE bsEdge[k].refs > 0
    BY <1>1 DEF Take, BackendTypes
  <1>2. CASE ~(bsEdge[k].refs > 0)
    <2>1. /\ bsEdge \in [BsKeys -> [refs : Nat, net : Nat]] /\ bsNets \in Nat
          /\ \A q \in BsKeys : bsEdge[q].net \in 0..bsNets
      BY DEF BackendTypes
    <2>2. /\ bsEdge' = [bsEdge EXCEPT ![k] = [refs |-> 1, net |-> bsNets + 1]]
          /\ bsNets' = bsNets + 1
      BY <1>2 DEF Take
    <2>3. [refs |-> 1, net |-> bsNets + 1] \in [refs : Nat, net : Nat] /\ bsEdge[k].refs = 0
      BY <1>2, <2>1
    <2>4. bsEdge' \in [BsKeys -> [refs : Nat, net : Nat]] /\ bsNets' \in Nat
      BY <2>1, <2>2, <2>3
    <2>5. /\ bsEdge'[k].refs = 1 /\ bsEdge'[k].net = bsNets + 1
          /\ \A q \in BsKeys : q # k => bsEdge'[q] = bsEdge[q]
      BY <2>1, <2>2
    <2>6. \A q \in BsKeys : bsEdge'[q].net \in 0..bsNets'
      BY <2>1, <2>2, <2>5
    <2>. QED BY <2>3, <2>4, <2>5, <2>6
  <1>. QED BY <1>1, <1>2

\* The two ways of accounting for a decrement_chain.
LEMMA Spent ==
    ASSUME BackendTypes, NEW k \in BsKeys, SpendOwn(k) \/ SpendOthers(k)
    PROVE  /\ bsEdge' \in [BsKeys -> [refs : Nat, net : Nat]] /\ bsDebt' \in [BsKeys -> Int]
           /\ \A q \in BsKeys : bsEdge'[q].net = bsEdge[q].net
           /\ \A q \in BsKeys : q # k => bsEdge'[q] = bsEdge[q] /\ bsDebt'[q] = bsDebt[q]
           /\ SpendOwn(k) => bsEdge'[k].refs + bsDebt'[k] = bsEdge[k].refs + bsDebt[k] - 1
           /\ SpendOthers(k) => bsEdge'[k].refs + bsDebt'[k] = bsEdge[k].refs + bsDebt[k]
  <1>1. DecrementChain(k) /\ bsEdge[k].refs \in Nat
    BY DEF SpendOwn, SpendOthers, BackendTypes
  <1>2. /\ bsDebt' \in [BsKeys -> Int]
        /\ \A q \in BsKeys : q # k => bsDebt'[q] = bsDebt[q]
        /\ SpendOwn(k) => bsDebt'[k] = IF bsEdge[k].refs = 0 THEN bsDebt[k] - 1 ELSE bsDebt[k]
        /\ SpendOthers(k) => bsDebt'[k] = IF bsEdge[k].refs = 0 THEN bsDebt[k] ELSE bsDebt[k] + 1
    BY <1>1 DEF SpendOwn, SpendOthers, BackendTypes
  <1>3. bsEdge'[k].refs = IF bsEdge[k].refs = 0 THEN 0 ELSE bsEdge[k].refs - 1
    BY <1>1, Decremented
  <1>4. bsDebt[k] \in Int
    BY DEF BackendTypes
  <1>5. SpendOwn(k) => bsEdge'[k].refs + bsDebt'[k] = bsEdge[k].refs + bsDebt[k] - 1
    BY <1>1, <1>2, <1>3, <1>4
  <1>6. SpendOthers(k) => bsEdge'[k].refs + bsDebt'[k] = bsEdge[k].refs + bsDebt[k]
    BY <1>1, <1>2, <1>3, <1>4
  <1>. QED BY <1>1, <1>2, <1>5, <1>6, Decremented

\* What is left alone of the builds when nobody takes or hands over a
\* reference.
LEMMA TakenUnchanged ==
    ASSUME BackendTypes, bsTask' \in [BsGens -> TaskRecord],
           \A g \in BsGens : \/ bsTask'[g] = bsTask[g]
                             \/ bsTask[g].st # "taken" /\ bsTask'[g].st # "taken"
    PROVE  \A k \in BsKeys : TasksOf(k, {"taken"})' = TasksOf(k, {"taken"})
  BY DEF TasksOf

\* A session keeps its type when a report, a debounce, its build or its row
\* changes one field of it.
LEMMA SessionFields ==
    ASSUME NEW r \in SessionRecord
    PROVE  /\ \A v \in {"no", "yes", "due"} : [r EXCEPT !.idle = v] \in SessionRecord
           /\ [r EXCEPT !.building = FALSE] \in SessionRecord
           /\ \A g \in BsGens : [r EXCEPT !.row = g] \in SessionRecord
  BY DEF SessionRecord

\* A session of the table replaced by another one.
LEMMA SessionReplaced ==
    ASSUME NEW f \in [BsKeys -> SessionRecord], NEW k \in BsKeys, NEW r \in SessionRecord
    PROVE  [f EXCEPT ![k] = r] \in [BsKeys -> SessionRecord]
  OBVIOUS

\* The terms of the count of a key.
LEMMA CountTypes ==
    ASSUME BackendTypes, NEW q \in BsKeys
    PROVE  /\ bsEdge[q].refs \in Nat /\ bsDebt[q] \in Int /\ bsIngress[q] \in Nat
           /\ Held(q) \in {0, 1} /\ Cardinality(TasksOf(q, {"taken"})) \in Nat
  BY FS_CardinalityType DEF BackendTypes, Held

\* handle_backend_trigger claims a session for a build that holds nothing yet.
LEMMA TriggerStep ==
    ASSUME BackendInv, NEW k \in BsKeys, NEW g \in BsGens, Trigger(k, g)
    PROVE  BackendInv'
  <1> USE BsAssumption DEF BackendInv
  <1>1. /\ bsSess' \in [BsKeys -> SessionRecord] /\ bsTask' \in [BsGens -> TaskRecord]
    BY DEF Trigger, BackendTypes, SessionRecord, TaskRecord
  <1>2. \A q \in BsKeys : TasksOf(q, {"taken"})' = TasksOf(q, {"taken"})
    BY <1>1, TakenUnchanged DEF Trigger, BackendTypes, TaskRecord
  <1>3. BackendTypes'
    BY <1>1, <1>2 DEF Trigger, BackendTypes
  <1>4. SessionOfTask' /\ RowIsWritten' /\ ClaimHasABuild' /\ NoDanglingRow'
    BY <1>1 DEF Trigger, NeedsRebuild, SessionOfTask, RowIsWritten, ClaimHasABuild, NoDanglingRow, BackendTypes,
       SessionRecord, TaskRecord
  <1>5. EveryReferenceSpentOnce'
    BY <1>2 DEF Trigger, NeedsRebuild, EveryReferenceSpentOnce, Held, BackendTypes, SessionRecord
  <1>. QED BY <1>3, <1>4, <1>5

\* An ingress chain takes a reference on the same edge.
LEMMA IngressTakesStep ==
    ASSUME BackendInv, NEW k \in BsKeys, IngressTakes(k)
    PROVE  BackendInv'
  <1> USE BsAssumption DEF BackendInv
  <1>1. bsSess' \in [BsKeys -> SessionRecord] /\ bsTask' \in [BsGens -> TaskRecord]
    BY DEF IngressTakes, Take, BackendTypes, SessionRecord, TaskRecord, NoSession
  <1>2. \A q \in BsKeys : TasksOf(q, {"taken"})' = TasksOf(q, {"taken"})
    BY <1>1, TakenUnchanged DEF IngressTakes, Take, BackendTypes, TaskRecord
  <1>3. BackendTypes'
    BY <1>1, <1>2, Taken DEF IngressTakes, BackendTypes
  <1>4. SessionOfTask' /\ RowIsWritten' /\ ClaimHasABuild' /\ NoDanglingRow'
    BY <1>1 DEF IngressTakes, Take, SessionOfTask, RowIsWritten, ClaimHasABuild, NoDanglingRow, BackendTypes,
       SessionRecord, TaskRecord, NoSession
  <1>5. EveryReferenceSpentOnce'
    <2> SUFFICES ASSUME NEW q \in BsKeys
                 PROVE  (bsEdge[q].refs + bsDebt[q] = Held(q) + Cardinality(TasksOf(q, {"taken"})) + bsIngress[q])'
      BY DEF EveryReferenceSpentOnce
    <2>1. bsEdge[q].refs + bsDebt[q] = Held(q) + Cardinality(TasksOf(q, {"taken"})) + bsIngress[q]
      BY DEF EveryReferenceSpentOnce
    <2>2. CASE q # k
      <3>1. bsEdge'[q] = bsEdge[q] /\ bsDebt'[q] = bsDebt[q] /\ bsIngress'[q] = bsIngress[q] /\ Held(q)' = Held(q)
        BY <2>2 DEF IngressTakes, Take, BackendTypes, Held
      <3>. QED BY <1>2, <2>1, <3>1
    <2>3. CASE q = k
      <3>1. /\ bsEdge'[k].refs = bsEdge[k].refs + 1 /\ bsDebt'[k] = bsDebt[k]
            /\ bsIngress'[k] = bsIngress[k] + 1 /\ Held(k)' = Held(k)
        BY <2>3, CountTypes DEF IngressTakes, Take, BackendTypes, Held
      <3>. QED BY <1>2, <2>1, <2>3, <3>1, CountTypes
    <2>. QED BY <2>2, <2>3
  <1>. QED BY <1>3, <1>4, <1>5

\* An ingress chain gives its reference back.
LEMMA IngressReleasesStep ==
    ASSUME BackendInv, NEW k \in BsKeys, IngressReleases(k)
    PROVE  BackendInv'
  <1> USE BsAssumption DEF BackendInv
  <1>1. bsSess' \in [BsKeys -> SessionRecord] /\ bsTask' \in [BsGens -> TaskRecord]
    BY DEF IngressReleases, SpendOwn, DecrementChain, BackendTypes, SessionRecord, TaskRecord, NoSession
  <1>2. \A q \in BsKeys : TasksOf(q, {"taken"})' = TasksOf(q, {"taken"})
    BY <1>1, TakenUnchanged DEF IngressReleases, SpendOwn, DecrementChain, BackendTypes, TaskRecord
  <1>3. BackendTypes'
    BY <1>1, <1>2 DEF IngressReleases, SpendOwn, DecrementChain, BackendTypes
  <1>4. SessionOfTask' /\ RowIsWritten' /\ ClaimHasABuild' /\ NoDanglingRow'
    BY <1>1 DEF IngressReleases, SpendOwn, DecrementChain, SessionOfTask, RowIsWritten, ClaimHasABuild, NoDanglingRow, BackendTypes,
       SessionRecord, TaskRecord, NoSession
  <1>5. EveryReferenceSpentOnce'
    <2> SUFFICES ASSUME NEW q \in BsKeys
                 PROVE  (bsEdge[q].refs + bsDebt[q] = Held(q) + Cardinality(TasksOf(q, {"taken"})) + bsIngress[q])'
      BY DEF EveryReferenceSpentOnce
    <2>1. bsEdge[q].refs + bsDebt[q] = Held(q) + Cardinality(TasksOf(q, {"taken"})) + bsIngress[q]
      BY DEF EveryReferenceSpentOnce
    <2>2. CASE q # k
      <3>1. bsEdge'[q] = bsEdge[q] /\ bsDebt'[q] = bsDebt[q] /\ bsIngress'[q] = bsIngress[q] /\ Held(q)' = Held(q)
        BY <2>2 DEF IngressReleases, SpendOwn, DecrementChain, BackendTypes, Held
      <3>. QED BY <1>2, <2>1, <3>1
    <2>3. CASE q = k
      <3>1. /\ bsEdge'[k].refs + bsDebt'[k] = bsEdge[k].refs + bsDebt[k] - 1
            /\ bsIngress'[k] = bsIngress[k] - 1 /\ Held(k)' = Held(k)
        BY <2>3, CountTypes DEF IngressReleases, SpendOwn, DecrementChain, BackendTypes, Held
      <3>. QED BY <1>2, <2>1, <2>3, <3>1, CountTypes
    <2>. QED BY <2>2, <2>3
  <1>. QED BY <1>3, <1>4, <1>5

\* A build that fails held nothing, and takes its claim with it.
LEMMA BuildFailsStep ==
    ASSUME BackendInv, NEW g \in BsGens, BuildFails(g)
    PROVE  BackendInv'
  <1> USE BsAssumption DEF BackendInv
  <1>1. bsSess' \in [BsKeys -> SessionRecord] /\ bsTask' \in [BsGens -> TaskRecord]
    <2>1. bsSess \in [BsKeys -> SessionRecord] /\ bsTask \in [BsGens -> TaskRecord]
      BY DEF BackendTypes
    <2>2. NoSession \in SessionRecord
      BY DEF NoSession, SessionRecord
    <2>3. bsSess' \in [BsKeys -> SessionRecord]
      BY <2>1, <2>2 DEF BuildFails, CancelSession
    <2>4. bsTask' = [bsTask EXCEPT ![g].st = "done"]
      BY DEF BuildFails
    <2>5. bsTask' \in [BsGens -> TaskRecord]
      BY <2>1, <2>4 DEF TaskRecord
    <2>. QED BY <2>3, <2>5
  <1>2. \A q \in BsKeys : TasksOf(q, {"taken"})' = TasksOf(q, {"taken"})
    BY <1>1, TakenUnchanged DEF BuildFails, CancelSession, BackendTypes, TaskRecord
  <1>3. BackendTypes'
    BY <1>1, <1>2 DEF BuildFails, CancelSession, BackendTypes
  <1>4. SessionOfTask' /\ RowIsWritten' /\ ClaimHasABuild' /\ NoDanglingRow'
    BY <1>1 DEF BuildFails, CancelSession, SessionOfTask, RowIsWritten, ClaimHasABuild, NoDanglingRow, BackendTypes,
       SessionRecord, TaskRecord, NoSession
  <1>5. EveryReferenceSpentOnce'
    <2>1. \A q \in BsKeys : Held(q)' = Held(q)
      BY DEF BuildFails, CancelSession, Held, BackendTypes, SessionOfTask, NoSession, TaskRecord
    <2>. QED BY <1>2, <2>1 DEF BuildFails, CancelSession, EveryReferenceSpentOnce
  <1>. QED BY <1>3, <1>4, <1>5

\* persist_backend_session writes the row; its writer still has it.
LEMMA OpenRowStep ==
    ASSUME BackendInv, NEW g \in BsGens, OpenRow(g)
    PROVE  BackendInv'
  <1> USE BsAssumption DEF BackendInv
  <1>1. bsSess' \in [BsKeys -> SessionRecord] /\ bsTask' \in [BsGens -> TaskRecord]
    <2>1. bsSess \in [BsKeys -> SessionRecord] /\ bsTask \in [BsGens -> TaskRecord]
      BY DEF BackendTypes
    <2>2. bsSess' = bsSess /\ bsTask' = [bsTask EXCEPT ![g].st = "opened"]
      BY DEF OpenRow
    <2>3. bsTask' \in [BsGens -> TaskRecord]
      BY <2>1, <2>2 DEF TaskRecord
    <2>. QED BY <2>1, <2>2, <2>3
  <1>2. \A q \in BsKeys : TasksOf(q, {"taken"})' = TasksOf(q, {"taken"})
    BY <1>1, TakenUnchanged DEF OpenRow, BackendTypes, TaskRecord
  <1>3. BackendTypes'
    BY <1>1, <1>2 DEF OpenRow, BackendTypes
  <1>4. SessionOfTask' /\ RowIsWritten' /\ ClaimHasABuild' /\ NoDanglingRow'
    BY <1>1 DEF OpenRow, SessionOfTask, RowIsWritten, ClaimHasABuild, NoDanglingRow, BackendTypes,
       SessionRecord, TaskRecord, NoSession
  <1>5. EveryReferenceSpentOnce'
    <2>1. \A q \in BsKeys : Held(q)' = Held(q)
      BY DEF OpenRow, Held, BackendTypes
    <2>. QED BY <1>2, <2>1 DEF OpenRow, EveryReferenceSpentOnce
  <1>. QED BY <1>3, <1>4, <1>5

\* The row goes to the session of its generation, or its close is on the way.
LEMMA RecordRowStep ==
    ASSUME BackendInv, NEW g \in BsGens, RecordRow(g)
    PROVE  BackendInv'
  <1> USE BsAssumption DEF BackendInv
  <1>1. bsSess' \in [BsKeys -> SessionRecord] /\ bsTask' \in [BsGens -> TaskRecord]
    <2>1. bsTask' \in [BsGens -> TaskRecord] /\ bsTask[g].key \in BsKeys
      BY DEF RecordRow, BackendTypes, TaskRecord, SessionOfTask
    <2>2. CASE bsSess' = bsSess
      BY <2>1, <2>2 DEF BackendTypes
    <2>3. CASE bsSess' = [bsSess EXCEPT ![bsTask[g].key].row = g]
      <3> DEFINE k == bsTask[g].key
                 r == [bsSess[k] EXCEPT !.row = g]
      <3>1. bsSess' = [bsSess EXCEPT ![k] = r]
        BY <2>1, <2>3 DEF BackendTypes
      <3>2. r \in SessionRecord
        BY <2>1, SessionFields DEF BackendTypes
      <3>. QED BY <2>1, <3>1, <3>2, SessionReplaced DEF BackendTypes
    <2>. QED BY <2>2, <2>3 DEF RecordRow
  <1>2. \A q \in BsKeys : TasksOf(q, {"taken"})' = TasksOf(q, {"taken"})
    BY <1>1, TakenUnchanged DEF RecordRow, BackendTypes, TaskRecord
  <1>3. BackendTypes'
    BY <1>1, <1>2 DEF RecordRow, BackendTypes
  <1>4. SessionOfTask' /\ RowIsWritten' /\ ClaimHasABuild' /\ NoDanglingRow'
    <2> DEFINE k == bsTask[g].key
    <2>1. k \in BsKeys
      BY DEF RecordRow, BackendTypes, TaskRecord, SessionOfTask
    <2>2. /\ \A q \in BsKeys : /\ bsSess'[q].gen = bsSess[q].gen
                               /\ bsSess'[q].building = bsSess[q].building
                               /\ q # k \/ bsSess[q].gen # g => bsSess'[q].row = bsSess[q].row
          /\ bsSess[k].gen = g => bsSess'[k].row = g
          /\ bsSess[k].gen # g => g \in bsClosing'
          /\ bsClosing \subseteq bsClosing' /\ bsRows' = bsRows
      BY <2>1 DEF RecordRow, BackendTypes, SessionRecord
    <2>3. /\ bsTask'[g].st = "done" /\ bsTask'[g].key = k /\ bsTask[g].st = "opened" /\ bsTask[g].key = k
          /\ \A h \in BsGens : h # g => bsTask'[h] = bsTask[h]
      BY DEF RecordRow, BackendTypes, TaskRecord
    <2> HIDE DEF k
    <2>4a. SessionOfTask'
      <3>1. ASSUME NEW q \in BsKeys, bsSess'[q].gen = 0 PROVE ~bsSess'[q].building
        BY <2>2, <3>1 DEF SessionOfTask
      <3>2. ASSUME NEW q \in BsKeys, bsSess'[q].gen # 0
            PROVE  /\ bsTask'[bsSess'[q].gen].key = q
                   /\ bsTask'[bsSess'[q].gen].st # "none"
                   /\ bsTask'[bsSess'[q].gen].st \in {"building", "taken"} => bsSess'[q].building
        <4>1. bsSess[q].gen \in BsGens /\ bsSess'[q].gen = bsSess[q].gen
          BY <2>2, <3>2 DEF BackendTypes, SessionRecord
        <4>2. /\ bsTask[bsSess[q].gen].key = q /\ bsTask[bsSess[q].gen].st # "none"
              /\ bsTask[bsSess[q].gen].st \in {"building", "taken"} => bsSess[q].building
          BY <3>2, <4>1 DEF SessionOfTask
        <4>3. CASE bsSess[q].gen = g
          BY <2>3, <4>1, <4>2, <4>3
        <4>4. CASE bsSess[q].gen # g
          BY <2>2, <2>3, <4>1, <4>2, <4>4
        <4>. QED BY <4>3, <4>4
      <3>3. \A h \in BsGens : bsTask'[h].st # "none" => bsTask'[h].key \in BsKeys
        BY <2>1, <2>3 DEF SessionOfTask
      <3>. QED BY <3>1, <3>2, <3>3 DEF SessionOfTask
    <2>4b. RowIsWritten'
      BY <1>1, <2>1, <2>2, <2>3 DEF RowIsWritten, BackendTypes, SessionRecord
    <2>4c. ClaimHasABuild'
      <3> SUFFICES ASSUME NEW q \in BsKeys, bsSess'[q].building
                   PROVE  bsTask'[bsSess'[q].gen].st \in {"building", "taken"}
        BY DEF ClaimHasABuild
      <3>1. bsSess[q].building /\ bsSess'[q].gen = bsSess[q].gen /\ bsSess[q].gen # 0
        BY <2>2 DEF SessionOfTask
      <3>2. bsSess[q].gen \in BsGens /\ bsTask[bsSess[q].gen].st \in {"building", "taken"}
        BY <3>1 DEF BackendTypes, SessionRecord, ClaimHasABuild
      <3>. QED BY <2>3, <3>1, <3>2
    <2>5. NoDanglingRow'
      <3> SUFFICES ASSUME NEW h \in bsRows'
                   PROVE  \/ \E q \in BsKeys : bsSess'[q].gen = h /\ bsSess'[q].row = h
                          \/ bsTask'[h].st = "opened"
                          \/ h \in bsClosing'
        BY DEF NoDanglingRow
      <3>1. h \in bsRows /\ h \in BsGens
        BY <2>2 DEF BackendTypes
      <3>2. CASE h = g
        BY <2>1, <2>2, <3>2
      <3>3. CASE h # g
        <4>1. CASE \E q \in BsKeys : bsSess[q].gen = h /\ bsSess[q].row = h
          <5>1. PICK q \in BsKeys : bsSess[q].gen = h /\ bsSess[q].row = h
            BY <4>1
          <5>2. bsSess'[q].gen = h /\ bsSess'[q].row = h
            BY <2>2, <3>3, <5>1
          <5>. QED BY <5>2
        <4>2. CASE bsTask[h].st = "opened"
          BY <2>3, <3>1, <3>3, <4>2
        <4>3. CASE h \in bsClosing
          BY <2>2, <4>3
        <4>. QED BY <3>1, <4>1, <4>2, <4>3 DEF NoDanglingRow
      <3>. QED BY <3>2, <3>3
    <2>. QED BY <2>4a, <2>4b, <2>4c, <2>5
  <1>5. EveryReferenceSpentOnce'
    <2>1. \A q \in BsKeys : Held(q)' = Held(q)
      <3>1. \A q \in BsKeys : bsSess'[q].gen = bsSess[q].gen /\ bsSess'[q].building = bsSess[q].building
        BY DEF RecordRow, BackendTypes, SessionRecord
      <3>. QED BY <3>1 DEF Held
    <2>. QED BY <1>2, <2>1 DEF RecordRow, EveryReferenceSpentOnce
  <1>. QED BY <1>3, <1>4, <1>5

\* close_backend.
LEMMA CloseRowStep ==
    ASSUME BackendInv, NEW g \in BsGens, CloseRow(g)
    PROVE  BackendInv'
  <1> USE BsAssumption DEF BackendInv
  <1>1. bsSess' \in [BsKeys -> SessionRecord] /\ bsTask' \in [BsGens -> TaskRecord]
    BY DEF CloseRow, BackendTypes, SessionRecord, TaskRecord, NoSession
  <1>2. \A q \in BsKeys : TasksOf(q, {"taken"})' = TasksOf(q, {"taken"})
    BY <1>1, TakenUnchanged DEF CloseRow, BackendTypes, TaskRecord
  <1>3. BackendTypes'
    BY <1>1, <1>2 DEF CloseRow, BackendTypes
  <1>4. SessionOfTask' /\ RowIsWritten' /\ ClaimHasABuild' /\ NoDanglingRow'
    BY <1>1 DEF CloseRow, SessionOfTask, RowIsWritten, ClaimHasABuild, NoDanglingRow, BackendTypes,
       SessionRecord, TaskRecord, NoSession
  <1>5. EveryReferenceSpentOnce'
    <2>1. \A q \in BsKeys : Held(q)' = Held(q)
      BY DEF CloseRow, Held, BackendTypes
    <2>. QED BY <1>2, <2>1 DEF CloseRow, EveryReferenceSpentOnce
  <1>. QED BY <1>3, <1>4, <1>5

\* set_backend_liveness changes when a session is idle and nothing else.
LEMMA ReportStep ==
    ASSUME BackendInv, NEW k \in BsKeys, NEW active \in BOOLEAN, Report(k, active)
    PROVE  BackendInv'
  <1> USE BsAssumption DEF BackendInv
  <1>1. bsSess' \in [BsKeys -> SessionRecord] /\ bsTask' \in [BsGens -> TaskRecord]
    <2>1. PICK v \in {"no", "yes", "due"} : bsSess' = [bsSess EXCEPT ![k].idle = v]
      BY DEF Report, BackendTypes
    <2> DEFINE r == [bsSess[k] EXCEPT !.idle = v]
    <2>2. bsSess' = [bsSess EXCEPT ![k] = r] /\ r \in SessionRecord
      BY <2>1, SessionFields DEF BackendTypes
    <2> HIDE DEF r
    <2>. QED BY <2>2, SessionReplaced DEF Report, BackendTypes
  <1>2. \A q \in BsKeys : TasksOf(q, {"taken"})' = TasksOf(q, {"taken"})
    BY <1>1, TakenUnchanged DEF Report, BackendTypes, TaskRecord
  <1>3. BackendTypes'
    BY <1>1, <1>2 DEF Report, BackendTypes
  <1>4. SessionOfTask' /\ RowIsWritten' /\ ClaimHasABuild' /\ NoDanglingRow'
    BY <1>1 DEF Report, SessionOfTask, RowIsWritten, ClaimHasABuild, NoDanglingRow, BackendTypes,
       SessionRecord, TaskRecord, NoSession
  <1>5. EveryReferenceSpentOnce'
    <2>1. \A q \in BsKeys : Held(q)' = Held(q)
      BY DEF Report, Held, BackendTypes
    <2>. QED BY <1>2, <2>1 DEF Report, EveryReferenceSpentOnce
  <1>. QED BY <1>3, <1>4, <1>5

\* So does the passing of LIVENESS_REAP_DEBOUNCE.
LEMMA DebouncePassesStep ==
    ASSUME BackendInv, NEW k \in BsKeys, DebouncePasses(k)
    PROVE  BackendInv'
  <1> USE BsAssumption DEF BackendInv
  <1>1. bsSess' \in [BsKeys -> SessionRecord] /\ bsTask' \in [BsGens -> TaskRecord]
    <2> DEFINE r == [bsSess[k] EXCEPT !.idle = "due"]
    <2>1. bsSess' = [bsSess EXCEPT ![k] = r] /\ r \in SessionRecord
      BY SessionFields DEF DebouncePasses, BackendTypes
    <2>. QED BY <2>1, SessionReplaced DEF DebouncePasses, BackendTypes
  <1>2. \A q \in BsKeys : TasksOf(q, {"taken"})' = TasksOf(q, {"taken"})
    BY <1>1, TakenUnchanged DEF DebouncePasses, BackendTypes, TaskRecord
  <1>3. BackendTypes'
    BY <1>1, <1>2 DEF DebouncePasses, BackendTypes
  <1>4. SessionOfTask' /\ RowIsWritten' /\ ClaimHasABuild' /\ NoDanglingRow'
    BY <1>1 DEF DebouncePasses, SessionOfTask, RowIsWritten, ClaimHasABuild, NoDanglingRow, BackendTypes,
       SessionRecord, TaskRecord, NoSession
  <1>5. EveryReferenceSpentOnce'
    <2>1. \A q \in BsKeys : Held(q)' = Held(q)
      BY DEF DebouncePasses, Held, BackendTypes
    <2>. QED BY <1>2, <2>1 DEF DebouncePasses, EveryReferenceSpentOnce
  <1>. QED BY <1>3, <1>4, <1>5

\* reap_idle_backend_chains: the session leaves the table and its reference is spent.
LEMMA ReapStep ==
    ASSUME BackendInv, NEW k \in BsKeys, Reap(k)
    PROVE  BackendInv'
  <1> USE BsAssumption DEF BackendInv
  <1>1. bsSess' \in [BsKeys -> SessionRecord] /\ bsTask' \in [BsGens -> TaskRecord]
    BY DEF Reap, Due, Row, SpendOwn, DecrementChain, BackendTypes, SessionRecord, TaskRecord, NoSession
  <1>2. \A q \in BsKeys : TasksOf(q, {"taken"})' = TasksOf(q, {"taken"})
    BY <1>1, TakenUnchanged DEF Reap, Due, Row, SpendOwn, DecrementChain, BackendTypes, TaskRecord
  <1>3. BackendTypes'
    BY <1>1, <1>2 DEF Reap, Due, Row, SpendOwn, DecrementChain, BackendTypes, SessionRecord
  <1>4. SessionOfTask' /\ RowIsWritten' /\ ClaimHasABuild' /\ NoDanglingRow'
    BY <1>1 DEF Reap, Due, Row, SpendOwn, DecrementChain, SessionOfTask, RowIsWritten, ClaimHasABuild, NoDanglingRow, BackendTypes,
       SessionRecord, TaskRecord, NoSession
  <1>5. EveryReferenceSpentOnce'
    <2> SUFFICES ASSUME NEW q \in BsKeys
                 PROVE  (bsEdge[q].refs + bsDebt[q] = Held(q) + Cardinality(TasksOf(q, {"taken"})) + bsIngress[q])'
      BY DEF EveryReferenceSpentOnce
    <2>1. bsEdge[q].refs + bsDebt[q] = Held(q) + Cardinality(TasksOf(q, {"taken"})) + bsIngress[q]
      BY DEF EveryReferenceSpentOnce
    <2>2. CASE q # k
      <3>1. bsEdge'[q] = bsEdge[q] /\ bsDebt'[q] = bsDebt[q] /\ bsIngress'[q] = bsIngress[q] /\ Held(q)' = Held(q)
        BY <2>2 DEF Reap, Due, Row, SpendOwn, DecrementChain, BackendTypes, Held, NoSession
      <3>. QED BY <1>2, <2>1, <3>1
    <2>3. CASE q = k
      <3>1. /\ bsEdge'[k].refs + bsDebt'[k] = bsEdge[k].refs + bsDebt[k] - 1
            /\ bsIngress'[k] = bsIngress[k] /\ Held(k)' = 0 /\ Held(k) = 1
        BY <2>3, CountTypes DEF Reap, Due, Row, SpendOwn, DecrementChain, BackendTypes, Held, NoSession
      <3>. QED BY <1>2, <2>1, <2>3, <3>1, CountTypes
    <2>. QED BY <2>2, <2>3
  <1>. QED BY <1>3, <1>4, <1>5

\* teardown_backend_chain: a build keeps its reference to unwind, a session spends
\* its own, and without either the decrement is a debt.
LEMMA TeardownStep ==
    ASSUME BackendInv, NEW k \in BsKeys, Teardown(k)
    PROVE  BackendInv'
  <1> USE BsAssumption DEF BackendInv
  <1>1. bsSess' \in [BsKeys -> SessionRecord] /\ bsTask' \in [BsGens -> TaskRecord]
    BY DEF Teardown, Row, SpendOwn, SpendOthers, DecrementChain, BackendTypes, SessionRecord, TaskRecord, NoSession
  <1>2. \A q \in BsKeys : TasksOf(q, {"taken"})' = TasksOf(q, {"taken"})
    BY <1>1, TakenUnchanged DEF Teardown, Row, SpendOwn, SpendOthers, DecrementChain, BackendTypes, TaskRecord
  <1>3. BackendTypes'
    <2>1. /\ bsEdge' \in [BsKeys -> [refs : Nat, net : Nat]] /\ bsDebt' \in [BsKeys -> Int]
          /\ \A q \in BsKeys : bsEdge'[q].net = bsEdge[q].net
      BY Spent DEF Teardown, BackendTypes
    <2>3. Row(k) \subseteq BsGens
      BY DEF Row, BackendTypes, SessionRecord
    <2>. QED BY <1>1, <1>2, <2>1, <2>3 DEF Teardown, BackendTypes
  <1>4. SessionOfTask' /\ RowIsWritten' /\ ClaimHasABuild' /\ NoDanglingRow'
    BY <1>1 DEF Teardown, Row, SpendOwn, SpendOthers, DecrementChain, SessionOfTask, RowIsWritten, ClaimHasABuild, NoDanglingRow, BackendTypes,
       SessionRecord, TaskRecord, NoSession
  <1>5. EveryReferenceSpentOnce'
    <2> SUFFICES ASSUME NEW q \in BsKeys
                 PROVE  (bsEdge[q].refs + bsDebt[q] = Held(q) + Cardinality(TasksOf(q, {"taken"})) + bsIngress[q])'
      BY DEF EveryReferenceSpentOnce
    <2>1. bsEdge[q].refs + bsDebt[q] = Held(q) + Cardinality(TasksOf(q, {"taken"})) + bsIngress[q]
      BY DEF EveryReferenceSpentOnce
    <2>2. CASE q # k
      <3>1. bsEdge'[q] = bsEdge[q] /\ bsDebt'[q] = bsDebt[q] /\ bsIngress'[q] = bsIngress[q] /\ Held(q)' = Held(q)
        BY <2>2 DEF Teardown, Row, SpendOwn, SpendOthers, DecrementChain, BackendTypes, Held, NoSession
      <3>. QED BY <1>2, <2>1, <3>1
    <2>3. CASE q = k
      <3>1. bsEdge'[k].refs + bsDebt'[k] - Held(k)' = bsEdge[k].refs + bsDebt[k] - Held(k)
            /\ bsIngress'[k] = bsIngress[k] /\ Held(k)' = 0
            /\ bsEdge'[k].refs \in Int /\ bsDebt'[k] \in Int
        <4>1. Held(k)' = 0 /\ bsIngress'[k] = bsIngress[k]
          BY DEF Teardown, BackendTypes, Held, NoSession
        <4>2. CASE bsSess[k].building /\ UNCHANGED <<bsEdge, bsDebt>>
          BY <4>1, <4>2, CountTypes DEF Held
        <4>3. CASE ~bsSess[k].building /\ bsSess[k].gen # 0 /\ SpendOwn(k)
          BY <4>1, <4>3, Spent, CountTypes DEF Held
        <4>4. CASE bsSess[k].gen = 0 /\ SpendOthers(k)
          BY <4>1, <4>4, Spent, CountTypes DEF Held
        <4>. QED BY <4>2, <4>3, <4>4 DEF Teardown
      <3>. QED BY <1>2, <2>1, <2>3, <3>1, CountTypes
    <2>. QED BY <2>2, <2>3
  <1>. QED BY <1>3, <1>4, <1>5

\* A build that has its reference joins the ones that have not handed theirs over.
LEMMA EdgeBuiltStep ==
    ASSUME BackendInv, NEW g \in BsGens, EdgeBuilt(g)
    PROVE  BackendInv'
  <1> USE BsAssumption DEF BackendInv
  <1>0. PICK k \in BsKeys : bsTask[g].key = k
    BY DEF EdgeBuilt, SessionOfTask
  <1>1. k \in BsKeys /\ Take(k) /\ bsTask[g].st = "building"
    BY <1>0 DEF EdgeBuilt
  <1>2. /\ bsEdge' \in [BsKeys -> [refs : Nat, net : Nat]] /\ bsNets' \in Nat
        /\ \A q \in BsKeys : bsEdge'[q].net \in 0..bsNets'
        /\ \A q \in BsKeys : q # k => bsEdge'[q] = bsEdge[q]
        /\ bsEdge'[k].refs = bsEdge[k].refs + 1
    BY <1>1, Taken
  <1>3. bsEdge'[k].net \in Nat
    BY <1>1, <1>2
  <1>4. ASSUME NEW t \in TaskRecord, NEW n \in Nat
        PROVE  LET u == [t EXCEPT !.st = "taken", !.net = n]
               IN  u \in TaskRecord /\ u.st = "taken" /\ u.key = t.key
    BY DEF TaskRecord
  <1>5. /\ bsTask' \in [BsGens -> TaskRecord]
        /\ bsTask'[g].st = "taken" /\ bsTask'[g].key = k
        /\ \A h \in BsGens : h # g => bsTask'[h] = bsTask[h]
    <2> DEFINE u == [bsTask[g] EXCEPT !.st = "taken", !.net = bsEdge'[k].net]
    <2>1. bsTask[g] \in TaskRecord /\ bsTask[g].key = k
      BY <1>0 DEF BackendTypes
    <2>2. u \in TaskRecord /\ u.st = "taken" /\ u.key = k
      BY <1>3, <1>4, <2>1
    <2>3. bsTask' = [bsTask EXCEPT ![g] = u]
      BY <1>0 DEF EdgeBuilt, BackendTypes
    <2> HIDE DEF u
    <2>. QED BY <2>2, <2>3 DEF BackendTypes
  <1>6. bsSess' = bsSess /\ bsIngress' = bsIngress /\ bsRows' = bsRows /\ bsClosing' = bsClosing /\ bsDebt' = bsDebt
    BY DEF EdgeBuilt
  <1>8. /\ \A q \in BsKeys : q # k => TasksOf(q, {"taken"})' = TasksOf(q, {"taken"})
        /\ TasksOf(k, {"taken"})' = TasksOf(k, {"taken"}) \cup {g}
        /\ g \notin TasksOf(k, {"taken"})
    BY <1>1, <1>5, <1>0 DEF TasksOf
  <1>9. IsFiniteSet(TasksOf(k, {"taken"}))
    BY <1>1 DEF BackendTypes
  <1>10. /\ IsFiniteSet(TasksOf(k, {"taken"})')
         /\ Cardinality(TasksOf(k, {"taken"})') = Cardinality(TasksOf(k, {"taken"})) + 1
    BY <1>8, <1>9, FS_AddElement
  <1>11. \A q \in BsKeys : IsFiniteSet(TasksOf(q, {"taken"})')
    <2> SUFFICES ASSUME NEW q \in BsKeys PROVE IsFiniteSet(TasksOf(q, {"taken"})')
      OBVIOUS
    <2>1. IsFiniteSet(TasksOf(q, {"taken"}))
      BY DEF BackendTypes
    <2>. QED BY <1>8, <1>10, <2>1
  <1>12. BackendTypes'
    BY <1>2, <1>5, <1>6, <1>11 DEF BackendTypes
  <1>13. SessionOfTask' /\ RowIsWritten' /\ ClaimHasABuild' /\ NoDanglingRow'
    <2>1. \A q \in BsKeys : bsSess[q].gen # 0 => bsSess[q].gen \in BsGens
      BY DEF BackendTypes, SessionRecord
    <2>2. SessionOfTask'
      <3>1. ASSUME NEW q \in BsKeys, bsSess[q].gen # 0
            PROVE  /\ bsTask'[bsSess[q].gen].key = q
                   /\ bsTask'[bsSess[q].gen].st # "none"
                   /\ bsTask'[bsSess[q].gen].st \in {"building", "taken"} => bsSess[q].building
        <4>1. CASE bsSess[q].gen = g
          BY <1>0, <1>1, <1>5, <3>1, <4>1 DEF SessionOfTask
        <4>2. CASE bsSess[q].gen # g
          BY <1>5, <2>1, <3>1, <4>2 DEF SessionOfTask
        <4>. QED BY <4>1, <4>2
      <3>2. \A h \in BsGens : bsTask'[h].st # "none" => bsTask'[h].key \in BsKeys
        BY <1>0, <1>5 DEF SessionOfTask
      <3>. QED BY <1>6, <3>1, <3>2 DEF SessionOfTask
    <2>3. RowIsWritten'
      BY <1>0, <1>1, <1>5, <1>6 DEF RowIsWritten
    <2>4. ClaimHasABuild'
      BY <1>0, <1>1, <1>5, <1>6, <2>1 DEF ClaimHasABuild, SessionOfTask
    <2>5. NoDanglingRow'
      BY <1>0, <1>1, <1>5, <1>6 DEF NoDanglingRow, RowIsWritten, BackendTypes
    <2>. QED BY <2>2, <2>3, <2>4, <2>5
  <1>14. EveryReferenceSpentOnce'
    <2> SUFFICES ASSUME NEW q \in BsKeys
                 PROVE  (bsEdge[q].refs + bsDebt[q] = Held(q) + Cardinality(TasksOf(q, {"taken"})) + bsIngress[q])'
      BY DEF EveryReferenceSpentOnce
    <2>1. bsEdge[q].refs + bsDebt[q] = Held(q) + Cardinality(TasksOf(q, {"taken"})) + bsIngress[q]
      BY DEF EveryReferenceSpentOnce
    <2>2. Held(q)' = Held(q)
      BY <1>6 DEF Held
    <2>3. CASE q # k
      BY <1>2, <1>6, <1>8, <2>1, <2>2, <2>3
    <2>4. CASE q = k
      BY <1>2, <1>6, <1>10, <2>1, <2>2, <2>4, CountTypes
    <2>. QED BY <2>3, <2>4
  <1>. QED BY <1>12, <1>13, <1>14

\* Handing over: the build leaves the ones that hold a reference of their own,
\* and either its session holds it now or it has been spent.
LEMMA FinishStep ==
    ASSUME BackendInv, NEW g \in BsGens, Finish(g)
    PROVE  BackendInv'
  <1> USE BsAssumption DEF BackendInv
  <1>0. PICK k \in BsKeys : bsTask[g].key = k
    BY DEF Finish, SessionOfTask
  <1> DEFINE r == [bsSess[k] EXCEPT !.building = FALSE]
  <1>1. k \in BsKeys /\ bsTask[g].st = "taken" /\ bsTask[g].key = k
    BY <1>0 DEF Finish
  <1>2. PICK s \in {"finished", "done"} :
           /\ bsTask' = [bsTask EXCEPT ![g].st = s]
           /\ s = "finished" => bsSess[k].gen = g
    BY <1>0 DEF Finish, UnwindTaken
  <1>3. /\ bsTask' \in [BsGens -> TaskRecord] /\ bsTask'[g].st = s /\ bsTask'[g].key = k
        /\ \A h \in BsGens : h # g => bsTask'[h] = bsTask[h]
    BY <1>1, <1>2 DEF BackendTypes, TaskRecord
  <1>4. bsIngress' = bsIngress /\ bsNets' = bsNets /\ bsRows' = bsRows /\ bsClosing' = bsClosing
    BY DEF Finish
  <1>5. \/ /\ bsSess[k].gen = g /\ bsSess' = [bsSess EXCEPT ![k] = r]
           /\ bsEdge' = bsEdge /\ bsDebt' = bsDebt
        \/ /\ bsSess[k].gen # g /\ bsSess' = bsSess
           /\ SpendOwn(k) \/ (bsEdge' = bsEdge /\ bsDebt' = [bsDebt EXCEPT ![k] = @ - 1])
    BY <1>1 DEF Finish, UnwindTaken, BackendTypes
  <1>6. r \in SessionRecord /\ r.gen = bsSess[k].gen /\ r.row = bsSess[k].row /\ ~r.building
    <2>1. bsSess[k] \in SessionRecord
      BY <1>1 DEF BackendTypes
    <2>2. r \in SessionRecord
      BY <2>1, SessionFields
    <2>. QED BY <2>1, <2>2 DEF SessionRecord
  <1> HIDE DEF r
  <1>7. bsSess' \in [BsKeys -> SessionRecord]
    BY <1>1, <1>5, <1>6, SessionReplaced DEF BackendTypes
  <1>8. /\ \A q \in BsKeys : q # k => bsSess'[q] = bsSess[q]
        /\ \A q \in BsKeys : bsSess'[q].gen = bsSess[q].gen /\ bsSess'[q].row = bsSess[q].row
        /\ bsSess[k].gen = g => ~bsSess'[k].building
        /\ bsSess[k].gen # g => bsSess'[k] = bsSess[k]
    BY <1>1, <1>5, <1>6 DEF BackendTypes
  <1>9. /\ bsEdge' \in [BsKeys -> [refs : Nat, net : Nat]] /\ bsDebt' \in [BsKeys -> Int]
        /\ \A q \in BsKeys : bsEdge'[q].net = bsEdge[q].net
        /\ \A q \in BsKeys : q # k => bsEdge'[q] = bsEdge[q] /\ bsDebt'[q] = bsDebt[q]
        /\ bsSess[k].gen = g => bsEdge'[k] = bsEdge[k] /\ bsDebt'[k] = bsDebt[k]
        /\ bsSess[k].gen # g => bsEdge'[k].refs + bsDebt'[k] = bsEdge[k].refs + bsDebt[k] - 1
    <2>1. CASE bsSess[k].gen = g
      BY <1>5, <2>1 DEF BackendTypes
    <2>2. CASE bsSess[k].gen # g /\ SpendOwn(k)
      BY <1>1, <2>2, Spent
    <2>3. CASE bsSess[k].gen # g /\ bsEdge' = bsEdge /\ bsDebt' = [bsDebt EXCEPT ![k] = @ - 1]
      BY <1>1, <2>3 DEF BackendTypes
    <2>. QED BY <1>5, <2>1, <2>2, <2>3
  <1>10. /\ \A q \in BsKeys : q # k => TasksOf(q, {"taken"})' = TasksOf(q, {"taken"})
         /\ TasksOf(k, {"taken"})' = TasksOf(k, {"taken"}) \ {g}
         /\ g \in TasksOf(k, {"taken"})
    BY <1>1, <1>2, <1>3 DEF TasksOf
  <1>11. IsFiniteSet(TasksOf(k, {"taken"}))
    BY <1>1 DEF BackendTypes
  <1>12. /\ IsFiniteSet(TasksOf(k, {"taken"})')
         /\ Cardinality(TasksOf(k, {"taken"})') = Cardinality(TasksOf(k, {"taken"})) - 1
    BY <1>10, <1>11, FS_RemoveElement
  <1>13. \A q \in BsKeys : IsFiniteSet(TasksOf(q, {"taken"})')
    <2> SUFFICES ASSUME NEW q \in BsKeys PROVE IsFiniteSet(TasksOf(q, {"taken"})')
      OBVIOUS
    <2>1. IsFiniteSet(TasksOf(q, {"taken"}))
      BY DEF BackendTypes
    <2>. QED BY <1>10, <1>12, <2>1
  <1>14. BackendTypes'
    BY <1>3, <1>4, <1>7, <1>9, <1>13 DEF BackendTypes
  <1>15. SessionOfTask' /\ ClaimHasABuild'
    <2>1. ASSUME NEW q \in BsKeys, bsSess[q].gen = g
          PROVE  q = k /\ ~bsSess'[q].building /\ s = bsTask'[g].st
      BY <1>1, <1>3, <1>8, <2>1 DEF SessionOfTask, BackendTypes
    <2>2. ASSUME NEW q \in BsKeys, bsSess[q].gen # g
          PROVE  bsSess'[q] = bsSess[q]
      BY <1>8, <2>2
    <2>3. ASSUME NEW q \in BsKeys, bsSess[q].gen # 0, bsSess[q].gen # g
          PROVE  bsTask'[bsSess[q].gen] = bsTask[bsSess[q].gen]
      BY <1>3, <2>3 DEF BackendTypes, SessionRecord
    <2>4. SessionOfTask'
      <3>1. ASSUME NEW q \in BsKeys, bsSess'[q].gen = 0 PROVE ~bsSess'[q].building
        BY <1>8, <2>2, <3>1 DEF SessionOfTask
      <3>2. ASSUME NEW q \in BsKeys, bsSess'[q].gen # 0
            PROVE  /\ bsTask'[bsSess'[q].gen].key = q
                   /\ bsTask'[bsSess'[q].gen].st # "none"
                   /\ bsTask'[bsSess'[q].gen].st \in {"building", "taken"} => bsSess'[q].building
        <4>1. CASE bsSess[q].gen = g
          BY <1>2, <1>3, <1>8, <2>1, <4>1
        <4>2. CASE bsSess[q].gen # g
          BY <1>8, <2>2, <2>3, <3>2, <4>2 DEF SessionOfTask
        <4>. QED BY <4>1, <4>2
      <3>3. \A h \in BsGens : bsTask'[h].st # "none" => bsTask'[h].key \in BsKeys
        BY <1>1, <1>3 DEF SessionOfTask
      <3>. QED BY <3>1, <3>2, <3>3 DEF SessionOfTask
    <2>5. ClaimHasABuild'
      <3> SUFFICES ASSUME NEW q \in BsKeys, bsSess'[q].building
                   PROVE  bsTask'[bsSess'[q].gen].st \in {"building", "taken"}
        BY DEF ClaimHasABuild
      <3>1. bsSess[q].gen # g
        BY <2>1
      <3>2. bsSess'[q] = bsSess[q] /\ bsSess[q].building
        BY <2>2, <3>1
      <3>3. bsSess[q].gen # 0
        BY <3>2 DEF SessionOfTask
      <3>. QED BY <2>3, <3>1, <3>2, <3>3 DEF ClaimHasABuild
    <2>. QED BY <2>4, <2>5
  <1>16. RowIsWritten' /\ NoDanglingRow'
    <2>1. RowIsWritten'
      BY <1>1, <1>3, <1>4 DEF RowIsWritten
    <2>2. NoDanglingRow'
      <3> SUFFICES ASSUME NEW h \in bsRows'
                   PROVE  \/ \E q \in BsKeys : bsSess'[q].gen = h /\ bsSess'[q].row = h
                          \/ bsTask'[h].st = "opened"
                          \/ h \in bsClosing'
        BY DEF NoDanglingRow
      <3>1. h \in bsRows /\ h \in BsGens
        BY <1>4 DEF BackendTypes
      <3>2. h # g
        BY <1>1, <3>1 DEF RowIsWritten
      <3>3. CASE \E q \in BsKeys : bsSess[q].gen = h /\ bsSess[q].row = h
        BY <1>8, <3>3
      <3>4. CASE bsTask[h].st = "opened"
        BY <1>3, <3>1, <3>2, <3>4
      <3>5. CASE h \in bsClosing
        BY <1>4, <3>5
      <3>. QED BY <3>1, <3>3, <3>4, <3>5 DEF NoDanglingRow
    <2>. QED BY <2>1, <2>2
  <1>17. EveryReferenceSpentOnce'
    <2> SUFFICES ASSUME NEW q \in BsKeys
                 PROVE  (bsEdge[q].refs + bsDebt[q] = Held(q) + Cardinality(TasksOf(q, {"taken"})) + bsIngress[q])'
      BY DEF EveryReferenceSpentOnce
    <2>1. bsEdge[q].refs + bsDebt[q] = Held(q) + Cardinality(TasksOf(q, {"taken"})) + bsIngress[q]
      BY DEF EveryReferenceSpentOnce
    <2>2. CASE q # k
      <3>1. Held(q)' = Held(q)
        BY <1>8, <2>2 DEF Held
      <3>. QED BY <1>4, <1>9, <1>10, <2>1, <2>2, <3>1
    <2>3. CASE q = k /\ bsSess[k].gen = g
      <3>1. Held(k) = 0 /\ Held(k)' = 1
        <4>1. bsSess[k].building /\ ~bsSess'[k].building /\ bsSess'[k].gen = g /\ g # 0
          BY <1>1, <1>8, <2>3 DEF SessionOfTask
        <4>. QED BY <4>1 DEF Held
      <3>. QED BY <1>4, <1>9, <1>12, <2>1, <2>3, <3>1, CountTypes
    <2>4. CASE q = k /\ bsSess[k].gen # g
      <3>1. Held(k)' = Held(k)
        BY <1>8, <2>4 DEF Held
      <3>2. bsEdge'[k].refs \in Nat /\ bsDebt'[k] \in Int
        BY <1>1, <1>9
      <3>3. bsEdge'[k].refs + bsDebt'[k] = bsEdge[k].refs + bsDebt[k] - 1
        BY <1>9, <2>4
      <3>4. Cardinality(TasksOf(k, {"taken"})') = Cardinality(TasksOf(k, {"taken"})) - 1 /\ bsIngress'[k] = bsIngress[k]
        BY <1>4, <1>12
      <3>. QED BY <2>1, <2>4, <3>1, <3>2, <3>3, <3>4, CountTypes
    <2>. QED BY <2>2, <2>3, <2>4
  <1>. QED BY <1>14, <1>15, <1>16, <1>17

\* Every step of the table, and the steps that leave it alone.
LEMMA BackendStep == BackendInv /\ [BackendNext]_bsVars => BackendInv'
  <1> SUFFICES ASSUME BackendInv, [BackendNext]_bsVars PROVE BackendInv'
    OBVIOUS
  <1>1. CASE BackendNext
    <2>1. CASE \E k \in BsKeys, g \in BsGens : Trigger(k, g)
      BY <2>1, TriggerStep
    <2>2. CASE \E k \in BsKeys : \/ IngressTakes(k) \/ IngressReleases(k) \/ DebouncePasses(k)
                                 \/ Reap(k) \/ Teardown(k) \/ \E active \in BOOLEAN : Report(k, active)
      BY <2>2, IngressTakesStep, IngressReleasesStep, DebouncePassesStep, ReapStep, TeardownStep, ReportStep
    <2>3. CASE \E g \in BsGens : \/ BuildFails(g) \/ EdgeBuilt(g) \/ Finish(g)
                                 \/ OpenRow(g) \/ RecordRow(g) \/ CloseRow(g)
      BY <2>3, BuildFailsStep, EdgeBuiltStep, FinishStep, OpenRowStep, RecordRowStep, CloseRowStep
    <2>. QED BY <1>1, <2>1, <2>2, <2>3 DEF BackendNext
  <1>2. CASE UNCHANGED bsVars
    <2>1. /\ bsSess' = bsSess /\ bsTask' = bsTask /\ bsEdge' = bsEdge /\ bsIngress' = bsIngress
          /\ bsNets' = bsNets /\ bsRows' = bsRows /\ bsClosing' = bsClosing /\ bsDebt' = bsDebt
      BY <1>2 DEF bsVars
    <2>2. \A k \in BsKeys : Held(k)' = Held(k) /\ TasksOf(k, {"taken"})' = TasksOf(k, {"taken"})
      BY <2>1 DEF Held, TasksOf
    <2>3. BackendTypes'
      BY <2>1, <2>2 DEF BackendInv, BackendTypes
    <2>4. SessionOfTask' /\ RowIsWritten' /\ ClaimHasABuild' /\ NoDanglingRow'
      BY <2>1 DEF BackendInv, SessionOfTask, RowIsWritten, ClaimHasABuild, NoDanglingRow
    <2>5. EveryReferenceSpentOnce'
      BY <2>1, <2>2 DEF BackendInv, EveryReferenceSpentOnce
    <2>. QED BY <2>3, <2>4, <2>5 DEF BackendInv
  <1>. QED BY <1>1, <1>2

\* A trigger session owns one reference and one history row, from the claim
\* handle_backend_trigger makes to whichever of the reap, a teardown or the
\* build's own unwind ends it.
THEOREM SessionsOwnTheirReferenceAlways == BackendSpec => []SessionsOwnTheirReference
  <1>1. BackendInv => SessionsOwnTheirReference
    BY BsAssumption DEF BackendInv, SessionsOwnTheirReference, BackendTypeOK, BackendTypes, SessionOfTask, SessionRecord
  <1>. QED BY <1>1, BackendTypesInit, BackendStep, PTL DEF BackendSpec
==============================================================================
