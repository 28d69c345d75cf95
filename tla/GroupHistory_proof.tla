-------------------------- MODULE GroupHistory_proof --------------------------
(***************************************************************************)
(* Of GroupEdges and of SessionHistory: CarriersMatchMembers, for any      *)
(* members, groups and devices; OpenRowsAreLive and ExactUnlessInterrupted *)
(* for any sessions, capacity and batch size.                              *)
(*                                                                         *)
(* GroupEdges.  Only the device the map leads to matters: it is the one    *)
(* that is up, and a handler that is inside the carrier holds the map's    *)
(* carrier and, while it is counted, the device.  What a handler has left  *)
(* in the device and in the maps follows from where it is, so the          *)
(* invariant speaks of one network at a time.                              *)
(***************************************************************************)
EXTENDS GroupEdges, SessionHistory, FiniteSetTheorems, SequenceTheorems, TLAPS


Sharing == {"enter", "leave", "vni", "record", "finish", "empty"}
Counting == {"vni", "record", "finish"}
GePcs == Sharing \cup {"idle", "carrier", "release", "left", "failed", "peer", "maps", "up", "keys", "stuck"}
GeTasks == [pc : GePcs, why : {"none", "setup", "undo", "retire"}, car : Nat, act : Nat, err : BOOLEAN]
LinkRecord == [up : BOOLEAN, vnis : SUBSET GeNets, recorded : SUBSET GeNets, ops : Nat]

GeTypes ==
    /\ geTask \in [GeNets -> GeTasks]
    /\ geEdges \subseteq GeNets /\ geOn \subseteq GeNets /\ gePeers \subseteq GeNets /\ geXfrm \subseteq GeNets
    /\ geOwners \subseteq GeNets /\ geLeft \subseteq GeNets /\ geHalf \in BOOLEAN
    /\ geState \in Seq(Nat) /\ geLink \in Seq(LinkRecord)
    /\ geEntry \in 0..Len(geState)
    /\ \A c \in 1..Len(geState) : geState[c] \in 0..Len(geLink)
    /\ geBoot \in {"run", "recover", "purge"} /\ geSpoilt \in BOOLEAN

\* The device of the carrier in the map, and who is a member of it or on record.
Device == IF geEntry = 0 THEN 0 ELSE geState[geEntry]
Joined(n) == Device # 0 /\ n \in geLink[Device].vnis
Listed(n) == Device # 0 /\ n \in geLink[Device].recorded

\* Why a handler is where it is, and whether it has failed.
HandlerOk(t) ==
    /\ t.pc \in {"carrier", "enter", "peer", "maps"} => t.why = "setup"
    /\ t.pc \in {"release", "leave"} => t.why \in {"undo", "retire"}
    /\ t.pc = "keys" => t.why = "retire"
    /\ t.pc \in Counting \cup {"empty", "left"} => t.why \in {"setup", "undo", "retire"}
    /\ t.pc \in {"idle", "failed", "up", "stuck"} => t.why = "none"
    /\ t.why = "setup" /\ t.pc \in {"carrier", "enter", "vni", "record", "peer", "maps"} => ~t.err
    /\ t.why = "setup" /\ t.pc = "empty" => t.err

\* What it holds on to.
PlaceOk(t) ==
    /\ t.car = IF t.pc \in Sharing THEN geEntry ELSE 0
    /\ t.pc \in Sharing => geEntry # 0
    /\ t.pc \in Counting => t.act = Device /\ Device # 0
    /\ t.act \in 0..Len(geLink)
    /\ t.pc = "empty" => t.act # 0

\* A network that has been set up this far is a member, on record.
Staying(t) == t.pc \in {"peer", "maps", "up"} \/ (t.why = "setup" /\ t.pc \in {"finish", "left"} /\ ~t.err)
MemberOk(t, joined, listed) ==
    /\ t.why = "setup" /\ t.pc = "record" => joined
    /\ Staying(t) => joined /\ listed

\* One that has not, or no longer, is not, unless something could not be removed.
Away(t) ==
    \/ t.pc \in {"idle", "failed"}
    \/ t.why = "setup" /\ (t.pc \in {"carrier", "enter", "vni"} \/ t.err)
    \/ t.why \in {"undo", "retire"} /\ t.pc \in {"finish", "empty", "left"}
CleanOk(t, joined, listed) ==
    /\ Away(t) => ~joined /\ ~listed
    /\ t.why # "setup" /\ t.pc = "record" => ~joined

\* The rules and associations of a network.  What a failed setup has left belongs
\* to none that got as far as its rules.
Served(t) == t.pc \in {"maps", "up", "stuck"} \/ t.why = "retire"
KeysOk(n, t) ==
    /\ t.pc \in {"maps", "up"} => n \in gePeers
    /\ n \in geEdges <=> t.pc \in {"up", "stuck"}
    /\ n \in gePeers => n \in geXfrm /\ n \in geOwners /\ n \notin geLeft
    /\ ~Served(t) /\ n \in geXfrm => n \in geLeft
    /\ Served(t) /\ n \in geXfrm => n \in geOwners
    /\ n \in geLeft => n \in geXfrm /\ ~Served(t)
    /\ t.why = "retire" /\ t.pc # "keys" /\ n \in geXfrm => t.err
    /\ n \in geOn => t.pc = "up"

TaskOk(n) ==
    /\ HandlerOk(geTask[n]) /\ PlaceOk(geTask[n]) /\ KeysOk(n, geTask[n])
    /\ MemberOk(geTask[n], Joined(n), Listed(n))

\* The device that is up is the one in use, and counts the handlers inside.
Inside == {n \in GeNets : geTask[n].pc \in Counting}
DeviceOk ==
    /\ \A a \in 1..Len(geLink) : geLink[a].up <=> a = Device
    /\ Device # 0 => geLink[Device].ops = Cardinality(Inside)

\* Somebody will look whether an empty device can go.
SomeoneLooks ==
    Device # 0 /\ geLink[Device].recorded = {} =>
        \E n \in GeNets : geTask[n].pc \in Counting \/ (geTask[n].pc = "empty" /\ geTask[n].act = Device)

RunInv ==
    /\ DeviceOk /\ (geHalf => Device = 0)
    /\ \A n \in GeNets : TaskOk(n)
    /\ ~geSpoilt => SomeoneLooks /\ \A n \in GeNets : CleanOk(geTask[n], Joined(n), Listed(n))

\* A new process has nothing on record; what the old one forwarded is still
\* carried until policy::recover deletes the links.
StartInv ==
    /\ \A n \in GeNets : geTask[n] = GeIdle
    /\ geEntry = 0 /\ geState = <<>> /\ geEdges = {} /\ gePeers = {} /\ geOwners = {}
    /\ geBoot = "recover" => \A n \in geOn :
          n \in geXfrm /\ \E a \in 1..Len(geLink) : geLink[a].up /\ n \in geLink[a].vnis
    /\ geBoot = "purge" => geOn = {} /\ geLink = <<>> /\ geHalf = FALSE

GroupInv == GeTypes /\ (geBoot = "run" => RunInv) /\ (geBoot # "run" => StartInv)

\* The device of the map is one of the links.
LEMMA DeviceType ==
    ASSUME GeTypes
    PROVE  /\ Device \in 0..Len(geLink) /\ Len(geLink) \in Nat /\ Len(geState) \in Nat
           /\ Device # 0 => geEntry \in 1..Len(geState) /\ geState[geEntry] = Device /\ geLink[Device] \in LinkRecord
  <1>1. Len(geLink) \in Nat /\ Len(geState) \in Nat /\ \A a \in 1..Len(geLink) : geLink[a] \in LinkRecord
    BY LenProperties, ElementOfSeq DEF GeTypes
  <1>2. geEntry \in 0..Len(geState) /\ \A c \in 1..Len(geState) : geState[c] \in 0..Len(geLink)
    BY DEF GeTypes
  <1>3. Device = 0 \/ (geEntry \in 1..Len(geState) /\ Device = geState[geEntry])
    BY <1>1, <1>2 DEF Device
  <1>4. Device \in 0..Len(geLink)
    BY <1>1, <1>2, <1>3
  <1>5. Device # 0 => Device \in 1..Len(geLink)
    BY <1>1, <1>4
  <1>. QED BY <1>1, <1>3, <1>4, <1>5

\* A step of one network leaves the others standing.
LEMMA OthersStand ==
    ASSUME GeTypes, RunInv, NEW n \in GeNets, NEW u \in GeTasks, geTask' = [geTask EXCEPT ![n] = u],
           (\E m \in GeNets \ {n} : geTask[m].pc \in Sharing) => geEntry' = geEntry,
           (\E m \in GeNets \ {n} : geTask[m].pc \in Counting) => Device' = Device,
           Len(geLink) \in Nat, Len(geLink') \in Nat, Len(geLink) <= Len(geLink'),
           \A m \in GeNets \ {n} : MemberOk(geTask[m], Joined(m)', Listed(m)'),
           \A m \in GeNets \ {n} : /\ m \in geEdges' <=> m \in geEdges
                                   /\ m \in geOn' <=> m \in geOn
                                   /\ m \in gePeers' <=> m \in gePeers
                                   /\ m \in geXfrm' <=> m \in geXfrm
                                   /\ m \in geOwners' <=> m \in geOwners
                                   /\ m \in geLeft' <=> m \in geLeft
    PROVE  \A m \in GeNets \ {n} : TaskOk(m)'
  <1> TAKE m \in GeNets \ {n}
  <1>1. PICK t \in GeTasks : t = geTask[m] /\ t = geTask'[m]
    BY DEF GeTypes
  <1>2. HandlerOk(t) /\ PlaceOk(t) /\ KeysOk(m, t)
    BY <1>1 DEF RunInv, TaskOk
  <1>3. KeysOk(m, t)'
    BY <1>2 DEF KeysOk, Served, HandlerOk
  <1>4. t.act \in Nat /\ t.act \in 0..Len(geLink')
    BY <1>2 DEF PlaceOk
  <1>5. (t.pc \in Sharing => geEntry' = geEntry) /\ (t.pc \in Counting => Device' = Device)
    BY <1>1
  <1>6. PlaceOk(t)'
    BY <1>2, <1>4, <1>5 DEF PlaceOk
  <1>7. MemberOk(t, Joined(m)', Listed(m)')
    BY <1>1
  <1>. QED BY <1>1, <1>2, <1>3, <1>6, <1>7 DEF TaskOk, HandlerOk, PlaceOk, KeysOk, MemberOk

\* A step of a handler outside the carrier, and one that finds nothing to do
\* in it: the device and its members stay as they are.
LEMMA QuietMove ==
    ASSUME GroupInv, geBoot = "run", geBoot' = "run", UNCHANGED <<geEntry, geState, geLink>>,
           NEW n \in GeNets, NEW u \in GeTasks, geTask' = [geTask EXCEPT ![n] = u],
           geTask[n].pc \notin Counting \cup {"empty"}, u.pc \notin Counting,
           HandlerOk(u), PlaceOk(u), KeysOk(n, u)', MemberOk(u, Joined(n), Listed(n)),
           geEdges' \subseteq GeNets, geOn' \subseteq GeNets, gePeers' \subseteq GeNets, geXfrm' \subseteq GeNets,
           geOwners' \subseteq GeNets, geLeft' \subseteq GeNets, geHalf' \in BOOLEAN, geHalf' => Device = 0,
           \A m \in GeNets \ {n} : /\ m \in geEdges' <=> m \in geEdges
                                   /\ m \in geOn' <=> m \in geOn
                                   /\ m \in gePeers' <=> m \in gePeers
                                   /\ m \in geXfrm' <=> m \in geXfrm
                                   /\ m \in geOwners' <=> m \in geOwners
                                   /\ m \in geLeft' <=> m \in geLeft,
           geSpoilt' \in BOOLEAN, geSpoilt => geSpoilt',
           ~geSpoilt' => CleanOk(u, Joined(n), Listed(n))
    PROVE  GroupInv'
  <1>1. GeTypes /\ RunInv
    BY DEF GroupInv
  <1>2. GeTypes'
    BY <1>1 DEF GeTypes
  <1>3. Device' = Device /\ \A m \in GeNets : (Joined(m)' <=> Joined(m)) /\ (Listed(m)' <=> Listed(m))
    BY DEF Device, Joined, Listed
  <1>4. Inside' = Inside /\ \A m \in GeNets \ {n} : geTask'[m] = geTask[m]
    BY <1>1 DEF Inside, GeTypes
  <1>5. DeviceOk'
    BY <1>1, <1>3, <1>4 DEF RunInv, DeviceOk
  <1>6. \A m \in GeNets \ {n} : MemberOk(geTask[m], Joined(m)', Listed(m)')
    BY <1>1, <1>3 DEF RunInv, TaskOk, MemberOk
  <1>7. \A m \in GeNets \ {n} : TaskOk(m)'
    <2>1. Len(geLink) \in Nat /\ Len(geLink') \in Nat /\ Len(geLink) <= Len(geLink')
      BY <1>1, DeviceType
    <2>2. geEntry' = geEntry
      OBVIOUS
    <2>. QED BY <1>1, <1>3, <1>6, <2>1, <2>2, OthersStand
  <1>8. TaskOk(n)'
    <2>1. geTask'[n] = u
      BY <1>1 DEF GeTypes
    <2>2. PlaceOk(u)'
      BY <1>3 DEF PlaceOk
    <2>. QED BY <1>3, <2>1, <2>2 DEF TaskOk, HandlerOk, PlaceOk, KeysOk, MemberOk, Staying
  <1>9. ASSUME ~geSpoilt' PROVE SomeoneLooks' /\ \A m \in GeNets : CleanOk(geTask[m], Joined(m), Listed(m))'
    <2>1. SomeoneLooks /\ \A m \in GeNets : CleanOk(geTask[m], Joined(m), Listed(m))
      BY <1>1, <1>9 DEF RunInv
    <2>2. SomeoneLooks'
      BY <1>3, <1>4, <2>1 DEF SomeoneLooks
    <2>3. geTask'[n] = u
      BY <1>1 DEF GeTypes
    <2>. QED BY <1>3, <1>4, <1>9, <2>1, <2>2, <2>3 DEF CleanOk, Away
  <1>. QED BY <1>2, <1>3, <1>5, <1>7, <1>8, <1>9 DEF GroupInv, RunInv

-----------------------------------------------------------------------------
(* Handlers outside the carrier *)

\* What the invariant says of one network.
LEMMA OneTask ==
    ASSUME GroupInv, geBoot = "run", NEW n \in GeNets
    PROVE  \E t \in GeTasks :
              /\ t = geTask[n] /\ HandlerOk(t) /\ PlaceOk(t) /\ KeysOk(n, t) /\ MemberOk(t, Joined(n), Listed(n))
              /\ ~geSpoilt => CleanOk(t, Joined(n), Listed(n))
  <1>1. GeTypes /\ RunInv
    BY DEF GroupInv
  <1>2. geTask[n] \in GeTasks
    BY <1>1 DEF GeTypes
  <1>. QED BY <1>1, <1>2 DEF RunInv, TaskOk

\* The sets of the maps, and a record that starts afresh.
LEMMA MapsTyped ==
    ASSUME GroupInv, geBoot = "run"
    PROVE  /\ geEdges \subseteq GeNets /\ geOn \subseteq GeNets /\ gePeers \subseteq GeNets /\ geXfrm \subseteq GeNets
           /\ geOwners \subseteq GeNets /\ geLeft \subseteq GeNets /\ geHalf \in BOOLEAN /\ (geHalf => Device = 0)
           /\ geSpoilt \in BOOLEAN /\ Len(geLink) \in Nat
  BY DeviceType DEF GroupInv, GeTypes, RunInv

LEMMA FreshTask ==
    ASSUME NEW p \in GePcs, NEW w \in {"none", "setup", "undo", "retire"}
    PROVE  LET u == [GeIdle EXCEPT !.pc = p, !.why = w] IN
              u \in GeTasks /\ u.pc = p /\ u.why = w /\ u.car = 0 /\ u.act = 0 /\ u.err = FALSE
  BY DEF GeIdle, GeTasks

LEMMA SetupStep ==
    ASSUME GroupInv, NEW n \in GeNets, GroupSetup(n)
    PROVE  GroupInv'
  <1>0. geTask[n].pc = "idle" /\ geBoot = "run"
    BY DEF GroupSetup
  <1>1. PICK t \in GeTasks : /\ t = geTask[n] /\ HandlerOk(t) /\ PlaceOk(t) /\ KeysOk(n, t)
                             /\ MemberOk(t, Joined(n), Listed(n))
                             /\ (~geSpoilt => CleanOk(t, Joined(n), Listed(n)))
    BY <1>0, OneTask, Zenon
  <1> DEFINE u == [GeIdle EXCEPT !.pc = "carrier", !.why = "setup"]
  <1>2. u \in GeTasks /\ u.pc = "carrier" /\ u.why = "setup" /\ u.car = 0 /\ u.act = 0 /\ u.err = FALSE
    BY FreshTask DEF GePcs
  <1>3. /\ geTask' = [geTask EXCEPT ![n] = u] /\ UNCHANGED <<geEntry, geState, geLink, geHalf, geBoot, geSpoilt>>
        /\ UNCHANGED <<geEdges, geOn, gePeers, geXfrm, geOwners, geLeft>>
    BY DEF GroupSetup, mapVars, keyVars, carrierVars
  <1> HIDE DEF u
  <1>4. HandlerOk(u) /\ MemberOk(u, Joined(n), Listed(n))
    BY <1>2 DEF HandlerOk, MemberOk, Staying, Counting
  <1>5. PlaceOk(u)
    BY <1>0, <1>2, MapsTyped DEF PlaceOk, Sharing, Counting
  <1>6. KeysOk(n, u)'
    BY <1>0, <1>1, <1>2, <1>3 DEF KeysOk, Served, HandlerOk
  <1>7. ~geSpoilt => CleanOk(u, Joined(n), Listed(n))
    BY <1>0, <1>1, <1>2 DEF CleanOk, Away
  <1>8. geTask[n].pc \notin Counting \cup {"empty"} /\ u.pc \notin Counting
    BY <1>0, <1>2 DEF Counting
  <1>. QED BY <1>0, <1>2, <1>3, <1>4, <1>5, <1>6, <1>7, <1>8, MapsTyped, QuietMove

\* carrier() has returned to policy::setup.
LEMMA EnteredStep ==
    ASSUME GroupInv, geBoot = "run", NEW n \in GeNets, EnteredCarrier(n)
    PROVE  GroupInv'
  <1>1. PICK t \in GeTasks : /\ t = geTask[n] /\ HandlerOk(t) /\ PlaceOk(t) /\ KeysOk(n, t)
                             /\ MemberOk(t, Joined(n), Listed(n))
                             /\ (~geSpoilt => CleanOk(t, Joined(n), Listed(n)))
    BY OneTask
  <1>0. t.pc = "left" /\ t.why = "setup"
    BY <1>1 DEF EnteredCarrier
  <1> DEFINE u == IF t.err THEN [GeIdle EXCEPT !.pc = "failed"] ELSE [t EXCEPT !.pc = "peer"]
  <1>2. /\ u \in GeTasks /\ u.car = 0 /\ u.act \in 0..Len(geLink)
        /\ \/ t.err /\ u.pc = "failed" /\ u.why = "none"
           \/ ~t.err /\ u.pc = "peer" /\ u.why = "setup" /\ u.err = FALSE
    <2>1. CASE t.err
      <3>1. u = [GeIdle EXCEPT !.pc = "failed"]
        BY <2>1
      <3>2. u \in GeTasks /\ u.pc = "failed" /\ u.why = "none" /\ u.car = 0 /\ u.act = 0
        BY <3>1 DEF GeIdle, GeTasks, GePcs
      <3>. QED BY <2>1, <3>2, MapsTyped
    <2>2. CASE ~t.err
      <3>1. u = [t EXCEPT !.pc = "peer"] /\ t.err = FALSE
        BY <2>2 DEF GeTasks
      <3>2. u \in GeTasks /\ u.pc = "peer" /\ u.why = t.why /\ u.car = t.car /\ u.act = t.act /\ u.err = t.err
        BY <3>1 DEF GeTasks, GePcs
      <3>3. t.car = 0 /\ t.act \in 0..Len(geLink)
        BY <1>0, <1>1 DEF PlaceOk, Sharing
      <3>. QED BY <1>0, <2>2, <3>1, <3>2, <3>3
    <2>. QED BY <2>1, <2>2
  <1>3. /\ geTask' = [geTask EXCEPT ![n] = u] /\ UNCHANGED <<geEntry, geState, geLink, geHalf, geBoot, geSpoilt>>
        /\ UNCHANGED <<geEdges, geOn, gePeers, geXfrm, geOwners, geLeft>>
    BY <1>1 DEF EnteredCarrier, mapVars, keyVars, carrierVars
  <1> HIDE DEF u
  <1>4. HandlerOk(u) /\ MemberOk(u, Joined(n), Listed(n))
    BY <1>0, <1>1, <1>2 DEF HandlerOk, MemberOk, Staying, Counting
  <1>5. PlaceOk(u)
    BY <1>2 DEF PlaceOk, Sharing, Counting
  <1>6. KeysOk(n, u)'
    BY <1>0, <1>1, <1>2, <1>3 DEF KeysOk, Served, HandlerOk
  <1>7. ~geSpoilt => CleanOk(u, Joined(n), Listed(n))
    BY <1>0, <1>1, <1>2 DEF CleanOk, Away
  <1>8. geTask[n].pc \notin Counting \cup {"empty"} /\ u.pc \notin Counting
    BY <1>0, <1>1, <1>2 DEF Counting
  <1>. QED BY <1>2, <1>3, <1>4, <1>5, <1>6, <1>7, <1>8, MapsTyped, QuietMove

\* Engine::peer, and the rules after it.
LEMMA PeerStep ==
    ASSUME GroupInv, geBoot = "run", NEW n \in GeNets, NEW res \in Results, GroupPeer(n, res)
    PROVE  GroupInv'
  <1>1. PICK t \in GeTasks : /\ t = geTask[n] /\ HandlerOk(t) /\ PlaceOk(t) /\ KeysOk(n, t)
                             /\ MemberOk(t, Joined(n), Listed(n))
                             /\ (~geSpoilt => CleanOk(t, Joined(n), Listed(n)))
    BY OneTask
  <1>0. t.pc = "peer" /\ t.why = "setup" /\ t.err = FALSE
    BY <1>1 DEF GroupPeer, HandlerOk, GeTasks
  <1> DEFINE u == IF res = "ok" THEN [t EXCEPT !.pc = "maps"] ELSE [t EXCEPT !.pc = "release", !.why = "undo"]
  <1>2. /\ u \in GeTasks /\ u.car = t.car /\ u.act = t.act /\ u.err = t.err
        /\ \/ res = "ok" /\ u.pc = "maps" /\ u.why = "setup"
           \/ res # "ok" /\ u.pc = "release" /\ u.why = "undo"
    BY <1>0 DEF GeTasks, GePcs
  <1>3. geTask' = [geTask EXCEPT ![n] = u] /\ UNCHANGED <<geEntry, geState, geLink, geHalf, geBoot, geSpoilt, geEdges, geOn>>
    BY <1>1 DEF GroupPeer, carrierVars
  <1>4. /\ n \notin gePeers /\ (res = "ok" => n \notin geXfrm)
        /\ gePeers' = IF res = "ok" THEN gePeers \cup {n} ELSE gePeers
        /\ geOwners' = IF res = "ok" THEN geOwners \cup {n} ELSE geOwners \ {n}
        /\ geXfrm' = IF res = "undone" THEN geXfrm ELSE geXfrm \cup {n}
        /\ geLeft' = IF res = "left" THEN geLeft \cup {n} ELSE geLeft
    <2>1. n \notin gePeers
      BY <1>0, <1>1 DEF KeysOk, Served, HandlerOk
    <2>. QED BY <2>1 DEF GroupPeer, Accepts
  <1> HIDE DEF u
  <1>5. /\ gePeers' \subseteq GeNets /\ geXfrm' \subseteq GeNets /\ geOwners' \subseteq GeNets /\ geLeft' \subseteq GeNets
        /\ \A m \in GeNets \ {n} : /\ m \in gePeers' <=> m \in gePeers
                                   /\ m \in geXfrm' <=> m \in geXfrm
                                   /\ m \in geOwners' <=> m \in geOwners
                                   /\ m \in geLeft' <=> m \in geLeft
    BY <1>4, MapsTyped
  <1>6. HandlerOk(u) /\ MemberOk(u, Joined(n), Listed(n))
    BY <1>0, <1>1, <1>2 DEF HandlerOk, MemberOk, Staying, Counting
  <1>7. PlaceOk(u)
    BY <1>0, <1>1, <1>2 DEF PlaceOk, Sharing, Counting
  <1>8. KeysOk(n, u)'
    BY <1>0, <1>1, <1>2, <1>3, <1>4 DEF KeysOk, Served, Results
  <1>9. ~geSpoilt => CleanOk(u, Joined(n), Listed(n))
    BY <1>0, <1>2 DEF CleanOk, Away
  <1>10. geTask[n].pc \notin Counting \cup {"empty"} /\ u.pc \notin Counting
    BY <1>0, <1>1, <1>2 DEF Counting
  <1>. QED BY <1>2, <1>3, <1>5, <1>6, <1>7, <1>8, <1>9, <1>10, MapsTyped, QuietMove

LEMMA RulesStep ==
    ASSUME GroupInv, geBoot = "run", NEW n \in GeNets, NEW res \in Results, InsertRules(n, res)
    PROVE  GroupInv'
  <1>1. PICK t \in GeTasks : /\ t = geTask[n] /\ HandlerOk(t) /\ PlaceOk(t) /\ KeysOk(n, t)
                             /\ MemberOk(t, Joined(n), Listed(n))
                             /\ (~geSpoilt => CleanOk(t, Joined(n), Listed(n)))
    BY OneTask
  <1>0. t.pc = "maps" /\ t.why = "setup" /\ t.err = FALSE
    BY <1>1 DEF InsertRules, HandlerOk, GeTasks
  <1> DEFINE u == IF res = "ok" THEN [GeIdle EXCEPT !.pc = "up"] ELSE [t EXCEPT !.pc = "release", !.why = "undo"]
  <1>2. /\ u \in GeTasks /\ u.car = 0 /\ u.act \in 0..Len(geLink) /\ u.err = FALSE
        /\ \/ res = "ok" /\ u.pc = "up" /\ u.why = "none"
           \/ res # "ok" /\ u.pc = "release" /\ u.why = "undo"
    <2>1. CASE res = "ok"
      <3>1. u = [GeIdle EXCEPT !.pc = "up"]
        BY <2>1
      <3>2. u \in GeTasks /\ u.pc = "up" /\ u.why = "none" /\ u.car = 0 /\ u.act = 0 /\ u.err = FALSE
        BY <3>1 DEF GeIdle, GeTasks, GePcs
      <3>. QED BY <2>1, <3>2, MapsTyped
    <2>2. CASE res # "ok"
      <3>1. u = [t EXCEPT !.pc = "release", !.why = "undo"]
        BY <2>2
      <3>2. u \in GeTasks /\ u.pc = "release" /\ u.why = "undo" /\ u.car = t.car /\ u.act = t.act /\ u.err = t.err
        BY <3>1 DEF GeTasks, GePcs
      <3>3. t.car = 0 /\ t.act \in 0..Len(geLink)
        BY <1>0, <1>1 DEF PlaceOk, Sharing
      <3>. QED BY <1>0, <2>2, <3>2, <3>3
    <2>. QED BY <2>1, <2>2
  <1>3. geTask' = [geTask EXCEPT ![n] = u] /\ UNCHANGED <<geEntry, geState, geLink, geHalf, geBoot, geSpoilt, geOn>>
    BY <1>1 DEF InsertRules, carrierVars
  <1>4. /\ geEdges' = IF res = "ok" THEN geEdges \cup {n} ELSE geEdges
        /\ gePeers' = IF res = "ok" THEN gePeers ELSE gePeers \ {n}
        /\ geOwners' = IF res = "undone" THEN geOwners \ {n} ELSE geOwners
        /\ geXfrm' = IF res = "undone" THEN geXfrm \ {n} ELSE geXfrm
        /\ geLeft' = IF res = "left" THEN geLeft \cup {n} ELSE geLeft
    BY DEF InsertRules
  <1> HIDE DEF u
  <1>5. /\ gePeers' \subseteq GeNets /\ geXfrm' \subseteq GeNets /\ geEdges' \subseteq GeNets
        /\ geOwners' \subseteq GeNets /\ geLeft' \subseteq GeNets
        /\ \A m \in GeNets \ {n} : /\ m \in geEdges' <=> m \in geEdges
                                   /\ m \in gePeers' <=> m \in gePeers
                                   /\ m \in geXfrm' <=> m \in geXfrm
                                   /\ m \in geOwners' <=> m \in geOwners
                                   /\ m \in geLeft' <=> m \in geLeft
    BY <1>4, MapsTyped
  <1>6. HandlerOk(u) /\ MemberOk(u, Joined(n), Listed(n))
    BY <1>0, <1>1, <1>2 DEF HandlerOk, MemberOk, Staying, Counting
  <1>7. PlaceOk(u)
    BY <1>2 DEF PlaceOk, Sharing, Counting
  <1>8. KeysOk(n, u)'
    BY <1>0, <1>1, <1>2, <1>3, <1>4 DEF KeysOk, Served, Results
  <1>9. ~geSpoilt => CleanOk(u, Joined(n), Listed(n))
    BY <1>2 DEF CleanOk, Away
  <1>10. geTask[n].pc \notin Counting \cup {"empty"} /\ u.pc \notin Counting
    BY <1>0, <1>1, <1>2 DEF Counting
  <1>. QED BY <1>2, <1>3, <1>5, <1>6, <1>7, <1>8, <1>9, <1>10, MapsTyped, QuietMove

LEMMA UndoneStep ==
    ASSUME GroupInv, geBoot = "run", NEW n \in GeNets, GroupUndone(n)
    PROVE  GroupInv'
  <1>1. PICK t \in GeTasks : /\ t = geTask[n] /\ HandlerOk(t) /\ KeysOk(n, t)
                             /\ (~geSpoilt => CleanOk(t, Joined(n), Listed(n)))
    BY OneTask
  <1>0. t.pc = "failed" \/ (t.pc = "left" /\ t.why = "undo")
    BY <1>1 DEF GroupUndone
  <1>2. GeIdle \in GeTasks /\ GeIdle.pc = "idle" /\ GeIdle.why = "none" /\ GeIdle.car = 0 /\ GeIdle.act = 0
    BY DEF GeIdle, GeTasks, GePcs
  <1>3. /\ geTask' = [geTask EXCEPT ![n] = GeIdle] /\ UNCHANGED <<geEntry, geState, geLink, geHalf, geBoot, geSpoilt>>
        /\ UNCHANGED <<geEdges, geOn, gePeers, geXfrm, geOwners, geLeft>>
    BY DEF GroupUndone, mapVars, keyVars, carrierVars
  <1>4. HandlerOk(GeIdle) /\ MemberOk(GeIdle, Joined(n), Listed(n))
    BY <1>2 DEF HandlerOk, MemberOk, Staying, Counting
  <1>5. PlaceOk(GeIdle)
    BY <1>2, MapsTyped DEF PlaceOk, Sharing, Counting
  <1>6. KeysOk(n, GeIdle)'
    BY <1>0, <1>1, <1>2, <1>3 DEF KeysOk, Served, HandlerOk
  <1>7. ~geSpoilt => CleanOk(GeIdle, Joined(n), Listed(n))
    BY <1>0, <1>1, <1>2 DEF CleanOk, Away
  <1>8. geTask[n].pc \notin Counting \cup {"empty"} /\ GeIdle.pc \notin Counting
    BY <1>0, <1>1, <1>2 DEF Counting
  <1>. QED BY <1>2, <1>3, <1>4, <1>5, <1>6, <1>7, <1>8, MapsTyped, QuietMove

LEMMA ReadyStep ==
    ASSUME GroupInv, geBoot = "run", NEW n \in GeNets, GroupReady(n)
    PROVE  GroupInv'
  <1>1. PICK t \in GeTasks : /\ t = geTask[n] /\ HandlerOk(t) /\ PlaceOk(t) /\ KeysOk(n, t)
                             /\ MemberOk(t, Joined(n), Listed(n))
                             /\ (~geSpoilt => CleanOk(t, Joined(n), Listed(n)))
    BY OneTask
  <1>0. t.pc = "up" /\ geOn' = geOn \cup {n}
    BY <1>1 DEF GroupReady
  <1>2. geTask' = [geTask EXCEPT ![n] = t]
    BY <1>1 DEF GroupReady, GroupInv, GeTypes
  <1>3. UNCHANGED <<geEntry, geState, geLink, geHalf, geBoot, geSpoilt, geEdges, gePeers, geXfrm, geOwners, geLeft>>
    BY DEF GroupReady, keyVars, carrierVars
  <1>4. KeysOk(n, t)'
    BY <1>0, <1>1, <1>3 DEF KeysOk, Served, HandlerOk
  <1>5. geTask[n].pc \notin Counting \cup {"empty"} /\ t.pc \notin Counting
    BY <1>0, <1>1 DEF Counting
  <1>6. geOn' \subseteq GeNets /\ \A m \in GeNets \ {n} : m \in geOn' <=> m \in geOn
    BY <1>0, MapsTyped
  <1>. QED BY <1>1, <1>2, <1>3, <1>4, <1>5, <1>6, MapsTyped, QuietMove

\* Retirement up to the carrier, and after it.
LEMMA RetireStep ==
    ASSUME GroupInv, NEW n \in GeNets, NEW ok \in BOOLEAN, GroupRetire(n, ok)
    PROVE  GroupInv'
  <1>0. geTask[n].pc \in {"up", "stuck"} /\ geBoot = "run"
    BY DEF GroupRetire
  <1>1. PICK t \in GeTasks : t = geTask[n] /\ KeysOk(n, t)
    BY <1>0, OneTask
  <1> DEFINE u == [GeIdle EXCEPT !.pc = "keys", !.why = "retire", !.err = ~ok]
  <1>2. u \in GeTasks /\ u.pc = "keys" /\ u.why = "retire" /\ u.car = 0 /\ u.act = 0
    BY DEF GeIdle, GeTasks, GePcs
  <1>3. /\ geTask' = [geTask EXCEPT ![n] = u] /\ UNCHANGED <<geEntry, geState, geLink, geHalf, geBoot, geSpoilt>>
        /\ geEdges' = geEdges \ {n} /\ geOn' = geOn \ {n} /\ UNCHANGED <<gePeers, geXfrm, geOwners, geLeft>>
    BY DEF GroupRetire, keyVars, carrierVars
  <1> HIDE DEF u
  <1>4. HandlerOk(u) /\ MemberOk(u, Joined(n), Listed(n))
    BY <1>2 DEF HandlerOk, MemberOk, Staying, Counting
  <1>5. PlaceOk(u)
    BY <1>0, <1>2, MapsTyped DEF PlaceOk, Sharing, Counting
  <1>6. KeysOk(n, u)'
    BY <1>0, <1>1, <1>2, <1>3 DEF KeysOk, Served, HandlerOk
  <1>7. ~geSpoilt => CleanOk(u, Joined(n), Listed(n))
    BY <1>2 DEF CleanOk, Away
  <1>8. geTask[n].pc \notin Counting \cup {"empty"} /\ u.pc \notin Counting
    BY <1>0, <1>2 DEF Counting
  <1>9. /\ geEdges' \subseteq GeNets /\ geOn' \subseteq GeNets
        /\ \A m \in GeNets \ {n} : (m \in geEdges' <=> m \in geEdges) /\ (m \in geOn' <=> m \in geOn)
    BY <1>0, <1>3, MapsTyped
  <1>. QED BY <1>0, <1>2, <1>3, <1>4, <1>5, <1>6, <1>7, <1>8, <1>9, MapsTyped, QuietMove

LEMMA KeysStep ==
    ASSUME GroupInv, geBoot = "run", NEW n \in GeNets, NEW ok \in BOOLEAN, RemoveKeys(n, ok)
    PROVE  GroupInv'
  <1>1. PICK t \in GeTasks : t = geTask[n] /\ HandlerOk(t) /\ PlaceOk(t) /\ KeysOk(n, t)
    BY OneTask
  <1>0. t.pc = "keys" /\ t.why = "retire"
    BY <1>1 DEF RemoveKeys, HandlerOk
  <1> DEFINE u == [t EXCEPT !.err = @ \/ ~ok, !.pc = "release"]
  <1>2. u \in GeTasks /\ u.pc = "release" /\ u.why = "retire" /\ u.car = t.car /\ u.act = t.act /\ (u.err <=> t.err \/ ~ok)
    BY <1>0 DEF GeTasks, GePcs
  <1>3. geTask' = [geTask EXCEPT ![n] = u]
    <2>1. geTask' = [geTask EXCEPT ![n].err = @ \/ ~ok, ![n].pc = "release"]
      BY DEF RemoveKeys
    <2>. QED BY <1>1, <2>1 DEF GroupInv, GeTypes, GeTasks
  <1>4. /\ gePeers' = gePeers \ {n} /\ (n \notin geOwners => ok)
        /\ geOwners' = IF ok THEN geOwners \ {n} ELSE geOwners
        /\ geXfrm' = IF ok /\ n \in geOwners THEN geXfrm \ {n} ELSE geXfrm
        /\ UNCHANGED <<geEntry, geState, geLink, geHalf, geBoot, geEdges, geOn, geLeft>>
        /\ geSpoilt' = (geSpoilt \/ ~ok)
    BY DEF RemoveKeys, carrierVars
  <1> HIDE DEF u
  <1>5. HandlerOk(u) /\ MemberOk(u, Joined(n), Listed(n))
    BY <1>2 DEF HandlerOk, MemberOk, Staying, Counting
  <1>6. PlaceOk(u)
    BY <1>0, <1>1, <1>2 DEF PlaceOk, Sharing, Counting
  <1>7. KeysOk(n, u)'
    BY <1>0, <1>1, <1>2, <1>4 DEF KeysOk, Served, HandlerOk
  <1>8. CleanOk(u, Joined(n), Listed(n))
    BY <1>2 DEF CleanOk, Away
  <1>9. geTask[n].pc \notin Counting \cup {"empty"} /\ u.pc \notin Counting
    BY <1>0, <1>1, <1>2 DEF Counting
  <1>10. /\ gePeers' \subseteq GeNets /\ geXfrm' \subseteq GeNets /\ geOwners' \subseteq GeNets
         /\ \A m \in GeNets \ {n} : /\ m \in gePeers' <=> m \in gePeers
                                    /\ m \in geXfrm' <=> m \in geXfrm
                                    /\ m \in geOwners' <=> m \in geOwners
    BY <1>4, MapsTyped
  <1>11. geSpoilt' \in BOOLEAN /\ (geSpoilt => geSpoilt')
    BY <1>4
  <1>. QED BY <1>2, <1>3, <1>4, <1>5, <1>6, <1>7, <1>8, <1>9, <1>10, <1>11, MapsTyped, QuietMove

LEMMA RetiredStep ==
    ASSUME GroupInv, geBoot = "run", NEW n \in GeNets, GroupRetired(n)
    PROVE  GroupInv'
  <1>1. PICK t \in GeTasks : /\ t = geTask[n] /\ HandlerOk(t) /\ KeysOk(n, t)
                             /\ (~geSpoilt => CleanOk(t, Joined(n), Listed(n)))
    BY OneTask
  <1>0. t.pc = "left" /\ t.why = "retire"
    BY <1>1 DEF GroupRetired
  <1> DEFINE u == [GeIdle EXCEPT !.pc = IF t.err THEN "stuck" ELSE "idle"]
  <1>2. /\ u \in GeTasks /\ u.pc = (IF t.err THEN "stuck" ELSE "idle")
        /\ u.why = "none" /\ u.car = 0 /\ u.act = 0
    BY DEF GeIdle, GeTasks, GePcs
  <1>3. geTask' = [geTask EXCEPT ![n] = u] /\ UNCHANGED <<geEntry, geState, geLink, geHalf, geBoot, geSpoilt, geOn, gePeers, geXfrm, geOwners, geLeft>>
    BY <1>1 DEF GroupRetired, keyVars, carrierVars
  <1>4. geEdges' = geEdges \cup (IF t.err THEN {n} ELSE {})
    BY <1>1 DEF GroupRetired, KeptOnError
  <1> HIDE DEF u
  <1>5. HandlerOk(u) /\ MemberOk(u, Joined(n), Listed(n))
    BY <1>2 DEF HandlerOk, MemberOk, Staying, Counting
  <1>6. PlaceOk(u)
    BY <1>2, MapsTyped DEF PlaceOk, Sharing, Counting
  <1>7. KeysOk(n, u)'
    BY <1>0, <1>1, <1>2, <1>3, <1>4 DEF KeysOk, Served, HandlerOk
  <1>8. ~geSpoilt => CleanOk(u, Joined(n), Listed(n))
    BY <1>0, <1>1, <1>2 DEF CleanOk, Away
  <1>9. geTask[n].pc \notin Counting \cup {"empty"} /\ u.pc \notin Counting
    BY <1>0, <1>1, <1>2 DEF Counting
  <1>10. geEdges' \subseteq GeNets /\ \A m \in GeNets \ {n} : m \in geEdges' <=> m \in geEdges
    BY <1>4, MapsTyped
  <1>. QED BY <1>2, <1>3, <1>5, <1>6, <1>7, <1>8, <1>9, <1>10, MapsTyped, QuietMove

-----------------------------------------------------------------------------
(* Handlers inside the carrier *)

\* A step on the carrier, whatever becomes of its device.
LEMMA CarrierMove ==
    ASSUME GroupInv, geBoot = "run", geBoot' = "run", UNCHANGED <<geEdges, geOn, gePeers, geXfrm, geOwners, geLeft>>,
           NEW n \in GeNets, NEW u \in GeTasks, geTask' = [geTask EXCEPT ![n] = u],
           geState' \in Seq(Nat), geLink' \in Seq(LinkRecord), geEntry' \in 0..Len(geState'),
           \A c \in 1..Len(geState') : geState'[c] \in 0..Len(geLink'),
           Len(geLink) \in Nat, Len(geLink') \in Nat, Len(geLink) <= Len(geLink'),
           geSpoilt' \in BOOLEAN, geSpoilt => geSpoilt',
           (\E m \in GeNets \ {n} : geTask[m].pc \in Sharing) => geEntry' = geEntry,
           (\E m \in GeNets \ {n} : geTask[m].pc \in Counting) => Device' = Device,
           \A m \in GeNets \ {n} : MemberOk(geTask[m], Joined(m)', Listed(m)'),
           HandlerOk(u), PlaceOk(u)', KeysOk(n, u), MemberOk(u, Joined(n)', Listed(n)'),
           DeviceOk', geHalf' \in BOOLEAN, geHalf' => Device' = 0,
           ~geSpoilt' => /\ SomeoneLooks' /\ CleanOk(u, Joined(n)', Listed(n)')
                         /\ \A m \in GeNets \ {n} : CleanOk(geTask[m], Joined(m)', Listed(m)')
    PROVE  GroupInv'
  <1>1. GeTypes /\ RunInv
    BY DEF GroupInv
  <1>2. geTask'[n] = u /\ \A m \in GeNets \ {n} : geTask'[m] = geTask[m]
    BY <1>1 DEF GeTypes
  <1>3. GeTypes'
    BY <1>1 DEF GeTypes
  <1>4. \A m \in GeNets \ {n} : TaskOk(m)'
    BY <1>1, OthersStand
  <1>5. TaskOk(n)'
    <2>1. KeysOk(n, u)'
      BY DEF KeysOk, Served, HandlerOk
    <2>. QED BY <1>2, <2>1 DEF TaskOk, HandlerOk, PlaceOk, KeysOk, MemberOk
  <1>6. ASSUME ~geSpoilt' PROVE SomeoneLooks' /\ \A m \in GeNets : CleanOk(geTask[m], Joined(m), Listed(m))'
    BY <1>2, <1>6 DEF CleanOk
  <1>. QED BY <1>3, <1>4, <1>5, <1>6 DEF GroupInv, RunInv

\* A step that changes what the device records of one network, or its count.
LEMMA DeviceMove ==
    ASSUME GroupInv, geBoot = "run", geBoot' = "run",
           UNCHANGED <<geEdges, geOn, gePeers, geXfrm, geOwners, geLeft>>, UNCHANGED <<geEntry, geState, geHalf>>,
           NEW n \in GeNets, NEW u \in GeTasks, geTask' = [geTask EXCEPT ![n] = u],
           Device # 0, NEW r \in LinkRecord, r.up = TRUE, geLink' = [geLink EXCEPT ![Device] = r],
           \A m \in GeNets \ {n} : (m \in r.vnis <=> Joined(m)) /\ (m \in r.recorded <=> Listed(m)),
           r.ops = Cardinality(Inside'),
           geSpoilt' \in BOOLEAN, geSpoilt => geSpoilt',
           HandlerOk(u), PlaceOk(u), KeysOk(n, u), MemberOk(u, n \in r.vnis, n \in r.recorded),
           ~geSpoilt' => /\ CleanOk(u, n \in r.vnis, n \in r.recorded)
                         /\ r.recorded = {} =>
                              \/ Inside' # {}
                              \/ \E m \in GeNets : geTask'[m].pc = "empty" /\ geTask'[m].act = Device
    PROVE  GroupInv'
  <1>1. GeTypes /\ RunInv
    BY DEF GroupInv
  <1>2. PICK d \in 1..Len(geLink) : d = Device /\ geLink[d] \in LinkRecord
    BY <1>1, DeviceType
  <1>3. geLink' = [geLink EXCEPT ![d] = r]
    BY <1>2
  <1>4. /\ geLink' \in Seq(LinkRecord) /\ Len(geLink') = Len(geLink)
        /\ geLink'[d] = r /\ \A a \in 1..Len(geLink) : a # d => geLink'[a] = geLink[a]
    <2>1. geLink \in Seq(LinkRecord)
      BY <1>1 DEF GeTypes
    <2>. QED BY <1>2, <1>3, <2>1, ExceptSeq, LenProperties
  <1>5. Device' = d
    BY <1>2 DEF Device
  <1>6. \A m \in GeNets : (Joined(m)' <=> m \in r.vnis) /\ (Listed(m)' <=> m \in r.recorded)
    BY <1>2, <1>4, <1>5 DEF Joined, Listed
  <1>7. DeviceOk'
    <2>1. \A a \in 1..Len(geLink) : geLink[a].up <=> a = d
      BY <1>1, <1>2 DEF RunInv, DeviceOk
    <2>2. \A a \in 1..Len(geLink') : geLink'[a].up <=> a = d
      BY <1>4, <2>1
    <2>3. geLink'[Device'].ops = Cardinality(Inside')
      BY <1>4, <1>5
    <2>. QED BY <1>5, <2>2, <2>3 DEF DeviceOk
  <1>8. PlaceOk(u)'
    BY <1>2, <1>4, <1>5 DEF PlaceOk
  <1>9. \A m \in GeNets \ {n} : MemberOk(geTask[m], Joined(m)', Listed(m)')
    <2>1. \A m \in GeNets : MemberOk(geTask[m], Joined(m), Listed(m))
      BY <1>1 DEF RunInv, TaskOk
    <2>. QED BY <1>6, <2>1 DEF MemberOk
  <1>10. MemberOk(u, Joined(n)', Listed(n)')
    BY <1>6 DEF MemberOk
  <1>11. ASSUME ~geSpoilt'
         PROVE  /\ SomeoneLooks' /\ CleanOk(u, Joined(n)', Listed(n)')
                /\ \A m \in GeNets \ {n} : CleanOk(geTask[m], Joined(m)', Listed(m)')
    <2>1. \A m \in GeNets : CleanOk(geTask[m], Joined(m), Listed(m))
      BY <1>1, <1>11 DEF RunInv
    <2>2. SomeoneLooks'
      <3>1. geLink'[Device'].recorded = {} =>
              \/ Inside' # {}
              \/ \E m \in GeNets : geTask'[m].pc = "empty" /\ geTask'[m].act = Device'
        BY <1>2, <1>4, <1>5, <1>11
      <3>. QED BY <3>1 DEF SomeoneLooks, Inside
    <2>. QED BY <1>6, <1>11, <2>1, <2>2 DEF CleanOk
  <1>12. /\ geState' \in Seq(Nat) /\ geEntry' \in 0..Len(geState')
         /\ \A c \in 1..Len(geState') : geState'[c] \in 0..Len(geLink')
    BY <1>1, <1>4 DEF GeTypes
  <1>13. Len(geLink) \in Nat /\ Len(geLink') \in Nat /\ Len(geLink) <= Len(geLink')
    BY <1>1, <1>4, DeviceType
  <1>14. geEntry' = geEntry /\ Device' = Device /\ geHalf' \in BOOLEAN /\ (geHalf' => Device' = 0)
    BY <1>2, <1>5, MapsTyped
  <1>. QED BY <1>4, <1>7, <1>8, <1>9, <1>10, <1>11, <1>12, <1>13, <1>14, CarrierMove

\* How many handlers are inside.
LEMMA InsideCounts ==
    ASSUME GeTypes, NEW n \in GeNets, NEW u \in GeTasks, geTask' = [geTask EXCEPT ![n] = u]
    PROVE  /\ IsFiniteSet(Inside) /\ Cardinality(Inside) \in Nat
           /\ (u.pc \in Counting <=> geTask[n].pc \in Counting) => Inside' = Inside
           /\ u.pc \in Counting /\ geTask[n].pc \notin Counting =>
                n \in Inside' /\ Cardinality(Inside') = Cardinality(Inside) + 1
           /\ u.pc \notin Counting /\ geTask[n].pc \in Counting =>
                /\ n \in Inside /\ Inside' = Inside \ {n}
                /\ Cardinality(Inside') = Cardinality(Inside) - 1
  <1>1. IsFiniteSet(Inside) /\ Cardinality(Inside) \in Nat
    <2>1. Inside \subseteq GeNets /\ IsFiniteSet(GeNets)
      BY GeAssumption DEF Inside
    <2>. QED BY <2>1, FS_Subset, FS_CardinalityType
  <1>2. geTask'[n] = u /\ \A m \in GeNets \ {n} : geTask'[m] = geTask[m]
    BY DEF GeTypes
  <1>3. ASSUME u.pc \in Counting <=> geTask[n].pc \in Counting PROVE Inside' = Inside
    BY <1>2, <1>3 DEF Inside
  <1>4. ASSUME u.pc \in Counting, geTask[n].pc \notin Counting
        PROVE  n \in Inside' /\ Cardinality(Inside') = Cardinality(Inside) + 1
    <2>1. Inside' = Inside \cup {n} /\ n \notin Inside
      BY <1>2, <1>4 DEF Inside
    <2>2. PICK S : S = Inside
      OBVIOUS
    <2>3. Cardinality(S \cup {n}) = Cardinality(S) + 1
      BY <1>1, <2>1, <2>2, FS_AddElement
    <2>. QED BY <2>1, <2>2, <2>3
  <1>5. ASSUME u.pc \notin Counting, geTask[n].pc \in Counting
        PROVE  n \in Inside /\ Inside' = Inside \ {n} /\ Cardinality(Inside') = Cardinality(Inside) - 1
    <2>1. Inside' = Inside \ {n} /\ n \in Inside
      BY <1>2, <1>5 DEF Inside
    <2>2. PICK S : S = Inside
      OBVIOUS
    <2>3. Cardinality(S \ {n}) = Cardinality(S) - 1
      BY <1>1, <2>1, <2>2, FS_RemoveElement
    <2>. QED BY <2>1, <2>2, <2>3
  <1>. QED BY <1>1, <1>3, <1>4, <1>5

\* The device in use, and its count.
LEMMA DeviceFacts ==
    ASSUME GroupInv, geBoot = "run", Device # 0
    PROVE  /\ geLink[Device] \in LinkRecord /\ geLink[Device].up = TRUE
           /\ geLink[Device].ops = Cardinality(Inside)
           /\ \A m \in GeNets : /\ m \in geLink[Device].vnis <=> Joined(m)
                                /\ m \in geLink[Device].recorded <=> Listed(m)
  <1>1. GeTypes /\ RunInv
    BY DEF GroupInv
  <1>2. Device \in 1..Len(geLink) /\ geLink[Device] \in LinkRecord
    BY <1>1, DeviceType
  <1>3. geLink[Device].up = TRUE /\ geLink[Device].ops = Cardinality(Inside)
    BY <1>1, <1>2 DEF RunInv, DeviceOk, LinkRecord
  <1>. QED BY <1>2, <1>3 DEF Joined, Listed

\* A handler is counted in.
LEMMA JoinMove ==
    ASSUME GroupInv, geBoot = "run", geBoot' = "run",
           UNCHANGED <<geEdges, geOn, gePeers, geXfrm, geOwners, geLeft>>, UNCHANGED <<geEntry, geState, geHalf>>,
           NEW n \in GeNets, geTask[n].pc \in {"enter", "leave"}, Device # 0,
           geLink' = [geLink EXCEPT ![Device].ops = @ + 1],
           geTask' = [geTask EXCEPT ![n].act = Device, ![n].pc = "vni"],
           geSpoilt' \in BOOLEAN, geSpoilt => geSpoilt'
    PROVE  GroupInv'
  <1>1. GeTypes
    BY DEF GroupInv
  <1>2. PICK t \in GeTasks : /\ t = geTask[n] /\ HandlerOk(t) /\ PlaceOk(t) /\ KeysOk(n, t)
                             /\ (~geSpoilt => CleanOk(t, Joined(n), Listed(n)))
    BY OneTask
  <1>3. PICK d \in Nat : d = Device /\ d # 0 /\ d \in 1..Len(geLink)
    BY <1>1, DeviceType
  <1>4. PICK l \in LinkRecord : l = geLink[d]
    BY <1>3, DeviceFacts
  <1> DEFINE u == [t EXCEPT !.act = d, !.pc = "vni"]
             r == [l EXCEPT !.ops = @ + 1]
  <1>5. u \in GeTasks /\ u.pc = "vni" /\ u.why = t.why /\ u.car = t.car /\ u.act = d /\ u.err = t.err
    BY DEF GeTasks, GePcs, Sharing
  <1>6. r \in LinkRecord /\ r.up = l.up /\ r.vnis = l.vnis /\ r.recorded = l.recorded /\ r.ops = l.ops + 1
    BY DEF LinkRecord
  <1>7. geTask' = [geTask EXCEPT ![n] = u]
    <2>1. geTask' = [geTask EXCEPT ![n].act = d, ![n].pc = "vni"]
      BY <1>3
    <2>. QED BY <1>1, <1>2, <2>1 DEF GeTypes, GeTasks
  <1>8. geLink' = [geLink EXCEPT ![Device] = r]
    BY <1>3, <1>4
  <1> HIDE DEF u, r
  <1>9. r.up = TRUE /\ r.ops = Cardinality(Inside) + 1
    BY <1>3, <1>4, <1>6, DeviceFacts
  <1>10. \A m \in GeNets : (m \in r.vnis <=> Joined(m)) /\ (m \in r.recorded <=> Listed(m))
    BY <1>3, <1>4, <1>6, DeviceFacts
  <1>11. n \in Inside' /\ r.ops = Cardinality(Inside')
    BY <1>1, <1>2, <1>5, <1>7, <1>9, InsideCounts DEF Counting
  <1>12. HandlerOk(u)
    BY <1>2, <1>5 DEF HandlerOk, Counting
  <1>13. PlaceOk(u)
    BY <1>2, <1>3, <1>5 DEF PlaceOk, Sharing, Counting
  <1>14. KeysOk(n, u)
    BY <1>2, <1>5 DEF KeysOk, Served, HandlerOk
  <1>15. MemberOk(u, n \in r.vnis, n \in r.recorded)
    BY <1>5 DEF MemberOk, Staying
  <1>16. ~geSpoilt' => CleanOk(u, n \in r.vnis, n \in r.recorded)
    BY <1>2, <1>5, <1>10 DEF CleanOk, Away, HandlerOk
  <1>. QED BY <1>5, <1>6, <1>7, <1>8, <1>9, <1>10, <1>11, <1>12, <1>13, <1>14, <1>15, <1>16, DeviceMove

\* What is known of a handler that is counted.
LEMMA CountedTask ==
    ASSUME GroupInv, geBoot = "run", NEW n \in GeNets, geTask[n].pc \in Counting
    PROVE  \E t \in GeTasks, d \in Nat, l \in LinkRecord :
              /\ t = geTask[n] /\ d = Device /\ d # 0 /\ d \in 1..Len(geLink) /\ l = geLink[d] /\ t.act = d
              /\ HandlerOk(t) /\ PlaceOk(t) /\ KeysOk(n, t) /\ MemberOk(t, Joined(n), Listed(n))
              /\ ~geSpoilt => CleanOk(t, Joined(n), Listed(n))
  <1>1. GeTypes
    BY DEF GroupInv
  <1>2. PICK t \in GeTasks : /\ t = geTask[n] /\ HandlerOk(t) /\ PlaceOk(t) /\ KeysOk(n, t)
                             /\ MemberOk(t, Joined(n), Listed(n))
                             /\ (~geSpoilt => CleanOk(t, Joined(n), Listed(n)))
    BY OneTask
  <1>3. Device # 0 /\ t.act = Device
    BY <1>2 DEF PlaceOk
  <1>4. PICK d \in Nat : d = Device /\ d # 0 /\ d \in 1..Len(geLink)
    BY <1>1, <1>3, DeviceType
  <1>5. PICK l \in LinkRecord : l = geLink[d]
    BY <1>4, DeviceFacts
  <1>. QED BY <1>2, <1>3, <1>4, <1>5

LEMMA VniStep ==
    ASSUME GroupInv, geBoot = "run", NEW n \in GeNets, NEW ok \in BOOLEAN, ChangeVni(n, ok)
    PROVE  GroupInv'
  <1>1. GeTypes
    BY DEF GroupInv
  <1>0. geTask[n].pc = "vni"
    BY DEF ChangeVni
  <1>2. PICK t \in GeTasks, d \in Nat, l \in LinkRecord :
              /\ t = geTask[n] /\ d = Device /\ d # 0 /\ d \in 1..Len(geLink) /\ l = geLink[d] /\ t.act = d
              /\ HandlerOk(t) /\ PlaceOk(t) /\ KeysOk(n, t)
              /\ ~geSpoilt => CleanOk(t, Joined(n), Listed(n))
    BY <1>0, CountedTask DEF Counting
  <1>3. l.up = TRUE
    BY <1>2, DeviceFacts
  <1> DEFINE u == [t EXCEPT !.err = @ \/ ~ok, !.pc = IF ok THEN "record" ELSE "finish"]
             s == IF t.why = "setup" THEN l.vnis \cup {n} ELSE l.vnis \ {n}
             r == IF ok THEN [l EXCEPT !.vnis = s] ELSE l
  <1>5. /\ u \in GeTasks /\ u.pc = (IF ok THEN "record" ELSE "finish") /\ u.why = t.why
        /\ u.car = t.car /\ u.act = d /\ (u.err <=> t.err \/ ~ok)
    BY <1>2 DEF GeTasks, GePcs, Sharing
  <1>6. r \in LinkRecord /\ r.up = TRUE /\ r.recorded = l.recorded /\ r.ops = l.ops /\ r.vnis = IF ok THEN s ELSE l.vnis
    BY <1>3 DEF LinkRecord
  <1>7. geTask' = [geTask EXCEPT ![n] = u]
    <2>1. geTask' = [geTask EXCEPT ![n].err = t.err \/ ~ok, ![n].pc = IF ok THEN "record" ELSE "finish"]
      BY <1>2 DEF ChangeVni
    <2>. QED BY <1>1, <1>2, <2>1 DEF GeTypes, GeTasks
  <1>8. geLink' = [geLink EXCEPT ![Device] = r]
    <2>1. CASE ok
      <3>1. geLink' = [geLink EXCEPT ![d].vnis = s]
        BY <1>2, <1>3, <2>1 DEF ChangeVni, WithMember
      <3>. QED BY <1>2, <2>1, <3>1
    <2>2. CASE ~ok
      <3>1. geLink' = geLink /\ r = geLink[d]
        BY <1>2, <2>2 DEF ChangeVni
      <3>2. geLink \in Seq(LinkRecord)
        BY <1>1 DEF GeTypes
      <3>. QED BY <1>2, <3>1, <3>2
    <2>. QED BY <2>1, <2>2
  <1>9. /\ UNCHANGED <<geEdges, geOn, gePeers, geXfrm, geOwners, geLeft>> /\ UNCHANGED <<geEntry, geState, geHalf>> /\ geBoot' = geBoot
        /\ geSpoilt' = (geSpoilt \/ (~ok /\ t.why # "setup"))
    BY <1>2 DEF ChangeVni, mapVars, keyVars
  <1>10. \A m \in GeNets \ {n} : m \in s <=> m \in l.vnis
    OBVIOUS
  <1>11. n \in s <=> t.why = "setup"
    OBVIOUS
  <1> HIDE DEF u, s, r
  <1>12. \A m \in GeNets : (m \in l.vnis <=> Joined(m)) /\ (m \in l.recorded <=> Listed(m))
    BY <1>2, DeviceFacts
  <1>13. \A m \in GeNets \ {n} : (m \in r.vnis <=> Joined(m)) /\ (m \in r.recorded <=> Listed(m))
    BY <1>6, <1>10, <1>12
  <1>14. n \in Inside' /\ r.ops = Cardinality(Inside')
    <2>1. u.pc \in Counting /\ geTask[n].pc \in Counting
      BY <1>0, <1>5 DEF Counting
    <2>2. Inside' = Inside
      BY <1>1, <1>5, <1>7, <2>1, InsideCounts
    <2>3. n \in Inside /\ r.ops = Cardinality(Inside)
      BY <1>2, <1>6, <2>1, DeviceFacts DEF Inside
    <2>. QED BY <2>2, <2>3
  <1>15. HandlerOk(u)
    BY <1>0, <1>2, <1>5 DEF HandlerOk, Counting
  <1>16. PlaceOk(u)
    BY <1>0, <1>2, <1>5 DEF PlaceOk, Sharing, Counting
  <1>17. KeysOk(n, u)
    BY <1>0, <1>2, <1>5 DEF KeysOk, Served, HandlerOk, Counting
  <1>18. MemberOk(u, n \in r.vnis, n \in r.recorded)
    BY <1>5, <1>6, <1>11 DEF MemberOk, Staying
  <1>19. geSpoilt' \in BOOLEAN /\ (geSpoilt => geSpoilt')
    BY <1>9, MapsTyped
  <1>20. ~geSpoilt' => CleanOk(u, n \in r.vnis, n \in r.recorded)
    BY <1>0, <1>2, <1>5, <1>6, <1>9, <1>11, <1>12 DEF CleanOk, Away, HandlerOk, Counting
  <1>21. Device # 0
    BY <1>2
  <1>. QED BY <1>5, <1>6, <1>7, <1>8, <1>9, <1>13, <1>14, <1>15, <1>16, <1>17, <1>18, <1>19, <1>20, <1>21, DeviceMove

LEMMA RecordStep ==
    ASSUME GroupInv, geBoot = "run", NEW n \in GeNets, RecordVni(n)
    PROVE  GroupInv'
  <1>1. GeTypes
    BY DEF GroupInv
  <1>0. geTask[n].pc = "record"
    BY DEF RecordVni
  <1>2. PICK t \in GeTasks, d \in Nat, l \in LinkRecord :
              /\ t = geTask[n] /\ d = Device /\ d # 0 /\ d \in 1..Len(geLink) /\ l = geLink[d] /\ t.act = d
              /\ HandlerOk(t) /\ PlaceOk(t) /\ KeysOk(n, t) /\ MemberOk(t, Joined(n), Listed(n))
              /\ ~geSpoilt => CleanOk(t, Joined(n), Listed(n))
    BY <1>0, CountedTask DEF Counting
  <1>3. l.up = TRUE
    BY <1>2, DeviceFacts
  <1> DEFINE u == [t EXCEPT !.pc = "finish"]
             s == IF t.why = "setup" THEN l.recorded \cup {n} ELSE l.recorded \ {n}
             r == [l EXCEPT !.recorded = s]
  <1>5. u \in GeTasks /\ u.pc = "finish" /\ u.why = t.why /\ u.car = t.car /\ u.act = d /\ u.err = t.err
    BY <1>2 DEF GeTasks, GePcs, Sharing
  <1>6. r \in LinkRecord /\ r.up = TRUE /\ r.recorded = s /\ r.ops = l.ops /\ r.vnis = l.vnis
    BY <1>3 DEF LinkRecord
  <1>7. geTask' = [geTask EXCEPT ![n] = u]
    BY <1>2 DEF RecordVni
  <1>8. geLink' = [geLink EXCEPT ![Device] = r]
    <2>1. geLink' = [geLink EXCEPT ![d].recorded = s]
      BY <1>2 DEF RecordVni, WithMember
    <2>. QED BY <1>2, <2>1
  <1>9. UNCHANGED <<geEdges, geOn, gePeers, geXfrm, geOwners, geLeft>> /\ UNCHANGED <<geEntry, geState, geHalf, geBoot, geSpoilt>>
    BY DEF RecordVni, mapVars, keyVars
  <1>10. \A m \in GeNets \ {n} : m \in s <=> m \in l.recorded
    OBVIOUS
  <1>11. n \in s <=> t.why = "setup"
    OBVIOUS
  <1> HIDE DEF u, s, r
  <1>12. \A m \in GeNets : (m \in l.vnis <=> Joined(m)) /\ (m \in l.recorded <=> Listed(m))
    BY <1>2, DeviceFacts
  <1>13. \A m \in GeNets \ {n} : (m \in r.vnis <=> Joined(m)) /\ (m \in r.recorded <=> Listed(m))
    BY <1>6, <1>10, <1>12
  <1>14. n \in Inside' /\ r.ops = Cardinality(Inside')
    <2>1. u.pc \in Counting /\ geTask[n].pc \in Counting
      BY <1>0, <1>5 DEF Counting
    <2>2. Inside' = Inside
      BY <1>1, <1>5, <1>7, <2>1, InsideCounts
    <2>3. n \in Inside /\ r.ops = Cardinality(Inside)
      BY <1>2, <1>6, <2>1, DeviceFacts DEF Inside
    <2>. QED BY <2>2, <2>3
  <1>15. HandlerOk(u)
    BY <1>0, <1>2, <1>5 DEF HandlerOk, Counting
  <1>16. PlaceOk(u)
    BY <1>0, <1>2, <1>5 DEF PlaceOk, Sharing, Counting
  <1>17. KeysOk(n, u)
    BY <1>0, <1>2, <1>5 DEF KeysOk, Served, HandlerOk, Counting
  <1>18. MemberOk(u, n \in r.vnis, n \in r.recorded)
    BY <1>0, <1>2, <1>5, <1>6, <1>11, <1>12 DEF MemberOk, Staying
  <1>19. ~geSpoilt => CleanOk(u, n \in r.vnis, n \in r.recorded)
    BY <1>0, <1>2, <1>5, <1>6, <1>11, <1>12 DEF CleanOk, Away, HandlerOk, Counting
  <1>20. geSpoilt' \in BOOLEAN /\ geBoot' = "run" /\ Device # 0
    BY <1>2, <1>9, MapsTyped
  <1>. QED BY <1>5, <1>6, <1>7, <1>8, <1>9, <1>13, <1>14, <1>15, <1>16, <1>17, <1>18, <1>19, <1>20, DeviceMove

LEMMA FinishStep ==
    ASSUME GroupInv, geBoot = "run", NEW n \in GeNets, FinishOperation(n)
    PROVE  GroupInv'
  <1>1. GeTypes
    BY DEF GroupInv
  <1>0. geTask[n].pc = "finish"
    BY DEF FinishOperation
  <1>2. PICK t \in GeTasks, d \in Nat, l \in LinkRecord :
              /\ t = geTask[n] /\ d = Device /\ d # 0 /\ d \in 1..Len(geLink) /\ l = geLink[d] /\ t.act = d
              /\ HandlerOk(t) /\ PlaceOk(t) /\ KeysOk(n, t) /\ MemberOk(t, Joined(n), Listed(n))
              /\ ~geSpoilt => CleanOk(t, Joined(n), Listed(n))
    BY <1>0, CountedTask DEF Counting
  <1>3. l.up = TRUE /\ l.ops = Cardinality(Inside) /\ n \in Inside
    BY <1>0, <1>2, DeviceFacts DEF Inside, Counting
  <1>4. l.ops \in Nat /\ l.ops # 0
    <2>1. PICK S : S = Inside
      OBVIOUS
    <2>2. IsFiniteSet(S)
      <3>1. S \subseteq GeNets /\ IsFiniteSet(GeNets)
        BY <2>1, GeAssumption DEF Inside
      <3>. QED BY <3>1, FS_Subset
    <2>3. Cardinality(S) # 0
      BY <1>3, <2>1, <2>2, FS_EmptySet
    <2>. QED BY <1>3, <2>1, <2>3 DEF LinkRecord
  <1> DEFINE last == l.ops = 1 /\ l.recorded = {}
             u == IF last THEN [t EXCEPT !.pc = "empty"]
                          ELSE [t EXCEPT !.car = 0, !.act = 0, !.pc = "left"]
             r == [l EXCEPT !.ops = @ - 1]
  <1>5. /\ u \in GeTasks /\ u.why = t.why /\ u.err = t.err
        /\ \/ last /\ u.pc = "empty" /\ u.car = t.car /\ u.act = d
           \/ ~last /\ u.pc = "left" /\ u.car = 0 /\ u.act = 0
    BY <1>2 DEF GeTasks, GePcs, Sharing
  <1>6. r \in LinkRecord /\ r.up = TRUE /\ r.recorded = l.recorded /\ r.ops = l.ops - 1 /\ r.vnis = l.vnis
    BY <1>3, <1>4 DEF LinkRecord
  <1>7. geTask' = [geTask EXCEPT ![n] = u]
    <2>1. geTask' = IF last THEN [geTask EXCEPT ![n].pc = "empty"]
                            ELSE [geTask EXCEPT ![n].car = 0, ![n].act = 0, ![n].pc = "left"]
      BY <1>2 DEF FinishOperation, LastOperation
    <2>. QED BY <1>1, <1>2, <2>1 DEF GeTypes, GeTasks
  <1>8. geLink' = [geLink EXCEPT ![Device] = r]
    <2>1. geLink' = [geLink EXCEPT ![d].ops = l.ops - 1]
      BY <1>2 DEF FinishOperation
    <2>. QED BY <1>2, <2>1
  <1>9. UNCHANGED <<geEdges, geOn, gePeers, geXfrm, geOwners, geLeft>> /\ UNCHANGED <<geEntry, geState, geHalf, geBoot, geSpoilt>>
    BY DEF FinishOperation, mapVars, keyVars
  <1> HIDE DEF u, r
  <1>10. \A m \in GeNets : (m \in r.vnis <=> Joined(m)) /\ (m \in r.recorded <=> Listed(m))
    BY <1>2, <1>6, DeviceFacts
  <1>11. r.ops = Cardinality(Inside')
    <2>1. u.pc \notin Counting /\ geTask[n].pc \in Counting
      BY <1>0, <1>5 DEF Counting
    <2>. QED BY <1>1, <1>3, <1>5, <1>6, <1>7, <2>1, InsideCounts
  <1>12. r.recorded = {} => Inside' # {} \/ \E m \in GeNets : geTask'[m].pc = "empty" /\ geTask'[m].act = Device
    <2>1. CASE last
      <3>1. geTask'[n] = u
        BY <1>1, <1>7 DEF GeTypes
      <3>. QED BY <1>2, <1>5, <2>1, <3>1
    <2>2. CASE ~last
      <3>1. r.recorded = {} => r.ops # 0
        BY <1>4, <1>6, <2>2
      <3>. QED BY <1>11, <3>1, FS_EmptySet
    <2>. QED BY <2>1, <2>2
  <1>13. n \in l.recorded <=> Listed(n)
    BY <1>6, <1>10
  <1>14. HandlerOk(u)
    <2>1. u.pc = "empty" /\ t.why = "setup" => t.err
      BY <1>0, <1>2, <1>5, <1>13 DEF MemberOk, Staying
    <2>. QED BY <1>0, <1>2, <1>5, <2>1 DEF HandlerOk, Counting
  <1>15. PlaceOk(u)
    BY <1>0, <1>2, <1>5 DEF PlaceOk, Sharing, Counting
  <1>16. KeysOk(n, u)
    BY <1>0, <1>2, <1>5 DEF KeysOk, Served, HandlerOk, Counting
  <1>17. MemberOk(u, n \in r.vnis, n \in r.recorded)
    BY <1>0, <1>2, <1>5, <1>10 DEF MemberOk, Staying
  <1>18. ~geSpoilt => CleanOk(u, n \in r.vnis, n \in r.recorded)
    BY <1>0, <1>2, <1>5, <1>10 DEF CleanOk, Away, HandlerOk, Counting
  <1>19. geSpoilt' \in BOOLEAN /\ geBoot' = "run" /\ Device # 0
    BY <1>2, <1>9, MapsTyped
  <1>. QED BY <1>5, <1>6, <1>7, <1>8, <1>9, <1>10, <1>11, <1>12, <1>14, <1>15, <1>16, <1>17, <1>18, <1>19, DeviceMove

\* Engine::carrier finds the carrier of the map, or puts in one without a device.
LEMMA GetStep ==
    ASSUME GroupInv, geBoot = "run", NEW n \in GeNets, GetCarrier(n)
    PROVE  GroupInv'
  <1>1. GeTypes /\ RunInv
    BY DEF GroupInv
  <1>2. PICK t \in GeTasks : /\ t = geTask[n] /\ HandlerOk(t) /\ PlaceOk(t) /\ KeysOk(n, t)
                             /\ (~geSpoilt => CleanOk(t, Joined(n), Listed(n)))
    BY OneTask
  <1>0. t.pc \in {"carrier", "release"}
    BY <1>2 DEF GetCarrier
  <1>3. PICK e : e = geEntry'
    OBVIOUS
  <1>4. e \in Nat
    <2>1. Len(geState) \in Nat /\ geEntry \in Nat
      BY <1>1, DeviceType DEF GeTypes
    <2>. QED BY <1>3, <2>1 DEF GetCarrier
  <1> DEFINE p == IF e = 0 THEN "left" ELSE IF t.pc = "carrier" THEN "enter" ELSE "leave"
             u == [t EXCEPT !.car = e, !.pc = p]
  <1>5. u \in GeTasks /\ u.pc = p /\ u.why = t.why /\ u.car = e /\ u.act = t.act /\ u.err = t.err
    BY <1>4 DEF GeTasks, GePcs, Sharing
  <1>6. geTask' = [geTask EXCEPT ![n] = u]
    <2>1. geTask' = [geTask EXCEPT ![n].car = e, ![n].pc = p]
      BY <1>2, <1>3 DEF GetCarrier
    <2>. QED BY <1>1, <1>2, <2>1 DEF GeTypes, GeTasks
  <1>7. UNCHANGED <<geEdges, geOn, gePeers, geXfrm, geOwners, geLeft>> /\ UNCHANGED <<geLink, geHalf, geBoot, geSpoilt>>
    BY DEF GetCarrier, mapVars, keyVars
  <1>8. geTask[n].pc \notin Counting \cup {"empty"} /\ u.pc \notin Counting
    BY <1>0, <1>2, <1>5 DEF Counting
  <1>9. KeysOk(n, u)
    BY <1>0, <1>2, <1>5 DEF KeysOk, Served, HandlerOk
  <1> HIDE DEF u
  <1>10. CASE geEntry = 0 /\ t.pc = "carrier"
    <2>1. geEntry' = Len(geState) + 1 /\ geState' = Append(geState, 0)
      BY <1>2, <1>10 DEF GetCarrier
    <2>2. geState \in Seq(Nat) /\ Len(geState) \in Nat /\ Len(geLink) \in Nat
      BY <1>1, DeviceType DEF GeTypes
    <2>3. /\ geState' \in Seq(Nat) /\ Len(geState') = Len(geState) + 1
          /\ geState'[Len(geState) + 1] = 0
          /\ \A c \in 1..Len(geState) : geState'[c] = geState[c]
      BY <2>1, <2>2, AppendProperties
    <2>4. Device = 0 /\ Device' = 0
      BY <1>10, <2>1, <2>2, <2>3 DEF Device
    <2>5. geEntry' \in 0..Len(geState')
      BY <2>1, <2>2, <2>3
    <2>6. \A c \in 1..Len(geState') : geState'[c] \in 0..Len(geLink')
      <3> TAKE c \in 1..Len(geState')
      <3>1. c = Len(geState) + 1 \/ c \in 1..Len(geState)
        BY <2>2, <2>3
      <3>2. c \in 1..Len(geState) => geState[c] \in 0..Len(geLink)
        BY <1>1 DEF GeTypes
      <3>3. geState'[c] = 0 \/ geState'[c] \in 0..Len(geLink)
        BY <2>3, <3>1, <3>2
      <3>. QED BY <1>7, <2>2, <3>3
    <2>7. \A m \in GeNets : geTask[m].pc \notin Sharing /\ geTask[m].pc \notin Counting
      <3>1. \A m \in GeNets : PlaceOk(geTask[m])
        BY <1>1 DEF RunInv, TaskOk
      <3>. QED BY <1>10, <3>1 DEF PlaceOk, Sharing, Counting
    <2>8. \A m \in GeNets : Joined(m) = FALSE /\ Listed(m) = FALSE /\ Joined(m)' = FALSE /\ Listed(m)' = FALSE
      BY <2>4 DEF Joined, Listed
    <2>9. \A m \in GeNets \ {n} : MemberOk(geTask[m], Joined(m)', Listed(m)')
      BY <1>1, <2>8 DEF RunInv, TaskOk
    <2>10. u.pc = "enter" /\ u.why = "setup" /\ u.err = FALSE /\ e # 0
      BY <1>0, <1>2, <1>3, <1>5, <1>10, <2>1, <2>2 DEF HandlerOk, GeTasks
    <2>11. HandlerOk(u) /\ MemberOk(u, Joined(n)', Listed(n)')
      BY <2>10 DEF HandlerOk, MemberOk, Staying, Counting
    <2>12. PlaceOk(u)'
      BY <1>2, <1>3, <1>5, <1>7, <2>10 DEF PlaceOk, Sharing, Counting
    <2>13. DeviceOk'
      <3>1. \A a \in 1..Len(geLink) : geLink[a].up <=> a = Device
        BY <1>1 DEF RunInv, DeviceOk
      <3>. QED BY <1>7, <2>4, <3>1 DEF DeviceOk
    <2>14. SomeoneLooks' /\ CleanOk(u, Joined(n)', Listed(n)')
      BY <2>4, <2>8 DEF SomeoneLooks, CleanOk
    <2>15. ~geSpoilt' => \A m \in GeNets \ {n} : CleanOk(geTask[m], Joined(m)', Listed(m)')
      BY <2>8 DEF CleanOk
    <2>16. geLink' \in Seq(LinkRecord) /\ Len(geLink') \in Nat /\ Len(geLink) <= Len(geLink')
      BY <1>1, <1>7, <2>2 DEF GeTypes
    <2>17. /\ geSpoilt' \in BOOLEAN /\ geBoot' = "run" /\ (geSpoilt => geSpoilt')
           /\ geHalf' \in BOOLEAN /\ (geHalf' => Device' = 0)
      BY <1>7, <2>4, MapsTyped
    <2>. QED BY <1>5, <1>6, <1>7, <1>9, <2>2, <2>3, <2>5, <2>6, <2>7, <2>9, <2>11, <2>12, <2>13, <2>14, <2>15,
                <2>16, <2>17, CarrierMove
  <1>11. CASE ~(geEntry = 0 /\ t.pc = "carrier")
    <2>1. UNCHANGED <<geEntry, geState>> /\ e = geEntry
      BY <1>2, <1>3, <1>11 DEF GetCarrier
    <2>2. HandlerOk(u)
      BY <1>0, <1>2, <1>5, <1>11, <2>1 DEF HandlerOk, Counting
    <2>3. PlaceOk(u)
      BY <1>2, <1>5, <2>1 DEF PlaceOk, Sharing, Counting
    <2>4. MemberOk(u, Joined(n), Listed(n))
      BY <1>0, <1>2, <1>5, <1>11, <2>1 DEF MemberOk, Staying, HandlerOk
    <2>5. e = 0 => ~Joined(n) /\ ~Listed(n)
      BY <2>1 DEF Joined, Listed, Device
    <2>6. ~geSpoilt => CleanOk(u, Joined(n), Listed(n))
      BY <1>0, <1>2, <1>5, <1>11, <2>5 DEF CleanOk, Away, HandlerOk
    <2>7. KeysOk(n, u)'
      BY <1>7, <1>9 DEF KeysOk, Served, HandlerOk
    <2>. QED BY <1>5, <1>6, <1>7, <1>8, <2>1, <2>2, <2>3, <2>4, <2>6, <2>7, MapsTyped, QuietMove
  <1>. QED BY <1>10, <1>11

\* Under the lock: the device is used, created, or cannot be.
LEMMA EnterStep ==
    ASSUME GroupInv, geBoot = "run", NEW n \in GeNets, NEW res \in Results, EnterCarrier(n, res)
    PROVE  GroupInv'
  <1>1. GeTypes /\ RunInv
    BY DEF GroupInv
  <1>2. PICK t \in GeTasks : /\ t = geTask[n] /\ HandlerOk(t) /\ PlaceOk(t) /\ KeysOk(n, t)
                             /\ (~geSpoilt => CleanOk(t, Joined(n), Listed(n)))
    BY OneTask
  <1>0. t.pc = "enter" /\ t.why = "setup" /\ t.err = FALSE
    BY <1>2 DEF EnterCarrier, HandlerOk, GeTasks
  <1>3. t.car = geEntry /\ geEntry # 0 /\ geState[geEntry] = Device
    BY <1>0, <1>2 DEF PlaceOk, Sharing, Device
  <1>4. geEntry \in 1..Len(geState) /\ Len(geState) \in Nat /\ Len(geLink) \in Nat
    BY <1>1, <1>3, DeviceType DEF GeTypes
  <1>5. UNCHANGED <<geEdges, geOn, gePeers, geXfrm, geOwners, geLeft>> /\ UNCHANGED <<geEntry, geBoot, geSpoilt>>
    BY DEF EnterCarrier, mapVars, keyVars
  <1>6. geSpoilt' \in BOOLEAN /\ geBoot' = "run" /\ (geSpoilt => geSpoilt')
    BY <1>5, MapsTyped
  <1>7. CASE Device # 0
    <2>1. /\ geLink' = [geLink EXCEPT ![Device].ops = @ + 1] /\ UNCHANGED <<geState, geHalf>>
          /\ geTask' = [geTask EXCEPT ![n].act = Device, ![n].pc = "vni"]
      BY <1>2, <1>3, <1>7 DEF EnterCarrier
    <2>. QED BY <1>0, <1>2, <1>5, <1>6, <1>7, <2>1, JoinMove
  <1>8. CASE Device = 0 /\ res = "ok"
    <2>0. PICK new \in Nat : new = Len(geLink) + 1
      BY <1>4
    <2> DEFINE u == [t EXCEPT !.act = new, !.pc = "vni"]
    <2>1. PICK c \in 1..Len(geState) : c = geEntry
      BY <1>4
    <2>2. /\ ~geHalf /\ (\A b \in DOMAIN geLink : ~geLink[b].up) /\ UNCHANGED geHalf
          /\ geLink' = Append(geLink, NewLink) /\ geState' = [geState EXCEPT ![c] = new]
          /\ geTask' = [geTask EXCEPT ![n].act = new, ![n].pc = "vni"]
      BY <1>2, <1>3, <1>8, <2>0, <2>1 DEF EnterCarrier
    <2>3. u \in GeTasks /\ u.pc = "vni" /\ u.why = "setup" /\ u.car = t.car /\ u.act = new /\ u.err = FALSE
      BY <1>0, <1>4 DEF GeTasks, GePcs, Sharing
    <2>4. geTask' = [geTask EXCEPT ![n] = u]
      BY <1>1, <1>2, <2>2 DEF GeTypes, GeTasks
    <2>5. NewLink \in LinkRecord /\ NewLink.up = TRUE /\ NewLink.vnis = {} /\ NewLink.recorded = {} /\ NewLink.ops = 1
      BY DEF NewLink, LinkRecord
    <2> HIDE DEF u
    <2>6. /\ geLink' \in Seq(LinkRecord) /\ Len(geLink') = new /\ geLink'[new] = NewLink
          /\ \A a \in 1..Len(geLink) : geLink'[a] = geLink[a]
      <3>1. geLink \in Seq(LinkRecord)
        BY <1>1 DEF GeTypes
      <3>. QED BY <2>0, <2>2, <2>5, <3>1, AppendProperties
    <2>7. /\ geState' \in Seq(Nat) /\ Len(geState') = Len(geState) /\ geState'[c] = new
          /\ \A b \in 1..Len(geState) : b # c => geState'[b] = geState[b]
      <3>1. geState \in Seq(Nat) /\ new \in Nat
        BY <1>1, <1>4 DEF GeTypes
      <3>. QED BY <2>1, <2>2, <3>1, ExceptSeq, LenProperties
    <2>8. Device' = new
      BY <1>3, <1>5, <2>1, <2>7 DEF Device
    <2>9. \A b \in 1..Len(geState') : geState'[b] \in 0..Len(geLink')
      <3> TAKE b \in 1..Len(geState')
      <3>1. b \in 1..Len(geState) /\ geState[b] \in 0..Len(geLink)
        BY <1>1, <2>7 DEF GeTypes
      <3>2. geState'[b] = new \/ geState'[b] \in 0..Len(geLink)
        BY <2>7, <3>1
      <3>. QED BY <1>4, <2>0, <2>6, <3>2
    <2>10. \A m \in GeNets : geTask[m].pc \notin Counting
      <3>1. \A m \in GeNets : PlaceOk(geTask[m])
        BY <1>1 DEF RunInv, TaskOk
      <3>. QED BY <1>8, <3>1 DEF PlaceOk
    <2>11. Inside' = {n}
      <3>1. geTask'[n] = u /\ \A m \in GeNets \ {n} : geTask'[m] = geTask[m]
        BY <1>1, <2>4 DEF GeTypes
      <3>2. u.pc \in Counting
        BY <2>3 DEF Counting
      <3>. QED BY <2>10, <3>1, <3>2 DEF Inside
    <2>12. DeviceOk'
      <3>1. \A a \in 1..Len(geLink) : ~geLink[a].up
        <4>1. geLink \in Seq(LinkRecord)
          BY <1>1 DEF GeTypes
        <4>. QED BY <2>2, <4>1, LenProperties
      <3>2. \A a \in 1..Len(geLink') : geLink'[a].up <=> a = new
        BY <1>4, <2>0, <2>5, <2>6, <3>1
      <3>3. geLink'[Device'].ops = Cardinality(Inside')
        BY <2>5, <2>6, <2>8, <2>11, FS_Singleton
      <3>. QED BY <2>8, <3>2, <3>3 DEF DeviceOk
    <2>13. \A m \in GeNets : ~Joined(m) /\ ~Listed(m) /\ ~Joined(m)' /\ ~Listed(m)'
      BY <1>4, <1>8, <2>0, <2>5, <2>6, <2>8 DEF Joined, Listed
    <2>14. \A m \in GeNets \ {n} : MemberOk(geTask[m], Joined(m)', Listed(m)')
      <3>1. \A m \in GeNets : MemberOk(geTask[m], Joined(m), Listed(m))
        BY <1>1 DEF RunInv, TaskOk
      <3>. QED BY <2>13, <3>1 DEF MemberOk
    <2>15. HandlerOk(u) /\ MemberOk(u, Joined(n)', Listed(n)')
      BY <2>3 DEF HandlerOk, MemberOk, Staying, Counting
    <2>16. PlaceOk(u)'
      <3>1. new # 0 /\ new \in 0..Len(geLink')
        BY <1>4, <2>0, <2>6
      <3>. QED BY <1>3, <1>5, <2>3, <2>8, <3>1 DEF PlaceOk, Sharing, Counting
    <2>17. KeysOk(n, u)
      BY <1>0, <1>2, <2>3 DEF KeysOk, Served, HandlerOk
    <2>18. SomeoneLooks'
      BY <2>11 DEF SomeoneLooks, Inside
    <2>19. CleanOk(u, Joined(n)', Listed(n)') /\ \A m \in GeNets \ {n} : CleanOk(geTask[m], Joined(m)', Listed(m)')
      BY <2>13 DEF CleanOk
    <2>21. geHalf' \in BOOLEAN /\ (geHalf' => Device' = 0)
      BY <2>2, MapsTyped
    <2>20. Len(geLink') \in Nat /\ Len(geLink) <= Len(geLink') /\ geEntry' \in 0..Len(geState') /\ geEntry' = geEntry
      BY <1>4, <1>5, <2>0, <2>6, <2>7
    <2>. QED BY <1>4, <1>5, <1>6, <2>3, <2>4, <2>6, <2>7, <2>9, <2>10, <2>12, <2>14, <2>15, <2>16, <2>17, <2>18,
                <2>19, <2>20, <2>21, CarrierMove
  <1>9. CASE Device = 0 /\ res # "ok"
    <2> DEFINE u == [t EXCEPT !.car = 0, !.err = TRUE, !.pc = "left"]
    <2>1. /\ geTask' = [geTask EXCEPT ![n].car = 0, ![n].err = TRUE, ![n].pc = "left"] /\ UNCHANGED <<geLink, geState>>
          /\ geHalf' \in BOOLEAN
      BY <1>2, <1>3, <1>9, MapsTyped DEF EnterCarrier
    <2>2. u \in GeTasks /\ u.pc = "left" /\ u.why = "setup" /\ u.car = 0 /\ u.act = t.act /\ u.err = TRUE
      BY <1>0 DEF GeTasks, GePcs
    <2>3. geTask' = [geTask EXCEPT ![n] = u]
      BY <1>1, <1>2, <2>1 DEF GeTypes, GeTasks
    <2> HIDE DEF u
    <2>4. HandlerOk(u) /\ MemberOk(u, Joined(n), Listed(n))
      BY <2>2 DEF HandlerOk, MemberOk, Staying, Counting
    <2>5. PlaceOk(u)
      BY <1>2, <2>2 DEF PlaceOk, Sharing, Counting
    <2>6. KeysOk(n, u)'
      BY <1>0, <1>2, <1>5, <2>2 DEF KeysOk, Served, HandlerOk
    <2>7. ~geSpoilt => CleanOk(u, Joined(n), Listed(n))
      BY <1>0, <1>2, <2>2 DEF CleanOk, Away
    <2>8. geTask[n].pc \notin Counting \cup {"empty"} /\ u.pc \notin Counting
      BY <1>0, <1>2, <2>2 DEF Counting
    <2>. QED BY <1>5, <1>6, <1>9, <2>1, <2>2, <2>3, <2>4, <2>5, <2>6, <2>7, <2>8, MapsTyped, QuietMove
  <1>. QED BY <1>7, <1>8, <1>9

\* The device goes: nobody is counted inside, and nobody else is on record.
LEMMA DropMove ==
    ASSUME GroupInv, geBoot = "run", geBoot' = "run", UNCHANGED <<geEdges, geOn, gePeers, geXfrm, geOwners, geLeft>>,
           NEW n \in GeNets, NEW u \in GeTasks, geTask' = [geTask EXCEPT ![n] = u],
           geTask[n].pc \in {"leave", "empty"}, Device # 0,
           geLink[Device].ops = 0, geLink[Device].recorded \subseteq {n}, DropCarrier(n),
           u.pc = "left", u.car = 0, u.act \in 0..Len(geLink), HandlerOk(u), KeysOk(n, u),
           u.why = "setup" => u.err,
           geSpoilt' \in BOOLEAN, geSpoilt => geSpoilt'
    PROVE  GroupInv'
  <1>1. GeTypes /\ RunInv
    BY DEF GroupInv
  <1>2. \A m \in GeNets : PlaceOk(geTask[m]) /\ MemberOk(geTask[m], Joined(m), Listed(m))
    BY <1>1 DEF RunInv, TaskOk
  <1>3. Len(geState) \in Nat /\ Len(geLink) \in Nat /\ geState \in Seq(Nat) /\ geLink \in Seq(LinkRecord)
    BY <1>1, DeviceType DEF GeTypes
  <1>4. PICK c \in 1..Len(geState), d \in 1..Len(geLink) : c = geEntry /\ d = Device /\ geState[c] = d
    BY <1>1, DeviceType
  <1>5. geTask[n].car = c
    BY <1>2, <1>4 DEF PlaceOk, Sharing
  <1>6. PICK l \in LinkRecord : l = geLink[d]
    BY <1>4, DeviceFacts
  <1> DEFINE r == [l EXCEPT !.up = FALSE, !.vnis = {}]
  <1>7. r \in LinkRecord /\ r.up = FALSE
    BY DEF LinkRecord
  <1>8. geLink' = [geLink EXCEPT ![d] = r]
    <2>1. geLink' = [geLink EXCEPT ![d].up = FALSE, ![d].vnis = {}]
      BY <1>4, <1>5 DEF DropCarrier
    <2>. QED BY <1>3, <1>4, <1>6, <2>1
  <1>9. geState' = [geState EXCEPT ![c] = 0] /\ geEntry' = IF DropsEntry(c) THEN 0 ELSE geEntry
    BY <1>5 DEF DropCarrier
  <1> HIDE DEF r
  <1>10. /\ geLink' \in Seq(LinkRecord) /\ Len(geLink') = Len(geLink)
         /\ geLink'[d] = r /\ \A a \in 1..Len(geLink) : a # d => geLink'[a] = geLink[a]
    BY <1>3, <1>4, <1>7, <1>8, ExceptSeq, LenProperties
  <1>11. /\ geState' \in Seq(Nat) /\ Len(geState') = Len(geState)
         /\ geState'[c] = 0 /\ \A b \in 1..Len(geState) : b # c => geState'[b] = geState[b]
    BY <1>3, <1>4, <1>9, ExceptSeq, LenProperties
  <1>12. Device' = 0
    BY <1>4, <1>9, <1>11 DEF Device
  <1>13. \A m \in GeNets : geTask[m].pc \notin Counting
    <2>1. Cardinality(Inside) = 0
      BY DeviceFacts
    <2>2. IsFiniteSet(Inside)
      <3>1. Inside \subseteq GeNets /\ IsFiniteSet(GeNets)
        BY GeAssumption DEF Inside
      <3>. QED BY <3>1, FS_Subset
    <2>3. Inside = {}
      BY <2>1, <2>2, FS_EmptySet
    <2>. QED BY <2>3 DEF Inside
  <1>14. ASSUME NEW m \in GeNets \ {n}, geTask[m].pc \in Sharing PROVE geEntry' = geEntry
    <2>1. SUFFICES ASSUME DropsEntry(c) PROVE FALSE
      BY <1>9
    <2>2. PICK S : S = {k \in GeNets : geTask[k].car = c}
      OBVIOUS
    <2>3. n \in S /\ m \in S /\ n # m
      BY <1>2, <1>4, <1>5, <1>14, <2>2 DEF PlaceOk
    <2>4. IsFiniteSet(S)
      <3>1. S \subseteq GeNets /\ IsFiniteSet(GeNets)
        BY <2>2, GeAssumption
      <3>. QED BY <3>1, FS_Subset
    <2>5. Cardinality(S) \in Nat
      BY <2>4, FS_CardinalityType
    <2>6. 1 + Cardinality(S) = 2
      BY <2>1, <2>2, <1>4 DEF DropsEntry, StrongCount
    <2>7. Cardinality(S) = 1
      BY <2>5, <2>6
    <2>8. \E x : S = {x}
      BY <2>4, <2>7, FS_Singleton
    <2>. QED BY <2>3, <2>8
  <1>15. \A m \in GeNets : Joined(m)' = FALSE /\ Listed(m)' = FALSE
    BY <1>12 DEF Joined, Listed
  <1>16. \A m \in GeNets \ {n} : MemberOk(geTask[m], Joined(m)', Listed(m)')
    <2>1. \A m \in GeNets \ {n} : ~Listed(m)
      BY DEF Listed
    <2>2. \A m \in GeNets : geTask[m].pc # "record"
      BY <1>13 DEF Counting
    <2>. QED BY <1>2, <2>1, <2>2 DEF MemberOk
  <1>17. MemberOk(u, Joined(n)', Listed(n)')
    BY DEF MemberOk, Staying
  <1>18. PlaceOk(u)'
    BY <1>10 DEF PlaceOk, Sharing, Counting
  <1>19. DeviceOk'
    <2>1. \A a \in 1..Len(geLink) : geLink[a].up <=> a = d
      BY <1>1, <1>4 DEF RunInv, DeviceOk
    <2>2. \A a \in 1..Len(geLink') : ~geLink'[a].up
      BY <1>7, <1>10, <2>1
    <2>. QED BY <1>3, <1>10, <1>12, <2>2 DEF DeviceOk
  <1>20. SomeoneLooks'
    BY <1>12 DEF SomeoneLooks
  <1>21. CleanOk(u, Joined(n)', Listed(n)') /\ \A m \in GeNets \ {n} : CleanOk(geTask[m], Joined(m)', Listed(m)')
    BY <1>15 DEF CleanOk
  <1>22. geEntry' \in 0..Len(geState') /\ Len(geLink') \in Nat /\ Len(geLink) <= Len(geLink')
    BY <1>3, <1>4, <1>9, <1>10, <1>11
  <1>23. \A b \in 1..Len(geState') : geState'[b] \in 0..Len(geLink')
    <2> TAKE b \in 1..Len(geState')
    <2>1. b \in 1..Len(geState) /\ Len(geLink') = Len(geLink)
      BY <1>10, <1>11
    <2>2. geState[b] \in 0..Len(geLink)
      BY <1>1, <2>1 DEF GeTypes
    <2>3. geState'[b] = geState[b] \/ geState'[b] = 0
      BY <1>11, <2>1
    <2>4. 0 \in 0..Len(geLink)
      BY <1>3
    <2>. QED BY <2>1, <2>2, <2>3, <2>4
  <1>24. /\ (\E m \in GeNets \ {n} : geTask[m].pc \in Sharing) => geEntry' = geEntry
         /\ (\E m \in GeNets \ {n} : geTask[m].pc \in Counting) => Device' = Device
    BY <1>13, <1>14
  <1>25. geHalf' \in BOOLEAN /\ (geHalf' => Device' = 0)
    BY <1>12, MapsTyped DEF DropCarrier
  <1>. QED BY <1>3, <1>10, <1>11, <1>16, <1>17, <1>18, <1>19, <1>20, <1>21, <1>22, <1>23, <1>24, <1>25, CarrierMove

\* release_carrier, under the lock.
LEMMA LeaveStep ==
    ASSUME GroupInv, geBoot = "run", NEW n \in GeNets, NEW ok \in BOOLEAN, LeaveCarrier(n, ok)
    PROVE  GroupInv'
  <1>1. GeTypes
    BY DEF GroupInv
  <1>2. PICK t \in GeTasks : t = geTask[n] /\ HandlerOk(t) /\ PlaceOk(t) /\ KeysOk(n, t)
    BY OneTask
  <1>0. t.pc = "leave" /\ t.why \in {"undo", "retire"}
    BY <1>2 DEF LeaveCarrier, HandlerOk
  <1>3. t.car = geEntry /\ geState[t.car] = Device
    BY <1>0, <1>2 DEF PlaceOk, Sharing, Device
  <1>4. /\ UNCHANGED <<geEdges, geOn, gePeers, geXfrm, geOwners, geLeft>> /\ geBoot' = "run"
        /\ geSpoilt' = (geSpoilt \/ ~ok)
    BY DEF LeaveCarrier, mapVars, keyVars
  <1>5. geSpoilt' \in BOOLEAN /\ (geSpoilt => geSpoilt') /\ (~geSpoilt' => ok)
    BY <1>4
  <1>6. \/ /\ Device = 0 /\ ok /\ UNCHANGED <<geEntry, geState, geLink, geHalf>>
           /\ geTask' = [geTask EXCEPT ![n].car = 0, ![n].pc = "left"]
        \/ /\ Device # 0 /\ LastMember(n, Device)
           /\ IF ok THEN DropCarrier(n) ELSE UNCHANGED <<geEntry, geState, geLink, geHalf>>
           /\ geTask' = [geTask EXCEPT ![n].car = 0, ![n].err = t.err \/ ~ok, ![n].pc = "left"]
        \/ /\ Device # 0 /\ UNCHANGED <<geEntry, geState, geHalf>>
           /\ geLink' = [geLink EXCEPT ![Device].ops = @ + 1]
           /\ geTask' = [geTask EXCEPT ![n].act = Device, ![n].pc = "vni"]
    BY <1>2, <1>3 DEF LeaveCarrier, carrierVars
  <1>7. CASE /\ Device # 0 /\ UNCHANGED <<geEntry, geState, geHalf>>
             /\ geLink' = [geLink EXCEPT ![Device].ops = @ + 1]
             /\ geTask' = [geTask EXCEPT ![n].act = Device, ![n].pc = "vni"]
    BY <1>0, <1>2, <1>4, <1>5, <1>7, JoinMove
  <1>8. CASE ~(/\ Device # 0 /\ UNCHANGED <<geEntry, geState, geHalf>>
               /\ geLink' = [geLink EXCEPT ![Device].ops = @ + 1]
               /\ geTask' = [geTask EXCEPT ![n].act = Device, ![n].pc = "vni"])
    <2>1. PICK u \in GeTasks :
             /\ geTask' = [geTask EXCEPT ![n] = u]
             /\ u.pc = "left" /\ u.why = t.why /\ u.car = 0 /\ u.act = t.act /\ (t.err \/ (Device # 0 /\ ~ok) => u.err)
      <3>1. CASE Device = 0
        <4>1. geTask' = [geTask EXCEPT ![n].car = 0, ![n].pc = "left"]
          BY <1>6, <1>8, <3>1
        <4> DEFINE v == [t EXCEPT !.car = 0, !.pc = "left"]
        <4>2. v \in GeTasks /\ v.pc = "left" /\ v.why = t.why /\ v.car = 0 /\ v.act = t.act /\ v.err = t.err
          BY DEF GeTasks, GePcs
        <4>3. geTask' = [geTask EXCEPT ![n] = v]
          BY <1>1, <1>2, <4>1 DEF GeTypes, GeTasks
        <4> HIDE DEF v
        <4>. QED BY <3>1, <4>2, <4>3
      <3>2. CASE Device # 0
        <4>1. geTask' = [geTask EXCEPT ![n].car = 0, ![n].err = t.err \/ ~ok, ![n].pc = "left"]
          BY <1>6, <1>8, <3>2
        <4> DEFINE v == [t EXCEPT !.car = 0, !.err = @ \/ ~ok, !.pc = "left"]
        <4>2. v \in GeTasks /\ v.pc = "left" /\ v.why = t.why /\ v.car = 0 /\ v.act = t.act /\ (v.err <=> t.err \/ ~ok)
          BY DEF GeTasks, GePcs
        <4>3. geTask' = [geTask EXCEPT ![n] = v]
          BY <1>1, <1>2, <4>1 DEF GeTypes, GeTasks
        <4> HIDE DEF v
        <4>. QED BY <3>2, <4>2, <4>3
      <3>. QED BY <3>1, <3>2
    <2>2. HandlerOk(u) /\ MemberOk(u, Joined(n), Listed(n))
      BY <1>0, <2>1 DEF HandlerOk, MemberOk, Staying, Counting
    <2>3. PlaceOk(u) /\ u.act \in 0..Len(geLink)
      BY <1>2, <2>1 DEF PlaceOk, Sharing, Counting
    <2>4. KeysOk(n, u)
      BY <1>0, <1>2, <2>1 DEF KeysOk, Served, HandlerOk
    <2>5. CASE Device # 0 /\ ok
      <3>1. LastMember(n, Device) /\ DropCarrier(n)
        BY <1>6, <1>8, <2>5
      <3>2. geLink[Device].ops = 0 /\ geLink[Device].recorded \subseteq {n}
        BY <3>1 DEF LastMember
      <3>3. u.why = "setup" => u.err
        BY <1>0, <2>1
      <3>. QED BY <1>0, <1>2, <1>4, <1>5, <2>1, <2>2, <2>3, <2>4, <2>5, <3>1, <3>2, <3>3, DropMove
    <2>6. CASE ~(Device # 0 /\ ok)
      <3>1. UNCHANGED <<geEntry, geState, geLink, geHalf>>
        BY <1>6, <1>8, <2>6
      <3>2. ~geSpoilt' => CleanOk(u, Joined(n), Listed(n))
        BY <1>5, <2>6 DEF CleanOk, Joined, Listed
      <3>3. geTask[n].pc \notin Counting \cup {"empty"} /\ u.pc \notin Counting
        BY <1>0, <1>2, <2>1 DEF Counting
      <3>4. KeysOk(n, u)'
        BY <1>4, <2>4 DEF KeysOk, Served, HandlerOk
      <3>. QED BY <1>4, <1>5, <2>1, <2>2, <2>3, <3>1, <3>2, <3>3, <3>4, MapsTyped, QuietMove
    <2>. QED BY <2>5, <2>6
  <1>. QED BY <1>7, <1>8

\* The last operation has left the carrier empty and looks again.
LEMMA LookStep ==
    ASSUME GroupInv, geBoot = "run", NEW n \in GeNets, NEW ok \in BOOLEAN, DropIfEmpty(n, ok)
    PROVE  GroupInv'
  <1>1. GeTypes /\ RunInv
    BY DEF GroupInv
  <1>2. PICK t \in GeTasks : /\ t = geTask[n] /\ HandlerOk(t) /\ PlaceOk(t) /\ KeysOk(n, t)
                             /\ MemberOk(t, Joined(n), Listed(n))
                             /\ (~geSpoilt => CleanOk(t, Joined(n), Listed(n)))
    BY OneTask
  <1>0. t.pc = "empty" /\ t.why \in {"setup", "undo", "retire"} /\ (t.why = "setup" => t.err)
    BY <1>2 DEF DropIfEmpty, HandlerOk
  <1>3. t.car = geEntry /\ geState[t.car] = Device /\ t.act # 0
    BY <1>0, <1>2 DEF PlaceOk, Sharing, Device
  <1>4. /\ UNCHANGED <<geEdges, geOn, gePeers, geXfrm, geOwners, geLeft>> /\ geBoot' = "run"
        /\ geSpoilt' = (geSpoilt \/ ~ok)
    BY DEF DropIfEmpty, mapVars, keyVars
  <1>5. geSpoilt' \in BOOLEAN /\ (geSpoilt => geSpoilt') /\ (~geSpoilt' => ok)
    BY <1>4
  <1> DEFINE u == [t EXCEPT !.car = 0, !.act = 0, !.err = @ \/ ~ok, !.pc = "left"]
  <1>6. u \in GeTasks /\ u.pc = "left" /\ u.why = t.why /\ u.car = 0 /\ u.act = 0 /\ (u.err <=> t.err \/ ~ok)
    BY DEF GeTasks, GePcs
  <1>7. geTask' = [geTask EXCEPT ![n] = u]
    <2>1. geTask' = [geTask EXCEPT ![n].car = 0, ![n].act = 0, ![n].err = t.err \/ ~ok, ![n].pc = "left"]
      BY <1>2 DEF DropIfEmpty
    <2>. QED BY <1>1, <1>2, <2>1 DEF GeTypes, GeTasks
  <1>8. /\ StillEmpty(t.car, t.act) /\ ok => DropCarrier(n)
        /\ ~(StillEmpty(t.car, t.act) /\ ok) => UNCHANGED <<geEntry, geState, geLink, geHalf>>
    BY <1>2 DEF DropIfEmpty, carrierVars
  <1> HIDE DEF u
  <1>9. HandlerOk(u) /\ (u.why = "setup" => u.err)
    BY <1>0, <1>6 DEF HandlerOk, Counting
  <1>10. Len(geLink) \in Nat /\ Len(geState) \in Nat /\ u.act \in 0..Len(geLink)
    BY <1>1, <1>6, DeviceType
  <1>11. KeysOk(n, u)
    BY <1>0, <1>2, <1>6 DEF KeysOk, Served, HandlerOk
  <1>12. CASE StillEmpty(t.car, t.act) /\ ok
    <2>1. Device # 0 /\ geLink[Device].ops = 0 /\ geLink[Device].recorded \subseteq {n}
      BY <1>3, <1>12 DEF StillEmpty
    <2>. QED BY <1>0, <1>2, <1>4, <1>5, <1>6, <1>7, <1>8, <1>9, <1>10, <1>11, <1>12, <2>1, DropMove
  <1>13. CASE ~(StillEmpty(t.car, t.act) /\ ok)
    <2>1. UNCHANGED <<geEntry, geState, geLink, geHalf>>
      BY <1>8, <1>13
    <2>2. Device' = Device /\ \A m \in GeNets : (Joined(m)' <=> Joined(m)) /\ (Listed(m)' <=> Listed(m))
      BY <2>1 DEF Device, Joined, Listed
    <2>3. u.pc \notin Counting /\ geTask[n].pc \notin Counting
      BY <1>0, <1>2, <1>6 DEF Counting
    <2>4. Inside' = Inside
      BY <1>1, <1>6, <1>7, <2>3, InsideCounts
    <2>5. DeviceOk'
      BY <1>1, <2>1, <2>2, <2>4 DEF RunInv, DeviceOk
    <2>6. PlaceOk(u)'
      BY <1>6, <1>10, <2>1 DEF PlaceOk, Sharing, Counting
    <2>7. MemberOk(u, Joined(n)', Listed(n)')
      BY <1>6, <1>9 DEF MemberOk, Staying
    <2>8. \A m \in GeNets \ {n} : MemberOk(geTask[m], Joined(m)', Listed(m)')
      BY <1>1, <2>2 DEF RunInv, TaskOk, MemberOk
    <2>9. ASSUME ~geSpoilt'
          PROVE  /\ SomeoneLooks' /\ CleanOk(u, Joined(n)', Listed(n)')
                 /\ \A m \in GeNets \ {n} : CleanOk(geTask[m], Joined(m)', Listed(m)')
      <3>1. SomeoneLooks /\ \A m \in GeNets : CleanOk(geTask[m], Joined(m), Listed(m))
        BY <1>1, <1>5, <2>9 DEF RunInv
      <3>2. CleanOk(u, Joined(n)', Listed(n)')
        BY <1>0, <1>2, <1>5, <1>6, <2>2, <2>9 DEF CleanOk, Away
      <3>3. \A m \in GeNets \ {n} : geTask'[m] = geTask[m]
        BY <1>1, <1>7 DEF GeTypes
      <3>4. ASSUME Device # 0, geLink[Device].recorded = {}
            PROVE  \E m \in GeNets \ {n} : geTask[m].pc \in Counting \/ (geTask[m].pc = "empty" /\ geTask[m].act = Device)
        <4>1. CASE t.act = Device
          <5>1. geLink[Device].ops # 0
            BY <1>3, <1>5, <1>13, <2>9, <3>4, <4>1 DEF StillEmpty
          <5>2. Inside # {}
            BY <3>4, <5>1, DeviceFacts, FS_EmptySet
          <5>. QED BY <2>3, <5>2 DEF Inside
        <4>2. CASE t.act # Device
          BY <1>2, <2>3, <3>1, <3>4, <4>2 DEF SomeoneLooks
        <4>. QED BY <4>1, <4>2
      <3>5. SomeoneLooks'
        BY <2>1, <2>2, <3>3, <3>4 DEF SomeoneLooks
      <3>. QED BY <2>2, <3>1, <3>2, <3>5 DEF CleanOk
    <2>10. /\ geState' \in Seq(Nat) /\ geLink' \in Seq(LinkRecord) /\ geEntry' \in 0..Len(geState')
           /\ \A c \in 1..Len(geState') : geState'[c] \in 0..Len(geLink')
      BY <1>1, <2>1 DEF GeTypes
    <2>11. /\ Len(geLink') \in Nat /\ Len(geLink) <= Len(geLink') /\ geEntry' = geEntry
           /\ geHalf' \in BOOLEAN /\ (geHalf' => Device' = 0)
      BY <1>10, <2>1, <2>2, MapsTyped
    <2>. QED BY <1>4, <1>5, <1>6, <1>7, <1>9, <1>10, <1>11, <2>2, <2>5, <2>6, <2>7, <2>8, <2>9, <2>10, <2>11, CarrierMove
  <1>. QED BY <1>12, <1>13

-----------------------------------------------------------------------------
(* A new process, and the theorem *)

LEMMA GroupInitOk == GroupInit => GroupInv
  <1> SUFFICES ASSUME GroupInit PROVE GroupInv
    OBVIOUS
  <1>1. GeIdle \in GeTasks /\ GeIdle.pc = "idle" /\ GeIdle.why = "none" /\ GeIdle.car = 0 /\ GeIdle.act = 0
    BY DEF GeIdle, GeTasks, GePcs
  <1>2. /\ \A n \in GeNets : geTask[n] = GeIdle
        /\ geEdges = {} /\ geOn = {} /\ gePeers = {} /\ geXfrm = {} /\ geEntry = 0
        /\ geOwners = {} /\ geLeft = {} /\ geHalf = FALSE
        /\ geState = <<>> /\ geLink = <<>> /\ geBoot = "run" /\ geSpoilt = FALSE
    BY DEF GroupInit
  <1>3. Len(<<>>) = 0 /\ <<>> \in Seq(Nat) /\ <<>> \in Seq(LinkRecord)
    BY EmptySeq
  <1>4. GeTypes
    <2>1. geTask \in [GeNets -> GeTasks]
      BY <1>1 DEF GroupInit
    <2>2. geState \in Seq(Nat) /\ geLink \in Seq(LinkRecord) /\ Len(geState) = 0
      BY <1>2, <1>3
    <2>3. geBoot \in {"run", "recover", "purge"} /\ geSpoilt \in BOOLEAN /\ geEntry \in 0..Len(geState)
      <3>1. geBoot = "run" /\ geSpoilt \in BOOLEAN
        BY <1>2
      <3>2. geEntry = 0
        BY <1>2
      <3>3. geEntry \in 0..Len(geState)
        BY <2>2, <3>2
      <3>. QED BY <3>1, <3>3
    <2>4. \A c \in 1..Len(geState) : geState[c] \in 0..Len(geLink)
      BY <2>2
    <2>5. /\ geEdges \subseteq GeNets /\ geOn \subseteq GeNets /\ gePeers \subseteq GeNets /\ geXfrm \subseteq GeNets
          /\ geOwners \subseteq GeNets /\ geLeft \subseteq GeNets /\ geHalf \in BOOLEAN
      BY <1>2
    <2>. QED BY <2>1, <2>2, <2>3, <2>4, <2>5 DEF GeTypes
  <1>5. Device = 0 /\ \A n \in GeNets : ~Joined(n) /\ ~Listed(n)
    BY <1>2 DEF Device, Joined, Listed
  <1>6. DeviceOk
    BY <1>2, <1>3, <1>5 DEF DeviceOk
  <1>7. HandlerOk(GeIdle) /\ PlaceOk(GeIdle) /\ \A n \in GeNets : MemberOk(GeIdle, Joined(n), Listed(n))
    BY <1>1, <1>2, <1>3 DEF HandlerOk, PlaceOk, MemberOk, Staying, Sharing, Counting
  <1>8. \A n \in GeNets : KeysOk(n, GeIdle)
    BY <1>1, <1>2 DEF KeysOk, Served, HandlerOk
  <1>9. SomeoneLooks /\ \A n \in GeNets : CleanOk(geTask[n], Joined(n), Listed(n))
    BY <1>5 DEF SomeoneLooks, CleanOk
  <1>10. RunInv
    BY <1>2, <1>6, <1>7, <1>8, <1>9 DEF RunInv, TaskOk
  <1>. QED BY <1>2, <1>4, <1>10 DEF GroupInv

LEMMA CrashStep ==
    ASSUME GroupInv, GroupCrash
    PROVE  GroupInv'
  <1>1. GeTypes /\ RunInv
    BY DEF GroupInv, GroupCrash
  <1>2. GeIdle \in GeTasks
    BY DEF GeIdle, GeTasks, GePcs
  <1>3. /\ geTask' = [n \in GeNets |-> GeIdle] /\ geBoot' = "recover"
        /\ geEdges' = {} /\ gePeers' = {} /\ geOwners' = {} /\ geEntry' = 0 /\ geState' = <<>>
        /\ UNCHANGED <<geOn, geXfrm, geLink, geHalf, geSpoilt, geLeft>>
    BY DEF GroupCrash
  <1>4. Len(<<>>) = 0 /\ <<>> \in Seq(Nat)
    BY EmptySeq
  <1>5. GeTypes'
    BY <1>1, <1>2, <1>3, <1>4 DEF GeTypes
  <1>6. ASSUME NEW n \in geOn
        PROVE  n \in geXfrm /\ \E a \in 1..Len(geLink) : geLink[a].up /\ n \in geLink[a].vnis
    <2>1. n \in GeNets
      BY <1>1 DEF GeTypes
    <2>2. geTask[n].pc = "up" /\ n \in geXfrm /\ Joined(n)
      BY <1>1, <1>6, <2>1 DEF RunInv, TaskOk, KeysOk, MemberOk, Staying
    <2>3. Device \in 1..Len(geLink)
      BY <1>1, <2>2, DeviceType DEF Joined
    <2>. QED BY <1>1, <2>2, <2>3 DEF Joined, RunInv, DeviceOk
  <1>7. StartInv'
    BY <1>3, <1>6 DEF StartInv
  <1>. QED BY <1>3, <1>5, <1>7 DEF GroupInv

LEMMA RecoverStep ==
    ASSUME GroupInv, GroupRecover
    PROVE  GroupInv'
  <1>1. GeTypes /\ StartInv
    BY DEF GroupInv, GroupRecover
  <1>2. /\ geBoot' = "purge" /\ geLink' = <<>> /\ geHalf' = FALSE /\ geOn' = {}
        /\ UNCHANGED <<geTask, geEdges, gePeers, geOwners, geXfrm, geLeft, geEntry, geState, geSpoilt>>
    BY DEF GroupRecover, keyVars
  <1>3. Len(<<>>) = 0 /\ <<>> \in Seq(LinkRecord)
    BY EmptySeq
  <1>4. GeTypes'
    <2>1. geHalf' \in BOOLEAN /\ geSpoilt' \in BOOLEAN /\ geTask' \in [GeNets -> GeTasks]
      BY <1>1, <1>2 DEF GeTypes
    <2>2. /\ geState' \in Seq(Nat) /\ geLink' \in Seq(LinkRecord) /\ geEntry' \in 0..Len(geState')
          /\ \A c \in 1..Len(geState') : geState'[c] \in 0..Len(geLink')
      BY <1>1, <1>2, <1>3 DEF GeTypes, StartInv
    <2>. QED BY <1>1, <1>2, <2>1, <2>2 DEF GeTypes
  <1>5. StartInv'
    BY <1>1, <1>2 DEF StartInv
  <1>. QED BY <1>2, <1>4, <1>5 DEF GroupInv

LEMMA PurgeStep ==
    ASSUME GroupInv, GroupPurge
    PROVE  GroupInv'
  <1>1. GeTypes /\ StartInv
    BY DEF GroupInv, GroupPurge
  <1>2. /\ geBoot' = "run" /\ geXfrm' = {} /\ geLeft' = {} /\ geSpoilt' = FALSE
        /\ UNCHANGED <<geTask, geEdges, geOn, gePeers, geOwners, geEntry, geState, geLink, geHalf>>
    BY DEF GroupPurge, carrierVars
  <1>3. GeTypes'
    BY <1>1, <1>2 DEF GeTypes
  <1>4. /\ \A n \in GeNets : geTask'[n] = GeIdle
        /\ geOn' = {} /\ geEdges' = {} /\ gePeers' = {} /\ geOwners' = {} /\ geEntry' = 0 /\ geLink' = <<>> /\ geHalf' = FALSE
    BY <1>1, <1>2 DEF StartInv, GroupPurge
  <1>5. GeIdle.pc = "idle" /\ GeIdle.why = "none" /\ GeIdle.car = 0 /\ GeIdle.act = 0 /\ Len(<<>>) = 0
    BY EmptySeq DEF GeIdle
  <1>6. Device' = 0 /\ \A n \in GeNets : ~Joined(n)' /\ ~Listed(n)'
    BY <1>4 DEF Device, Joined, Listed
  <1>7. DeviceOk'
    BY <1>4, <1>5, <1>6 DEF DeviceOk
  <1>8. HandlerOk(GeIdle) /\ PlaceOk(GeIdle)' /\ \A n \in GeNets : MemberOk(GeIdle, Joined(n)', Listed(n)')
    BY <1>4, <1>5 DEF HandlerOk, PlaceOk, MemberOk, Staying, Sharing, Counting
  <1>9. \A n \in GeNets : KeysOk(n, GeIdle)'
    BY <1>2, <1>4, <1>5 DEF KeysOk, Served, HandlerOk
  <1>10. SomeoneLooks' /\ \A n \in GeNets : CleanOk(geTask[n], Joined(n), Listed(n))'
    BY <1>6 DEF SomeoneLooks, CleanOk
  <1>11. \A n \in GeNets : TaskOk(n)'
    BY <1>4, <1>8, <1>9 DEF TaskOk, HandlerOk, PlaceOk, KeysOk, MemberOk
  <1>12. RunInv'
    BY <1>4, <1>7, <1>10, <1>11 DEF RunInv
  <1>. QED BY <1>2, <1>3, <1>12 DEF GroupInv

LEMMA GroupStepOk == GroupInv /\ [GroupNext]_geVars => GroupInv'
  <1> SUFFICES ASSUME GroupInv, [GroupNext]_geVars PROVE GroupInv'
    OBVIOUS
  <1>1. CASE UNCHANGED geVars
    BY <1>1 DEF geVars, GroupInv, GeTypes, RunInv, StartInv, DeviceOk, TaskOk, SomeoneLooks, Device, Joined, Listed, Inside,
              HandlerOk, PlaceOk, KeysOk, MemberOk, CleanOk
  <1>2. ASSUME NEW n \in GeNets, geTask[n].pc # "idle" PROVE geBoot = "run"
    BY <1>2 DEF GroupInv, StartInv, GeIdle
  <1>3. ASSUME NEW n \in GeNets,
               \/ GetCarrier(n) \/ RecordVni(n) \/ FinishOperation(n) \/ EnteredCarrier(n)
               \/ GroupUndone(n) \/ GroupReady(n) \/ GroupRetired(n)
        PROVE  GroupInv'
    <2>1. geBoot = "run"
      <3>1. geTask[n].pc # "idle"
        BY <1>3 DEF GetCarrier, RecordVni, FinishOperation, EnteredCarrier, GroupUndone, GroupReady, GroupRetired
      <3>. QED BY <1>2, <3>1, Zenon
    <2>. QED BY <1>3, <2>1, GetStep, RecordStep, FinishStep, EnteredStep, UndoneStep, ReadyStep, RetiredStep
  <1>4. ASSUME NEW n \in GeNets, NEW ok \in BOOLEAN,
               \/ LeaveCarrier(n, ok) \/ ChangeVni(n, ok) \/ DropIfEmpty(n, ok) \/ RemoveKeys(n, ok)
        PROVE  GroupInv'
    <2>1. geBoot = "run"
      <3>1. geTask[n].pc # "idle"
        BY <1>4 DEF LeaveCarrier, ChangeVni, DropIfEmpty, RemoveKeys
      <3>. QED BY <1>2, <3>1, Zenon
    <2>. QED BY <1>4, <2>1, LeaveStep, VniStep, LookStep, KeysStep
  <1>5. ASSUME NEW n \in GeNets, NEW res \in Results,
               EnterCarrier(n, res) \/ GroupPeer(n, res) \/ InsertRules(n, res)
        PROVE  GroupInv'
    <2>1. geBoot = "run"
      <3>1. geTask[n].pc # "idle"
        BY <1>5 DEF EnterCarrier, GroupPeer, InsertRules
      <3>. QED BY <1>2, <3>1, Zenon
    <2>. QED BY <1>5, <2>1, EnterStep, PeerStep, RulesStep
  <1>7. ASSUME NEW n \in GeNets, GroupSetup(n) \/ \E ok \in BOOLEAN : GroupRetire(n, ok) PROVE GroupInv'
    BY <1>7, SetupStep, RetireStep
  <1>6. CASE GroupCrash \/ GroupRecover \/ GroupPurge
    BY <1>6, CrashStep, RecoverStep, PurgeStep
  <1>. QED BY <1>1, <1>3, <1>4, <1>5, <1>6, <1>7 DEF GroupNext

LEMMA GroupInvImplies == GroupInv => CarriersMatchMembers
  <1> SUFFICES ASSUME GroupInv PROVE CarriersMatchMembers
    OBVIOUS
  <1>1. GeTypes /\ DOMAIN geLink = 1..Len(geLink) /\ Len(geLink) \in Nat
    <2>1. GeTypes /\ geLink \in Seq(LinkRecord)
      BY DEF GroupInv, GeTypes
    <2>. QED BY <2>1, LenProperties
  <1>2. ASSUME geBoot = "run", NEW a \in DOMAIN geLink, geLink[a].up
        PROVE  Device = a /\ a # 0 /\ ~geHalf
    BY <1>1, <1>2 DEF GroupInv, RunInv, DeviceOk
  <1>3. CarrierFindable
    BY <1>2 DEF CarrierFindable, Device
  <1>4. MemberIsCarried
    <2> SUFFICES ASSUME NEW n \in GeNets, geTask[n].pc = "up" \/ n \in geOn
                 PROVE  n \in geXfrm /\ \E a \in DOMAIN geLink : geLink[a].up /\ n \in geLink[a].vnis
      BY DEF MemberIsCarried, Forwards
    <2>1. CASE geBoot = "run"
      <3>1. geTask[n].pc = "up" /\ n \in geXfrm /\ Joined(n)
        BY <2>1 DEF GroupInv, RunInv, TaskOk, KeysOk, MemberOk, Staying
      <3>2. Device \in 1..Len(geLink) /\ n \in geLink[Device].vnis
        BY <1>1, <3>1, DeviceType DEF Joined
      <3>3. geLink[Device].up
        BY <2>1, <3>2 DEF GroupInv, RunInv, DeviceOk
      <3>. QED BY <1>1, <3>1, <3>2, <3>3
    <2>2. CASE geBoot # "run"
      <3>1. geTask[n].pc # "up" /\ StartInv
        BY <2>2 DEF GroupInv, StartInv, GeIdle
      <3>2. geBoot = "recover"
        BY <1>1, <2>2, <3>1 DEF GeTypes, StartInv
      <3>. QED BY <1>1, <3>1, <3>2 DEF StartInv
    <2>. QED BY <2>1, <2>2
  <1>5. NoIdleCarrier
    <2> SUFFICES ASSUME \A n \in GeNets : geTask[n].pc \in {"idle", "up"}, ~geSpoilt, geBoot = "run",
                        NEW a \in DOMAIN geLink, geLink[a].up
                 PROVE  geLink[a].vnis # {} /\ geLink[a].vnis \subseteq geEdges
      BY DEF NoIdleCarrier
    <2>1. Device = a /\ a # 0 /\ geLink[a] \in LinkRecord
      BY <1>1, <1>2, DeviceType
    <2>2. SomeoneLooks /\ \A n \in GeNets : TaskOk(n) /\ CleanOk(geTask[n], Joined(n), Listed(n))
      BY DEF GroupInv, RunInv
    <2>3. ASSUME NEW n \in GeNets, Joined(n) \/ Listed(n) PROVE Joined(n) /\ n \in geEdges
      <3>1. geTask[n].pc = "up"
        BY <2>2, <2>3 DEF CleanOk, Away
      <3>. QED BY <2>2, <3>1 DEF TaskOk, KeysOk, MemberOk, Staying
    <2>4. geLink[a].recorded # {}
      BY <2>1, <2>2 DEF SomeoneLooks, Counting
    <2>5. PICK n \in GeNets : n \in geLink[a].recorded
      BY <2>1, <2>4 DEF LinkRecord
    <2>6. n \in geLink[a].vnis
      BY <2>1, <2>3, <2>5 DEF Listed, Joined
    <2>7. geLink[a].vnis \subseteq GeNets
      BY <2>1 DEF LinkRecord
    <2>. QED BY <2>1, <2>3, <2>6, <2>7 DEF Joined
  <1>6. KeysAreOwned
    <2> SUFFICES ASSUME geBoot = "run"
                 PROVE  /\ \A n \in geXfrm \ geLeft : n \in geEdges \/ geTask[n].pc \notin {"idle", "failed", "stuck"}
                        /\ geLeft \cap geEdges = {}
      BY DEF KeysAreOwned
    <2>1. geXfrm \subseteq GeNets /\ geLeft \subseteq GeNets
      BY <1>1 DEF GeTypes
    <2>2. ASSUME NEW n \in GeNets PROVE HandlerOk(geTask[n]) /\ KeysOk(n, geTask[n])
      BY DEF GroupInv, RunInv, TaskOk
    <2>. QED BY <2>1, <2>2 DEF KeysOk, Served, HandlerOk
  <1>. QED BY <1>3, <1>4, <1>5, <1>6 DEF CarriersMatchMembers

\* The carrier theorem, for any set of networks: a shared device is always
\* found through the map, stands as long as a network is set up or forwarded
\* through it, and goes when the last handler is done and nothing failed to be
\* removed; associations have an owner, but for those of setups that failed and
\* did not take them back, which serve no network.  Any step may fail, with or
\* without undoing itself, and the client may die at any one (policy.rs).
THEOREM CarriersMatchMembersAlways == GroupSpec => []CarriersMatchMembers
  <1>1. GroupInit => GroupInv
    BY GroupInitOk
  <1>2. GroupInv /\ [GroupNext]_geVars => GroupInv'
    BY GroupStepOk
  <1>3. GroupInv => CarriersMatchMembers
    BY GroupInvImplies
  <1>. QED BY <1>1, <1>2, <1>3, PTL DEF GroupSpec

-----------------------------------------------------------------------------
(***************************************************************************)
(* SessionHistory.  The invariant says what mutations p that are still to  *)
(* be applied make of open rows w, without applying them: a row survives   *)
(* when it is there, or opened, and nothing after that closes it.  No row  *)
(* is opened while one of the same session is open (Ordered).  As long as  *)
(* nothing is dropped the survivors are rows of live sessions, and as long *)
(* as nothing was dropped since the start they are all of them.  It is     *)
(* said of the table and the whole batch, for a rollback, and of the       *)
(* transaction and the rest of the batch, for a commit.                    *)
(***************************************************************************)

Ops == {"Open", "Egress", "CloseIngress", "CloseBackend", "CloseEgress", "CloseAll"}
RowSet == [dir : {"none", "ingress", "backend", "egress"}, key : Keys \cup {"none"}, dst : Dsts \cup {"none"}, life : Nat]
MutationSet == {m \in [op : Ops, row : RowSet, on : BOOLEAN] : m.op = "Egress" => m.row.dir = "egress"}

Opening(m) == m.op = "Open" \/ (m.op = "Egress" /\ m.on)
Closes(m, r) ==
    \/ m.op = "CloseAll"
    \/ m.op = "CloseIngress" /\ r.dir = "ingress" /\ r.key = m.row.key
    \/ m.op = "CloseBackend" /\ r.dir = "backend" /\ r.life = m.row.life
    \/ m.op = "CloseEgress" /\ r.dir = "egress" /\ r.key = m.row.key
    \/ m.op = "Egress" /\ ~m.on /\ SameEgress(r, m.row)

SameSlot(q, r) == q.dir = r.dir /\ q.key = r.key /\ q.dst = r.dst
Unique(w) == \A q, r \in w : SameSlot(q, r) => q = r

Left(w, p) ==
    {r \in w \cup {p[i].row : i \in DOMAIN p} :
        \/ r \in w /\ \A j \in DOMAIN p : ~Closes(p[j], r)
        \/ \E i \in DOMAIN p : /\ Opening(p[i]) /\ p[i].row = r
                               /\ \A j \in DOMAIN p : j > i => ~Closes(p[j], r)}

Ordered(w, p) ==
    \A i \in DOMAIN p : Opening(p[i]) =>
        /\ \A q \in w : SameSlot(q, p[i].row) => \E j \in DOMAIN p : j < i /\ Closes(p[j], q)
        /\ \A h \in DOMAIN p : h < i /\ Opening(p[h]) /\ SameSlot(p[h].row, p[i].row) =>
              \E j \in DOMAIN p : h < j /\ j < i /\ Closes(p[j], p[h].row)

ClosesAll(s) == \E i \in DOMAIN s : s[i].op = "CloseAll"
Sound == ~overtaken \/ ClosesAll(batch) \/ ClosesAll(queue)

\* Of mutations p on rows w, when rows E and tokens T are the live ones.
Faithful(w, p, E, T, g, c) ==
    /\ Ordered(w, p)
    /\ ~g => /\ Left(w, p) \subseteq E
             /\ \A r \in Left(w, p) : r.dir = "backend" => T[r.key] = r.life
    /\ c => E \subseteq Left(w, p)
Claim(w, p) == Faithful(w, p, Expected, token, gap, complete)

Whole == batch \o queue
Rest == SubSeq(batch, done + 1, Len(batch)) \o queue

LifeTypes ==
    /\ live \in [Keys -> 0..MaxLives] /\ lives \in 0..MaxLives
    /\ active \in [EgressNets -> SUBSET Dsts] /\ token \in [BackendKeys -> 0..MaxLives]

QueueTypes ==
    /\ queue \in Seq(MutationSet) /\ Len(queue) <= CAPACITY
    /\ batch \in Seq(MutationSet) /\ Len(batch) <= BATCH_SIZE /\ done \in 0..Len(batch)
    /\ pc \in {"recv", "persist", "check", "gap", "interrupt", "reset"}
    /\ gap \in BOOLEAN /\ complete \in BOOLEAN /\ overtaken \in BOOLEAN

LivesApart ==
    /\ \A k \in Keys : live[k] <= lives
    /\ \A j, k \in Keys : live[j] = live[k] /\ live[j] # 0 => j = k
    /\ \A n \in EgressNets : active[n] # {} => live[n] # 0
    /\ \A k \in BackendKeys : token[k] # 0 => token[k] = live[k]

Phases ==
    /\ pc # "persist" => batch = <<>> /\ txn = rows
    /\ \A i \in DOMAIN queue : queue[i].op = "CloseAll" => i = 1 /\ pc = "recv"
    /\ \A i \in DOMAIN batch : batch[i].op = "CloseAll" => i = 1
    /\ pc \in {"interrupt", "reset"} => gap
    /\ pc \in {"gap", "interrupt", "reset"} /\ gap /\ ~overtaken => queue = <<>>
    /\ pc = "reset" => rows = {}
    /\ complete => ~gap /\ Sound

HistoryInv ==
    /\ LifeTypes /\ QueueTypes /\ LivesApart /\ Phases
    /\ ~overtaken => Unique(rows)
    /\ ~overtaken \/ (done > 0 /\ ClosesAll(batch)) => Unique(txn)
    /\ Sound => Claim(rows, Whole) /\ Claim(txn, Rest)

LEMMA ApplyOf ==
    ASSUME NEW w, NEW m \in MutationSet
    PROVE  /\ Opening(m) /\ (\A q \in w : ~SameSlot(q, m.row)) => apply(w, m) = w \cup {m.row}
           /\ ~Opening(m) => apply(w, m) = {r \in w : ~Closes(m, r)}
           /\ Opening(m) => \A r : ~Closes(m, r)
           /\ m.op = "CloseAll" => apply(w, m) = {} /\ ~Opening(m)
  <1>1. m.op \in Ops /\ (m.op = "Egress" => m.row.dir = "egress")
    BY DEF MutationSet
  <1>2. CASE m.op = "Open"
    BY <1>2 DEF apply, Opening, Closes
  <1>3. CASE m.op = "Egress"
    <2>1. apply(w, m) = ApplyEgress(w, m)
      BY <1>3 DEF apply
    <2>2. CASE m.on
      <3>1. (\A q \in w : ~SameSlot(q, m.row)) => ~\E q \in w : SameEgress(q, m.row)
        BY <1>1, <1>3 DEF SameSlot, SameEgress
      <3>. QED BY <1>3, <2>1, <2>2, <3>1 DEF ApplyEgress, Opening, Closes
    <2>3. CASE ~m.on
      BY <1>3, <2>1, <2>3 DEF ApplyEgress, Opening, Closes
    <2>. QED BY <2>2, <2>3
  <1>4. CASE m.op = "CloseIngress"
    BY <1>4 DEF apply, Opening, Closes
  <1>5. CASE m.op = "CloseBackend"
    BY <1>5 DEF apply, Opening, Closes
  <1>6. CASE m.op = "CloseEgress"
    BY <1>6 DEF apply, Opening, Closes
  <1>7. CASE m.op = "CloseAll"
    BY <1>7 DEF apply, Opening, Closes
  <1>. QED BY <1>1, <1>2, <1>3, <1>4, <1>5, <1>6, <1>7 DEF Ops

LEMMA InLeft ==
    ASSUME NEW w, NEW p, NEW r
    PROVE  r \in Left(w, p) <=>
             \/ r \in w /\ \A j \in DOMAIN p : ~Closes(p[j], r)
             \/ \E i \in DOMAIN p : /\ Opening(p[i]) /\ p[i].row = r
                                    /\ \A j \in DOMAIN p : j > i => ~Closes(p[j], r)
  BY DEF Left

\* One more mutation that opens a row, and one that closes some.
LEMMA AppendOpen ==
    ASSUME NEW w, NEW p \in Seq(MutationSet), NEW m \in MutationSet, Opening(m), Ordered(w, p),
           \A q \in Left(w, p) : ~SameSlot(q, m.row)
    PROVE  /\ Ordered(w, Append(p, m))
           /\ \A r : r \in Left(w, Append(p, m)) <=> r \in Left(w, p) \/ r = m.row
  <1>0. PICK n, s : n = Len(p) /\ s = Append(p, m)
    OBVIOUS
  <1>1. /\ n = Len(p) /\ s = Append(p, m) /\ n \in Nat /\ DOMAIN p = 1..n /\ DOMAIN s = 1..(n + 1)
        /\ s[n + 1] = m /\ \A i \in 1..n : s[i] = p[i]
    BY <1>0, AppendProperties
  <1>2. \A r : ~Closes(m, r)
    BY ApplyOf
  <1>3. ASSUME NEW r, r \in w, SameSlot(r, m.row)
        PROVE  \E j \in 1..n : Closes(p[j], r)
    BY <1>1, <1>3, InLeft
  <1>4. ASSUME NEW h \in 1..n, Opening(p[h]), SameSlot(p[h].row, m.row)
        PROVE  \E j \in 1..n : h < j /\ Closes(p[j], p[h].row)
    BY <1>1, <1>4, InLeft
  <1>5. Ordered(w, s)
    <2> SUFFICES ASSUME NEW i \in 1..(n + 1), Opening(s[i])
                 PROVE  /\ \A q \in w : SameSlot(q, s[i].row) => \E j \in 1..(n + 1) : j < i /\ Closes(s[j], q)
                        /\ \A h \in 1..(n + 1) : h < i /\ Opening(s[h]) /\ SameSlot(s[h].row, s[i].row) =>
                              \E j \in 1..(n + 1) : h < j /\ j < i /\ Closes(s[j], s[h].row)
      BY <1>1 DEF Ordered
    <2>1. CASE i = n + 1
      BY <1>1, <1>3, <1>4, <2>1
    <2>2. CASE i # n + 1
      <3>1. i \in 1..n /\ s[i] = p[i]
        BY <1>1, <2>2
      <3>2. /\ \A q \in w : SameSlot(q, p[i].row) => \E j \in 1..n : j < i /\ Closes(p[j], q)
            /\ \A h \in 1..n : h < i /\ Opening(p[h]) /\ SameSlot(p[h].row, p[i].row) =>
                  \E j \in 1..n : h < j /\ j < i /\ Closes(p[j], p[h].row)
        BY <1>1, <3>1 DEF Ordered
      <3>3. \A j \in 1..n : j \in 1..(n + 1) /\ s[j] = p[j]
        BY <1>1
      <3>4. \A h \in 1..(n + 1) : h < i => h \in 1..n
        BY <1>1, <3>1
      <3>. QED BY <3>1, <3>2, <3>3, <3>4
    <2>. QED BY <2>1, <2>2
  <1>6. ASSUME NEW r PROVE r \in Left(w, s) <=> r \in Left(w, p) \/ r = m.row
    <2>1. ASSUME r \in Left(w, p) PROVE r \in Left(w, s)
      <3>0. \A j \in DOMAIN s : ~Closes(s[j], r) \/ (j \in DOMAIN p /\ s[j] = p[j])
        BY <1>1, <1>2
      <3>1. CASE r \in w /\ \A j \in DOMAIN p : ~Closes(p[j], r)
        <4>1. \A j \in DOMAIN s : ~Closes(s[j], r)
          BY <3>0, <3>1
        <4>. QED BY <3>1, <4>1, InLeft
      <3>2. CASE \E i \in DOMAIN p : Opening(p[i]) /\ p[i].row = r /\ \A j \in DOMAIN p : j > i => ~Closes(p[j], r)
        <4>1. PICK i \in DOMAIN p : Opening(p[i]) /\ p[i].row = r /\ \A j \in DOMAIN p : j > i => ~Closes(p[j], r)
          BY <3>2
        <4>2. i \in DOMAIN s /\ s[i] = p[i]
          BY <1>1, <4>1
        <4>3. \A j \in DOMAIN s : j > i => ~Closes(s[j], r)
          BY <3>0, <4>1
        <4>. QED BY <4>1, <4>2, <4>3, InLeft
      <3>. QED BY <2>1, <3>1, <3>2, InLeft
    <2>2. ASSUME r = m.row PROVE r \in Left(w, s)
      <3>1. n + 1 \in DOMAIN s /\ Opening(s[n + 1]) /\ s[n + 1].row = r
        BY <1>1, <2>2
      <3>2. \A j \in DOMAIN s : ~(j > n + 1)
        BY <1>1
      <3>. QED BY <3>1, <3>2, InLeft
    <2>3. ASSUME r \in Left(w, s), r # m.row PROVE r \in Left(w, p)
      <3>1. CASE r \in w /\ \A j \in DOMAIN s : ~Closes(s[j], r)
        <4>1. \A j \in DOMAIN p : ~Closes(p[j], r)
          BY <1>1, <3>1
        <4>. QED BY <3>1, <4>1, InLeft
      <3>2. CASE \E i \in DOMAIN s : Opening(s[i]) /\ s[i].row = r /\ \A j \in DOMAIN s : j > i => ~Closes(s[j], r)
        <4>1. PICK i \in DOMAIN s : Opening(s[i]) /\ s[i].row = r /\ \A j \in DOMAIN s : j > i => ~Closes(s[j], r)
          BY <3>2
        <4>2. i \in DOMAIN p /\ s[i] = p[i]
          BY <1>1, <2>3, <4>1
        <4>3. \A j \in DOMAIN p : j > i => ~Closes(p[j], r)
          BY <1>1, <4>1
        <4>. QED BY <4>1, <4>2, <4>3, InLeft
      <3>. QED BY <2>3, <3>1, <3>2, InLeft
    <2>. QED BY <2>1, <2>2, <2>3
  <1>. QED BY <1>1, <1>5, <1>6

LEMMA AppendClose ==
    ASSUME NEW w, NEW p \in Seq(MutationSet), NEW m \in MutationSet, ~Opening(m), Ordered(w, p)
    PROVE  /\ Ordered(w, Append(p, m))
           /\ \A r : r \in Left(w, Append(p, m)) <=> r \in Left(w, p) /\ ~Closes(m, r)
  <1>0. PICK n, s : n = Len(p) /\ s = Append(p, m)
    OBVIOUS
  <1>1. /\ n = Len(p) /\ s = Append(p, m) /\ n \in Nat /\ DOMAIN p = 1..n /\ DOMAIN s = 1..(n + 1)
        /\ s[n + 1] = m /\ \A i \in 1..n : s[i] = p[i]
    BY <1>0, AppendProperties
  <1>2. Ordered(w, s)
    <2> SUFFICES ASSUME NEW i \in 1..(n + 1), Opening(s[i])
                 PROVE  /\ \A q \in w : SameSlot(q, s[i].row) => \E j \in 1..(n + 1) : j < i /\ Closes(s[j], q)
                        /\ \A h \in 1..(n + 1) : h < i /\ Opening(s[h]) /\ SameSlot(s[h].row, s[i].row) =>
                              \E j \in 1..(n + 1) : h < j /\ j < i /\ Closes(s[j], s[h].row)
      BY <1>1 DEF Ordered
    <2>1. i \in 1..n /\ s[i] = p[i]
      BY <1>1
    <2>2. /\ \A q \in w : SameSlot(q, p[i].row) => \E j \in 1..n : j < i /\ Closes(p[j], q)
          /\ \A h \in 1..n : h < i /\ Opening(p[h]) /\ SameSlot(p[h].row, p[i].row) =>
                \E j \in 1..n : h < j /\ j < i /\ Closes(p[j], p[h].row)
      BY <1>1, <2>1 DEF Ordered
    <2>3. \A j \in 1..n : j \in 1..(n + 1) /\ s[j] = p[j]
      BY <1>1
    <2>4. \A h \in 1..(n + 1) : h < i => h \in 1..n
      BY <1>1, <2>1
    <2>. QED BY <2>1, <2>2, <2>3, <2>4
  <1>3. ASSUME NEW r PROVE r \in Left(w, s) <=> r \in Left(w, p) /\ ~Closes(m, r)
    <2>1. ASSUME r \in Left(w, p), ~Closes(m, r) PROVE r \in Left(w, s)
      <3>0. \A j \in DOMAIN s : ~Closes(s[j], r) \/ (j \in DOMAIN p /\ s[j] = p[j])
        BY <1>1, <2>1
      <3>1. CASE r \in w /\ \A j \in DOMAIN p : ~Closes(p[j], r)
        <4>1. \A j \in DOMAIN s : ~Closes(s[j], r)
          BY <3>0, <3>1
        <4>. QED BY <3>1, <4>1, InLeft
      <3>2. CASE \E i \in DOMAIN p : Opening(p[i]) /\ p[i].row = r /\ \A j \in DOMAIN p : j > i => ~Closes(p[j], r)
        <4>1. PICK i \in DOMAIN p : Opening(p[i]) /\ p[i].row = r /\ \A j \in DOMAIN p : j > i => ~Closes(p[j], r)
          BY <3>2
        <4>2. i \in DOMAIN s /\ s[i] = p[i]
          BY <1>1, <4>1
        <4>3. \A j \in DOMAIN s : j > i => ~Closes(s[j], r)
          BY <3>0, <4>1
        <4>. QED BY <4>1, <4>2, <4>3, InLeft
      <3>. QED BY <2>1, <3>1, <3>2, InLeft
    <2>2. ASSUME r \in Left(w, s) PROVE r \in Left(w, p) /\ ~Closes(m, r)
      <3>1. CASE r \in w /\ \A j \in DOMAIN s : ~Closes(s[j], r)
        <4>1. (\A j \in DOMAIN p : ~Closes(p[j], r)) /\ ~Closes(m, r)
          BY <1>1, <3>1
        <4>. QED BY <3>1, <4>1, InLeft
      <3>2. CASE \E i \in DOMAIN s : Opening(s[i]) /\ s[i].row = r /\ \A j \in DOMAIN s : j > i => ~Closes(s[j], r)
        <4>1. PICK i \in DOMAIN s : Opening(s[i]) /\ s[i].row = r /\ \A j \in DOMAIN s : j > i => ~Closes(s[j], r)
          BY <3>2
        <4>2. i \in DOMAIN p /\ s[i] = p[i]
          BY <1>1, <4>1
        <4>3. (\A j \in DOMAIN p : j > i => ~Closes(p[j], r)) /\ ~Closes(m, r)
          BY <1>1, <4>1, <4>2
        <4>. QED BY <4>1, <4>2, <4>3, InLeft
      <3>. QED BY <2>2, <3>1, <3>2, InLeft
    <2>. QED BY <2>1, <2>2
  <1>. QED BY <1>1, <1>2, <1>3

\* The first mutation is applied.
LEMMA HeadApplied ==
    ASSUME NEW w, NEW p \in Seq(MutationSet), p # <<>>, Ordered(w, p), NEW m, m = p[1]
    PROVE  /\ Ordered(apply(w, m), Tail(p))
           /\ \A r : r \in Left(apply(w, m), Tail(p)) <=> r \in Left(w, p)
           /\ Unique(w) => Unique(apply(w, m))
  <1>0. PICK n, s, v : n = Len(p) /\ s = Tail(p) /\ v = apply(w, m)
    OBVIOUS
  <1>1. /\ n = Len(p) /\ s = Tail(p) /\ v = apply(w, m) /\ n \in Nat \ {0} /\ DOMAIN p = 1..n
        /\ DOMAIN s = 1..(n - 1) /\ \A i \in 1..(n - 1) : s[i] = p[i + 1]
    BY <1>0, HeadTailProperties
  <1>2. m \in MutationSet /\ 1 \in 1..n
    BY <1>1
  <1>3. Opening(m) => \A q \in w : ~SameSlot(q, m.row)
    BY <1>1, <1>2 DEF Ordered
  <1>4. /\ Opening(m) => (\A r : r \in v <=> r \in w \/ r = m.row) /\ \A r : ~Closes(m, r)
        /\ ~Opening(m) => \A r : r \in v <=> r \in w /\ ~Closes(m, r)
    BY <1>1, <1>2, <1>3, ApplyOf
  <1>5. Ordered(v, s)
    <2> SUFFICES ASSUME NEW i \in 1..(n - 1), Opening(s[i])
                 PROVE  /\ \A q \in v : SameSlot(q, s[i].row) => \E j \in 1..(n - 1) : j < i /\ Closes(s[j], q)
                        /\ \A h \in 1..(n - 1) : h < i /\ Opening(s[h]) /\ SameSlot(s[h].row, s[i].row) =>
                              \E j \in 1..(n - 1) : h < j /\ j < i /\ Closes(s[j], s[h].row)
      BY <1>1 DEF Ordered
    <2>1. i + 1 \in 1..n /\ s[i] = p[i + 1]
      BY <1>1
    <2>2. /\ \A q \in w : SameSlot(q, p[i + 1].row) => \E j \in 1..n : j < i + 1 /\ Closes(p[j], q)
          /\ \A h \in 1..n : h < i + 1 /\ Opening(p[h]) /\ SameSlot(p[h].row, p[i + 1].row) =>
                \E j \in 1..n : h < j /\ j < i + 1 /\ Closes(p[j], p[h].row)
      BY <1>1, <2>1 DEF Ordered
    <2>3. ASSUME NEW q \in v, SameSlot(q, s[i].row) PROVE \E j \in 1..(n - 1) : j < i /\ Closes(s[j], q)
      <3>1. PICK j \in 1..n : 1 < j /\ j < i + 1 /\ Closes(p[j], q)
        <4>1. CASE q \in w
          <5>1. PICK j \in 1..n : j < i + 1 /\ Closes(p[j], q)
            BY <2>1, <2>2, <2>3, <4>1
          <5>2. j # 1
            BY <1>4, <2>3, <4>1, <5>1
          <5>. QED BY <5>1, <5>2
        <4>2. CASE q \notin w
          <5>1. Opening(m) /\ q = p[1].row
            BY <1>4, <2>3, <4>2
          <5>. QED BY <1>2, <2>1, <2>2, <2>3, <5>1
        <4>. QED BY <4>1, <4>2
      <3>2. j - 1 \in 1..(n - 1) /\ j - 1 < i /\ s[j - 1] = p[j]
        BY <1>1, <3>1
      <3>. QED BY <3>1, <3>2
    <2>4. ASSUME NEW h \in 1..(n - 1), h < i, Opening(s[h]), SameSlot(s[h].row, s[i].row)
          PROVE  \E j \in 1..(n - 1) : h < j /\ j < i /\ Closes(s[j], s[h].row)
      <3>1. h + 1 \in 1..n /\ s[h] = p[h + 1] /\ h + 1 < i + 1
        BY <1>1, <2>4
      <3>2. PICK j \in 1..n : h + 1 < j /\ j < i + 1 /\ Closes(p[j], p[h + 1].row)
        BY <2>1, <2>2, <2>4, <3>1
      <3>3. j - 1 \in 1..(n - 1) /\ h < j - 1 /\ j - 1 < i /\ s[j - 1] = p[j]
        BY <1>1, <3>2
      <3>. QED BY <3>1, <3>2, <3>3
    <2>. QED BY <2>3, <2>4
  <1>6. ASSUME NEW r PROVE r \in Left(v, s) <=> r \in Left(w, p)
    <2>1. ASSUME r \in Left(v, s) PROVE r \in Left(w, p)
      <3>1. CASE r \in v /\ \A j \in DOMAIN s : ~Closes(s[j], r)
        <4>1. \A j \in 1..n : j > 1 => ~Closes(p[j], r)
          <5> SUFFICES ASSUME NEW j \in 1..n, j > 1 PROVE ~Closes(p[j], r)
            OBVIOUS
          <5>1. j - 1 \in DOMAIN s /\ s[j - 1] = p[j]
            BY <1>1
          <5>. QED BY <3>1, <5>1
        <4>2. CASE r \in w
          <5>1. ~Closes(p[1], r)
            BY <1>4, <3>1, <4>2
          <5>2. \A j \in DOMAIN p : ~Closes(p[j], r)
            BY <1>1, <4>1, <5>1
          <5>. QED BY <4>2, <5>2, InLeft
        <4>3. CASE r \notin w
          <5>1. Opening(p[1]) /\ p[1].row = r
            BY <1>4, <3>1, <4>3
          <5>. QED BY <1>1, <1>2, <4>1, <5>1, InLeft
        <4>. QED BY <4>2, <4>3
      <3>2. CASE \E i \in DOMAIN s : Opening(s[i]) /\ s[i].row = r /\ \A j \in DOMAIN s : j > i => ~Closes(s[j], r)
        <4>1. PICK i \in DOMAIN s : Opening(s[i]) /\ s[i].row = r /\ \A j \in DOMAIN s : j > i => ~Closes(s[j], r)
          BY <3>2
        <4>2. i + 1 \in DOMAIN p /\ s[i] = p[i + 1]
          BY <1>1, <4>1
        <4>3. \A j \in DOMAIN p : j > i + 1 => ~Closes(p[j], r)
          <5> SUFFICES ASSUME NEW j \in DOMAIN p, j > i + 1 PROVE ~Closes(p[j], r)
            OBVIOUS
          <5>1. j - 1 \in DOMAIN s /\ s[j - 1] = p[j] /\ j - 1 > i
            BY <1>1, <4>1
          <5>. QED BY <4>1, <5>1
        <4>. QED BY <4>1, <4>2, <4>3, InLeft
      <3>. QED BY <2>1, <3>1, <3>2, InLeft
    <2>2. ASSUME r \in Left(w, p) PROVE r \in Left(v, s)
      <3>1. CASE r \in w /\ \A j \in DOMAIN p : ~Closes(p[j], r)
        <4>1. r \in v
          BY <1>1, <1>2, <1>4, <3>1
        <4>2. \A j \in DOMAIN s : ~Closes(s[j], r)
          <5> SUFFICES ASSUME NEW j \in DOMAIN s PROVE ~Closes(s[j], r)
            OBVIOUS
          <5>1. j + 1 \in DOMAIN p /\ s[j] = p[j + 1]
            BY <1>1
          <5>. QED BY <3>1, <5>1
        <4>. QED BY <4>1, <4>2, InLeft
      <3>2. CASE \E i \in DOMAIN p : Opening(p[i]) /\ p[i].row = r /\ \A j \in DOMAIN p : j > i => ~Closes(p[j], r)
        <4>1. PICK i \in DOMAIN p : Opening(p[i]) /\ p[i].row = r /\ \A j \in DOMAIN p : j > i => ~Closes(p[j], r)
          BY <3>2
        <4>2. \A j \in DOMAIN s : j > i - 1 => ~Closes(s[j], r)
          <5> SUFFICES ASSUME NEW j \in DOMAIN s, j > i - 1 PROVE ~Closes(s[j], r)
            OBVIOUS
          <5>1. j + 1 \in DOMAIN p /\ s[j] = p[j + 1] /\ j + 1 > i
            BY <1>1, <4>1
          <5>. QED BY <4>1, <5>1
        <4>3. CASE i = 1
          <5>1. r \in v
            BY <1>4, <4>1, <4>3
          <5>2. \A j \in DOMAIN s : ~Closes(s[j], r)
            BY <1>1, <4>2, <4>3
          <5>. QED BY <5>1, <5>2, InLeft
        <4>4. CASE i # 1
          <5>1. i - 1 \in DOMAIN s /\ s[i - 1] = p[i]
            BY <1>1, <4>1, <4>4
          <5>. QED BY <4>1, <4>2, <5>1, InLeft
        <4>. QED BY <4>3, <4>4
      <3>. QED BY <2>2, <3>1, <3>2, InLeft
    <2>. QED BY <2>1, <2>2
  <1>7. Unique(w) => Unique(v)
    <2>1. CASE Opening(m)
      BY <1>3, <1>4, <2>1 DEF Unique, SameSlot
    <2>2. CASE ~Opening(m)
      BY <1>4, <2>2 DEF Unique
    <2>. QED BY <2>1, <2>2
  <1>. QED BY <1>1, <1>5, <1>6, <1>7

LEMMA NothingPending ==
    ASSUME NEW w
    PROVE  Ordered(w, <<>>) /\ \A r : r \in Left(w, <<>>) <=> r \in w
  BY DEF Ordered, Left

\* What is still to be applied, as the worker takes it up.
LEMMA Pieces ==
    ASSUME NEW S, NEW b \in Seq(S), NEW q \in Seq(S)
    PROVE  /\ \A m \in S : b \o Append(q, m) = Append(b \o q, m)
           /\ <<>> \o q = q
           /\ SubSeq(b, 1, Len(b)) = b
           /\ SubSeq(b, Len(b) + 1, Len(b)) = <<>>
           /\ \A n \in 0..Len(b) : SubSeq(b, n + 1, Len(b)) \in Seq(S)
  <1>1. ASSUME NEW m \in S PROVE b \o Append(q, m) = Append(b \o q, m)
    <2>1. <<m>> \in Seq(S) /\ b \o q \in Seq(S)
      BY ConcatProperties
    <2>2. Append(q, m) = q \o <<m>> /\ Append(b \o q, m) = (b \o q) \o <<m>>
      BY <2>1, AppendIsConcat
    <2>. QED BY <2>1, <2>2, ConcatAssociative
  <1>2. <<>> \o q = q
    BY ConcatEmptySeq
  <1>3. SubSeq(b, 1, Len(b)) = b
    BY SubSeqFull
  <1>4. SubSeq(b, Len(b) + 1, Len(b)) = <<>>
    BY SubSeqEmpty
  <1>5. ASSUME NEW n \in 0..Len(b) PROVE SubSeq(b, n + 1, Len(b)) \in Seq(S)
    <2>1. n + 1 \in Int /\ Len(b) \in Int /\ \A i \in (n + 1)..Len(b) : b[i] \in S
      OBVIOUS
    <2>. QED BY <2>1, SubSeqProperties
  <1>. QED BY <1>1, <1>2, <1>3, <1>4, <1>5

LEMMA SplitPiece ==
    ASSUME NEW S, NEW q \in Seq(S), NEW n \in 0..Len(q)
    PROVE  SubSeq(q, 1, n) \o SubSeq(q, n + 1, Len(q)) = q
  <1>1. PICK k : k = Len(q)
    OBVIOUS
  <1>2. 1 \in 1..(Len(q) + 1) /\ n \in (1 - 1)..Len(q) /\ k \in n..Len(q)
    BY <1>1
  <1>3. SubSeq(q, 1, n) \o SubSeq(q, n + 1, k) = SubSeq(q, 1, k)
    BY <1>2, ConcatAdjacentSubSeq
  <1>. QED BY <1>1, <1>3, SubSeqFull

LEMMA ConsTail ==
    ASSUME NEW S, NEW x \in S, NEW y \in Seq(S), Len(y) = 1, y[1] = x, NEW u \in Seq(S)
    PROVE  y \o u \in Seq(S) /\ y \o u # <<>> /\ (y \o u)[1] = x /\ Tail(y \o u) = u
  <1>0. PICK p : p = y \o u
    OBVIOUS
  <1>1. p \in Seq(S) /\ Len(p) = 1 + Len(u) /\ \A i \in 1..(1 + Len(u)) : p[i] = IF i <= 1 THEN y[i] ELSE u[i - 1]
    BY <1>0, ConcatProperties
  <1>2. Len(u) \in Nat /\ 1 \in 1..(1 + Len(u))
    OBVIOUS
  <1>3. p[1] = y[1]
    BY <1>1, <1>2
  <1>4. Len(p) # 0
    BY <1>1, <1>2
  <1>5. p # <<>>
    BY <1>4
  <1>6. PICK v : v = Tail(p)
    OBVIOUS
  <1>7. v \in Seq(S) /\ Len(v) = Len(p) - 1 /\ \A i \in 1..Len(v) : v[i] = p[i + 1]
    BY <1>1, <1>5, <1>6, HeadTailProperties
  <1>8. Len(v) = Len(u)
    BY <1>1, <1>2, <1>7
  <1>9. \A i \in 1..Len(v) : v[i] = u[i]
    <2> SUFFICES ASSUME NEW i \in 1..Len(v) PROVE v[i] = u[i]
      OBVIOUS
    <2>1. PICK j : j = i + 1
      OBVIOUS
    <2>2. j \in 1..(1 + Len(u)) /\ ~(j <= 1) /\ j - 1 = i
      BY <1>2, <1>8, <2>1
    <2>3. p[j] = u[i]
      BY <1>1, <2>2
    <2>4. v[i] = p[j]
      BY <1>7, <2>1
    <2>. QED BY <2>3, <2>4
  <1>10. v = u
    BY <1>7, <1>8, <1>9, SeqEqual
  <1>. QED BY <1>0, <1>1, <1>3, <1>5, <1>6, <1>10

LEMMA NextPiece ==
    ASSUME NEW S, NEW b \in Seq(S), NEW q \in Seq(S), NEW n \in 0..Len(b), n < Len(b)
    PROVE  /\ SubSeq(b, n + 1, Len(b)) \o q \in Seq(S)
           /\ SubSeq(b, n + 1, Len(b)) \o q # <<>>
           /\ (SubSeq(b, n + 1, Len(b)) \o q)[1] = b[n + 1]
           /\ Tail(SubSeq(b, n + 1, Len(b)) \o q) = SubSeq(b, n + 1 + 1, Len(b)) \o q
  <1>1. PICK x, y, s, t : x = b[n + 1] /\ y = <<x>> /\ s = SubSeq(b, n + 1, Len(b)) /\ t = SubSeq(b, n + 1 + 1, Len(b))
    OBVIOUS
  <1>2. s \in Seq(S) /\ t \in Seq(S) /\ n + 1 \in 1..Len(b) /\ n + 1 \in 0..Len(b) /\ Len(b) \in (n + 1)..Len(b)
    BY <1>1, Pieces
  <1>3. x \in S /\ y \in Seq(S) /\ Len(y) = 1 /\ y[1] = x
    BY <1>1, <1>2
  <1>4. s = y \o t
    BY <1>1, <1>2, SubSeqRecursiveFirst
  <1>5. t \o q \in Seq(S)
    BY <1>2, ConcatProperties
  <1>6. (y \o t) \o q = y \o (t \o q)
    <2>1. y \in Seq(S) /\ t \in Seq(S)
      BY <1>2, <1>3
    <2>. QED BY <2>1, ConcatAssociative
  <1>7. s \o q = y \o (t \o q)
    BY <1>4, <1>6
  <1>8. PICK u : u = t \o q
    OBVIOUS
  <1>9. u \in Seq(S) /\ s \o q = y \o u
    BY <1>5, <1>7, <1>8
  <1>10. y \o u \in Seq(S) /\ y \o u # <<>> /\ (y \o u)[1] = x /\ Tail(y \o u) = u
    <2>1. u \in Seq(S)
      BY <1>9
    <2>. QED BY <1>3, <2>1, ConsTail
  <1>. QED BY <1>1, <1>8, <1>9, <1>10

-----------------------------------------------------------------------------
(* The sessions change and the mutation that says so is accepted, or not.  *)

Fits(m, E, E1, T, T1) ==
    \/ /\ Opening(m)
       /\ \A q \in E : ~SameSlot(q, m.row)
       /\ \A r : r \in E1 <=> r \in E \/ r = m.row
       /\ \A r \in E : r.dir = "backend" => T1[r.key] = T[r.key]
       /\ m.row.dir = "backend" => T1[m.row.key] = m.row.life
    \/ /\ ~Opening(m)
       /\ \A r : r \in E1 <=> r \in E /\ ~Closes(m, r)
       /\ \A r \in E1 : r.dir = "backend" => T1[r.key] = T[r.key]

LEMMA FaithfulNext ==
    ASSUME NEW w, NEW p \in Seq(MutationSet), NEW m \in MutationSet, NEW E, NEW E1, NEW T, NEW T1, NEW c,
           Faithful(w, p, E, T, FALSE, c), Fits(m, E, E1, T, T1)
    PROVE  Faithful(w, Append(p, m), E1, T1, FALSE, c)
  <1>1. Ordered(w, p) /\ Left(w, p) \subseteq E /\ (\A r \in Left(w, p) : r.dir = "backend" => T[r.key] = r.life)
        /\ (c => E \subseteq Left(w, p))
    BY DEF Faithful
  <1>2. CASE Opening(m)
    <2>1. /\ \A q \in E : ~SameSlot(q, m.row)
          /\ \A r : r \in E1 <=> r \in E \/ r = m.row
          /\ \A r \in E : r.dir = "backend" => T1[r.key] = T[r.key]
          /\ m.row.dir = "backend" => T1[m.row.key] = m.row.life
      BY <1>2 DEF Fits
    <2>2. Ordered(w, Append(p, m)) /\ \A r : r \in Left(w, Append(p, m)) <=> r \in Left(w, p) \/ r = m.row
      BY <1>1, <1>2, <2>1, AppendOpen
    <2>. QED BY <1>1, <2>1, <2>2 DEF Faithful
  <1>3. CASE ~Opening(m)
    <2>1. /\ \A r : r \in E1 <=> r \in E /\ ~Closes(m, r)
          /\ \A r \in E1 : r.dir = "backend" => T1[r.key] = T[r.key]
      BY <1>3 DEF Fits
    <2>2. Ordered(w, Append(p, m)) /\ \A r : r \in Left(w, Append(p, m)) <=> r \in Left(w, p) /\ ~Closes(m, r)
      BY <1>1, <1>3, AppendClose
    <2>. QED BY <1>1, <2>1, <2>2 DEF Faithful
  <1>. QED BY <1>2, <1>3

LEMMA FaithfulDropped ==
    ASSUME NEW w, NEW p, NEW E, NEW E1, NEW T, NEW T1, NEW g, NEW c, Faithful(w, p, E, T, g, c)
    PROVE  Faithful(w, p, E1, T1, TRUE, FALSE)
  BY DEF Faithful

LEMMA FaithfulQuiet ==
    ASSUME NEW w, NEW p, NEW E, NEW E1, NEW T, NEW g, NEW c, Faithful(w, p, E, T, g, c), E1 \subseteq E,
           \A r \in E : r \in E1 \/ (r.dir = "backend" /\ T[r.key] # r.life)
    PROVE  Faithful(w, p, E1, T, g, c)
  <1>1. Ordered(w, p) /\ (~g => Left(w, p) \subseteq E /\ \A r \in Left(w, p) : r.dir = "backend" => T[r.key] = r.life)
        /\ (c => E \subseteq Left(w, p))
    BY DEF Faithful
  <1>. QED BY <1>1 DEF Faithful

LEMMA PieceTypes ==
    ASSUME QueueTypes
    PROVE  Whole \in Seq(MutationSet) /\ Rest \in Seq(MutationSet) /\ SubSeq(batch, done + 1, Len(batch)) \in Seq(MutationSet)
  <1>1. PICK b, q, n : b = batch /\ q = queue /\ n = done
    OBVIOUS
  <1>2. b \in Seq(MutationSet) /\ q \in Seq(MutationSet) /\ n \in 0..Len(b)
    BY <1>1 DEF QueueTypes
  <1>3. SubSeq(b, n + 1, Len(b)) \in Seq(MutationSet)
    BY <1>2, Pieces
  <1>4. b \o q \in Seq(MutationSet) /\ SubSeq(b, n + 1, Len(b)) \o q \in Seq(MutationSet)
    BY <1>2, <1>3, ConcatProperties
  <1>. QED BY <1>1, <1>3, <1>4 DEF Whole, Rest

LEMMA SubmitStep ==
    ASSUME HistoryInv, NEW m \in MutationSet, m.op # "CloseAll", submit(m), UNCHANGED worker,
           LifeTypes', LivesApart', Accepted => Fits(m, Expected, Expected', token, token')
    PROVE  HistoryInv'
  <1>1. PICK v, w, b, s, q, E, E1, T, T1, c, g :
             v = rows /\ w = txn /\ b = batch /\ s = SubSeq(batch, done + 1, Len(batch)) /\ q = queue
             /\ E = Expected /\ E1 = Expected' /\ T = token /\ T1 = token' /\ c = complete /\ g = gap
    OBVIOUS
  <1>2. LifeTypes /\ QueueTypes /\ LivesApart /\ Phases /\ (Sound => Claim(rows, Whole) /\ Claim(txn, Rest))
    BY DEF HistoryInv
  <1>3. b \in Seq(MutationSet) /\ s \in Seq(MutationSet) /\ q \in Seq(MutationSet)
    BY <1>1, <1>2, PieceTypes DEF QueueTypes
  <1>4. b \o q \in Seq(MutationSet) /\ s \o q \in Seq(MutationSet)
    BY <1>3, ConcatProperties
  <1>5. rows' = rows /\ txn' = txn /\ batch' = batch /\ done' = done /\ pc' = pc
    BY DEF worker
  <1>6. Whole = b \o q /\ Rest = s \o q
    BY <1>1 DEF Whole, Rest
  <1>7. CASE Accepted
    <2>1. gap = FALSE /\ gap' = FALSE /\ complete' = complete /\ overtaken' = overtaken
          /\ queue' = Append(q, m) /\ Len(q) < CAPACITY
      BY <1>1, <1>2, <1>7 DEF submit, Accepted, QueueTypes
    <2>2. queue' \in Seq(MutationSet) /\ Len(queue') = Len(q) + 1
          /\ (\A i \in 1..Len(q) : queue'[i] = q[i]) /\ queue'[Len(q) + 1] = m /\ queue' # <<>>
      BY <1>3, <2>1, AppendProperties
    <2>3. QueueTypes'
      <3>1. Len(queue') <= CAPACITY
        BY <1>3, <2>1, <2>2, HistoryAssumption
      <3>. QED BY <1>2, <1>5, <2>1, <2>2, <3>1 DEF QueueTypes
    <2>4. Whole' = Append(b \o q, m) /\ Rest' = Append(s \o q, m)
      <3>1. b \o Append(q, m) = Append(b \o q, m) /\ s \o Append(q, m) = Append(s \o q, m)
        BY <1>3, Pieces
      <3>2. Whole' = b \o Append(q, m)
        BY <1>1, <1>5, <2>1 DEF Whole
      <3>3. Rest' = s \o Append(q, m)
        BY <1>1, <1>5, <2>1 DEF Rest
      <3>. QED BY <3>1, <3>2, <3>3
    <2>5. \A i \in DOMAIN queue' : queue'[i].op = "CloseAll" => i \in DOMAIN q /\ queue'[i] = q[i]
      <3> SUFFICES ASSUME NEW i \in DOMAIN queue', queue'[i].op = "CloseAll" PROVE i \in DOMAIN q /\ queue'[i] = q[i]
        OBVIOUS
      <3>1. DOMAIN queue' = 1..(Len(q) + 1) /\ DOMAIN q = 1..Len(q) /\ Len(q) \in Nat
        BY <1>3, <2>2
      <3>2. i # Len(q) + 1
        BY <2>2
      <3>. QED BY <2>2, <3>1, <3>2
    <2>6. ClosesAll(queue') => ClosesAll(q)
      BY <2>5 DEF ClosesAll
    <2>7. Sound <=> (~overtaken \/ ClosesAll(b) \/ ClosesAll(q))
      BY <1>1 DEF Sound
    <2>8. Sound' <=> (~overtaken \/ ClosesAll(b) \/ ClosesAll(queue'))
      BY <1>1, <1>5, <2>1 DEF Sound
    <2>9. Sound' => Sound
      BY <2>6, <2>7, <2>8
    <2>10. Sound => Sound'
      <3>1. ClosesAll(q) => ClosesAll(queue')
        BY <1>3, <2>2 DEF ClosesAll
      <3>. QED BY <2>7, <2>8, <3>1
    <2>11. Phases'
      <3>1. \A i \in DOMAIN queue' : queue'[i].op = "CloseAll" => i = 1 /\ pc' = "recv"
        BY <1>1, <1>2, <1>5, <2>5 DEF Phases
      <3>2. /\ pc' # "persist" => batch' = <<>> /\ txn' = rows'
            /\ \A i \in DOMAIN batch' : batch'[i].op = "CloseAll" => i = 1
            /\ pc' = "reset" => rows' = {}
        BY <1>2, <1>5 DEF Phases
      <3>3. pc' \notin {"interrupt", "reset"}
        BY <1>2, <1>5, <2>1 DEF Phases
      <3>4. complete' => ~gap' /\ Sound'
        BY <1>2, <2>1, <2>10 DEF Phases
      <3>. QED BY <2>1, <3>1, <3>2, <3>3, <3>4 DEF Phases
    <2>12. Sound' => Claim(rows, Whole)' /\ Claim(txn, Rest)'
      <3> SUFFICES ASSUME Sound' PROVE Claim(rows, Whole)' /\ Claim(txn, Rest)'
        OBVIOUS
      <3>1. Faithful(v, b \o q, E, T, FALSE, c) /\ Faithful(w, s \o q, E, T, FALSE, c)
        BY <1>1, <1>2, <1>6, <2>1, <2>9 DEF Claim
      <3>2. Fits(m, E, E1, T, T1)
        BY <1>1, <1>7
      <3>3. Faithful(v, Append(b \o q, m), E1, T1, FALSE, c) /\ Faithful(w, Append(s \o q, m), E1, T1, FALSE, c)
        BY <1>4, <3>1, <3>2, FaithfulNext
      <3>4. Claim(rows, Whole)'
        BY <1>1, <1>5, <2>1, <2>4, <3>3 DEF Claim
      <3>5. Claim(txn, Rest)'
        BY <1>1, <1>5, <2>1, <2>4, <3>3 DEF Claim
      <3>. QED BY <3>4, <3>5
    <2>13. (~overtaken' => Unique(rows')) /\ (~overtaken' \/ (done' > 0 /\ ClosesAll(batch')) => Unique(txn'))
      BY <1>5, <2>1 DEF HistoryInv
    <2>. QED BY <2>3, <2>11, <2>12, <2>13 DEF HistoryInv
  <1>8. CASE ~Accepted
    <2>1. gap' = TRUE /\ complete' = FALSE /\ queue' = queue /\ overtaken' = (overtaken \/ (pc = "gap" /\ ~gap))
      BY <1>2, <1>8 DEF submit, QueueTypes
    <2>2. QueueTypes'
      BY <1>2, <1>5, <2>1 DEF QueueTypes
    <2>3. Whole' = Whole /\ Rest' = Rest
      BY <1>5, <2>1 DEF Whole, Rest
    <2>4. Sound' => Sound
      BY <1>5, <2>1 DEF Sound
    <2>5. Phases'
      BY <1>2, <1>5, <2>1 DEF Phases
    <2>6. Sound' => Claim(rows, Whole)' /\ Claim(txn, Rest)'
      <3> SUFFICES ASSUME Sound' PROVE Claim(rows, Whole)' /\ Claim(txn, Rest)'
        OBVIOUS
      <3>1. Faithful(v, b \o q, E, T, g, c) /\ Faithful(w, s \o q, E, T, g, c)
        BY <1>1, <1>2, <1>6, <2>4 DEF Claim
      <3>2. Faithful(v, b \o q, E1, T1, TRUE, FALSE) /\ Faithful(w, s \o q, E1, T1, TRUE, FALSE)
        BY <3>1, FaithfulDropped
      <3>3. Claim(rows, Whole)'
        BY <1>1, <1>5, <1>6, <2>1, <2>3, <3>2 DEF Claim
      <3>4. Claim(txn, Rest)'
        BY <1>1, <1>5, <1>6, <2>1, <2>3, <3>2 DEF Claim
      <3>. QED BY <3>3, <3>4
    <2>7. (~overtaken' => Unique(rows')) /\ (~overtaken' \/ (done' > 0 /\ ClosesAll(batch')) => Unique(txn'))
      BY <1>5, <2>1 DEF HistoryInv
    <2>. QED BY <2>2, <2>5, <2>6, <2>7 DEF HistoryInv
  <1>. QED BY <1>7, <1>8

\* A session that never had a row recorded, or has none yet, says nothing.
LEMMA QuietStep ==
    ASSUME HistoryInv, UNCHANGED <<queue, gap, complete, overtaken, worker>>, LifeTypes', LivesApart', token' = token,
           Expected' \subseteq Expected,
           \A r \in Expected : r \in Expected' \/ (r.dir = "backend" /\ token[r.key] # r.life)
    PROVE  HistoryInv'
  <1>1. PICK v, w, a, p, E, E1, T, c, g :
             v = rows /\ w = txn /\ a = Whole /\ p = Rest /\ E = Expected /\ E1 = Expected' /\ T = token /\ c = complete /\ g = gap
    OBVIOUS
  <1>2. rows' = rows /\ txn' = txn /\ batch' = batch /\ done' = done /\ pc' = pc
    BY DEF worker
  <1>3. Whole' = a /\ Rest' = p /\ (Sound' <=> Sound)
    BY <1>1, <1>2 DEF Whole, Rest, Sound
  <1>4. QueueTypes' /\ Phases'
    BY <1>2, <1>3 DEF HistoryInv, QueueTypes, Phases
  <1>5. ASSUME Sound' PROVE Claim(rows, Whole)' /\ Claim(txn, Rest)'
    <2>1. Faithful(v, a, E, T, g, c) /\ Faithful(w, p, E, T, g, c)
      BY <1>1, <1>3, <1>5 DEF HistoryInv, Claim
    <2>2. E1 \subseteq E /\ \A r \in E : r \in E1 \/ (r.dir = "backend" /\ T[r.key] # r.life)
      BY <1>1
    <2>3. Faithful(v, a, E1, T, g, c) /\ Faithful(w, p, E1, T, g, c)
      BY <2>1, <2>2, FaithfulQuiet
    <2>. QED BY <1>1, <1>2, <1>3, <2>3 DEF Claim
  <1>6. (~overtaken' => Unique(rows')) /\ (~overtaken' \/ (done' > 0 /\ ClosesAll(batch')) => Unique(txn'))
    BY <1>2 DEF HistoryInv
  <1>. QED BY <1>4, <1>5, <1>6 DEF HistoryInv

-----------------------------------------------------------------------------
(* The worker.                                                             *)

LEMMA Lifeless ==
    ASSUME UNCHANGED lifecycle
    PROVE  Expected' = Expected /\ token' = token /\ (LifeTypes' <=> LifeTypes) /\ (LivesApart' <=> LivesApart)
  BY DEF lifecycle, Expected, LifeTypes, LivesApart

LEMMA ReceiveStep == HistoryInv /\ Receive => HistoryInv'
  <1> SUFFICES ASSUME HistoryInv, Receive PROVE HistoryInv'
    OBVIOUS
  <1>1. PICK n : n = IF Len(queue) < BATCH_SIZE THEN Len(queue) ELSE BATCH_SIZE
    OBVIOUS
  <1>2. PICK q : q = queue
    OBVIOUS
  <1>3. LifeTypes /\ QueueTypes /\ LivesApart /\ Phases /\ (Sound => Claim(rows, Whole) /\ Claim(txn, Rest))
    BY DEF HistoryInv
  <1>4. /\ pc = "recv" /\ q # <<>> /\ batch' = SubSeq(q, 1, n) /\ queue' = SubSeq(q, n + 1, Len(q)) /\ pc' = "persist"
        /\ done' = done /\ txn' = txn /\ rows' = rows /\ gap' = gap /\ complete' = complete /\ overtaken' = overtaken
        /\ UNCHANGED lifecycle
    BY <1>1, <1>2 DEF Receive
  <1>5. q \in Seq(MutationSet) /\ Len(q) <= CAPACITY /\ Len(q) \in Nat \ {0}
    BY <1>2, <1>3, <1>4 DEF QueueTypes
  <1>6. n \in 1..Len(q) /\ n <= BATCH_SIZE /\ n \in Nat
    BY <1>1, <1>2, <1>5, HistoryAssumption
  <1>7. batch = <<>> /\ txn = rows /\ done = 0 /\ batch \in Seq(MutationSet)
    <2>1. batch = <<>> /\ txn = rows
      BY <1>3, <1>4 DEF Phases
    <2>2. done \in 0..Len(batch) /\ Len(batch) = 0
      BY <1>3, <2>1 DEF QueueTypes
    <2>. QED BY <2>1, <2>2
  <1>8. PICK b, s : b = SubSeq(q, 1, n) /\ s = SubSeq(q, n + 1, Len(q))
    OBVIOUS
  <1>9. b \in Seq(MutationSet) /\ Len(b) = n /\ \A i \in 1..n : b[i] = q[i]
    <2>1. 1 \in Int /\ n \in Int /\ \A i \in 1..n : q[i] \in MutationSet
      BY <1>5, <1>6
    <2>2. b \in Seq(MutationSet) /\ Len(b) = (IF 1 <= n THEN n - 1 + 1 ELSE 0) /\ \A i \in 1..(n - 1 + 1) : b[i] = q[1 + i - 1]
      BY <1>8, <2>1, SubSeqProperties
    <2>. QED BY <1>6, <2>2
  <1>10. s \in Seq(MutationSet) /\ Len(s) = Len(q) - n /\ \A i \in 1..(Len(q) - n) : s[i] = q[n + i]
    <2>1. n + 1 \in Int /\ Len(q) \in Int /\ \A i \in (n + 1)..Len(q) : q[i] \in MutationSet
      BY <1>5, <1>6
    <2>2. /\ s \in Seq(MutationSet) /\ Len(s) = (IF n + 1 <= Len(q) THEN Len(q) - (n + 1) + 1 ELSE 0)
          /\ \A i \in 1..(Len(q) - (n + 1) + 1) : s[i] = q[n + 1 + i - 1]
      BY <1>8, <2>1, SubSeqProperties
    <2>. QED BY <1>5, <1>6, <2>2
  <1>11. b \o s = q
    <2>1. n \in 0..Len(q)
      BY <1>5, <1>6
    <2>. QED BY <1>5, <1>8, <2>1, SplitPiece
  <1>12. Whole = q /\ Rest = q
    <2>1. <<>> \o q = q
      BY <1>5, Pieces
    <2>2. SubSeq(batch, done + 1, Len(batch)) = <<>>
      BY <1>7, Pieces
    <2>. QED BY <1>2, <1>7, <2>1, <2>2 DEF Whole, Rest
  <1>13. Whole' = q /\ Rest' = q
    <2>1. SubSeq(b, 1, Len(b)) = b
      BY <1>9, Pieces
    <2>2. Whole' = b \o s
      BY <1>4, <1>8 DEF Whole
    <2>3. Rest' = SubSeq(b, 0 + 1, Len(b)) \o s
      BY <1>4, <1>7, <1>8 DEF Rest
    <2>. QED BY <1>11, <2>1, <2>2, <2>3
  <1>14. QueueTypes'
    <2>1. Len(queue') <= CAPACITY
      BY <1>4, <1>5, <1>6, <1>8, <1>10, HistoryAssumption
    <2>. QED BY <1>3, <1>4, <1>6, <1>7, <1>8, <1>9, <1>10, <2>1 DEF QueueTypes
  <1>15. \A i \in DOMAIN s : s[i].op # "CloseAll"
    <2> SUFFICES ASSUME NEW i \in DOMAIN s, s[i].op = "CloseAll" PROVE FALSE
      OBVIOUS
    <2>1. n + i \in DOMAIN q /\ s[i] = q[n + i] /\ n + i # 1
      BY <1>5, <1>6, <1>10
    <2>. QED BY <1>2, <1>3, <2>1 DEF Phases
  <1>16. \A i \in DOMAIN b : i \in DOMAIN q /\ b[i] = q[i]
    BY <1>5, <1>6, <1>9
  <1>17. ClosesAll(b) <=> ClosesAll(q)
    <2>1. ClosesAll(b) => ClosesAll(q)
      BY <1>16 DEF ClosesAll
    <2>2. ASSUME NEW i \in DOMAIN q, q[i].op = "CloseAll" PROVE i \in DOMAIN b /\ b[i].op = "CloseAll"
      <3>1. i = 1
        BY <1>2, <1>3, <2>2 DEF Phases
      <3>. QED BY <1>6, <1>9, <2>2, <3>1
    <2>. QED BY <2>1, <2>2 DEF ClosesAll
  <1>18. Sound <=> (~overtaken \/ ClosesAll(q))
    BY <1>2, <1>7 DEF Sound, ClosesAll
  <1>19. Sound' <=> (~overtaken \/ ClosesAll(b))
    BY <1>4, <1>8, <1>15 DEF Sound, ClosesAll
  <1>20. Phases'
    <2>1. \A i \in DOMAIN b : b[i].op = "CloseAll" => i = 1
      BY <1>2, <1>3, <1>16 DEF Phases
    <2>2. complete' => ~gap' /\ Sound'
      BY <1>3, <1>4, <1>17, <1>18, <1>19 DEF Phases
    <2>. QED BY <1>4, <1>8, <1>15, <2>1, <2>2 DEF Phases
  <1>21. ASSUME Sound' PROVE Claim(rows, Whole)' /\ Claim(txn, Rest)'
    <2>1. Claim(rows, q) /\ Claim(txn, q)
      BY <1>3, <1>12, <1>17, <1>18, <1>19, <1>21
    <2>. QED BY <1>4, <1>13, <2>1, Lifeless DEF Claim
  <1>22. (~overtaken' => Unique(rows')) /\ (~overtaken' \/ (done' > 0 /\ ClosesAll(batch')) => Unique(txn'))
    <2>1. ~overtaken => Unique(rows)
      BY DEF HistoryInv
    <2>. QED BY <1>4, <1>7, <2>1
  <1>. QED BY <1>3, <1>4, <1>14, <1>20, <1>21, <1>22, Lifeless DEF HistoryInv

LEMMA ApplyNextStep == HistoryInv /\ ApplyNext => HistoryInv'
  <1> SUFFICES ASSUME HistoryInv, ApplyNext PROVE HistoryInv'
    OBVIOUS
  <1>1. PICK b, q, n, m, w, p : b = batch /\ q = queue /\ n = done /\ m = batch[done + 1] /\ w = txn /\ p = Rest
    OBVIOUS
  <1>2. LifeTypes /\ QueueTypes /\ LivesApart /\ Phases /\ (Sound => Claim(rows, Whole) /\ Claim(txn, Rest))
    BY DEF HistoryInv
  <1>3. /\ pc = "persist" /\ n < Len(b) /\ txn' = apply(w, m) /\ done' = n + 1 /\ queue' = queue /\ batch' = batch
        /\ gap' = gap /\ pc' = pc /\ rows' = rows /\ complete' = complete /\ overtaken' = overtaken /\ UNCHANGED lifecycle
    BY <1>1 DEF ApplyNext
  <1>4. b \in Seq(MutationSet) /\ q \in Seq(MutationSet) /\ n \in 0..Len(b)
    BY <1>1, <1>2 DEF QueueTypes
  <1>5. p = SubSeq(b, n + 1, Len(b)) \o q
    BY <1>1 DEF Rest
  <1>6. p \in Seq(MutationSet) /\ p # <<>> /\ m = p[1] /\ Tail(p) = SubSeq(b, n + 1 + 1, Len(b)) \o q
    <2>1. m = b[n + 1]
      BY <1>1
    <2>. QED BY <1>3, <1>4, <1>5, <2>1, NextPiece
  <1>7. Whole' = Whole /\ Rest' = Tail(p) /\ (Sound' <=> Sound)
    <2>1. Whole' = Whole /\ (Sound' <=> Sound)
      BY <1>3 DEF Whole, Sound
    <2>2. Rest' = SubSeq(b, n + 1 + 1, Len(b)) \o q
      BY <1>1, <1>3 DEF Rest
    <2>. QED BY <1>6, <2>1, <2>2
  <1>8. QueueTypes'
    <2>1. n + 1 \in 0..Len(b)
      BY <1>3, <1>4
    <2>. QED BY <1>1, <1>2, <1>3, <2>1 DEF QueueTypes
  <1>9. Phases'
    BY <1>2, <1>3, <1>7 DEF Phases
  <1>10. Sound => /\ Ordered(apply(w, m), Tail(p))
                  /\ \A r : r \in Left(apply(w, m), Tail(p)) <=> r \in Left(w, p)
                  /\ Unique(w) => Unique(apply(w, m))
    <2> SUFFICES ASSUME Sound PROVE /\ Ordered(apply(w, m), Tail(p))
                                    /\ \A r : r \in Left(apply(w, m), Tail(p)) <=> r \in Left(w, p)
                                    /\ Unique(w) => Unique(apply(w, m))
      OBVIOUS
    <2>1. Ordered(w, p)
      BY <1>1, <1>2 DEF Claim, Faithful
    <2>. QED BY <1>6, <2>1, HeadApplied
  <1>11. ASSUME Sound' PROVE Claim(rows, Whole)' /\ Claim(txn, Rest)'
    <2>1. PICK E, T, g, c : E = Expected /\ T = token /\ g = gap /\ c = complete
      OBVIOUS
    <2>2. Claim(rows, Whole) /\ Faithful(w, p, E, T, g, c)
      BY <1>1, <1>2, <1>7, <1>11, <2>1 DEF Claim
    <2>3. PICK v, s : v = apply(w, m) /\ s = Tail(p)
      OBVIOUS
    <2>4. Ordered(v, s) /\ \A r : r \in Left(v, s) <=> r \in Left(w, p)
      BY <1>7, <1>10, <1>11, <2>3
    <2>5. Faithful(v, s, E, T, g, c)
      BY <2>2, <2>4 DEF Faithful
    <2>6. Claim(rows, Whole)'
      BY <1>3, <1>7, <2>2, Lifeless DEF Claim
    <2>7. Claim(txn, Rest)'
      BY <1>3, <1>7, <2>1, <2>3, <2>5, Lifeless DEF Claim
    <2>. QED BY <2>6, <2>7
  <1>12. ASSUME ~overtaken' \/ (done' > 0 /\ ClosesAll(batch')) PROVE Unique(txn')
    <2>1. Sound
      BY <1>3, <1>12 DEF Sound
    <2>2. CASE ~overtaken \/ n > 0
      <3>1. Unique(w)
        BY <1>1, <1>3, <1>12, <2>2 DEF HistoryInv
      <3>. QED BY <1>3, <1>10, <2>1, <3>1
    <2>3. CASE overtaken /\ ~(n > 0)
      <3>1. n = 0 /\ ClosesAll(b)
        BY <1>1, <1>3, <1>4, <1>12, <2>3
      <3>2. PICK i \in DOMAIN b : b[i].op = "CloseAll"
        BY <3>1 DEF ClosesAll
      <3>3. i = 1
        BY <1>1, <1>2, <3>2 DEF Phases
      <3>4. m.op = "CloseAll" /\ m \in MutationSet
        BY <1>1, <1>4, <3>1, <3>2, <3>3
      <3>5. apply(w, m) = {}
        BY <3>4, ApplyOf
      <3>. QED BY <1>3, <3>5 DEF Unique
    <2>. QED BY <1>12, <2>2, <2>3
  <1>13. ~overtaken' => Unique(rows')
    BY <1>3 DEF HistoryInv
  <1>. QED BY <1>2, <1>3, <1>8, <1>9, <1>11, <1>12, <1>13, Lifeless DEF HistoryInv

LEMMA RollbackStep == HistoryInv /\ Rollback => HistoryInv'
  <1> SUFFICES ASSUME HistoryInv, Rollback PROVE HistoryInv'
    OBVIOUS
  <1>1. LifeTypes /\ QueueTypes /\ LivesApart /\ Phases /\ (Sound => Claim(rows, Whole) /\ Claim(txn, Rest))
    BY DEF HistoryInv
  <1>2. /\ pc = "persist" /\ txn' = rows /\ done' = 0 /\ queue' = queue /\ gap' = gap /\ pc' = pc /\ batch' = batch
        /\ rows' = rows /\ complete' = complete /\ overtaken' = overtaken /\ UNCHANGED lifecycle
    BY DEF Rollback
  <1>3. Whole' = Whole /\ Rest' = Whole /\ (Sound' <=> Sound)
    <2>1. PICK b : b = batch
      OBVIOUS
    <2>2. SubSeq(b, 0 + 1, Len(b)) = b
      BY <1>1, <2>1, Pieces DEF QueueTypes
    <2>3. Rest' = SubSeq(b, 0 + 1, Len(b)) \o queue
      BY <1>2, <2>1 DEF Rest
    <2>. QED BY <1>2, <2>1, <2>2, <2>3 DEF Whole, Sound
  <1>4. QueueTypes' /\ Phases'
    BY <1>1, <1>2, <1>3 DEF QueueTypes, Phases
  <1>5. ASSUME Sound' PROVE Claim(rows, Whole)' /\ Claim(txn, Rest)'
    BY <1>1, <1>2, <1>3, <1>5, Lifeless DEF Claim
  <1>6. (~overtaken' => Unique(rows')) /\ (~overtaken' \/ (done' > 0 /\ ClosesAll(batch')) => Unique(txn'))
    <2>1. ~overtaken => Unique(rows)
      BY DEF HistoryInv
    <2>. QED BY <1>2, <2>1
  <1>. QED BY <1>1, <1>2, <1>4, <1>5, <1>6, Lifeless DEF HistoryInv

LEMMA CommitStep == HistoryInv /\ Commit => HistoryInv'
  <1> SUFFICES ASSUME HistoryInv, Commit PROVE HistoryInv'
    OBVIOUS
  <1>1. LifeTypes /\ QueueTypes /\ LivesApart /\ Phases /\ (Sound => Claim(rows, Whole) /\ Claim(txn, Rest))
    BY DEF HistoryInv
  <1>2. /\ pc = "persist" /\ done = Len(batch) /\ rows' = txn /\ txn' = txn /\ done' = 0 /\ batch' = <<>> /\ pc' = "check"
        /\ queue' = queue /\ gap' = gap /\ complete' = complete /\ UNCHANGED lifecycle
        /\ overtaken' = (overtaken /\ \A i \in DOMAIN batch : batch[i].op # "CloseAll")
    BY DEF Commit
  <1>3. overtaken' <=> overtaken /\ ~ClosesAll(batch)
    BY <1>2 DEF ClosesAll
  <1>4. PICK b, q : b = batch /\ q = queue
    OBVIOUS
  <1>5. b \in Seq(MutationSet) /\ q \in Seq(MutationSet) /\ <<>> \in Seq(MutationSet)
    BY <1>1, <1>4 DEF QueueTypes
  <1>6. Rest = q /\ Whole' = q /\ Rest' = q
    <2>1. <<>> \o q = q /\ SubSeq(b, Len(b) + 1, Len(b)) = <<>>
      BY <1>5, Pieces
    <2>2. Rest = SubSeq(b, Len(b) + 1, Len(b)) \o q
      BY <1>2, <1>4 DEF Rest
    <2>3. Len(<<>>) = 0
      BY <1>5
    <2>4. SubSeq(<<>>, Len(<<>>) + 1, Len(<<>>)) = <<>>
      BY <1>5, Pieces
    <2>5. Rest' = SubSeq(<<>>, Len(<<>>) + 1, Len(<<>>)) \o q
      BY <1>2, <1>4, <2>3 DEF Rest
    <2>6. Whole' = <<>> \o q
      BY <1>2, <1>4 DEF Whole
    <2>. QED BY <2>1, <2>2, <2>4, <2>5, <2>6
  <1>7. ~ClosesAll(<<>>)
    BY DEF ClosesAll
  <1>8. Sound' <=> Sound
    BY <1>2, <1>3, <1>7 DEF Sound
  <1>9. QueueTypes'
    <2>1. Len(<<>>) = 0 /\ 0 \in 0..Len(<<>>) /\ Len(<<>>) <= BATCH_SIZE
      BY HistoryAssumption
    <2>2. overtaken' \in BOOLEAN
      BY <1>2
    <2>. QED BY <1>1, <1>2, <1>5, <2>1, <2>2 DEF QueueTypes
  <1>10. Phases'
    BY <1>1, <1>2, <1>8 DEF Phases
  <1>11. ASSUME Sound' PROVE Claim(rows, Whole)' /\ Claim(txn, Rest)'
    BY <1>1, <1>2, <1>6, <1>8, <1>11, Lifeless DEF Claim
  <1>12. ASSUME ~overtaken' PROVE Unique(txn)
    <2>1. CASE ~overtaken
      BY <2>1 DEF HistoryInv
    <2>2. CASE ClosesAll(b)
      <3>1. Len(b) > 0
        BY <1>5, <2>2 DEF ClosesAll
      <3>. QED BY <1>2, <1>4, <2>2, <3>1 DEF HistoryInv
    <2>. QED BY <1>3, <1>4, <1>12, <2>1, <2>2
  <1>13. (~overtaken' => Unique(rows')) /\ (~overtaken' \/ (done' > 0 /\ ClosesAll(batch')) => Unique(txn'))
    BY <1>2, <1>7, <1>12
  <1>. QED BY <1>1, <1>2, <1>9, <1>10, <1>11, <1>13, Lifeless DEF HistoryInv

LEMMA CheckStep == HistoryInv /\ (CheckQueue \/ CheckGap) => HistoryInv'
  <1> SUFFICES ASSUME HistoryInv, CheckQueue \/ CheckGap PROVE HistoryInv'
    OBVIOUS
  <1>1. LifeTypes /\ QueueTypes /\ LivesApart /\ Phases /\ (Sound => Claim(rows, Whole) /\ Claim(txn, Rest))
    BY DEF HistoryInv
  <1>2. /\ txn' = txn /\ done' = done /\ queue' = queue /\ gap' = gap /\ batch' = batch
        /\ rows' = rows /\ complete' = complete /\ overtaken' = overtaken /\ UNCHANGED lifecycle
    BY DEF CheckQueue, CheckGap
  <1>3. \/ pc = "check" /\ pc' = (IF queue # <<>> THEN "recv" ELSE "gap")
        \/ pc = "gap" /\ pc' = (IF gap THEN "interrupt" ELSE "recv")
    BY DEF CheckQueue, CheckGap
  <1>4. Whole' = Whole /\ Rest' = Rest /\ (Sound' <=> Sound)
    BY <1>2 DEF Whole, Rest, Sound
  <1>5. QueueTypes' /\ Phases'
    BY <1>1, <1>2, <1>3, <1>4 DEF QueueTypes, Phases
  <1>6. ASSUME Sound' PROVE Claim(rows, Whole)' /\ Claim(txn, Rest)'
    BY <1>1, <1>2, <1>4, <1>6, Lifeless DEF Claim
  <1>7. (~overtaken' => Unique(rows')) /\ (~overtaken' \/ (done' > 0 /\ ClosesAll(batch')) => Unique(txn'))
    BY <1>2 DEF HistoryInv
  <1>. QED BY <1>1, <1>2, <1>5, <1>6, <1>7, Lifeless DEF HistoryInv

\* Between batches; with a gap nothing that was accepted is left.
LEMMA Idle ==
    ASSUME HistoryInv, pc \in {"interrupt", "reset"}
    PROVE  /\ batch = <<>> /\ done = 0 /\ txn = rows /\ gap = TRUE /\ complete = FALSE
           /\ ~ClosesAll(batch) /\ ~ClosesAll(queue) /\ (~overtaken => queue = <<>>)
  <1>1. QueueTypes /\ Phases
    BY DEF HistoryInv
  <1>2. pc # "persist" /\ pc # "recv"
    OBVIOUS
  <1>3. batch = <<>> /\ txn = rows
    BY <1>1, <1>2 DEF Phases
  <1>4. Len(batch) = 0 /\ done \in 0..Len(batch)
    BY <1>1, <1>3 DEF QueueTypes
  <1>5. gap = TRUE /\ complete = FALSE
    BY <1>1 DEF Phases, QueueTypes
  <1>6. ~ClosesAll(batch) /\ ~ClosesAll(queue)
    BY <1>1, <1>2, <1>3 DEF Phases, ClosesAll
  <1>7. ~overtaken => queue = <<>>
    BY <1>1, <1>5 DEF Phases
  <1>. QED BY <1>3, <1>4, <1>5, <1>6, <1>7

LEMMA NoPieces == <<>> \o <<>> = <<>> /\ SubSeq(<<>>, 0 + 1, Len(<<>>)) \o <<>> = <<>>
  <1>1. <<>> \in Seq({}) /\ Len(<<>>) = 0
    OBVIOUS
  <1>2. SubSeq(<<>>, 0 + 1, Len(<<>>)) = <<>>
    BY <1>1, SubSeqEmpty
  <1>3. <<>> \o <<>> = <<>>
    BY <1>1, ConcatEmptySeq
  <1>. QED BY <1>2, <1>3

LEMMA InterruptStep == HistoryInv /\ Interrupt => HistoryInv'
  <1> SUFFICES ASSUME HistoryInv, Interrupt PROVE HistoryInv'
    OBVIOUS
  <1>1. LifeTypes /\ QueueTypes /\ LivesApart /\ Phases
    BY DEF HistoryInv
  <1>2. /\ pc = "interrupt" /\ rows' = {} /\ txn' = {} /\ pc' = "reset" /\ overtaken' = (overtaken /\ queue # <<>>)
        /\ done' = done /\ queue' = queue /\ gap' = gap /\ batch' = batch /\ complete' = complete /\ UNCHANGED lifecycle
    BY DEF Interrupt
  <1>3. /\ batch = <<>> /\ done = 0 /\ gap = TRUE /\ complete = FALSE
        /\ ~ClosesAll(batch) /\ ~ClosesAll(queue) /\ (~overtaken => queue = <<>>)
    BY <1>2, Idle
  <1>4. QueueTypes'
    <2>1. overtaken' \in BOOLEAN
      BY <1>2
    <2>. QED BY <1>1, <1>2, <2>1 DEF QueueTypes
  <1>5. ~overtaken' => queue = <<>>
    BY <1>2, <1>3
  <1>6. Sound' => ~overtaken'
    BY <1>2, <1>3 DEF Sound
  <1>7. Phases'
    <2>1. pc' = "reset" /\ pc' # "persist" /\ pc' # "recv" /\ gap' = TRUE /\ complete' = FALSE /\ batch' = <<>> /\ queue' = queue
      BY <1>2, <1>3
    <2>2. \A i \in DOMAIN queue' : queue'[i].op # "CloseAll"
      BY <1>3, <2>1 DEF ClosesAll
    <2>. QED BY <1>2, <1>5, <2>1, <2>2 DEF Phases
  <1>8. ASSUME Sound' PROVE Claim(rows, Whole)' /\ Claim(txn, Rest)'
    <2>1. queue' = <<>> /\ batch' = <<>> /\ done' = 0
      BY <1>2, <1>3, <1>5, <1>6, <1>8
    <2>2. Whole' = <<>> /\ Rest' = <<>>
      BY <2>1, NoPieces DEF Whole, Rest
    <2>3. Ordered({}, <<>>)
      BY NothingPending
    <2>. QED BY <1>2, <1>3, <2>2, <2>3 DEF Claim, Faithful
  <1>9. (~overtaken' => Unique(rows')) /\ (~overtaken' \/ (done' > 0 /\ ClosesAll(batch')) => Unique(txn'))
    BY <1>2 DEF Unique
  <1>. QED BY <1>1, <1>2, <1>4, <1>7, <1>8, <1>9, Lifeless DEF HistoryInv

LEMMA ResetStep == HistoryInv /\ Reset => HistoryInv'
  <1> SUFFICES ASSUME HistoryInv, Reset PROVE HistoryInv'
    OBVIOUS
  <1>1. LifeTypes /\ QueueTypes /\ LivesApart /\ Phases
    BY DEF HistoryInv
  <1>2. /\ pc = "reset" /\ pc' = "recv" /\ gap' = FALSE /\ txn' = txn /\ rows' = rows /\ done' = done /\ queue' = queue
        /\ overtaken' = overtaken /\ batch' = batch /\ complete' = complete /\ UNCHANGED lifecycle
    BY DEF Reset
  <1>3. /\ batch = <<>> /\ done = 0 /\ txn = rows /\ complete = FALSE
        /\ ~ClosesAll(batch) /\ ~ClosesAll(queue) /\ (~overtaken => queue = <<>>)
    BY <1>2, Idle
  <1>4. rows = {}
    BY <1>1, <1>2 DEF Phases
  <1>5. QueueTypes'
    BY <1>1, <1>2 DEF QueueTypes
  <1>6. Phases'
    BY <1>1, <1>2, <1>3 DEF Phases
  <1>7. ASSUME Sound' PROVE Claim(rows, Whole)' /\ Claim(txn, Rest)'
    <2>1. queue' = <<>> /\ batch' = <<>> /\ done' = 0
      BY <1>2, <1>3, <1>7 DEF Sound
    <2>2. Whole' = <<>> /\ Rest' = <<>>
      BY <2>1, NoPieces DEF Whole, Rest
    <2>3. Ordered({}, <<>>) /\ \A r : r \notin Left({}, <<>>)
      BY NothingPending
    <2>. QED BY <1>2, <1>3, <1>4, <2>2, <2>3 DEF Claim, Faithful
  <1>8. (~overtaken' => Unique(rows')) /\ (~overtaken' \/ (done' > 0 /\ ClosesAll(batch')) => Unique(txn'))
    BY <1>2, <1>3, <1>4 DEF Unique
  <1>. QED BY <1>1, <1>2, <1>5, <1>6, <1>7, <1>8, Lifeless DEF HistoryInv

-----------------------------------------------------------------------------
(* The sessions: which rows are expected when one of them changes.         *)

Exp(L, A) ==
    {Row("ingress", k, "none", L[k]) : k \in {x \in IngressKeys : L[x] # 0}}
      \cup {Row("backend", k, "none", L[k]) : k \in {x \in BackendKeys : L[x] # 0}}
      \cup UNION {{Row("egress", n, d, L[n]) : d \in A[n]} : n \in EgressNets}

LEMMA InExp ==
    ASSUME NEW L, NEW A, NEW r
    PROVE  r \in Exp(L, A) <=>
             \/ \E k \in IngressKeys : L[k] # 0 /\ r = Row("ingress", k, "none", L[k])
             \/ \E k \in BackendKeys : L[k] # 0 /\ r = Row("backend", k, "none", L[k])
             \/ \E n \in EgressNets : \E d \in A[n] : r = Row("egress", n, d, L[n])
  BY DEF Exp

LEMMA RowParts ==
    ASSUME NEW a, NEW k, NEW d, NEW l
    PROVE  Row(a, k, d, l).dir = a /\ Row(a, k, d, l).key = k /\ Row(a, k, d, l).dst = d /\ Row(a, k, d, l).life = l
  BY DEF Row

LEMMA ExpIngress ==
    ASSUME NEW L, NEW A, NEW k \in IngressKeys, NEW x, NEW L1, L1[k] = x, \A j \in Keys : j # k => L1[j] = L[j], NEW r
    PROVE  r \in Exp(L1, A) <=> \/ x # 0 /\ r = Row("ingress", k, "none", x)
                                \/ r \in Exp(L, A) /\ ~(r.dir = "ingress" /\ r.key = k)
  <1>2. IngressKeys \subseteq Keys /\ BackendKeys \subseteq Keys /\ EgressNets \subseteq Keys
        /\ k \notin BackendKeys /\ k \notin EgressNets
    BY HistoryAssumption DEF Keys
  <1>3. ASSUME r \in Exp(L1, A) PROVE (x # 0 /\ r = Row("ingress", k, "none", x)) \/ (r \in Exp(L, A) /\ ~(r.dir = "ingress" /\ r.key = k))
    <2>1. CASE \E j \in IngressKeys : L1[j] # 0 /\ r = Row("ingress", j, "none", L1[j])
      BY <1>2, <2>1, InExp, RowParts
    <2>2. CASE \E j \in BackendKeys : L1[j] # 0 /\ r = Row("backend", j, "none", L1[j])
      BY <1>2, <2>2, InExp, RowParts
    <2>3. CASE \E n \in EgressNets : \E d \in A[n] : r = Row("egress", n, d, L1[n])
      BY <1>2, <2>3, InExp, RowParts
    <2>. QED BY <1>3, <2>1, <2>2, <2>3, InExp
  <1>4. ASSUME x # 0, r = Row("ingress", k, "none", x) PROVE r \in Exp(L1, A)
    BY <1>4, InExp
  <1>5. ASSUME r \in Exp(L, A), ~(r.dir = "ingress" /\ r.key = k) PROVE r \in Exp(L1, A)
    <2>1. CASE \E j \in IngressKeys : L[j] # 0 /\ r = Row("ingress", j, "none", L[j])
      <3>1. PICK j \in IngressKeys : L[j] # 0 /\ r = Row("ingress", j, "none", L[j])
        BY <2>1
      <3>2. j # k
        BY <1>5, <3>1, RowParts
      <3>. QED BY <1>2, <3>1, <3>2, InExp
    <2>2. CASE \E j \in BackendKeys : L[j] # 0 /\ r = Row("backend", j, "none", L[j])
      BY <1>2, <2>2, InExp
    <2>3. CASE \E n \in EgressNets : \E d \in A[n] : r = Row("egress", n, d, L[n])
      BY <1>2, <2>3, InExp
    <2>. QED BY <1>5, <2>1, <2>2, <2>3, InExp
  <1>. QED BY <1>3, <1>4, <1>5

LEMMA ExpBackend ==
    ASSUME NEW L, NEW A, NEW k \in BackendKeys, NEW x, NEW L1, L1[k] = x, \A j \in Keys : j # k => L1[j] = L[j], NEW r
    PROVE  r \in Exp(L1, A) <=> \/ x # 0 /\ r = Row("backend", k, "none", x)
                                \/ r \in Exp(L, A) /\ ~(r.dir = "backend" /\ r.key = k)
  <1>2. IngressKeys \subseteq Keys /\ BackendKeys \subseteq Keys /\ EgressNets \subseteq Keys
        /\ k \notin IngressKeys /\ k \notin EgressNets
    BY HistoryAssumption DEF Keys
  <1>3. ASSUME r \in Exp(L1, A) PROVE (x # 0 /\ r = Row("backend", k, "none", x)) \/ (r \in Exp(L, A) /\ ~(r.dir = "backend" /\ r.key = k))
    <2>1. CASE \E j \in IngressKeys : L1[j] # 0 /\ r = Row("ingress", j, "none", L1[j])
      BY <1>2, <2>1, InExp, RowParts
    <2>2. CASE \E j \in BackendKeys : L1[j] # 0 /\ r = Row("backend", j, "none", L1[j])
      BY <1>2, <2>2, InExp, RowParts
    <2>3. CASE \E n \in EgressNets : \E d \in A[n] : r = Row("egress", n, d, L1[n])
      BY <1>2, <2>3, InExp, RowParts
    <2>. QED BY <1>3, <2>1, <2>2, <2>3, InExp
  <1>4. ASSUME x # 0, r = Row("backend", k, "none", x) PROVE r \in Exp(L1, A)
    BY <1>4, InExp
  <1>5. ASSUME r \in Exp(L, A), ~(r.dir = "backend" /\ r.key = k) PROVE r \in Exp(L1, A)
    <2>1. CASE \E j \in IngressKeys : L[j] # 0 /\ r = Row("ingress", j, "none", L[j])
      BY <1>2, <2>1, InExp
    <2>2. CASE \E j \in BackendKeys : L[j] # 0 /\ r = Row("backend", j, "none", L[j])
      <3>1. PICK j \in BackendKeys : L[j] # 0 /\ r = Row("backend", j, "none", L[j])
        BY <2>2
      <3>2. j # k
        BY <1>5, <3>1, RowParts
      <3>. QED BY <1>2, <3>1, <3>2, InExp
    <2>3. CASE \E n \in EgressNets : \E d \in A[n] : r = Row("egress", n, d, L[n])
      BY <1>2, <2>3, InExp
    <2>. QED BY <1>5, <2>1, <2>2, <2>3, InExp
  <1>. QED BY <1>3, <1>4, <1>5

SameBut(f, g, n, S) == \A k \in S : k # n => f[k] = g[k]

LEMMA ExpEgress ==
    ASSUME NEW L, NEW L1, NEW A, NEW A1, NEW n \in EgressNets, SameBut(L1, L, n, Keys), SameBut(A1, A, n, EgressNets), NEW r
    PROVE  r \in Exp(L1, A1) <=> \/ \E d \in A1[n] : r = Row("egress", n, d, L1[n])
                                 \/ r \in Exp(L, A) /\ ~(r.dir = "egress" /\ r.key = n)
  <1>1. (\A k \in Keys : k # n => L1[k] = L[k]) /\ \A k \in EgressNets : k # n => A1[k] = A[k]
    BY DEF SameBut
  <1>2. IngressKeys \subseteq Keys /\ BackendKeys \subseteq Keys /\ EgressNets \subseteq Keys
        /\ n \notin IngressKeys /\ n \notin BackendKeys
    BY HistoryAssumption DEF Keys
  <1>3. ASSUME r \in Exp(L1, A1) PROVE (\E d \in A1[n] : r = Row("egress", n, d, L1[n])) \/ (r \in Exp(L, A) /\ ~(r.dir = "egress" /\ r.key = n))
    <2>1. CASE \E j \in IngressKeys : L1[j] # 0 /\ r = Row("ingress", j, "none", L1[j])
      BY <1>1, <1>2, <2>1, InExp, RowParts
    <2>2. CASE \E j \in BackendKeys : L1[j] # 0 /\ r = Row("backend", j, "none", L1[j])
      BY <1>1, <1>2, <2>2, InExp, RowParts
    <2>3. CASE \E j \in EgressNets : \E d \in A1[j] : r = Row("egress", j, d, L1[j])
      <3>1. PICK j \in EgressNets : \E d \in A1[j] : r = Row("egress", j, d, L1[j])
        BY <2>3
      <3>2. CASE j = n
        BY <3>1, <3>2
      <3>3. CASE j # n
        BY <1>1, <1>2, <3>1, <3>3, InExp, RowParts
      <3>. QED BY <3>2, <3>3
    <2>. QED BY <1>3, <2>1, <2>2, <2>3, InExp
  <1>4. ASSUME \E d \in A1[n] : r = Row("egress", n, d, L1[n]) PROVE r \in Exp(L1, A1)
    BY <1>4, InExp
  <1>5. ASSUME r \in Exp(L, A), ~(r.dir = "egress" /\ r.key = n) PROVE r \in Exp(L1, A1)
    <2>1. CASE \E j \in IngressKeys : L[j] # 0 /\ r = Row("ingress", j, "none", L[j])
      BY <1>1, <1>2, <2>1, InExp
    <2>2. CASE \E j \in BackendKeys : L[j] # 0 /\ r = Row("backend", j, "none", L[j])
      BY <1>1, <1>2, <2>2, InExp
    <2>3. CASE \E j \in EgressNets : \E d \in A[j] : r = Row("egress", j, d, L[j])
      <3>1. PICK j \in EgressNets : \E d \in A[j] : r = Row("egress", j, d, L[j])
        BY <2>3
      <3>2. j # n
        BY <1>5, <3>1, RowParts
      <3>. QED BY <1>1, <1>2, <3>1, <3>2, InExp
    <2>. QED BY <1>5, <2>1, <2>2, <2>3, InExp
  <1>. QED BY <1>3, <1>4, <1>5

\* The row of a session says which session it is.
LEMMA ExpRow ==
    ASSUME NEW L, NEW A, NEW r \in Exp(L, A)
    PROVE  /\ r.dir = "ingress" => r.key \in IngressKeys /\ L[r.key] # 0 /\ r = Row("ingress", r.key, "none", L[r.key])
           /\ r.dir = "backend" => r.key \in BackendKeys /\ L[r.key] # 0 /\ r = Row("backend", r.key, "none", L[r.key])
           /\ r.dir = "egress" => r.key \in EgressNets /\ r.dst \in A[r.key] /\ r = Row("egress", r.key, r.dst, L[r.key])
           /\ r.dir \in {"ingress", "backend", "egress"}
  <1>1. CASE \E j \in IngressKeys : L[j] # 0 /\ r = Row("ingress", j, "none", L[j])
    BY <1>1, RowParts
  <1>2. CASE \E j \in BackendKeys : L[j] # 0 /\ r = Row("backend", j, "none", L[j])
    BY <1>2, RowParts
  <1>3. CASE \E n \in EgressNets : \E d \in A[n] : r = Row("egress", n, d, L[n])
    BY <1>3, RowParts
  <1>. QED BY <1>1, <1>2, <1>3, InExp

LEMMA ExpNow == Expected = Exp(live, active) /\ Expected' = Exp(live', active')
  BY DEF Expected, Exp

LEMMA KindsOf ==
    /\ IngressKeys \subseteq Keys /\ BackendKeys \subseteq Keys /\ EgressNets \subseteq Keys
    /\ \A k \in IngressKeys : k \notin BackendKeys /\ k \notin EgressNets
    /\ \A k \in BackendKeys : k \notin IngressKeys /\ k \notin EgressNets
    /\ \A k \in EgressNets : k \notin IngressKeys /\ k \notin BackendKeys
  BY HistoryAssumption DEF Keys

LEMMA NewLifeStep ==
    ASSUME LifeTypes, LivesApart, NEW k \in Keys, NewLife(k)
    PROVE  /\ live' \in [Keys -> 0..MaxLives] /\ lives' \in 0..MaxLives
           /\ live[k] = 0 /\ live'[k] = lives + 1 /\ lives + 1 # 0 /\ lives + 1 \in 0..MaxLives
           /\ \A j \in Keys : j # k => live'[j] = live[j]
           /\ \A j \in Keys : live'[j] <= lives'
           /\ \A i, j \in Keys : live'[i] = live'[j] /\ live'[i] # 0 => i = j
  <1>1. live \in [Keys -> 0..MaxLives] /\ lives \in 0..MaxLives /\ lives < MaxLives /\ MaxLives \in Nat
    BY HistoryAssumption DEF LifeTypes, NewLife
  <1>2. live[k] = 0 /\ lives' = lives + 1 /\ live' = [live EXCEPT ![k] = lives + 1]
    BY DEF NewLife
  <1>3. lives + 1 \in 0..MaxLives /\ lives + 1 # 0
    BY <1>1
  <1>4. live' \in [Keys -> 0..MaxLives] /\ live'[k] = lives + 1 /\ \A j \in Keys : j # k => live'[j] = live[j]
    BY <1>1, <1>2, <1>3
  <1>5. \A j \in Keys : live[j] <= lives /\ live[j] \in Nat /\ lives \in Nat
    BY <1>1 DEF LivesApart
  <1>6. \A j \in Keys : live'[j] <= lives'
    <2> SUFFICES ASSUME NEW j \in Keys PROVE live'[j] <= lives'
      OBVIOUS
    <2>1. CASE j = k
      BY <1>1, <1>2, <1>4, <2>1
    <2>2. CASE j # k
      BY <1>2, <1>4, <1>5, <2>2
    <2>. QED BY <2>1, <2>2
  <1>7. ASSUME NEW i \in Keys, NEW j \in Keys, live'[i] = live'[j], live'[i] # 0 PROVE i = j
    <2>1. \A h \in Keys : h # k => live'[h] # lives + 1
      BY <1>4, <1>5
    <2>2. CASE i = k
      BY <1>4, <1>7, <2>1, <2>2
    <2>3. CASE i # k
      <3>1. j # k
        BY <1>4, <1>7, <2>1, <2>3
      <3>. QED BY <1>4, <1>7, <2>3, <3>1 DEF LivesApart
    <2>. QED BY <2>2, <2>3
  <1>. QED BY <1>1, <1>2, <1>3, <1>4, <1>6, <1>7

LEMMA EndLifeStep ==
    ASSUME LifeTypes, LivesApart, NEW k \in Keys, EndLife(k), lives' = lives
    PROVE  /\ live' \in [Keys -> 0..MaxLives] /\ lives' \in 0..MaxLives
           /\ live[k] # 0 /\ live'[k] = 0
           /\ \A j \in Keys : j # k => live'[j] = live[j]
           /\ \A j \in Keys : live'[j] <= lives'
           /\ \A i, j \in Keys : live'[i] = live'[j] /\ live'[i] # 0 => i = j
  <1>1. live \in [Keys -> 0..MaxLives] /\ lives \in 0..MaxLives /\ MaxLives \in Nat
    BY HistoryAssumption DEF LifeTypes
  <1>2. live[k] # 0 /\ live' = [live EXCEPT ![k] = 0]
    BY DEF EndLife
  <1>3. live' \in [Keys -> 0..MaxLives] /\ live'[k] = 0 /\ \A j \in Keys : j # k => live'[j] = live[j]
    BY <1>1, <1>2
  <1>4. \A j \in Keys : live'[j] <= lives'
    BY <1>1, <1>3 DEF LivesApart
  <1>5. ASSUME NEW i \in Keys, NEW j \in Keys, live'[i] = live'[j], live'[i] # 0 PROVE i = j
    BY <1>3, <1>5 DEF LivesApart
  <1>. QED BY <1>1, <1>2, <1>3, <1>4, <1>5

LEMMA MutationParts ==
    ASSUME NEW o, NEW r, NEW b
    PROVE  Mutation(o, r, b).op = o /\ Mutation(o, r, b).row = r /\ Mutation(o, r, b).on = b
  BY DEF Mutation

LEMMA OpenIngressStep == ASSUME HistoryInv, NEW k \in IngressKeys, open_ingress(k) PROVE HistoryInv'
  <1>1. PICK x, r, m : x = lives + 1 /\ r = Row("ingress", k, "none", x) /\ m = Mutation("Open", r, TRUE)
    OBVIOUS
  <1>2. LifeTypes /\ LivesApart /\ k \in Keys /\ NewLife(k) /\ submit(m) /\ active' = active /\ token' = token /\ UNCHANGED worker
    BY <1>1, KindsOf DEF HistoryInv, open_ingress
  <1>3. /\ live' \in [Keys -> 0..MaxLives] /\ lives' \in 0..MaxLives
        /\ live[k] = 0 /\ live'[k] = x /\ x # 0 /\ x \in 0..MaxLives
        /\ \A j \in Keys : j # k => live'[j] = live[j]
        /\ \A j \in Keys : live'[j] <= lives'
        /\ \A i, j \in Keys : live'[i] = live'[j] /\ live'[i] # 0 => i = j
    BY <1>1, <1>2, NewLifeStep
  <1>4. LifeTypes' /\ LivesApart'
    <2>1. \A j \in EgressNets \cup BackendKeys : live'[j] = live[j]
      BY <1>3, KindsOf
    <2>. QED BY <1>2, <1>3, <2>1 DEF LifeTypes, LivesApart
  <1>5. m \in MutationSet /\ m.op = "Open" /\ m.row = r /\ Opening(m)
    <2>1. r \in RowSet
      BY <1>1, <1>2, <1>3 DEF RowSet, Row
    <2>. QED BY <1>1, <2>1 DEF MutationSet, Mutation, Ops, Opening
  <1>6. PICK L, L1, A, T : L = live /\ L1 = live' /\ A = active /\ T = token
    OBVIOUS
  <1>7. Expected = Exp(L, A) /\ Expected' = Exp(L1, A)
    BY <1>2, <1>6, ExpNow
  <1>8. L[k] = 0 /\ L1[k] = x /\ \A j \in Keys : j # k => L1[j] = L[j]
    BY <1>3, <1>6
  <1>9. r.dir = "ingress" /\ r.key = k /\ r.dst = "none"
    BY <1>1, RowParts
  <1>10. \A q \in Exp(L, A) : ~(q.dir = "ingress" /\ q.key = k)
    BY <1>8, ExpRow
  <1>11. \A q : q \in Exp(L1, A) <=> q \in Exp(L, A) \/ q = r
    BY <1>1, <1>3, <1>8, <1>10, ExpIngress
  <1>12. Fits(m, Exp(L, A), Exp(L1, A), T, T)
    BY <1>5, <1>9, <1>10, <1>11 DEF Fits, SameSlot
  <1>13. Fits(m, Expected, Expected', token, token')
    BY <1>2, <1>6, <1>7, <1>12
  <1>14. m.op # "CloseAll"
    BY <1>5
  <1>. QED BY <1>2, <1>4, <1>5, <1>13, <1>14, SubmitStep

LEMMA CloseIngressStep == ASSUME HistoryInv, NEW k \in IngressKeys, close_ingress(k) PROVE HistoryInv'
  <1>1. PICK r, m : r = Row("ingress", k, "none", 0) /\ m = Mutation("CloseIngress", r, FALSE)
    OBVIOUS
  <1>2. LifeTypes /\ LivesApart /\ k \in Keys /\ EndLife(k) /\ submit(m) /\ lives' = lives /\ active' = active /\ token' = token /\ UNCHANGED worker
    BY <1>1, KindsOf DEF HistoryInv, close_ingress
  <1>3. /\ live' \in [Keys -> 0..MaxLives] /\ lives' \in 0..MaxLives /\ live'[k] = 0
        /\ \A j \in Keys : j # k => live'[j] = live[j]
        /\ \A j \in Keys : live'[j] <= lives'
        /\ \A i, j \in Keys : live'[i] = live'[j] /\ live'[i] # 0 => i = j
    BY <1>2, EndLifeStep
  <1>4. LifeTypes' /\ LivesApart'
    <2>1. \A j \in EgressNets \cup BackendKeys : live'[j] = live[j]
      BY <1>3, KindsOf
    <2>. QED BY <1>2, <1>3, <2>1 DEF LifeTypes, LivesApart
  <1>5. m \in MutationSet /\ m.op = "CloseIngress" /\ m.row = r /\ ~Opening(m)
    <2>1. r \in RowSet
      BY <1>1, <1>2 DEF RowSet, Row
    <2>. QED BY <1>1, <2>1 DEF MutationSet, Mutation, Ops, Opening
  <1>6. PICK L, L1, A, T : L = live /\ L1 = live' /\ A = active /\ T = token
    OBVIOUS
  <1>7. Expected = Exp(L, A) /\ Expected' = Exp(L1, A)
    BY <1>2, <1>6, ExpNow
  <1>8. L1[k] = 0 /\ \A j \in Keys : j # k => L1[j] = L[j]
    BY <1>3, <1>6
  <1>9. \A q : Closes(m, q) <=> q.dir = "ingress" /\ q.key = k
    <2>1. r.key = k
      BY <1>1, RowParts
    <2>. QED BY <1>5, <2>1 DEF Closes
  <1>10. \A q : q \in Exp(L1, A) <=> q \in Exp(L, A) /\ ~(q.dir = "ingress" /\ q.key = k)
    BY <1>8, ExpIngress
  <1>11. Fits(m, Exp(L, A), Exp(L1, A), T, T)
    BY <1>5, <1>9, <1>10 DEF Fits
  <1>12. Fits(m, Expected, Expected', token, token')
    BY <1>2, <1>6, <1>7, <1>11
  <1>13. m.op # "CloseAll"
    BY <1>5
  <1>. QED BY <1>2, <1>4, <1>5, <1>12, <1>13, SubmitStep

LEMMA OpenBackendStep == ASSUME HistoryInv, NEW k \in BackendKeys, open_backend(k) PROVE HistoryInv'
  <1>1. PICK x, r, m : x = lives + 1 /\ r = Row("backend", k, "none", x) /\ m = Mutation("Open", r, TRUE)
    OBVIOUS
  <1>2. /\ LifeTypes /\ LivesApart /\ k \in Keys /\ NewLife(k) /\ submit(m) /\ active' = active /\ UNCHANGED worker
        /\ token' = [token EXCEPT ![k] = IF Accepted THEN x ELSE 0]
    BY <1>1, KindsOf DEF HistoryInv, open_backend
  <1>3. /\ live' \in [Keys -> 0..MaxLives] /\ lives' \in 0..MaxLives
        /\ live[k] = 0 /\ live'[k] = x /\ x # 0 /\ x \in 0..MaxLives
        /\ \A j \in Keys : j # k => live'[j] = live[j]
        /\ \A j \in Keys : live'[j] <= lives'
        /\ \A i, j \in Keys : live'[i] = live'[j] /\ live'[i] # 0 => i = j
    BY <1>1, <1>2, NewLifeStep
  <1>4. PICK y : y = IF Accepted THEN x ELSE 0
    OBVIOUS
  <1>5. /\ token' \in [BackendKeys -> 0..MaxLives] /\ token'[k] = y /\ (y # 0 => y = x)
        /\ \A j \in BackendKeys : j # k => token'[j] = token[j]
    <2>1. y \in 0..MaxLives /\ (y # 0 => y = x) /\ token \in [BackendKeys -> 0..MaxLives]
      BY <1>2, <1>3, <1>4 DEF LifeTypes
    <2>2. token' = [token EXCEPT ![k] = y]
      BY <1>2, <1>4
    <2>. QED BY <2>1, <2>2
  <1>6. LifeTypes' /\ LivesApart'
    <2>1. \A n \in EgressNets : live'[n] = live[n]
      BY <1>3, KindsOf
    <2>2. \A j \in BackendKeys : token'[j] # 0 => token'[j] = live'[j]
      BY <1>2, <1>3, <1>5, KindsOf DEF LivesApart
    <2>. QED BY <1>2, <1>3, <1>5, <2>1, <2>2 DEF LifeTypes, LivesApart
  <1>7. m \in MutationSet /\ m.op = "Open" /\ m.row = r /\ Opening(m)
    <2>1. r \in RowSet
      BY <1>1, <1>2, <1>3 DEF RowSet, Row
    <2>. QED BY <1>1, <2>1 DEF MutationSet, Mutation, Ops, Opening
  <1>8. PICK L, L1, A, T, T1 : L = live /\ L1 = live' /\ A = active /\ T = token /\ T1 = token'
    OBVIOUS
  <1>9. Expected = Exp(L, A) /\ Expected' = Exp(L1, A)
    BY <1>2, <1>8, ExpNow
  <1>10. L[k] = 0 /\ L1[k] = x /\ \A j \in Keys : j # k => L1[j] = L[j]
    BY <1>3, <1>8
  <1>11. r.dir = "backend" /\ r.key = k /\ r.dst = "none" /\ r.life = x
    BY <1>1, RowParts
  <1>12. \A q \in Exp(L, A) : q.dir = "backend" => q.key \in BackendKeys /\ q.key # k
    BY <1>10, ExpRow
  <1>13. \A q : q \in Exp(L1, A) <=> q \in Exp(L, A) \/ q = r
    BY <1>1, <1>3, <1>10, <1>12, ExpBackend
  <1>14. ASSUME Accepted PROVE Fits(m, Expected, Expected', token, token')
    <2>1. T1[k] = x /\ \A j \in BackendKeys : j # k => T1[j] = T[j]
      BY <1>4, <1>5, <1>8, <1>14
    <2>2. Fits(m, Exp(L, A), Exp(L1, A), T, T1)
      BY <1>7, <1>11, <1>12, <1>13, <2>1 DEF Fits, SameSlot
    <2>. QED BY <1>8, <1>9, <2>2
  <1>15. m.op # "CloseAll"
    BY <1>7
  <1>. QED BY <1>2, <1>6, <1>7, <1>14, <1>15, SubmitStep

LEMMA CloseBackendStep == ASSUME HistoryInv, NEW k \in BackendKeys, close_backend(k) PROVE HistoryInv'
  <1>1. PICK L, L1, A, T, T1, x : L = live /\ L1 = live' /\ A = active /\ T = token /\ T1 = token' /\ x = token[k]
    OBVIOUS
  <1>2. /\ LifeTypes /\ LivesApart /\ k \in Keys /\ EndLife(k) /\ lives' = lives /\ active' = active /\ UNCHANGED worker
        /\ token' = [token EXCEPT ![k] = 0]
    BY KindsOf DEF HistoryInv, close_backend
  <1>3. /\ live' \in [Keys -> 0..MaxLives] /\ lives' \in 0..MaxLives /\ live[k] # 0 /\ live'[k] = 0
        /\ \A j \in Keys : j # k => live'[j] = live[j]
        /\ \A j \in Keys : live'[j] <= lives'
        /\ \A i, j \in Keys : live'[i] = live'[j] /\ live'[i] # 0 => i = j
    BY <1>2, EndLifeStep
  <1>4. /\ token' \in [BackendKeys -> 0..MaxLives] /\ token'[k] = 0 /\ \A j \in BackendKeys : j # k => token'[j] = token[j]
    BY <1>2, HistoryAssumption DEF LifeTypes
  <1>5. LifeTypes' /\ LivesApart'
    <2>1. \A n \in EgressNets : live'[n] = live[n]
      BY <1>3, KindsOf
    <2>2. \A j \in BackendKeys : token'[j] # 0 => token'[j] = live'[j]
      BY <1>2, <1>3, <1>4, KindsOf DEF LivesApart
    <2>. QED BY <1>2, <1>3, <1>4, <2>1, <2>2 DEF LifeTypes, LivesApart
  <1>6. Expected = Exp(L, A) /\ Expected' = Exp(L1, A)
    BY <1>1, <1>2, ExpNow
  <1>7. L1[k] = 0 /\ L[k] # 0 /\ \A j \in Keys : j # k => L1[j] = L[j]
    BY <1>1, <1>3
  <1>8. \A q : q \in Exp(L1, A) <=> q \in Exp(L, A) /\ ~(q.dir = "backend" /\ q.key = k)
    BY <1>7, ExpBackend
  <1>9. CASE x # 0
    <2>1. PICK r, m : r = Row("backend", k, "none", x) /\ m = Mutation("CloseBackend", r, FALSE)
      OBVIOUS
    <2>2. submit(m)
      BY <1>1, <1>9, <2>1 DEF close_backend
    <2>3. x = L[k] /\ x \in 0..MaxLives
      BY <1>1, <1>2, <1>9 DEF LivesApart, LifeTypes
    <2>4. m \in MutationSet /\ m.op = "CloseBackend" /\ m.row = r /\ ~Opening(m)
      <3>1. r \in RowSet
        BY <1>2, <2>1, <2>3, HistoryAssumption DEF RowSet, Row
      <3>. QED BY <2>1, <3>1 DEF MutationSet, Mutation, Ops, Opening
    <2>5. \A q : Closes(m, q) <=> q.dir = "backend" /\ q.life = x
      <3>1. r.life = x
        BY <2>1, RowParts
      <3>. QED BY <2>4, <3>1 DEF Closes
    <2>6. ASSUME NEW q \in Exp(L, A), q.dir = "backend" PROVE q.life = x <=> q.key = k
      <3>1. q.key \in BackendKeys /\ L[q.key] # 0 /\ q.life = L[q.key]
        BY <2>6, ExpRow, RowParts
      <3>2. L[q.key] = L[k] => q.key = k
        BY <1>1, <1>2, <3>1, KindsOf DEF LivesApart
      <3>. QED BY <2>3, <3>1, <3>2
    <2>7. \A q : q \in Exp(L1, A) <=> q \in Exp(L, A) /\ ~Closes(m, q)
      BY <1>8, <2>5, <2>6
    <2>8. \A q \in Exp(L1, A) : q.dir = "backend" => T1[q.key] = T[q.key]
      <3> SUFFICES ASSUME NEW q \in Exp(L1, A), q.dir = "backend" PROVE T1[q.key] = T[q.key]
        OBVIOUS
      <3>1. q.key \in BackendKeys /\ q.key # k
        BY <1>7, ExpRow
      <3>. QED BY <1>1, <1>4, <3>1
    <2>9. Fits(m, Exp(L, A), Exp(L1, A), T, T1)
      BY <2>4, <2>7, <2>8 DEF Fits
    <2>10. Fits(m, Expected, Expected', token, token')
      BY <1>1, <1>6, <2>9
    <2>11. m.op # "CloseAll"
      BY <2>4
    <2>. QED BY <1>2, <1>5, <2>2, <2>4, <2>10, <2>11, SubmitStep
  <1>10. CASE x = 0
    <2>1. UNCHANGED <<queue, gap, complete, overtaken, worker>>
      BY <1>1, <1>10 DEF close_backend
    <2>2. token' = token
      <3>1. token \in [BackendKeys -> 0..MaxLives]
        BY <1>2 DEF LifeTypes
      <3>. QED BY <1>1, <1>2, <1>10, <3>1
    <2>3. Exp(L1, A) \subseteq Exp(L, A)
      BY <1>8
    <2>4. ASSUME NEW q \in Exp(L, A) PROVE q \in Exp(L1, A) \/ (q.dir = "backend" /\ T[q.key] # q.life)
      <3>1. CASE q.dir = "backend" /\ q.key = k
        <4>1. q.life = L[k]
          BY <3>1, ExpRow, RowParts
        <4>. QED BY <1>1, <1>7, <1>10, <3>1, <4>1
      <3>2. CASE ~(q.dir = "backend" /\ q.key = k)
        BY <1>8, <3>2
      <3>. QED BY <3>1, <3>2
    <2>5. Expected' \subseteq Expected /\ \A q \in Expected : q \in Expected' \/ (q.dir = "backend" /\ token[q.key] # q.life)
      BY <1>1, <1>6, <2>3, <2>4
    <2>. QED BY <1>5, <2>1, <2>2, <2>5, QuietStep
  <1>. QED BY <1>9, <1>10

LEMMA EgressUpStep == ASSUME HistoryInv, NEW n \in EgressNets, EgressUp(n) PROVE HistoryInv'
  <1>1. /\ LifeTypes /\ LivesApart /\ n \in Keys /\ NewLife(n) /\ active' = active /\ token' = token
        /\ UNCHANGED <<queue, gap, complete, overtaken, worker>>
    BY KindsOf DEF HistoryInv, EgressUp
  <1>2. /\ live' \in [Keys -> 0..MaxLives] /\ lives' \in 0..MaxLives /\ live[n] = 0 /\ live'[n] # 0
        /\ \A j \in Keys : j # n => live'[j] = live[j]
        /\ \A j \in Keys : live'[j] <= lives'
        /\ \A i, j \in Keys : live'[i] = live'[j] /\ live'[i] # 0 => i = j
    BY <1>1, NewLifeStep
  <1>3. LifeTypes' /\ LivesApart'
    <2>1. \A j \in BackendKeys : live'[j] = live[j]
      BY <1>2, KindsOf
    <2>2. \A j \in EgressNets : active'[j] # {} => live'[j] # 0
      BY <1>1, <1>2, KindsOf DEF LivesApart
    <2>. QED BY <1>1, <1>2, <2>1, <2>2 DEF LifeTypes, LivesApart
  <1>4. PICK L, L1, A : L = live /\ L1 = live' /\ A = active
    OBVIOUS
  <1>5. A[n] = {} /\ \A k \in Keys : k # n => L1[k] = L[k]
    BY <1>1, <1>2, <1>4 DEF LivesApart
  <1>6. ASSUME NEW r PROVE r \in Exp(L1, A) <=> r \in Exp(L, A) /\ ~(r.dir = "egress" /\ r.key = n)
    <2>1. SameBut(L1, L, n, Keys) /\ SameBut(A, A, n, EgressNets)
      BY <1>5 DEF SameBut
    <2>2. r \in Exp(L1, A) <=> (\E d \in A[n] : r = Row("egress", n, d, L1[n])) \/ (r \in Exp(L, A) /\ ~(r.dir = "egress" /\ r.key = n))
      BY <2>1, ExpEgress
    <2>. QED BY <1>5, <2>2
  <1>7. \A r \in Exp(L, A) : ~(r.dir = "egress" /\ r.key = n)
    BY <1>5, ExpRow
  <1>8. Expected' = Expected
    <2>1. Exp(L1, A) = Exp(L, A)
      BY <1>6, <1>7
    <2>. QED BY <1>1, <1>4, <2>1, ExpNow
  <1>. QED BY <1>1, <1>3, <1>8, QuietStep

LEMMA EgressReportStep ==
    ASSUME HistoryInv, NEW n \in EgressNets, NEW d \in Dsts, NEW on \in BOOLEAN, record_egress_destination(n, d, on)
    PROVE  HistoryInv'
  <1>1. PICK L, A, A1, T, r, m : L = live /\ A = active /\ A1 = active' /\ T = token
                                 /\ r = Row("egress", n, d, live[n]) /\ m = Mutation("Egress", r, on)
    OBVIOUS
  <1>2. /\ LifeTypes /\ LivesApart /\ n \in Keys /\ live[n] # 0 /\ on # (d \in active[n]) /\ submit(m) /\ live' = live
        /\ lives' = lives /\ token' = token /\ UNCHANGED worker
        /\ active' = [active EXCEPT ![n] = IF on THEN active[n] \cup {d} ELSE active[n] \ {d}]
    BY <1>1, KindsOf DEF HistoryInv, record_egress_destination
  <1>3. A \in [EgressNets -> SUBSET Dsts]
    BY <1>1, <1>2 DEF LifeTypes
  <1>4. /\ A1 \in [EgressNets -> SUBSET Dsts] /\ (\A j \in EgressNets : j # n => A1[j] = A[j])
        /\ A1[n] = IF on THEN A[n] \cup {d} ELSE A[n] \ {d}
    BY <1>1, <1>2, <1>3
  <1>5. LifeTypes' /\ LivesApart'
    <2>1. active' \in [EgressNets -> SUBSET Dsts]
      BY <1>1, <1>4
    <2>2. \A j \in EgressNets : active'[j] # {} => live'[j] # 0
      BY <1>1, <1>2, <1>4 DEF LivesApart
    <2>. QED BY <1>2, <2>1, <2>2 DEF LifeTypes, LivesApart
  <1>6. r.dir = "egress" /\ r.key = n /\ r.dst = d
    BY <1>1, RowParts
  <1>7. m \in MutationSet /\ m.op = "Egress" /\ m.row = r /\ m.on = on
    <2>1. r \in RowSet
      <3>1. live[n] \in Nat
        BY <1>2 DEF LifeTypes
      <3>. QED BY <1>1, <1>2, <3>1 DEF RowSet, Row
    <2>. QED BY <1>1, <1>6, <2>1 DEF MutationSet, Mutation, Ops
  <1>8. Expected = Exp(L, A) /\ Expected' = Exp(L, A1)
    BY <1>1, <1>2, ExpNow
  <1>0. SameBut(L, L, n, Keys)
    BY DEF SameBut
  <1>9. ASSUME NEW q PROVE q \in Exp(L, A1) <=> \/ \E e \in A1[n] : q = Row("egress", n, e, L[n])
                                                \/ q \in Exp(L, A) /\ ~(q.dir = "egress" /\ q.key = n)
    <2>1. SameBut(A1, A, n, EgressNets)
      BY <1>4 DEF SameBut
    <2>. QED BY <1>0, <2>1, ExpEgress
  <1>10. ASSUME NEW q PROVE q \in Exp(L, A) <=> \/ \E e \in A[n] : q = Row("egress", n, e, L[n])
                                                \/ q \in Exp(L, A) /\ ~(q.dir = "egress" /\ q.key = n)
    <2>1. SameBut(A, A, n, EgressNets)
      BY DEF SameBut
    <2>. QED BY <1>0, <2>1, ExpEgress
  <1>11. r = Row("egress", n, d, L[n])
    BY <1>1
  <1>12. CASE on
    <2>1. Opening(m) /\ d \notin A[n]
      BY <1>1, <1>2, <1>7, <1>12 DEF Opening
    <2>2. \A q \in Exp(L, A) : ~SameSlot(q, r)
      BY <1>6, <2>1, ExpRow DEF SameSlot
    <2>3. \A q : q \in Exp(L, A1) <=> q \in Exp(L, A) \/ q = r
      <3>1. \A q : (\E e \in A1[n] : q = Row("egress", n, e, L[n])) <=> (\E e \in A[n] : q = Row("egress", n, e, L[n])) \/ q = r
        BY <1>4, <1>11, <1>12
      <3>. QED BY <1>9, <1>10, <3>1
    <2>4. Fits(m, Exp(L, A), Exp(L, A1), T, T)
      BY <1>6, <1>7, <2>1, <2>2, <2>3 DEF Fits
    <2>5. Fits(m, Expected, Expected', token, token')
      BY <1>1, <1>2, <1>8, <2>4
    <2>6. m.op # "CloseAll"
      BY <1>7
    <2>. QED BY <1>2, <1>5, <1>7, <2>5, <2>6, SubmitStep
  <1>13. CASE ~on
    <2>1. ~Opening(m)
      BY <1>7, <1>13 DEF Opening
    <2>2. \A q : Closes(m, q) <=> q.dir = "egress" /\ q.key = n /\ q.dst = d
      BY <1>6, <1>7, <1>13 DEF Closes, SameEgress
    <2>3. \A e : Row("egress", n, e, L[n]).dir = "egress" /\ Row("egress", n, e, L[n]).key = n /\ Row("egress", n, e, L[n]).dst = e
      BY RowParts
    <2>4. \A q : q \in Exp(L, A1) <=> q \in Exp(L, A) /\ ~Closes(m, q)
      <3> SUFFICES ASSUME NEW q PROVE q \in Exp(L, A1) <=> q \in Exp(L, A) /\ ~(q.dir = "egress" /\ q.key = n /\ q.dst = d)
        BY <2>2
      <3>1. (\E e \in A1[n] : q = Row("egress", n, e, L[n])) <=>
            (\E e \in A[n] : q = Row("egress", n, e, L[n])) /\ ~(q.dir = "egress" /\ q.key = n /\ q.dst = d)
        BY <1>4, <1>13, <2>3
      <3>. QED BY <1>9, <1>10, <3>1
    <2>5. Fits(m, Exp(L, A), Exp(L, A1), T, T)
      BY <2>1, <2>4 DEF Fits
    <2>6. Fits(m, Expected, Expected', token, token')
      BY <1>1, <1>2, <1>8, <2>5
    <2>7. m.op # "CloseAll"
      BY <1>7
    <2>. QED BY <1>2, <1>5, <1>7, <2>6, <2>7, SubmitStep
  <1>. QED BY <1>12, <1>13

LEMMA CloseEgressStep == ASSUME HistoryInv, NEW n \in EgressNets, close_egress_edge(n) PROVE HistoryInv'
  <1>1. PICK L, L1, A, A1, T, r, m : L = live /\ L1 = live' /\ A = active /\ A1 = active' /\ T = token
                                     /\ r = Row("egress", n, "none", 0) /\ m = Mutation("CloseEgress", r, FALSE)
    OBVIOUS
  <1>2. /\ LifeTypes /\ LivesApart /\ n \in Keys /\ EndLife(n) /\ submit(m) /\ lives' = lives /\ token' = token /\ UNCHANGED worker
        /\ active' = [active EXCEPT ![n] = {}]
    BY <1>1, KindsOf DEF HistoryInv, close_egress_edge
  <1>3. /\ live' \in [Keys -> 0..MaxLives] /\ lives' \in 0..MaxLives
        /\ \A j \in Keys : j # n => live'[j] = live[j]
        /\ \A j \in Keys : live'[j] <= lives'
        /\ \A i, j \in Keys : live'[i] = live'[j] /\ live'[i] # 0 => i = j
    BY <1>2, EndLifeStep
  <1>4. A1 \in [EgressNets -> SUBSET Dsts] /\ A1[n] = {} /\ \A j \in EgressNets : j # n => A1[j] = A[j]
    BY <1>1, <1>2 DEF LifeTypes
  <1>5. LifeTypes' /\ LivesApart'
    <2>1. \A j \in BackendKeys : live'[j] = live[j]
      BY <1>3, KindsOf
    <2>2. active' \in [EgressNets -> SUBSET Dsts] /\ \A j \in EgressNets : active'[j] # {} => live'[j] # 0
      BY <1>1, <1>2, <1>3, <1>4, KindsOf DEF LivesApart
    <2>. QED BY <1>2, <1>3, <2>1, <2>2 DEF LifeTypes, LivesApart
  <1>6. m \in MutationSet /\ m.op = "CloseEgress" /\ m.row = r /\ ~Opening(m)
    <2>1. r \in RowSet
      BY <1>1, <1>2 DEF RowSet, Row
    <2>2. r.dir = "egress"
      BY <1>1, RowParts
    <2>. QED BY <1>1, <2>1, <2>2 DEF MutationSet, Mutation, Ops, Opening
  <1>7. Expected = Exp(L, A) /\ Expected' = Exp(L1, A1)
    BY <1>1, ExpNow
  <1>8. \A j \in Keys : j # n => L1[j] = L[j]
    BY <1>1, <1>3
  <1>9. \A q : Closes(m, q) <=> q.dir = "egress" /\ q.key = n
    <2>1. r.key = n
      BY <1>1, RowParts
    <2>. QED BY <1>6, <2>1 DEF Closes
  <1>10. ASSUME NEW q PROVE q \in Exp(L1, A1) <=> q \in Exp(L, A) /\ ~(q.dir = "egress" /\ q.key = n)
    <2>1. SameBut(L1, L, n, Keys) /\ SameBut(A1, A, n, EgressNets)
      BY <1>4, <1>8 DEF SameBut
    <2>2. q \in Exp(L1, A1) <=> (\E d \in A1[n] : q = Row("egress", n, d, L1[n])) \/ (q \in Exp(L, A) /\ ~(q.dir = "egress" /\ q.key = n))
      BY <2>1, ExpEgress
    <2>. QED BY <1>4, <2>2
  <1>11. Fits(m, Exp(L, A), Exp(L1, A1), T, T)
    BY <1>6, <1>9, <1>10 DEF Fits
  <1>12. Fits(m, Expected, Expected', token, token')
    BY <1>1, <1>2, <1>7, <1>11
  <1>13. m.op # "CloseAll"
    BY <1>6
  <1>. QED BY <1>2, <1>5, <1>6, <1>12, <1>13, SubmitStep

-----------------------------------------------------------------------------
(* The server starts, and starts again.                                    *)

LEMMA OneMutation ==
    ASSUME NEW S, NEW m \in S
    PROVE  <<m>> \in Seq(S) /\ Len(<<m>>) = 1 /\ <<m>>[1] = m
  OBVIOUS

LEMMA Swept ==
    ASSUME NEW w, NEW m, m = Mutation("CloseAll", NoRow, FALSE)
    PROVE  /\ m \in MutationSet /\ <<m>> \in Seq(MutationSet) /\ Len(<<m>>) = 1 /\ DOMAIN <<m>> = {1} /\ <<m>>[1].op = "CloseAll"
           /\ <<>> \o <<m>> = <<m>> /\ SubSeq(<<>>, 0 + 1, Len(<<>>)) \o <<m>> = <<m>>
           /\ Ordered(w, <<m>>) /\ \A r : r \notin Left(w, <<m>>)
  <1>1. m.op = "CloseAll" /\ m \in MutationSet
    BY DEF Mutation, NoRow, Row, MutationSet, RowSet, Ops
  <1>2. PICK p : p = <<m>>
    OBVIOUS
  <1>3. p \in Seq(MutationSet) /\ Len(p) = 1 /\ DOMAIN p = {1} /\ p[1] = m
    <2>1. p \in Seq(MutationSet) /\ Len(p) = 1 /\ p[1] = m
      BY <1>1, <1>2, OneMutation
    <2>2. DOMAIN p = 1..Len(p)
      BY <2>1
    <2>3. 1..1 = {1}
      OBVIOUS
    <2>. QED BY <2>1, <2>2, <2>3
  <1>4. <<>> \o p = p /\ SubSeq(<<>>, 0 + 1, Len(<<>>)) = <<>>
    <2>1. <<>> \in Seq(MutationSet) /\ Len(<<>>) = 0
      OBVIOUS
    <2>. QED BY <1>3, <2>1, Pieces
  <1>5. ~Opening(m) /\ \A r : Closes(m, r)
    BY <1>1 DEF Opening, Closes
  <1>6. Ordered(w, p)
    BY <1>3, <1>5 DEF Ordered
  <1>7. ASSUME NEW r PROVE r \notin Left(w, p)
    <2>1. Closes(p[1], r) /\ 1 \in DOMAIN p
      BY <1>3, <1>5
    <2>2. \A i \in DOMAIN p : ~Opening(p[i])
      BY <1>3, <1>5
    <2>. QED BY <2>1, <2>2, InLeft
  <1>. QED BY <1>1, <1>2, <1>3, <1>4, <1>6, <1>7

LEMMA NoneExpected ==
    ASSUME NEW L, NEW A, \A k \in Keys : L[k] = 0, \A n \in EgressNets : A[n] = {}
    PROVE  Exp(L, A) = {}
  <1>1. ASSUME NEW r \in Exp(L, A) PROVE FALSE
    BY KindsOf, ExpRow
  <1>. QED BY <1>1

LEMMA HistoryStarts == Init => HistoryInv
  <1> SUFFICES ASSUME Init PROVE HistoryInv
    OBVIOUS
  <1>1. PICK m, w, L, A, T : m = Mutation("CloseAll", NoRow, FALSE) /\ w = {} /\ L = live /\ A = active /\ T = token
    OBVIOUS
  <1>2. /\ live = [k \in Keys |-> 0] /\ active = [n \in EgressNets |-> {}] /\ token = [k \in BackendKeys |-> 0] /\ lives = 0
        /\ queue = <<m>> /\ gap = FALSE /\ pc = "recv" /\ batch = <<>> /\ done = 0 /\ txn = {} /\ rows = {}
        /\ complete = TRUE /\ overtaken = FALSE
    BY <1>1 DEF Init
  <1>3. /\ m \in MutationSet /\ <<m>> \in Seq(MutationSet) /\ Len(<<m>>) = 1 /\ DOMAIN <<m>> = {1} /\ <<m>>[1].op = "CloseAll"
        /\ <<>> \o <<m>> = <<m>> /\ SubSeq(<<>>, 0 + 1, Len(<<>>)) \o <<m>> = <<m>>
        /\ Ordered(w, <<m>>) /\ \A r : r \notin Left(w, <<m>>)
    BY <1>1, Swept
  <1>4. LifeTypes /\ LivesApart
    BY <1>2, HistoryAssumption, KindsOf DEF LifeTypes, LivesApart
  <1>5. QueueTypes
    <2>1. Len(<<>>) = 0 /\ <<>> \in Seq(MutationSet) /\ Len(<<>>) <= BATCH_SIZE /\ 0 \in 0..Len(<<>>)
      BY HistoryAssumption
    <2>3. Len(<<m>>) <= CAPACITY
      BY <1>3, HistoryAssumption
    <2>. QED BY <1>2, <1>3, <2>1, <2>3 DEF QueueTypes
  <1>6. Sound
    BY <1>2 DEF Sound
  <1>7. Phases
    BY <1>2, <1>3, <1>6 DEF Phases
  <1>8. Whole = <<m>> /\ Rest = <<m>>
    BY <1>2, <1>3 DEF Whole, Rest
  <1>9. Expected = {}
    <2>1. (\A k \in Keys : L[k] = 0) /\ \A n \in EgressNets : A[n] = {}
      BY <1>1, <1>2
    <2>. QED BY <1>1, <2>1, NoneExpected, ExpNow
  <1>10. Faithful(w, <<m>>, {}, T, FALSE, TRUE)
    BY <1>3 DEF Faithful
  <1>11. Claim(rows, Whole) /\ Claim(txn, Rest)
    BY <1>1, <1>2, <1>8, <1>9, <1>10 DEF Claim
  <1>12. Unique(rows) /\ Unique(txn)
    BY <1>2 DEF Unique
  <1>. QED BY <1>4, <1>5, <1>7, <1>11, <1>12 DEF HistoryInv

LEMMA RestartStep == HistoryInv /\ Restart => HistoryInv'
  <1> SUFFICES ASSUME HistoryInv, Restart PROVE HistoryInv'
    OBVIOUS
  <1>1. PICK m, w, L1, A1, T1 : m = Mutation("CloseAll", NoRow, FALSE) /\ w = rows /\ L1 = live' /\ A1 = active' /\ T1 = token'
    OBVIOUS
  <1>2. /\ live' = [k \in Keys |-> 0] /\ active' = [n \in EgressNets |-> {}] /\ token' = [k \in BackendKeys |-> 0] /\ lives' = lives
        /\ queue' = <<m>> /\ gap' = FALSE /\ pc' = "recv" /\ batch' = <<>> /\ done' = 0 /\ txn' = w /\ rows' = w
        /\ complete' = TRUE /\ overtaken' = overtaken
    BY <1>1 DEF Restart
  <1>3. /\ m \in MutationSet /\ <<m>> \in Seq(MutationSet) /\ Len(<<m>>) = 1 /\ DOMAIN <<m>> = {1} /\ <<m>>[1].op = "CloseAll"
        /\ <<>> \o <<m>> = <<m>> /\ SubSeq(<<>>, 0 + 1, Len(<<>>)) \o <<m>> = <<m>>
        /\ Ordered(w, <<m>>) /\ \A r : r \notin Left(w, <<m>>)
    BY <1>1, Swept
  <1>4. LifeTypes' /\ LivesApart'
    <2>1. lives \in 0..MaxLives
      BY DEF HistoryInv, LifeTypes
    <2>. QED BY <1>2, <2>1, HistoryAssumption, KindsOf DEF LifeTypes, LivesApart
  <1>5. QueueTypes'
    <2>1. Len(<<>>) = 0 /\ <<>> \in Seq(MutationSet) /\ Len(<<>>) <= BATCH_SIZE /\ 0 \in 0..Len(<<>>)
      BY HistoryAssumption
    <2>3. Len(<<m>>) <= CAPACITY
      BY <1>3, HistoryAssumption
    <2>2. overtaken' \in BOOLEAN
      BY <1>2 DEF HistoryInv, QueueTypes
    <2>. QED BY <1>2, <1>3, <2>1, <2>2, <2>3 DEF QueueTypes
  <1>6. Sound'
    BY <1>2, <1>3 DEF Sound, ClosesAll
  <1>7. Phases'
    BY <1>2, <1>3, <1>6 DEF Phases
  <1>8. Whole' = <<m>> /\ Rest' = <<m>>
    BY <1>2, <1>3 DEF Whole, Rest
  <1>9. Expected' = {}
    <2>1. (\A k \in Keys : L1[k] = 0) /\ \A n \in EgressNets : A1[n] = {}
      BY <1>1, <1>2
    <2>. QED BY <1>1, <2>1, NoneExpected, ExpNow
  <1>10. Faithful(w, <<m>>, {}, T1, FALSE, TRUE)
    BY <1>3 DEF Faithful
  <1>11. Claim(rows, Whole)' /\ Claim(txn, Rest)'
    BY <1>1, <1>2, <1>8, <1>9, <1>10 DEF Claim
  <1>12. (~overtaken' => Unique(rows')) /\ (~overtaken' \/ (done' > 0 /\ ClosesAll(batch')) => Unique(txn'))
    <2>1. ~overtaken => Unique(w)
      BY <1>1 DEF HistoryInv
    <2>. QED BY <1>2, <2>1
  <1>. QED BY <1>4, <1>5, <1>7, <1>11, <1>12 DEF HistoryInv

LEMMA HistoryHolds == Spec => []HistoryInv
  <1>1. HistoryInv /\ [Next]_vars => HistoryInv'
    <2> SUFFICES ASSUME HistoryInv, [Next]_vars PROVE HistoryInv'
      OBVIOUS
    <2>1. CASE UNCHANGED vars
      <3>1. HistoryInv' = HistoryInv
        BY <2>1 DEF vars, HistoryInv, LifeTypes, QueueTypes, LivesApart, Phases, Sound, Claim, Faithful, Whole, Rest, Expected
      <3>. QED BY <3>1
    <2>2. CASE \E k \in IngressKeys : open_ingress(k) \/ close_ingress(k)
      BY <2>2, OpenIngressStep, CloseIngressStep
    <2>3. CASE \E k \in BackendKeys : open_backend(k) \/ close_backend(k)
      BY <2>3, OpenBackendStep, CloseBackendStep
    <2>4. CASE \E n \in EgressNets : \/ EgressUp(n) \/ close_egress_edge(n)
                                     \/ \E d \in Dsts, on \in BOOLEAN : record_egress_destination(n, d, on)
      BY <2>4, EgressUpStep, CloseEgressStep, EgressReportStep
    <2>5. CASE Worker
      BY <2>5, ReceiveStep, ApplyNextStep, CommitStep, CheckStep, InterruptStep, ResetStep DEF Worker
    <2>6. CASE Rollback \/ Restart
      BY <2>6, RollbackStep, RestartStep
    <2>. QED BY <2>1, <2>2, <2>3, <2>4, <2>5, <2>6 DEF Next
  <1>. QED BY <1>1, HistoryStarts, PTL DEF Spec

\* Caught up, the table holds what the pending mutations would leave.
LEMMA CaughtUp ==
    ASSUME HistoryInv, Drained, Sound
    PROVE  (~gap => rows \subseteq Expected) /\ (complete => Expected \subseteq rows)
  <1>1. queue = <<>> /\ pc = "recv" /\ Phases /\ Claim(rows, Whole)
    BY DEF HistoryInv, Drained
  <1>2. batch = <<>>
    BY <1>1 DEF Phases
  <1>3. Whole = <<>>
    BY <1>1, <1>2, NoPieces DEF Whole
  <1>4. PICK w, E, T, g, c : w = rows /\ E = Expected /\ T = token /\ g = gap /\ c = complete
    OBVIOUS
  <1>5. Faithful(w, <<>>, E, T, g, c)
    BY <1>1, <1>3, <1>4 DEF Claim
  <1>6. \A r : r \in Left(w, <<>>) <=> r \in w
    BY NothingPending
  <1>7. (~g => w \subseteq E) /\ (c => E \subseteq w)
    BY <1>5, <1>6 DEF Faithful
  <1>. QED BY <1>4, <1>7

\* Whatever is dropped, retried or restarted, once the worker has caught up an
\* open row is the row of a session that is live now, and no two rows are open
\* for one session (sessions/persistence.rs worker and submit, db/sessions.rs
\* apply_batch); for any number of keys, any capacity and any batch size.
THEOREM OpenRowsAreLiveAlways == Spec => []OpenRowsAreLive
  <1>1. HistoryInv => OpenRowsAreLive
    <2> SUFFICES ASSUME HistoryInv PROVE OpenRowsAreLive
      OBVIOUS
    <2>1. TypeOK
      BY DEF HistoryInv, LifeTypes, QueueTypes, TypeOK
    <2>2. NoStaleRow
      <3> SUFFICES ASSUME Drained, ~overtaken PROVE rows \subseteq Expected
        BY DEF NoStaleRow
      <3>1. Sound /\ ~gap
        BY DEF Sound, Drained
      <3>. QED BY <3>1, CaughtUp
    <2>3. OneOpenRow
      BY DEF HistoryInv, OneOpenRow, Unique, SameSlot
    <2>. QED BY <2>1, <2>2, <2>3 DEF OpenRowsAreLive
  <1>. QED BY <1>1, HistoryHolds, PTL

\* As long as no update had to be dropped, the open rows are exactly those of
\* the live sessions once the worker has caught up (persistence.rs submit).
THEOREM ExactUnlessInterruptedAlways == Spec => []ExactUnlessInterrupted
  <1>1. HistoryInv => ExactUnlessInterrupted
    <2> SUFFICES ASSUME HistoryInv, Drained, complete PROVE rows = Expected
      BY DEF ExactUnlessInterrupted
    <2>1. Sound /\ ~gap
      BY DEF HistoryInv, Phases
    <2>. QED BY <2>1, CaughtUp
  <1>. QED BY <1>1, HistoryHolds, PTL
=============================================================================
