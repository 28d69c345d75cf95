---------------------------- MODULE GroupEdges ----------------------------
(***************************************************************************)
(* The permission groups of a client (commands/policy.rs): networks that   *)
(* share one VXLAN device, their carrier, and each have a rule in the eBPF *)
(* maps and IPsec associations of their own.                               *)
(*                                                                         *)
(* The handlers of one network run in order (lifecycle), those of several  *)
(* concurrently.  A carrier is created by the first network and deleted by *)
(* the last one under the lock of its state; memberships change outside    *)
(* the lock and are only counted.  A group whose two ends are on one host  *)
(* has neither carrier nor associations and is left out.  A step that      *)
(* fails undoes itself as far as that, too, does not fail: what it leaves  *)
(* behind stays until a new process purges it.                             *)
(***************************************************************************)
EXTENDS Naturals, Sequences, FiniteSets

CONSTANTS GeNets, GeMaxLinks, GeMaxCarriers   \* bounds on objects ever made

\* Networks are numbered from a range.
ASSUME GeAssumption == IsFiniteSet(GeNets)

VARIABLES geTask,      \* the handler of each network
          geEdges,     \* Engine.edges
          geOn,        \* networks whose rule in the outgoing map is enabled
          gePeers,     \* Engine.peers
          geOwners,    \* native_xfrm::EDGES, by owner
          geXfrm,      \* networks with states or policies in the kernel
          geEntry,     \* Engine.carriers: the Carrier of the carrier id, or 0
          geState,     \* Carrier -> its CarrierState, or 0
          geLink,      \* CarrierState -> [up, vnis, recorded, ops]
          geHalf,      \* a device that was not completed and could not be deleted
          geBoot,      \* "run", or the stage of a new process
          geSpoilt,    \* history: a removal failed
          geLeft       \* history: networks whose failed setup left associations

geVars == <<geTask, geEdges, geOn, gePeers, geOwners, geXfrm, geEntry, geState, geLink, geHalf,
            geBoot, geSpoilt, geLeft>>

GeIdle == [pc |-> "idle", why |-> "none", car |-> 0, act |-> 0, err |-> FALSE]
NewLink == [up |-> TRUE, vnis |-> {}, recorded |-> {}, ops |-> 1]

GroupInit ==
    /\ geTask = [n \in GeNets |-> GeIdle]
    /\ geEdges = {} /\ geOn = {} /\ gePeers = {} /\ geOwners = {} /\ geXfrm = {} /\ geLeft = {}
    /\ geEntry = 0 /\ geHalf = FALSE
    /\ geState = <<>>
    /\ geLink = <<>>
    /\ geBoot = "run"
    /\ geSpoilt = FALSE

keyVars == <<geOwners, geXfrm, geLeft>>
mapVars == <<geEdges, geOn, gePeers, keyVars>>
carrierVars == <<geEntry, geState, geLink, geHalf>>

\* How a step that makes something ends: done, undone, or with something left.
Results == {"ok", "undone", "left"}

-----------------------------------------------------------------------------
(* Carriers *)

\* Arc::strong_count: the map's reference and those of the tasks.
StrongCount(c) ==
    (IF geEntry = c THEN 1 ELSE 0) + Cardinality({n \in GeNets : geTask[n].car = c})

\* Engine::carrier, release_carrier: look up the carrier, or insert one.
GetCarrier(n) ==
    /\ geTask[n].pc \in {"carrier", "release"}
    /\ IF geEntry = 0 /\ geTask[n].pc = "carrier"
       THEN /\ Len(geState) < GeMaxCarriers
            /\ geEntry' = Len(geState) + 1
            /\ geState' = Append(geState, 0)
       ELSE UNCHANGED <<geEntry, geState>>
    /\ geTask' = [geTask EXCEPT ![n].car = geEntry',
                                ![n].pc = IF geEntry' = 0 THEN "left" ELSE IF @ = "carrier" THEN "enter" ELSE "leave"]
    /\ UNCHANGED <<mapVars, geLink, geHalf, geBoot, geSpoilt>>

\* Under the lock of the state: use the device, or create it.  One that cannot
\* be completed is deleted, if that does not fail, too; its name is then taken.
EnterCarrier(n, res) ==
    /\ geTask[n].pc = "enter"
    /\ LET c == geTask[n].car
           a == geState[c]
           new == Len(geLink) + 1
           free == ~geHalf /\ \A b \in DOMAIN geLink : ~geLink[b].up   \* the name of the device
       IN  IF a # 0
           THEN /\ res = "ok"
                /\ geLink' = [geLink EXCEPT ![a].ops = @ + 1]
                /\ geTask' = [geTask EXCEPT ![n].act = a, ![n].pc = "vni"]
                /\ UNCHANGED <<geState, geHalf>>
           ELSE IF res = "ok"
           THEN /\ new <= GeMaxLinks /\ free
                /\ geLink' = Append(geLink, NewLink)
                /\ geState' = [geState EXCEPT ![c] = new]
                /\ geTask' = [geTask EXCEPT ![n].act = new, ![n].pc = "vni"]
                /\ UNCHANGED geHalf
           ELSE /\ geHalf' = (geHalf \/ (res = "left" /\ free))
                /\ geTask' = [geTask EXCEPT ![n].car = 0, ![n].err = TRUE, ![n].pc = "left"]
                /\ UNCHANGED <<geLink, geState>>
    /\ UNCHANGED <<mapVars, geEntry, geBoot, geSpoilt>>

\* Variant: the map entry goes with the device, whoever else refers to it.
DropsEntryAlways(c) == geEntry = c

DropsEntry(c) == geEntry = c /\ StrongCount(c) = 2

\* remove_link, state = None, and the map entry if nobody else refers to it.
DropCarrier(n) ==
    LET c == geTask[n].car IN
        /\ geLink' = [geLink EXCEPT ![geState[c]].up = FALSE, ![geState[c]].vnis = {}]
        /\ geState' = [geState EXCEPT ![c] = 0]
        /\ geEntry' = IF DropsEntry(c) THEN 0 ELSE geEntry
        /\ UNCHANGED geHalf

\* Variant: membership changes in progress are not counted.
LastMemberByVni(n, a) == geLink[a].recorded = {n}

LastMember(n, a) == geLink[a].ops = 0 /\ geLink[a].recorded = {n}

LeaveCarrier(n, ok) ==
    /\ geTask[n].pc = "leave"
    /\ LET a == geState[geTask[n].car]
       IN  \/ /\ a = 0 /\ ok
              /\ geTask' = [geTask EXCEPT ![n].car = 0, ![n].pc = "left"]
              /\ UNCHANGED carrierVars
           \/ /\ a # 0 /\ LastMember(n, a)
              /\ IF ok THEN DropCarrier(n) ELSE UNCHANGED carrierVars
              /\ geTask' = [geTask EXCEPT ![n].car = 0, ![n].err = @ \/ ~ok, ![n].pc = "left"]
           \/ /\ a # 0 /\ ~LastMember(n, a) /\ ok
              /\ geLink' = [geLink EXCEPT ![a].ops = @ + 1]
              /\ geTask' = [geTask EXCEPT ![n].act = a, ![n].pc = "vni"]
              /\ UNCHANGED <<geEntry, geState, geHalf>>
    /\ geSpoilt' = (geSpoilt \/ ~ok)
    /\ UNCHANGED <<mapVars, geBoot>>

WithMember(n, s) == IF geTask[n].why = "setup" THEN s \cup {n} ELSE s \ {n}

\* add_vni, remove_vni: outside the lock.  Removing a member from a device that
\* is gone is no error.
ChangeVni(n, ok) ==
    /\ geTask[n].pc = "vni"
    /\ LET a == geTask[n].act
       IN  /\ ok => geLink[a].up \/ geTask[n].why # "setup"
           /\ geLink' = IF ok /\ geLink[a].up THEN [geLink EXCEPT ![a].vnis = WithMember(n, @)] ELSE geLink
    /\ geTask' = [geTask EXCEPT ![n].err = @ \/ ~ok, ![n].pc = IF ok THEN "record" ELSE "finish"]
    /\ geSpoilt' = (geSpoilt \/ (~ok /\ geTask[n].why # "setup"))
    /\ UNCHANGED <<mapVars, geEntry, geState, geHalf, geBoot>>

RecordVni(n) ==
    /\ geTask[n].pc = "record"
    /\ geLink' = [geLink EXCEPT ![geTask[n].act].recorded = WithMember(n, @)]
    /\ geTask' = [geTask EXCEPT ![n].pc = "finish"]
    /\ UNCHANGED <<mapVars, geEntry, geState, geHalf, geBoot, geSpoilt>>

\* Variant: only an operation that leaves a single member looks.
LastOperationOfOne(a) == geLink[a].ops = 1 /\ Cardinality(geLink[a].recorded) = 1

LastOperation(a) == geLink[a].ops = 1 /\ geLink[a].recorded = {}

\* finish_carrier_operation: the last operation of an empty carrier ...
FinishOperation(n) ==
    /\ geTask[n].pc = "finish"
    /\ LET a == geTask[n].act
       IN  /\ geLink' = [geLink EXCEPT ![a].ops = @ - 1]
           /\ geTask' = IF LastOperation(a)
                        THEN [geTask EXCEPT ![n].pc = "empty"]
                        ELSE [geTask EXCEPT ![n].car = 0, ![n].act = 0, ![n].pc = "left"]
    /\ UNCHANGED <<mapVars, geEntry, geState, geHalf, geBoot, geSpoilt>>

StillEmpty(c, a) == geState[c] = a /\ geLink[a].ops = 0 /\ geLink[a].recorded = {}

\* ... deletes it, if it is still so under the lock.
DropIfEmpty(n, ok) ==
    /\ geTask[n].pc = "empty"
    /\ LET drop == StillEmpty(geTask[n].car, geTask[n].act)
       IN  /\ drop \/ ok
           /\ IF drop /\ ok THEN DropCarrier(n) ELSE UNCHANGED carrierVars
    /\ geTask' = [geTask EXCEPT ![n].car = 0, ![n].act = 0, ![n].err = @ \/ ~ok, ![n].pc = "left"]
    /\ geSpoilt' = (geSpoilt \/ ~ok)
    /\ UNCHANGED <<mapVars, geBoot>>

-----------------------------------------------------------------------------
(* Setup *)

\* policy::setup up to the carrier; the endpoint must not be active already.
GroupSetup(n) ==
    /\ geTask[n].pc = "idle" /\ geBoot = "run"
    /\ geTask' = [geTask EXCEPT ![n] = [GeIdle EXCEPT !.pc = "carrier", !.why = "setup"]]
    /\ UNCHANGED <<mapVars, carrierVars, geBoot, geSpoilt>>

\* carrier() returned: an error ends the setup.
EnteredCarrier(n) ==
    /\ geTask[n].pc = "left" /\ geTask[n].why = "setup"
    /\ geTask' = [geTask EXCEPT ![n] = IF @.err THEN [GeIdle EXCEPT !.pc = "failed"]
                                                ELSE [@ EXCEPT !.pc = "peer"]]
    /\ UNCHANGED <<mapVars, carrierVars, geBoot, geSpoilt>>

\* XFRM_MSG_NEWSA and NEWPOLICY refuse what is there already.
Accepts(n) == n \notin geXfrm

\* Engine::peer.  A failing install_unique forgets its owner and deletes none of
\* the states it has added, and remove() does nothing for an unknown owner.  The
\* error releases the carrier.
GroupPeer(n, res) ==
    /\ geTask[n].pc = "peer"
    /\ IF n \in gePeers   \* the cell is initialised: nothing is installed
       THEN res = "ok" /\ UNCHANGED <<gePeers, keyVars>>
       ELSE /\ res = "ok" => Accepts(n)
            /\ gePeers' = IF res = "ok" THEN gePeers \cup {n} ELSE gePeers
            /\ geOwners' = IF res = "ok" THEN geOwners \cup {n} ELSE geOwners \ {n}
            /\ geXfrm' = IF res = "undone" THEN geXfrm ELSE geXfrm \cup {n}
            /\ geLeft' = IF res = "left" THEN geLeft \cup {n} ELSE geLeft
    /\ geTask' = [geTask EXCEPT ![n] = IF res = "ok" THEN [@ EXCEPT !.pc = "maps"]
                                                    ELSE [@ EXCEPT !.pc = "release", !.why = "undo"]]
    /\ UNCHANGED <<geEdges, geOn, carrierVars, geBoot, geSpoilt>>

\* The rules, not enabled yet, and the edge, under one lock.  Its error takes the
\* associations out again; that this, too, failed is only reported.
InsertRules(n, res) ==
    /\ geTask[n].pc = "maps"
    /\ geEdges' = IF res = "ok" THEN geEdges \cup {n} ELSE geEdges
    /\ gePeers' = IF res = "ok" THEN gePeers ELSE gePeers \ {n}
    /\ geOwners' = IF res = "undone" THEN geOwners \ {n} ELSE geOwners
    /\ geXfrm' = IF res = "undone" THEN geXfrm \ {n} ELSE geXfrm
    /\ geLeft' = IF res = "left" THEN geLeft \cup {n} ELSE geLeft
    /\ geTask' = [geTask EXCEPT ![n] = IF res = "ok" THEN [GeIdle EXCEPT !.pc = "up"]
                                                    ELSE [@ EXCEPT !.pc = "release", !.why = "undo"]]
    /\ UNCHANGED <<geOn, carrierVars, geBoot, geSpoilt>>

\* A failed setup is followed by a teardown, which finds no edge.
GroupUndone(n) ==
    /\ geTask[n].pc = "failed" \/ (geTask[n].pc = "left" /\ geTask[n].why = "undo")
    /\ geTask' = [geTask EXCEPT ![n] = GeIdle]
    /\ UNCHANGED <<mapVars, carrierVars, geBoot, geSpoilt>>

\* NetReady: ready() enables the rule of an edge on record.
GroupReady(n) ==
    /\ geTask[n].pc = "up" /\ n \in geEdges \ geOn
    /\ geOn' = geOn \cup {n}
    /\ UNCHANGED <<geTask, geEdges, gePeers, keyVars, carrierVars, geBoot, geSpoilt>>

-----------------------------------------------------------------------------
(* Retirement *)

\* The rules go first, with the edge; a route may fail to.  (An entry of an eBPF
\* map is removed unless it is not there.)  One that was put back may be tried
\* again.
GroupRetire(n, ok) ==
    /\ geTask[n].pc \in {"up", "stuck"} /\ geBoot = "run"
    /\ geEdges' = geEdges \ {n} /\ geOn' = geOn \ {n}
    /\ geTask' = [geTask EXCEPT ![n] = [GeIdle EXCEPT !.pc = "keys", !.why = "retire", !.err = ~ok]]
    /\ UNCHANGED <<gePeers, keyVars, carrierVars, geBoot, geSpoilt>>

RemoveKeys(n, ok) ==
    /\ geTask[n].pc = "keys"
    /\ n \notin geOwners => ok
    /\ gePeers' = gePeers \ {n}
    /\ IF ok /\ n \in geOwners
       THEN geOwners' = geOwners \ {n} /\ geXfrm' = geXfrm \ {n}
       ELSE UNCHANGED <<geOwners, geXfrm>>
    /\ geSpoilt' = (geSpoilt \/ ~ok)
    /\ geTask' = [geTask EXCEPT ![n].err = @ \/ ~ok, ![n].pc = "release"]
    /\ UNCHANGED <<geEdges, geOn, geLeft, carrierVars, geBoot>>

\* Variant: a failed retirement forgets the edge.
KeptOnErrorNever(n) == {}

KeptOnError(n) == IF geTask[n].err THEN {n} ELSE {}

\* An error puts the edge back and is answered as one.
GroupRetired(n) ==
    /\ geTask[n].pc = "left" /\ geTask[n].why = "retire"
    /\ geEdges' = geEdges \cup KeptOnError(n)
    /\ geTask' = [geTask EXCEPT ![n] = [GeIdle EXCEPT !.pc = IF geTask[n].err THEN "stuck" ELSE "idle"]]
    /\ UNCHANGED <<geOn, gePeers, keyVars, carrierVars, geBoot, geSpoilt>>

-----------------------------------------------------------------------------
(* A new process *)

\* The classic filters survive, and with them the rules.
GroupCrash ==
    /\ geBoot = "run" /\ \E n \in GeNets : geTask[n].pc # "idle"
    /\ geBoot' = "recover"
    /\ geTask' = [n \in GeNets |-> GeIdle]
    /\ geEdges' = {} /\ gePeers' = {} /\ geOwners' = {}
    /\ geEntry' = 0
    /\ geState' = <<>>
    /\ UNCHANGED <<geOn, geXfrm, geLink, geHalf, geSpoilt, geLeft>>

\* policy::recover deletes every link of the groups, filters included ...
GroupRecover ==
    /\ geBoot = "recover"
    /\ geBoot' = "purge"
    /\ geLink' = <<>> /\ geHalf' = FALSE /\ geOn' = {}
    /\ UNCHANGED <<geTask, geEdges, gePeers, keyVars, geEntry, geState, geSpoilt>>

\* ... and cleanup_network the associations after them.
GroupPurge ==
    /\ geBoot = "purge"
    /\ geBoot' = "run"
    /\ geXfrm' = {} /\ geLeft' = {} /\ geSpoilt' = FALSE
    /\ UNCHANGED <<geTask, geEdges, geOn, gePeers, geOwners, carrierVars>>

GroupNext ==
    \/ \E n \in GeNets :
        \/ GetCarrier(n) \/ RecordVni(n) \/ FinishOperation(n)
        \/ GroupSetup(n) \/ EnteredCarrier(n) \/ GroupUndone(n) \/ GroupReady(n)
        \/ GroupRetired(n)
        \/ \E ok \in BOOLEAN :
            \/ LeaveCarrier(n, ok) \/ ChangeVni(n, ok) \/ DropIfEmpty(n, ok)
            \/ GroupRetire(n, ok) \/ RemoveKeys(n, ok)
        \/ \E res \in Results : EnterCarrier(n, res) \/ GroupPeer(n, res) \/ InsertRules(n, res)
    \/ GroupCrash \/ GroupRecover \/ GroupPurge

GroupSpec == GroupInit /\ [][GroupNext]_geVars

-----------------------------------------------------------------------------

\* The device of a carrier is always found through Engine.carriers: a handler
\* that held on to a carrier taken out of the map would create a device behind
\* it, and every later setup would fail on its name.  (Every later setup does
\* fail while a device that was half made and could not be deleted, geHalf, has
\* the name, until a new process; such a one never stands beside a carrier's.)
CarrierFindable ==
    geBoot = "run" => \A a \in DOMAIN geLink : geLink[a].up => geEntry # 0 /\ geState[geEntry] = a /\ ~geHalf

\* outgoing(), the classifier: the rule is there and enabled.  (That the
\* heartbeat's deadline has not passed is one more condition.)
Forwards(n) == n \in geOn

\* A network that is set up, or whose packets are forwarded, has its membership
\* in the device and its associations, whatever other networks of the carrier
\* join, leave or fail to at that time, and while a new process takes over.
MemberIsCarried ==
    \A n \in GeNets : geTask[n].pc = "up" \/ Forwards(n) =>
        n \in geXfrm /\ \E a \in DOMAIN geLink : geLink[a].up /\ n \in geLink[a].vnis

\* When no handler runs and none has failed to remove something, the device is
\* there only for networks on record: the last to leave takes it along, even
\* if all leave at once or a setup fails while others leave.
NoIdleCarrier ==
    (\A n \in GeNets : geTask[n].pc \in {"idle", "up"}) /\ ~geSpoilt /\ geBoot = "run" =>
        \A a \in DOMAIN geLink : geLink[a].up => geLink[a].vnis # {} /\ geLink[a].vnis \subseteq geEdges

\* Associations in the kernel belong to a network on record or to a handler at
\* work; a retirement that failed keeps its edge for another try.  The setups
\* that failed and did not, or could not, take back what they had installed
\* (geLeft) are the exception: theirs stay without an owner until a new process
\* purges them, and never come to serve a later network of that id.
KeysAreOwned ==
    geBoot = "run" =>
        /\ \A n \in geXfrm \ geLeft : n \in geEdges \/ geTask[n].pc \notin {"idle", "failed", "stuck"}
        /\ geLeft \cap geEdges = {}

\* A shared device exists, findable, as long as a network uses it, and every
\* key of the maps has an owner (policy.rs).
CarriersMatchMembers == CarrierFindable /\ MemberIsCarried /\ NoIdleCarrier /\ KeysAreOwned
=============================================================================
