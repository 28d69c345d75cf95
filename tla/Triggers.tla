------------------------------ MODULE Triggers ------------------------------
(***************************************************************************)
(* How a client holds the first packet of a container towards a trigger    *)
(* port until the overlay that carries it is up: TriggersState             *)
(* (triggers.rs), the packet handlers of the backend queue                 *)
(* (nfqueue/listener.rs) and the parts of the VxlanSetup, NetReady and     *)
(* VxlanTeardown handlers (control_channel.rs) that touch the same state.  *)
(*                                                                         *)
(* A key is a (container, port) pair; a packet is handled by one task of   *)
(* its own.  A Notify is named by the packet whose claim created it.  The  *)
(* server is the environment: it answers triggers and sends the commands   *)
(* of each network in order; commands of different networks run in any     *)
(* order.                                                                  *)
(***************************************************************************)
EXTENDS Naturals, FiniteSets, Sequences

CONSTANTS TrContainers, TrPorts, TrPackets, TrNets, TrNone,
          TrOwners,    \* port -> sequence of [service, containers]
          TrPermits    \* HANDLER_CONCURRENCY

ASSUME TrAssumption ==
    /\ TrPermits \in Nat \ {0}
    /\ TrNone \notin TrPackets \cup TrNets \cup (TrContainers \X TrPorts)
    /\ TrPackets \cap TrNets = {}

VARIABLES trEntry,    \* by_key: the lifecycle entry of each key
          trPacket,   \* the task of each packet
          trWoken,    \* packets whose registered Notified future has fired
          trServer,   \* the network the server holds for each key
          trNet,      \* what this host has done for each network
          trCmds,     \* commands of each network not yet executed
          trRules,    \* DNAT rules in the kernel: [net, scoped]
          trPast      \* history: what the properties need to remember

trVars == <<trEntry, trPacket, trWoken, trServer, trNet, trCmds, trRules, trPast>>

TrKeys == TrContainers \X TrPorts
Tokens == TrPackets \cup TrNets \cup {TrNone}
Notify(e, n) == IF e.st = "none" THEN n ELSE e.token   \* kept, or new with the setup of n

NoEntry == [st |-> "none", token |-> TrNone, aged |-> FALSE, ready |-> FALSE, net |-> TrNone]
PendingEntry(p) == [NoEntry EXCEPT !.st = "pending", !.token = p]

\* The service whose trigger a container fires on a port: an owner that lists
\* the container, else one that lists none.
OwnerFor(c, port) ==
    LET owners == TrOwners[port]
        named  == SelectSeq(owners, LAMBDA o : c \in o.containers)
        open   == SelectSeq(owners, LAMBDA o : o.containers = {})
    IN  IF named # <<>> THEN Head(named).service
        ELSE IF open # <<>> THEN Head(open).service ELSE TrNone

Active(k) == trEntry[k].st = "installed" /\ trEntry[k].ready
InFlight == {p \in TrPackets : trPacket[p].pc \notin {"new", "accept", "drop"}}

TriggersInit ==
    /\ trEntry = [k \in TrKeys |-> NoEntry]
    /\ trPacket = [p \in TrPackets |-> [pc |-> "new", key |-> TrNone, starts |-> FALSE, token |-> TrNone]]
    /\ trWoken = {}
    /\ trServer = [k \in TrKeys |-> TrNone]
    /\ trNet = [n \in TrNets |-> [st |-> "unused", key |-> TrNone]]
    /\ trCmds = [n \in TrNets |-> <<>>]
    /\ trRules = {}
    /\ trPast = [forgotten |-> {}, ready |-> {}, lost |-> {}, replaced |-> {}]

-----------------------------------------------------------------------------
(* The packet handler *)

Verdict(p, v) == trPacket' = [trPacket EXCEPT ![p].pc = v]

\* claim: elect one sender, or join the setup in flight.
Claim(p, k) ==
    LET e == trEntry[k]
        joins == e.st = "installed" \/ (e.st = "pending" /\ ~e.aged)
    IN  IF Active(k)
        THEN trPacket' = [trPacket EXCEPT ![p] = [pc |-> "accept", key |-> k, starts |-> FALSE, token |-> TrNone]]
             /\ UNCHANGED trEntry
        ELSE /\ trPacket' = [trPacket EXCEPT ![p] =
                    [pc |-> "claimed", key |-> k, starts |-> ~joins, token |-> IF joins THEN e.token ELSE p]]
             /\ trEntry' = IF joins THEN trEntry ELSE [trEntry EXCEPT ![k] = PendingEntry(p)]

\* handle_packet up to the claim.
Packet(p, c, port) ==
    /\ trPacket[p].pc = "new"
    /\ Cardinality(InFlight) < TrPermits
    /\ IF OwnerFor(c, port) = TrNone
       THEN Verdict(p, "accept") /\ UNCHANGED trEntry
       ELSE Claim(p, <<c, port>>)
    /\ UNCHANGED <<trWoken, trServer, trNet, trCmds, trRules, trPast>>

\* notified.enable(): from here notify_waiters reaches this packet.
Register(p) ==
    /\ trPacket[p].pc = "claimed"
    /\ Verdict(p, "registered")
    /\ UNCHANGED <<trEntry, trWoken, trServer, trNet, trCmds, trRules, trPast>>

\* Faulty variant: waits without looking at the state again.
CheckNothing(p) ==
    /\ trPacket[p].pc = "registered"
    /\ Verdict(p, IF trPacket[p].starts THEN "calling" ELSE "waiting")
    /\ UNCHANGED <<trEntry, trWoken, trServer, trNet, trCmds, trRules, trPast>>

\* The readiness check that follows registration.
CheckReady(p) ==
    /\ trPacket[p].pc = "registered"
    /\ Verdict(p, IF p \in trWoken \/ Active(trPacket[p].key) THEN "accept"
                  ELSE IF trPacket[p].starts THEN "calling" ELSE "waiting")
    /\ UNCHANGED <<trEntry, trWoken, trServer, trNet, trCmds, trRules, trPast>>

\* timeout(ACTIVE_TIMEOUT, notified): the notification arrives, or the wait ends.
WaitEnds(p) ==
    /\ trPacket[p].pc \in {"waiting", "answered"}
    /\ \/ p \in trWoken /\ Verdict(p, "accept")
       \/ p \notin trWoken /\ Verdict(p, "drop")
    /\ UNCHANGED <<trEntry, trWoken, trServer, trNet, trCmds, trRules, trPast>>

\* backend_trigger returns Ok.
TriggerAnswered(p) ==
    /\ trPacket[p].pc = "calling"
    /\ Verdict(p, "answered")
    /\ UNCHANGED <<trEntry, trWoken, trServer, trNet, trCmds, trRules, trPast>>

OwnClaim(p) == LET e == trEntry[trPacket[p].key] IN e.st = "pending" /\ e.token = p

\* Faulty variant: drops whatever claim stands.
ForgetAnyPending(p) ==
    IF trEntry[trPacket[p].key].st = "pending"
    THEN /\ trEntry' = [trEntry EXCEPT ![trPacket[p].key] = NoEntry]
         /\ trPast' = [trPast EXCEPT !.forgotten = @ \cup {p}]
    ELSE UNCHANGED <<trEntry, trPast>>

\* forget_pending: only the caller's own claim.
ForgetPending(p) ==
    IF OwnClaim(p)
    THEN /\ trEntry' = [trEntry EXCEPT ![trPacket[p].key] = NoEntry]
         /\ trPast' = [trPast EXCEPT !.forgotten = @ \cup {p}]
    ELSE UNCHANGED <<trEntry, trPast>>

\* backend_trigger returns Err: after_failed_trigger.
TriggerFailed(p) ==
    /\ trPacket[p].pc = "calling"
    /\ ForgetPending(p)
    /\ Verdict(p, IF Active(trPacket[p].key) THEN "accept" ELSE "drop")
    /\ UNCHANGED <<trWoken, trServer, trNet, trCmds, trRules>>

\* Faulty variant: the timed-out caller takes its claim back.
TriggerTimeoutForgets(p) ==
    /\ trPacket[p].pc = "calling"
    /\ trEntry' = IF OwnClaim(p) THEN [trEntry EXCEPT ![trPacket[p].key] = NoEntry] ELSE trEntry
    /\ Verdict(p, IF Active(trPacket[p].key) THEN "accept" ELSE "drop")
    /\ UNCHANGED <<trWoken, trServer, trNet, trCmds, trRules, trPast>>

\* TRIGGER_TIMEOUT passes: the claim stays, so that the late setup finds its
\* container address.
TriggerTimeout(p) ==
    /\ trPacket[p].pc = "calling"
    /\ Verdict(p, IF Active(trPacket[p].key) THEN "accept" ELSE "drop")
    /\ UNCHANGED <<trEntry, trWoken, trServer, trNet, trCmds, trRules, trPast>>

\* PENDING_TIMEOUT (35 s) passes; the claimer's call (30 s) is over by then.
PendingAges(k) ==
    /\ trEntry[k].st = "pending" /\ ~trEntry[k].aged
    /\ trPacket[trEntry[k].token].pc \notin {"claimed", "registered", "calling"}
    /\ trEntry' = [trEntry EXCEPT ![k].aged = TRUE]
    /\ UNCHANGED <<trPacket, trWoken, trServer, trNet, trCmds, trRules, trPast>>

-----------------------------------------------------------------------------
(* The server, as seen from here *)

\* A trigger starts a chain when the server holds none for the key.
ServerBuilds(k, n) ==
    /\ \E p \in TrPackets : trPacket[p].pc = "calling" /\ trPacket[p].key = k
    /\ trServer[k] = TrNone /\ trNet[n].st = "unused"
    /\ trServer' = [trServer EXCEPT ![k] = n]
    /\ trNet' = [trNet EXCEPT ![n] = [st |-> "told", key |-> k]]
    /\ trCmds' = [trCmds EXCEPT ![n] = <<"setup">>]
    /\ UNCHANGED <<trEntry, trPacket, trWoken, trRules, trPast>>

\* Both ends acknowledged their setup.
ServerReady(n) ==
    /\ trNet[n].st = "prepared" /\ trServer[trNet[n].key] = n
    /\ trNet' = [trNet EXCEPT ![n].st = "released"]
    /\ trCmds' = [trCmds EXCEPT ![n] = Append(@, "ready")]
    /\ UNCHANGED <<trEntry, trPacket, trWoken, trServer, trRules, trPast>>

\* A rollback, a reap or a withdrawn replica.
ServerTearsDown(k) ==
    /\ trServer[k] # TrNone
    /\ trServer' = [trServer EXCEPT ![k] = TrNone]
    /\ trCmds' = [trCmds EXCEPT ![trServer[k]] = Append(@, "teardown")]
    /\ UNCHANGED <<trEntry, trPacket, trWoken, trNet, trRules, trPast>>

-----------------------------------------------------------------------------
(* The commands of one network *)

Next1(n, c) == trCmds[n] # <<>> /\ Head(trCmds[n]) = c

\* handle_vxlan_setup: the tunnel comes up, then dnat::install scopes the rule
\* to the container address the claim carries, if there is a claim.
SetupInstalls(n) ==
    /\ Next1(n, "setup") /\ trNet[n].st = "told"
    /\ trRules' = trRules \cup {[net |-> n, scoped |-> trEntry[trNet[n].key].st # "none"]}
    /\ trNet' = [trNet EXCEPT ![n].st = "installing"]
    /\ UNCHANGED <<trEntry, trPacket, trWoken, trServer, trCmds, trPast>>

\* vxlan::setup fails: nothing of the trigger was touched, no acknowledgement.
SetupFails(n) ==
    /\ Next1(n, "setup") /\ trNet[n].st = "told"
    /\ trNet' = [trNet EXCEPT ![n].st = "failed"]
    /\ trCmds' = [trCmds EXCEPT ![n] = Tail(@)]
    /\ UNCHANGED <<trEntry, trPacket, trWoken, trServer, trRules, trPast>>

\* Faulty variant: wakes the held packets as soon as local steering is in.
PreparedAwake(n) ==
    LET k == trNet[n].key
        old == trEntry[k]
    IN  /\ trEntry' = [trEntry EXCEPT ![k] =
              [st |-> "installed", token |-> Notify(old, n), aged |-> FALSE, ready |-> TRUE, net |-> n]]
        /\ trWoken' = trWoken \cup {p \in TrPackets : trPacket[p].pc \notin {"new", "claimed"} /\ trPacket[p].token = old.token}
        /\ trPast' = trPast

\* mark_prepared: the entry is replaced, the Notify it held is kept.
MarkPrepared(n) ==
    LET k == trNet[n].key
        old == trEntry[k]
    IN  /\ trEntry' = [trEntry EXCEPT ![k] =
              [st |-> "installed", token |-> Notify(old, n), aged |-> FALSE, ready |-> FALSE, net |-> n]]
        /\ trWoken' = trWoken
        /\ trPast' = IF old.st = "installed" THEN [trPast EXCEPT !.replaced = @ \cup {old.net}] ELSE trPast

\* Both outcomes of dnat::install record the steering; only success is acked.
SetupEnds(n) ==
    /\ trNet[n].st = "installing"
    /\ MarkPrepared(n)
    /\ \E outcome \in {"prepared", "failed"} : trNet' = [trNet EXCEPT ![n].st = outcome]
    /\ trCmds' = [trCmds EXCEPT ![n] = Tail(@)]
    /\ UNCHANGED <<trPacket, trServer, trRules>>

Installed(n) == {k \in TrKeys : trEntry[k].st = "installed" /\ trEntry[k].net = n}

\* Faulty variant: releases the key without looking for its steering.
ReadyUnchecked(n) ==
    /\ Next1(n, "ready")
    /\ trEntry' = [trEntry EXCEPT ![trNet[n].key].ready = TRUE]
    /\ trCmds' = [trCmds EXCEPT ![n] = Tail(@)]
    /\ UNCHANGED <<trPacket, trWoken, trServer, trNet, trRules, trPast>>

\* mark_ready: the entry of this network, and every registered waiter of it.
ReadyExecuted(n) ==
    /\ Next1(n, "ready")
    /\ trEntry' = [k \in TrKeys |-> IF k \in Installed(n) THEN [trEntry[k] EXCEPT !.ready = TRUE] ELSE trEntry[k]]
    /\ trWoken' = trWoken \cup {p \in TrPackets : /\ trPacket[p].pc \notin {"new", "claimed"}
                                                  /\ \E k \in Installed(n) : trEntry[k].token = trPacket[p].token}
    /\ trPast' = [trPast EXCEPT !.ready = @ \cup Installed(n)]
    /\ trCmds' = [trCmds EXCEPT ![n] = Tail(@)]
    /\ UNCHANGED <<trPacket, trServer, trNet, trRules>>

\* Faulty variant: forgets the steering before its rule is gone.
TeardownKeepsRule(n) ==
    /\ Next1(n, "teardown")
    /\ trEntry' = [k \in TrKeys |-> IF k \in Installed(n) THEN NoEntry ELSE trEntry[k]]
    /\ trNet' = [trNet EXCEPT ![n].st = "torn"]
    /\ trCmds' = [trCmds EXCEPT ![n] = Tail(@)]
    /\ UNCHANGED <<trPacket, trWoken, trServer, trRules, trPast>>

\* handle_vxlan_teardown: remove_by_vxlan names the rule to delete; the
\* acknowledgement is sent only if the deletion worked.
TeardownExecuted(n) ==
    /\ Next1(n, "teardown")
    /\ \E removed \in BOOLEAN :
         /\ trRules' = IF removed /\ Installed(n) # {} THEN {r \in trRules : r.net # n} ELSE trRules
         /\ trNet' = [trNet EXCEPT ![n].st = IF removed \/ Installed(n) = {} THEN "torn" ELSE "stuck"]
    /\ trEntry' = [k \in TrKeys |-> IF k \in Installed(n) THEN NoEntry ELSE trEntry[k]]
    /\ trPast' = [trPast EXCEPT !.lost = @ \cup {p \in TrPackets : trPacket[p].key \in Installed(n)}]
    /\ trCmds' = [trCmds EXCEPT ![n] = Tail(@)]
    /\ UNCHANGED <<trPacket, trWoken, trServer>>

TriggersNext ==
    \/ \E p \in TrPackets, c \in TrContainers, port \in TrPorts : Packet(p, c, port)
    \/ \E p \in TrPackets : \/ Register(p) \/ CheckReady(p) \/ WaitEnds(p)
                            \/ TriggerAnswered(p) \/ TriggerFailed(p) \/ TriggerTimeout(p)
    \/ \E k \in TrKeys : PendingAges(k) \/ ServerTearsDown(k)
    \/ \E k \in TrKeys, n \in TrNets : ServerBuilds(k, n)
    \/ \E n \in TrNets : \/ ServerReady(n) \/ SetupInstalls(n) \/ SetupFails(n) \/ SetupEnds(n)
                         \/ ReadyExecuted(n) \/ TeardownExecuted(n)

TriggersSpec == TriggersInit /\ [][TriggersNext]_trVars

-----------------------------------------------------------------------------
(* Properties *)

\* Every entry carries the Notify of the packet that claimed it, or of a setup
\* that found none, and only installed entries are ready.
TriggersTypeOK ==
    /\ \A k \in TrKeys :
         /\ trEntry[k].st \in {"none", "pending", "installed"}
         /\ trEntry[k].token \in Tokens
         /\ trEntry[k].ready => trEntry[k].st = "installed"
         /\ trEntry[k].st = "pending" => trEntry[k].token \in TrPackets
         /\ trServer[k] \in TrNets \cup {TrNone}
    /\ trWoken \subseteq TrPackets
    /\ \A r \in trRules : r.net \in TrNets /\ r.scoped \in BOOLEAN

\* NetReady may come at any point of a handler's life, also between its claim
\* and its registration: a packet never waits on a setup that is already ready
\* without having been woken (decide_verdict registers before it checks).
NoLostWakeup ==
    \A p \in TrPackets :
        trPacket[p].pc \in {"waiting", "calling", "answered"} /\ p \notin trWoken
            => ~(Active(trPacket[p].key) /\ trEntry[trPacket[p].key].token = trPacket[p].token)

\* A packet of a watched key is let go only once a NetReady of the key has come,
\* that is after both ends acknowledged: the first packets never go into an
\* overlay that is only half installed.  (Of a key that was ready before, torn
\* down and claimed again, it says no more than that; NoLostWakeup goes by claim.)
NoPacketBeforeReady ==
    \A p \in TrPackets :
        trPacket[p].pc = "accept" /\ trPacket[p].key # TrNone => trPacket[p].key \in trPast.ready

\* A claim is taken away from a caller only by the teardown of its network:
\* another caller's failure never erases it (forget_pending compares owners).
ClaimStands ==
    \A p \in TrPackets :
        /\ trPacket[p].pc \in {"registered", "calling"} /\ trPacket[p].starts
        /\ p \notin trPast.lost
        => trEntry[trPacket[p].key].st # "none" /\ trEntry[trPacket[p].key].token = p

\* A rule without a source filter catches the port for every container of the
\* host.  It is installed only when a caller's failed RPC erased the claim, or
\* a teardown did: slow setups and timed-out calls keep their address.
UnscopedOnlyAfterForget ==
    \A r \in trRules :
        ~r.scoped => \E p \in trPast.forgotten \cup trPast.lost : trPacket[p].key = trNet[r.net].key

\* A network whose teardown was acknowledged has left no DNAT rule, unless the
\* setup of a later network had taken over its entry.
TornDownLeavesNoRule ==
    \A n \in TrNets : trNet[n].st = "torn" /\ n \notin trPast.replaced
                        => \A r \in trRules : r.net # n

\* A held packet never sleeps through the NetReady of its claim, and none is let
\* go before the first NetReady of its key (listener.rs, triggers.rs).
HeldPacketsWake == NoLostWakeup /\ NoPacketBeforeReady

\* A DNAT rule belongs to the claim that asked for it and goes with its
\* network (triggers.rs, handle_vxlan_setup, handle_vxlan_teardown).
RulesFollowClaims ==
    /\ TriggersTypeOK
    /\ ClaimStands
    /\ UnscopedOnlyAfterForget
    /\ TornDownLeavesNoRule
=============================================================================
