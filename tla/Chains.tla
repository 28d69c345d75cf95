------------------------------- MODULE Chains -------------------------------
(***************************************************************************)
(* Ingress chains.  A proxy client that asks for the entry service gets a  *)
(* network to one of its replicas, and every branch of the service's       *)
(* proxy_deps is brought up from that replica, hop by hop.  A hop is an    *)
(* edge between two replicas; many clients share it, counting in its       *)
(* active_chains.  Requests build concurrently, wait for one another's     *)
(* reservations, fail and unwind, while sessions time out, are torn down   *)
(* by the operator, and proxies and replicas come and go.                  *)
(*                                                                         *)
(* Source: proxy_request_locked, run_net_chain_setup and setup_edge in     *)
(* nullnet_grpc_impl.rs, services/changes.rs, services/service_info.rs,    *)
(* services/clients.rs.  The services map is behind one lock: an action is *)
(* what the code does while it holds it.  A network is a number never used *)
(* again: how ids are reused is OverlayNets' subject.                      *)
(*                                                                         *)
(* An operator placed just before the definition it varies is a faulty     *)
(* variant, kept to show that a property notices the fault.                *)
(***************************************************************************)
EXTENDS Integers, Sequences, FiniteSets, FiniteSetsExt, SequencesExt

CONSTANTS
    EntryService,   (* the service proxies ask for                          *)
    Replicas,       (* replicas that may register                           *)
    ServiceOf,      (* replica -> its service                               *)
    ProxyClients,   (* external clients                                     *)
    Deployments,    (* configurations, and what happens to them             *)
    MaxNets         (* bound: networks ever built                           *)

ChangeKinds == {"force", "timeout", "proxy", "replica"}

ASSUME ChainsAssumption ==
    /\ MaxNets \in Nat
    /\ \A d \in Deployments : /\ d.maxNetworks \in Nat /\ d.maxChanges \in Nat
                               /\ d.interrupts \subseteq ChangeKinds

VARIABLES
    up,         (* registered replicas                                      *)
    topo,       (* the client entries of the services map, and the networks *)
                (* they stand for                                           *)
    job,        (* proxy client -> the request it is being served by        *)
    took,       (* history: proxy client -> the edges its finished chain    *)
                (* counts in                                                *)
    nextNet,    (* next network                                             *)
    changes,    (* teardowns and replica changes so far                     *)
    deployment  (* the deployment of this behaviour; it never changes       *)

\* proxy_deps of the entry service, a sequence of sequences of services; the
\* proxy each client comes through; max_networks of the service where reaching
\* it makes clients share (not on encrypted VXLAN), 0 if none.
Branches    == deployment.branches
ProxyOf     == deployment.proxyOf
MaxNetworks == deployment.maxNetworks

\* Bound: teardowns and replica changes.  Kinds of change that may hit a chain
\* being built.
MaxChanges == deployment.maxChanges
Interrupts == deployment.interrupts

vars == <<up, topo, job, took, nextNet, changes>>

Services == {ServiceOf[r] : r \in Replicas}
Strands  == 0..Len(Branches)          \* strand 0 is the entry edge
Keys     == [client : ProxyClients \cup Replicas, svc : Services]

Key(c, s) == [client |-> c, svc |-> s]
EntryKey(p) == Key(p, EntryService)

\* A ClientInfo.  `by' is the reservation: the strand that builds the edge.
NoEntry == [at |-> "none", net |-> 0, refs |-> 0, by |-> <<>>]
Reservation(r, p, i) == [at |-> r, net |-> 0, refs |-> 1, by |-> <<p, i>>]

Present(t, k) == t.entry[k] # NoEntry
Pending(t, k) == Present(t, k) /\ t.entry[k].by # <<>>
Live(t, k)    == Present(t, k) /\ t.entry[k].by = <<>>

Registered(s) == \E r \in up : ServiceOf[r] = s
ClientsAt(t, r) == {k \in Keys : t.entry[k].at = r}

\* pick_replica_least_clients: one with the fewest client entries.
LeastLoaded(s) ==
    LET rs == {r \in up : ServiceOf[r] = s} IN
    {r \in rs : \A q \in rs : Cardinality(ClientsAt(topo, r)) <= Cardinality(ClientsAt(topo, q))}

-----------------------------------------------------------------------------
(***************************************************************************)
(* Operations on the services map.                                         *)
(***************************************************************************)
Put(t, k, e) == [t EXCEPT !.entry[k] = e]
Drop(t, k) == Put(t, k, NoEntry)

\* send_net_teardown of a network.
TearNet(t, n) == [t EXCEPT !.nets = @ \ {n}]

add_chain(t, k) == [t EXCEPT !.entry[k].refs = @ + 1]

\* decrement_chain.  A reservation's count belongs to the task that builds it.
DecrementToZero(t, k) ==
    IF ~Live(t, k) THEN t
    ELSE IF t.entry[k].refs > 0 THEN [t EXCEPT !.entry[k].refs = @ - 1]
    ELSE TearNet(Drop(t, k), t.entry[k].net)

decrement_chain(t, k) ==
    IF ~Live(t, k) THEN t
    ELSE IF t.entry[k].refs > 1 THEN [t EXCEPT !.entry[k].refs = @ - 1]
    ELSE TearNet(Drop(t, k), t.entry[k].net)

DecrementAll(t, ks) == FoldLeft(decrement_chain, t, ks)

\* collect_dep_chain_edges: every branch from the given replica of the entry
\* service; a branch ends at the first hop that is not live, which is still
\* emitted.
BranchEdges(t, r, deps) ==
    LET Step(acc, s) ==
          IF acc.root = "none" THEN acc
          ELSE LET k == Key(acc.root, s) IN
               [edges |-> Append(acc.edges, k),
                root  |-> IF Live(t, k) THEN t.entry[k].at ELSE "none"]
    IN FoldLeft(Step, [edges |-> <<>>, root |-> r], deps).edges

collect_dep_chain_edges(t, r) ==
    FlattenSeq([b \in 1..Len(Branches) |-> BranchEdges(t, r, Branches[b])])

dep_chain_intact(t, r) ==
    \A i \in DOMAIN collect_dep_chain_edges(t, r) : Live(t, collect_dep_chain_edges(t, r)[i])

dep_chain_has_pending(t, r) ==
    \E i \in DOMAIN collect_dep_chain_edges(t, r) : Pending(t, collect_dep_chain_edges(t, r)[i])

\* teardown_chain for the proxy clients ps, all live: hand back each one's
\* walk, then remove the clients, then tear down every network none of the
\* remaining clients of the service shares.
TeardownSharedNetsToo(t, ps) ==
    LET walked  == FoldSet(LAMBDA p, s : DecrementAll(s, collect_dep_chain_edges(s, t.entry[EntryKey(p)].at)), t, ps)
        removed == FoldSet(LAMBDA p, s : Drop(s, EntryKey(p)), walked, ps)
    IN FoldSet(LAMBDA p, s : TearNet(s, t.entry[EntryKey(p)].net), removed, ps)

CheckSharingFirst(t, ps) ==
    LET walked  == FoldSet(LAMBDA p, s : DecrementAll(s, collect_dep_chain_edges(s, t.entry[EntryKey(p)].at)), t, ps)
        removed == FoldSet(LAMBDA p, s : Drop(s, EntryKey(p)), walked, ps)
        nets    == {t.entry[EntryKey(p)].net : p \in ps}
        unshared == {n \in nets : \A k \in Keys : walked.entry[k].net # n}
    IN FoldSet(LAMBDA n, s : TearNet(s, n), removed, unshared)

teardown_chain(t, ps) ==
    LET walked  == FoldSet(LAMBDA p, s : DecrementAll(s, collect_dep_chain_edges(s, t.entry[EntryKey(p)].at)), t, ps)
        removed == FoldSet(LAMBDA p, s : Drop(s, EntryKey(p)), walked, ps)
        nets    == {t.entry[EntryKey(p)].net : p \in ps}
        unshared == {n \in nets : \A k \in Keys : removed.entry[k].net # n}
    IN FoldSet(LAMBDA n, s : TearNet(s, n), removed, unshared)

LiveClients(t) == {p \in ProxyClients : Live(t, EntryKey(p))}

\* The replicas rs leave the map with every client entry they hold.
DropReplicas(t, rs) ==
    [t EXCEPT !.entry = [k \in Keys |-> IF @[k].at \in rs THEN NoEntry ELSE @[k]]]

-----------------------------------------------------------------------------
(***************************************************************************)
(* A request: handle_proxy_request serialises the requests of one client.  *)
(***************************************************************************)
IdleJob == [pc |-> "idle", attempt |-> 0, strand |-> <<>>, won |-> {}]

\* The service may have clients share a network: look for one first.
Setup == IF MaxNetworks > 0 THEN "reuse" ELSE "pick"

Init ==
    /\ up = Replicas
    /\ topo = [entry |-> [k \in Keys |-> NoEntry], nets |-> {}]
    /\ job = [p \in ProxyClients |-> IdleJob]
    /\ took = [p \in ProxyClients |-> {}]
    /\ nextNet = 1
    /\ changes = 0
    /\ deployment \in Deployments

\* A client with an intact chain is answered at once.  One whose chain is not
\* intact any more is evicted and built anew; so is one without a network.
Request(p) ==
    /\ job[p].pc = "idle"
    /\ LET k == EntryKey(p) IN
       \/ /\ Live(topo, k)
          /\ ~dep_chain_intact(topo, topo.entry[k].at)
          /\ job' = [job EXCEPT ![p].pc = "evict"]
       \/ /\ ~Live(topo, k)
          /\ job' = [job EXCEPT ![p].pc = Setup]
    /\ UNCHANGED <<up, topo, took, nextNet, changes>>

\* StaleSessionEvicted, under the write lock; the session may be gone already.
Evict(p) ==
    /\ job[p].pc = "evict"
    /\ topo' = teardown_chain(topo, {p} \cap LiveClients(topo))
    /\ took' = [took EXCEPT ![p] = {}]
    /\ job' = [job EXCEPT ![p].pc = Setup]
    /\ UNCHANGED <<up, nextNet, changes>>

\* max_networks reached: join the least used network of the same proxy and
\* count in the hops that exist now.
Shareable(p) ==
    {n \in topo.nets : \E q \in LiveClients(topo) :
        topo.entry[EntryKey(q)].net = n /\ ProxyOf[q] = ProxyOf[p]}
Users(n) == Cardinality({q \in LiveClients(topo) : topo.entry[EntryKey(q)].net = n})
SharesNetwork(p) ==
    /\ Cardinality({q \in ProxyClients : Present(topo, EntryKey(q))}) >= MaxNetworks
    /\ Shareable(p) # {}

ShareNetwork(p) ==
    /\ job[p].pc = "reuse"
    /\ SharesNetwork(p)
    /\ \E n \in Shareable(p) :
          /\ \A m \in Shareable(p) : Users(n) < Users(m) \/ (Users(n) = Users(m) /\ n <= m)
          /\ LET q == CHOOSE x \in LiveClients(topo) : topo.entry[EntryKey(x)].net = n
                 r == topo.entry[EntryKey(q)].at
                 ks == SelectSeq(collect_dep_chain_edges(topo, r), LAMBDA k : Present(topo, k))
                 joined == Put(topo, EntryKey(p), [at |-> r, net |-> n, refs |-> 1, by |-> <<>>])
             IN /\ topo' = FoldLeft(add_chain, joined, ks)
                /\ took' = [took EXCEPT ![p] =
                      {[client |-> ks[i].client, svc |-> ks[i].svc, strand |-> i, hop |-> 0,
                        net |-> topo.entry[ks[i]].net] : i \in DOMAIN ks}
                      \cup {[client |-> p, svc |-> EntryService, strand |-> 0, hop |-> 0, net |-> n]}]
    /\ job' = [job EXCEPT ![p] = IdleJob]
    /\ UNCHANGED <<up, nextNet, changes>>

NoReuse(p) ==
    /\ job[p].pc = "reuse"
    /\ ~SharesNetwork(p)
    /\ job' = [job EXCEPT ![p].pc = "pick"]
    /\ UNCHANGED <<up, topo, took, nextNet, changes>>

\* pick_proxy_replica, then every branch and the entry edge at once.
StartBuild(p) ==
    /\ job[p].pc = "pick"
    /\ IF ~Registered(EntryService)
       THEN job' = [job EXCEPT ![p] = IdleJob]
       ELSE \E r \in LeastLoaded(EntryService) :
              job' = [job EXCEPT ![p] =
                        [pc |-> "building", attempt |-> @.attempt + 1, won |-> {},
                         strand |-> [i \in Strands |->
                                       [st |-> IF i > 0 /\ Branches[i] = <<>> THEN "ok" ELSE "claim",
                                        hop |-> 1, root |-> r]]]]
    /\ UNCHANGED <<up, topo, took, nextNet, changes>>

Hop(p, i) ==
    LET s == job[p].strand[i] IN
    IF i = 0 THEN EntryKey(p) ELSE Key(s.root, Branches[i][s.hop])

\* The strand's edge is there, on replica r: go on to the next hop.
Won(p, i, n, r) ==
    LET s == job[p].strand[i]
        last == i = 0 \/ s.hop = Len(Branches[i]) IN
    job' = [job EXCEPT
              ![p].won = @ \cup {[client |-> Hop(p, i).client, svc |-> Hop(p, i).svc,
                                  strand |-> i, hop |-> s.hop, net |-> n]},
              ![p].strand[i] = [st |-> IF last THEN "ok" ELSE "claim",
                                hop |-> IF last THEN s.hop ELSE s.hop + 1, root |-> r]]

Failed(p, i) == job' = [job EXCEPT ![p].strand[i].st = "failed"]

Building(p, i, st) == job[p].pc = "building" /\ job[p].strand[i].st = st

\* EdgeTarget::resolve: the replica picked with the chain for the entry edge,
\* the least loaded one for a dependency.
Targets(p, i) ==
    IF i = 0 THEN {job[p].strand[0].root} \cap up ELSE LeastLoaded(Hop(p, i).svc)

\* setup_edge, the claim: take a count of a live edge ...
ClaimLiveUncounted(p, i) ==
    /\ Building(p, i, "claim")
    /\ Live(topo, Hop(p, i))
    /\ Won(p, i, topo.entry[Hop(p, i)].net, topo.entry[Hop(p, i)].at)
    /\ UNCHANGED <<up, topo, took, nextNet, changes>>

ClaimLive(p, i) ==
    /\ Building(p, i, "claim")
    /\ Live(topo, Hop(p, i))
    /\ topo' = add_chain(topo, Hop(p, i))
    /\ Won(p, i, topo.entry[Hop(p, i)].net, topo.entry[Hop(p, i)].at)
    /\ UNCHANGED <<up, took, nextNet, changes>>

\* ... or reserve it, choosing the replica in the same pass ...
ClaimReserve(p, i) ==
    /\ Building(p, i, "claim")
    /\ ~Present(topo, Hop(p, i))
    /\ \E r \in Targets(p, i) :
          topo' = Put(topo, Hop(p, i), Reservation(r, p, i))
    /\ job' = [job EXCEPT ![p].strand[i].st = "hold"]
    /\ UNCHANGED <<up, took, nextNet, changes>>

\* ... or fail: the service or the replica is gone, or the wait for somebody
\* else's reservation took longer than EDGE_CLAIM_TIMEOUT.
ClaimNeverTimesOut(p, i) ==
    /\ Building(p, i, "claim")
    /\ ~Present(topo, Hop(p, i))
    /\ Targets(p, i) = {}
    /\ Failed(p, i)
    /\ UNCHANGED <<up, topo, took, nextNet, changes>>

ClaimFails(p, i) ==
    /\ Building(p, i, "claim")
    /\ \/ Pending(topo, Hop(p, i))
       \/ ~Present(topo, Hop(p, i)) /\ Targets(p, i) = {}
    /\ Failed(p, i)
    /\ UNCHANGED <<up, topo, took, nextNet, changes>>

Mine(p, i) == topo.entry[Hop(p, i)].by = <<p, i>>

\* The network is up on both ends; the reservation becomes a live edge that
\* keeps its count, unless it is no longer this strand's.
PromoteCountsAgain(p, i) ==
    /\ Building(p, i, "hold")
    /\ nextNet <= MaxNets
    /\ Mine(p, i)
    /\ LET e == topo.entry[Hop(p, i)] IN
       /\ topo' = [Put(topo, Hop(p, i), [e EXCEPT !.by = <<>>, !.net = nextNet, !.refs = @ + 1])
                     EXCEPT !.nets = @ \cup {nextNet}]
       /\ Won(p, i, nextNet, e.at)
    /\ nextNet' = nextNet + 1
    /\ UNCHANGED <<up, took, changes>>

Promote(p, i) ==
    /\ Building(p, i, "hold")
    /\ nextNet <= MaxNets
    /\ Mine(p, i)
    /\ LET e == topo.entry[Hop(p, i)] IN
       /\ topo' = [Put(topo, Hop(p, i), [e EXCEPT !.by = <<>>, !.net = nextNet])
                     EXCEPT !.nets = @ \cup {nextNet}]
       /\ Won(p, i, nextNet, e.at)
    /\ nextNet' = nextNet + 1
    /\ UNCHANGED <<up, took, changes>>

\* The edge did not come up (no id, an endpoint failed, a resume failed), or
\* it came up after the reservation was lost and is taken down again.
BuildFails(p, i) ==
    /\ Building(p, i, "hold")
    /\ topo' = IF Mine(p, i) THEN Drop(topo, Hop(p, i)) ELSE topo
    /\ Failed(p, i)
    /\ UNCHANGED <<up, took, nextNet, changes>>

Settled(p) ==
    /\ job[p].pc = "building"
    /\ \A i \in Strands : job[p].strand[i].st \in {"ok", "failed"}
AnyFailure(p) == \E i \in Strands : job[p].strand[i].st = "failed"

\* The client entry that owns the chain is gone.
Orphaned(p) ==
    (\E w \in job[p].won : w.strand = 0) /\ ~Live(topo, EntryKey(p))

\* Hand back every edge of the chain that is still the network it won.
StillWon(t, w) == Live(t, Key(w.client, w.svc)) /\ t.entry[Key(w.client, w.svc)].net = w.net

Unwound(t, won) ==
    FoldSet(LAMBDA w, s : IF StillWon(s, w) THEN decrement_chain(s, Key(w.client, w.svc)) ELSE s,
            t, won)

FinishWithoutUnwinding(p) ==
    /\ Settled(p)
    /\ AnyFailure(p) \/ Orphaned(p)
    /\ job' = [job EXCEPT ![p] = IdleJob]
    /\ UNCHANGED <<up, topo, took, nextNet, changes>>

FinishFailed(p) ==
    /\ Settled(p)
    /\ AnyFailure(p) \/ Orphaned(p)
    /\ topo' = Unwound(topo, job[p].won)
    /\ job' = [job EXCEPT ![p] = IF ~AnyFailure(p) /\ @.attempt = 1
                                 THEN [IdleJob EXCEPT !.pc = "pick", !.attempt = 1]
                                 ELSE IdleJob]
    /\ UNCHANGED <<up, took, nextNet, changes>>

FinishBuilt(p) ==
    /\ Settled(p)
    /\ ~AnyFailure(p) /\ ~Orphaned(p)
    /\ took' = [took EXCEPT ![p] = job[p].won]
    /\ job' = [job EXCEPT ![p] = IdleJob]
    /\ UNCHANGED <<up, topo, nextNet, changes>>

-----------------------------------------------------------------------------
(***************************************************************************)
(* What happens to chains from outside.                                    *)
(***************************************************************************)
Hits(kind, ps) == kind \in Interrupts \/ \A p \in ps : job[p].pc = "idle"

TeardownSessions(ps) ==
    /\ topo' = teardown_chain(topo, ps)
    /\ took' = [p \in ProxyClients |-> IF p \in ps THEN {} ELSE took[p]]
    /\ changes < MaxChanges
    /\ changes' = changes + 1
    /\ UNCHANGED <<up, job, nextNet>>

\* ForceSessionTeardown, by the operator.
ForceTeardown(p) ==
    /\ p \in LiveClients(topo)
    /\ Hits("force", {p})
    /\ TeardownSessions({p})

\* ProxyClientTimedOut: checked again under the lock, and never while a hop of
\* the chain is being built.
TimedOut(p) ==
    /\ p \in LiveClients(topo)
    /\ ~dep_chain_has_pending(topo, topo.entry[EntryKey(p)].at)
    /\ Hits("timeout", {p})
    /\ TeardownSessions({p})

\* ProxyDisconnected: the sessions that came through one proxy.
ProxyDisconnected(x) ==
    LET ps == {p \in LiveClients(topo) : ProxyOf[p] = x} IN
    /\ ps # {}
    /\ Hits("proxy", {p \in ProxyClients : ProxyOf[p] = x})
    /\ TeardownSessions(ps)

\* teardown_invalidated_service: a service without replicas takes every session
\* of the services that depend on it with it.
SessionsOfDependents(s) ==
    IF s = EntryService \/ \E b \in 1..Len(Branches) : s \in ToSet(Branches[b])
    THEN LiveClients(topo) ELSE {}

\* teardown_partial_replicas: the sessions on the gone replica, and those on a
\* replica that has a live edge to it.
SessionsThrough(r) ==
    LET s == ServiceOf[r]
        sources == {q \in Replicas : ServiceOf[q] = EntryService /\ Live(topo, Key(q, s))
                                       /\ topo.entry[Key(q, s)].at = r}
    IN {p \in LiveClients(topo) : topo.entry[EntryKey(p)].at \in sources \cup {r}}

\* ReplicaRemoved.
RemoveReplica(r) ==
    LET last == \A q \in up : ServiceOf[q] = ServiceOf[r] => q = r
        hit == IF last THEN SessionsOfDependents(ServiceOf[r]) ELSE SessionsThrough(r)
    IN
    /\ r \in up
    /\ Hits("replica", ProxyClients)
    /\ changes < MaxChanges
    /\ changes' = changes + 1
    /\ up' = up \ {r}
    /\ topo' = DropReplicas(teardown_chain(topo, hit), {r})
    /\ took' = [p \in ProxyClients |-> IF p \in hit THEN {} ELSE took[p]]
    /\ UNCHANGED <<job, nextNet>>

AddReplica(r) ==
    /\ r \notin up
    /\ up' = up \cup {r}
    /\ UNCHANGED <<topo, job, took, nextNet, changes>>

-----------------------------------------------------------------------------
Serve(p) ==
    \/ Request(p) \/ Evict(p) \/ ShareNetwork(p) \/ NoReuse(p) \/ StartBuild(p)
    \/ FinishFailed(p) \/ FinishBuilt(p)
    \/ \E i \in Strands : \/ ClaimLive(p, i) \/ ClaimReserve(p, i) \/ ClaimFails(p, i)
                          \/ Promote(p, i) \/ BuildFails(p, i)

Change ==
    \/ \E p \in ProxyClients : ForceTeardown(p) \/ TimedOut(p)
    \/ \E x \in {ProxyOf[p] : p \in ProxyClients} : ProxyDisconnected(x)
    \/ \E r \in Replicas : RemoveReplica(r) \/ AddReplica(r)

Next == (\E p \in ProxyClients : Serve(p)) \/ Change

Spec == Init /\ [][Next /\ UNCHANGED deployment]_<<vars, deployment>>

\* A detached task is never abandoned: once a request has started, each of its
\* steps is taken.  Nobody has to send a request or change the topology.
Progress(p) ==
    \/ Evict(p) \/ ShareNetwork(p) \/ NoReuse(p) \/ StartBuild(p) \/ FinishFailed(p) \/ FinishBuilt(p)
    \/ \E i \in Strands : \/ ClaimLive(p, i) \/ ClaimReserve(p, i) \/ ClaimFails(p, i)
                          \/ Promote(p, i) \/ BuildFails(p, i)

FairSpec == Spec /\ \A p \in ProxyClients : WF_vars(Progress(p))

-----------------------------------------------------------------------------
(***************************************************************************)
(* Properties.                                                             *)
(***************************************************************************)
Claims == [client : ProxyClients \cup Replicas, svc : Services, strand : Nat,
           hop : Nat, net : 0..MaxNets]

\* The services map and the chains under way are what the code can hold: a
\* live edge is counted at least once, and a hop is within its branch.
TypeOK ==
    /\ up \subseteq Replicas
    /\ \A k \in Keys : topo.entry[k] # NoEntry =>
          /\ topo.entry[k].at \in up
          /\ topo.entry[k].refs \in Nat \ {0}
          /\ topo.entry[k].net = 0 <=> topo.entry[k].by # <<>>
    /\ topo.nets \subseteq 1..(nextNet - 1)
    /\ nextNet \in 1..(MaxNets + 1)
    /\ changes \in 0..MaxChanges
    /\ \A p \in ProxyClients :
          /\ job[p].pc \in {"idle", "evict", "reuse", "pick", "building"}
          /\ job[p].attempt \in 0..2
          /\ took[p] \cup job[p].won \subseteq Claims

\* Every network that stands is the network of some client entry: whatever
\* setup_edge, the unwind of run_net_chain_setup and teardown_chain do, none is
\* left up on the hosts with nothing in the services map to tear it down.
NoStrandedNet ==
    \A n \in topo.nets : \E k \in Keys : Live(topo, k) /\ topo.entry[k].net = n

\* The network of every client entry stands: a session that joined another
\* client's network (max_networks) is not left on one that decrement_chain or
\* teardown_chain took down because of that other client.
LiveEntryHasNet ==
    \A k \in Keys : Live(topo, k) => topo.entry[k].net \in topo.nets

\* A session whose request has been answered keeps every edge its chain
\* counted in until it is torn down itself: no teardown, unwind or eviction of
\* another chain spends its counts in active_chains.
HolderKeepsEdge ==
    \A p \in ProxyClients :
        job[p].pc = "idle" /\ Live(topo, EntryKey(p)) =>
            \A w \in took[p] : StillWon(topo, w)

\* When nobody is served and nothing is being built, no edge is left: every
\* count that setup_edge took was handed back, by the teardown walk or by the
\* unwind of a chain that failed or lost its owner.
NothingLeftBehind ==
    (\A p \in ProxyClients : job[p].pc = "idle" /\ ~Present(topo, EntryKey(p))) =>
        \A k \in Keys : ~Present(topo, k)

\* active_chains of a built dependency edge is the number of chains, finished
\* or being built, that took a count of it.
Holders(k) ==
    {<<p, w>> \in ProxyClients \X UNION {took[p] \cup job[p].won : p \in ProxyClients} :
        /\ w \in took[p] \cup job[p].won
        /\ Key(w.client, w.svc) = k /\ w.net = topo.entry[k].net}

RefsMatchHolders ==
    \A k \in Keys : Live(topo, k) /\ k.client \in Replicas =>
        topo.entry[k].refs = Cardinality(Holders(k))

\* Every request that started is answered, with an upstream or an error: the
\* chains never wait for each other's reservations for ever.
RequestsReturn ==
    \A p \in ProxyClients : job[p].pc # "idle" ~> job[p].pc = "idle"

\* active_chains counts exactly the chains that took an edge, so a session
\* keeps its edges whatever others do (setup_edge, decrement_chain).
HoldersAreCounted == TypeOK /\ HolderKeepsEdge /\ RefsMatchHolders

\* A network stands exactly as long as an entry of the services map names it,
\* and when everyone is gone nothing is left (setup_edge, teardown_chain, the
\* unwind of run_net_chain_setup).
NothingStranded == NoStrandedNet /\ LiveEntryHasNet /\ NothingLeftBehind
=============================================================================
