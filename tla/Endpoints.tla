----------------------------- MODULE Endpoints -----------------------------
(***************************************************************************)
(* The life of a tunnel endpoint on a client (commands/vxlan.rs), with the *)
(* worker that deletes links in batches (vxlan_cleanup.rs), the ownership  *)
(* of the host pair's IPsec associations (native_xfrm.rs) and the recovery *)
(* of a new process (vxlan_recovery.rs, native_xfrm::purge).               *)
(*                                                                         *)
(* "remote": the endpoints belong to different networks to one peer host   *)
(* and share its IPsec transport.  "local": they are the two sides of one  *)
(* network on this host, share its lock and the veth pair between them.    *)
(* Every request to the kernel may fail, a batch of them half way.         *)
(***************************************************************************)
EXTENDS Naturals, FiniteSets

CONSTANT EpSides
ASSUME EpAssumption == \E a, b \in EpSides : a # b /\ EpSides = {a, b}

VARIABLES epMode,
          epStep,      \* what the task of the endpoint does
          epLinks,     \* endpoints' links in the kernel: <<"outer", e>>, <<"transport", e>>
          epUp,        \* endpoints whose transport is up
          epKnown,     \* ENDPOINTS
          epActive,    \* classifier, addresses and routes in place (not retired)
          epOwners,    \* owners of the peer's associations (PEERS and EDGES)
          epXfrm,      \* subset of {"in", "state", "out"}: policies and states in the kernel
          epQueue,     \* requests waiting for the cleanup worker
          epBatch,     \* the batch it works on: endpoints, those left to do, result
          epBoot,      \* "run", or the stage of a new process
          epHalf       \* history: a removal of associations failed half way

epVars == <<epMode, epStep, epLinks, epUp, epKnown, epActive, epOwners, epXfrm, epQueue, epBatch, epBoot, epHalf>>

OtherSide(e) == CHOOSE o \in EpSides : o # e
LocalPair == epMode = "local"
NoBatch == [reqs |-> {}, left |-> {}, ok |-> TRUE]
EpLocked == {"created", "keyed", "undo", "dying", "removing", "unknown"}

EndpointsInit ==
    /\ epMode \in {"local", "remote"}
    /\ epStep = [e \in EpSides |-> "none"]
    /\ epLinks = {} /\ epUp = {} /\ epKnown = {} /\ epActive = {} /\ epOwners = {} /\ epXfrm = {} /\ epQueue = {}
    /\ epBatch = NoBatch
    /\ epBoot = "run"
    /\ epHalf = FALSE

EpGoto(e, to) == epStep' = [epStep EXCEPT ![e] = to]

\* VXLAN_LOCKS: one lock per network, held by setup, readiness and teardown.
LockFree(e) == ~LocalPair \/ epStep[OtherSide(e)] \notin EpLocked

outerLink(e) == <<"outer", e>>
transportLink(e) == <<"transport", e>>
LinkGroup(e) == {outerLink(e), transportLink(e)}

\* Deleting one end of a veth pair deletes the other.
EpWithout(links) ==
    LET ends == {e \in EpSides : transportLink(e) \in links}
    IN  epLinks \ (links \cup (IF LocalPair /\ ends # {} THEN {transportLink(e) : e \in EpSides} ELSE {}))

\* A link that goes takes its state with it.
LinksGone(links) ==
    /\ epLinks' = EpWithout(links)
    /\ epUp' = {e \in epUp : transportLink(e) \in EpWithout(links)}

xfrmVars == <<epOwners, epXfrm, epHalf>>
workerVars == <<epQueue, epBatch>>

-----------------------------------------------------------------------------
(* Setup *)

\* endpoint_tc::install: the classifier that admits the endpoint's traffic.
Classified(e, ok) == IF ok THEN epActive \cup {e} ELSE epActive

\* retire_batch: the classifier revoked, addresses and routes removed.
Retire(es) == epActive' = epActive \ es

SetupStarts(e) == epBoot = "run" /\ epStep[e] = "none" /\ LockFree(e)

\* The record of an endpoint, made once everything of it was created.
RecordEndpoint(e, ok) == epKnown' = IF ok THEN epKnown \cup {e} ELSE epKnown

\* create_endpoint: the links, then the classifier; an existing transport pair
\* is used only if the other side is known.
CreateEndpoint(e, ok) ==
    /\ SetupStarts(e)
    /\ \E made \in SUBSET LinkGroup(e) :
        LET pair == LocalPair /\ transportLink(e) \in epLinks
            mine == IF LocalPair /\ transportLink(e) \in made THEN made \cup {transportLink(OtherSide(e))} ELSE made
        IN  /\ ok => made = LinkGroup(e) /\ (pair => OtherSide(e) \in epKnown)
            /\ epLinks' = epLinks \cup mine
    /\ epActive' = Classified(e, ok)
    /\ RecordEndpoint(e, ok)
    /\ EpGoto(e, IF ok THEN "created" ELSE "undo")
    /\ UNCHANGED <<epMode, epUp, xfrmVars, workerVars, epBoot>>

\* Variant: the filter forgets that only a local network's sides retire together.
RetirementsOfAll(e) == EpSides

\* The retirements of an endpoint: in a local network, of both its sides.
Retirements(e) == IF LocalPair THEN EpSides ELSE {e}

\* destroy_links: what a failed creation made, and the other side's duties.
DestroyLinks(e, ok) ==
    /\ epStep[e] = "undo"
    /\ Retire(Retirements(e) \cap epKnown)
    /\ IF ok THEN LinksGone(LinkGroup(e)) ELSE UNCHANGED <<epLinks, epUp>>
    /\ EpGoto(e, "failed")
    /\ UNCHANGED <<epMode, epKnown, xfrmVars, workerVars, epBoot>>

\* transport_owned_by: associations are shared by the networks of a host pair.
FirstOfTransport(e) == epOwners \ {e} = {}

\* The policies and states of a host pair.
Associations == {"in", "state", "out"}

\* install_port, under the lock of the owners; states that exist are refused.
InstallXfrm(e, ok) ==
    /\ IF ~FirstOfTransport(e)
       THEN ok /\ UNCHANGED epXfrm
       ELSE IF ok THEN "state" \notin epXfrm /\ epXfrm' = Associations
       ELSE \E part \in SUBSET (Associations \ {"in"}) :
                /\ part # {"state", "out"} \/ "state" \in epXfrm
                /\ epXfrm' = ((epXfrm \cup part) \ {"in"})
    /\ epOwners' = IF ok THEN epOwners \cup {e} ELSE epOwners
    /\ UNCHANGED epHalf

\* activate: keys before anything is up.
InstallKeys(e, ok) ==
    /\ epStep[e] = "created"
    /\ IF LocalPair THEN UNCHANGED xfrmVars ELSE InstallXfrm(e, ok)
    /\ EpGoto(e, IF ok THEN "keyed" ELSE "dying")
    /\ UNCHANGED <<epMode, epLinks, epUp, epKnown, epActive, workerVars, epBoot>>

\* add_address, set_up; a link that vanished cannot come up.
SetUp(e) == IF transportLink(e) \in epLinks THEN epUp \cup {e} ELSE epUp

\* Addresses, links up, routes, synchronize; a failure may come after the link is up.
Activate(e, ok) ==
    /\ epStep[e] = "keyed"
    /\ ok => LinkGroup(e) \subseteq epLinks
    /\ \E up \in {ok, TRUE} : epUp' = IF up THEN SetUp(e) ELSE epUp
    /\ EpGoto(e, IF ok THEN "up" ELSE "dying")
    /\ UNCHANGED <<epMode, epLinks, epKnown, epActive, xfrmVars, workerVars, epBoot>>

\* Without a failed setup the network comes up; it may be torn down at any time.
TeardownEndpoint(e) ==
    /\ epBoot = "run" /\ epStep[e] \in {"up", "failed"} /\ LockFree(e)
    /\ EpGoto(e, IF e \in epKnown THEN "removing" ELSE "unknown")
    /\ UNCHANGED <<epMode, epLinks, epUp, epKnown, epActive, xfrmVars, workerVars, epBoot>>

\* A failed creation left no record: retire the other side, delete the group.
RetireOther(e) == Retire(IF epStep[e] = "unknown" /\ LocalPair THEN epKnown ELSE {})

\* destroy_endpoint, teardown: the request goes to the worker.
EnqueueCleanup(e) ==
    /\ epStep[e] \in {"dying", "removing", "unknown"}
    /\ e \notin epQueue \cup epBatch.reqs
    /\ RetireOther(e)
    /\ epQueue' = epQueue \cup {e}
    /\ UNCHANGED <<epMode, epStep, epLinks, epUp, epKnown, xfrmVars, epBatch, epBoot>>

-----------------------------------------------------------------------------
(* The cleanup worker *)

\* retire_batch, then remove_groups; associations only if the links are gone.
RemoveGroups(ok) ==
    \E b \in SUBSET epQueue, kept \in SUBSET epLinks :
        /\ b # {} /\ epBatch = NoBatch
        /\ ok <=> kept = {}
        /\ kept \subseteq UNION {LinkGroup(e) : e \in b}
        /\ LinksGone(UNION {LinkGroup(e) : e \in b} \ kept)
        /\ Retire(epKnown \cap UNION {Retirements(e) : e \in b \cap epKnown})
        /\ epQueue' = epQueue \ b
        /\ epBatch' = [reqs |-> b, left |-> IF ok /\ ~LocalPair THEN b ELSE {}, ok |-> ok]
        /\ UNCHANGED <<epMode, epStep, epKnown, xfrmVars, epBoot>>

\* Variant: the first to leave takes the associations with it.
LastOfTransportAlways(e) == TRUE

LastOfTransport(e) == epOwners \ {e} = {}

\* native_xfrm::remove; after an error the owner stays, whatever was deleted.
RemoveXfrm(e, ok) ==
    /\ e \in epBatch.left
    /\ IF e \notin epOwners THEN ok /\ UNCHANGED xfrmVars
       ELSE IF ok THEN /\ epXfrm' = IF LastOfTransport(e) THEN {} ELSE epXfrm
                       /\ epOwners' = epOwners \ {e}
                       /\ UNCHANGED epHalf
       ELSE /\ LastOfTransport(e)
            /\ \E rest \in SUBSET epXfrm : rest # {} /\ epXfrm' = rest
            /\ epHalf' = (epHalf \/ epXfrm' # epXfrm)
            /\ UNCHANGED epOwners
    /\ epBatch' = [epBatch EXCEPT !.left = @ \ {e}, !.ok = @ /\ ok]
    /\ UNCHANGED <<epMode, epStep, epLinks, epUp, epKnown, epActive, epQueue, epBoot>>

\* Variant: the batch answers before its associations are removed.
BatchDoneEarly == epBatch.reqs # {}

BatchDone == epBatch.reqs # {} /\ epBatch.left = {}

AfterCleanup(e, ok) ==
    IF epStep[e] = "dying" THEN "failed" ELSE IF ok THEN "gone" ELSE "stuck"

\* clear_flows_batch, of the endpoints whose links are gone; its error, like one
\* of a retirement, fails every request of the batch.
ClearFlows(ok) == epBatch.ok /\ ok

\* Flows are cleared, then every request of the batch gets the same answer.
RespondBatch(flows_ok) ==
    /\ BatchDone
    /\ LET ok == ClearFlows(flows_ok)
       IN  /\ epStep' = [e \in EpSides |-> IF e \in epBatch.reqs THEN AfterCleanup(e, ok) ELSE epStep[e]]
           /\ epKnown' = IF ok THEN epKnown \ epBatch.reqs ELSE epKnown
    /\ epBatch' = NoBatch
    /\ UNCHANGED <<epMode, epLinks, epUp, epActive, xfrmVars, epQueue, epBoot>>

\* The id is free again.
ReuseEndpoint(e) ==
    /\ epStep[e] = "gone" /\ (LocalPair => epStep[OtherSide(e)] \in {"gone", "none"})
    /\ EpGoto(e, "none")
    /\ UNCHANGED <<epMode, epLinks, epUp, epKnown, epActive, xfrmVars, workerVars, epBoot>>

-----------------------------------------------------------------------------
(* A new process *)

CrashEndpoints ==
    /\ epBoot = "run" /\ (epLinks # {} \/ epXfrm # {})
    /\ epBoot' = "links"
    /\ epStep' = [e \in EpSides |-> "none"]
    /\ epKnown' = {} /\ epActive' = {} /\ epOwners' = {} /\ epQueue' = {} /\ epBatch' = NoBatch
    /\ UNCHANGED <<epMode, epLinks, epUp, epXfrm, epHalf>>

\* vxlan_recovery::recover: every link that looks like ours.
RecoverLinks ==
    /\ epBoot = "links"
    /\ epLinks' = {} /\ epUp' = {}
    /\ epBoot' = IF epXfrm = {} THEN "run" ELSE "xfrm"
    /\ UNCHANGED <<epMode, epStep, epKnown, epActive, xfrmVars, workerVars>>

\* native_xfrm::purge, purge_stale_xfrm.
PurgeXfrm ==
    /\ epBoot = "xfrm"
    /\ epXfrm' = {} /\ epHalf' = FALSE
    /\ epBoot' = IF epLinks = {} THEN "run" ELSE "links"
    /\ UNCHANGED <<epMode, epStep, epLinks, epUp, epKnown, epActive, epOwners, workerVars>>

EndpointsNext ==
    \/ \E e \in EpSides : \/ TeardownEndpoint(e) \/ EnqueueCleanup(e) \/ ReuseEndpoint(e)
                          \/ \E ok \in BOOLEAN : CreateEndpoint(e, ok) \/ DestroyLinks(e, ok) \/ InstallKeys(e, ok) \/ Activate(e, ok) \/ RemoveXfrm(e, ok)
    \/ \E ok \in BOOLEAN : RemoveGroups(ok) \/ RespondBatch(ok)
    \/ CrashEndpoints \/ RecoverLinks \/ PurgeXfrm

EndpointsSpec == EndpointsInit /\ [][EndpointsNext]_epVars

-----------------------------------------------------------------------------

\* A remote tunnel that is up has its policy and its states: keys are installed
\* before the link comes up, links are deleted before the keys, the last owner
\* of the host pair removes them, and a new process clears links first.  It does
\* not cover networks set up after a removal failed half way: the owner stays
\* on record, so native_xfrm::install_port believes the associations are there.
EncryptedWhileUp == ~LocalPair /\ epUp # {} /\ ~epHalf => {"state", "out"} \subseteq epXfrm

\* The answers to a network's teardowns free its id: no link, record, classifier
\* or association of its endpoints is left, although one answer serves a batch.
AnsweredIsGone ==
    \A e \in EpSides : epStep[e] = "gone" /\ (LocalPair => epStep[OtherSide(e)] \in {"none", "gone"}) =>
        e \notin epKnown \cup epActive \cup epOwners /\ LinkGroup(e) \cap epLinks = {}

\* A network that is set up keeps its links and its duties while others on this
\* host fail to be set up, are torn down or are deleted in batches.
UpStands ==
    \A e \in EpSides : ~LocalPair /\ epStep[e] = "up" =>
        LinkGroup(e) \subseteq epLinks /\ e \in epActive \cap epUp \cap epOwners

\* An endpoint that is up stands and is encrypted; one whose deletion was
\* answered is gone (vxlan.rs, vxlan_cleanup.rs, native_xfrm.rs).
EndpointsStandOrGo == EncryptedWhileUp /\ AnsweredIsGone /\ UpStands
=============================================================================
