----------------------------- MODULE MCServices -----------------------------
(***************************************************************************)
(* The services map under changes that come at any time: the chains of its *)
(* sessions while changes hit builds, and its replicas under reports,      *)
(* reloads and disconnects.  `part' says which of the two a behaviour is about. *)
(***************************************************************************)
EXTENDS MCChains, Registrations

VARIABLE part

\* A service of containers, and two of processes that it depends on one after
\* the other or calls by a trigger.
Entry(key, host, port, listen, deps, triggers, public) ==
    [key |-> key, host |-> host, port |-> port, listen |-> listen, deps |-> deps,
     reachable |-> public, triggers |-> triggers]
Db == Entry("bin", "any", 1, 0, {}, {}, FALSE)
Web(host, port, deps) == Entry("img", host, port, port, deps, {"db"}, TRUE)
MCRgKey == [u \in RgUnits |-> IF u = "proc" THEN "bin" ELSE "img"]
MCRgConfigs == {[web |-> Web("any", 1, {<<"db", "log">>}), db |-> Db, log |-> Db],
                [web |-> Web("n1", 2, {}), db |-> Db], [db |-> Db]}
MCRgAtStart ==
    {[config  |-> [web |-> Web("any", 1, {<<"db", "log">>}), db |-> Db, log |-> Db],
      running |-> [n1 |-> {"c1", "proc"}, n2 |-> {"proc"}]]}

\* Only the part a behaviour is about chooses its initial state.
MCInit ==
    /\ part \in {"chains", "registrations"}
    /\ Init /\ (part = "chains" \/ deployment = CHOOSE d \in Deployments : TRUE)
    /\ RegistrationsInit

MCNext ==
    /\ \/ part = "chains" /\ Next /\ UNCHANGED deployment
          /\ UNCHANGED <<rgVars>>
       \/ part = "registrations" /\ RegistrationsNext
          /\ UNCHANGED <<vars, deployment>>
    /\ UNCHANGED part

MCSpec == MCInit /\ [][MCNext]_<<vars, deployment, rgVars, part>>
=============================================================================
