------------------------------ MODULE MCChains ------------------------------
(***************************************************************************)
(* Instances of Chains: entry service A with dependencies B and C.         *)
(***************************************************************************)
EXTENDS Chains

CONSTANTS p1, p2, x1, x2, a1, a2, b1, c1, c2

\* A alone, with two branches, with one of two hops, with two branches
\* that share their first hop.
NoBranch  == <<>>
Fork      == <<<<"B">>, <<"C">>>>
Deep      == <<<<"B", "C">>>>
SharedHop == <<<<"B">>, <<"B", "C">>>>

Single   == {a1, b1, c1}
TwoDeep  == {a1, b1, c1, c2}
Mapped(r) == IF r \in {a1, a2} THEN "A" ELSE IF r = b1 THEN "B" ELSE "C"
Served == [r \in Replicas |-> Mapped(r)]

OneProxy == [p \in ProxyClients |-> x1]
TwoProxies == [p \in ProxyClients |-> IF p = p1 THEN x1 ELSE x2]

Deployed(branches, proxyOf, maxNetworks, maxChanges, interrupts) ==
    [branches |-> branches, proxyOf |-> proxyOf, maxNetworks |-> maxNetworks,
     maxChanges |-> maxChanges, interrupts |-> interrupts]

Overlapping == {Deployed(SharedHop, TwoProxies, 0, 1, {})}
TwoHops     == {Deployed(Deep, TwoProxies, 0, 1, {})}

\* Changes that hit builds, and clients that share networks.
HitOrShared == {Deployed(Fork, TwoProxies, 0, 2, {"force", "timeout", "proxy"}),
                Deployed(NoBranch, OneProxy, 1, 3, {})}
=============================================================================
