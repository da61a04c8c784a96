------------------------ MODULE MCAttestedTransport ------------------------
(***************************************************************************)
(* Values for the constants of AttestedTransport: two versions of a tool,  *)
(* an undeclared workload and one without a quote; two sets that each      *)
(* admit one version.                                                      *)
(***************************************************************************)
EXTENDS AttestedTransport, TLC

CONSTANTS h1, h2, v1, v2, rogue, fake, toolApp, otherApp, c1, c2, c3, r1, r2

MCBuilds == {v1, v2, rogue, fake}
MCTwoBuilds == {v1, v2}
MCSets == {NoDeps, toolApp :> {v1}, toolApp :> {v2}}
MCTwoSets == {NoDeps, toolApp :> {v1}}
MCAppOf == [b \in Builds |-> IF b = rogue THEN otherApp ELSE toolApp]

\* main.go sets no ExpectedDigests.
MCNoPins == NoDeps

\* A host with a granted digest (v1's), for the contract of the package.
MCPins == h2 :> {v1}

Slots == Permutations(Conns) \cup Permutations(Reqs)
=============================================================================
