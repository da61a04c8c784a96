------------------------ MODULE MCAttestationSummary ------------------------
(***************************************************************************)
(* Values for the constants of AttestationSummary: two non-empty sets.     *)
(***************************************************************************)
EXTENDS AttestationSummary, TLC

CONSTANTS v1, v2, toolApp

MCSets == {NoDeps, toolApp :> {v1}, toolApp :> {v2}}
MCAppOf == [b \in Builds |-> toolApp]
=============================================================================
