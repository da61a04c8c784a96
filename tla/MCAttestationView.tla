------------------------- MODULE MCAttestationView -------------------------
(***************************************************************************)
(* AttestationView for TLC: the tools of the fleet are interchangeable.    *)
(***************************************************************************)
EXTENDS AttestationView, TLC

Symmetry == Permutations(Tools)
=============================================================================
