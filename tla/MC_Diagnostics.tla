--------------------------- MODULE MC_Diagnostics ---------------------------
(***************************************************************************)
(* TLC instance of Diagnostics: three concurrent invocations.  Nothing in  *)
(* the model tells the invocations apart except their inputs, so the      *)
(* permutations of Procs are a sound symmetry.                             *)
(***************************************************************************)
EXTENDS Diagnostics, TLC

CONSTANTS p1, p2, p3

MCProcs == {p1, p2, p3}

MCSymmetry == Permutations(MCProcs)

=============================================================================
