--------------------------- MODULE MC_Interleave ---------------------------
(***************************************************************************)
(* TLC instance of Interleave: ZL_INTERLEAVE_MAX_INPUTS scaled down to 2, *)
(* so that three inputs exceed it.                                          *)
(***************************************************************************)
EXTENDS Interleave

MCMaxInputs == 2

=============================================================================
