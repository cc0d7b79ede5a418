---------------------------- MODULE MC_Constant ----------------------------
(* Constant on streams of up to 3 elements drawn from two values, of the  *)
(* serial width and two struct widths.                                     *)
EXTENDS Constant

CONSTANTS v1, v2

MCVals == {v1, v2}

=============================================================================
