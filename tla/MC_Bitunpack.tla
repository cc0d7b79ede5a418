---------------------------- MODULE MC_Bitunpack ----------------------------
(***************************************************************************)
(* Bitunpack on sources of up to MaxBytes bytes.  Fields are then at most *)
(* 8 * MaxBytes < 31 bits wide, so the cfg may replace Modulus by a       *)
(* version that TLC can compute and that agrees with it on those values.   *)
(***************************************************************************)
EXTENDS Bitunpack

MCModulus(w) == 2^(8 * (IF w > 3 THEN 3 ELSE w))

ASSUME MCFieldsBelow24Bits == MaxBytes <= 3
=============================================================================
