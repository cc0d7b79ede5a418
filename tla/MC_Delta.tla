------------------------------ MODULE MC_Delta ------------------------------
(* Delta on streams of up to 3 elements of every width, versions 12 and  *)
(* 13.  Modulus is capped at 2^24 so that TLC's integers do not overflow; *)
(* the values used are below 2^24.                                         *)
EXTENDS Delta

MCModulus(w) == 2^(8 * (IF w > 3 THEN 3 ELSE w))

ASSUME MCValsBelow24Bits == \A v \in Vals : v < 2^24
=============================================================================
