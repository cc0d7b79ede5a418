----------------------------- MODULE MC_Zigzag -----------------------------
(* Zigzag on streams of up to 2 elements.  Modulus is capped at 2^24 for   *)
(* widths 4 and 8 so that TLC's integers do not overflow; the values used *)
(* include both sides of the sign boundary of every width.                *)
EXTENDS Zigzag

MCModulus(w) == 2^(8 * (IF w > 3 THEN 3 ELSE w))

ASSUME MCValsBelow24Bits == \A v \in Vals : v < 2^24
=============================================================================
