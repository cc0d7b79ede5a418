---------------------------- MODULE MC_RangePack ----------------------------
(* RangePack on streams of up to 2 elements.  Modulus is capped at 2^24   *)
(* for widths 4 and 8, and HighBit at 23 bits, so that TLC's integers do  *)
(* not overflow; the values used are below 2^24.                          *)
EXTENDS RangePack

MCModulus(w) == 2^(8 * (IF w > 3 THEN 3 ELSE w))

MCHighBit(v) == Cardinality({k \in 1..23 : 2^k <= v})

ASSUME MCValsBelow24Bits == \A v \in Vals : v < 2^24
=============================================================================
