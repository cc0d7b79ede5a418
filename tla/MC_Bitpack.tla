----------------------------- MODULE MC_Bitpack -----------------------------
(***************************************************************************)
(* Bitpack on small inputs.  TLC's integers stop at 2^31 - 1, so the cfg  *)
(* replaces Modulus and HighBit by versions that agree with them on every *)
(* value below 2^24, and the assumption below keeps all values there.      *)
(***************************************************************************)
EXTENDS Bitpack

MCModulus(w) == 2^(8 * (IF w > 3 THEN 3 ELSE w))
MCHighBit(v) == Cardinality({k \in 1..23 : 2^k <= v})

ASSUME MCValsBelow24Bits == \A v \in Vals : v < 2^24
=============================================================================
