----------------------------- MODULE MC_Pipeline -----------------------------
(* The delta-zigzag-bitpack chain on streams of up to 4 one- or two-byte   *)
(* elements, chosen so that deltas wrap below 0 and zigzag to small codes. *)
EXTENDS Pipeline

MCModulus(w) == 2^(8 * (IF w > 3 THEN 3 ELSE w))
MCHighBit(v) == Cardinality({k \in 1..23 : 2^k <= v})
=============================================================================
