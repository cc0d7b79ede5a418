------------------------------ MODULE Varint ------------------------------
(***************************************************************************)
(* ZL_varintEncode (openzl/shared/varint.h, not in this repository), the  *)
(* header encoder of EI_constant_typed: LEB128, seven bits per byte,      *)
(* least significant group first, the high bit set on every byte but the  *)
(* last.  Modelled from spec.md 4.7, with its decoder as the reference.   *)
(***************************************************************************)
EXTENDS Naturals, Sequences

(* The 7-bit groups of v, least significant first: q[i] is v >> (7 * i).  *)
VarintGroups(v) ==
    LET q[i \in 0..10] == IF i = 0 THEN v ELSE q[i - 1] \div 128 IN q

(* The number of bytes of the varint of v: 1 + the index of its highest   *)
(* non-zero 7-bit group.                                                   *)
VarintLength(v) ==
    CHOOSE len \in 1..10 :
        /\ VarintGroups(v)[len] = 0
        /\ \A j \in 1..(len - 1) : VarintGroups(v)[j] # 0

(* ZL_varintEncode: LEB128, the high bit set on every byte but the last.  *)
VarintEncode(v) ==
    [i \in 1..VarintLength(v) |->
        (VarintGroups(v)[i - 1] % 128) + (IF i < VarintLength(v) THEN 128 ELSE 0)]

(* The varint decoder: the value of the 7-bit groups up to the first byte *)
(* without the continuation bit.                                           *)
VarintDecode(bytes) ==
    LET val[k \in 0..Len(bytes)] ==
            IF k = 0 THEN 0 ELSE val[k - 1] * 128 + (bytes[Len(bytes) - k + 1] % 128)
    IN  val[Len(bytes)]
VarintWellFormed(bytes) ==
    /\ Len(bytes) >= 1
    /\ \A i \in 1..Len(bytes) : bytes[i] \in 0..255
    /\ \A i \in 1..Len(bytes) : (bytes[i] >= 128) <=> (i < Len(bytes))

=============================================================================
