---------------------------- MODULE ConstantProofs ----------------------------
(***************************************************************************)
(* Proofs about EI_constant_typed (Constant.tla) and the LEB128 varint of *)
(* its header (Varint.tla), for every element count a size_t can hold:    *)
(* the varint of a count decodes back to it, so the type invariant, the   *)
(* round trip and the codec-call contract hold for inputs of any length.  *)
(***************************************************************************)
EXTENDS Constant, StreamLemmas

(* The largest count + 1: nbElts is a size_t.                              *)
SizeBound == 18446744073709551616

(* The 7-bit groups v, v \div 128, v \div 128^2, ... of VarintGroups: the *)
(* recursion of its LET holds and they are naturals.                       *)
LEMMA VarintGroupsUnfold ==
    ASSUME NEW v \in Nat
    PROVE  LET q == CHOOSE g : g = [i \in 0..10 |-> IF i = 0 THEN v ELSE g[i - 1] \div 128]
           IN  /\ q = [i \in 0..10 |-> IF i = 0 THEN v ELSE q[i - 1] \div 128]
               /\ q \in [0..10 -> Nat]
               /\ VarintGroups(v) = q
<1> DEFINE q == CHOOSE g : g = [i \in 0..10 |-> IF i = 0 THEN v ELSE g[i - 1] \div 128]
           Def(x, i) == x \div 128
<1>0. 10 \in Nat  OBVIOUS
<1>1. FiniteNatInductiveDefHypothesis(q, v, Def, 0, 10)
  BY DEF FiniteNatInductiveDefHypothesis
<1>2. FiniteNatInductiveDefConclusion(q, v, Def, 0, 10)
  BY <1>0, <1>1, FiniteNatInductiveDef
<1>3. q = [i \in 0..10 |-> IF i = 0 THEN v ELSE q[i - 1] \div 128]
  BY <1>2 DEF FiniteNatInductiveDefConclusion
<1> HIDE DEF q
<1>4. q \in [0..10 -> Nat]
  <2>1. IndHyp(LAMBDA i : q[i] \in Nat, 10)
    <3>1. q[0] \in Nat  BY <1>3
    <3>2. ASSUME NEW i \in 1..10, \A j \in 0..(i - 1) : q[j] \in Nat
          PROVE  q[i] \in Nat
      <4>1. i \in 0..10 /\ i # 0 /\ i - 1 \in 0..(i - 1)  OBVIOUS
      <4>2. q[i] = q[i - 1] \div 128  BY <4>1, <1>3
      <4>3. q[i - 1] \in Nat  BY <4>1, <3>2
      <4>. QED  BY <4>2, <4>3
    <3>. QED  BY <3>1, <3>2 DEF IndHyp
  <2>2. IndConcl(LAMBDA i : q[i] \in Nat, 10)  BY <1>0, <2>1, FiniteInduction
  <2>3. \A i \in 0..10 : q[i] \in Nat  BY <2>2 DEF IndConcl
  <2>. QED  BY <2>3, <1>3
<1>5. VarintGroups(v) = q  BY DEF VarintGroups, q
<1>. QED  BY <1>3, <1>4, <1>5 DEF q

(* A count below 2^64 has at most ten 7-bit groups: the eleventh group,   *)
(* v \div 128^10, is 0.                                                    *)
LEMMA VarintGroupsBound ==
    ASSUME NEW v \in Nat, v < SizeBound
    PROVE  VarintGroups(v)[10] = 0
<1> DEFINE q == CHOOSE g : g = [i \in 0..10 |-> IF i = 0 THEN v ELSE g[i - 1] \div 128]
<1>1. /\ q = [i \in 0..10 |-> IF i = 0 THEN v ELSE q[i - 1] \div 128]
      /\ q \in [0..10 -> Nat]
      /\ VarintGroups(v) = q
  BY VarintGroupsUnfold
<1> HIDE DEF q
<1>2. \A i \in 1..10 : q[i] = q[i - 1] \div 128  BY <1>1
<1>3. q[0] = v /\ q[0] < 18446744073709551616  BY <1>1 DEF SizeBound
<1>4. q[1] < 144115188075855872  BY <1>1, <1>2, <1>3
<1>5. q[2] < 1125899906842624  BY <1>1, <1>2, <1>4
<1>6. q[3] < 8796093022208  BY <1>1, <1>2, <1>5
<1>7. q[4] < 68719476736  BY <1>1, <1>2, <1>6
<1>8. q[5] < 536870912  BY <1>1, <1>2, <1>7
<1>9. q[6] < 4194304  BY <1>1, <1>2, <1>8
<1>10. q[7] < 32768  BY <1>1, <1>2, <1>9
<1>11. q[8] < 256  BY <1>1, <1>2, <1>10
<1>12. q[9] < 2  BY <1>1, <1>2, <1>11
<1>13. q[10] = 0  BY <1>1, <1>2, <1>12
<1>. QED  BY <1>1, <1>13

(* The property VarintLength's CHOOSE asks of the byte count.              *)
FirstZeroGroup(q, len) ==
    /\ len \in 1..10
    /\ q[len] = 0
    /\ \A j \in 1..(len - 1) : q[j] # 0

(* VarintLength is well defined below 2^64: it is the index of the first  *)
(* zero group, found by induction over the groups scanned so far.          *)
LEMMA VarintLengthSpec ==
    ASSUME NEW v \in Nat, v < SizeBound
    PROVE  FirstZeroGroup(VarintGroups(v), VarintLength(v))
<1> DEFINE q == VarintGroups(v)
           Q(k) == \/ \A j \in 1..k : q[j] # 0
                   \/ \E len \in 1..k : q[len] = 0 /\ \A j \in 1..(len - 1) : q[j] # 0
<1>1. q[10] = 0  BY VarintGroupsBound
<1> HIDE DEF q
<1>2. IndHyp(LAMBDA k : Q(k), 10)
  <2>1. Q(0)  OBVIOUS
  <2>2. ASSUME NEW k \in 1..10, \A m \in 0..(k - 1) : Q(m) PROVE Q(k)
    <3>1. Q(k - 1)  BY <2>2
    <3>2. CASE \A j \in 1..(k - 1) : q[j] # 0
      <4>1. CASE q[k] # 0
        <5>1. \A j \in 1..k : q[j] # 0  BY <3>2, <4>1
        <5>. QED  BY <5>1
      <4>2. CASE q[k] = 0
        <5>1. k \in 1..k /\ q[k] = 0 /\ \A j \in 1..(k - 1) : q[j] # 0  BY <3>2, <4>2
        <5>. QED  BY <5>1
      <4>. QED  BY <4>1, <4>2
    <3>3. CASE \E len \in 1..(k - 1) : q[len] = 0 /\ \A j \in 1..(len - 1) : q[j] # 0
      <4>1. PICK len \in 1..(k - 1) : q[len] = 0 /\ \A j \in 1..(len - 1) : q[j] # 0
        BY <3>3
      <4>2. len \in 1..k  OBVIOUS
      <4>. QED  BY <4>1, <4>2
    <3>. QED  BY <3>1, <3>2, <3>3
  <2>. QED  BY <2>1, <2>2 DEF IndHyp
<1>3. IndConcl(LAMBDA k : Q(k), 10)  BY <1>2, FiniteInduction
<1>4. Q(10)  BY <1>3 DEF IndConcl
<1>5. \E len \in 1..10 : FirstZeroGroup(q, len)
  <2>1. ~(\A j \in 1..10 : q[j] # 0)  BY <1>1
  <2>. QED  BY <1>4, <2>1 DEF FirstZeroGroup
<1>. QED  BY <1>5 DEF VarintLength, FirstZeroGroup, q

(* The bytes of ZL_varintEncode: one per group up to the first zero one,  *)
(* each a group's low seven bits, with the high bit set on all but the    *)
(* last.                                                                   *)
LEMMA VarintEncodeShape ==
    ASSUME NEW v \in Nat, v < SizeBound
    PROVE  LET b   == VarintEncode(v)
               len == VarintLength(v)
               q   == VarintGroups(v)
           IN  /\ b \in Seq(0..255)
               /\ Len(b) = len
               /\ \A i \in 1..len : b[i] % 128 = q[i - 1] % 128
               /\ VarintWellFormed(b)
<1> DEFINE b   == VarintEncode(v)
           len == VarintLength(v)
           q   == VarintGroups(v)
<1>1. FirstZeroGroup(q, len)  BY VarintLengthSpec
<1>2. q \in [0..10 -> Nat]  BY VarintGroupsUnfold
<1>3. b = [i \in 1..len |-> (q[i - 1] % 128) + (IF i < len THEN 128 ELSE 0)]
  BY DEF VarintEncode
<1> HIDE DEF b, len, q
<1>4. len \in 1..10  BY <1>1 DEF FirstZeroGroup
<1>5. ASSUME NEW i \in 1..len
      PROVE  /\ b[i] \in 0..255
             /\ b[i] % 128 = q[i - 1] % 128
             /\ (b[i] >= 128) <=> (i < len)
  <2>1. q[i - 1] \in Nat  BY <1>2, <1>4
  <2>2. b[i] = (q[i - 1] % 128) + (IF i < len THEN 128 ELSE 0)  BY <1>3
  <2>. QED  BY <2>1, <2>2
<1>6. b \in [1..len -> 0..255]  BY <1>3, <1>5
<1>7. b \in Seq(0..255) /\ Len(b) = len  BY <1>4, <1>6, FunIsSeq
<1>8. VarintWellFormed(b)  BY <1>4, <1>5, <1>7 DEF VarintWellFormed
<1>. QED  BY <1>5, <1>7, <1>8 DEF b, len, q

(* The partial values VarintDecode accumulates, from the last byte down.  *)
LEMMA VarintDecodeUnfold ==
    ASSUME NEW b \in Seq(0..255)
    PROVE  LET va == CHOOSE g : g = [k \in 0..Len(b) |->
                        IF k = 0 THEN 0 ELSE g[k - 1] * 128 + (b[Len(b) - k + 1] % 128)]
           IN  /\ FiniteNatInductiveDefConclusion(va, 0,
                      LAMBDA x, k : x * 128 + (b[Len(b) - k + 1] % 128), 0, Len(b))
               /\ VarintDecode(b) = va[Len(b)]
<1> DEFINE va == CHOOSE g : g = [k \in 0..Len(b) |->
                    IF k = 0 THEN 0 ELSE g[k - 1] * 128 + (b[Len(b) - k + 1] % 128)]
           Def(x, k) == x * 128 + (b[Len(b) - k + 1] % 128)
<1>0. Len(b) \in Nat  OBVIOUS
<1>1. FiniteNatInductiveDefHypothesis(va, 0, Def, 0, Len(b))
  BY DEF FiniteNatInductiveDefHypothesis
<1>2. FiniteNatInductiveDefConclusion(va, 0, Def, 0, Len(b))
  BY <1>0, <1>1, FiniteNatInductiveDef
<1>3. VarintDecode(b) = va[Len(b)]  BY DEF VarintDecode
<1>. QED  BY <1>2, <1>3

(* The decoder gives back every count below 2^64: its accumulator after  *)
(* k bytes, read from the last one, is the group len - k, since each group *)
(* is 128 times the next one plus its low seven bits.                      *)
LEMMA VarintDecodeEncode ==
    ASSUME NEW v \in Nat, v < SizeBound
    PROVE  VarintDecode(VarintEncode(v)) = v
<1> DEFINE b   == VarintEncode(v)
           len == VarintLength(v)
           q   == VarintGroups(v)
           va  == CHOOSE g : g = [k \in 0..Len(b) |->
                     IF k = 0 THEN 0 ELSE g[k - 1] * 128 + (b[Len(b) - k + 1] % 128)]
           Def(x, j) == x * 128 + (b[Len(b) - j + 1] % 128)
           C   == [j \in 0..len |-> q[len - j]]
<1>1. /\ b \in Seq(0..255) /\ Len(b) = len
      /\ \A i \in 1..len : b[i] % 128 = q[i - 1] % 128
  BY VarintEncodeShape
<1>2. FirstZeroGroup(q, len)  BY VarintLengthSpec
<1>3. /\ q = [i \in 0..10 |-> IF i = 0 THEN v ELSE q[i - 1] \div 128]
      /\ q \in [0..10 -> Nat]
  BY VarintGroupsUnfold DEF VarintGroups
<1>4. /\ FiniteNatInductiveDefConclusion(va, 0, Def, 0, Len(b))
      /\ VarintDecode(b) = va[Len(b)]
  BY <1>1, VarintDecodeUnfold
<1> HIDE DEF b, len, q, va
<1>5. len \in 1..10 /\ q[len] = 0  BY <1>2 DEF FirstZeroGroup
<1>6. FiniteNatInductiveDefConclusion(C, 0, Def, 0, len)
  <2>1. ASSUME NEW k \in 0..len
        PROVE  C[k] = IF k = 0 THEN 0 ELSE Def(C[k - 1], k)
    <3>1. CASE k = 0  BY <1>5, <3>1
    <3>2. CASE k # 0
      <4>1. k - 1 \in 0..len /\ len - k \in 0..10 /\ len - k + 1 \in 1..10
            /\ len - k + 1 \in 1..len
        BY <1>5, <3>2
      <4>2. C[k] = q[len - k] /\ C[k - 1] = q[len - k + 1]  BY <1>5, <4>1
      <4>3. q[len - k + 1] = q[len - k] \div 128  BY <1>3, <4>1
      <4>4. b[len - k + 1] % 128 = q[len - k] % 128  BY <1>1, <4>1
      <4>5. q[len - k] \in Nat  BY <1>3, <4>1
      <4>6. Def(C[k - 1], k) = C[k - 1] * 128 + (b[len - k + 1] % 128)  BY <1>1
      <4>7. C[k - 1] * 128 + (b[len - k + 1] % 128)
              = (q[len - k] \div 128) * 128 + (q[len - k] % 128)
        BY <4>2, <4>3, <4>4
      <4>8. (q[len - k] \div 128) * 128 + (q[len - k] % 128) = q[len - k]  BY <4>5
      <4>9. C[k] = Def(C[k - 1], k)  BY <4>2, <4>6, <4>7, <4>8
      <4>. QED  BY <3>2, <4>9
    <3>. QED  BY <3>1, <3>2
  <2>. QED  BY <2>1, Zenon DEF FiniteNatInductiveDefConclusion
<1>7. va = C
  <2>1. FiniteNatInductiveDefConclusion(va, 0, Def, 0, len)  BY <1>1, <1>4
  <2>2. len \in Nat  BY <1>5
  <2>. QED  BY <1>6, <2>1, <2>2, FiniteNatInductiveUnique
<1>8. C[len] = v  BY <1>3, <1>5
<1>. QED  BY <1>1, <1>4, <1>7, <1>8 DEF b

-----------------------------------------------------------------------------
(* What an input of Inputs is made of.                                     *)
LEMMA InputShape ==
    ASSUME NEW x \in Inputs
    PROVE  /\ x.width \in Nat
           /\ x.elts \in Seq(Vals)
           /\ Len(x.elts) <= MaxElts
           /\ x = [type |-> x.type, width |-> x.width, elts |-> x.elts]
<1>1. /\ x.elts \in BoundedSeq(Vals, MaxElts) /\ x.width \in {1} \cup StructWidths
      /\ x = [type |-> x.type, width |-> x.width, elts |-> x.elts]
  BY DEF Inputs
<1>2. PICK m \in 0..MaxElts : x.elts \in [1..m -> Vals]
  BY <1>1 DEF BoundedSeq, SeqOf
<1>3. m \in Nat  BY ConstantAssumption
<1>4. x.elts \in Seq(Vals) /\ Len(x.elts) = m  BY <1>2, <1>3, FunIsSeq
<1>. QED  BY <1>1, <1>4, ConstantAssumption

(* TypeOK and the round trip are inductive together.                       *)
IInv == TypeOK /\ ConstantRoundTrip

(* When counts fit a size_t, every step of EI_constant_typed keeps IInv.   *)
LEMMA IInvStep ==
    ASSUME MaxElts < SizeBound
    PROVE  IInv /\ [Next]_vars => IInv'
<1> SUFFICES ASSUME IInv, [Next]_vars PROVE IInv'  OBVIOUS
<1>1. CASE ConstantReject
  BY <1>1 DEF IInv, TypeOK, ConstantRoundTrip, ConstantReject, Results
<1>2. CASE ConstantAllocFail
  BY <1>2 DEF IInv, TypeOK, ConstantRoundTrip, ConstantAllocFail, Results
<1>3. CASE ConstantTyped
  <2> DEFINE n == Len(in.elts)
  <2>1. in \in Inputs /\ in' = in /\ n >= 1 /\ IsConstantStream(in.elts)
    BY <1>3 DEF IInv, TypeOK, ConstantTyped
  <2>2. /\ hdr' = VarintEncode(n)
        /\ out' = [width |-> in.width, cap |-> 1, elts |-> <<in.elts[1]>>]
        /\ status' = "ok"
    BY <1>3 DEF ConstantTyped, CommitOk
  <2>3. in.width \in Nat /\ in.elts \in Seq(Vals) /\ n <= MaxElts
    BY <2>1, InputShape
  <2>4. n \in Nat /\ n < SizeBound  BY <2>3, ConstantAssumption DEF SizeBound
  <2>5. VarintEncode(n) \in Seq(0..255) /\ VarintDecode(VarintEncode(n)) = n
    BY <2>4, VarintEncodeShape, VarintDecodeEncode
  <2>6. <<in.elts[1]>> \in Seq(Vals)  BY <2>1, <2>3
  <2>7. TypeOK'  BY <2>1, <2>2, <2>3, <2>5, <2>6 DEF TypeOK, Results
  <2>8. [i \in 1..n |-> in.elts[1]] = in.elts
    BY <2>1, <2>3 DEF IsConstantStream
  <2>9. ConstantRoundTrip'  BY <2>1, <2>2, <2>5, <2>8 DEF ConstantRoundTrip
  <2>. QED  BY <2>7, <2>9 DEF IInv
<1>4. CASE NextInput
  BY <1>4 DEF IInv, TypeOK, ConstantRoundTrip, NextInput, NoOutput, Results
<1>5. CASE UNCHANGED vars
  BY <1>5 DEF IInv, TypeOK, ConstantRoundTrip, vars
<1>. QED  BY <1>1, <1>2, <1>3, <1>4, <1>5 DEF Next

LEMMA InitIInv == Init => IInv
BY DEF Init, IInv, TypeOK, ConstantRoundTrip, NoOutput, Results

(* For every input length a size_t can count, after every successful     *)
(* EI_constant_typed the output holds the one element of the input's      *)
(* width, and replicating it as many times as the varint header says      *)
(* rebuilds the input: the varint of the count decodes back to it.        *)
THEOREM ConstantRoundTripInvariant ==
    ASSUME MaxElts < SizeBound
    PROVE  Spec => []ConstantRoundTrip
<1>1. IInv /\ [Next]_vars => IInv'  BY IInvStep
<1>. QED  BY InitIInv, <1>1, PTL DEF Spec, IInv

(* When counts fit a size_t, EI_constant_typed implements the codec-call *)
(* promise: an empty or a non-constant input and a failed allocation are  *)
(* Fail steps, the call a Succeed step whose one element and varint count *)
(* decode to the input, and the host's next call NextInput.               *)
THEOREM ConstantRefinement ==
    ASSUME MaxElts < SizeBound
    PROVE  Spec => ConstantImplementsCodec
<1> DEFINE res == IF status = "ok" THEN <<ConstantDecodedCall>> ELSE <<>>
<1>1. Init => Codec!Init
  BY DEF Init, Codec!Init
<1>2. IInv /\ [Next]_vars => [Codec!Next]_<<in, status, res>>
  <2> SUFFICES ASSUME IInv, [Next]_vars
               PROVE  [Codec!Next]_<<in, status, res>>
    OBVIOUS
  <2>0. in \in Inputs  BY DEF IInv, TypeOK
  <2>1. CASE ConstantReject
    <3>1. status' \in Results \ {"idle", "ok"}  BY <2>1 DEF ConstantReject, Results
    <3>. QED  BY <2>1, <3>1 DEF ConstantReject, Codec!Next, Codec!Fail
  <2>2. CASE ConstantAllocFail
    <3>1. status' \in Results \ {"idle", "ok"}  BY <2>2 DEF ConstantAllocFail, Results
    <3>. QED  BY <2>2, <3>1 DEF ConstantAllocFail, Codec!Next, Codec!Fail
  <2>3. CASE ConstantTyped
    <3>1. status = "idle" /\ in' = in /\ status' = "ok"
      BY <2>3 DEF ConstantTyped, CommitOk
    <3>2. IInv'  BY IInvStep
    <3>3. /\ out'.width = in.width
          /\ [i \in 1..VarintDecode(hdr') |-> out'.elts[1]] = in.elts
      BY <3>1, <3>2 DEF IInv, ConstantRoundTrip
    <3>4. in = [type |-> in.type, width |-> in.width, elts |-> in.elts]
      BY <2>0, InputShape
    <3>5. ConstantDecodedCall' = in  BY <3>1, <3>3, <3>4 DEF ConstantDecodedCall
    <3>. QED  BY <3>1, <3>5 DEF Codec!Next, Codec!Succeed
  <2>4. CASE NextInput
    BY <2>4 DEF NextInput, Codec!Next, Codec!NextInput
  <2>5. CASE UNCHANGED vars
    BY <2>5 DEF vars, ConstantDecodedCall
  <2>. QED  BY <2>1, <2>2, <2>3, <2>4, <2>5 DEF Next
<1>3. Spec => []IInv
  <2>1. IInv /\ [Next]_vars => IInv'  BY IInvStep
  <2>. QED  BY InitIInv, <2>1, PTL DEF Spec
<1>. QED
  BY <1>1, <1>2, <1>3, PTL DEF Spec, Codec!Spec, Codec!vars, ConstantImplementsCodec

=============================================================================
