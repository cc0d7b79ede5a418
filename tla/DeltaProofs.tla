----------------------------- MODULE DeltaProofs -----------------------------
(***************************************************************************)
(* Proofs about EI_delta_int (Delta.tla): the type invariant, the round   *)
(* trip through a decoder of the same format version in both wire         *)
(* layouts, and the refinement of the codec-call contract, for inputs of  *)
(* any length and 1-, 2- and 4-byte elements.                              *)
(***************************************************************************)
EXTENDS Delta, StreamLemmas

(* What an input of Inputs is made of.                                     *)
LEMMA InputShape ==
    ASSUME Widths \subseteq {1, 2, 4}, NEW x \in Inputs
    PROVE  /\ x.width \in {1, 2, 4}
           /\ x.version \in Nat
           /\ x.elts \in Seq(0..(Modulus(x.width) - 1))
           /\ x = [width |-> x.width, elts |-> x.elts, version |-> x.version]
<1>1. /\ x.elts \in BoundedSeq(Vals, MaxElts) /\ x.width \in Widths
      /\ x.version \in Versions
      /\ \A i \in 1..Len(x.elts) : x.elts[i] < Modulus(x.width)
      /\ x = [width |-> x.width, elts |-> x.elts, version |-> x.version]
  BY DEF Inputs
<1>2. PICK m \in 0..MaxElts : x.elts \in [1..m -> Vals]
  BY <1>1 DEF BoundedSeq, SeqOf
<1>3. Modulus(x.width) \in Nat \ {0}  BY <1>1, ModulusPositive
<1>4. x.elts \in [1..m -> 0..(Modulus(x.width) - 1)]
  BY <1>1, <1>2, <1>3, DeltaAssumption
<1>5. x.elts \in Seq(0..(Modulus(x.width) - 1))
  <2>1. m \in Nat  BY DeltaAssumption
  <2> DEFINE S == 0..(Modulus(x.width) - 1)
  <2>2. x.elts \in [1..m -> S]  BY <1>4
  <2>. QED  BY <2>1, <2>2, FunIsSeq
<1>. QED  BY <1>1, <1>5, DeltaAssumption

(* Adding a wrapped difference back, modulo M, gives the next element.    *)
LEMMA DeltaStep ==
    ASSUME NEW M \in Nat \ {0}, NEW a \in 0..(M - 1), NEW b \in 0..(M - 1)
    PROVE  (a + ((b - a) % M)) % M = b
BY SMT

(* ZS_deltaEncode on a stream of w-byte elements: one difference fewer    *)
(* than elements, each a w-byte value.                                     *)
LEMMA EncodeShape ==
    ASSUME NEW w \in {1, 2, 4}, NEW s \in Seq(0..(Modulus(w) - 1)), Len(s) > 0
    PROVE  /\ DeltaEncode(s, w) \in Seq(0..(Modulus(w) - 1))
           /\ Len(DeltaEncode(s, w)) = Len(s) - 1
           /\ \A i \in 1..(Len(s) - 1) : DeltaEncode(s, w)[i] = (s[i + 1] - s[i]) % Modulus(w)
<1>1. Modulus(w) \in Nat \ {0}  BY ModulusPositive
<1> HIDE DEF Modulus
<1>2. DeltaEncode(s, w) \in [1..(Len(s) - 1) -> 0..(Modulus(w) - 1)]
  <2> DEFINE M == Modulus(w)
  <2>1. M \in Nat \ {0}  BY <1>1
  <2> HIDE DEF M
  <2>2. \A i \in 1..Len(s) : s[i] \in Int
    BY <2>1 DEF M
  <2>3. \A i \in 1..(Len(s) - 1) : (s[i + 1] - s[i]) % M \in 0..(M - 1)
    BY <2>1, <2>2
  <2>4. QED  BY <2>3 DEF DeltaEncode, M
<1>3. Len(s) - 1 \in Nat  OBVIOUS
<1>4. DeltaEncode(s, w) \in Seq(0..(Modulus(w) - 1)) /\ Len(DeltaEncode(s, w)) = Len(s) - 1
  BY <1>2, <1>3, FunIsSeq
<1>. QED  BY <1>4 DEF DeltaEncode

(* A delta decoder given the first element and the differences of s      *)
(* rebuilds s: its accumulator and the elements of s satisfy the same     *)
(* recursion, so they are equal (FiniteNatInductiveUnique).                *)
LEMMA UndeltaEncode ==
    ASSUME NEW w \in {1, 2, 4}, NEW s \in Seq(0..(Modulus(w) - 1)), Len(s) > 0
    PROVE  Undelta(s[1], DeltaEncode(s, w), w) = s
<1> DEFINE d   == DeltaEncode(s, w)
           M   == Modulus(w)
           L   == Len(d)
           acc == CHOOSE g : g = [i \in 0..Len(d) |->
                      IF i = 0 THEN s[1] ELSE (g[i - 1] + d[i]) % Modulus(w)]
           C   == [i \in 0..L |-> s[i + 1]]
           Def(x, i) == (x + d[i]) % M
<1>1. M \in Nat \ {0}  BY ModulusPositive
<1>2. /\ d \in Seq(0..(M - 1)) /\ L = Len(s) - 1 /\ L \in Nat
      /\ \A i \in 1..L : d[i] = (s[i + 1] - s[i]) % M
  BY EncodeShape
<1>3. Undelta(s[1], d, w) = [i \in 1..L + 1 |-> acc[i - 1]]  BY DEF Undelta
<1> HIDE DEF d, M, acc
<1>4. FiniteNatInductiveDefConclusion(acc, s[1], Def, 0, L)
  <2>1. FiniteNatInductiveDefHypothesis(acc, s[1], Def, 0, L)
    BY DEF FiniteNatInductiveDefHypothesis, acc, M
  <2>. QED  BY <1>2, <2>1, FiniteNatInductiveDef
<1>5. FiniteNatInductiveDefConclusion(C, s[1], Def, 0, L)
  <2>1. ASSUME NEW i \in 0..L
        PROVE  C[i] = IF i = 0 THEN s[1] ELSE Def(C[i - 1], i)
    <3>1. CASE i = 0  BY <3>1
    <3>2. CASE i # 0
      <4>1. i \in 1..L /\ i - 1 \in 0..L  BY <1>2, <3>2
      <4>2. C[i] = s[i + 1] /\ C[i - 1] = s[i]  BY <4>1
      <4>5. i \in 1..Len(s) /\ i + 1 \in 1..Len(s)  BY <1>2, <4>1
      <4>3. s[i] \in 0..(M - 1) /\ s[i + 1] \in 0..(M - 1)
        <5>1. \A k \in 1..Len(s) : s[k] \in 0..(Modulus(w) - 1)  BY <1>1 DEF M
        <5>. QED  BY <4>5, <5>1 DEF M
      <4>4. (s[i] + ((s[i + 1] - s[i]) % M)) % M = s[i + 1]  BY <1>1, <4>3, DeltaStep
      <4>6. Def(C[i - 1], i) = (s[i] + d[i]) % M  BY <4>2
      <4>7. d[i] = (s[i + 1] - s[i]) % M  BY <1>2, <4>1
      <4>. QED  BY <3>2, <4>2, <4>4, <4>6, <4>7
    <3>. QED  BY <3>1, <3>2
  <2>. QED  BY <2>1, Zenon DEF FiniteNatInductiveDefConclusion
<1>6. acc = C  BY <1>2, <1>4, <1>5, FiniteNatInductiveUnique
<1>7. [i \in 1..L + 1 |-> C[i - 1]] = s  BY <1>2
<1>. QED  BY <1>3, <1>6, <1>7 DEF d

(* Each wire layout of EI_delta_int decodes back to the input with a      *)
(* decoder of the same format version.                                     *)
LEMMA LayoutDecodes ==
    ASSUME Widths \subseteq {1, 2, 4}, NEW x \in Inputs
    PROVE  LET s == x.elts
               w == x.width
               v == x.version
           IN  /\ Len(s) = 0 => DeltaDecoded(<<>>, <<>>, v, w) = s
               /\ Len(s) > 0 /\ v < DeltaMinVersion =>
                      DeltaDecoded(<<>>, <<s[1]>> \o DeltaEncode(s, w), v, w) = s
               /\ Len(s) > 0 /\ v >= DeltaMinVersion =>
                      DeltaDecoded(LEBytes(s[1], w), DeltaEncode(s, w), v, w) = s
<1> DEFINE s == x.elts
           w == x.width
           v == x.version
<1>1. w \in {1, 2, 4} /\ v \in Nat /\ s \in Seq(0..(Modulus(w) - 1))  BY InputShape
<1>2. Modulus(w) \in Nat \ {0}  BY <1>1, ModulusPositive
<1>3. ASSUME Len(s) = 0 PROVE DeltaDecoded(<<>>, <<>>, v, w) = s
  <2>1. s = <<>>  BY <1>1, <1>3
  <2>. QED  BY <2>1 DEF DeltaDecoded
<1>4. ASSUME Len(s) > 0, v < DeltaMinVersion
      PROVE  DeltaDecoded(<<>>, <<s[1]>> \o DeltaEncode(s, w), v, w) = s
  <2> DEFINE e == <<s[1]>> \o DeltaEncode(s, w)
  <2>1. DeltaEncode(s, w) \in Seq(0..(Modulus(w) - 1))  BY <1>1, <1>4, EncodeShape
  <2>2. e # <<>> /\ e[1] = s[1] /\ Tail(e) = DeltaEncode(s, w)  BY <2>1
  <2>3. v < DecoderMinVersion  BY <1>4 DEF DeltaMinVersion, DecoderMinVersion
  <2>4. DeltaDecoded(<<>>, e, v, w) = Undelta(s[1], DeltaEncode(s, w), w)
    <3>1. ~(v >= DecoderMinVersion)  BY <1>1, <2>3 DEF DecoderMinVersion
    <3>. QED  BY <2>2, <3>1, Zenon DEF DeltaDecoded
  <2>. QED  BY <1>1, <1>4, <2>4, UndeltaEncode
<1>5. ASSUME Len(s) > 0, v >= DeltaMinVersion
      PROVE  DeltaDecoded(LEBytes(s[1], w), DeltaEncode(s, w), v, w) = s
  <2>1. s[1] \in 0..(Modulus(w) - 1)  BY <1>1, <1>2, <1>5
  <2>2. LEBytes(s[1], w) \in Seq(0..255) /\ Len(LEBytes(s[1], w)) = w
    <3>1. s[1] \in Nat /\ w \in Nat  BY <1>1, <1>2, <2>1
    <3>. QED  BY <3>1, LEBytesShape
  <2>3. LEBytes(s[1], w) # <<>>  BY <1>1, <2>2
  <2>4. FromLE(LEBytes(s[1], w)) = s[1]  BY <1>1, <2>1, LERoundTrip
  <2>5. v >= DecoderMinVersion  BY <1>5 DEF DeltaMinVersion, DecoderMinVersion
  <2>6. DeltaDecoded(LEBytes(s[1], w), DeltaEncode(s, w), v, w)
          = Undelta(s[1], DeltaEncode(s, w), w)
    BY <2>3, <2>4, <2>5 DEF DeltaDecoded
  <2>. QED  BY <1>1, <1>5, <2>6, UndeltaEncode
<1>. QED  BY <1>3, <1>4, <1>5

-----------------------------------------------------------------------------
(* The invariant the proofs carry: the type invariant and the round trip. *)
IInv == TypeOK /\ DeltaRoundTrip

(* What one whole EI_delta_int call writes: the output elements and the   *)
(* header of the layout the length and the format version select.        *)
LEMMA CallShape ==
    ASSUME Widths \subseteq {1, 2, 4}, NEW x \in Inputs,
           NEW e, NEW h,
           \/ Len(x.elts) = 0 /\ e = <<>> /\ h = <<>>
           \/ /\ Len(x.elts) > 0 /\ x.version < DeltaMinVersion
              /\ e = <<x.elts[1]>> \o DeltaEncode(x.elts, x.width) /\ h = <<>>
           \/ /\ Len(x.elts) > 0 /\ x.version >= DeltaMinVersion
              /\ e = DeltaEncode(x.elts, x.width) /\ h = LEBytes(x.elts[1], x.width)
    PROVE  /\ e \in Seq(Nat) /\ Len(e) <= Len(x.elts)
           /\ h \in Seq(0..255)
           /\ DeltaDecoded(h, e, x.version, x.width) = x.elts
<1> DEFINE s == x.elts
           w == x.width
<1>1. w \in {1, 2, 4} /\ s \in Seq(0..(Modulus(w) - 1))  BY InputShape
<1>2. Modulus(w) \in Nat \ {0}  BY <1>1, ModulusPositive
<1>3. Seq(0..(Modulus(w) - 1)) \subseteq Seq(Nat)  BY <1>2
<1>4. CASE Len(s) = 0 /\ e = <<>> /\ h = <<>>
  <2>1. DeltaDecoded(<<>>, <<>>, x.version, w) = s  BY <1>4, LayoutDecodes
  <2>2. <<>> \in Seq(Nat) /\ <<>> \in Seq(0..255)  OBVIOUS
  <2>. QED  BY <1>4, <2>1, <2>2
<1>5. CASE /\ Len(s) > 0 /\ x.version < DeltaMinVersion
           /\ e = <<s[1]>> \o DeltaEncode(s, w) /\ h = <<>>
  <2>1. DeltaEncode(s, w) \in Seq(0..(Modulus(w) - 1)) /\ Len(DeltaEncode(s, w)) = Len(s) - 1
    BY <1>1, <1>5, EncodeShape
  <2>2. s[1] \in Nat  BY <1>1, <1>2, <1>5
  <2>3. e \in Seq(Nat) /\ Len(e) = Len(s)  BY <1>3, <1>5, <2>1, <2>2
  <2>. QED  BY <1>5, <2>3, LayoutDecodes
<1>6. CASE /\ Len(s) > 0 /\ x.version >= DeltaMinVersion
           /\ e = DeltaEncode(s, w) /\ h = LEBytes(s[1], w)
  <2>1. DeltaEncode(s, w) \in Seq(0..(Modulus(w) - 1)) /\ Len(DeltaEncode(s, w)) = Len(s) - 1
    BY <1>1, <1>6, EncodeShape
  <2>2. s[1] \in Nat /\ w \in Nat  BY <1>1, <1>2, <1>6
  <2>3. h \in Seq(0..255)  BY <1>6, <2>2, LEBytesShape
  <2>4. e \in Seq(Nat) /\ Len(e) <= Len(s)  BY <1>3, <1>6, <2>1
  <2>. QED  BY <1>6, <2>3, <2>4, LayoutDecodes
<1>. QED  BY <1>4, <1>5, <1>6

(* Under the narrow widths, every step of EI_delta_int keeps IInv.         *)
LEMMA IInvStep ==
    ASSUME Widths \subseteq {1, 2, 4}
    PROVE  IInv /\ [Next]_vars => IInv'
<1> SUFFICES ASSUME IInv, [Next]_vars PROVE IInv'  OBVIOUS
<1>1. CASE DeltaAllocFail
  BY <1>1 DEF IInv, TypeOK, DeltaRoundTrip, DeltaAllocFail, Results
<1>2. CASE DeltaInt
  <2> DEFINE w == in.width
             n == Len(in.elts)
  <2>1. in \in Inputs /\ in' = in /\ status = "idle"  BY <1>2 DEF IInv, TypeOK, DeltaInt
  <2>2. w \in {1, 2, 4} /\ n \in Nat  BY <2>1, InputShape
  <2>3. PICK e, h :
          /\ \/ n = 0 /\ e = <<>> /\ h = <<>>
             \/ /\ n > 0 /\ in.version < DeltaMinVersion
                /\ e = <<in.elts[1]>> \o DeltaEncode(in.elts, w) /\ h = <<>>
             \/ /\ n > 0 /\ in.version >= DeltaMinVersion
                /\ e = DeltaEncode(in.elts, w) /\ h = LEBytes(in.elts[1], w)
          /\ out' = [width |-> w, cap |-> n, elts |-> e]
          /\ hdr' = h
          /\ status' = IF CommitOk(Len(e), n) THEN "ok" ELSE "commit"
    BY <1>2 DEF DeltaInt
  <2>4. /\ e \in Seq(Nat) /\ Len(e) <= n /\ h \in Seq(0..255)
        /\ DeltaDecoded(h, e, in.version, w) = in.elts
    BY <2>1, <2>3, CallShape
  <2>5. TypeOK'
    BY <2>1, <2>2, <2>3, <2>4 DEF TypeOK, IntWidths, Results
  <2>6. DeltaRoundTrip'
    BY <2>1, <2>3, <2>4 DEF DeltaRoundTrip
  <2>. QED  BY <2>5, <2>6 DEF IInv
<1>3. CASE NextInput
  BY <1>3 DEF IInv, TypeOK, DeltaRoundTrip, NextInput, NoOutput, Results
<1>4. CASE UNCHANGED vars
  BY <1>4 DEF IInv, TypeOK, DeltaRoundTrip, vars
<1>. QED  BY <1>1, <1>2, <1>3, <1>4 DEF Next

LEMMA InitIInv == Init => IInv
BY DEF Init, IInv, TypeOK, DeltaRoundTrip, NoOutput, Results, IntWidths

(* Every stream and header EI_delta_int produces is well typed: the       *)
(* output elements are naturals, never more than the nbInts allocated,    *)
(* and the header is a sequence of bytes.                                  *)
THEOREM DeltaTypeCorrect ==
    ASSUME Widths \subseteq {1, 2, 4}
    PROVE  Spec => []TypeOK
<1>1. IInv /\ [Next]_vars => IInv'  BY IInvStep
<1>. QED  BY InitIInv, <1>1, PTL DEF Spec, IInv

(* For 1-, 2- and 4-byte elements and inputs of any length, after every  *)
(* successful call a decoder of the call's format version rebuilds the    *)
(* input: in the legacy layout from the stream alone, from version 13 on  *)
(* from the differences and the first element read from the header, and  *)
(* across differences that wrap below 0.                                   *)
THEOREM DeltaRoundTripInvariant ==
    ASSUME Widths \subseteq {1, 2, 4}
    PROVE  Spec => []DeltaRoundTrip
<1>1. IInv /\ [Next]_vars => IInv'  BY IInvStep
<1>. QED  BY InitIInv, <1>1, PTL DEF Spec, IInv

(* EI_delta_int implements the codec-call promise for 1-, 2- and 4-byte  *)
(* elements in both wire layouts: the allocation failure is a Fail step,  *)
(* the call a Succeed step whose outputs decode to the input (or a Fail   *)
(* step, were the commit to fail), and the host's next call NextInput.    *)
THEOREM DeltaRefinement ==
    ASSUME Widths \subseteq {1, 2, 4}
    PROVE  Spec => DeltaImplementsCodec
<1> DEFINE res == IF status = "ok" THEN <<DeltaDecodedCall>> ELSE <<>>
<1>1. Init => Codec!Init
  BY DEF Init, Codec!Init
<1>2. IInv /\ [Next]_vars => [Codec!Next]_<<in, status, res>>
  <2> SUFFICES ASSUME IInv, [Next]_vars
               PROVE  [Codec!Next]_<<in, status, res>>
    OBVIOUS
  <2>0. in \in Inputs  BY DEF IInv, TypeOK
  <2>1. CASE DeltaAllocFail
    <3>1. status' \in Results \ {"idle", "ok"}  BY <2>1 DEF DeltaAllocFail, Results
    <3>. QED  BY <2>1, <3>1 DEF DeltaAllocFail, Codec!Next, Codec!Fail
  <2>2. CASE DeltaInt
    <3>1. status = "idle" /\ in' = in  BY <2>2 DEF DeltaInt
    <3>2. IInv'  BY IInvStep
    <3>3. CASE status' = "ok"
      <4>1. out'.width = in.width /\ DeltaDecoded(hdr', out'.elts, in.version, in.width) = in.elts
        BY <3>1, <3>2, <3>3 DEF IInv, DeltaRoundTrip
      <4>2. in = [width |-> in.width, elts |-> in.elts, version |-> in.version]
        BY <2>0, InputShape
      <4>3. DeltaDecodedCall' = in  BY <3>1, <4>1, <4>2 DEF DeltaDecodedCall
      <4>. QED  BY <3>1, <3>3, <4>3 DEF Codec!Next, Codec!Succeed
    <3>4. CASE status' # "ok"
      <4>2. status' \in Results \ {"idle", "ok"}  BY <2>2, <3>4 DEF DeltaInt, Results
      <4>. QED  BY <3>1, <3>4, <4>2 DEF Codec!Next, Codec!Fail
    <3>. QED  BY <3>3, <3>4
  <2>3. CASE NextInput
    BY <2>3 DEF NextInput, Codec!Next, Codec!NextInput
  <2>4. CASE UNCHANGED vars
    BY <2>4 DEF vars, DeltaDecodedCall
  <2>. QED  BY <2>1, <2>2, <2>3, <2>4 DEF Next
<1>3. Spec => []IInv
  <2>1. IInv /\ [Next]_vars => IInv'  BY IInvStep
  <2>. QED  BY InitIInv, <2>1, PTL DEF Spec
<1>. QED  BY <1>1, <1>2, <1>3, PTL DEF Spec, Codec!Spec, Codec!vars, DeltaImplementsCodec

=============================================================================
