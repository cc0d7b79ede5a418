---------------------------- MODULE ZigzagProofs ----------------------------
(***************************************************************************)
(* Proofs about EI_zigzag_num (Zigzag.tla) for every element width,       *)
(* 8 bytes included, where the runs only reach narrow widths.              *)
(***************************************************************************)
EXTENDS Zigzag, TLAPS

(* The modulus of the 1-, 2- and 4-byte widths is a positive even number. *)
LEMMA ModulusEven ==
    ASSUME NEW w \in {1, 2, 4}
    PROVE  \E h \in Nat \ {0} : Modulus(w) = 2 * h
<1>1. CASE w = 1
  <2>1. Modulus(w) = 256  BY <1>1 DEF Modulus
  <2>. QED  BY <2>1
<1>2. CASE w = 2
  <2>1. Modulus(w) = 65536  BY <1>2 DEF Modulus
  <2>. QED  BY <2>1
<1>3. CASE w = 4
  <2>1. Modulus(w) = 4294967296  BY <1>3 DEF Modulus
  <2>. QED  BY <2>1
<1>. QED  BY <1>1, <1>2, <1>3 DEF IntWidths

(* Zigzag is a bijection on the residues of any even modulus M: the code  *)
(* of v lies in 0..M-1 and the decoder, reducing mod M, gives v back.      *)
(* This is the arithmetic of ZL_zigzagEncode and its decoder for every    *)
(* width, with M = 2^(8w).                                                 *)
LEMMA ZigzagResidue ==
    ASSUME NEW M \in Nat, NEW h \in Nat \ {0}, M = 2 * h,
           NEW v \in 0..(M - 1)
    PROVE  LET s == IF v < M \div 2 THEN v ELSE v - M
               z == IF s >= 0 THEN 2 * s ELSE -2 * s - 1
           IN  /\ z \in 0..(M - 1)
               /\ (IF z % 2 = 0 THEN z \div 2 ELSE -((z + 1) \div 2)) % M = v
<1>1. M \div 2 = h  BY SMT
<1>2. CASE v < h
  <2>1. 2 * v \in 0..(M - 1)  BY <1>2
  <2>2. (2 * v) % 2 = 0 /\ (2 * v) \div 2 = v  BY SMT
  <2>3. v % M = v  BY <1>2, SMT
  <2>. QED  BY <1>1, <1>2, <2>1, <2>2, <2>3
<1>3. CASE v >= h
  <2> DEFINE z == -2 * (v - M) - 1
  <2>1. z = 2 * (M - v) - 1 /\ z \in 0..(M - 1)  BY <1>3
  <2>2. z % 2 = 1 /\ (z + 1) \div 2 = M - v  BY <2>1, <1>3, SMT
  <2>3. (-(M - v)) % M = v  BY <1>3, SMT
  <2>4. v - M < 0  OBVIOUS
  <2>. QED  BY <1>1, <1>3, <2>1, <2>2, <2>3, <2>4
<1>. QED  BY <1>2, <1>3

(* ZL_zigzagEncode on a w-byte element, for the widths of ModulusEven.     *)
LEMMA ZigzagElement ==
    ASSUME NEW w \in {1, 2, 4}, NEW v \in 0..(Modulus(w) - 1)
    PROVE  /\ Zigzag(v, w) \in 0..(Modulus(w) - 1)
           /\ Unzigzag(Zigzag(v, w), w) = v
<1>1. PICK h \in Nat \ {0} : Modulus(w) = 2 * h  BY ModulusEven
<1>2. Modulus(w) \in Nat  BY <1>1
<1>. QED  BY <1>1, <1>2, ZigzagResidue DEF Zigzag, Signed, Unzigzag

(* What an input stream of Inputs is made of.                              *)
LEMMA InputShape ==
    ASSUME Widths \subseteq {1, 2, 4}, NEW x \in Inputs
    PROVE  /\ x.elts \in Seq(Nat)
           /\ x.width \in Widths
           /\ \A i \in 1..Len(x.elts) : x.elts[i] \in 0..(Modulus(x.width) - 1)
<1>1. x.elts \in BoundedSeq(Vals, MaxElts) /\ x.width \in Widths
      /\ \A i \in 1..Len(x.elts) : x.elts[i] < Modulus(x.width)
  BY DEF Inputs
<1>2. PICK m \in 0..MaxElts : x.elts \in [1..m -> Vals]
  BY <1>1 DEF BoundedSeq, SeqOf
<1>3. x.elts \in [1..m -> Nat]
  BY <1>2, ZigzagAssumption
<1>4. x.elts \in Seq(Nat)
  BY <1>3, ZigzagAssumption
<1>5. Len(x.elts) = m  BY <1>3, <1>4
<1>6. Modulus(x.width) \in Nat
  <2>1. x.width \in {1, 2, 4}  BY <1>1
  <2>. QED  BY <2>1, ModulusEven
<1>. QED  BY <1>1, <1>3, <1>4, <1>5, <1>6

-----------------------------------------------------------------------------
(* The invariant the proofs carry: the type invariant and the round trip. *)
IInv == TypeOK /\ ZigzagRoundTrip

(* Under the narrow widths, every step of EI_zigzag_num keeps IInv.        *)
LEMMA IInvStep ==
    ASSUME Widths \subseteq {1, 2, 4}
    PROVE  IInv /\ [Next]_vars => IInv'
<1> SUFFICES ASSUME IInv, [Next]_vars PROVE IInv'  OBVIOUS
<1>1. CASE ZigzagAllocFail
  BY <1>1 DEF IInv, TypeOK, ZigzagRoundTrip, ZigzagAllocFail, Results
<1>2. CASE ZigzagNum
  <2> DEFINE w == in.width
             n == Len(in.elts)
             e == [i \in 1..n |-> Zigzag(in.elts[i], w)]
  <2>1. in \in Inputs /\ in' = in  BY <1>2 DEF IInv, TypeOK, ZigzagNum
  <2>2. w \in {1, 2, 4} /\ in.elts \in Seq(Nat)  BY <2>1, InputShape
  <2>8. Modulus(w) \in Nat  BY <2>2, ModulusEven
  <2>3. \A i \in 1..n : /\ e[i] \in 0..(Modulus(w) - 1)
                        /\ Unzigzag(e[i], w) = in.elts[i]
    <3> SUFFICES ASSUME NEW i \in 1..n
                 PROVE  /\ e[i] \in 0..(Modulus(w) - 1)
                        /\ Unzigzag(e[i], w) = in.elts[i]
      OBVIOUS
    <3>1. in.elts[i] \in 0..(Modulus(w) - 1)  BY <2>1, InputShape
    <3>. QED  BY <3>1, <2>2, ZigzagElement
  <2>4. out' = [width |-> w, cap |-> n, elts |-> e] /\ status' = "ok"
    BY <1>2 DEF ZigzagNum, CommitOk
  <2>5. e \in Seq(Nat) /\ Len(e) = n
    <3>1. n \in Nat  BY <2>2
    <3>2. e \in [1..n -> Nat]
      <4>1. \A i \in 1..n : Zigzag(in.elts[i], w) \in Nat
        <5> SUFFICES ASSUME NEW i \in 1..n
                     PROVE  Zigzag(in.elts[i], w) \in Nat
          OBVIOUS
        <5>1. e[i] \in 0..(Modulus(w) - 1)  BY <2>3
        <5>2. e[i] = Zigzag(in.elts[i], w)  OBVIOUS
        <5>. QED  BY <5>1, <5>2, <2>8
      <4>. QED  BY <4>1, Zenon
    <3>. QED  BY <3>1, <3>2
  <2>6. TypeOK'
    <3>1. w \in {0} \cup IntWidths  BY <2>2 DEF IntWidths
    <3>2. n \in Nat  BY <2>2
    <3>. QED  BY <2>1, <2>4, <2>5, <3>1, <3>2 DEF TypeOK, Results
  <2>7. ZigzagRoundTrip'  BY <2>1, <2>3, <2>4, <2>5 DEF ZigzagRoundTrip
  <2>. QED  BY <2>6, <2>7 DEF IInv
<1>3. CASE NextInput
  BY <1>3 DEF IInv, TypeOK, ZigzagRoundTrip, NextInput, NoOutput, Results
<1>4. CASE UNCHANGED vars
  BY <1>4 DEF IInv, TypeOK, ZigzagRoundTrip, vars
<1>. QED  BY <1>1, <1>2, <1>3, <1>4 DEF Next

(* Every element EI_zigzag_num writes, for 1-, 2- and 4-byte elements and *)
(* inputs of any length, fits its width and decodes back to the element   *)
(* it was made from: ZigzagRoundTrip holds in every reachable state.      *)
THEOREM ZigzagRoundTripInvariant ==
    ASSUME Widths \subseteq {1, 2, 4}
    PROVE  Spec => []ZigzagRoundTrip
<1>1. Init => IInv
  BY DEF Init, IInv, TypeOK, ZigzagRoundTrip, NoOutput, Results
<1>2. IInv /\ [Next]_vars => IInv'  BY IInvStep
<1>3. IInv => ZigzagRoundTrip  BY DEF IInv
<1>. QED  BY <1>1, <1>2, <1>3, PTL DEF Spec

(* Every stream EI_zigzag_num produces is well typed: the output has a    *)
(* supported width and its codes are natural numbers.                     *)
THEOREM ZigzagTypeCorrect ==
    ASSUME Widths \subseteq {1, 2, 4}
    PROVE  Spec => []TypeOK
<1>1. Init => IInv
  BY DEF Init, IInv, TypeOK, ZigzagRoundTrip, NoOutput, Results
<1>2. IInv /\ [Next]_vars => IInv'  BY IInvStep
<1>. QED  BY <1>1, <1>2, PTL DEF Spec, IInv

-----------------------------------------------------------------------------
(* The codes one successful call writes for input x.                     *)
Codes(x) == [i \in 1..Len(x.elts) |-> Zigzag(x.elts[i], x.width)]

(* The decoded outputs of one successful call are its input.               *)
LEMMA CallDecodes ==
    ASSUME Widths \subseteq {1, 2, 4}, NEW x \in Inputs
    PROVE  [width |-> x.width,
            elts  |-> [i \in 1..Len(Codes(x)) |-> Unzigzag(Codes(x)[i], x.width)]] = x
<1> DEFINE n == Len(x.elts)
           w == x.width
           e == Codes(x)
<1>0. x.width \in Widths /\ x.elts \in Seq(Nat)  BY InputShape
<1>1. w \in {1, 2, 4} /\ x.elts \in Seq(Nat) /\ n \in Nat
  <2>1. w \in {1, 2, 4}  BY <1>0
  <2>2. n \in Nat  BY <1>0
  <2>. QED  BY <1>0, <2>1, <2>2
<1>2. Len(e) = n /\ \A i \in 1..n : e[i] = Zigzag(x.elts[i], w)  BY <1>1 DEF Codes
<1>3. [i \in 1..n |-> Unzigzag(e[i], w)] = x.elts
  <2>1. ASSUME NEW i \in 1..n PROVE Unzigzag(e[i], w) = x.elts[i]
    <3>1. x.elts[i] \in 0..(Modulus(w) - 1)  BY InputShape
    <3>. QED  BY <3>1, <1>1, <1>2, ZigzagElement
  <2>2. x.elts = [i \in 1..n |-> x.elts[i]]  BY <1>1
  <2>. QED  BY <2>1, <2>2
<1>4. x = [width |-> w, elts |-> x.elts]  BY DEF Inputs
<1>. QED  BY <1>2, <1>3, <1>4

(* EI_zigzag_num implements the codec-call promise for 1-, 2- and 4-byte  *)
(* elements: allocation and commit failures are Fail steps, the call is a *)
(* Succeed step whose outputs decode to the input, and the host's next    *)
(* call is NextInput.                                                      *)
THEOREM ZigzagRefinement ==
    ASSUME Widths \subseteq {1, 2, 4}
    PROVE  Spec => ZigzagImplementsCodec
<1> DEFINE res == IF status = "ok" THEN <<ZigzagDecoded>> ELSE <<>>
<1>1. Init => Codec!Init
  BY DEF Init, Codec!Init
<1>2. IInv /\ [Next]_vars => [Codec!Next]_<<in, status, res>>
  <2> SUFFICES ASSUME IInv, [Next]_vars
               PROVE  [Codec!Next]_<<in, status, res>>
    OBVIOUS
  <2>1. CASE ZigzagAllocFail
    <3>1. status' \in Results \ {"idle", "ok"}  BY <2>1 DEF ZigzagAllocFail, Results
    <3>. QED  BY <2>1, <3>1 DEF ZigzagAllocFail, Codec!Next, Codec!Fail
  <2>2. CASE ZigzagNum
    <3>1. in \in Inputs  BY DEF IInv, TypeOK
    <3>2. status' = "ok" /\ status = "idle" /\ in' = in  BY <2>2 DEF ZigzagNum, CommitOk
    <3>4. out' = [width |-> in.width, cap |-> Len(in.elts), elts |-> Codes(in)]
      BY <2>2 DEF ZigzagNum, Codes
    <3>5. [width |-> in.width,
           elts  |-> [i \in 1..Len(Codes(in)) |-> Unzigzag(Codes(in)[i], in.width)]] = in
      BY <3>1, CallDecodes
    <3>3. ZigzagDecoded' = in
      BY <3>4, <3>5 DEF ZigzagDecoded
    <3>. QED  BY <3>2, <3>3 DEF Codec!Next, Codec!Succeed
  <2>3. CASE NextInput
    BY <2>3 DEF NextInput, Codec!Next, Codec!NextInput
  <2>4. CASE UNCHANGED vars
    BY <2>4 DEF vars, ZigzagDecoded
  <2>. QED  BY <2>1, <2>2, <2>3, <2>4 DEF Next
<1>3. Spec => []IInv
  <2>1. Init => IInv
    BY DEF Init, IInv, TypeOK, ZigzagRoundTrip, NoOutput, Results
  <2>. QED  BY <2>1, IInvStep, PTL DEF Spec
<1>. QED  BY <1>1, <1>2, <1>3, PTL DEF Spec, Codec!Spec, Codec!vars, ZigzagImplementsCodec

====
