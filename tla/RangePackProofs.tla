--------------------------- MODULE RangePackProofs ---------------------------
(***************************************************************************)
(* Proofs about EI_rangePack (RangePack.tla) for inputs of any length and *)
(* 1-, 2- and 4-byte source elements: the type invariant, the round trip  *)
(* through the header's minimum, and that the destination width is the   *)
(* narrowest one that holds max - min.                                     *)
(***************************************************************************)
EXTENDS RangePack, StreamLemmas

(* Everything these proofs need of the moduli comes from ModulusValues   *)
(* and ModulusPositive; the power they are defined by stays opaque.       *)
HIDE DEF Modulus

(* The condition NUMOP_numericWidthForValue's result satisfies.            *)
FitsNarrowest(v, w) ==
    /\ v < Modulus(w)
    /\ \A u \in IntWidths : u < w => v >= Modulus(u)

(* For a value below 2^32 the width chosen is 1, 2 or 4 bytes, holds the *)
(* value, and no narrower width does.  The 8-byte width is never chosen:  *)
(* it would need the value to reach 2^32.                                  *)
LEMMA NarrowestWidth ==
    ASSUME NEW v \in Nat, v < 4294967296
    PROVE  /\ NumericWidthForValue(v) \in {1, 2, 4}
           /\ FitsNarrowest(v, NumericWidthForValue(v))
<1>1. /\ Modulus(1) = 256 /\ Modulus(2) = 65536 /\ Modulus(4) = 4294967296
  BY ModulusValues
<1>2. \E w \in IntWidths : FitsNarrowest(v, w)
  <2>1. CASE v < 256
    <3>1. FitsNarrowest(v, 1)  BY <1>1, <2>1 DEF FitsNarrowest, IntWidths
    <3>. QED  BY <3>1 DEF IntWidths
  <2>2. CASE v >= 256 /\ v < 65536
    <3>1. FitsNarrowest(v, 2)  BY <1>1, <2>2 DEF FitsNarrowest, IntWidths
    <3>. QED  BY <3>1 DEF IntWidths
  <2>3. CASE v >= 65536
    <3>1. FitsNarrowest(v, 4)  BY <1>1, <2>3 DEF FitsNarrowest, IntWidths
    <3>. QED  BY <3>1 DEF IntWidths
  <2>. QED  BY <2>1, <2>2, <2>3
<1>3. NumericWidthForValue(v) \in IntWidths /\ FitsNarrowest(v, NumericWidthForValue(v))
  BY <1>2 DEF NumericWidthForValue, FitsNarrowest
<1>4. NumericWidthForValue(v) # 8
  <2> SUFFICES ASSUME NumericWidthForValue(v) = 8 PROVE FALSE  OBVIOUS
  <2>1. v >= Modulus(4)  BY <1>3 DEF FitsNarrowest, IntWidths
  <2>. QED  BY <1>1, <2>1
<1>. QED  BY <1>3, <1>4 DEF IntWidths

(* What an input of Inputs is made of.                                     *)
LEMMA InputShape ==
    ASSUME Widths \subseteq {1, 2, 4}, NEW x \in Inputs
    PROVE  /\ x.width \in {1, 2, 4}
           /\ x.elts \in Seq(0..(Modulus(x.width) - 1))
<1>1. /\ x.elts \in BoundedSeq(Vals, MaxElts) /\ x.width \in Widths
      /\ \A i \in 1..Len(x.elts) : x.elts[i] < Modulus(x.width)
  BY DEF Inputs
<1>2. PICK m \in 0..MaxElts : x.elts \in [1..m -> Vals]
  BY <1>1 DEF BoundedSeq, SeqOf
<1>3. Modulus(x.width) \in Nat \ {0}  BY <1>1, ModulusPositive
<1> DEFINE M == Modulus(x.width)
<1> HIDE DEF M
<1>4. Len(x.elts) = m  BY <1>2, RangePackAssumption
<1>5. \A i \in 1..m : x.elts[i] \in 0..(M - 1)
  <2>1. \A i \in 1..m : x.elts[i] \in Nat  BY <1>2, RangePackAssumption
  <2>2. \A i \in 1..m : x.elts[i] < M  BY <1>1, <1>4 DEF M
  <2>3. M \in Nat \ {0}  BY <1>3 DEF M
  <2>. QED  BY <2>1, <2>2, <2>3
<1>6. x.elts \in [1..m -> 0..(M - 1)]  BY <1>2, <1>5, Zenon
<1>7. m \in Nat  BY RangePackAssumption
<1>8. x.elts \in Seq(0..(M - 1))  BY <1>6, <1>7, FunIsSeq
<1>. QED  BY <1>1, <1>8 DEF M

(* ZL_computeUnsignedRange returns bounds of the elements that are       *)
(* themselves values of the width, the maximum one of the elements.       *)
LEMMA RangeFacts ==
    ASSUME NEW w \in {1, 2, 4}, NEW s \in Seq(0..(Modulus(w) - 1))
    PROVE  /\ ElementRange(s).min \in 0..(Modulus(w) - 1)
           /\ ElementRange(s).max \in 0..(Modulus(w) - 1)
           /\ ElementRange(s).min <= ElementRange(s).max
           /\ \A i \in 1..Len(s) : /\ ElementRange(s).min <= s[i]
                                   /\ s[i] <= ElementRange(s).max
           /\ Len(s) > 0 => \E j \in 1..Len(s) : s[j] = ElementRange(s).max
<1> DEFINE S == 0..(Modulus(w) - 1)
<1>1. S \subseteq Int /\ 0 \in S /\ s \in Seq(S)  BY ModulusPositive DEF S
<1> HIDE DEF S
<1>2. CASE s = <<>>
  <2>1. ElementRange(s) = [min |-> 0, max |-> 0]  BY <1>2 DEF ElementRange
  <2>2. Len(s) = 0  BY <1>2
  <2>. QED  BY <1>1, <2>1, <2>2 DEF S
<1>3. CASE s # <<>>
  <2>1. ElementRange(s) = [min |-> Min(Range(s)), max |-> Max(Range(s))]
    BY <1>3 DEF ElementRange
  <2>2. Len(s) > 0 /\ s \in Seq(Int)
    <3>1. Len(s) \in Nat /\ Len(s) > 0  BY <1>1, <1>3
    <3>2. \A i \in 1..Len(s) : s[i] \in Int
      <4>1. \A i \in 1..Len(s) : s[i] \in S  BY <1>1
      <4>. QED  BY <1>1, <4>1
    <3>3. s \in [1..Len(s) -> Int]  BY <1>1, <3>2
    <3>. QED  BY <3>1, <3>3, FunIsSeq
  <2>3. PICK j \in 1..Len(s) : Max(Range(s)) = s[j]  BY <2>2, SeqMaxMin
  <2>4. PICK k \in 1..Len(s) : Min(Range(s)) = s[k]  BY <2>2, SeqMaxMin
  <2>5. \A i \in 1..Len(s) : Min(Range(s)) <= s[i] /\ s[i] <= Max(Range(s))
    BY <2>2, SeqMaxMin
  <2>6. s[j] \in S /\ s[k] \in S  BY <1>1
  <2>. QED  BY <2>1, <2>3, <2>4, <2>5, <2>6 DEF S
<1>. QED  BY <1>2, <1>3

(* The header of lines 41-47 is a byte sequence that gives back the      *)
(* source width and, through the decoder's FromLE, the minimum.           *)
LEMMA HeaderDecodes ==
    ASSUME NEW w \in {1, 2, 4}, NEW m \in 0..(Modulus(w) - 1)
    PROVE  /\ RangePackHeader(w, m) \in Seq(0..255)
           /\ RangePackHeader(w, m)[1] = w
           /\ Len(RangePackHeader(w, m)) \in {1, 1 + w}
           /\ DecodedMin(RangePackHeader(w, m)) = m
<1>1. Modulus(w) \in Nat \ {0}  BY ModulusPositive
<1>2. m \in Nat  BY <1>1
<1>3. <<w>> \in Seq(0..255)  OBVIOUS
<1>4. CASE m = 0
  <2>1. RangePackHeader(w, m) = <<w>>  BY <1>4 DEF RangePackHeader
  <2>2. Len(<<w>>) = 1 /\ <<w>>[1] = w  OBVIOUS
  <2>3. DecodedMin(<<w>>) = 0  BY <2>2 DEF DecodedMin
  <2>. QED  BY <1>3, <1>4, <2>1, <2>2, <2>3
<1>5. CASE m # 0
  <2> DEFINE b == LEBytes(m, w)
  <2>1. b \in Seq(0..255) /\ Len(b) = w  BY <1>2, LEBytesShape
  <2>2. FromLE(b) = m  BY LERoundTrip
  <2> HIDE DEF b
  <2>3. RangePackHeader(w, m) = <<w>> \o b  BY <1>5 DEF RangePackHeader, b
  <2>4. /\ <<w>> \o b \in Seq(0..255) /\ (<<w>> \o b)[1] = w
        /\ Len(<<w>> \o b) = 1 + w /\ Tail(<<w>> \o b) = b
    BY <1>3, <2>1
  <2>5. Len(<<w>> \o b) > 1  BY <2>4
  <2>6. DecodedMin(<<w>> \o b) = FromLE(Tail(<<w>> \o b))  BY <2>5 DEF DecodedMin
  <2>7. DecodedMin(<<w>> \o b) = m  BY <2>2, <2>4, <2>6
  <2>. QED  BY <2>3, <2>4, <2>7
<1>. QED  BY <1>4, <1>5

-----------------------------------------------------------------------------
(* The three invariants the run checks are together inductive: they only *)
(* speak of the state a successful call leaves, which the call sets at    *)
(* once and NextInput clears.                                              *)
IInv == TypeOK /\ RangePackRoundTrip /\ RangePackNarrowest

(* Under the narrow widths, every step of EI_rangePack keeps IInv.         *)
LEMMA IInvStep ==
    ASSUME Widths \subseteq {1, 2, 4}
    PROVE  IInv /\ [Next]_vars => IInv'
<1> SUFFICES ASSUME IInv, [Next]_vars PROVE IInv'  OBVIOUS
<1>1. CASE RangePackAllocFail
  BY <1>1 DEF IInv, TypeOK, RangePackRoundTrip, RangePackNarrowest,
              RangePackAllocFail, Results
<1>2. CASE RangePack
  <2> DEFINE w == in.width
             s == in.elts
             n == Len(s)
             r == ElementRange(s)
             d == NumericWidthForValue(r.max - r.min)
  <2>1. in \in Inputs /\ in' = in /\ status = "idle"
    BY <1>2 DEF IInv, TypeOK, RangePack
  <2>2. w \in {1, 2, 4} /\ s \in Seq(0..(Modulus(w) - 1))  BY <2>1, InputShape
  <2>3. /\ out' = [width |-> d, cap |-> n, elts |-> [i \in 1..n |-> s[i] - r.min]]
        /\ hdr' = RangePackHeader(w, r.min)
        /\ status' = "ok"
    BY <1>2 DEF RangePack, CommitOk
  <2>4. /\ r.min \in 0..(Modulus(w) - 1) /\ r.max \in 0..(Modulus(w) - 1)
        /\ r.min <= r.max
        /\ \A i \in 1..n : r.min <= s[i] /\ s[i] <= r.max
        /\ n > 0 => \E j \in 1..n : s[j] = r.max
    BY <2>2, RangeFacts
  <2>5. Modulus(w) \in Nat \ {0} /\ Modulus(w) <= 4294967296
    BY <2>2, ModulusValues
  <2>6. r.max - r.min \in Nat /\ r.max - r.min < 4294967296  BY <2>4, <2>5
  <2>7. d \in {1, 2, 4} /\ FitsNarrowest(r.max - r.min, d)  BY <2>6, NarrowestWidth
  <2>8. /\ RangePackHeader(w, r.min) \in Seq(0..255)
        /\ RangePackHeader(w, r.min)[1] = w
        /\ Len(RangePackHeader(w, r.min)) \in {1, 1 + w}
        /\ DecodedMin(RangePackHeader(w, r.min)) = r.min
    BY <2>2, <2>4, HeaderDecodes
  <2>9. Modulus(d) \in Nat \ {0}  BY <2>7, ModulusPositive
  <2> DEFINE Sw == 0..(Modulus(w) - 1)
  <2>16. s \in Seq(Sw) /\ Sw \subseteq Int  BY <2>2, <2>5
  <2> HIDE DEF w, s, r, d, Sw
  <2>15. \A i \in 1..n : s[i] \in Int
    <3>1. \A i \in 1..n : s[i] \in Sw  BY <2>16
    <3>. QED  BY <2>16, <3>1
  <2>10. \A i \in 1..n : s[i] - r.min \in 0..(Modulus(d) - 1)
    <3> SUFFICES ASSUME NEW i \in 1..n PROVE s[i] - r.min \in 0..(Modulus(d) - 1)
      OBVIOUS
    <3>1. r.max - r.min < Modulus(d)  BY <2>7 DEF FitsNarrowest
    <3>2. r.min <= s[i] /\ s[i] <= r.max /\ s[i] \in Int  BY <2>4, <2>15
    <3>3. r.min \in Int /\ r.max \in Int  BY <2>4, <2>5
    <3>. QED  BY <2>9, <3>1, <3>2, <3>3
  <2>11. /\ [i \in 1..n |-> s[i] - r.min] \in Seq(Int)
         /\ Len([i \in 1..n |-> s[i] - r.min]) = n
    <3>1. \A i \in 1..n : s[i] - r.min \in Int  BY <2>9, <2>10
    <3>2. [i \in 1..n |-> s[i] - r.min] \in [1..n -> Int]  BY <3>1
    <3>3. n \in Nat  BY <2>2 DEF s
    <3>. QED  BY <3>2, <3>3, FunIsSeq
  <2>12. TypeOK'
    BY <2>1, <2>3, <2>7, <2>8, <2>11 DEF TypeOK, IntWidths, Results
  <2>13. RangePackRoundTrip'
    <3>1. hdr'[1] = in'.width /\ Len(hdr') \in {1, 1 + in'.width}
      BY <2>1, <2>3, <2>8 DEF w
    <3>2. Len(out'.elts) = Len(in'.elts)  BY <2>1, <2>3, <2>11 DEF s
    <3>3. ASSUME NEW i \in 1..Len(in'.elts)
          PROVE  /\ out'.elts[i] \in 0..(Modulus(out'.width) - 1)
                 /\ out'.elts[i] + DecodedMin(hdr') = in'.elts[i]
      <4>1. i \in 1..n /\ in'.elts[i] = s[i]  BY <2>1, <3>3 DEF s
      <4>2. out'.elts[i] = s[i] - r.min /\ out'.width = d  BY <2>3, <4>1
      <4>3. DecodedMin(hdr') = r.min  BY <2>3, <2>8
      <4>4. s[i] \in Int /\ r.min \in Int  BY <2>4, <2>5, <2>15, <4>1
      <4>. QED  BY <2>10, <4>1, <4>2, <4>3, <4>4
    <3>. QED  BY <2>3, <3>1, <3>2, <3>3 DEF RangePackRoundTrip
  <2>14. RangePackNarrowest'
    <3> SUFFICES ASSUME NEW u \in IntWidths, u < d
                 PROVE  \E i \in 1..n : s[i] - r.min >= Modulus(u)
      BY <2>1, <2>3 DEF RangePackNarrowest, s
    <3>1. r.max - r.min >= Modulus(u)  BY <2>7 DEF FitsNarrowest
    <3>2. u \in {1, 2}  BY <2>7 DEF IntWidths
    <3>3. Modulus(u) \in Nat \ {0}  BY <3>2, ModulusPositive
    <3>4. n > 0
      <4> SUFFICES ASSUME n = 0 PROVE FALSE  BY <2>16
      <4>1. s = <<>>  BY <2>16
      <4>2. r.max - r.min = 0  BY <4>1 DEF r, ElementRange
      <4>3. 0 >= Modulus(u)  BY <3>1, <4>2, Zenon
      <4>. QED  BY <3>3, <4>3
    <3>5. PICK j \in 1..n : s[j] = r.max  BY <2>4, <3>4
    <3>. QED  BY <3>1, <3>5
  <2>. QED  BY <2>12, <2>13, <2>14 DEF IInv
<1>3. CASE NextInput
  BY <1>3 DEF IInv, TypeOK, RangePackRoundTrip, RangePackNarrowest,
              NextInput, NoOutput, Results, IntWidths
<1>4. CASE UNCHANGED vars
  BY <1>4 DEF IInv, TypeOK, RangePackRoundTrip, RangePackNarrowest, vars
<1>. QED  BY <1>1, <1>2, <1>3, <1>4 DEF Next

LEMMA InitIInv == Init => IInv
BY DEF Init, IInv, TypeOK, RangePackRoundTrip, RangePackNarrowest, NoOutput,
       Results, IntWidths

(* Every stream and header EI_rangePack produces is well typed: the       *)
(* destination width is a supported one, the remapped elements are        *)
(* integers and the header is a sequence of bytes.                         *)
THEOREM RangePackTypeCorrect ==
    ASSUME Widths \subseteq {1, 2, 4}
    PROVE  Spec => []TypeOK
<1>1. IInv /\ [Next]_vars => IInv'  BY IInvStep
<1>. QED  BY InitIInv, <1>1, PTL DEF Spec, IInv

(* For 1-, 2- and 4-byte elements and inputs of any length, after every  *)
(* successful call each element minus the minimum fits the destination   *)
(* width, and the minimum the header carries (absent when 0) added back   *)
(* gives the input element.                                                *)
THEOREM RangePackRoundTripInvariant ==
    ASSUME Widths \subseteq {1, 2, 4}
    PROVE  Spec => []RangePackRoundTrip
<1>1. IInv /\ [Next]_vars => IInv'  BY IInvStep
<1>. QED  BY InitIInv, <1>1, PTL DEF Spec, IInv

(* The destination width NUMOP_numericWidthForValue picks is never wider *)
(* than needed: for every narrower width some remapped element, the one   *)
(* at the maximum, does not fit it.                                        *)
THEOREM RangePackNarrowestInvariant ==
    ASSUME Widths \subseteq {1, 2, 4}
    PROVE  Spec => []RangePackNarrowest
<1>1. IInv /\ [Next]_vars => IInv'  BY IInvStep
<1>. QED  BY InitIInv, <1>1, PTL DEF Spec, IInv

-----------------------------------------------------------------------------
(* Reading a value back at a width it fits in leaves it unchanged.        *)
LEMMA ModSmall ==
    ASSUME NEW M \in Nat \ {0}, NEW x \in 0..(M - 1)
    PROVE  x % M = x
OBVIOUS

(* A successful call of EI_rangePack leaves outputs that decode to its    *)
(* input: each stored element is below 2^(8 dstWidth), so reading it back *)
(* at that width keeps it, and with the minimum added it is the input     *)
(* element, below 2^(8 srcWidth), so source-width arithmetic keeps it.    *)
LEMMA RangePackStepDecodes ==
    ASSUME Widths \subseteq {1, 2, 4}, IInv, RangePack
    PROVE  RangePackDecodedCall' = in
<1>1. IInv'  BY IInvStep DEF Next
<1> DEFINE w == in.width
           s == in.elts
           r == ElementRange(s)
           d == NumericWidthForValue(r.max - r.min)
<1>2. in \in Inputs /\ in' = in /\ status' = "ok" /\ out'.width = d
  BY DEF IInv, TypeOK, RangePack, CommitOk
<1>3. w \in {1, 2, 4} /\ s \in Seq(0..(Modulus(w) - 1))  BY <1>2, InputShape
<1>4. /\ r.min \in 0..(Modulus(w) - 1) /\ r.max \in 0..(Modulus(w) - 1)
      /\ r.min <= r.max
  BY <1>3, RangeFacts
<1>5. Modulus(w) \in Nat \ {0} /\ Modulus(w) <= 4294967296
  BY <1>3, ModulusValues
<1>6. d \in {1, 2, 4}
  <2>1. r.max - r.min \in Nat /\ r.max - r.min < 4294967296  BY <1>4, <1>5
  <2>. QED  BY <2>1, NarrowestWidth
<1>7. Modulus(d) \in Nat \ {0}  BY <1>6, ModulusPositive
<1>8. /\ hdr'[1] = w
      /\ Len(out'.elts) = Len(s)
      /\ \A i \in 1..Len(s) :
             /\ out'.elts[i] \in 0..(Modulus(d) - 1)
             /\ out'.elts[i] + DecodedMin(hdr') = s[i]
  BY <1>1, <1>2 DEF IInv, RangePackRoundTrip
<1>9. DecodedMin(hdr') = r.min
  <2>1. hdr' = RangePackHeader(w, r.min)  BY DEF RangePack, CommitOk
  <2>. QED  BY <1>3, <1>4, <2>1, HeaderDecodes
<1> DEFINE Mw == Modulus(w)
           Md == Modulus(d)
           Sw == 0..(Mw - 1)
<1>10. s \in Seq(Sw) /\ Sw \subseteq Int /\ r.min \in Int  BY <1>3, <1>4, <1>5
<1>14. Mw \in Nat \ {0} /\ Md \in Nat \ {0}  BY <1>5, <1>7
<1> HIDE DEF w, s, r, d, Mw, Md, Sw
<1>11. ASSUME NEW i \in 1..Len(s)
       PROVE  ((out'.elts[i] % Md) + DecodedMin(hdr')) % Mw = s[i]
  <2>1. s[i] \in Sw  BY <1>10
  <2>2. s[i] \in 0..(Mw - 1)  BY <2>1 DEF Sw
  <2>3. out'.elts[i] \in 0..(Md - 1) /\ out'.elts[i] + r.min = s[i]
    BY <1>8, <1>9 DEF Md
  <2>4. out'.elts[i] % Md = out'.elts[i]  BY <1>14, <2>3, ModSmall
  <2>5. s[i] % Mw = s[i]  BY <1>14, <2>2, ModSmall
  <2>. QED  BY <1>9, <2>3, <2>4, <2>5
<1>12. RangePackDecodedCall'.elts = s
  <2>1. Len(s) \in Nat /\ s = [i \in 1..Len(s) |-> s[i]]  BY <1>10
  <2>2. Md = Modulus(out'.width) /\ Mw = Modulus(hdr'[1])  BY <1>2, <1>8 DEF Md, Mw, w, d
  <2>. QED  BY <1>8, <1>11, <2>1, <2>2 DEF RangePackDecodedCall
<1>13. in = [width |-> w, elts |-> s]  BY <1>2 DEF Inputs, w, s
<1>. QED  BY <1>8, <1>12, <1>13 DEF RangePackDecodedCall

(* EI_rangePack implements the abstract codec call for 1-, 2- and 4-byte  *)
(* elements: a failed allocation maps to a failure with nothing to        *)
(* decode, a successful call to a success whose result is its input, and  *)
(* the host's next input to the abstract next input.                      *)
THEOREM RangePackRefinement ==
    ASSUME Widths \subseteq {1, 2, 4}
    PROVE  Spec => RangePackImplementsCodec
<1> DEFINE res == IF status = "ok" THEN <<RangePackDecodedCall>> ELSE <<>>
<1>1. Init => Codec!Init
  BY DEF Init, Codec!Init
<1>2. IInv /\ [Next]_vars => [Codec!Next]_<<in, status, res>>
  <2> SUFFICES ASSUME IInv, [Next]_vars
               PROVE  [Codec!Next]_<<in, status, res>>
    OBVIOUS
  <2>1. CASE RangePackAllocFail
    <3>1. status' \in Results \ {"idle", "ok"}
      BY <2>1 DEF RangePackAllocFail, Results
    <3>. QED  BY <2>1, <3>1 DEF RangePackAllocFail, Codec!Next, Codec!Fail
  <2>2. CASE RangePack
    <3>1. status = "idle" /\ status' = "ok" /\ in' = in
      BY <2>2 DEF RangePack, CommitOk
    <3>2. RangePackDecodedCall' = in  BY <2>2, RangePackStepDecodes
    <3>. QED  BY <3>1, <3>2 DEF Codec!Next, Codec!Succeed
  <2>3. CASE NextInput
    BY <2>3 DEF NextInput, Codec!Next, Codec!NextInput
  <2>4. CASE UNCHANGED vars
    BY <2>4 DEF vars, RangePackDecodedCall
  <2>. QED  BY <2>1, <2>2, <2>3, <2>4 DEF Next
<1>3. Spec => []IInv
  <2>1. IInv /\ [Next]_vars => IInv'  BY IInvStep
  <2>. QED  BY InitIInv, <2>1, PTL DEF Spec
<1>. QED
  BY <1>1, <1>2, <1>3, PTL DEF Spec, Codec!Spec, Codec!vars, RangePackImplementsCodec

=============================================================================
