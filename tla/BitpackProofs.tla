--------------------------- MODULE BitpackProofs ---------------------------
(***************************************************************************)
(* Proofs about Bitpack for every value of its constants: the type         *)
(* invariant, and that the header EI_bitpack_typed sends always lets a     *)
(* decoder recover the element width and the exact element count from the *)
(* committed byte count (the assertions maxNbElts >= nbElts and            *)
(* maxNbElts - nbElts < 8 of the binding).                                 *)
(***************************************************************************)
EXTENDS Bitpack, FiniteSetTheorems, TLAPS

(* highbit never exceeds 63: it counts a subset of 1..63.                  *)
LEMMA HighBitRange == \A v : HighBit(v) \in 0..63
<1> TAKE v
<1> DEFINE S == {k \in 1..63 : 2^k <= v}
<1>1. 1 \in Int /\ 63 \in Int
  OBVIOUS
<1>2. IsFiniteSet(1..63) /\ Cardinality(1..63) = IF 1 > 63 THEN 0 ELSE 63 - 1 + 1
  BY <1>1, FS_Interval, Zenon
<1>3. IsFiniteSet(1..63) /\ Cardinality(1..63) = 63
  BY <1>2
<1>4. S \subseteq 1..63
  OBVIOUS
<1>5. IsFiniteSet(S) /\ Cardinality(S) <= Cardinality(1..63)
  BY <1>3, <1>4, FS_Subset, Zenon
<1>6. Cardinality(S) \in Nat
  BY <1>5, FS_CardinalityType, Zenon
<1>7. QED
  BY <1>3, <1>5, <1>6 DEF HighBit

(* computeNbBits returns 1..64, so nbBits - 1 fits the low 6 header bits.  *)
LEMMA NbBitsRange == \A s : ComputeNbBits(s) \in 1..64
BY HighBitRange DEF ComputeNbBits

(* The padding arithmetic of EI_bitpack_typed: with dstSize =              *)
(* ceil(n * nbBits / 8) bytes a decoder sees maxNbElts = dstSize * 8 /     *)
(* nbBits elements, at least n and fewer than n + 8.                       *)
LEMMA PaddingBound ==
    ASSUME NEW n \in Nat, NEW b \in 1..64, NEW m,
           m = (BytesFor(n * b) * 8) \div b
    PROVE  m \in Nat /\ n <= m /\ m < n + 8
BY DEF BytesFor

(* A byte assembled from eight 0/1 bits lies in 0..255.                   *)
LEMMA ByteRange ==
    ASSUME NEW b0 \in {0, 1}, NEW b1 \in {0, 1}, NEW b2 \in {0, 1},
           NEW b3 \in {0, 1}, NEW b4 \in {0, 1}, NEW b5 \in {0, 1},
           NEW b6 \in {0, 1}, NEW b7 \in {0, 1}
    PROVE  b0 + 2 * b1 + 4 * b2 + 8 * b3 + 16 * b4 + 32 * b5 + 64 * b6
           + 128 * b7 \in 0..255
OBVIOUS

(* The packed buffer is a sequence of bytes of the bound's length.         *)
LEMMA EncodeShape ==
    ASSUME NEW s \in Seq(Nat), NEW b \in 1..64
    PROVE  /\ BitpackEncode(s, b) \in Seq(0..255)
           /\ Len(BitpackEncode(s, b)) = BytesFor(Len(s) * b)
<1> DEFINE D == BytesFor(Len(s) * b)
           f(p) == IF p < Len(s) * b THEN Bit(s[p \div b + 1], p % b) ELSE 0
<1>1. D \in Nat
  BY DEF BytesFor
<1>2. \A p \in Int : f(p) \in {0, 1}
  BY Zenon DEF Bit
<1>3. BitpackEncode(s, b) = [j \in 1..D |-> ByteOf(f, 8 * (j - 1))]
  BY Zenon DEF BitpackEncode, PackBits
<1> HIDE DEF D, f
<1>4. \A lo \in Int : ByteOf(f, lo) \in 0..255
  <2> SUFFICES ASSUME NEW lo \in Int PROVE ByteOf(f, lo) \in 0..255
    OBVIOUS
  <2>1. /\ lo + 1 \in Int /\ lo + 2 \in Int /\ lo + 3 \in Int /\ lo + 4 \in Int
        /\ lo + 5 \in Int /\ lo + 6 \in Int /\ lo + 7 \in Int
    OBVIOUS
  <2>2. /\ f(lo) \in {0, 1} /\ f(lo + 1) \in {0, 1} /\ f(lo + 2) \in {0, 1}
        /\ f(lo + 3) \in {0, 1} /\ f(lo + 4) \in {0, 1} /\ f(lo + 5) \in {0, 1}
        /\ f(lo + 6) \in {0, 1} /\ f(lo + 7) \in {0, 1}
    BY <1>2, <2>1, Zenon
  <2>3. QED
    <3> DEFINE c0 == f(lo)     c1 == f(lo + 1) c2 == f(lo + 2) c3 == f(lo + 3)
               c4 == f(lo + 4) c5 == f(lo + 5) c6 == f(lo + 6) c7 == f(lo + 7)
    <3>1. /\ c0 \in {0, 1} /\ c1 \in {0, 1} /\ c2 \in {0, 1} /\ c3 \in {0, 1}
          /\ c4 \in {0, 1} /\ c5 \in {0, 1} /\ c6 \in {0, 1} /\ c7 \in {0, 1}
      BY <2>2
    <3> HIDE DEF c0, c1, c2, c3, c4, c5, c6, c7
    <3>2. c0 + 2 * c1 + 4 * c2 + 8 * c3 + 16 * c4 + 32 * c5 + 64 * c6
          + 128 * c7 \in 0..255
      BY <3>1
    <3>3. QED
      BY <3>2, Zenon DEF ByteOf, c0, c1, c2, c3, c4, c5, c6, c7
<1>5. \A j \in 1..D : 8 * (j - 1) \in Int
  OBVIOUS
<1>6. [j \in 1..D |-> ByteOf(f, 8 * (j - 1))] \in [1..D -> 0..255]
  BY <1>4, <1>5
<1>7. \A n \in Nat : [1..n -> 0..255] \subseteq Seq(0..255)
  OBVIOUS
<1>8. BitpackEncode(s, b) \in [1..D -> 0..255]
  BY <1>3, <1>6
<1>9. BitpackEncode(s, b) \in Seq(0..255)
  <2>1. [1..D -> 0..255] \subseteq Seq(0..255)
    BY <1>1, <1>7, Zenon
  <2>2. QED
    BY <1>8, <2>1, Zenon
<1>10. Len(BitpackEncode(s, b)) = D
  BY <1>1, <1>8, <1>9
<1>11. QED
  BY <1>9, <1>10 DEF D

(* The header is one or two bytes.                                         *)
LEMMA HeaderShape ==
    ASSUME NEW w \in IntWidths, NEW b \in 1..64, NEW n \in Nat, NEW m \in Nat,
           n <= m, m < n + 8
    PROVE  /\ BitpackHeader(w, b, n, m) \in Seq(0..255)
           /\ Len(BitpackHeader(w, b, n, m)) \in {1, 2}
           /\ BitpackHeader(w, b, n, m)[1] = Log2EltWidth[w + 1] * 64 + (b - 1)
           /\ Len(BitpackHeader(w, b, n, m)) = 2 <=> m > n
           /\ m > n => BitpackHeader(w, b, n, m)[2] = m - n
<1> DEFINE first == Log2EltWidth[w + 1] * 64 + (b - 1)
<1>1. Log2EltWidth[w + 1] \in 0..3
  BY DEF IntWidths, Log2EltWidth
<1>2. first \in 0..255
  BY <1>1
<1>3. CASE m > n
  <2>1. BitpackHeader(w, b, n, m) = <<first, m - n>>
    BY <1>3 DEF BitpackHeader
  <2>2. m - n \in 0..255
    OBVIOUS
  <2>3. QED
    BY <1>2, <1>3, <2>1, <2>2
<1>4. CASE ~(m > n)
  <2>1. BitpackHeader(w, b, n, m) = <<first>>
    BY <1>4 DEF BitpackHeader
  <2>2. QED
    BY <1>2, <1>4, <2>1
<1>5. QED
  BY <1>3, <1>4

(* The streams of Inputs hold natural numbers of a supported width.        *)
LEMMA InputShape ==
    ASSUME NEW x \in Inputs
    PROVE  /\ x.elts \in Seq(Nat)
           /\ x.width \in IntWidths
<1>1. x.elts \in BoundedSeq(Vals, MaxElts) /\ x.width \in Widths
  BY DEF Inputs
<1>2. PICK m \in 0..MaxElts : x.elts \in [1..m -> Vals]
  BY <1>1 DEF BoundedSeq, SeqOf
<1>3. x.elts \in [1..m -> Nat]
  BY <1>2, BitpackAssumption
<1>4. x.elts \in Seq(Nat)
  BY <1>3, BitpackAssumption
<1>5. QED
  BY <1>1, <1>4, BitpackAssumption

(* What one successful call of EI_bitpack_typed produces from elements s  *)
(* of width w packed with b bits: a byte buffer of the bound's length and *)
(* a header from which a decoder reads back w, b and the element count.   *)
LEMMA BitpackCallShape ==
    ASSUME NEW s \in Seq(Nat), NEW w \in IntWidths, NEW b \in 1..64
    PROVE  LET dst == BitpackEncode(s, b)
               h   == BitpackHeader(w, b, Len(s), (Len(dst) * 8) \div b)
           IN  /\ dst \in Seq(0..255)
               /\ Len(dst) = BitpackEncodeBound(Len(s), b)
               /\ h \in Seq(0..255)
               /\ Len(h) \in {1, 2}
               /\ DecodedWidth(h) = w
               /\ DecodedNbBits(h) = b
               /\ DecodedCount(h, Len(dst)) = Len(s)
               /\ Len(h) = 2 => h[2] \in 1..7
<1> DEFINE dst == BitpackEncode(s, b)
           m   == (Len(dst) * 8) \div b
           h   == BitpackHeader(w, b, Len(s), m)
           l   == Log2EltWidth[w + 1]
<1> HIDE DEF dst, m, h, l
<1>1. dst \in Seq(0..255) /\ Len(dst) = BytesFor(Len(s) * b)
  BY EncodeShape DEF dst
<1>0. Len(s) \in Nat
  OBVIOUS
<1>2. Len(s) <= m /\ m < Len(s) + 8 /\ m \in Nat
  <2>1. m = (BytesFor(Len(s) * b) * 8) \div b
    BY <1>1 DEF m
  <2> HIDE DEF BytesFor
  <2>2. QED
    BY <1>0, <2>1, PaddingBound, Zenon
<1>3. /\ h \in Seq(0..255)
      /\ Len(h) \in {1, 2}
      /\ h[1] = l * 64 + (b - 1)
      /\ Len(h) = 2 <=> m > Len(s)
      /\ m > Len(s) => h[2] = m - Len(s)
  <2>1. h = BitpackHeader(w, b, Len(s), m) /\ l = Log2EltWidth[w + 1]
    BY DEF h, l
  <2> DEFINE H == BitpackHeader(w, b, Len(s), m)
  <2> HIDE DEF BitpackHeader
  <2>2. /\ H \in Seq(0..255)
        /\ Len(H) \in {1, 2}
        /\ H[1] = Log2EltWidth[w + 1] * 64 + (b - 1)
        /\ Len(H) = 2 <=> m > Len(s)
        /\ m > Len(s) => H[2] = m - Len(s)
    BY <1>0, <1>2, HeaderShape, ZenonT(60)
  <2>3. QED
    BY <2>1, <2>2, Zenon
<1>4. l \in 0..3 /\ 2^l = w
  <2>1. w \in {1, 2, 4, 8}
    BY DEF IntWidths
  <2>2. CASE w = 1  BY <2>2 DEF l, Log2EltWidth
  <2>3. CASE w = 2  BY <2>3 DEF l, Log2EltWidth
  <2>4. CASE w = 4  BY <2>4 DEF l, Log2EltWidth
  <2>5. CASE w = 8  BY <2>5 DEF l, Log2EltWidth
  <2>6. QED  BY <2>1, <2>2, <2>3, <2>4, <2>5
<1>5. h[1] \div 64 = l /\ (h[1] % 64) + 1 = b
  <2>1. (l * 64 + (b - 1)) \div 64 = l /\ ((l * 64 + (b - 1)) % 64) + 1 = b
    BY <1>4
  <2>2. QED
    BY <1>3, <2>1, Zenon
<1>6. DecodedWidth(h) = w /\ DecodedNbBits(h) = b
  BY <1>4, <1>5 DEF DecodedWidth, DecodedNbBits
<1>7. DecodedCount(h, Len(dst)) = Len(s)
  <2>1. (Len(dst) * 8) \div b = m
    BY DEF m
  <2>2. QED
    BY <1>2, <1>3, <1>6, <2>1 DEF DecodedCount
<1>8. Len(h) = 2 => h[2] \in 1..7
  <2> SUFFICES ASSUME Len(h) = 2 PROVE h[2] \in 1..7
    OBVIOUS
  <2>1. m > Len(s) /\ h[2] = m - Len(s)
    BY <1>3, Zenon
  <2>2. QED
    BY <1>0, <1>2, <2>1
<1>9. Len(dst) = BitpackEncodeBound(Len(s), b)
  BY <1>1 DEF BitpackEncodeBound
<1>10. QED
  BY <1>1, <1>3, <1>6, <1>7, <1>8, <1>9, Zenon DEF dst, h, m

-----------------------------------------------------------------------------
(* Every step of the specification preserves the type invariant.        *)
LEMMA TypeStep == TypeOK /\ [Next]_vars => TypeOK'
<1> SUFFICES ASSUME TypeOK, [Next]_vars PROVE TypeOK'
  OBVIOUS
<1>1. CASE BitpackTyped
  <2>1. in.elts \in Seq(Nat) /\ in.width \in IntWidths
    BY InputShape DEF TypeOK
  <2> DEFINE nb  == ComputeNbBits(in.elts)
             dst == BitpackEncode(in.elts, nb)
             cap == BitpackEncodeBound(Len(in.elts), nb)
             h   == BitpackHeader(in.width, nb, Len(in.elts), (Len(dst) * 8) \div nb)
  <2> HIDE DEF nb, dst, cap, h
  <2>2. nb \in 1..64
    BY NbBitsRange DEF nb
  <2>3. dst \in Seq(0..255) /\ h \in Seq(0..255)
    <3> HIDE DEF ComputeNbBits, BitpackEncode, BitpackHeader
    <3>1. QED
      BY <2>1, <2>2, BitpackCallShape, ZenonT(60) DEF dst, h
  <2>4. cap \in Nat
    <3>1. Len(in.elts) \in Nat
      BY <2>1
    <3>2. Len(in.elts) * nb \in Nat
      BY <3>1, <2>2
    <3>3. QED
      BY <3>2 DEF cap, BitpackEncodeBound, BytesFor
  <2>5. /\ out' = [width |-> 1, cap |-> cap, elts |-> dst]
        /\ hdr' = h
        /\ status' \in {"ok", "commit"}
        /\ in' = in
    BY <1>1 DEF BitpackTyped, nb, dst, cap, h
  <2>6. QED
    BY <2>3, <2>4, <2>5 DEF TypeOK, Results
<1>2. CASE BitpackAllocFail
  BY <1>2 DEF BitpackAllocFail, TypeOK, Results
<1>3. CASE NextInput
  BY <1>3 DEF NextInput, TypeOK, NoOutput, Results
<1>4. CASE UNCHANGED vars
  BY <1>4 DEF vars, TypeOK
<1>5. QED
  BY <1>1, <1>2, <1>3, <1>4 DEF Next

(* Type correctness of the specification.                                  *)
THEOREM TypeCorrect == Spec => []TypeOK
<1>1. Init => TypeOK
  BY BitpackAssumption DEF Init, TypeOK, NoOutput, Results
<1>2. TypeOK /\ [Next]_vars => TypeOK'
  BY TypeStep
<1>3. QED
  BY <1>1, <1>2, PTL DEF Spec

-----------------------------------------------------------------------------
(* The header invariant HeaderDecodes (the assertions of EI_bitpack_typed  *)
(* on the padding count) holds in every reachable state.  It is inductive  *)
(* together with the type invariant: a call's header depends only on that  *)
(* call's input, and every other step leaves status # "ok" or keeps hdr,   *)
(* out and in.                                                             *)
IInv == TypeOK /\ HeaderDecodes

(* A successful call of EI_bitpack_typed establishes HeaderDecodes.        *)
LEMMA BitpackTypedHeader ==
    ASSUME TypeOK, BitpackTyped
    PROVE  HeaderDecodes'
<1>1. in.elts \in Seq(Nat) /\ in.width \in IntWidths
  BY InputShape DEF TypeOK
<1> DEFINE nb  == ComputeNbBits(in.elts)
           dst == BitpackEncode(in.elts, nb)
           h   == BitpackHeader(in.width, nb, Len(in.elts), (Len(dst) * 8) \div nb)
<1> HIDE DEF nb, dst, h
<1>2. nb \in 1..64
  BY NbBitsRange DEF nb
<1>3. /\ Len(h) \in {1, 2}
      /\ DecodedWidth(h) = in.width
      /\ DecodedCount(h, Len(dst)) = Len(in.elts)
      /\ Len(h) = 2 => h[2] \in 1..7
  <2> HIDE DEF ComputeNbBits, BitpackEncode, BitpackHeader, DecodedWidth,
               DecodedCount
  <2>1. QED
    BY <1>1, <1>2, BitpackCallShape, ZenonT(60) DEF dst, h
<1>4. /\ out'.elts = dst
      /\ hdr' = h
      /\ in' = in
  BY DEF BitpackTyped, nb, dst, h
<1>5. QED
  BY <1>3, <1>4, Zenon DEF HeaderDecodes

(* The header of a successful EI_bitpack_typed call lets a decoder recover *)
(* the input's element width and exact element count, in every state.      *)
THEOREM HeaderDecodesInvariant == Spec => []HeaderDecodes
<1>1. Init => IInv
  BY BitpackAssumption DEF Init, IInv, TypeOK, HeaderDecodes, NoOutput, Results
<1>2. IInv /\ [Next]_vars => IInv'
  <2> SUFFICES ASSUME IInv, [Next]_vars PROVE IInv'
    OBVIOUS
  <2>1. TypeOK'
    BY TypeStep DEF IInv
  <2>2. HeaderDecodes'
    <3>1. CASE BitpackTyped
      BY <3>1, BitpackTypedHeader DEF IInv
    <3>2. CASE BitpackAllocFail
      BY <3>2 DEF BitpackAllocFail, HeaderDecodes
    <3>3. CASE NextInput
      BY <3>3 DEF NextInput, HeaderDecodes
    <3>4. CASE UNCHANGED vars
      BY <3>4 DEF vars, IInv, HeaderDecodes
    <3>5. QED
      BY <3>1, <3>2, <3>3, <3>4 DEF Next
  <2>3. QED
    BY <2>1, <2>2 DEF IInv
<1>3. QED
  BY <1>1, <1>2, PTL DEF Spec, IInv
=============================================================================
