---------------------------- MODULE PrefixProofs ----------------------------
(***************************************************************************)
(* Proofs about EI_prefix: the match lengths the kernel computes are      *)
(* common prefixes of consecutive strings, so the suffix stream fits the  *)
(* fieldSizesSum bytes it was created with (SumFunctionMono) and the      *)
(* decoder, copying each match from the string before, rebuilds every     *)
(* string (FiniteNatInductiveUnique).                                      *)
(***************************************************************************)
EXTENDS Prefix, StreamLemmas, SequenceTheorems

(* The match length of two strings is a length both have, and the two     *)
(* strings agree up to it: CommonPrefixLen is the largest element of a    *)
(* set that contains 0, found with SeqHasMax.                              *)
LEMMA CommonPrefix ==
    ASSUME NEW S, NEW a \in Seq(S), NEW b \in Seq(S)
    PROVE  /\ CommonPrefixLen(a, b) \in Nat
           /\ CommonPrefixLen(a, b) <= Len(a)
           /\ CommonPrefixLen(a, b) <= Len(b)
           /\ SubSeq(a, 1, CommonPrefixLen(a, b)) = SubSeq(b, 1, CommonPrefixLen(a, b))
<1> DEFINE M == Min({Len(a), Len(b)})
           K == {k \in 0..M : SubSeq(a, 1, k) = SubSeq(b, 1, k)}
<1>1. M \in Nat /\ M <= Len(a) /\ M <= Len(b)
  <2>1. \E x \in {Len(a), Len(b)} : \A y \in {Len(a), Len(b)} : x <= y
    <3>1. CASE Len(a) <= Len(b)  BY <3>1
    <3>2. CASE Len(b) < Len(a)  BY <3>2
    <3>. QED  BY <3>1, <3>2
  <2>. QED  BY <2>1 DEF Min
<1>5. K \subseteq 0..M /\ 0 \in K  BY <1>1
<1> HIDE DEF K, M
<1>2. \E x \in K : \A y \in K : x >= y
  <2> DEFINE s == [i \in 1..(M + 1) |-> IF i - 1 \in K THEN i - 1 ELSE 0]
  <2>1. s \in Seq(Int) /\ Len(s) = M + 1
    <3>1. s \in [1..(M + 1) -> Int]  BY <1>1
    <3>. QED  BY <1>1, <3>1, FunIsSeq
  <2> HIDE DEF s
  <2>6. s \in Seq(Int) /\ Len(s) > 0  BY <1>1, <2>1
  <2>2. PICK j \in 1..Len(s) : \A i \in 1..Len(s) : s[j] >= s[i]
    BY <2>6, SeqHasMax, Zenon
  <2>3. 0 \in K  BY <1>5
  <2>4. s[j] \in K  BY <2>1, <2>3 DEF s
  <2>5. \A y \in K : s[j] >= y
    <3> TAKE y \in K
    <3>1. y + 1 \in 1..Len(s) /\ s[y + 1] = y  BY <1>1, <1>5, <2>1 DEF s
    <3>. QED  BY <2>2, <3>1
  <2>. QED  BY <2>4, <2>5
<1>3. Max(K) \in K  BY <1>2 DEF Max
<1>4. CommonPrefixLen(a, b) = Max(K)  BY DEF CommonPrefixLen, K, M
<1>6. Max(K) \in 0..M /\ SubSeq(a, 1, Max(K)) = SubSeq(b, 1, Max(K))
  BY <1>3 DEF K
<1>. QED  BY <1>1, <1>4, <1>6

(* ZS_encodePrefix's match length for string i: 0 for the first string,  *)
(* otherwise a common prefix of string i and the string before it.        *)
LEMMA MatchFacts ==
    ASSUME NEW s \in Seq(Seq(Chars)), NEW i \in 1..Len(s)
    PROVE  /\ MatchLens(s)[i] \in Nat
           /\ MatchLens(s)[i] <= Len(s[i])
           /\ i = 1 => MatchLens(s)[i] = 0
           /\ i > 1 => /\ MatchLens(s)[i] <= Len(s[i - 1])
                       /\ SubSeq(s[i - 1], 1, MatchLens(s)[i])
                          = SubSeq(s[i], 1, MatchLens(s)[i])
<1>1. CASE i = 1
  BY <1>1 DEF MatchLens
<1>2. CASE i > 1
  <2>1. MatchLens(s)[i] = CommonPrefixLen(s[i - 1], s[i])  BY <1>2 DEF MatchLens
  <2>2. s[i - 1] \in Seq(Chars) /\ s[i] \in Seq(Chars)  BY <1>2
  <2>3. /\ CommonPrefixLen(s[i - 1], s[i]) \in Nat
        /\ CommonPrefixLen(s[i - 1], s[i]) <= Len(s[i - 1])
        /\ CommonPrefixLen(s[i - 1], s[i]) <= Len(s[i])
        /\ SubSeq(s[i - 1], 1, CommonPrefixLen(s[i - 1], s[i]))
           = SubSeq(s[i], 1, CommonPrefixLen(s[i - 1], s[i]))
    BY <2>2, CommonPrefix, Zenon
  <2>. QED  BY <1>2, <2>1, <2>3
<1>. QED  BY <1>1, <1>2

(* The suffix of string i is what follows its match, so the match and the *)
(* suffix together are the string.                                         *)
LEMMA SuffixFacts ==
    ASSUME NEW s \in Seq(Seq(Chars)), NEW i \in 1..Len(s)
    PROVE  /\ SuffixParts(s)[i] \in Seq(Chars)
           /\ Len(SuffixParts(s)[i]) = Len(s[i]) - MatchLens(s)[i]
           /\ SubSeq(s[i], 1, MatchLens(s)[i]) \o SuffixParts(s)[i] = s[i]
<1> DEFINE m == MatchLens(s)[i]
           x == s[i]
<1>1. m \in Nat /\ m <= Len(x)  BY MatchFacts
<1>2. x \in Seq(Chars)  OBVIOUS
<1>3. SuffixParts(s)[i] = SubSeq(x, m + 1, Len(x))  BY DEF SuffixParts
<1> HIDE DEF m, x
<1>4. SubSeq(x, m + 1, Len(x)) \in Seq(Chars)
      /\ Len(SubSeq(x, m + 1, Len(x))) = Len(x) - m
  BY <1>1, <1>2
<1>5. SubSeq(x, 1, m) \o SubSeq(x, m + 1, Len(x)) = x
  <2>1. SubSeq(x, 1, m) \o SubSeq(x, m + 1, Len(x)) = SubSeq(x, 1, Len(x))
    <3>1. 1 \in 1..(Len(x) + 1) /\ m \in (1 - 1)..Len(x) /\ Len(x) \in m..Len(x)
      BY <1>1, <1>2
    <3>. QED  BY <1>2, <3>1, ConcatAdjacentSubSeq, Zenon
  <2>. QED  BY <1>2, <2>1, SubSeqFull
<1>. QED  BY <1>3, <1>4, <1>5 DEF m, x

(* The two outputs of ZS_encodePrefix have one entry per string.          *)
LEMMA PrefixOutShape ==
    ASSUME NEW s \in Seq(Seq(Chars))
    PROVE  /\ MatchLens(s) \in Seq(Nat) /\ Len(MatchLens(s)) = Len(s)
           /\ SuffixParts(s) \in Seq(Seq(Chars)) /\ Len(SuffixParts(s)) = Len(s)
<1>1. MatchLens(s) \in [1..Len(s) -> Nat]
  <2>1. MatchLens(s) = [i \in 1..Len(s) |-> MatchLens(s)[i]]  BY DEF MatchLens
  <2>2. \A i \in 1..Len(s) : MatchLens(s)[i] \in Nat  BY MatchFacts
  <2>. QED  BY <2>1, <2>2
<1>2. SuffixParts(s) \in [1..Len(s) -> Seq(Chars)]
  <2>1. SuffixParts(s) = [i \in 1..Len(s) |-> SuffixParts(s)[i]]  BY DEF SuffixParts
  <2>2. \A i \in 1..Len(s) : SuffixParts(s)[i] \in Seq(Chars)  BY SuffixFacts
  <2>. QED  BY <2>1, <2>2
<1>3. Len(s) \in Nat  OBVIOUS
<1>4. MatchLens(s) \in Seq(Nat) /\ Len(MatchLens(s)) = Len(s)
  BY <1>1, <1>3, FunIsSeq, Zenon
<1>5. SuffixParts(s) \in Seq(Seq(Chars)) /\ Len(SuffixParts(s)) = Len(s)
  BY <1>2, <1>3, FunIsSeq, Zenon
<1>. QED  BY <1>4, <1>5

(* The decoder rebuilds every string: its accumulator and the function    *)
(* that is <<>> at 0 and string i at i satisfy the same recursion, since  *)
(* the match of string i is a prefix of the string before it.             *)
LEMMA PrefixDecodes ==
    ASSUME NEW s \in Seq(Seq(Chars)), NEW o,
           o.matches = MatchLens(s), o.suffixes = SuffixParts(s)
    PROVE  Unprefixed(o) = s
<1> DEFINE L == Len(o.matches)
           Def(x, i) == SubSeq(x, 1, o.matches[i]) \o o.suffixes[i]
           r == CHOOSE g : g = [i \in 0..L |->
                    IF i = 0 THEN <<>> ELSE SubSeq(g[i - 1], 1, o.matches[i]) \o o.suffixes[i]]
           C == [i \in 0..L |-> IF i = 0 THEN <<>> ELSE s[i]]
<1>1. L = Len(s) /\ L \in Nat  BY PrefixOutShape
<1>2. Unprefixed(o) = [i \in 1..L |-> r[i]]  BY DEF Unprefixed
<1> HIDE DEF r, L
<1>3. FiniteNatInductiveDefConclusion(r, <<>>, Def, 0, L)
  <2>1. FiniteNatInductiveDefHypothesis(r, <<>>, Def, 0, L)
    BY DEF FiniteNatInductiveDefHypothesis, r
  <2>. QED  BY <1>1, <2>1, FiniteNatInductiveDef
<1>4. FiniteNatInductiveDefConclusion(C, <<>>, Def, 0, L)
  <2>1. ASSUME NEW i \in 0..L
        PROVE  C[i] = IF i = 0 THEN <<>> ELSE Def(C[i - 1], i)
    <3>1. CASE i = 0  BY <3>1
    <3>2. CASE i # 0
      <4>1. i \in 1..Len(s)  BY <1>1, <3>2
      <4>2. SubSeq(C[i - 1], 1, MatchLens(s)[i]) = SubSeq(s[i], 1, MatchLens(s)[i])
        <5>1. CASE i = 1
          <6>1. MatchLens(s)[i] = 0  BY <4>1, <5>1, MatchFacts
          <6>2. C[i - 1] = <<>>  BY <1>1, <5>1
          <6>. QED  BY <6>1, <6>2, SubSeqEmpty
        <5>2. CASE i > 1
          <6>1. C[i - 1] = s[i - 1]  BY <1>1, <4>1, <5>2
          <6>2. SubSeq(s[i - 1], 1, MatchLens(s)[i]) = SubSeq(s[i], 1, MatchLens(s)[i])
            <7>1. i > 1 => SubSeq(s[i - 1], 1, MatchLens(s)[i])
                           = SubSeq(s[i], 1, MatchLens(s)[i])
              BY <4>1, MatchFacts, Zenon
            <7>. QED  BY <5>2, <7>1
          <6>. QED  BY <6>1, <6>2
        <5>3. i = 1 \/ i > 1  BY <4>1, <3>2
        <5>. QED  BY <5>1, <5>2, <5>3, Zenon
      <4>3. SubSeq(s[i], 1, MatchLens(s)[i]) \o SuffixParts(s)[i] = s[i]
        BY <4>1, SuffixFacts
      <4>4. C[i] = s[i]  BY <1>1, <3>2
      <4>. QED  BY <3>2, <4>2, <4>3, <4>4
    <3>. QED  BY <3>1, <3>2
  <2>. QED  BY <2>1, Zenon DEF FiniteNatInductiveDefConclusion
<1>5. r = C  BY <1>1, <1>3, <1>4, FiniteNatInductiveUnique
<1>. QED  BY <1>1, <1>2, <1>5

(* Every input the Stream Host passes is a sequence of strings.           *)
LEMMA InputShape ==
    ASSUME NEW x \in Inputs
    PROVE  x \in Seq(Seq(Chars))
<1>1. BoundedSeq(Chars, MaxLen) \subseteq Seq(Chars)
  BY PrefixAssumption DEF BoundedSeq, SeqOf
<1>2. x \in BoundedSeq(BoundedSeq(Chars, MaxLen), MaxStrs)  BY DEF Inputs
<1>3. x \in Seq(BoundedSeq(Chars, MaxLen))
  BY <1>2, PrefixAssumption DEF BoundedSeq, SeqOf
<1>4. x \in [1..Len(x) -> Seq(Chars)] /\ Len(x) \in Nat  BY <1>1, <1>3
<1>. QED  BY <1>4, FunIsSeq, Zenon

(* The suffixes of ZS_encodePrefix fit the fieldSizesSum bytes of lines   *)
(* 31-36: each suffix is no longer than its string.                        *)
LEMMA SuffixSumBound ==
    ASSUME NEW s \in Seq(Seq(Chars))
    PROVE  /\ FieldSizesSum(SuffixParts(s)) \in Nat
           /\ FieldSizesSum(s) \in Nat
           /\ FieldSizesSum(SuffixParts(s)) <= FieldSizesSum(s)
<1> DEFINE p == SuffixParts(s)
           D == 1..Len(s)
           f == [i \in 1..Len(p) |-> Len(p[i])]
           g == [i \in 1..Len(s) |-> Len(s[i])]
<1>1. Len(p) = Len(s) /\ Len(s) \in Nat /\ p \in Seq(Seq(Chars))  BY PrefixOutShape
<1>2. IsFiniteSet(D)  BY <1>1, FS_Interval
<1>3. f \in [D -> Nat]  BY <1>1
<1>4. g \in [D -> Nat]  OBVIOUS
<1>5. \A x \in D : f[x] <= g[x]
  <2> TAKE x \in D
  <2>1. Len(p[x]) = Len(s[x]) - MatchLens(s)[x]  BY SuffixFacts
  <2>2. MatchLens(s)[x] \in Nat  BY MatchFacts
  <2>. QED  BY <1>1, <2>1, <2>2
<1> HIDE DEF f, g, D
<1>6. /\ SumFunction(f) \in Nat /\ SumFunction(g) \in Nat
      /\ SumFunction(f) <= SumFunction(g)
  BY <1>2, <1>3, <1>4, <1>5, SumFunctionMono, Zenon
<1>. QED  BY <1>6 DEF FieldSizesSum, f, g

-----------------------------------------------------------------------------
(* The inductive invariant: the type invariant and the round trip.        *)
IInv == TypeOK /\ PrefixRoundTrip

LEMMA InitIInv == Init => IInv
BY DEF Init, IInv, TypeOK, PrefixRoundTrip, NoOutput, Results

(* One successful call leaves an output the decoder inverts.               *)
LEMMA PrefixStep ==
    ASSUME IInv, Prefix
    PROVE  IInv'
<1>1. in \in Seq(Seq(Chars))  BY InputShape DEF IInv, TypeOK
<1>2. in' = in  BY DEF Prefix
<1>3. out' = [suffixes |-> SuffixParts(in), matches |-> MatchLens(in),
              cap |-> FieldSizesSum(in)]
  BY DEF Prefix
<1>4. status' \in Results  BY DEF Prefix, Results
<1>5. TypeOK'
  <2>1. SuffixParts(in) \in Seq(Seq(Chars)) /\ MatchLens(in) \in Seq(Nat)
    BY <1>1, PrefixOutShape
  <2>2. FieldSizesSum(in) \in Nat  BY <1>1, SuffixSumBound
  <2>. QED  BY <1>2, <1>3, <1>4, <2>1, <2>2 DEF IInv, TypeOK
<1>6. PrefixRoundTrip'
  <2>1. FieldSizesSum(SuffixParts(in)) <= FieldSizesSum(in)  BY <1>1, SuffixSumBound
  <2>2. \A i \in 2..Len(in) : MatchLens(in)[i] <= Len(in[i - 1])
    <3> TAKE i \in 2..Len(in)
    <3>. QED  BY <1>1, MatchFacts
  <2>3. Unprefixed(out') = in
    <3>1. out'.matches = MatchLens(in) /\ out'.suffixes = SuffixParts(in)  BY <1>3
    <3>. QED  BY <1>1, <3>1, PrefixDecodes
  <2>. QED  BY <1>2, <1>3, <2>1, <2>2, <2>3 DEF PrefixRoundTrip
<1>. QED  BY <1>5, <1>6 DEF IInv

LEMMA IInvStep == IInv /\ [Next]_vars => IInv'
<1> SUFFICES ASSUME IInv, [Next]_vars PROVE IInv'  OBVIOUS
<1>1. CASE PrefixAllocFail
  BY <1>1 DEF PrefixAllocFail, IInv, TypeOK, PrefixRoundTrip, Results
<1>2. CASE Prefix  BY <1>2, PrefixStep
<1>3. CASE NextInput
  BY <1>3 DEF NextInput, IInv, TypeOK, PrefixRoundTrip, NoOutput, Results
<1>4. CASE UNCHANGED vars
  BY <1>4 DEF vars, IInv, TypeOK, PrefixRoundTrip
<1>. QED  BY <1>1, <1>2, <1>3, <1>4 DEF Next

(* After every successful EI_prefix call, the suffix stream fits its      *)
(* fieldSizesSum capacity, no match outruns the string before it, and     *)
(* decoding the two outputs gives back the input strings, for every       *)
(* alphabet and every bound on the strings.                                *)
THEOREM PrefixRoundTripInvariant == Spec => []PrefixRoundTrip
<1>1. IInv => PrefixRoundTrip  BY DEF IInv
<1>. QED  BY InitIInv, IInvStep, <1>1, PTL DEF Spec

=============================================================================
