---------------------------- MODULE StreamLemmas ----------------------------
(***************************************************************************)
(* Facts about the operators of ZLStream that the binding proofs cite:    *)
(* induction over an interval of naturals, the moduli of the narrow       *)
(* widths, and the little-endian byte encoding used by the delta and      *)
(* range-pack headers.                                                     *)
(*                                                                         *)
(* The recursive functions of ZLStream (LEBytes, FromLE) are unfolded     *)
(* with FiniteNatInductiveDef of NaturalsInduction.  Its operator          *)
(* argument is passed inside the opaque FiniteNatInductiveDef* wrappers,  *)
(* so that the provers only have to match it as a term.  Induction is     *)
(* obtained the same way, from FiniteNatInductiveUnique.                   *)
(***************************************************************************)
EXTENDS ZLStream, NaturalsInduction, FiniteSetTheorems, WellFoundedInduction,
        TLAPS

(* The hypothesis and the conclusion of induction over 0..n, with the     *)
(* predicate as an argument.                                               *)
IndHyp(Q(_), n) == Q(0) /\ \A i \in 1..n : (\A j \in 0..(i - 1) : Q(j)) => Q(i)
IndConcl(Q(_), n) == \A i \in 0..n : Q(i)

(* Complete induction over 0..n.  The function that is TRUE everywhere    *)
(* and the function "Q holds up to i" satisfy the same recursion, so they *)
(* are equal by FiniteNatInductiveUnique.                                  *)
LEMMA FiniteInduction ==
    ASSUME NEW Q(_), NEW n \in Nat, IndHyp(Q, n)
    PROVE  IndConcl(Q, n)
<1> DEFINE Upto(i) == \A j \in 0..i : Q(j)
           Step(x, i) == x /\ ((\A j \in 0..(i - 1) : Q(j)) => Q(i))
           A == [i \in 0..n |-> TRUE]
           B == [i \in 0..n |-> Upto(i)]
<1>1. FiniteNatInductiveDefConclusion(A, TRUE, Step, 0, n)
  <2>1. \A i \in 1..n : (\A j \in 0..(i - 1) : Q(j)) => Q(i)  BY DEF IndHyp
  <2>2. \A i \in 0..n : A[i] = IF i = 0 THEN TRUE ELSE Step(A[i - 1], i)
    <3> TAKE i \in 0..n
    <3>1. CASE i = 0  BY <3>1
    <3>2. CASE i # 0
      <4>1. i \in 1..n /\ i - 1 \in 0..n  BY <3>2
      <4>2. A[i] = TRUE /\ A[i - 1] = TRUE  BY <4>1
      <4>. QED  BY <4>1, <4>2, <3>2, <2>1, Zenon
    <3>. QED  BY <3>1, <3>2
  <2>. QED  BY <2>2, Zenon DEF FiniteNatInductiveDefConclusion
<1>2. FiniteNatInductiveDefConclusion(B, TRUE, Step, 0, n)
  <2>1. \A i \in 0..n : B[i] = IF i = 0 THEN TRUE ELSE Step(B[i - 1], i)
    <3> TAKE i \in 0..n
    <3>1. CASE i = 0
      <4>1. 0..i = {0}  BY <3>1
      <4>. QED  BY <4>1, <3>1 DEF IndHyp
    <3>2. CASE i # 0
      <4>1. i \in 1..n /\ i - 1 \in 0..n /\ 0..i = (0..(i - 1)) \cup {i}  BY <3>2
      <4>2. B[i] = Upto(i) /\ B[i - 1] = Upto(i - 1)  BY <4>1
      <4>. QED  BY <4>1, <4>2, <3>2, Zenon
    <3>. QED  BY <3>1, <3>2
  <2>. QED  BY <2>1, Zenon DEF FiniteNatInductiveDefConclusion
<1>3. A = B  BY <1>1, <1>2, FiniteNatInductiveUnique
<1>4. ASSUME NEW i \in 0..n PROVE Q(i)
  <2>1. B[i] = Upto(i) /\ A[i] = TRUE /\ i \in 0..i  OBVIOUS
  <2>. QED  BY <1>3, <2>1, Zenon
<1>. QED  BY <1>4 DEF IndConcl

(* A function on 1..m is a sequence of length m.                          *)
LEMMA FunIsSeq ==
    ASSUME NEW S, NEW m \in Nat, NEW f \in [1..m -> S]
    PROVE  f \in Seq(S) /\ Len(f) = m
OBVIOUS

(* The moduli of the 1-, 2- and 4-byte widths.                             *)
LEMMA ModulusValues ==
    /\ Modulus(1) = 256
    /\ Modulus(2) = 65536
    /\ Modulus(4) = 4294967296
BY DEF Modulus

LEMMA ModulusPositive ==
    ASSUME NEW w \in {1, 2, 4}
    PROVE  Modulus(w) \in Nat \ {0}
BY ModulusValues

(* The shifted values v, v \div 256, v \div 256^2, ... that LEBytes takes *)
(* its bytes from: the recursion of its LET holds and they are naturals.  *)
LEMMA LEBytesUnfold ==
    ASSUME NEW v \in Nat, NEW n \in Nat
    PROVE  LET sh == CHOOSE g : g = [i \in 0..n |-> IF i = 0 THEN v ELSE g[i - 1] \div 256]
           IN  /\ sh = [i \in 0..n |-> IF i = 0 THEN v ELSE sh[i - 1] \div 256]
               /\ sh \in [0..n -> Nat]
               /\ LEBytes(v, n) = [i \in 1..n |-> sh[i - 1] % 256]
<1> DEFINE sh == CHOOSE g : g = [i \in 0..n |-> IF i = 0 THEN v ELSE g[i - 1] \div 256]
           Def(x, i) == x \div 256
<1>1. FiniteNatInductiveDefHypothesis(sh, v, Def, 0, n)
  BY DEF FiniteNatInductiveDefHypothesis
<1>2. FiniteNatInductiveDefConclusion(sh, v, Def, 0, n)
  BY <1>1, FiniteNatInductiveDef
<1>5. sh = [i \in 0..n |-> IF i = 0 THEN v ELSE sh[i - 1] \div 256]
  BY <1>2 DEF FiniteNatInductiveDefConclusion
<1> HIDE DEF sh
<1>4. sh \in [0..n -> Nat]
  <2>1. IndHyp(LAMBDA i : sh[i] \in Nat, n)
    <3>1. sh[0] \in Nat  BY <1>5
    <3>2. ASSUME NEW i \in 1..n, \A j \in 0..(i - 1) : sh[j] \in Nat
          PROVE  sh[i] \in Nat
      <4>1. i \in 0..n /\ i # 0 /\ i - 1 \in 0..(i - 1)  OBVIOUS
      <4>2. sh[i] = sh[i - 1] \div 256  BY <4>1, <1>5
      <4>3. sh[i - 1] \in Nat  BY <4>1, <3>2
      <4>. QED  BY <4>2, <4>3
    <3>. QED  BY <3>1, <3>2 DEF IndHyp
  <2>2. IndConcl(LAMBDA i : sh[i] \in Nat, n)  BY <2>1, FiniteInduction
  <2>3. \A i \in 0..n : sh[i] \in Nat  BY <2>2 DEF IndConcl
  <2>. QED  BY <2>3, <1>5
<1>6. LEBytes(v, n) = [i \in 1..n |-> sh[i - 1] % 256]  BY DEF LEBytes, sh
<1>. QED  BY <1>4, <1>5, <1>6 DEF sh

(* The n bytes a header carries for a natural value.                       *)
LEMMA LEBytesShape ==
    ASSUME NEW v \in Nat, NEW n \in Nat
    PROVE  /\ LEBytes(v, n) \in Seq(0..255)
           /\ Len(LEBytes(v, n)) = n
<1> DEFINE sh == CHOOSE g : g = [i \in 0..n |-> IF i = 0 THEN v ELSE g[i - 1] \div 256]
<1>1. sh \in [0..n -> Nat] /\ LEBytes(v, n) = [i \in 1..n |-> sh[i - 1] % 256]
  BY LEBytesUnfold
<1> HIDE DEF sh
<1>2. LEBytes(v, n) \in [1..n -> 0..255]
  <2>1. ASSUME NEW i \in 1..n PROVE sh[i - 1] % 256 \in 0..255
    <3>1. sh[i - 1] \in Nat  BY <1>1
    <3>. QED  BY <3>1
  <2>2. [i \in 1..n |-> sh[i - 1] % 256] \in [1..n -> 0..255]  BY <2>1, Zenon
  <2>. QED  BY <1>1, <2>2, Zenon
<1>. QED  BY <1>2

(* The partial values FromLE accumulates, from the last byte down.        *)
LEMMA FromLEUnfold ==
    ASSUME NEW b \in Seq(0..255)
    PROVE  LET va == CHOOSE g : g = [k \in 0..Len(b) |->
                        IF k = 0 THEN 0 ELSE g[k - 1] * 256 + b[Len(b) - k + 1]]
           IN  /\ va = [k \in 0..Len(b) |->
                        IF k = 0 THEN 0 ELSE va[k - 1] * 256 + b[Len(b) - k + 1]]
               /\ FromLE(b) = va[Len(b)]
<1> DEFINE va == CHOOSE g : g = [k \in 0..Len(b) |->
                    IF k = 0 THEN 0 ELSE g[k - 1] * 256 + b[Len(b) - k + 1]]
           Def(x, k) == x * 256 + b[Len(b) - k + 1]
<1>0. Len(b) \in Nat  OBVIOUS
<1>1. FiniteNatInductiveDefHypothesis(va, 0, Def, 0, Len(b))
  BY DEF FiniteNatInductiveDefHypothesis
<1>2. FiniteNatInductiveDefConclusion(va, 0, Def, 0, Len(b))
  BY <1>0, <1>1, FiniteNatInductiveDef
<1>3. FromLE(b) = va[Len(b)]  BY DEF FromLE
<1>. QED  BY <1>2, <1>3 DEF FiniteNatInductiveDefConclusion

(* A header written with LEBytes in 1, 2 or 4 bytes reads back, through   *)
(* FromLE, as the value written, for every value that fits the width.     *)
LEMMA LERoundTrip ==
    ASSUME NEW w \in {1, 2, 4}, NEW v \in 0..(Modulus(w) - 1)
    PROVE  FromLE(LEBytes(v, w)) = v
<1> DEFINE sh == CHOOSE g : g = [i \in 0..w |-> IF i = 0 THEN v ELSE g[i - 1] \div 256]
           b  == LEBytes(v, w)
           va == CHOOSE g : g = [k \in 0..Len(b) |->
                    IF k = 0 THEN 0 ELSE g[k - 1] * 256 + b[Len(b) - k + 1]]
<1>1. v \in Nat /\ w \in Nat  OBVIOUS
<1>2. /\ sh = [i \in 0..w |-> IF i = 0 THEN v ELSE sh[i - 1] \div 256]
      /\ b = [i \in 1..w |-> sh[i - 1] % 256]
  BY <1>1, LEBytesUnfold
<1>3. b \in Seq(0..255) /\ Len(b) = w  BY <1>1, LEBytesShape
<1>4. /\ va = [k \in 0..Len(b) |-> IF k = 0 THEN 0 ELSE va[k - 1] * 256 + b[Len(b) - k + 1]]
      /\ FromLE(b) = va[Len(b)]
  BY <1>3, FromLEUnfold
<1> HIDE DEF sh, b, va
<1>5. /\ sh[0] = v
      /\ \A i \in 1..w : sh[i] = sh[i - 1] \div 256
      /\ \A i \in 1..w : b[i] = sh[i - 1] % 256
      /\ va[0] = 0
      /\ \A k \in 1..w : va[k] = va[k - 1] * 256 + b[w - k + 1]
      /\ FromLE(LEBytes(v, w)) = va[w]
  <2>1. sh[0] = v  BY <1>1, <1>2
  <2>2. ASSUME NEW i \in 1..w PROVE sh[i] = sh[i - 1] \div 256
    <3>1. i \in 0..w /\ i # 0  OBVIOUS
    <3>. QED  BY <3>1, <1>2
  <2>3. ASSUME NEW i \in 1..w PROVE b[i] = sh[i - 1] % 256  BY <1>2
  <2>4. va[0] = 0  BY <1>1, <1>3, <1>4
  <2>5. ASSUME NEW k \in 1..w PROVE va[k] = va[k - 1] * 256 + b[w - k + 1]
    <3>1. k \in 0..Len(b) /\ k # 0  BY <1>3
    <3>. QED  BY <3>1, <1>3, <1>4
  <2>6. FromLE(LEBytes(v, w)) = va[w]  BY <1>3, <1>4 DEF b
  <2>. QED  BY <2>1, <2>2, <2>3, <2>4, <2>5, <2>6
<1>6. CASE w = 1
  <2>1. v < 256  BY <1>6, ModulusValues
  <2>. QED  BY <1>5, <1>5, <1>6, <2>1
<1>7. CASE w = 2
  <2>1. v < 65536  BY <1>7, ModulusValues
  <2>2. b[1] = v % 256 /\ b[2] = (v \div 256) % 256  BY <1>5, <1>7
  <2>3. va[2] = b[2] * 256 + b[1]  BY <1>5, <1>7
  <2>4. b[2] * 256 + b[1] = v  BY <2>1, <2>2
  <2>. QED  BY <1>5, <1>7, <2>3, <2>4
<1>8. CASE w = 4
  <2>1. v < 4294967296  BY <1>8, ModulusValues
  <2>2. /\ b[1] = v % 256
        /\ b[2] = (v \div 256) % 256
        /\ b[3] = ((v \div 256) \div 256) % 256
        /\ b[4] = (((v \div 256) \div 256) \div 256) % 256
    BY <1>5, <1>8
  <2>3. va[4] = ((b[4] * 256 + b[3]) * 256 + b[2]) * 256 + b[1]  BY <1>5, <1>8
  <2>4. ((b[4] * 256 + b[3]) * 256 + b[2]) * 256 + b[1] = v  BY <2>1, <2>2
  <2>. QED  BY <1>5, <1>8, <2>3, <2>4
<1>. QED  BY <1>6, <1>7, <1>8

(* A non-empty sequence of integers has a largest element: by induction   *)
(* over its prefixes, keeping the position of the largest so far.         *)
LEMMA SeqHasMax ==
    ASSUME NEW s \in Seq(Int), Len(s) > 0
    PROVE  \E j \in 1..Len(s) : \A i \in 1..Len(s) : s[j] >= s[i]
<1> DEFINE n == Len(s) - 1
           Q(k) == \E j \in 1..(k + 1) : \A i \in 1..(k + 1) : s[j] >= s[i]
<1>1. n \in Nat  OBVIOUS
<1>2. IndHyp(LAMBDA k : Q(k), n)
  <2>1. Q(0)
    <3>1. 1..(0 + 1) = {1} /\ s[1] \in Int  OBVIOUS
    <3>. QED  BY <3>1
  <2>2. ASSUME NEW k \in 1..n, \A m \in 0..(k - 1) : Q(m) PROVE Q(k)
    <3>0. k - 1 \in 0..(k - 1)  OBVIOUS
    <3>1. Q(k - 1)  BY <2>2, <3>0
    <3>2. PICK j \in 1..k : \A i \in 1..k : s[j] >= s[i]  BY <3>1
    <3>3. s[k + 1] \in Int /\ s[j] \in Int  BY <1>1
    <3>4. CASE s[k + 1] >= s[j]
      <4>1. \A i \in 1..(k + 1) : s[k + 1] >= s[i]  BY <3>2, <3>3, <3>4
      <4>2. k + 1 \in 1..(k + 1)  OBVIOUS
      <4>. QED  BY <4>1, <4>2
    <3>5. CASE s[k + 1] < s[j]
      <4>1. \A i \in 1..(k + 1) : s[j] >= s[i]  BY <3>2, <3>3, <3>5
      <4>2. j \in 1..(k + 1)  OBVIOUS
      <4>. QED  BY <4>1, <4>2
    <3>6. s[k + 1] >= s[j] \/ s[k + 1] < s[j]  BY <3>3
    <3>. QED  BY <3>4, <3>5, <3>6, Zenon
  <2>. QED  BY <2>1, <2>2 DEF IndHyp
<1>3. IndConcl(LAMBDA k : Q(k), n)  BY <1>1, <1>2, FiniteInduction
<1>4. Q(n)
  <2>1. n \in 0..n  BY <1>1
  <2>. QED  BY <2>1, <1>3 DEF IndConcl
<1>. QED  BY <1>4

(* A non-empty sequence of integers has a smallest element.                *)
LEMMA SeqHasMin ==
    ASSUME NEW s \in Seq(Int), Len(s) > 0
    PROVE  \E j \in 1..Len(s) : \A i \in 1..Len(s) : s[j] <= s[i]
<1> DEFINE t == [i \in 1..Len(s) |-> -s[i]]
<1>1. t \in Seq(Int) /\ Len(t) = Len(s)  BY FunIsSeq
<1>2. PICK j \in 1..Len(s) : \A i \in 1..Len(s) : t[j] >= t[i]  BY <1>1, SeqHasMax
<1>3. \A i \in 1..Len(s) : s[j] <= s[i]  BY <1>2
<1>. QED  BY <1>3

(* Max and Min of the values of a non-empty sequence of integers are      *)
(* values of the sequence that bound all the others.                       *)
LEMMA SeqMaxMin ==
    ASSUME NEW s \in Seq(Int), Len(s) > 0
    PROVE  /\ \E j \in 1..Len(s) : Max(Range(s)) = s[j]
           /\ \E j \in 1..Len(s) : Min(Range(s)) = s[j]
           /\ \A i \in 1..Len(s) : Min(Range(s)) <= s[i] /\ s[i] <= Max(Range(s))
<1>1. Range(s) = {s[i] : i \in 1..Len(s)}  BY DEF Range
<1>2. \E x \in Range(s) : \A y \in Range(s) : x >= y  BY <1>1, SeqHasMax
<1>3. \E x \in Range(s) : \A y \in Range(s) : x <= y  BY <1>1, SeqHasMin
<1>4. Max(Range(s)) \in Range(s) /\ \A y \in Range(s) : Max(Range(s)) >= y
  BY <1>2 DEF Max
<1>5. Min(Range(s)) \in Range(s) /\ \A y \in Range(s) : Min(Range(s)) <= y
  BY <1>3 DEF Min
<1>. QED  BY <1>1, <1>4, <1>5

-----------------------------------------------------------------------------
(* SumFunction of the community modules is a fold over the subsets of the *)
(* domain: a recursive function that takes a chosen element out of a set  *)
(* and adds its value to the sum of the rest.  SumIter names that         *)
(* function, and SumDef its defining body.                                 *)
SumDef(fun, g, s) ==
    IF s = {} THEN 0
    ELSE fun[CHOOSE x \in s : TRUE] + g[s \ {CHOOSE x \in s : TRUE}]
SumIter(fun, D) == CHOOSE g : g = [s \in SUBSET D |-> SumDef(fun, g, s)]

(* The recursion equation of the fold on every subset of D.               *)
SumIterEq(fun, D) ==
    \A s \in SUBSET D : SumIter(fun, D)[s] = SumDef(fun, SumIter(fun, D), s)

(* Subsets of D ordered by their size.                                    *)
SubsetLess(D) ==
    {pp \in (SUBSET D) \X (SUBSET D) : Cardinality(pp[1]) < Cardinality(pp[2])}

LEMMA SumIsIter ==
    ASSUME NEW fun
    PROVE  SumFunction(fun) = SumIter(fun, DOMAIN fun)[DOMAIN fun]
BY DEF SumFunction, SumFunctionOnSet, FoldFunctionOnSet, MapThenFoldSet,
       SumIter, SumDef

(* Ordering the subsets of a finite set by size is well founded: a chain  *)
(* descending forever would give one of their sizes in Nat.               *)
LEMMA SubsetLessWF ==
    ASSUME NEW D, IsFiniteSet(D)
    PROVE  IsWellFoundedOn(SubsetLess(D), SUBSET D)
<1>1. \A s \in SUBSET D : Cardinality(s) \in Nat
  BY FS_Subset, FS_CardinalityType
<1>2. SUFFICES ASSUME NEW f \in [Nat -> SUBSET D],
                      \A n \in Nat : <<f[n + 1], f[n]>> \in SubsetLess(D)
               PROVE  FALSE
  BY DEF IsWellFoundedOn
<1> DEFINE c == [n \in Nat |-> Cardinality(f[n])]
<1>3. c \in [Nat -> Nat]  BY <1>1
<1>4. \A n \in Nat : <<c[n + 1], c[n]>> \in OpToRel(<, Nat)
  <2> TAKE n \in Nat
  <2>1. c[n + 1] = Cardinality(f[n + 1]) /\ c[n] = Cardinality(f[n])  OBVIOUS
  <2>2. Cardinality(f[n + 1]) < Cardinality(f[n])  BY <1>2 DEF SubsetLess
  <2>3. c[n + 1] \in Nat /\ c[n] \in Nat  BY <1>3
  <2>. QED  BY <2>1, <2>2, <2>3 DEF OpToRel
<1>. QED  BY <1>3, <1>4, NatLessThanWellFounded DEF IsWellFoundedOn

(* The fold satisfies its recursion equation on every subset of a finite  *)
(* domain (WFInductiveDef): the rest of a set after the chosen element is *)
(* a smaller subset.                                                       *)
LEMMA SumIterDef ==
    ASSUME NEW fun, NEW D, IsFiniteSet(D)
    PROVE  SumIterEq(fun, D)
<1> DEFINE Def(g, s) == SumDef(fun, g, s)
<1>1. IsWellFoundedOn(SubsetLess(D), SUBSET D)  BY SubsetLessWF
<1>2. WFDefOn(SubsetLess(D), SUBSET D, Def)
  <2> SUFFICES ASSUME NEW g, NEW h, NEW s \in SUBSET D,
                      \A y \in SetLessThan(s, SubsetLess(D), SUBSET D) : g[y] = h[y]
               PROVE  Def(g, s) = Def(h, s)
    BY DEF WFDefOn
  <2>1. CASE s = {}  BY <2>1 DEF SumDef
  <2>2. CASE s # {}
    <3> DEFINE x == CHOOSE x \in s : TRUE
    <3>1. x \in s  BY <2>2
    <3>2. IsFiniteSet(s) /\ Cardinality(s) \in Nat  BY FS_Subset, FS_CardinalityType
    <3>3. /\ Cardinality(s \ {x}) = Cardinality(s) - 1
          /\ s \ {x} \in SUBSET D
      BY <3>1, <3>2, FS_RemoveElement
    <3>4. s \ {x} \in SetLessThan(s, SubsetLess(D), SUBSET D)
      BY <3>2, <3>3 DEF SetLessThan, SubsetLess
    <3>. QED  BY <2>2, <3>4 DEF SumDef
  <2>. QED  BY <2>1, <2>2
<1>3. OpDefinesFcn(SumIter(fun, D), SUBSET D, Def)  BY DEF OpDefinesFcn, SumIter
<1>4. WFInductiveDefines(SumIter(fun, D), SUBSET D, Def)
  BY <1>1, <1>2, <1>3, WFInductiveDef
<1>. QED  BY <1>4 DEF WFInductiveDefines, SumIterEq

(* Sums of natural numbers over a finite domain are natural numbers, and  *)
(* a function no larger than another at every point has no larger sum:    *)
(* both folds take the elements of every subset in the same order.        *)
LEMMA SumFunctionMono ==
    ASSUME NEW D, IsFiniteSet(D), NEW f \in [D -> Nat], NEW g \in [D -> Nat],
           \A x \in D : f[x] <= g[x]
    PROVE  /\ SumFunction(f) \in Nat
           /\ SumFunction(g) \in Nat
           /\ SumFunction(f) <= SumFunction(g)
<1> DEFINE F == SumIter(f, D)
           G == SumIter(g, D)
           Q(k) == \A s \in SUBSET D :
                       Cardinality(s) = k => F[s] \in Nat /\ G[s] \in Nat /\ F[s] <= G[s]
           N == Cardinality(D)
<1>1. /\ \A s \in SUBSET D : F[s] = SumDef(f, F, s)
      /\ \A s \in SUBSET D : G[s] = SumDef(g, G, s)
  <2>1. SumIterEq(f, D) /\ SumIterEq(g, D)  BY SumIterDef
  <2>. QED  BY <2>1 DEF SumIterEq
<1>2. N \in Nat  BY FS_CardinalityType
<1> HIDE DEF F, G
<1>3. IndHyp(LAMBDA k : Q(k), N)
  <2>1. Q(0)
    <3> SUFFICES ASSUME NEW s \in SUBSET D, Cardinality(s) = 0
                 PROVE  F[s] \in Nat /\ G[s] \in Nat /\ F[s] <= G[s]
      OBVIOUS
    <3>1. s = {}  BY FS_Subset, FS_EmptySet
    <3>. QED  BY <1>1, <3>1 DEF SumDef
  <2>2. ASSUME NEW k \in 1..N, \A m \in 0..(k - 1) : Q(m) PROVE Q(k)
    <3> SUFFICES ASSUME NEW s \in SUBSET D, Cardinality(s) = k
                 PROVE  F[s] \in Nat /\ G[s] \in Nat /\ F[s] <= G[s]
      OBVIOUS
    <3>1. IsFiniteSet(s)  BY FS_Subset
    <3>2. s # {}  BY <3>1, FS_EmptySet
    <3> DEFINE x == CHOOSE x \in s : TRUE
    <3>3. x \in s /\ x \in D  BY <3>2
    <3>4. s \ {x} \in SUBSET D /\ Cardinality(s \ {x}) = k - 1
      BY <3>1, <3>3, FS_RemoveElement
    <3>5. Q(k - 1)  BY <2>2
    <3>6. /\ F[s \ {x}] \in Nat /\ G[s \ {x}] \in Nat
          /\ F[s \ {x}] <= G[s \ {x}]
      BY <3>4, <3>5
    <3>7. F[s] = f[x] + F[s \ {x}] /\ G[s] = g[x] + G[s \ {x}]
      BY <1>1, <3>2 DEF SumDef
    <3>8. f[x] \in Nat /\ g[x] \in Nat /\ f[x] <= g[x]  BY <3>3
    <3>. QED  BY <3>6, <3>7, <3>8
  <2>. QED  BY <2>1, <2>2 DEF IndHyp
<1>4. IndConcl(LAMBDA k : Q(k), N)  BY <1>2, <1>3, FiniteInduction
<1>5. F[D] \in Nat /\ G[D] \in Nat /\ F[D] <= G[D]
  <2>1. N \in 0..N  BY <1>2
  <2>. QED  BY <1>4, <2>1 DEF IndConcl
<1>6. SumFunction(f) = F[D] /\ SumFunction(g) = G[D]
  BY SumIsIter DEF F, G
<1>. QED  BY <1>5, <1>6

=============================================================================
