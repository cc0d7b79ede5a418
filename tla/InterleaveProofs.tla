-------------------------- MODULE InterleaveProofs --------------------------
(***************************************************************************)
(* Proofs about EI_interleave (Interleave.tla) for any number of inputs   *)
(* up to ZL_INTERLEAVE_MAX_INPUTS and any number of strings per input.    *)
(***************************************************************************)
EXTENDS Interleave, TLAPS

(* The copy loop's slot arithmetic: string i of input j goes to output    *)
(* string (i - 1) * k + j, which lies in 1..m * k and which Slot maps     *)
(* back to row i and column j.                                             *)
LEMMA SlotInverse ==
    ASSUME NEW m \in Nat, NEW k \in Nat \ {0},
           NEW i \in 1..m, NEW j \in 1..k
    PROVE  /\ (i - 1) * k + j \in 1..m * k
           /\ Slot((i - 1) * k + j, m, k) = [row |-> i, col |-> j]
<1> DEFINE q == i - 1
           r == j - 1
<1>1. q \in Nat /\ r \in 0..(k - 1)  OBVIOUS
<1>2. (q * k + r) \div k = q /\ (q * k + r) % k = r  BY <1>1, SMT
<1>3. q * k <= (m - 1) * k  BY <1>1, SMT
<1>4. (m - 1) * k + k = m * k  BY SMT
<1>5. (i - 1) * k + j \in 1..m * k  BY <1>1, <1>3, <1>4, SMT
<1>6. (i - 1) * k + j - 1 = q * k + r  OBVIOUS
<1>. QED  BY <1>2, <1>5, <1>6 DEF Slot

(* What passing the checks of lines 18-42 tells of the inputs: there is   *)
(* at least one and all hold the same number of strings.                  *)
LEMMA CheckNone ==
    ASSUME NEW ins, CheckError(ins) = "none"
    PROVE  /\ Len(ins) # 0
           /\ \A j \in 1..Len(ins) : NumElts(ins[j]) = NumElts(ins[1])
BY DEF CheckError

(* A failed check is never reported as success.                            *)
LEMMA CheckNotOk ==
    ASSUME NEW ins
    PROVE  CheckError(ins) # "ok"
BY DEF CheckError

(* What a sequence of input streams of Inputs is made of.                  *)
LEMMA InputShape ==
    ASSUME NEW ins \in Inputs
    PROVE  /\ Len(ins) \in Nat
           /\ \A j \in 1..Len(ins) : ins[j].lens \in Seq(Nat)
<1>1. PICK n \in 0..MaxIns :
        ins \in [1..n -> [type : Types, lens : BoundedSeq(StrLens, MaxStrs)]]
  BY DEF Inputs, BoundedSeq, SeqOf
<1>2. Len(ins) = n  BY <1>1, InterleaveAssumption
<1>3. ASSUME NEW j \in 1..n PROVE ins[j].lens \in Seq(Nat)
  <2>0. ins[j].lens \in BoundedSeq(StrLens, MaxStrs)  BY <1>1
  <2>1. PICK l \in 0..MaxStrs : ins[j].lens \in [1..l -> StrLens]
    BY <2>0 DEF BoundedSeq, SeqOf
  <2>. QED  BY <2>1, InterleaveAssumption
<1>. QED  BY <1>2, <1>3, InterleaveAssumption

-----------------------------------------------------------------------------
(* The invariant the proof carries: the inputs are well formed, and the   *)
(* slots are right.                                                        *)
IInv == in \in Inputs /\ InterleaveSlots

(* The output lengths of one successful call.                              *)
LEMMA CallSlots ==
    ASSUME NEW ins \in Inputs, CheckError(ins) = "none"
    PROVE  LET k == Len(ins)
               m == NumElts(ins[1])
               o == Interleaved(ins)
           IN  /\ Len(o.lens) = m * k
               /\ \A j \in 1..k, i \in 1..m : o.lens[(i - 1) * k + j] = ins[j].lens[i]
<1> DEFINE k == Len(ins)
           m == NumElts(ins[1])
           s(p) == Slot(p, m, k)
           L == [p \in 1..m * k |-> ins[s(p).col].lens[s(p).row]]
<1>1. k \in Nat \ {0}  BY CheckNone, InputShape
<1>2. m \in Nat  BY <1>1, InputShape DEF NumElts
<1>3. Interleaved(ins).lens = L  BY DEF Interleaved
<1>4. Len(L) = m * k  BY <1>1, <1>2
<1>5. ASSUME NEW j \in 1..k, NEW i \in 1..m
      PROVE  L[(i - 1) * k + j] = ins[j].lens[i]
  <2>1. (i - 1) * k + j \in 1..m * k /\ s((i - 1) * k + j) = [row |-> i, col |-> j]
    BY <1>1, <1>2, SlotInverse
  <2>. QED  BY <2>1
<1>. QED  BY <1>3, <1>4, <1>5

(* Every step of EI_interleave keeps IInv.                                 *)
LEMMA IInvStep == IInv /\ [Next]_vars => IInv'
<1> SUFFICES ASSUME IInv, [Next]_vars PROVE IInv'  OBVIOUS
<1>1. CASE InterleaveReject
  <2>1. status' # "ok"  BY <1>1, CheckNotOk DEF InterleaveReject
  <2>. QED  BY <1>1, <2>1 DEF IInv, InterleaveSlots, InterleaveReject
<1>2. CASE InterleaveAllocFail
  BY <1>2 DEF IInv, InterleaveSlots, InterleaveAllocFail
<1>3. CASE InterleaveScratchFail
  BY <1>3 DEF IInv, InterleaveSlots, InterleaveScratchFail
<1>4. CASE InterleaveCall
  <2>1. in \in Inputs /\ in' = in /\ CheckError(in) = "none"
    BY <1>4 DEF IInv, InterleaveCall
  <2>2. out' = Interleaved(in)  BY <1>4 DEF InterleaveCall
  <2>. QED  BY <2>1, <2>2, CallSlots DEF IInv, InterleaveSlots
<1>5. CASE NextInput
  BY <1>5 DEF IInv, InterleaveSlots, NextInput
<1>6. CASE UNCHANGED vars
  BY <1>6 DEF IInv, InterleaveSlots, vars
<1>. QED  BY <1>1, <1>2, <1>3, <1>4, <1>5, <1>6 DEF Next

(* For any number of inputs and of strings, after a successful            *)
(* EI_interleave every string length of every input sits at the output    *)
(* position the decoder reads it from: InterleaveSlots always holds.      *)
THEOREM InterleaveSlotsInvariant == Spec => []InterleaveSlots
<1>1. Init => IInv  BY DEF Init, IInv, InterleaveSlots
<1>2. IInv /\ [Next]_vars => IInv'  BY IInvStep
<1>3. IInv => InterleaveSlots  BY DEF IInv
<1>. QED  BY <1>1, <1>2, <1>3, PTL DEF Spec

====
