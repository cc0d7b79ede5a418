---------------------------- MODULE Diagnostics ----------------------------
(***************************************************************************)
(* The process-wide diagnostic accumulators of the bindings, here those of *)
(* EI_bitunpack (src/src/openzl/codecs/bitunpack/                          *)
(* encode_bitunpack_binding.c): static size_t EI_bitunpack_contentsize and *)
(* static double EI_bitunpack_time_ms.  Each invocation adds to them with *)
(* a plain `+=`, a load and a store with no lock, while spec.md section 5  *)
(* lets invocations run concurrently.                                      *)
(*                                                                         *)
(* One process is one invocation.  Each action is one line of the code:   *)
(* the parameter check of line 58, the load and the store of line 62, the *)
(* rest of the call (lines 64-103, whose outputs are per invocation), the *)
(* load and the store of line 110.  A racing load and store is undefined   *)
(* behaviour in C; on the targets it compiles to a load and a store of an *)
(* aligned word, so a racing store writes a stale sum (a lost update), the *)
(* outcome modelled here.                                                  *)
(***************************************************************************)
EXTENDS Naturals, Functions

CONSTANTS
    Procs,      \* the concurrent invocations
    Sizes,      \* content sizes of their inputs
    Durations   \* their durations, in clock ticks

VARIABLES
    call,          \* call[p]: [size, duration, paramOk, fits] of invocation p
    pc,            \* pc[p]: the line invocation p executes next
    tmp,           \* tmp[p]: the value its last load read
    contentsize,   \* EI_bitunpack_contentsize
    timeMs         \* EI_bitunpack_time_ms

vars == <<call, pc, tmp, contentsize, timeMs>>

Calls == [size : Sizes, duration : Durations, paramOk : BOOLEAN, fits : BOOLEAN]

Lines == {"getNbBits", "loadSize", "storeSize", "decode", "loadTime",
          "storeTime", "done"}

(* Where an invocation goes after getNbBits, line 58: ZL_TRY_LET_R returns *)
(* when the parameter is missing or invalid.                               *)
AfterGetNbBits(p) == IF call[p].paramOk THEN "loadSize" ELSE "done"

Init ==
    /\ call \in [Procs -> Calls]
    /\ pc = [p \in Procs |-> "getNbBits"]
    /\ tmp = [p \in Procs |-> 0]
    /\ contentsize = 0
    /\ timeMs = 0

(* Line 58.                                                                *)
GetNbBits(p) ==
    /\ pc[p] = "getNbBits"
    /\ pc' = [pc EXCEPT ![p] = AfterGetNbBits(p)]
    /\ UNCHANGED <<call, tmp, contentsize, timeMs>>

(* Line 62, the load of EI_bitunpack_contentsize += contentSize.           *)
LoadSize(p) ==
    /\ pc[p] = "loadSize"
    /\ tmp' = [tmp EXCEPT ![p] = contentsize]
    /\ pc' = [pc EXCEPT ![p] = "storeSize"]
    /\ UNCHANGED <<call, contentsize, timeMs>>

(* Line 62, the store.                                                     *)
StoreSize(p) ==
    /\ pc[p] = "storeSize"
    /\ contentsize' = tmp[p] + call[p].size
    /\ pc' = [pc EXCEPT ![p] = "decode"]
    /\ UNCHANGED <<call, tmp, timeMs>>

(* Lines 64-103: the size check, the allocation, the decode, the commit,  *)
(* the version gate and the header.  Their outputs belong to the          *)
(* invocation; only whether the call goes on to line 110 matters here.    *)
Decode(p) ==
    /\ pc[p] = "decode"
    /\ pc' = [pc EXCEPT ![p] = IF call[p].fits THEN "loadTime" ELSE "done"]
    /\ UNCHANGED <<call, tmp, contentsize, timeMs>>

(* Line 110, the load of EI_bitunpack_time_ms += current_duration.         *)
LoadTime(p) ==
    /\ pc[p] = "loadTime"
    /\ tmp' = [tmp EXCEPT ![p] = timeMs]
    /\ pc' = [pc EXCEPT ![p] = "storeTime"]
    /\ UNCHANGED <<call, contentsize, timeMs>>

(* Line 110, the store; line 111 prints and the call returns.             *)
StoreTime(p) ==
    /\ pc[p] = "storeTime"
    /\ timeMs' = tmp[p] + call[p].duration
    /\ pc' = [pc EXCEPT ![p] = "done"]
    /\ UNCHANGED <<call, tmp, contentsize>>

Next ==
    \E p \in Procs :
        \/ GetNbBits(p) \/ LoadSize(p) \/ StoreSize(p) \/ Decode(p)
        \/ LoadTime(p) \/ StoreTime(p)

Spec == Init /\ [][Next]_vars

-----------------------------------------------------------------------------
(* The sum of f over the invocations of S.                                 *)
SumOver(S, f(_)) == SumFunction([p \in S |-> f(p)])

(* Type invariant.                                                         *)
TypeOK ==
    /\ call \in [Procs -> Calls]
    /\ pc \in [Procs -> Lines]
    /\ tmp \in [Procs -> Nat]
    /\ contentsize \in Nat /\ timeMs \in Nat

(* spec.md section 5: concurrent invocations are independent.  Once they  *)
(* have all returned, the content-size accumulator holds the sum over all *)
(* that passed getNbBits, as it does when they run one after another.     *)
ContentSizeExact ==
    (\A p \in Procs : pc[p] = "done") =>
        contentsize = SumOver({p \in Procs : call[p].paramOk}, LAMBDA p : call[p].size)

=============================================================================
