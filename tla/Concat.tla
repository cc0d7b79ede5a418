------------------------------ MODULE Concat ------------------------------
(***************************************************************************)
(* EI_concat (src/src/openzl/codecs/concat/encode_concat_binding.c)       *)
(* appends k >= 1 streams of one type and width into one stream and       *)
(* writes a k-element uint32 stream of their element counts.  For string  *)
(* inputs the content bytes and the per-string lengths are appended.      *)
(*                                                                         *)
(* The content of input k is modelled as the bytes <<k, 1>>, <<k, 2>>,    *)
(* ...: every byte is distinct, so any byte copied to the wrong place or  *)
(* not copied at all is visible.  uint32_t and size_t keep their widths   *)
(* (U32Modulus, SizeModulus); a model instance may scale both down.       *)
(***************************************************************************)
EXTENDS ZLStream

CONSTANTS
    Types,      \* input types: "serial", "struct", "numeric", "string"
    Widths,     \* element widths of the struct and numeric inputs
    Counts,     \* element counts of serial and numeric inputs
    StrLens,    \* lengths of the strings of string inputs
    MaxStrs,    \* the most strings in one string input
    MaxIns      \* the most inputs of one call

ASSUME ConcatAssumption ==
    /\ Types \subseteq {"serial", "struct", "numeric", "string"}
    /\ Widths \subseteq Nat \ {0}
    /\ Counts \subseteq Nat /\ StrLens \subseteq Nat
    /\ MaxStrs \in Nat /\ MaxIns \in Nat \ {0}

(* The moduli of uint32_t and size_t.                                     *)
U32Modulus  == 2^32
SizeModulus == 2^64

(* UINT32_MAX.                                                             *)
U32Max == U32Modulus - 1

VARIABLES
    in,      \* the input streams of the call, a sequence
    out,     \* the outputs: [sizes, width, content, lens]
    status   \* "idle" before the call, then its result

vars == <<in, out, status>>

(* A serial, struct or numeric stream is [type, width, n, lens |-> <<>>]; a string *)
(* stream has width 0 and the sequence of its string lengths.              *)
Stream ==
    {[type |-> "serial", width |-> 1, n |-> n, lens |-> <<>>] : n \in Counts}
    \cup {[type |-> t, width |-> w, n |-> n, lens |-> <<>>] :
            t \in {"struct", "numeric"}, w \in Widths, n \in Counts}
    \cup {[type |-> "string", width |-> 0, n |-> Len(l), lens |-> l] :
            l \in BoundedSeq(StrLens, MaxStrs)}

Inputs == {ins \in BoundedSeq({x \in Stream : x.type \in Types}, MaxIns) :
               Len(ins) >= 1}

NoOutput == [sizes |-> <<>>, width |-> 0, content |-> <<>>, lens |-> <<>>]

Results == {"idle", "ok", "node_unexpected_input_type", "node_invalid_input",
            "allocation", "commit", "crash"}

(* ZL_Input_numElts and ZL_Input_contentSize.                             *)
NumElts(x)     == x.n
ContentSize(x) == IF x.type = "string" THEN SumFunction(x.lens) ELSE x.n * x.width

(* The bytes of input k.                                                   *)
Content(k, x) == [p \in 1..ContentSize(x) |-> <<k, p>>]

(* A byte of the output buffer that no copy wrote: it belongs to no input. *)
Uninit == <<0, 0>>

(* ZL_overflowAddST(a, b, &r): true when a + b does not fit a size_t.     *)
OverflowAdd(a, b) == a + b >= SizeModulus

(* The first loop, lines 33-51: per input, in order, the type, the width, *)
(* the count < UINT32_MAX and the overflow of the running total.          *)
CountScan(ins) ==
    LET step[n \in 0..Len(ins)] ==
          IF n = 0 THEN [err |-> "none", total |-> 0]
          ELSE LET prev == step[n - 1]
                   x    == ins[n]
               IN  CASE prev.err # "none" -> prev
                     [] x.type # ins[1].type \/ x.width # ins[1].width ->
                          [prev EXCEPT !.err = "node_unexpected_input_type"]
                     [] NumElts(x) >= U32Max ->
                          [prev EXCEPT !.err = "node_invalid_input"]
                     [] OverflowAdd(prev.total, NumElts(x)) ->
                          [prev EXCEPT !.err = "node_invalid_input"]
                     [] OTHER -> [prev EXCEPT !.total = @ + NumElts(x)]
    IN  step[Len(ins)]

(* The second loop, lines 53-64: the overflow-checked content total.      *)
ContentScan(ins) ==
    LET step[n \in 0..Len(ins)] ==
          IF n = 0 THEN [err |-> "none", total |-> 0]
          ELSE LET prev == step[n - 1]
               IN  CASE prev.err # "none" -> prev
                     [] OverflowAdd(prev.total, ContentSize(ins[n])) ->
                          [prev EXCEPT !.err = "node_invalid_input"]
                     [] OTHER -> [prev EXCEPT !.total = @ + ContentSize(ins[n])]
    IN  step[Len(ins)]

(* Where the checks of lines 33-64 stop, "none" when they all pass.       *)
CheckError(ins) ==
    IF CountScan(ins).err # "none" THEN CountScan(ins).err
    ELSE IF ins[1].type = "string" THEN ContentScan(ins).err ELSE "none"

(* A faulty copy size that leaves eltWidth out of line 80 and copies one  *)
(* byte per element of a fixed-width input.                                *)
CopySizeNoWidth(x, eltWidth) ==
    IF x.type = "string" THEN ContentSize(x) % U32Modulus
    ELSE NumElts(x) % U32Modulus

(* The bytes copied from one input, lines 79-83: the uint32_t count       *)
(* sizesPtr[n] times eltWidth in size_t, and for strings                  *)
(* (uint32_t)ZL_Input_contentSize.                                         *)
CopySize(x, eltWidth) ==
    IF x.type = "string" THEN ContentSize(x) % U32Modulus
    ELSE ((NumElts(x) % U32Modulus) * eltWidth) % SizeModulus

-----------------------------------------------------------------------------
Init ==
    /\ in \in Inputs
    /\ out = NoOutput
    /\ status = "idle"

(* One of the checks of lines 33-64 returns an error.                     *)
ConcatReject ==
    /\ status = "idle"
    /\ CheckError(in) # "none"
    /\ status' = CheckError(in)
    /\ UNCHANGED <<in, out>>

(* ZL_Encoder_createTypedStream returns NULL for the sizes stream (line   *)
(* 67) or for the content stream (line 70).                                *)
ConcatAllocFail ==
    /\ status = "idle"
    /\ CheckError(in) = "none"
    /\ status' = "allocation"
    /\ UNCHANGED <<in, out>>

(* The string lengths are copied, lines 91-104, to the pointer            *)
(* ZL_Output_reserveStringLens returns, without a NULL check: when it     *)
(* fails and some input holds strings, the first memcpy writes through    *)
(* NULL.  The content copied before is lost with the call.                 *)
ConcatLensAllocFail ==
    /\ status = "idle"
    /\ CheckError(in) = "none"
    /\ in[1].type = "string"
    /\ CountScan(in).total > 0
    /\ status' = "crash"
    /\ UNCHANGED <<in, out>>

(* The rest of EI_concat when both streams are allocated: the sizes       *)
(* stream, the content copied input after input into a buffer of          *)
(* eltsCapacity * eltWidth bytes, the string lengths and the two commits. *)
(* The host provides that buffer only if its byte size fits a size_t.     *)
Concat ==
    /\ status = "idle"
    /\ CheckError(in) = "none"
    /\ LET isString     == in[1].type = "string"
           nbElts       == CountScan(in).total
           eltWidth     == IF isString THEN 1 ELSE in[1].width
           eltsCapacity == IF isString THEN ContentScan(in).total ELSE nbElts
           written      == FlattenSeq([k \in 1..Len(in) |->
                               SubSeq(Content(k, in[k]), 1, CopySize(in[k], eltWidth))])
           capBytes     == eltsCapacity * eltWidth
       IN  /\ capBytes < SizeModulus
           /\ out' = [sizes   |-> [k \in 1..Len(in) |-> NumElts(in[k]) % U32Modulus],
                      width   |-> eltWidth,
                      content |-> written \o [p \in 1..(capBytes - Len(written)) |-> Uninit],
                      lens    |-> IF isString
                                  THEN FlattenSeq([k \in 1..Len(in) |-> in[k].lens])
                                  ELSE <<>>]
           /\ status' = IF CommitOk(nbElts, nbElts) /\ CommitOk(Len(in), Len(in))
                        THEN "ok" ELSE "commit"
    /\ UNCHANGED in

(* The Stream Host starts the next call.                                   *)
NextInput ==
    /\ status # "idle"
    /\ in' \in Inputs
    /\ out' = NoOutput
    /\ status' = "idle"

Next == ConcatReject \/ ConcatAllocFail \/ ConcatLensAllocFail \/ Concat \/ NextInput

Spec == Init /\ [][Next]_vars

-----------------------------------------------------------------------------
(* How a decoder splits the output by the sizes stream (spec.md 4.9): the *)
(* elements, and for strings the lengths, of input k follow those of the  *)
(* inputs before it.                                                        *)
SumTo(f, k) == SumFunction([j \in 1..k |-> f[j]])
SplitLens(o, k) == SubSeq(o.lens, SumTo(o.sizes, k - 1) + 1, SumTo(o.sizes, k))
SplitBytes(o, k, isString) ==
    LET off == IF isString THEN SumFunction(SubSeq(o.lens, 1, SumTo(o.sizes, k - 1)))
               ELSE SumTo(o.sizes, k - 1) * o.width
        len == IF isString THEN SumFunction(SplitLens(o, k))
               ELSE o.sizes[k] * o.width
    IN  SubSeq(o.content, off + 1, off + len)

(* Type invariant.                                                         *)
TypeOK ==
    /\ in \in Inputs
    /\ out \in [sizes : Seq(0..(U32Modulus - 1)), width : Nat,
                content : Seq(Nat \X Nat), lens : Seq(Nat)]
    /\ status \in Results

(* Splitting the concatenated stream by its sizes stream gives back every *)
(* input exactly: its count, its bytes and, for strings, its lengths; and *)
(* the output holds no byte that no input supplied.                        *)
ConcatRoundTrip ==
    status = "ok" =>
        LET isString == in[1].type = "string"
        IN  /\ Len(out.sizes) = Len(in)
            /\ \A k \in 1..Len(in) :
                  /\ out.sizes[k] = NumElts(in[k])
                  /\ SplitBytes(out, k, isString) = Content(k, in[k])
                  /\ isString => SplitLens(out, k) = in[k].lens
            /\ \A p \in 1..Len(out.content) : out.content[p] # Uninit

=============================================================================
