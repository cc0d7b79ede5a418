---------------------------- MODULE Interleave ----------------------------
(***************************************************************************)
(* EI_interleave (src/src/openzl/codecs/interleave/                       *)
(* encode_interleave_binding.c) takes k string streams of m strings each  *)
(* and writes one string stream of m * k strings in row-major order:      *)
(* string 1 of every input, then string 2 of every input, ...  The        *)
(* header is k as a little-endian uint32.                                  *)
(*                                                                         *)
(* The bytes of input j are the distinct values <<j, 1>>, <<j, 2>>, ...,  *)
(* so a byte taken from the wrong input or the wrong place is visible.    *)
(***************************************************************************)
EXTENDS ZLStream

CONSTANTS
    Types,     \* input types the graph may present: "string", "serial"
    StrLens,   \* lengths of the strings of the inputs
    MaxStrs,   \* the most strings in one input
    MaxIns     \* the most inputs of one call

ASSUME InterleaveAssumption ==
    /\ Types \subseteq {"string", "serial"}
    /\ StrLens \subseteq Nat
    /\ MaxStrs \in Nat /\ MaxIns \in Nat

(* ZL_INTERLEAVE_MAX_INPUTS (spec.md 4.10).                               *)
MaxInputs == 512

VARIABLES
    in,      \* the input streams of the call, a sequence
    out,     \* the string output: [lens, content]
    hdr,     \* the codec header the call sent
    status   \* "idle" before the call, then its result

vars == <<in, out, hdr, status>>

(* A string stream is its type and the lengths of its strings; a serial   *)
(* stream is given as one string of its bytes.                             *)
Inputs ==
    BoundedSeq([type : Types, lens : BoundedSeq(StrLens, MaxStrs)], MaxIns)

NoOutput == [lens |-> <<>>, content |-> <<>>]

Results == {"idle", "ok", "node_invalid_input", "temporaryLibraryLimitation",
            "allocation", "crash"}

(* ZL_Input_numElts, ZL_Input_contentSize and the bytes of input j.       *)
NumElts(x)     == Len(x.lens)
ContentSize(x) == SumFunction(x.lens)
Content(j, x)  == [p \in 1..ContentSize(x) |-> <<j, p>>]

(* The bytes of string i of input j: they follow the strings before it.   *)
StrBytes(j, x, i) ==
    LET off == SumFunction(SubSeq(x.lens, 1, i - 1))
    IN  SubSeq(Content(j, x), off + 1, off + x.lens[i])

(* The checks of lines 18-42, in order; "none" when they all pass.        *)
CheckError(ins) ==
    CASE Len(ins) = 0                                -> "node_invalid_input"
      [] Len(ins) > MaxInputs                        -> "node_invalid_input"
      [] \E i \in 1..Len(ins) : ins[i].type # "string" -> "temporaryLibraryLimitation"
      [] \E i \in 1..Len(ins) : NumElts(ins[i]) # NumElts(ins[1]) -> "node_invalid_input"
      [] OTHER                                       -> "none"

(* The header: (uint32_t)nbIns, four little-endian bytes; the cast keeps  *)
(* the value, since the checks bound nbIns by MaxInputs.                   *)
InterleaveHeader(ins) == LEBytes(Len(ins), 4)

(* A faulty copy loop that runs over the inputs outside and the strings   *)
(* inside: column-major order.                                             *)
SlotColumnMajor(p, m, k) == [row |-> ((p - 1) % m) + 1, col |-> (p - 1) \div m + 1]

(* Output string p of the copy loop of lines 60-69 (i over the strings,   *)
(* j over the inputs): string row of input col.                            *)
Slot(p, m, k) == [row |-> (p - 1) \div k + 1, col |-> ((p - 1) % k) + 1]

(* The output of the copy loop: lengths and bytes, slot after slot.       *)
Interleaved(ins) ==
    LET m == NumElts(ins[1])
        k == Len(ins)
        s(p) == Slot(p, m, k)
    IN  [lens    |-> [p \in 1..m * k |-> ins[s(p).col].lens[s(p).row]],
         content |-> FlattenSeq([p \in 1..m * k |->
                         StrBytes(s(p).col, ins[s(p).col], s(p).row)])]

-----------------------------------------------------------------------------
Init ==
    /\ in \in Inputs
    /\ out = NoOutput
    /\ hdr = <<>>
    /\ status = "idle"

(* A check of lines 18-42 fails: no header, no output.                    *)
InterleaveReject ==
    /\ status = "idle"
    /\ CheckError(in) # "none"
    /\ status' = CheckError(in)
    /\ UNCHANGED <<in, out, hdr>>

(* The header is sent at line 44, then ZL_Encoder_createStringStream      *)
(* returns NULL: the call fails with allocation after its header.          *)
InterleaveAllocFail ==
    /\ status = "idle"
    /\ CheckError(in) = "none"
    /\ hdr' = InterleaveHeader(in)
    /\ status' = "allocation"
    /\ UNCHANGED <<in, out>>

(* ZL_Encoder_getScratchSpace returns NULL (lines 52-55) and the loop of  *)
(* line 57 writes through it: the process crashes after the header and    *)
(* the output stream.                                                      *)
InterleaveScratchFail ==
    /\ status = "idle"
    /\ CheckError(in) = "none"
    /\ hdr' = InterleaveHeader(in)
    /\ status' = "crash"
    /\ UNCHANGED <<in, out>>

(* The whole call: header, output, row-major copy, commit of m * k.       *)
InterleaveCall ==
    /\ status = "idle"
    /\ CheckError(in) = "none"
    /\ hdr' = InterleaveHeader(in)
    /\ out' = Interleaved(in)
    /\ status' = IF CommitOk(NumElts(in[1]) * Len(in), NumElts(in[1]) * Len(in))
                 THEN "ok" ELSE "commit"
    /\ UNCHANGED in

(* The Stream Host starts the next call.                                   *)
NextInput ==
    /\ status # "idle"
    /\ in' \in Inputs
    /\ out' = NoOutput
    /\ hdr' = <<>>
    /\ status' = "idle"

Next ==
    \/ InterleaveReject \/ InterleaveAllocFail \/ InterleaveScratchFail
    \/ InterleaveCall \/ NextInput

Spec == Init /\ [][Next]_vars

-----------------------------------------------------------------------------
(* The decoder: k from the header, then input j is every k-th string of   *)
(* the output starting at string j.                                        *)
DecodedK(h) == FromLE(h)
OutStrBytes(o, p) ==
    LET off == SumFunction(SubSeq(o.lens, 1, p - 1))
    IN  SubSeq(o.content, off + 1, off + o.lens[p])
Deinterleaved(o, h, j) ==
    LET k == DecodedK(h)
        m == Len(o.lens) \div k
    IN  [lens    |-> [i \in 1..m |-> o.lens[(i - 1) * k + j]],
         content |-> FlattenSeq([i \in 1..m |-> OutStrBytes(o, (i - 1) * k + j)])]

(* Type invariant.                                                         *)
TypeOK ==
    /\ in \in Inputs
    /\ out \in [lens : Seq(Nat), content : Seq(Nat \X Nat)]
    /\ hdr \in Seq(0..255)
    /\ status \in Results

(* Splitting the output of a successful call with the header's input      *)
(* count gives back every input: its string lengths and its bytes.        *)
InterleaveRoundTrip ==
    status = "ok" =>
        /\ Len(hdr) = 4
        /\ DecodedK(hdr) = Len(in)
        /\ Len(out.lens) = NumElts(in[1]) * Len(in)
        /\ \A j \in 1..Len(in) :
              Deinterleaved(out, hdr, j) = [lens |-> in[j].lens, content |-> Content(j, in[j])]

(* The string lengths of the copy loop land where the decoder looks for   *)
(* them: string i of input j is output string (i - 1) * k + j, for every *)
(* input, which needs the check that all inputs hold m strings.           *)
InterleaveSlots ==
    status = "ok" =>
        LET k == Len(in)
            m == NumElts(in[1])
        IN  /\ Len(out.lens) = m * k
            /\ \A j \in 1..k, i \in 1..m : out.lens[(i - 1) * k + j] = in[j].lens[i]

=============================================================================
