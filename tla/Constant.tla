----------------------------- MODULE Constant -----------------------------
(***************************************************************************)
(* EI_constant_typed (src/src/openzl/codecs/constant/                      *)
(* encode_constant_binding.c) encodes a serial or struct stream whose     *)
(* elements are all byte-identical as one element plus a varint header    *)
(* holding the element count.  Empty and non-constant streams are         *)
(* rejected with an error.                                                 *)
(*                                                                         *)
(* An element is a member of Vals: only equality of elements matters.    *)
(* ZS_isConstantStream and ZS_encodeConstant are not in this repository    *)
(* and are modelled from spec.md 4.7.                      *)
(***************************************************************************)
EXTENDS ZLStream, Varint

CONSTANTS
    StructWidths,  \* element widths of the struct inputs
    Vals,          \* the distinct element values
    MaxElts        \* the longest input

ASSUME ConstantAssumption ==
    /\ StructWidths \subseteq Nat \ {0}
    /\ MaxElts \in Nat

VARIABLES
    in,      \* the input stream: [type, width, elts]
    out,     \* the output stream the call created: [width, cap, elts]
    hdr,     \* the codec header the call sent
    status   \* "idle" before the call, then its result

vars == <<in, out, hdr, status>>

Inputs ==
    {x \in [type : {"serial", "struct"}, width : {1} \cup StructWidths,
            elts : BoundedSeq(Vals, MaxElts)] :
        x.type = "serial" => x.width = 1}

NoOutput == [width |-> 0, cap |-> 0, elts |-> <<>>]

Results == {"idle", "ok", "srcSize_tooSmall", "node_invalid_input",
            "allocation", "commit"}

(* A faulty scan that compares only the first two elements.               *)
IsConstantStreamFirstTwo(s) ==
    \A i \in 1..Len(s) : i <= 2 => s[i] = s[1]

(* ZS_isConstantStream: every element equals the first.                   *)
IsConstantStream(s) == \A i \in 1..Len(s) : s[i] = s[1]

-----------------------------------------------------------------------------
Init ==
    /\ in \in Inputs
    /\ out = NoOutput
    /\ hdr = <<>>
    /\ status = "idle"

(* The input checks of lines 38-41, in order: empty, then not constant.   *)
ConstantReject ==
    /\ status = "idle"
    /\ \/ Len(in.elts) < 1 /\ status' = "srcSize_tooSmall"
       \/ Len(in.elts) >= 1 /\ ~IsConstantStream(in.elts)
          /\ status' = "node_invalid_input"
    /\ UNCHANGED <<in, out, hdr>>

(* ZL_Encoder_createTypedStream(eictx, 0, 1, eltWidth) returns NULL.      *)
ConstantAllocFail ==
    /\ status = "idle"
    /\ Len(in.elts) >= 1 /\ IsConstantStream(in.elts)
    /\ status' = "allocation"
    /\ UNCHANGED <<in, out, hdr>>

(* The call once the output exists: send the varint count, write the     *)
(* element, commit 1.                                                      *)
ConstantTyped ==
    /\ status = "idle"
    /\ Len(in.elts) >= 1 /\ IsConstantStream(in.elts)
    /\ hdr' = VarintEncode(Len(in.elts))
    /\ out' = [width |-> in.width, cap |-> 1, elts |-> <<in.elts[1]>>]
    /\ status' = IF CommitOk(1, 1) THEN "ok" ELSE "commit"
    /\ UNCHANGED in

(* The Stream Host starts the next call.                                   *)
NextInput ==
    /\ status # "idle"
    /\ in' \in Inputs
    /\ out' = NoOutput
    /\ hdr' = <<>>
    /\ status' = "idle"

Next == ConstantReject \/ ConstantAllocFail \/ ConstantTyped \/ NextInput

Spec == Init /\ [][Next]_vars

-----------------------------------------------------------------------------
(* Type invariant.                                                         *)
TypeOK ==
    /\ in \in Inputs
    /\ out \in [width : Nat, cap : Nat, elts : Seq(Vals)]
    /\ hdr \in Seq(0..255)
    /\ status \in Results

(* Round trip: a successful call was given a non-empty constant stream,   *)
(* and replicating the output element as many times as the header says   *)
(* rebuilds it.                                                            *)
ConstantRoundTrip ==
    status = "ok" =>
        /\ Len(out.elts) = 1
        /\ out.width = in.width
        /\ [i \in 1..VarintDecode(hdr) |-> out.elts[1]] = in.elts

-----------------------------------------------------------------------------
(* What a decoder makes of the outputs: the element replicated as many   *)
(* times as the varint header says, in a stream of the output's width;    *)
(* the stream type is fixed by the graph and travels with it.             *)
ConstantDecodedCall ==
    [type  |-> in.type,
     width |-> out.width,
     elts  |-> [i \in 1..VarintDecode(hdr) |-> out.elts[1]]]

Codec == INSTANCE CodecCall
             WITH Errors <- Results \ {"idle", "ok"},
                  result <- IF status = "ok" THEN <<ConstantDecodedCall>> ELSE <<>>

(* EI_constant_typed keeps the promise of a codec call: empty and         *)
(* non-constant inputs are errors with nothing to decode, and a success   *)
(* leaves one element and a header that decode to the call's input.       *)
ConstantImplementsCodec == Codec!Spec

=============================================================================
