------------------------------- MODULE Delta -------------------------------
(***************************************************************************)
(* EI_delta_int (src/src/openzl/codecs/delta/encode_delta_binding.c)      *)
(* replaces n numeric elements by their successive differences, modulo    *)
(* 2^(8 * width).  The first element travels in the output stream before  *)
(* format version 13 and in a width-byte codec header from version 13 on; *)
(* n = 0 commits an empty stream in both layouts.                          *)
(*                                                                         *)
(* The kernel ZS_deltaEncode (encode_delta_kernel.h) is not in this       *)
(* repository: it is modelled from spec.md 4.4.                            *)
(***************************************************************************)
EXTENDS ZLStream

CONSTANTS
    Widths,     \* element widths of the numeric inputs
    Vals,       \* the element values inputs are made of
    MaxElts,    \* the longest input
    Versions    \* format versions the compressor may be configured with

ASSUME DeltaAssumption ==
    /\ Widths \subseteq IntWidths
    /\ Vals \subseteq Nat
    /\ MaxElts \in Nat
    /\ Versions \subseteq Nat

VARIABLES
    in,      \* the call: [width, elts, version]
    out,     \* the output stream the call created: [width, cap, elts]
    hdr,     \* the codec header the call sent
    status   \* "idle" before the call, then its result

vars == <<in, out, hdr, status>>

Inputs ==
    {x \in [width : Widths, elts : BoundedSeq(Vals, MaxElts), version : Versions] :
        \A i \in 1..Len(x.elts) : x.elts[i] < Modulus(x.width)}

NoOutput == [width |-> 0, cap |-> 0, elts |-> <<>>]

Results == {"idle", "ok", "allocation", "commit"}

(* A faulty gate that keeps the legacy layout at version 13.              *)
DeltaMinVersionLate == 14

(* The first format version that moves the first element to the header.  *)
DeltaMinVersion == 13

(* A faulty kernel whose differences do not wrap around.                  *)
DeltaEncodeNoWrap(s, w) == [i \in 1..Len(s) - 1 |-> s[i + 1] - s[i]]

(* ZS_deltaEncode: the differences of successive elements, wrapping.     *)
DeltaEncode(s, w) == [i \in 1..Len(s) - 1 |-> (s[i + 1] - s[i]) % Modulus(w)]

-----------------------------------------------------------------------------
Init ==
    /\ in \in Inputs
    /\ out = NoOutput
    /\ hdr = <<>>
    /\ status = "idle"

(* ZL_Encoder_createTypedStream(eictx, 0, nbInts, intWidth) returns NULL. *)
DeltaAllocFail ==
    /\ status = "idle"
    /\ status' = "allocation"
    /\ UNCHANGED <<in, out, hdr>>

(* The whole call once the output exists: one of the three layouts, then  *)
(* the commit of its element count against the capacity nbInts.           *)
DeltaInt ==
    /\ status = "idle"
    /\ LET w == in.width
           n == Len(in.elts)
           Done(elts) ==
               /\ out' = [width |-> w, cap |-> n, elts |-> elts]
               /\ status' = IF CommitOk(Len(elts), n) THEN "ok" ELSE "commit"
       IN  \/ /\ n = 0
              /\ Done(<<>>)
              /\ hdr' = <<>>
           \/ /\ n > 0
              /\ in.version < DeltaMinVersion
              /\ Done(<<in.elts[1]>> \o DeltaEncode(in.elts, w))
              /\ hdr' = <<>>
           \/ /\ n > 0
              /\ in.version >= DeltaMinVersion
              /\ Done(DeltaEncode(in.elts, w))
              /\ hdr' = LEBytes(in.elts[1], w)
    /\ UNCHANGED in

(* The Stream Host starts the next call.                                   *)
NextInput ==
    /\ status # "idle"
    /\ in' \in Inputs
    /\ out' = NoOutput
    /\ hdr' = <<>>
    /\ status' = "idle"

Next == DeltaAllocFail \/ DeltaInt \/ NextInput

Spec == Init /\ [][Next]_vars

-----------------------------------------------------------------------------
(* A delta decoder of format version v (spec.md 4.4): it takes the first  *)
(* element from the header from version 13 on, from the stream before,   *)
(* and adds the differences back modulo 2^(8 * w).                        *)
DecoderMinVersion == 13
Undelta(first, deltas, w) ==
    LET acc[i \in 0..Len(deltas)] ==
            IF i = 0 THEN first ELSE (acc[i - 1] + deltas[i]) % Modulus(w)
    IN  [i \in 1..Len(deltas) + 1 |-> acc[i - 1]]
DeltaDecoded(h, elts, v, w) ==
    IF v >= DecoderMinVersion
    THEN IF h = <<>> THEN <<>> ELSE Undelta(FromLE(h), elts, w)
    ELSE IF elts = <<>> THEN <<>> ELSE Undelta(elts[1], Tail(elts), w)

(* Type invariant.                                                         *)
TypeOK ==
    /\ in \in Inputs
    /\ out \in [width : {0} \cup IntWidths, cap : Nat, elts : Seq(Nat)]
    /\ hdr \in Seq(0..255)
    /\ status \in Results

(* Round trip across both wire layouts: after a successful call a decoder *)
(* of the same format version rebuilds the input, including the empty     *)
(* input and differences that wrap below 0.                               *)
DeltaRoundTrip ==
    status = "ok" =>
        /\ out.width = in.width
        /\ DeltaDecoded(hdr, out.elts, in.version, in.width) = in.elts

-----------------------------------------------------------------------------
(* What a decoder of the call's format version makes of the outputs.     *)
DeltaDecodedCall ==
    [width   |-> out.width,
     elts    |-> DeltaDecoded(hdr, out.elts, in.version, out.width),
     version |-> in.version]

Codec == INSTANCE CodecCall
             WITH Errors <- Results \ {"idle", "ok"},
                  result <- IF status = "ok" THEN <<DeltaDecodedCall>> ELSE <<>>

(* EI_delta_int keeps the promise of a codec call in both wire layouts:  *)
(* every call returns once, a failure leaves nothing to decode, and a     *)
(* success leaves a stream and a header that decode to the call's input.  *)
DeltaImplementsCodec == Codec!Spec

=============================================================================
