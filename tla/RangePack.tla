----------------------------- MODULE RangePack -----------------------------
(***************************************************************************)
(* EI_rangePack (src/src/openzl/codecs/range_pack/                         *)
(* encode_range_pack_binding.c) subtracts the minimum from every element  *)
(* and stores the results in the narrowest width that holds max - min.    *)
(* The header is the source width, followed by the minimum in srcWidth    *)
(* little-endian bytes when it is not 0.                                   *)
(*                                                                         *)
(* ZL_computeUnsignedRange, NUMOP_numericWidthForValue and                 *)
(* rangePackEncode are not in this repository: they are modelled from     *)
(* spec.md 4.6 (an empty stream has the range [0, 0]).                     *)
(***************************************************************************)
EXTENDS ZLStream

CONSTANTS
    Widths,   \* element widths of the numeric inputs
    Vals,     \* the element values inputs are made of
    MaxElts   \* the longest input

ASSUME RangePackAssumption ==
    /\ Widths \subseteq IntWidths
    /\ Vals \subseteq Nat
    /\ MaxElts \in Nat

VARIABLES
    in,      \* the input stream: [width, elts]
    out,     \* the output stream the call created: [width, cap, elts]
    hdr,     \* the codec header the call sent
    status   \* "idle" before the call, then its result

vars == <<in, out, hdr, status>>

Inputs ==
    {x \in [width : Widths, elts : BoundedSeq(Vals, MaxElts)] :
        \A i \in 1..Len(x.elts) : x.elts[i] < Modulus(x.width)}

NoOutput == [width |-> 0, cap |-> 0, elts |-> <<>>]

Results == {"idle", "ok", "allocation", "commit"}

(* A faulty range scan whose loop starts at the second element.           *)
ElementRangeSkipFirst(s) ==
    IF Len(s) <= 1 THEN [min |-> 0, max |-> 0]
    ELSE [min |-> Min(Range(Tail(s))), max |-> Max(Range(Tail(s)))]

(* ZL_computeUnsignedRange: the smallest and the largest element.          *)
ElementRange(s) ==
    IF s = <<>> THEN [min |-> 0, max |-> 0]
    ELSE [min |-> Min(Range(s)), max |-> Max(Range(s))]

(* A faulty width choice that counts whole bytes of the value.            *)
NumericWidthBytes(v) == BytesFor(HighBit(v) + 1)

(* A faulty width choice that compares with < 2^(8w) - 1.                  *)
NumericWidthStrict(v) == CHOOSE w \in IntWidths :
    /\ v < Modulus(w) - 1
    /\ \A u \in IntWidths : u < w => v >= Modulus(u) - 1

(* NUMOP_numericWidthForValue: the narrowest width that holds v.          *)
NumericWidthForValue(v) == CHOOSE w \in IntWidths :
    /\ v < Modulus(w)
    /\ \A u \in IntWidths : u < w => v >= Modulus(u)

(* The header of lines 41-47.                                              *)
RangePackHeader(srcWidth, min) ==
    <<srcWidth>> \o (IF min # 0 THEN LEBytes(min, srcWidth) ELSE <<>>)

-----------------------------------------------------------------------------
Init ==
    /\ in \in Inputs
    /\ out = NoOutput
    /\ hdr = <<>>
    /\ status = "idle"

(* ZL_Encoder_createTypedStream(eictx, 0, nbElts, dstWidth) returns NULL. *)
RangePackAllocFail ==
    /\ status = "idle"
    /\ status' = "allocation"
    /\ UNCHANGED <<in, out, hdr>>

(* The call once the output exists: remap, commit nbElts, then the header.*)
(* A failed commit returns before the header is sent.                      *)
RangePack ==
    /\ status = "idle"
    /\ LET n        == Len(in.elts)
           range    == ElementRange(in.elts)
           dstWidth == NumericWidthForValue(range.max - range.min)
           ok       == CommitOk(n, n)
       IN  /\ out' = [width |-> dstWidth, cap |-> n,
                      elts |-> [i \in 1..n |-> in.elts[i] - range.min]]
           /\ hdr' = IF ok THEN RangePackHeader(in.width, range.min) ELSE <<>>
           /\ status' = IF ok THEN "ok" ELSE "commit"
    /\ UNCHANGED in

(* The Stream Host starts the next call.                                   *)
NextInput ==
    /\ status # "idle"
    /\ in' \in Inputs
    /\ out' = NoOutput
    /\ hdr' = <<>>
    /\ status' = "idle"

Next == RangePackAllocFail \/ RangePack \/ NextInput

Spec == Init /\ [][Next]_vars

-----------------------------------------------------------------------------
(* The decoder (spec.md 4.6): byte 0 is the source width, the rest of the *)
(* header the minimum, 0 when absent.                                      *)
DecodedMin(h) == IF Len(h) > 1 THEN FromLE(Tail(h)) ELSE 0

(* Type invariant.                                                         *)
TypeOK ==
    /\ in \in Inputs
    /\ out \in [width : {0} \cup IntWidths, cap : Nat, elts : Seq(Int)]
    /\ hdr \in Seq(0..255)
    /\ status \in Results

(* Round trip: each remapped element fits the destination width, and the  *)
(* header gives back the source width and the minimum, so adding it       *)
(* rebuilds every element.                                                 *)
RangePackRoundTrip ==
    status = "ok" =>
        /\ hdr[1] = in.width
        /\ Len(hdr) \in {1, 1 + in.width}
        /\ Len(out.elts) = Len(in.elts)
        /\ \A i \in 1..Len(in.elts) :
               /\ out.elts[i] \in 0..(Modulus(out.width) - 1)
               /\ out.elts[i] + DecodedMin(hdr) = in.elts[i]

(* The destination is the narrowest supported width: no narrower one      *)
(* holds max - min (spec.md 4.6 and the min = 100, max = 355 example of 8). *)
RangePackNarrowest ==
    status = "ok" =>
        \A w \in IntWidths : w < out.width =>
            \E i \in 1..Len(in.elts) : out.elts[i] >= Modulus(w)

-----------------------------------------------------------------------------
(* What a decoder makes of the outputs (spec.md 4.6): the source width    *)
(* from byte 0, and each stored element read back as a dstWidth-byte      *)
(* value, plus the minimum, in source-width arithmetic.                   *)
RangePackDecodedCall ==
    [width |-> hdr[1],
     elts  |-> [i \in 1..Len(out.elts) |->
                  ((out.elts[i] % Modulus(out.width)) + DecodedMin(hdr))
                      % Modulus(hdr[1])]]

Codec == INSTANCE CodecCall
             WITH Errors <- Results \ {"idle", "ok"},
                  result <- IF status = "ok" THEN <<RangePackDecodedCall>> ELSE <<>>

(* EI_rangePack keeps the promise of a codec call: every call returns     *)
(* once, a failed allocation or commit leaves nothing to decode, and a    *)
(* success leaves a stream and a header that decode to the call's input.  *)
RangePackImplementsCodec == Codec!Spec

=============================================================================
