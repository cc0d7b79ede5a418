------------------------------ MODULE Bitpack ------------------------------
(***************************************************************************)
(* EI_bitpack_typed (src/src/openzl/codecs/bitpack/encode_bitpack_binding.c)*)
(* packs the n elements of a serial or numeric stream into the fewest bits *)
(* that hold the largest of them and sends a one or two byte header:       *)
(* byte 0 is log2(eltWidth) << 6 | (nbBits - 1), byte 1, when present, the  *)
(* number of padding elements a decoder finds at the end of the buffer.    *)
(*                                                                         *)
(* One step of the specification is one whole call of the binding; the    *)
(* Stream Host then hands it the next input.  The packing kernel           *)
(* (ZS_bitpackEncode) is not in this repository: it is modelled from       *)
(* spec.md 4.2 as little-endian bit packing.                               *)
(***************************************************************************)
EXTENDS ZLStream

CONSTANTS
    Widths,   \* element widths of the numeric inputs the host presents
    Vals,     \* the element values inputs are made of
    MaxElts   \* the longest input

ASSUME BitpackAssumption ==
    /\ Widths \subseteq IntWidths
    /\ Vals \subseteq Nat
    /\ MaxElts \in Nat

VARIABLES
    in,      \* the input stream of the current call
    out,     \* the output stream the call created: [width, cap, elts]
    hdr,     \* the codec header the call sent, a sequence of bytes
    status   \* "idle" before the call, then its result

vars == <<in, out, hdr, status>>

(* The streams the host may pass: serial streams have width 1.             *)
Inputs ==
    {x \in [type : {"serial", "numeric"}, width : Widths,
            elts : BoundedSeq(Vals, MaxElts)] :
        /\ \A i \in 1..Len(x.elts) : x.elts[i] < Modulus(x.width)
        /\ x.type = "serial" => x.width = 1}

(* No output stream created yet.                                           *)
NoOutput == [width |-> 0, cap |-> 0, elts |-> <<>>]

Results == {"idle", "ok", "GENERIC", "allocation", "commit"}

(* checkEtlWidth: the widths bitpack supports.                             *)
CheckEltWidth(w) == w \in IntWidths

(* A faulty computeMaxValue whose loop stops one element early.           *)
ComputeMaxValueSkipLast(s) == Max({0} \cup Range(SubSeq(s, 1, Len(s) - 1)))

(* computeMaxValue8/16/32/64: the largest element, 0 for an empty stream.  *)
ComputeMaxValue(s) == Max({0} \cup Range(s))

(* computeNbBits: 1 + highbit(max), one bit even when max is 0.            *)
ComputeNbBits(s) ==
    LET maxValue == ComputeMaxValue(s)
    IN  1 + (IF maxValue = 0 THEN 0 ELSE HighBit(maxValue))

(* ZS_bitpackEncodeBound: bytes needed for n elements of nbBits bits.      *)
BitpackEncodeBound(n, nbBits) == BytesFor(n * nbBits)

(* ZS_bitpackEncode: element i occupies bits (i-1)*nbBits .. i*nbBits-1.   *)
BitpackEncode(s, nbBits) ==
    PackBits(LAMBDA p : Bit(s[p \div nbBits + 1], p % nbBits), Len(s) * nbBits)

(* The table log2EltWidth[9] of EI_bitpack_typed, indexed by eltWidth.     *)
Log2EltWidth == <<0, 0, 1, 0, 2, 0, 0, 0, 3>>

(* A faulty header that sends the padding byte even when it is 0.         *)
BitpackHeaderAlwaysPad(eltWidth, nbBits, nbElts, maxNbElts) ==
    <<Log2EltWidth[eltWidth + 1] * 64 + (nbBits - 1), maxNbElts - nbElts>>

(* The header: nbBits and eltWidth, then the padding count if any.        *)
BitpackHeader(eltWidth, nbBits, nbElts, maxNbElts) ==
    LET first == Log2EltWidth[eltWidth + 1] * 64 + (nbBits - 1)
    IN  IF maxNbElts > nbElts THEN <<first, maxNbElts - nbElts>> ELSE <<first>>

-----------------------------------------------------------------------------
Init ==
    /\ in \in Inputs
    /\ out = NoOutput
    /\ hdr = <<>>
    /\ status = "idle"

(* A faulty EI_bitpack_typed that creates its output stream with the      *)
(* input's element width instead of bytes.                                 *)
BitpackTypedInputWidth ==
    /\ status = "idle"
    /\ CheckEltWidth(in.width)
    /\ LET nbBits == ComputeNbBits(in.elts)
           dst    == BitpackEncode(in.elts, nbBits)
       IN  /\ out' = [width |-> in.width,
                      cap |-> BitpackEncodeBound(Len(in.elts), nbBits), elts |-> dst]
           /\ hdr' = BitpackHeader(in.width, nbBits, Len(in.elts),
                                   (Len(dst) * 8) \div nbBits)
           /\ status' = "ok"
    /\ UNCHANGED in

(* EI_bitpack_typed when the host allocates the output: pack, send the    *)
(* header, commit dstSize bytes.                                           *)
BitpackTyped ==
    /\ status = "idle"
    /\ CheckEltWidth(in.width)
    /\ LET nbBits      == ComputeNbBits(in.elts)
           dstCapacity == BitpackEncodeBound(Len(in.elts), nbBits)
           dst         == BitpackEncode(in.elts, nbBits)
           maxNbElts   == (Len(dst) * 8) \div nbBits
       IN  /\ out' = [width |-> 1, cap |-> dstCapacity, elts |-> dst]
           /\ hdr' = BitpackHeader(in.width, nbBits, Len(in.elts), maxNbElts)
           /\ status' = IF CommitOk(Len(dst), dstCapacity) THEN "ok" ELSE "commit"
    /\ UNCHANGED in

(* EI_bitpack_typed when ZL_Encoder_createTypedStream returns NULL.        *)
BitpackAllocFail ==
    /\ status = "idle"
    /\ CheckEltWidth(in.width)
    /\ status' = "allocation"
    /\ UNCHANGED <<in, out, hdr>>

(* The Stream Host starts the next call on a fresh input.                 *)
NextInput ==
    /\ status # "idle"
    /\ in' \in Inputs
    /\ out' = NoOutput
    /\ hdr' = <<>>
    /\ status' = "idle"

Next == BitpackTyped \/ BitpackAllocFail \/ NextInput

Spec == Init /\ [][Next]_vars

-----------------------------------------------------------------------------
(* How a decoder reads the header and the packed buffer (spec.md 4.2).    *)
DecodedWidth(h)  == 2^(h[1] \div 64)
DecodedNbBits(h) == (h[1] % 64) + 1
DecodedCount(h, nbBytes) ==
    (nbBytes * 8) \div DecodedNbBits(h) - (IF Len(h) = 2 THEN h[2] ELSE 0)
Decoded(h, bytes) ==
    [i \in 1..DecodedCount(h, Len(bytes)) |->
        FromBits(LAMBDA p : BufferBit(bytes, p),
                 (i - 1) * DecodedNbBits(h), DecodedNbBits(h))]

(* Type invariant.                                                         *)
TypeOK ==
    /\ in \in Inputs
    /\ out \in [width : {0, 1}, cap : Nat, elts : Seq(0..255)]
    /\ hdr \in Seq(0..255)
    /\ status \in Results

(* After a successful call the header tells a decoder the element width   *)
(* of the input and, with the committed size, exactly how many elements   *)
(* were packed: the padding count of byte 1 is 1..7 when present (the    *)
(* assertions of EI_bitpack_typed at maxNbElts - nbElts < 8 and < 256).    *)
HeaderDecodes ==
    status = "ok" =>
        /\ Len(hdr) \in {1, 2}
        /\ DecodedWidth(hdr) = in.width
        /\ DecodedCount(hdr, Len(out.elts)) = Len(in.elts)
        /\ Len(hdr) = 2 => hdr[2] \in 1..7

(* Round trip: decoding the committed buffer with the header gives back   *)
(* the input elements, so nbBits is wide enough for every element.        *)
BitpackRoundTrip ==
    status = "ok" => Decoded(hdr, out.elts) = in.elts

=============================================================================
