----------------------------- MODULE Bitunpack -----------------------------
(***************************************************************************)
(* EI_bitunpack (src/src/openzl/codecs/bitunpack/encode_bitunpack_binding.c)*)
(* reads a serial stream as consecutive nbBits-bit fields (nbBits is the   *)
(* local parameter ZL_Bitunpack_numBits) and writes them as elements of   *)
(* the narrowest width that holds nbBits bits.  Bits left over after the   *)
(* last whole field must fit in the last byte; from format version 7 on   *)
(* their non-zero value travels in a second header byte, before it they   *)
(* are an error.                                                           *)
(*                                                                         *)
(* The unpacking kernel (ZS_bitpackDecode) is not in this repository: it   *)
(* is modelled from spec.md 4.3 as reading little-endian bit fields.       *)
(***************************************************************************)
EXTENDS ZLStream

CONSTANTS
    Bytes,      \* byte values the source streams are made of
    MaxBytes,   \* the longest source stream
    Params,     \* values of ZL_Bitunpack_numBits the graph may set
    NoParam,    \* the parameter is not set (ZL_LP_INVALID_PARAMID)
    Versions    \* format versions the compressor may be configured with

ASSUME BitunpackAssumption ==
    /\ Bytes \subseteq 0..255
    /\ MaxBytes \in Nat
    /\ Params \subseteq Int
    /\ NoParam \notin Int
    /\ Versions \subseteq Nat

(* The first format version that carries non-zero trailing bits.          *)
RemBitsMinVersion == 7

VARIABLES
    in,      \* the call: [src, nbBits, version]
    out,     \* the output stream the call created: [width, cap, elts]
    hdr,     \* the codec header the call sent
    status   \* "idle" before the call, then its result

vars == <<in, out, hdr, status>>

Inputs == [src : BoundedSeq(Bytes, MaxBytes), nbBits : Params \cup {NoParam},
           version : Versions]

NoOutput == [width |-> 0, cap |-> 0, elts |-> <<>>]

Results == {"idle", "ok", "nodeParameter_invalid", "nodeParameter_invalidValue",
            "GENERIC", "allocation"}

(* getNbBits: the parameter must be set and lie in 1..64.                 *)
ParamSet(p)   == p # NoParam
ParamValid(p) == p \in 1..64

(* A faulty getEltWidth that rounds nbBits up to whole bytes.             *)
GetEltWidthBytes(nbBits) == BytesFor(nbBits)

(* getEltWidth: the narrowest element width holding nbBits bits.          *)
GetEltWidth(nbBits) ==
    IF nbBits <= 8 THEN 1 ELSE IF nbBits <= 16 THEN 2
    ELSE IF nbBits <= 32 THEN 4 ELSE 8

(* Derived quantities of EI_bitunpack for source src and width nbBits.    *)
NbElts(src, nbBits)    == (Len(src) * 8) \div nbBits
FitsWell(src, nbBits)  == BytesFor(NbElts(src, nbBits) * nbBits) = Len(src)
RemNbBits(src, nbBits) == Len(src) * 8 - NbElts(src, nbBits) * nbBits
(* A faulty remBits that keeps the low remNbBits bits of the last byte.    *)
RemBitsLow(src, nbBits) ==
    IF RemNbBits(src, nbBits) = 0 THEN 0
    ELSE src[Len(src)] % 2^RemNbBits(src, nbBits)

(* lastByte >> (8 - remNbBits): the top remNbBits bits of the last byte.  *)
RemBits(src, nbBits) ==
    IF RemNbBits(src, nbBits) = 0 THEN 0
    ELSE src[Len(src)] \div 2^(8 - RemNbBits(src, nbBits))

(* ZS_bitpackDecode: field i of the source, stored in an eltWidth-byte    *)
(* element (so truncated to it).                                           *)
BitpackDecode(src, nbBits, eltWidth) ==
    [i \in 1..NbElts(src, nbBits) |->
        FromBits(LAMBDA p : BufferBit(src, p), (i - 1) * nbBits, nbBits)
            % Modulus(eltWidth)]

-----------------------------------------------------------------------------
Init ==
    /\ in \in Inputs
    /\ out = NoOutput
    /\ hdr = <<>>
    /\ status = "idle"

(* getNbBits fails: the parameter is missing or out of 1..64.             *)
BitunpackBadParam ==
    /\ status = "idle"
    /\ \/ ~ParamSet(in.nbBits) /\ status' = "nodeParameter_invalid"
       \/ ParamSet(in.nbBits) /\ ~ParamValid(in.nbBits)
          /\ status' = "nodeParameter_invalidValue"
    /\ UNCHANGED <<in, out, hdr>>

(* The source size is not ceil(nbElts * nbBits / 8): a whole byte or more *)
(* would be left over.                                                      *)
BitunpackBadSize ==
    /\ status = "idle"
    /\ ParamSet(in.nbBits) /\ ParamValid(in.nbBits)
    /\ ~FitsWell(in.src, in.nbBits)
    /\ status' = "GENERIC"
    /\ UNCHANGED <<in, out, hdr>>

(* ZL_Encoder_createTypedStream returns NULL.                              *)
BitunpackAllocFail ==
    /\ status = "idle"
    /\ ParamSet(in.nbBits) /\ ParamValid(in.nbBits)
    /\ FitsWell(in.src, in.nbBits)
    /\ status' = "allocation"
    /\ UNCHANGED <<in, out, hdr>>

(* The rest of EI_bitunpack: decode and commit nbElts elements, then look *)
(* at the trailing bits.  Non-zero trailing bits below version 7 are an   *)
(* error returned after the output was committed and before any header.   *)
BitunpackDecode ==
    /\ status = "idle"
    /\ ParamSet(in.nbBits) /\ ParamValid(in.nbBits)
    /\ FitsWell(in.src, in.nbBits)
    /\ LET nbBits   == in.nbBits
           nbElts   == NbElts(in.src, nbBits)
           eltWidth == GetEltWidth(nbBits)
           remBits  == RemBits(in.src, nbBits)
       IN  /\ out' = [width |-> eltWidth, cap |-> nbElts,
                      elts |-> BitpackDecode(in.src, nbBits, eltWidth)]
           /\ \/ /\ remBits # 0
                 /\ in.version < RemBitsMinVersion
                 /\ hdr' = <<>>
                 /\ status' = "GENERIC"
              \/ /\ remBits # 0 => in.version >= RemBitsMinVersion
                 /\ hdr' = IF remBits # 0 THEN <<nbBits, remBits>> ELSE <<nbBits>>
                 /\ status' = "ok"
    /\ UNCHANGED in

(* The Stream Host starts the next call.                                   *)
NextInput ==
    /\ status # "idle"
    /\ in' \in Inputs
    /\ out' = NoOutput
    /\ hdr' = <<>>
    /\ status' = "idle"

Next ==
    \/ BitunpackBadParam \/ BitunpackBadSize \/ BitunpackAllocFail
    \/ BitunpackDecode \/ NextInput

Spec == Init /\ [][Next]_vars

-----------------------------------------------------------------------------
(* A decoder of format version v: it rebuilds the source bit stream from  *)
(* the elements and, from version 7 on, the remainder byte of the header.  *)
DecoderRemBits(h, v) ==
    IF v >= RemBitsMinVersion /\ Len(h) = 2 THEN h[2] ELSE 0
RebuiltBit(h, elts, v, p) ==
    IF p < Len(elts) * h[1] THEN Bit(elts[p \div h[1] + 1], p % h[1])
    ELSE Bit(DecoderRemBits(h, v), p - Len(elts) * h[1])

(* Type invariant.                                                         *)
TypeOK ==
    /\ in \in Inputs
    /\ out \in [width : {0} \cup IntWidths, cap : Nat, elts : Seq(Nat)]
    /\ hdr \in Seq(0..255)
    /\ status \in Results

(* No bit is lost: after a successful call a decoder of the same format   *)
(* version rebuilds every bit of the source from the elements and the     *)
(* header, so trailing bits are never dropped silently.                   *)
BitunpackLossless ==
    status = "ok" =>
        \A p \in 0..(Len(in.src) * 8 - 1) :
            RebuiltBit(hdr, out.elts, in.version, p) = BufferBit(in.src, p)

=============================================================================
