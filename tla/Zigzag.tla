------------------------------ MODULE Zigzag ------------------------------
(***************************************************************************)
(* EI_zigzag_num (src/src/openzl/codecs/zigzag/encode_zigzag_binding.c)   *)
(* maps each element of a numeric stream, read as a two's complement      *)
(* signed integer of its width, to its zigzag code (v << 1) ^ (v >> (8w -  *)
(* 1)): 0, -1, 1, -2, ... become 0, 1, 2, 3, ...  Same count and width,   *)
(* no header.  The kernels ZL_zigzagEncode8/16/32/64 are not in this      *)
(* repository and are modelled from spec.md 4.5.                           *)
(***************************************************************************)
EXTENDS ZLStream

CONSTANTS
    Widths,   \* element widths of the numeric inputs
    Vals,     \* the element values inputs are made of
    MaxElts   \* the longest input

ASSUME ZigzagAssumption ==
    /\ Widths \subseteq IntWidths
    /\ Vals \subseteq Nat
    /\ MaxElts \in Nat

VARIABLES
    in,      \* the input stream: [width, elts]
    out,     \* the output stream the call created: [width, cap, elts]
    status   \* "idle" before the call, then its result

vars == <<in, out, status>>

Inputs ==
    {x \in [width : Widths, elts : BoundedSeq(Vals, MaxElts)] :
        \A i \in 1..Len(x.elts) : x.elts[i] < Modulus(x.width)}

NoOutput == [width |-> 0, cap |-> 0, elts |-> <<>>]

Results == {"idle", "ok", "allocation", "commit"}

(* The signed value of a w-byte element in two's complement.              *)
Signed(v, w) == IF v < Modulus(w) \div 2 THEN v ELSE v - Modulus(w)

(* A faulty zigzag that doubles the magnitude of negatives without the    *)
(* -1 of the xor with the sign mask.                                      *)
ZigzagNoOffset(v, w) ==
    LET s == Signed(v, w) IN IF s >= 0 THEN 2 * s ELSE -2 * s

(* A faulty zigzag that only shifts, without the xor with the sign mask. *)
ZigzagShiftOnly(v, w) == 2 * Signed(v, w)

(* ZL_zigzagEncode: 2s for s >= 0 and -2s - 1 for s < 0.                  *)
Zigzag(v, w) ==
    LET s == Signed(v, w) IN IF s >= 0 THEN 2 * s ELSE -2 * s - 1

-----------------------------------------------------------------------------
Init ==
    /\ in \in Inputs
    /\ out = NoOutput
    /\ status = "idle"

(* ZL_Encoder_createTypedStream(eictx, 0, nbInts, numWidth) returns NULL; *)
(* this is checked before the width assertion.                             *)
ZigzagAllocFail ==
    /\ status = "idle"
    /\ status' = "allocation"
    /\ UNCHANGED <<in, out>>

(* The call once the output exists: encode every element, commit nbInts.  *)
ZigzagNum ==
    /\ status = "idle"
    /\ LET w == in.width
           n == Len(in.elts)
       IN  /\ out' = [width |-> w, cap |-> n,
                      elts |-> [i \in 1..n |-> Zigzag(in.elts[i], w)]]
           /\ status' = IF CommitOk(n, n) THEN "ok" ELSE "commit"
    /\ UNCHANGED in

(* The Stream Host starts the next call.                                   *)
NextInput ==
    /\ status # "idle"
    /\ in' \in Inputs
    /\ out' = NoOutput
    /\ status' = "idle"

Next == ZigzagAllocFail \/ ZigzagNum \/ NextInput

Spec == Init /\ [][Next]_vars

-----------------------------------------------------------------------------
(* The zigzag decoder: (z >> 1) ^ -(z & 1), back to a w-byte element.     *)
Unzigzag(z, w) ==
    (IF z % 2 = 0 THEN z \div 2 ELSE -((z + 1) \div 2)) % Modulus(w)

(* Type invariant.                                                         *)
TypeOK ==
    /\ in \in Inputs
    /\ out \in [width : {0} \cup IntWidths, cap : Nat, elts : Seq(Nat)]
    /\ status \in Results

(* Every code fits the element width, including the most negative value  *)
(* -2^(8w-1), and decoding gives back the element: zigzag is a bijection  *)
(* on w-byte elements.                                                     *)
ZigzagRoundTrip ==
    status = "ok" =>
        /\ out.width = in.width
        /\ Len(out.elts) = Len(in.elts)
        /\ \A i \in 1..Len(in.elts) :
               /\ out.elts[i] \in 0..(Modulus(in.width) - 1)
               /\ Unzigzag(out.elts[i], in.width) = in.elts[i]

-----------------------------------------------------------------------------
(* What a decoder makes of the outputs: the width and the unzigzagged     *)
(* elements.                                                               *)
ZigzagDecoded ==
    [width |-> out.width,
     elts  |-> [i \in 1..Len(out.elts) |-> Unzigzag(out.elts[i], out.width)]]

Codec == INSTANCE CodecCall
             WITH Errors <- Results \ {"idle", "ok"},
                  result <- IF status = "ok" THEN <<ZigzagDecoded>> ELSE <<>>

(* EI_zigzag_num keeps the promise of a codec call: every call returns    *)
(* once, an error leaves nothing to decode, and a success leaves outputs  *)
(* that decode to exactly the input of that call.                         *)
ZigzagImplementsCodec == Codec!Spec

=============================================================================
