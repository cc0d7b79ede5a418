------------------------------ MODULE ZLStream ------------------------------
(***************************************************************************)
(* What every encoder binding of src/src/openzl/codecs shares: the typed   *)
(* streams it reads and writes, the Stream Host's commit rule (spec.md     *)
(* section 6, the host itself is not part of this repository) and the      *)
(* bit-level view of a little-endian packed byte buffer that the bitpack    *)
(* kernels (common_bitpack_kernel.h, not in this repository) implement.    *)
(*                                                                         *)
(* A stream is a record [type, width, elts]: elts is the sequence of its   *)
(* elements as natural numbers, each < Modulus(width).                     *)
(***************************************************************************)
EXTENDS Naturals, Sequences, SequencesExt

(* The element widths a numeric stream may have (ZL_Type_numeric).         *)
IntWidths == {1, 2, 4, 8}

(* 2^(8*w): one more than the largest value of a w-byte unsigned element.  *)
Modulus(w) == 2^(8 * w)

(* floor(log2(v)) for v >= 1, and 0 for v = 0: the number of k in 1..63   *)
(* with 2^k <= v.  This is ZL_highbit64 on the values the callers pass.    *)
HighBit(v) == Cardinality({k \in 1..63 : 2^k <= v})

(* Bit k (0 = least significant) of the natural number v: (v >> k) & 1.   *)
Bit(v, k) == IF (v \div 2^k) % 2 = 1 THEN 1 ELSE 0

(* The natural number whose bits 0..len-1 are bitAt(lo), ..., bitAt(lo +   *)
(* len - 1): how a kernel reads a len-bit field starting at bit lo.        *)
FromBits(bitAt(_), lo, len) ==
    LET acc[k \in 0..len] ==
            IF k = 0 THEN 0 ELSE acc[k - 1] + bitAt(lo + k - 1) * 2^(k - 1)
    IN  acc[len]

(* Number of bytes that hold nbits bits: (nbits + 7) / 8 in C.             *)
BytesFor(nbits) == (nbits + 7) \div 8

(* Bit p of the byte buffer bytes, bytes filled from their low bit up.     *)
BufferBit(bytes, p) == Bit(bytes[p \div 8 + 1], p % 8)

(* The byte whose bits 0..7 are bitAt(lo), ..., bitAt(lo + 7).            *)
ByteOf(bitAt(_), lo) ==
    bitAt(lo) + 2 * bitAt(lo + 1) + 4 * bitAt(lo + 2) + 8 * bitAt(lo + 3)
    + 16 * bitAt(lo + 4) + 32 * bitAt(lo + 5) + 64 * bitAt(lo + 6)
    + 128 * bitAt(lo + 7)

(* The bytes of a buffer whose first nbits bits are bitAt(0), ...,         *)
(* bitAt(nbits - 1) and whose remaining bits, up to a byte boundary, are 0. *)
PackBits(bitAt(_), nbits) ==
    [j \in 1..BytesFor(nbits) |->
        ByteOf(LAMBDA p : IF p < nbits THEN bitAt(p) ELSE 0, 8 * (j - 1))]

(* The n little-endian bytes of v (ZL_writeLE64_N, and the byte order of  *)
(* a header written by memcpy on the little-endian targets).               *)
LEBytes(v, n) ==
    LET shifted[i \in 0..n] == IF i = 0 THEN v ELSE shifted[i - 1] \div 256
    IN  [i \in 1..n |-> shifted[i - 1] % 256]

(* The value of a little-endian byte sequence, as a decoder reads it.     *)
FromLE(bytes) ==
    LET val[k \in 0..Len(bytes)] ==
            IF k = 0 THEN 0 ELSE val[k - 1] * 256 + bytes[Len(bytes) - k + 1]
    IN  val[Len(bytes)]

(* Stream Host, spec.md section 6: commit(stream, n) fails when n exceeds *)
(* the capacity the stream was created with.                               *)
CommitOk(n, capacity) == n <= capacity

=============================================================================
