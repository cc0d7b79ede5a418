# Verification of the OpenZL encoder bindings

This directory holds TLA+ models of the codec encoder bindings of
`src/src/openzl/codecs/*/encode_*_binding.c`, TLC configurations that check
them on small instances, and TLAPS proofs of their central invariants.
`PROJECT.json` lists every component, run, mutant, source mapping, hazard and
theorem. This file explains them.

## 1. The system

Each binding is one C function. The Stream Host (the container runtime, not in
this repository, spec.md section 6) calls it once per invocation with its
input streams. The binding:

- validates the inputs and the parameters;
- asks the host for output streams (`ZL_Encoder_createTypedStream`), which may
  fail with `allocation`;
- runs a kernel over the data (the kernels, `*_kernel.h`, are not in this
  repository);
- sends a small codec header (`ZL_Encoder_sendCodecHeader`);
- commits the final size of each output (`ZL_Output_commit`), which fails
  above the allocated capacity;
- adds the call's duration, and sometimes its content size, to process-wide
  `static` accumulators and prints them.

Calls are synchronous. A binding shares nothing with another binding except
those accumulators. The contract a binding keeps is with the decoder: the
header plus the outputs must let a decoder rebuild the input exactly.

### Inventory

| Component | Source | State touched by a call | Operations (early returns, in order) |
|---|---|---|---|
| Bit-width analysis | bitpack 23-98 | none (pure) | computeMaxValue*, computeNbBits, checkEtlWidth |
| Bitpack | bitpack 100-182 | output stream, header, status, accumulators | width check, allocation, pack, header (1 or 2 bytes), commit |
| Bitunpack | bitunpack 20-113 | output stream, header, status, accumulators | parameter unset / out of range, size mismatch, allocation, decode, commit, version gate on trailing bits, header |
| Delta | delta 15-60 | output, header | allocation, n = 0, version < 13 layout, version >= 13 layout |
| Zigzag | zigzag 12-55 | output | allocation, elementwise map, commit |
| Range pack | range_pack 18-59 | output, header | min/max, width, allocation, remap, commit, header |
| Constant | constant 20-80 | output, header | empty, not constant, allocation, varint header, commit |
| Flatpack | flatpack 11-56 | two outputs | two allocations, kernel (error only asserted), two commits |
| Concat | concat 23-141 | two outputs | type/width homogeneity, count < UINT32_MAX, overflow of the totals, two allocations, copy, commits |
| Interleave | interleave 11-81 | output, header | input count, string type, equal counts, header, allocation, scratch, row-major copy, commit |
| Prefix | prefix 15-74 | two outputs | three allocations, kernel, two commits |
| Quantize | quantize 15-84 | two outputs | type, width 4, two allocations, kernel, two commits |
| Diagnostics | every binding | static accumulators | read-modify-write after the work |

What is hard to test here is listed as hazards in `PROJECT.json`. In short:

- the header arithmetic at the boundaries (padding slots, 64-bit fields, the
  trailing bits of bitunpack);
- the format-version gates (bitunpack at 7, delta at 13);
- errors returned after something was already committed or sent;
- casts to `uint32_t` in concat;
- the unchecked scratch allocation of interleave;
- the unsynchronised static accumulators, which race when invocations run
  concurrently as spec.md section 5 allows.

## 2. Modules

- `ZLStream.tla` holds what the bindings share:
  - the element widths and value ranges;
  - the bit-level view of a little-endian packed buffer (`Bit`,
    `BufferBit`, `ByteOf`, `PackBits`, `FromBits`), which is how the bitpack
    kernels lay out bits (spec.md 4.2, 4.3);
  - `HighBit`, standing for `ZL_highbit64`;
  - the host's commit rule `CommitOk`.
- `Bitpack.tla` models `EI_bitpack_typed`.
  - State: `in` (the input stream), `out` (the created output,
    `[width, cap, elts]`), `hdr` (the header bytes sent) and `status`.
  - One step is a whole call. `BitpackTyped` covers pack, header and commit.
    `BitpackAllocFail` is the call when `createTypedStream` returns NULL.
    `NextInput` is the host starting the next call.
  - `ComputeMaxValue`, `ComputeNbBits`, `CheckEltWidth`, `Log2EltWidth` and
    `BitpackHeader` translate the binding's helpers and header code.
    `BitpackEncode` is the kernel.
  - `Decoded*` is how a decoder reads the header (spec.md 4.2).
- `Bitunpack.tla` models `EI_bitunpack`.
  - The state is the same, and `in` also holds the `nbBits` parameter (or
    `NoParam`) and the format version.
  - Each early return is an action:
    - `BitunpackBadParam`, two disjuncts, for getNbBits' two errors;
    - `BitunpackBadSize`;
    - `BitunpackAllocFail`;
    - `BitunpackDecode`, which commits the output and then either fails on
      non-zero trailing bits below version 7 or sends the 1- or 2-byte
      header.
  - `RebuiltBit` is how a decoder of the same version rebuilds the source
    bits.
- `Delta.tla` models `EI_delta_int`.
  - `DeltaAllocFail` is the NULL output.
  - `DeltaInt` is the rest of the call, with one disjunct per branch:
    - n = 0 commits nothing;
    - below version 13 the output is the first element followed by the n-1
      wrap-around differences;
    - from version 13 on the output is the differences and the first
      element is sent as a width-byte little-endian header.
  - `DeltaDecoded` is a decoder of the same version.
- `Zigzag.tla` models `EI_zigzag_num`: the allocation failure, and the call
  (the width switch and the commit). `Zigzag(v, w)` is the kernel on the
  two's-complement reading `Signed(v, w)` of an element.
- `RangePack.tla` models `EI_rangePack`:
  - `ElementRange` (`ZL_computeUnsignedRange`);
  - `NumericWidthForValue` (the narrowest width holding max - min);
  - the remap and commit;
  - the header: srcWidth, then the minimum in srcWidth bytes only when it is
    not 0;
  - `RangePackDecodedCall`, the decoder of spec.md 4.6, for the refinement
    of `CodecCall`. It reads each stored element as a dstWidth-byte value,
    then adds the minimum modulo 2^(8 srcWidth).
- `Constant.tla` models `EI_constant_typed`:
  - `ConstantReject`, with two disjuncts: the empty stream and the
    non-constant stream, checked in the code's order;
  - `ConstantAllocFail`;
  - `ConstantTyped`: the varint count header, then the one-element output.
- `Varint.tla` is `ZL_varintEncode` (not in the repository) and its
  decoder, written as LEB128. spec.md 4.7 only says "variable-length
  integer", so the bytes are this model's choice. No property is stated
  about the varint itself: it would check the model against itself.
  `ConstantRoundTrip` uses the decoder only to read back the count the
  binding passed.
- `Concat.tla` models `EI_concat`:
  - `CountScan` and `ContentScan` are the two check loops, in code order: the
    type, the width, the count against UINT32_MAX, then the size_t overflow
    of the totals. `ConcatReject` returns the first error they find.
  - `ConcatAllocFail` is either allocation failing.
  - `ConcatLensAllocFail` is `ZL_Output_reserveStringLens` (line 92)
    returning NULL when some input holds strings. The lengths are then
    copied through NULL without a check (status "crash").
  - `Concat` is the copy loop and the commits. `CopySize` is the per-input
    byte count with the code's casts: `(uint32_t)` on the count, times
    eltWidth in `size_t`, and for strings `(uint32_t)` on the content size.
    The host only provides the output buffer when its byte size,
    eltsCapacity * eltWidth, fits in a `size_t`.
  - Input k's bytes are the distinct values `<<k, p>>`. A byte no copy wrote
    is `Uninit`, the uninitialised content of a host buffer.
  - `SplitBytes` and `SplitLens` are the decoder splitting by the sizes
    stream.
- `Interleave.tla` models `EI_interleave`:
  - `CheckError` is the checks of lines 18-42 in order;
  - `InterleaveAllocFail` sends the header (line 44) and then fails;
  - `InterleaveScratchFail` is `ZL_Encoder_getScratchSpace` returning
    NULL, after which line 57 writes through it (status "crash");
  - `InterleaveCall` is the row-major copy, with `Slot(p, m, k)` the
    (string, input) pair that the two nested loops put in output slot p.
- `Prefix.tla` models `EI_prefix`:
  - `PrefixAllocFail` is any of its three allocations failing;
  - `Prefix` is the kernel (spec.md 4.11: `MatchLens`, `SuffixParts`) and
    both commits;
  - `Unprefixed` is the decoder.
- `Diagnostics.tla` models `EI_bitunpack`'s static accumulators under
  concurrent invocations. One process per invocation; `pc` is the line it
  runs next. The `+=` of lines 62 and 110 is split into `Load*` and
  `Store*`, and `Decode` is lines 64-103, which may fail.
- `CodecCall.tla` is the abstract specification of one codec invocation
  (spec.md sections 5 and 7): from "idle" a call either fails with an error
  and returns nothing, or succeeds and returns what decodes to its input;
  then the host starts the next call. Zigzag, Delta, RangePack and
  Constant each define `Codec == INSTANCE CodecCall WITH ...` with a
  refinement mapping. The abstract `result` is the decoder applied to the
  header and output of a successful call. The abstract errors are the
  binding's error statuses. For a single binding, `*ImplementsCodec` says
  no more than its round trip, so TLC does not check it: the mapping and
  the action guards supply the rest. The refinements are proved instead
  (section 4). For the Pipeline composition, `PipelineImplementsCodec` is
  checked by TLC.
- `Pipeline.tla` composes three bindings the way a graph chains them for
  numeric data: `EI_delta_int`, then `EI_zigzag_num` on delta's output, then
  `EI_bitpack_typed` on zigzag's output. Each stage is its module
  instantiated on its own variables (`din, dout, dhdr, dstatus`, ...), and
  its step is the module's whole-call actions. The hand-offs
  (`HandToZigzag`, `HandToBitpack`), the error propagation (`RunStatus`) and
  the next run (`NextRun`, after a failure or the last stage's success)
  are the graph host's, modelled from spec.md sections 2 and 6.
  `PipelineImplementsCodec` says the whole chain refines one `CodecCall`:
  its result is the bitpack buffer decoded, unzigzagged and undelta'd.
- `MC_*.tla` are the TLC instances.
- `StreamLemmas.tla` holds the proved facts about `ZLStream`: an induction
  rule, the narrow moduli, the little-endian header bytes and the maximum
  and minimum of a sequence, and the monotonicity of `SumFunction`.
- `BitpackProofs.tla`, `ZigzagProofs.tla`, `InterleaveProofs.tla`,
  `DeltaProofs.tla`, `RangePackProofs.tla`, `ConstantProofs.tla` and
  `PrefixProofs.tla` hold the
  TLAPS proofs about the binding of the same name.

## 3. Runs

| Run | Checks | Instance |
|---|---|---|
| `bitpack_header_roundtrip` | `TypeOK`, `HeaderDecodes`, `BitpackRoundTrip` | widths {1,2,4,8}, values {0,1,3,255,256}, streams of 0..3 elements |
| `bitunpack_lossless` | `TypeOK`, `BitunpackLossless` | bytes {0,1,128,255}, sources of 0..3 bytes, nbBits in {0,1,3,8,9,12,24,65} or unset, versions {6,7} |
| `delta_roundtrip` | `TypeOK`, `DeltaRoundTrip` | widths {1,2,4,8}, values {0,1,255,256}, 0..3 elements, versions {12,13} |
| `zigzag_roundtrip` | `TypeOK`, `ZigzagRoundTrip` | values at the signed extremes of 1, 2 and 3 bytes, 0..2 elements |
| `rangepack_roundtrip` | `TypeOK`, `RangePackRoundTrip`, `RangePackNarrowest` | values {0,1,100,254,255,355,65536,65791}, 0..2 elements |
| `constant_roundtrip` | `ConstantRoundTrip` | serial and struct (widths 3, 4) streams of 0..3 elements over two values |
| `pipeline_refines_codec` | `PipelineImplementsCodec` | delta, zigzag, bitpack chained; widths {1,2}, values {0,1,255}, 0..4 elements, versions {12,13} |
| `concat_roundtrip` | `ConcatRoundTrip` | 1 or 2 inputs of every type, counts {0,1,6,7}, strings of lengths {0,1,3}, uint32 and size_t scaled to 3 bits |
| `concat_string_truncation` (violation) | `ConcatRoundTrip` | one or two string inputs of lengths {3,5}; uint32 3 bits, size_t 6 bits |
| `interleave_roundtrip` | `InterleaveRoundTrip` | 0..3 string or serial inputs, up to 2 strings of lengths {0,2}; input limit scaled to 2 |
| `prefix_roundtrip` | `PrefixRoundTrip` | up to 3 strings of up to 3 bytes over {0,1} |
| `diagnostics_lost_update` (violation) | `ContentSizeExact` | 3 concurrent invocations, sizes {1,2}, all parameter and size outcomes, symmetry over the invocations |

What the properties say:

- `HeaderDecodes` (Bitpack): after a successful call,
  - the header is 1 or 2 bytes;
  - a decoder reads the input's width from it;
  - from the committed byte count and the padding byte, the decoder computes
    exactly the number of packed elements;
  - a padding byte, when present, is 1..7.

  This is what the binding's debug assertions at lines 133-134 and 148 claim.
- `BitpackRoundTrip`: decoding the committed buffer with the header gives back
  the input, so `nbBits` holds every element.
- `BitunpackLossless`: after a successful call, every bit of the source is
  rebuilt from the elements and, from version 7 on, the remainder byte of the
  header. Trailing bits are never lost silently.

What the properties of the other bindings say:

- `DeltaRoundTrip`: a decoder of the call's format version rebuilds the
  input from the committed output and the header. This holds in both
  layouts and for n = 0, and across wrap-around differences.
- `ZigzagRoundTrip`: every code is inside the element width and unzigzags to
  the input element.
- `RangePackRoundTrip`: output + minimum read back from the header (absent
  means 0) gives the input. `RangePackNarrowest`: no narrower width holds
  max - min. A stored value that does not fit dstWidth
  decodes wrong, because the decoder reads it at that width.
- `ConstantRoundTrip`: a successful call had a non-empty constant input,
  and the header count with the one element rebuilds it.
- `PipelineImplementsCodec`: every behaviour of the delta-zigzag-bitpack
  chain, with the host starting one run after another, is a behaviour of
  `CodecCall`. It fails if any stage's encoding does not invert through the later
  stages' decoders at the width the earlier stage produced, if a later
  stage's failure (bitpack's allocation after delta and zigzag committed)
  left a decodable result, or if a run could report success twice.
- `ConcatRoundTrip`: the sizes stream holds each input's count, and
  splitting the content (and the lengths, for strings) by it gives back each
  input. No byte of the output is `Uninit`.
- `InterleaveRoundTrip`: the header is 4 bytes giving k, the output has
  m * k strings, and taking every k-th string from j gives back input j
  (its lengths and its bytes).
- `PrefixRoundTrip`: the suffixes fit the fieldSizesSum bytes allocated,
  every match is at most the previous string's length, and the decoder
  rebuilds the input.
- `ContentSizeExact` (spec.md section 5): when all calls have returned, the
  content accumulator is the exact sum over the calls that passed
  getNbBits.

Why the bounds are enough:

- Bitpack:
  - the values include 0 (the one-bit special case), 1, 3, 255 and 256, so
    nbBits takes the values 1, 2, 8 and 9;
  - streams of up to 3 elements give every padding count a 1..3 element
    buffer can have (0 to 7 spare slots);
  - every width is used.
- Bitunpack:
  - nbBits covers both invalid ends (0, 65), the unset parameter, fields
    smaller than, equal to and larger than a byte (1, 3, 8, 9, 12) and the
    width boundary 24 (width 4);
  - the bytes 1, 128 and 255 give non-zero trailing bits at the top and
    bottom of the last byte;
  - versions 6 and 7 sit on both sides of the gate.

- Delta: 0 -> 255 and 256 -> 1 give wrap-around deltas in widths 1 and 2;
  versions 12 and 13 sit on both sides of the gate.
- Zigzag and Range pack: the values are the boundaries themselves
  (2^(8w-1) - 1, 2^(8w-1), 2^(8w) - 1). For Range pack, max - min takes
  254, 255, 354 and 355 around the 1-byte boundary and 65535 and 65536
  around the 2-byte boundary.
- Interleave: three inputs exceed the scaled limit of 2; the inputs mix
  serial and string types and unequal string counts. Empty strings are
  included. The column-major mutant is caught as soon as m, k >= 2.
- Prefix: two byte values and three bytes give shared prefixes of 0..3
  bytes, equal strings, prefixes of the previous string and empty strings.
- Pipeline: 0 -> 255 gives a delta of 255, which zigzags to 1 and packs
  in 1 bit; 255 -> 0 gives 1, which zigzags to 2; with two-byte widths the
  same values give deltas that wrap (0 - 255 = 65281, read as -255), so
  zigzag codes reach 509 and 510 and pack in 9 bits. Streams up to 4 elements give bitpack
  padding slots and both delta layouts. Every stage's allocation failure
  is reached after the earlier stages succeeded.
- Diagnostics: three invocations are enough for two to race while a third
  either races too or is rejected. `CHECK_DEADLOCK FALSE` is used because
  the model is a fixed batch of invocations, and once every one has
  returned nothing runs: that final state is a real end, not a deadlock.
- Concat: the passing run takes size_t as wide as uint32_t (3 bits), as a
  32-bit build does.
  - A count of 7 is UINT32_MAX and is rejected at line 47. A count of 6 is
    accepted, and two of them overflow the size_t total. String inputs
    with up to 6 bytes overflow the content total the same way. So every
    check of the two loops fires.
  - On this build a struct input of 6 two-byte elements needs 12 bytes,
    more than a size_t counts. The host provides no such buffer, so only
    the allocation failure follows. The accepted calls copy at most 7
    bytes.
  - The truncation run needs a build whose size_t is wider (6 bits here).
    On a 32-bit build the cast at line 82 cannot truncate.

TLC integers stop at 2^31. The MC modules therefore replace `Modulus` (and
`HighBit`) with versions capped at 24 bits.
- In `MC_Delta` an `ASSUME` shows that every input value is below 2^24.
  `MC_Pipeline` has no such `ASSUME`; its values {0,1,255} are small.
- The instance still differs from the code at widths 4 and 8. A value
  below 2^24 is the same, but a difference that goes below 0 wraps at
  2^24 there, not at 2^32 or 2^64. Those widths behave as a 3-byte width
  under another name.
- The encoders and decoders only use the modulus as a modulus. So the run
  takes the same branches as the real widths, but it does not compute the
  real 4- and 8-byte values of a wrapped delta.
- `DeltaProofs` covers widths 1, 2 and 4 with their real moduli.

No fairness is assumed and no liveness is checked. A binding is one
synchronous call with no loop that waits on anything, so "the call returns"
is a property of the C code's termination, not of the model's scheduling.
In every model an action is enabled in every state (a call, or the host's
next call), and the only thing that could "eventually" happen is that the
host calls again, which is the host's choice, not the code's. A fairness
condition would be an assumption about the host that nothing in this
repository justifies.

Each property has a mutant in `PROJECT.json`, a plausible bug that the run
catches:

- the output created with the input's element width (`TypeOK`);
- the padding byte sent even when it is 0 (`HeaderDecodes`);
- the max-value loop stopping one element early (`BitpackRoundTrip`);
- getEltWidth rounding the bit count up to bytes (`TypeOK` of Bitunpack);
- remBits taking the low bits of the last byte (`BitunpackLossless`);
- delta differences without the modulo (`TypeOK` of Delta), and the header
  layout gated at version 14 (`DeltaRoundTrip`);
- zigzag as a plain shift (`TypeOK`) or without the -1 (`ZigzagRoundTrip`);
- range-pack width from the bit count rounded to bytes (`TypeOK`), a strict
  comparison in the width choice (`RangePackNarrowest`), the range loop
  skipping the first element (`RangePackRoundTrip`);
- the constant check comparing only the first two elements
  (`ConstantRoundTrip`);
- zigzag without the -1 in the pipeline (`PipelineImplementsCodec`, where
  the bug is caught through two other stages);
- the concat copy size of line 80 without the factor eltWidth, so that a
  two-byte input is copied half (`ConcatRoundTrip`);
- interleave's copy loops nested the other way round (`InterleaveRoundTrip`);
- the prefix kernel matching against the previous suffix
  (`PrefixRoundTrip`).

## 4. Proofs

`BitpackProofs.tla` proves two theorems for every value of the constants
(`Widths` any subset of {1,2,4,8}, any set of natural values, any length
bound):

- `TypeCorrect`: `Spec => []TypeOK`.
- `HeaderDecodesInvariant`: `Spec => []HeaderDecodes`. It is proved through
  `IInv == TypeOK /\ HeaderDecodes`. HeaderDecodes alone is not inductive,
  because the step from a state where status is "ok" needs `in` to be a
  well-typed input.

The argument rests on these lemmas:

- `HighBitRange`: highbit is in 0..63, since it counts a subset of 1..63.
- `NbBitsRange`: nbBits is in 1..64.
- `PaddingBound`: with ceil(n*b/8) bytes a decoder sees m slots with
  n <= m < n+8. The binding only asserts this at line 134.
- `EncodeShape`: the packed buffer has the bound's length and its entries are
  bytes.
- `HeaderShape`: the header's layout, 1 or 2 bytes.
- `BitpackCallShape`: a successful call on any stream yields a byte buffer of
  the bound's length and a header that decodes to the width, the bit count and
  the exact element count.

`ZigzagProofs.tla` proves `ZigzagRoundTripInvariant`:
`Spec => []ZigzagRoundTrip` whenever `Widths` is a subset of {1,2,4}. The
values and the input length are unbounded. TLC only reaches widths 1 and 2,
on short inputs, with a scaled modulus. The proof goes in three steps:

- `ZigzagResidue` is the arithmetic core. Take any even modulus M = 2h and
  any v in 0..M-1, read v as signed, and zigzag it. The code is in 0..M-1,
  and the decoder reduced mod M gives v back. It splits on v < h (code 2v,
  even) and v >= h (code 2(M-v)-1, odd).
- `ModulusEven` gives M = 2h for the widths 1, 2 and 4. `ZigzagElement`
  combines it with `ZigzagResidue`.
- The inductive invariant is `IInv == TypeOK /\ ZigzagRoundTrip`. The step
  of `ZigzagNum` needs every input element to lie in 0..Modulus-1, which
  only `TypeOK` (through `Inputs`) provides.

`ZigzagTypeCorrect` (`Spec => []TypeOK`, for the same widths) comes from
the same inductive invariant.

The 8-byte width is not part of the theorem, though `ZigzagResidue` covers
it once 2^64 is known to be even. tlapm 1.4.5 folds `2^64` into a
floating-point literal, which Z3 rejects. It has no laws of exponentiation,
so the parity of 2^64 cannot be derived either. The step from 4 to 8 bytes
changes only M, and the lemma is generic in M.

`InterleaveProofs.tla` proves `InterleaveSlotsInvariant`:
`Spec => []InterleaveSlots` for any number of inputs and strings.
`InterleaveSlots` is the string-length part of `InterleaveRoundTrip`, and
the run checks it as part of that property, for at most 2 inputs of 2
strings. The byte part goes through `FlattenSeq` and stays with TLC. The proof has three parts:

- `SlotInverse` does the arithmetic. For i in 1..m and j in 1..k, position
  (i-1)*k + j lies in 1..m*k, and `Slot` maps it back to (i, j).
- `CheckNone` says that passing the checks of lines 18-42 means at least one
  input, all with m strings. Without that, `ins[j].lens[i]` would be read
  past the end of a shorter input.
- The invariant is `IInv == in \in Inputs /\ InterleaveSlots`. A
  successful call needs well-formed inputs to know that k and m are natural
  numbers.

`ZigzagProofs.tla` also proves `ZigzagRefinement`: for widths in {1,2,4},
`Spec => ZigzagImplementsCodec`. Like the other single-binding
refinements (`DeltaRefinement`, `RangePackRefinement`,
`ConstantRefinement`), it adds little to the round-trip invariant it is
built on. It is kept as the worked form of the mapping. The steps:

- `Init => Codec!Init`: the mapped status is "idle" and the result empty.
- Under `IInv`, each action maps to an abstract one: `ZigzagAllocFail` to
  `Fail` ("allocation" is an error), `ZigzagNum` to `Succeed`, `NextInput`
  to `NextInput`, and a stutter to a stutter.
- The core is `CallDecodes`: unzigzagging the codes of a well-formed input
  `x` element by element gives `x` back (from `ZigzagElement`), so the
  mapped result of a success is `<<in>>`.
- The temporal combination is `PTL` over `Spec => []IInv`.

`StreamLemmas.tla` holds what the later proofs share:

- `FiniteInduction` is complete induction over 0..n. The library's
  `NatInduction` takes the predicate as an operator parameter, which the
  installed provers cannot instantiate. `FiniteInduction` is derived from
  `FiniteNatInductiveUnique` instead. The function that is TRUE everywhere
  and the function "Q holds up to i" satisfy the same recursion, so they are
  equal. The predicate only ever appears inside the opaque
  `FiniteNatInductiveDef*` wrappers, where the provers match it as a term.
  The recursive functions of the model (`LEBytes`, `FromLE`, `Undelta`,
  `VarintGroups`, `VarintDecode`) are unfolded the same way, with
  `FiniteNatInductiveDef`.
- `ModulusValues` and `ModulusPositive` give the moduli of the 1-, 2- and
  4-byte widths. All other facts about `Modulus` come from these two, with
  the power `2^(8*w)` kept hidden.
- `LERoundTrip`: for w in {1,2,4} and v < 2^(8w), `FromLE(LEBytes(v, w)) = v`.
- `SeqMaxMin`: the `Max` and `Min` of a non-empty sequence of integers are
  elements of it that bound all the others. It is proved by induction over
  the prefixes.
- `SumFunctionMono`: if f <= g pointwise on a finite domain, then
  `SumFunction(f) <= SumFunction(g)`, and both sums are natural numbers.
  `SumFunction` is a fold over a set, defined with a CHOOSE.
  - `SumIsIter` turns it into a function over the subsets of the domain.
  - `SumIterDef` shows that this function satisfies its recursion: take out
    an arbitrary element and add it to the sum of the rest.
    `SumIterDef` comes from `WFInductiveDef`, well-founded on
    `SubsetLess` (subsets ordered by cardinality, `SubsetLessWF`).
  - The monotonicity itself is `FiniteInduction` on the subsets' size.

`DeltaProofs.tla` proves `DeltaTypeCorrect`, `DeltaRoundTripInvariant` and
`DeltaRefinement` for `Widths` a subset of {1,2,4} and inputs of any
length.

- The core is `UndeltaEncode`: `Undelta(s[1], DeltaEncode(s, w), w) = s`.
  The decoder's accumulator and `[i |-> s[i+1]]` satisfy the same
  recursion, x -> (x + d[i]) mod M, by `DeltaStep`. So they are equal by
  `FiniteNatInductiveUnique`, with no induction to write.
- `LayoutDecodes` covers the three layouts: n = 0, the legacy layout with
  the first element in the stream, and the version 13 layout with the first
  element in the header (`LERoundTrip`).
- The inductive invariant is `IInv == TypeOK /\ DeltaRoundTrip`. The
  refinement follows the Zigzag pattern.

`RangePackProofs.tla` proves `RangePackTypeCorrect`,
`RangePackRoundTripInvariant`, `RangePackNarrowestInvariant` and
`RangePackRefinement` (`Spec => RangePackImplementsCodec`) for `Widths` a
subset of {1,2,4} and inputs of any length.

- `RangeFacts` uses `SeqMaxMin`: min and max are values of the width, they
  bound every element, and the maximum is an element.
- `NarrowestWidth`: for a value below 2^32, the width that
  `NumericWidthForValue` chooses is 1, 2 or 4, holds the value, and no
  narrower width does. The 8-byte width would need the value to reach
  2^32, so `Modulus(8)` is never needed.
- `HeaderDecodes`: the header gives back the source width and, through
  `DecodedMin` and `LERoundTrip`, the minimum. When the minimum is 0 the
  header is a single byte.
- The inductive invariant is `IInv == TypeOK /\ RangePackRoundTrip /\
  RangePackNarrowest`. Narrowest takes the maximum element as the witness.
  For an empty input, the range [0, 0] leaves no narrower width.
- `RangePackStepDecodes`: after a successful call the decoded call is the
  input. Each stored element is below 2^(8 dstWidth), so reading it back
  at that width leaves it unchanged. Adding the minimum gives the input
  element, which is below 2^(8 srcWidth), so the source-width modulo
  leaves it unchanged too. The refinement then maps an allocation failure
  to `Fail`, a call to `Succeed` and the host's next input to `NextInput`.

`ConstantProofs.tla` proves two theorems for every element count below
2^64 (`MaxElts < SizeBound`, since `nbElts` is a `size_t`). They rest on
lemmas about the model's LEB128 varint. These lemmas say nothing about
`ZL_varintEncode` itself, which is not in the repository (section 2).

- Reading the count back: the model's decoder inverts the model's encoder
  below 2^64.
  - `VarintGroupsBound`: group 10 is 0 below 2^64.
  - `VarintLengthSpec`: `VarintLength` is therefore the first zero group,
    by induction over the groups scanned so far.
  - `VarintDecodeEncode`: the decoder's accumulator after k bytes is group
    len - k, since each group is 128 times the next one plus its low seven
    bits.
- `ConstantRoundTripInvariant`, through `IInv == TypeOK /\ ConstantRoundTrip`.
- `ConstantRefinement`: both rejections and the allocation failure map to
  `Fail`, and the call maps to `Succeed`.

`PrefixProofs.tla` proves `PrefixRoundTripInvariant`
(`Spec => []PrefixRoundTrip`) for every byte alphabet and every bound on
the number and length of strings. It needs no assumption beyond
`PrefixAssumption`. The run reaches 3 strings of 3 bytes.

- `CommonPrefix`: `CommonPrefixLen(a, b)` is at most both lengths, and a and
  b agree up to it. It is the largest element of a set that contains 0,
  found with `SeqHasMax`.
- `MatchFacts` and `SuffixFacts` apply this to string i and string i-1.
  Match i is 0 for the first string. Otherwise it is a prefix of both
  strings, and the match followed by the suffix is string i
  (`ConcatAdjacentSubSeq`).
- `PrefixDecodes`: the decoder's accumulator and the function that is
  `<<>>` at 0 and string i at i satisfy the same recursion, so they are
  equal (`FiniteNatInductiveUnique`). The recursion holds because match i
  is a prefix of the string before it.
- `SuffixSumBound`: the suffix stream fits fieldSizesSum, by
  `SumFunctionMono`, since each suffix is no longer than its string.
- The inductive invariant is `IInv == TypeOK /\ PrefixRoundTrip`. The step
  of `Prefix` needs the input to be a sequence of strings, which only
  `TypeOK` provides (`InputShape`).

What stays with TLC:

- The 8-byte width in Zigzag, Delta and RangePack. tlapm cannot evaluate
  `2^64`, as described above.
- `TypeOK` of Bitunpack. Its element values are bounded by
  `Modulus(8) = 2^64` for the 8-byte element width that getEltWidth can
  choose. Its bits are read back with `FromBits`, which sums `2^(k-1)` for
  a variable k. Neither can be evaluated by tlapm (see below).
- `BitpackRoundTrip` and `BitunpackLossless`. Their proof needs a
  bit-level lemma relating `PackBits` and `FromBits` over a whole buffer.
  That lemma rests on the exponent law `2^(k+1) = 2 * 2^k` for a variable
  `k`. tlapm 1.4.5 has no axioms for `^` beyond folding literals, so the law
  can only be had by a case split over every exponent up to 64. That split
  is not written.
- `InterleaveRoundTrip` and `ConcatRoundTrip`. Their byte content goes
  through `FlattenSeq`, a fold over sequences. Their capacity checks need
  the sum over a domain split in two. Only the monotonicity of
  `SumFunction` is proved; the split would need the fold to be independent
  of the order in which CHOOSE takes out elements.
- `PipelineImplementsCodec`. It composes the Delta, Zigzag and Bitpack
  round trips, and the last of these is not proved.
- Liveness and ENABLED are out of the prover's reach. The project states
  no liveness property.

## 5. Hazards and findings

`PROJECT.json` lists the hazards at the line where they bite. Most are
covered by the runs above. The flatpack hazard is not covered
(section 7).

Three more disagreements are listed as hazards without a violation run.
Each one takes a single call to reach, so the code shows it directly:

- `concat.c:47` rejects `numElts >= UINT32_MAX`. An input of exactly
  2^32 - 1 elements is therefore refused, while spec.md 4.9 fails only
  2^32 and more. The code is stricter, so this loses no data.
- `interleave.c:52-57` uses the scratch space without a NULL check.
  Interleave models the failure as `InterleaveScratchFail`, which ends in
  status "crash", and the round-trip run reaches it.
- `concat.c:92` uses the pointer that `ZL_Output_reserveStringLens`
  returns without a NULL check. Concat models the failure as
  `ConcatLensAllocFail` ("crash", when some input holds strings). The
  concat run reaches it.

Two findings:

- Code bug, `concat_string_truncation`, line 82. For string inputs the copy
  size is `(uint32_t)ZL_Input_contentSize`, but the capacity is the full
  content total. On a 64-bit build an input of 2^32 content bytes or more
  is copied short. The call still succeeds, because the `ZL_ASSERT_EQ` of
  line 106 is compiled out in release, so the committed output ends in
  uninitialised bytes. spec.md section 8 says overflow inputs are rejected,
  never silently truncated.
- Divergence from the spec, `diagnostics_lost_update`, bitunpack line 62.
  Two concurrent invocations interleave the load and the store of
  `EI_bitunpack_contentsize +=` and one update is lost. spec.md section 5
  says concurrent invocations share no mutable resource. In C this is a
  data race, which is undefined behaviour.

## 6. Plan

1. Proofs:
   - `BitpackRoundTrip` and `BitunpackLossless`, by `FiniteInduction` over
     the bit positions, once the exponent law is had by a case split over
     the exponents (see section 4);
   - lemmas on `FlattenSeq`, and the splitting of `SumFunction` over a
     partition of its domain, for the Interleave and Concat content round
     trips;
   - the refinement of `CodecCall` by Prefix and by `Pipeline`.
2. The other bindings' accumulators in Diagnostics. They follow the same
   pattern, after the work instead of before a check.

## 7. Not modelled

- Flatpack (`EI_flatpack`) and Quantize (`EI_quantize*`). Their bindings
  are allocations, one kernel call and commits of sizes the kernel
  returns. The kernels, their bound functions and their error encodings
  are not in the repository, and spec.md does not define them (4.8, and
  section 9's open question on the quantize presets). A model would check
  invented kernel behaviour. Their hazards stay in `PROJECT.json` without a
  property.

- Wall-clock timing and `fprintf` logging are I/O.
- `SI_selector_bitpack` and `ZL_Compressor_registerBitunpackNode` are
  stateless graph plumbing.
- The kernels' internals are modelled by what they compute (spec.md section
  4), not by their loops, because their source is not in this repository.
