------------------------------ MODULE Prefix ------------------------------
(***************************************************************************)
(* EI_prefix (src/src/openzl/codecs/prefix/encode_prefix_binding.c)       *)
(* front-codes a string stream: for each string the length of the prefix  *)
(* it shares with the previous string goes to a uint32 stream, the rest   *)
(* of the string (its suffix) to a string stream.                         *)
(*                                                                         *)
(* The kernel ZS_encodePrefix is not in this repository; it is modelled   *)
(* from spec.md 4.11.  A string is a sequence of byte values.             *)
(***************************************************************************)
EXTENDS ZLStream

CONSTANTS
    Chars,     \* the byte values strings are made of
    MaxLen,    \* the longest string
    MaxStrs    \* the most strings in one input

ASSUME PrefixAssumption ==
    /\ Chars \subseteq 0..255
    /\ MaxLen \in Nat /\ MaxStrs \in Nat

VARIABLES
    in,      \* the input: a sequence of strings
    out,     \* [suffixes, matches, cap]: the two outputs and the byte capacity
    status   \* "idle" before the call, then its result

vars == <<in, out, status>>

Inputs == BoundedSeq(BoundedSeq(Chars, MaxLen), MaxStrs)

NoOutput == [suffixes |-> <<>>, matches |-> <<>>, cap |-> 0]

Results == {"idle", "ok", "allocation", "commit"}

(* ZL_Input_contentSize: the sum of the string lengths.                    *)
FieldSizesSum(s) == SumFunction([i \in 1..Len(s) |-> Len(s[i])])

(* The length of the longest common prefix of strings a and b.            *)
CommonPrefixLen(a, b) ==
    Max({k \in 0..Min({Len(a), Len(b)}) : SubSeq(a, 1, k) = SubSeq(b, 1, k)})

(* A faulty kernel that matches each string against the previous suffix   *)
(* instead of the previous string.                                         *)
MatchLensAgainstSuffix(s) ==
    LET m[i \in 0..Len(s)] ==
          IF i <= 1 THEN 0
          ELSE CommonPrefixLen(SubSeq(s[i - 1], m[i - 1] + 1, Len(s[i - 1])), s[i])
    IN  [i \in 1..Len(s) |-> m[i]]

(* ZS_encodePrefix: the match length of each string, 0 for the first.     *)
MatchLens(s) ==
    [i \in 1..Len(s) |-> IF i = 1 THEN 0 ELSE CommonPrefixLen(s[i - 1], s[i])]

(* The suffix of each string after its match.                              *)
SuffixParts(s) ==
    LET m == MatchLens(s)
    IN  [i \in 1..Len(s) |-> SubSeq(s[i], m[i] + 1, Len(s[i]))]

-----------------------------------------------------------------------------
Init ==
    /\ in \in Inputs
    /\ out = NoOutput
    /\ status = "idle"

(* One of the three host allocations of lines 33-52 returns NULL: the     *)
(* suffix stream, its string lengths or the match stream.                 *)
PrefixAllocFail ==
    /\ status = "idle"
    /\ status' = "allocation"
    /\ UNCHANGED <<in, out>>

(* The whole call: the kernel fills the suffix stream (capacity           *)
(* fieldSizesSum bytes) and the match stream, and both are committed with *)
(* nbElts elements.                                                        *)
Prefix ==
    /\ status = "idle"
    /\ out' = [suffixes |-> SuffixParts(in), matches |-> MatchLens(in),
               cap |-> FieldSizesSum(in)]
    /\ status' = IF CommitOk(Len(in), Len(in)) THEN "ok" ELSE "commit"
    /\ UNCHANGED in

(* The Stream Host starts the next call.                                   *)
NextInput ==
    /\ status # "idle"
    /\ in' \in Inputs
    /\ out' = NoOutput
    /\ status' = "idle"

Next == PrefixAllocFail \/ Prefix \/ NextInput

Spec == Init /\ [][Next]_vars

-----------------------------------------------------------------------------
(* The decoder: string i is the first matches[i] bytes of string i - 1    *)
(* followed by its suffix.                                                 *)
Unprefixed(o) ==
    LET r[i \in 0..Len(o.matches)] ==
          IF i = 0 THEN <<>>
          ELSE SubSeq(r[i - 1], 1, o.matches[i]) \o o.suffixes[i]
    IN  [i \in 1..Len(o.matches) |-> r[i]]

(* Type invariant.                                                         *)
TypeOK ==
    /\ in \in Inputs
    /\ out \in [suffixes : Seq(Seq(Chars)), matches : Seq(Nat), cap : Nat]
    /\ status \in Results

(* After a successful call the suffixes fit the fieldSizesSum bytes the   *)
(* stream was created with, every match is no longer than the previous    *)
(* string, and the decoder rebuilds every string.                          *)
PrefixRoundTrip ==
    status = "ok" =>
        /\ FieldSizesSum(out.suffixes) <= out.cap
        /\ \A i \in 2..Len(in) : out.matches[i] <= Len(in[i - 1])
        /\ Unprefixed(out) = in

=============================================================================
