----------------------------- MODULE CodecCall -----------------------------
(***************************************************************************)
(* What one encoder binding of src/src/openzl/codecs promises the host    *)
(* (spec.md sections 5, 7 and 8), with no encoding in sight: the host     *)
(* hands the codec an input; the call returns once, either with an error  *)
(* and no result, or with success and a result from which the decoder     *)
(* gets the input back; then the host may start the next call.            *)
(*                                                                         *)
(* result is <<>> while there is nothing to decode and <<x>> once the     *)
(* outputs of a successful call decode to x.                              *)
(***************************************************************************)
CONSTANTS
    Inputs,   \* the inputs the host may present
    Errors    \* the error results a call may return

VARIABLES
    in,       \* the input of the current call
    status,   \* "idle" during the call, then its result
    result    \* <<>>, or <<x>> when the outputs decode to x

vars == <<in, status, result>>

Init ==
    /\ in \in Inputs
    /\ status = "idle"
    /\ result = <<>>

(* The call reports an error: nothing the host may decode.                 *)
Fail ==
    /\ status = "idle"
    /\ status' \in Errors
    /\ UNCHANGED <<in, result>>

(* The call succeeds: its outputs decode to its input.                     *)
Succeed ==
    /\ status = "idle"
    /\ status' = "ok"
    /\ result' = <<in>>
    /\ UNCHANGED in

(* The host starts the next call.                                          *)
NextInput ==
    /\ status # "idle"
    /\ in' \in Inputs
    /\ status' = "idle"
    /\ result' = <<>>

Next == Fail \/ Succeed \/ NextInput

Spec == Init /\ [][Next]_vars

=============================================================================
