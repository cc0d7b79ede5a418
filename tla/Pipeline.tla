------------------------------ MODULE Pipeline ------------------------------
(***************************************************************************)
(* Three bindings composed the way a graph chains them for numeric data:  *)
(* EI_delta_int, whose output stream the host hands to EI_zigzag_num,     *)
(* whose output stream it hands to EI_bitpack_typed.  Each stage is its   *)
(* own module, instantiated on its own variables; the hand-offs and the   *)
(* start of the next graph run are the Stream Host's (spec.md sections 2  *)
(* and 6; the graph engine is not part of this repository).               *)
(*                                                                         *)
(* A stage that has no input yet is "wait".  A failing stage ends the run. *)
(***************************************************************************)
EXTENDS ZLStream

CONSTANTS
    Widths,     \* element widths of the numeric inputs
    Vals,       \* the element values inputs are made of
    MaxElts,    \* the longest input
    Versions    \* format versions the compressor may be configured with

VARIABLES
    din, dout, dhdr, dstatus,    \* the delta stage
    zin, zout, zstatus,          \* the zigzag stage
    bin, bout, bhdr, bstatus     \* the bitpack stage

vars == <<din, dout, dhdr, dstatus, zin, zout, zstatus, bin, bout, bhdr, bstatus>>
dvars == <<din, dout, dhdr, dstatus>>
zvars == <<zin, zout, zstatus>>
bvars == <<bin, bout, bhdr, bstatus>>

D == INSTANCE Delta   WITH in <- din, out <- dout, hdr <- dhdr, status <- dstatus
Z == INSTANCE Zigzag  WITH in <- zin, out <- zout, status <- zstatus
B == INSTANCE Bitpack WITH in <- bin, out <- bout, hdr <- bhdr, status <- bstatus

(* The stages downstream of delta before the host has handed them input.  *)
ZWaiting == zin = [width |-> 1, elts |-> <<>>] /\ zout = Z!NoOutput /\ zstatus = "wait"
BWaiting ==
    /\ bin = [type |-> "numeric", width |-> 1, elts |-> <<>>]
    /\ bout = B!NoOutput /\ bhdr = <<>> /\ bstatus = "wait"

(* The graph run is over: a stage failed or the last one succeeded.       *)
RunOver ==
    \/ dstatus \notin {"idle", "ok"}
    \/ zstatus \notin {"wait", "idle", "ok"}
    \/ bstatus \notin {"wait", "idle"}

-----------------------------------------------------------------------------
Init == D!Init /\ ZWaiting /\ BWaiting

(* One whole call of EI_delta_int.                                         *)
DeltaStage == (D!DeltaAllocFail \/ D!DeltaInt) /\ UNCHANGED <<zvars, bvars>>

(* The host hands delta's output stream to zigzag: same width, elements.  *)
HandToZigzag ==
    /\ dstatus = "ok" /\ zstatus = "wait"
    /\ zin' = [width |-> dout.width, elts |-> dout.elts]
    /\ zstatus' = "idle"
    /\ UNCHANGED <<dvars, zout, bvars>>

(* One whole call of EI_zigzag_num.                                        *)
ZigzagStage == (Z!ZigzagAllocFail \/ Z!ZigzagNum) /\ UNCHANGED <<dvars, bvars>>

(* The host hands zigzag's numeric output stream to bitpack.               *)
HandToBitpack ==
    /\ zstatus = "ok" /\ bstatus = "wait"
    /\ bin' = [type |-> "numeric", width |-> zout.width, elts |-> zout.elts]
    /\ bstatus' = "idle"
    /\ UNCHANGED <<dvars, zvars, bout, bhdr>>

(* One whole call of EI_bitpack_typed.                                     *)
BitpackStage ==
    (B!BitpackTyped \/ B!BitpackAllocFail) /\ UNCHANGED <<dvars, zvars>>

(* The host starts the next graph run on a fresh input.                    *)
NextRun ==
    /\ RunOver
    /\ D!NextInput
    /\ zin' = [width |-> 1, elts |-> <<>>] /\ zout' = Z!NoOutput /\ zstatus' = "wait"
    /\ bin' = [type |-> "numeric", width |-> 1, elts |-> <<>>]
    /\ bout' = B!NoOutput /\ bhdr' = <<>> /\ bstatus' = "wait"

Next ==
    \/ DeltaStage \/ HandToZigzag \/ ZigzagStage \/ HandToBitpack
    \/ BitpackStage \/ NextRun

Spec == Init /\ [][Next]_vars

-----------------------------------------------------------------------------
(* The graph run's result as the host sees it: the first stage error, or  *)
(* "ok" once bitpack succeeded, "idle" while stages are still to run.     *)
RunStatus ==
    CASE dstatus # "ok"                 -> dstatus
      [] zstatus \in {"wait", "idle"}   -> "idle"
      [] zstatus # "ok"                 -> zstatus
      [] bstatus \in {"wait", "idle"}   -> "idle"
      [] OTHER                          -> bstatus

(* The decoders run backwards: unpack the bits, unzigzag, undelta.        *)
RunDecoded ==
    LET w      == din.width
        packed == B!Decoded(bhdr, bout.elts)
        codes  == [i \in 1..Len(packed) |-> Z!Unzigzag(packed[i], w)]
    IN  [width   |-> w,
         elts    |-> D!DeltaDecoded(dhdr, codes, din.version, w),
         version |-> din.version]

Graph == INSTANCE CodecCall
             WITH in <- din, status <- RunStatus,
                  Inputs <- D!Inputs,
                  Errors <- (D!Results \cup Z!Results \cup B!Results) \ {"idle", "ok"},
                  result <- IF RunStatus = "ok" THEN <<RunDecoded>> ELSE <<>>

(* The three bindings chained by the host keep the promise of one codec  *)
(* call: a graph run returns once, a failure in any stage leaves nothing  *)
(* to decode, and a success leaves outputs that, decoded backwards stage  *)
(* by stage, give the input back, including inputs whose delta stream is *)
(* empty or wraps around.                                                 *)
PipelineImplementsCodec == Graph!Spec

=============================================================================
