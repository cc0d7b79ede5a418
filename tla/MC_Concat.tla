----------------------------- MODULE MC_Concat -----------------------------
(***************************************************************************)
(* TLC instance of Concat.  uint32_t and size_t are scaled down to 3 bits *)
(* each, as on a 32-bit build where size_t is as wide as uint32_t, so     *)
(* that counts at UINT32_MAX and totals that overflow a size_t happen     *)
(* with two small inputs.  The checks of EI_concat only compare against   *)
(* these moduli, so the scaled instance takes the branches a real build   *)
(* takes near 2^32.  On such a build a call whose output would need more  *)
(* bytes than a size_t counts gets no buffer from the host.               *)
(***************************************************************************)
EXTENDS Concat

MCU32Modulus  == 8
MCSizeModulus == 8

(* size_t of a 64-bit build, wider than uint32_t (here by 3 bits).        *)
MCSizeModulus64 == 64

=============================================================================
