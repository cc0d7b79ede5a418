----------------------------- MODULE MC_Prefix -----------------------------
(***************************************************************************)
(* TLC instance of Prefix: strings of up to 3 bytes over two byte values, *)
(* up to 3 strings, so that shared prefixes of every length, repeated     *)
(* strings and empty strings all occur.                                    *)
(***************************************************************************)
EXTENDS Prefix

=============================================================================
