------------------------------ MODULE MCSigning ------------------------------
(***************************************************************************)
(* A small instance of Signing for TLC: two texts and an env file of three *)
(* lines, the fewest with orders that are neither equal nor reversed.      *)
(***************************************************************************)
EXTENDS Signing

MCSignatureOf(t) == <<"signature of", t>>

=============================================================================
