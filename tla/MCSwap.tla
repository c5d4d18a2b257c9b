------------------------------- MODULE MCSwap -------------------------------
(* Instances of Swap for TLC. *)
EXTENDS Swap

CONSTANTS alice
=============================================================================
