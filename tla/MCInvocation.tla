---------------------------- MODULE MCInvocation ----------------------------
(* An instance of Invocation for TLC.  The budget is what the largest built-in *)
(* instruction needs.                                                          *)
EXTENDS Invocation
=============================================================================
