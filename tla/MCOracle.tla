------------------------------ MODULE MCOracle ------------------------------
(* Instances of Oracle for TLC. *)
EXTENDS Oracle

CONSTANTS p1, p2, p3
=============================================================================
