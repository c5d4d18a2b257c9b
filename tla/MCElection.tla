----------------------------- MODULE MCElection -----------------------------
(* Instances of Election for TLC.  The followers are interchangeable. *)
EXTENDS Election, TLC

CONSTANTS a, b, p

MCSymmetry == Permutations({a, b})
=============================================================================
