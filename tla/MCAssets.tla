------------------------------ MODULE MCAssets ------------------------------
(* An instance of Assets for TLC. *)
EXTENDS Assets, TLC

CONSTANTS r1, r2, r3

\* The program treats all addresses alike.
Symmetry == Permutations(RuneKeys)

\* One capped mint with a window, one without bounds.
MCTerms == {[amount |-> 1, cap |-> 1, start |-> 1, end |-> 2],
            [amount |-> 2, cap |-> 0, start |-> 0, end |-> 0]}
\* Bound: nothing is promised once an account was recast or a write hidden.
Regular == ~recast /\ ~hidden
=============================================================================
