----------------------------- MODULE MCLending -----------------------------
(* Instances of Lending for TLC. *)
EXTENDS Lending

CONSTANTS u1, u2, i1

\* The second bid may equal the first.
MCOffers == [u \in Utxos |-> IF u = u1 THEN {2} ELSE {2, 3}]
=============================================================================
