------------------------------ MODULE MCLedger ------------------------------
(* Instances of Ledger for TLC: t2 is alice's associated account. *)
EXTENDS Ledger

CONSTANTS gold, t1, t2, alice

MCAssociated == [o \in {alice} |-> [m \in Mints |-> t2]]
MCFlags == {{1}, {1, 2}}
MCSpaces == {NoData, Zeros}

\* Bounds: what follows a shadowed copy or a race is not explored, because the
\* laws of conservation promise nothing from there on; nor what follows a change
\* to the account a faucet call has read, which ends in a race.
Regular == ~shadowed /\ ~raced /\ (call # NoCall => Load("system", call.key) = call.read)
=============================================================================
