------------------------------ MODULE MCVault ------------------------------
(* Instances of Vault for TLC. *)
EXTENDS Vault

CONSTANTS borrower, lender, keeper
=============================================================================
