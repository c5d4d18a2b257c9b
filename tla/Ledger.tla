------------------------------- MODULE Ledger -------------------------------
(***************************************************************************)
(* The account ledger under the programs that make, fund, assign and close *)
(* accounts: the system program, the associated token account program,     *)
(* which calls the token program, the token program itself, and the node's *)
(* faucet (main.rs), which writes accounts outside any transaction.        *)
(*                                                                         *)
(* A faucet call reads the account and stores it later; an instruction is  *)
(* one step, in the course of which a faucet call may come to its end.     *)
(***************************************************************************)
EXTENDS Token, Functions

CONSTANTS Associated,  \* Associated[o][m]: the address for owner o and mint m
          Flags,       \* the sets of slots that clients flag writable
          Owners,      \* the owners that clients give accounts
          Spaces,      \* the contents they ask for
          Funded,      \* the keys that the faucet is asked to fund
          MaxGrants    \* bound: lamports the faucet hands out

ASSUME LedgerAssumption ==
  /\ MaxGrants \in Nat /\ Funded \subseteq Keys /\ Flags \subseteq SUBSET (1 .. 4)
  /\ Owners \subseteq Programs /\ Spaces \subseteq {NoData, Zeros}
  /\ \A o \in DOMAIN Associated : o \in Keys /\ Associated[o] \in [Mints -> Accounts]

VARIABLE  reclaimed  \* history: an address the token program already owned was
                     \* made an associated account

vars == <<acct, shadowed, reclaimed, faucetVars>>

TypeOK ==
  /\ DOMAIN acct \subseteq Keys
  /\ \A k \in DOMAIN acct : acct[k] \in Account({NoData, Zeros} \cup TokenData)
  /\ granted \in 0 .. MaxGrants
  /\ call # NoCall => call.key \in Keys /\ call.n \in Amounts
  /\ shadowed \in BOOLEAN /\ reclaimed \in BOOLEAN /\ raced \in BOOLEAN

\* A fresh node stores no accounts.
Init ==
  /\ acct = [k \in {} |-> Fresh("system")]
  /\ shadowed = FALSE /\ reclaimed = FALSE /\ raced = FALSE
  /\ granted = 0 /\ call = NoCall

-----------------------------------------------------------------------------
(***************************************************************************)
(* The system program.  It changes its copies directly, whatever the flags *)
(* say; only the first account has to sign.                                *)
(***************************************************************************)
SystemExecute(slots, w, changed) ==
  /\ slots[1] \in Signers
  /\ Execute("system", slots, w, changed, {})

System(k) == Load("system", k)

\* Neither lamports nor contents; an anchor does not count.
Unused(a) == a.lamports = 0 /\ a.data = NoData

CreateAccount_Mutant(payer, new, n, space, owner, w) ==
  /\ n <= System(payer).lamports
  /\ Unused(System(new))
  /\ SystemExecute(<<payer, new>>, w,
       <<System(payer), [System(new) EXCEPT !.lamports = n, !.data = space, !.owner = owner]>>)

\* The payer's copy is debited before the new account's is looked at.
CreateAccount(payer, new, n, space, owner, w) ==
  /\ n <= System(payer).lamports
  /\ Unused(System(new))
  /\ SystemExecute(<<payer, new>>, w,
       <<[System(payer) EXCEPT !.lamports = @ - n],
         [System(new) EXCEPT !.lamports = n, !.data = space, !.owner = owner]>>)

CreateAccountWithAnchor(payer, new, space, owner, w) ==
  /\ Unused(System(new))
  /\ SystemExecute(<<payer, new>>, w,
       <<System(payer), [System(new) EXCEPT !.data = space, !.owner = owner, !.anchor = TRUE]>>)

TransferLamports(from, to, n, w) ==
  /\ n <= System(from).lamports /\ System(to).lamports + n <= U64_MAX
  /\ SystemExecute(<<from, to>>, w,
       <<[System(from) EXCEPT !.lamports = @ - n], [System(to) EXCEPT !.lamports = @ + n]>>)

Assign(k, owner, w) ==
  SystemExecute(<<k>>, w, <<[System(k) EXCEPT !.owner = owner]>>)

\* A buffer that a program has written is not readable for it once it is longer.
Allocate(k, space, w) ==
  SystemExecute(<<k>>, w, <<[System(k) EXCEPT !.data = IF space = NoData THEN @ ELSE Zeros]>>)

SystemStep(w) ==
  \/ \E payer, new \in Keys, n \in Amounts \cup {0}, space \in Spaces, owner \in Owners :
       \/ CreateAccount(payer, new, n, space, owner, w)
       \/ n = 0 /\ CreateAccountWithAnchor(payer, new, space, owner, w)
  \/ \E from, to \in Keys, n \in Amounts : TransferLamports(from, to, n, w)
  \/ \E k \in Keys : (\E space \in Spaces : Allocate(k, space, w))
                    \/ (\E owner \in Owners : Assign(k, owner, w))

-----------------------------------------------------------------------------
(***************************************************************************)
(* The associated token account program.                                   *)
(***************************************************************************)

\* An address with contents is left as it is.
CreateExisting(payer, o, m, w) ==
  LET ata == Associated[o][m]
  IN /\ Load("ata", ata).data # NoData
     /\ Execute("ata", <<payer, ata, o, m>>, w, << >>, {})
     /\ UNCHANGED reclaimed

\* Otherwise the token program is called to initialize it; both boundaries of
\* the call and of the instruction are gated.
Create(payer, o, m, w) ==
  LET ata == Associated[o][m]
      pre == Load("ata", ata)
      post == [pre EXCEPT !.data = TokenAccountState(m, 0, FALSE)]
      copy == invoke_indexed("token", pre, post)
  IN /\ pre.data = NoData
     /\ Load("ata", m).data.kind = "mint"
     /\ 2 \in w /\ ~(4 \in w /\ m = ata)
     /\ invoke_allowed("token", pre, post)
     /\ Execute("ata", <<payer, ata, o, m>>, w, [i \in {2} |-> copy], {copy})
     /\ reclaimed' = (reclaimed \/ pre.owner = "token")

AtaStep(w) ==
  \E payer \in Signers, o \in DOMAIN Associated, m \in Mints :
    CreateExisting(payer, o, m, w) \/ Create(payer, o, m, w)

-----------------------------------------------------------------------------
(***************************************************************************)
(* The faucet.                                                             *)
(***************************************************************************)
\* The account is read, or found missing, and computed.
BeginGrant(k, a, n) ==
  /\ call = NoCall /\ granted + n <= MaxGrants
  /\ call' = [key |-> k, account |-> a, n |-> n, read |-> Load("system", k)]
  /\ UNCHANGED <<acct, shadowed, reclaimed, granted, raced>>

request_airdrop(k, n) ==
  BeginGrant(k, [Load("system", k) EXCEPT !.lamports = IF @ + n <= U64_MAX THEN @ + n ELSE U64_MAX], n)

create_account_with_faucet(k, n, space) ==
  /\ k \notin DOMAIN acct
  /\ BeginGrant(k, [Fresh("system") EXCEPT !.lamports = n, !.data = space], n)

\* Whatever is there by now.
save_account ==
  /\ call # NoCall /\ call' = NoCall
  /\ granted' = granted + call.n
  /\ acct' = [k \in DOMAIN acct \cup {call.key} |-> IF k = call.key THEN call.account ELSE acct[k]]
  /\ raced' = (raced \/ Load("system", call.key) # call.read)
  /\ UNCHANGED <<shadowed, reclaimed>>

Next ==
  \/ \E w \in Flags : (TokenStep(w) \/ SystemStep(w)) /\ UNCHANGED reclaimed
  \/ \E w \in Flags : AtaStep(w)
  \/ \E k \in Funded, n \in Amounts :
       \/ request_airdrop(k, n)
       \/ \E space \in Spaces : create_account_with_faucet(k, n, space)
  \/ save_account

Spec == Init /\ [][Next]_vars

-----------------------------------------------------------------------------
(***************************************************************************)
(* Properties.                                                             *)
(***************************************************************************)
IsTokenData(data) == data.kind \in {"mint", "token"}
Lamports(k) == IF k \in DOMAIN acct THEN acct[k].lamports ELSE 0
Holding(k)  == IF k \in DOMAIN acct /\ IsTokenData(acct[k].data) THEN acct[k].data.amount ELSE 0

\* Tokens come only from MintTo and go only by Burn: the supplies of all mints
\* add up to what all accounts hold, through transfers, closing and reopening and
\* whatever the system program may do to the accounts, until one instruction
\* names a changed account again in a slot that is not flagged writable, or a
\* faucet call and an instruction that both read an account both store it.
TokensConserved ==
  shadowed \/ raced \/
    SumFunction([m \in Mints |-> Holding(m)]) = SumFunction([t \in Accounts |-> Holding(t)])

\* Creating, funding and closing accounts move lamports and neither make nor lose
\* any: all there are came from the faucet, and all it handed out are there; with
\* the same two exceptions.
LamportsConserved ==
  shadowed \/ raced \/ SumFunction([k \in Keys |-> Lamports(k)]) = granted

\* Mints and token accounts belong to the token program ("exactly where token
\* accounts must live", ata), which alone can then change them, until an address
\* it already owned is made an associated account or a faucet call brings back
\* what an account was.
TokenOwnsItsData ==
  reclaimed \/ raced \/ \A k \in DOMAIN acct :
                 IsTokenData(acct[k].data) => acct[k].owner = "token"
=============================================================================
