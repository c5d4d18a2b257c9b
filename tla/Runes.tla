------------------------------- MODULE Runes -------------------------------
(***************************************************************************)
(* The runes program (himsha-programs/runes): etchings and balances in one *)
(* space of accounts.                                                      *)
(*                                                                         *)
(* The program reads what an account holds by its length, takes what it    *)
(* cannot read for empty where it makes one (unwrap_or_default), and does  *)
(* not ask who owns a balance.  The signer can be any key, one of the      *)
(* accounts too; its slot is stored last.  Owners, symbols and             *)
(* divisibility are left out.                                              *)
(***************************************************************************)
EXTENDS Integers, FiniteSets, Functions

CONSTANTS RuneKeys,   \* addresses of the program's accounts
          Wallets,    \* other keys that sign
          RuneAmounts, RUNE_MAX,   \* amounts; the largest u64
          Terms,      \* mint terms that etchers set
          MintTimes   \* timestamps that transactions carry

ASSUME RunesAssumption ==
  /\ IsFiniteSet(RuneKeys) /\ RUNE_MAX \in Nat /\ RuneAmounts \subseteq 1 .. RUNE_MAX
  /\ \A t \in Terms : {t.amount, t.cap, t.start, t.end} \subseteq Nat

VARIABLES held,        \* by key: nothing, an etching or a balance
          recast,      \* history: an account was written as the other kind
          relabelled,  \* history: a balance went from one rune to another, or was
                       \* burned against another
          hidden       \* history: a write was lost under the signer's copy

runeVars == <<held, recast, relabelled, hidden>>

NoTerms == [amount |-> 0, cap |-> 0, start |-> 0, end |-> 0]
NoRune  == "none"

Nothing == [kind |-> "nothing"]
RuneEtching(terms, short, mints, minted, burned) ==
  [kind |-> "etching", terms |-> terms, short |-> short, mints |-> mints,
   minted |-> minted, burned |-> burned]
RuneBalance(rune, amount) == [kind |-> "balance", rune |-> rune, amount |-> amount]

RunesInit ==
  /\ held = [k \in RuneKeys |-> Nothing]
  /\ recast = FALSE /\ relabelled = FALSE /\ hidden = FALSE

-----------------------------------------------------------------------------
(***************************************************************************)
(* Reading and writing.                                                    *)
(***************************************************************************)
IsEtching(k) == held[k].kind = "etching"

\* An etching without terms and with a name of six bytes is as long as a balance:
\* read as one, the end of it is its amount and the rest names no rune.
ReadsAsBalance(k) ==
  \/ held[k].kind = "balance"
  \/ IsEtching(k) /\ held[k].terms = NoTerms /\ held[k].short

Balance(k) ==
  IF held[k].kind = "balance" THEN held[k] ELSE RuneBalance("garbled", held[k].burned)

\* read_data().unwrap_or_default()
BalanceOrNew(k) == IF ReadsAsBalance(k) THEN Balance(k) ELSE RuneBalance(NoRune, 0)

\* The slots of the changed accounts are stored, then the signer's.
Write(change, signer) ==
  /\ held' = [k \in RuneKeys |->
                IF k \in DOMAIN change /\ k # signer THEN change[k] ELSE held[k]]
  /\ recast' = (recast \/ \E k \in RuneKeys :
                  held[k] # Nothing /\ held'[k].kind # held[k].kind)
  /\ hidden' = (hidden \/ signer \in DOMAIN change)

Pair(a, x, b, y) == [k \in {a, b} |-> IF k = a THEN x ELSE y]

Mixes(b, rune) == Balance(b).rune # rune /\ Balance(b).amount > 0

-----------------------------------------------------------------------------
Etch(r, b, signer, premine, terms, short) ==
  LET etching == RuneEtching(terms, short, 0, premine, 0)
      bal == BalanceOrNew(b)
  IN /\ r # b /\ ~IsEtching(r)
     /\ IF premine = 0 THEN Write([k \in {r} |-> etching], signer) /\ UNCHANGED relabelled
        ELSE /\ bal.amount + premine <= RUNE_MAX
             /\ Write(Pair(r, etching, b, RuneBalance(r, bal.amount + premine)), signer)
             /\ relabelled' = (relabelled \/ (ReadsAsBalance(b) /\ Mixes(b, r)))

\* 0 stands for no cap, and for no bound on the time.
MayMint(e, now) ==
  /\ e.terms # NoTerms
  /\ e.terms.cap # 0 => e.mints < e.terms.cap
  /\ e.terms.start # 0 => now >= e.terms.start
  /\ e.terms.end # 0 => now <= e.terms.end

Mint(r, b, signer, now) ==
  LET e == held[r]
      bal == BalanceOrNew(b)
      n == e.terms.amount
  IN /\ r # b /\ IsEtching(r) /\ MayMint(e, now)
     /\ e.minted + n <= RUNE_MAX /\ bal.amount + n <= RUNE_MAX
     /\ Write(Pair(r, [e EXCEPT !.mints = @ + 1, !.minted = @ + n],
                   b, RuneBalance(r, bal.amount + n)), signer)
     /\ relabelled' = (relabelled \/ (ReadsAsBalance(b) /\ Mixes(b, r)))

\* The destination holds the same rune or cannot be read as a balance.
Transfer(a, b, signer, n) ==
  LET src == Balance(a)
      dst == BalanceOrNew(b)
  IN /\ a # b /\ ReadsAsBalance(a)
     /\ ReadsAsBalance(b) => dst.rune = src.rune
     /\ n <= src.amount /\ dst.amount + n <= RUNE_MAX
     /\ Write(Pair(a, RuneBalance(src.rune, src.amount - n),
                   b, RuneBalance(src.rune, dst.amount + n)), signer)
     /\ UNCHANGED relabelled

Burn_Mutant(r, b, signer, n) ==
  LET src == Balance(b)
  IN /\ r # b /\ IsEtching(r) /\ ReadsAsBalance(b)
     /\ held[r].burned + n <= RUNE_MAX
     /\ Write(Pair(r, [held[r] EXCEPT !.burned = @ + n],
                   b, RuneBalance(src.rune, IF n <= src.amount THEN src.amount - n ELSE 0)), signer)
     /\ relabelled' = (relabelled \/ src.rune # r)

\* The balance need not be one of the rune.
Burn(r, b, signer, n) ==
  LET src == Balance(b)
  IN /\ r # b /\ IsEtching(r) /\ ReadsAsBalance(b)
     /\ n <= src.amount /\ held[r].burned + n <= RUNE_MAX
     /\ Write(Pair(r, [held[r] EXCEPT !.burned = @ + n],
                   b, RuneBalance(src.rune, src.amount - n)), signer)
     /\ relabelled' = (relabelled \/ src.rune # r)

\* The new balance names no rune, although the instruction is "for `rune`".
InitBalance(b, owner) ==
  /\ ~ReadsAsBalance(b)
  /\ Write([k \in {b} |-> RuneBalance(NoRune, 0)], owner)
  /\ UNCHANGED relabelled

RunesNext ==
  \E a, b \in RuneKeys, s \in RuneKeys \cup Wallets :
    \/ \E n \in RuneAmounts \cup {0}, terms \in Terms \cup {NoTerms}, short \in BOOLEAN :
         Etch(a, b, s, n, terms, short)
    \/ \E now \in MintTimes : Mint(a, b, s, now)
    \/ \E n \in RuneAmounts : Transfer(a, b, s, n) \/ Burn(a, b, s, n)
    \/ a = b /\ InitBalance(a, s)

-----------------------------------------------------------------------------
(***************************************************************************)
(* Properties.                                                             *)
(***************************************************************************)
\* What the etching at k has in circulation; what the balance at k holds, and
\* holds of r.
circulating(k) == IF IsEtching(k) THEN held[k].minted - held[k].burned ELSE 0
Amount(k) == IF held[k].kind = "balance" THEN held[k].amount ELSE 0
AmountOf(k, r) == IF held[k].kind = "balance" /\ held[k].rune = r THEN held[k].amount ELSE 0

Circulating == SumFunction([k \in RuneKeys |-> circulating(k)])
AllHeld == SumFunction([k \in RuneKeys |-> Amount(k)])
HeldOf(r) == SumFunction([k \in RuneKeys |-> AmountOf(k, r)])

\* Through premines, open mints, transfers and burns, until an account of one
\* kind is written as the other or the signer is one of the accounts: what all
\* runes have in circulation, minted less burned, is what the balances hold
\* together; and each rune's circulation is what its own balances hold, until
\* Mint or Etch puts it into a balance of another rune or Burn takes it from one.
SupplyIsHeld ==
  recast \/ hidden \/
    /\ Circulating = AllHeld
    /\ relabelled \/ \A r \in RuneKeys : IsEtching(r) => circulating(r) = HeldOf(r)
=============================================================================
