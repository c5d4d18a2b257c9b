------------------------------- MODULE Token -------------------------------
(***************************************************************************)
(* The token program's instructions (himsha-programs/token).               *)
(*                                                                         *)
(* Callers pass mints as mints and token accounts as token accounts; who   *)
(* signs and which slots are flagged writable is theirs to choose.         *)
(* Authorities, decimals and delegates are left out.                       *)
(***************************************************************************)
EXTENDS Runtime

CONSTANTS Mints, Accounts,
          Signers,      \* keys that can sign
          Amounts, U64_MAX

ASSUME TokenAssumption ==
  /\ Mints \cup Accounts \cup Signers \subseteq Keys /\ Mints \cap Accounts = {}
  /\ Amounts \subseteq Nat /\ U64_MAX \in Nat

MintState(n) == [kind |-> "mint", amount |-> n]
TokenAccountState(m, n, frozen) ==
  [kind |-> "token", mint |-> m, amount |-> n, frozen |-> frozen]
TokenData == {MintState(n) : n \in 0 .. U64_MAX}
               \cup {TokenAccountState(m, n, f) : m \in Mints, n \in 0 .. U64_MAX, f \in BOOLEAN}

\* What the program reads in an account and how it writes it back: only into a
\* slot that is flagged writable.
Read(k)           == Load("token", k).data
write_data(k, d)  == [Load("token", k) EXCEPT !.data = d]
IsMint(k)         == Read(k).kind = "mint"
IsTokenAccount(k) == Read(k).kind = "token"
Frozen(k)         == Read(k).frozen

\* write_data of the first accounts in slots, which must be writable.
WriteFirst(slots, w, data) ==
  /\ DOMAIN data \subseteq w
  /\ Execute("token", slots, w, [i \in DOMAIN data |-> write_data(slots[i], data[i])], {})

-----------------------------------------------------------------------------
InitializeMint(m, w) ==
  /\ ~IsMint(m)
  /\ WriteFirst(<<m>>, w, <<MintState(0)>>)

InitializeAccount(t, m, s, w) ==
  /\ IsMint(m) /\ ~IsTokenAccount(t)
  /\ WriteFirst(<<t, m, s>>, w, <<TokenAccountState(m, 0, FALSE)>>)

MintTo(m, t, s, n, w) ==
  /\ IsMint(m) /\ IsTokenAccount(t) /\ Read(t).mint = m /\ ~Frozen(t)
  /\ Read(m).amount + n <= U64_MAX /\ Read(t).amount + n <= U64_MAX
  /\ WriteFirst(<<m, t, s>>, w,
       <<[Read(m) EXCEPT !.amount = @ + n], [Read(t) EXCEPT !.amount = @ + n]>>)

Transfer(from, to, s, n, w) ==
  /\ IsTokenAccount(from) /\ IsTokenAccount(to) /\ Read(from).mint = Read(to).mint
  /\ ~Frozen(from) /\ ~Frozen(to)
  /\ n <= Read(from).amount /\ Read(to).amount + n <= U64_MAX
  /\ WriteFirst(<<from, to, s>>, w,
       <<[Read(from) EXCEPT !.amount = @ - n], [Read(to) EXCEPT !.amount = @ + n]>>)

\* The mint is the one the caller names.
Burn(t, m, s, n, w) ==
  /\ IsTokenAccount(t) /\ IsMint(m) /\ ~Frozen(t)
  /\ n <= Read(t).amount /\ n <= Read(m).amount
  /\ WriteFirst(<<t, m, s>>, w,
       <<[Read(t) EXCEPT !.amount = @ - n], [Read(m) EXCEPT !.amount = @ - n]>>)

\* Approve and Revoke: the delegate is left out, what is stored is not.
Approve(t, s, w) ==
  /\ IsTokenAccount(t)
  /\ WriteFirst(<<t, s>>, w, <<Read(t)>>)

FreezeAccount(t, w) ==
  /\ IsTokenAccount(t)
  /\ WriteFirst(<<t>>, w, <<[Read(t) EXCEPT !.frozen = TRUE]>>)

ThawAccount(t, w) ==
  /\ IsTokenAccount(t) /\ Frozen(t)
  /\ WriteFirst(<<t>>, w, <<[Read(t) EXCEPT !.frozen = FALSE]>>)

\* Lamports and contents are taken away directly, writable or not; the account
\* stays the token program's.
CloseAccount(t, dest, w) ==
  /\ IsTokenAccount(t) /\ Read(t).amount = 0
  /\ Execute("token", <<t, dest>>, w,
       <<[Load("token", t) EXCEPT !.lamports = 0, !.data = NoData],
         [Load("token", dest) EXCEPT !.lamports = (@ + Load("token", t).lamports) % (U64_MAX + 1)]>>, {})

TokenStep(w) ==
  \/ \E m \in Mints : InitializeMint(m, w)
  \/ \E t \in Accounts, m \in Mints, s \in Signers :
       \/ InitializeAccount(t, m, s, w)
       \/ \E n \in Amounts : MintTo(m, t, s, n, w) \/ Burn(t, m, s, n, w)
  \/ \E t, u \in Accounts, s \in Signers, n \in Amounts : Transfer(t, u, s, n, w)
  \/ \E t \in Accounts, s \in Signers : Approve(t, s, w)
  \/ \E t \in Accounts : FreezeAccount(t, w) \/ ThawAccount(t, w)
  \/ \E t \in Accounts, dest \in Keys : CloseAccount(t, dest, w)
=============================================================================
