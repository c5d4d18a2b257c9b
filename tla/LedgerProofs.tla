---------------------------- MODULE LedgerProofs ----------------------------
(***************************************************************************)
(* Proofs about Ledger, for any accounts, amounts, slots flagged writable  *)
(* and order of instructions and faucet calls.                             *)
(*                                                                         *)
(* The argument has two layers.  What Execute stores is settled first, for *)
(* any program: the slots may name an account more than once, and the copy *)
(* of the last of them stays.  Then each instruction only has to say what  *)
(* it leaves in its first two slots.                                       *)
(***************************************************************************)
EXTENDS Ledger, InductionLemmas

-----------------------------------------------------------------------------
(***************************************************************************)
(* What Execute stores.                                                    *)
(***************************************************************************)

\* What the program leaves in slot i, and what is stored for it.
After(program, slots, changed, i) ==
  IF i \in DOMAIN changed THEN changed[i] ELSE Load(program, slots[i])
Copy(program, slots, changed, i) ==
  claim(program, Load(program, slots[i]), After(program, slots, changed, i))

Slots(s) == \E n \in 1 .. 4 : s \in [1 .. n -> Keys]

\* A set of slots has a last one.
LEMMA LastSlot ==
  ASSUME NEW S \in SUBSET (1 .. 4), S # {}
  PROVE  Max(S) \in S /\ \A i \in S : i <= Max(S)
<1>1. \E x \in S : \A y \in S : x >= y
  <2>1. CASE 4 \in S
    BY <2>1
  <2>2. CASE 4 \notin S /\ 3 \in S
    BY <2>2
  <2>3. CASE 4 \notin S /\ 3 \notin S /\ 2 \in S
    BY <2>3
  <2>4. CASE 4 \notin S /\ 3 \notin S /\ 2 \notin S
    <3>1. \A y \in S : y = 1
      BY <2>4
    <3>2. PICK x \in S : TRUE
      OBVIOUS
    <3>3. x = 1 /\ \A y \in S : x >= y
      BY <3>1
    <3> QED BY <3>3
  <2> QED BY <2>1, <2>2, <2>3, <2>4
<1>2. Max(S) \in S /\ \A y \in S : Max(S) >= y
  BY <1>1, Zenon DEF Max
<1> QED BY <1>2

LastCopiesStored(program, slots, changed) ==
  /\ DOMAIN acct' = DOMAIN acct \cup {slots[i] : i \in DOMAIN slots}
  /\ \A k \in DOMAIN acct' :
       \/ acct'[k] = acct[k] /\ k \in DOMAIN acct /\ \A i \in DOMAIN slots : slots[i] # k
       \/ \E i \in DOMAIN slots :
            /\ slots[i] = k /\ acct'[k] = Copy(program, slots, changed, i)
            /\ \A j \in DOMAIN slots : slots[j] = k => j <= i

\* The copy of the last slot that names an account is stored.
LEMMA ExecuteStores ==
  ASSUME NEW program, NEW slots, Slots(slots), NEW w, NEW changed, NEW approved,
         Execute(program, slots, w, changed, approved)
  PROVE  LastCopiesStored(program, slots, changed)
<1> DEFINE Named == {slots[i] : i \in DOMAIN slots}
           At(k) == {i \in DOMAIN slots : slots[i] = k}
           before == [i \in DOMAIN slots |-> Load(program, slots[i])]
           after == [i \in DOMAIN slots |-> IF i \in DOMAIN changed THEN changed[i] ELSE before[i]]
           copies == [i \in DOMAIN slots |-> claim(program, before[i], after[i])]
<1>1. acct' = Store(slots, copies)
  BY DEF Execute
<1>2. ASSUME NEW i \in DOMAIN slots PROVE copies[i] = Copy(program, slots, changed, i)
  BY DEF Copy, After
<1> HIDE DEF copies
<1>3. acct' = [k \in DOMAIN acct \cup Named |->
                 IF k \in Named THEN copies[Max(At(k))] ELSE acct[k]]
  BY <1>1 DEF Store
<1>4. DOMAIN slots \subseteq 1 .. 4
  BY DEF Slots
<1>5. ASSUME NEW k \in Named PROVE Max(At(k)) \in At(k) /\ \A i \in At(k) : i <= Max(At(k))
  <2>1. At(k) \in SUBSET (1 .. 4) /\ At(k) # {}
    BY <1>4
  <2> HIDE DEF At
  <2> QED BY <2>1, LastSlot
<1>6. DOMAIN acct' = DOMAIN acct \cup Named
  BY <1>3
<1>7. ASSUME NEW k \in DOMAIN acct', k \notin Named
      PROVE  acct'[k] = acct[k] /\ k \in DOMAIN acct /\ \A i \in DOMAIN slots : slots[i] # k
  BY <1>3, <1>7
<1>8. ASSUME NEW k \in Named
      PROVE  \E i \in DOMAIN slots :
               /\ slots[i] = k /\ acct'[k] = Copy(program, slots, changed, i)
               /\ \A j \in DOMAIN slots : slots[j] = k => j <= i
  <2>1. acct'[k] = copies[Max(At(k))]
    BY <1>3
  <2>2. Max(At(k)) \in DOMAIN slots /\ slots[Max(At(k))] = k
    BY <1>5
  <2>3. \A j \in DOMAIN slots : slots[j] = k => j <= Max(At(k))
    BY <1>5
  <2>4. copies[Max(At(k))] = Copy(program, slots, changed, Max(At(k)))
    BY <1>2, <2>2
  <2> HIDE DEF At
  <2> QED BY <2>1, <2>2, <2>3, <2>4
<1> HIDE DEF Named
<1> QED BY <1>6, <1>7, <1>8 DEF Named, LastCopiesStored

\* claim changes nothing but the owner, and nothing at all of an unchanged copy.
LEMMA Claims ==
  ASSUME NEW D, NEW program \in Programs, NEW pre \in Account(D), NEW E, NEW post \in Account(E)
  PROVE  /\ claim(program, pre, post) \in Account(E)
         /\ claim(program, pre, post).lamports = post.lamports
         /\ claim(program, pre, post).data = post.data
         /\ claim(program, pre, post).owner \in {post.owner, program}
         /\ claim(program, pre, pre) = pre
<1>1. credit_only(pre, pre)
  BY DEF credit_only, Account
<1> QED BY <1>1 DEF claim, Account

\* Unless a copy is shadowed, a slot that is followed by another one of the same
\* account is left as it was.
LEMMA EarlierUnchanged ==
  ASSUME NEW program, NEW slots, Slots(slots), NEW w, NEW changed, NEW approved,
         Execute(program, slots, w, changed, approved), ~shadowed',
         NEW i \in DOMAIN slots, NEW j \in DOMAIN slots, i < j, slots[i] = slots[j]
  PROVE  After(program, slots, changed, i) = Load(program, slots[i])
<1> SUFFICES ASSUME After(program, slots, changed, i) # Load(program, slots[i]) PROVE FALSE
  OBVIOUS
<1> DEFINE before == [l \in DOMAIN slots |-> Load(program, slots[l])]
           after == [l \in DOMAIN slots |-> IF l \in DOMAIN changed THEN changed[l] ELSE before[l]]
<1>1. after[i] # before[i]
  BY DEF After
<1>2. \A l, m \in DOMAIN slots : ~(/\ l < m /\ slots[l] = slots[m] /\ ~({l, m} \subseteq w)
                                   /\ after[l] # before[l])
  BY Zenon DEF Execute
<1>3. reject_duplicate_writable(slots, w)
  BY DEF Execute
<1> HIDE DEF after, before
<1>4. {i, j} \subseteq w
  BY <1>1, <1>2
<1>5. i = j
  BY <1>3, <1>4 DEF reject_duplicate_writable
<1>6. i \in Int
  BY DEF Slots
<1> QED BY <1>5, <1>6

\* Unless a changed copy is shadowed, what is stored is what the program left.
LEMMA ExecuteExact ==
  ASSUME NEW program, NEW slots, Slots(slots), NEW w, NEW changed, NEW approved,
         Execute(program, slots, w, changed, approved), ~shadowed',
         NEW i \in DOMAIN slots,
         After(program, slots, changed, i) # Load(program, slots[i])
  PROVE  acct'[slots[i]] = Copy(program, slots, changed, i) /\ slots[i] \in DOMAIN acct'
<1>0. LastCopiesStored(program, slots, changed)
  BY ExecuteStores
<1>1. slots[i] \in DOMAIN acct'
  BY <1>0 DEF LastCopiesStored
<1>2. PICK j \in DOMAIN slots :
        /\ slots[j] = slots[i] /\ acct'[slots[i]] = Copy(program, slots, changed, j)
        /\ \A l \in DOMAIN slots : slots[l] = slots[i] => l <= j
  BY <1>0, <1>1, Zenon DEF LastCopiesStored
<1>3. i <= j /\ i \in Int /\ j \in Int
  BY <1>2 DEF Slots
<1>4. ~(i < j)
  BY <1>2, EarlierUnchanged
<1>5. i = j
  BY <1>3, <1>4
<1> QED BY <1>1, <1>2, <1>5

-----------------------------------------------------------------------------
(***************************************************************************)
(* Accounts that are well-formed where they are: only mints hold a mint's  *)
(* contents and only token accounts a token account's.                     *)
(***************************************************************************)
Contents(k) ==
  {NoData, Zeros}
    \cup {d \in TokenData : (d.kind = "mint" /\ k \in Mints) \/ (d.kind = "token" /\ k \in Accounts)}
Good(k, a) == a \in Account(Contents(k))
AllGood == DOMAIN acct \subseteq Keys /\ \A k \in DOMAIN acct : Good(k, acct[k])

HoldingOf(a) == IF IsTokenData(a.data) THEN a.data.amount ELSE 0

LEMMA LoadGood ==
  ASSUME AllGood, NEW program \in Programs, NEW k
  PROVE  /\ Good(k, Load(program, k))
         /\ Lamports(k) = Load(program, k).lamports
         /\ Holding(k) = HoldingOf(Load(program, k))
<1>1. CASE k \in DOMAIN acct
  BY <1>1 DEF AllGood, Load, Lamports, Holding, HoldingOf
<1>2. CASE k \notin DOMAIN acct
  BY <1>2 DEF Good, Account, Contents, Load, Lamports, Holding, HoldingOf, Fresh, NoData, IsTokenData
<1> QED BY <1>1, <1>2

\* What is stored is well-formed if every slot was left so.
LEMMA ExecuteGood ==
  ASSUME AllGood, NEW program \in Programs, NEW slots, Slots(slots), NEW w, NEW changed,
         NEW approved, Execute(program, slots, w, changed, approved),
         \A i \in DOMAIN slots : Good(slots[i], After(program, slots, changed, i))
  PROVE  AllGood'
<1>0. LastCopiesStored(program, slots, changed)
  BY ExecuteStores
<1>1. DOMAIN acct' \subseteq Keys
  BY <1>0 DEF LastCopiesStored, AllGood, Slots
<1>2. ASSUME NEW i \in DOMAIN slots PROVE Good(slots[i], Copy(program, slots, changed, i))
  BY LoadGood, Claims DEF Good, Copy
<1>3. ASSUME NEW k \in DOMAIN acct' PROVE Good(k, acct'[k])
  <2>1. CASE acct'[k] = acct[k] /\ k \in DOMAIN acct
    BY <2>1 DEF AllGood
  <2>2. CASE \E i \in DOMAIN slots : slots[i] = k /\ acct'[k] = Copy(program, slots, changed, i)
    BY <1>2, <2>2
  <2> QED BY <1>0, <2>1, <2>2, Zenon DEF LastCopiesStored
<1> QED BY <1>1, <1>3 DEF AllGood

\* Lamports and holdings of an account that no slot changes stay; those of one
\* that a slot changes are what is left in the slot.
LEMMA ExecuteMeasures ==
  ASSUME AllGood, NEW program \in Programs, NEW slots, Slots(slots), NEW w, NEW changed,
         NEW approved, Execute(program, slots, w, changed, approved), ~shadowed',
         \A i \in DOMAIN slots : Good(slots[i], After(program, slots, changed, i))
  PROVE  /\ \A k : (\A i \in DOMAIN slots : slots[i] = k =>
                     After(program, slots, changed, i) = Load(program, k))
                => Lamports(k)' = Lamports(k) /\ Holding(k)' = Holding(k)
         /\ \A i \in DOMAIN slots :
              (\A j \in DOMAIN slots : slots[j] = slots[i] /\ j # i =>
                     After(program, slots, changed, j) = Load(program, slots[i]))
              => /\ Lamports(slots[i])' = After(program, slots, changed, i).lamports
                 /\ Holding(slots[i])' = HoldingOf(After(program, slots, changed, i))
<1>0. LastCopiesStored(program, slots, changed)
  BY ExecuteStores
<1>1. ASSUME NEW i \in DOMAIN slots
      PROVE  /\ Copy(program, slots, changed, i).lamports = After(program, slots, changed, i).lamports
             /\ Copy(program, slots, changed, i).data = After(program, slots, changed, i).data
             /\ After(program, slots, changed, i) = Load(program, slots[i])
                  => Copy(program, slots, changed, i) = Load(program, slots[i])
  BY LoadGood, Claims DEF Good, Copy
<1>2. ASSUME NEW k,
             \A i \in DOMAIN slots : slots[i] = k =>
               After(program, slots, changed, i) = Load(program, k)
      PROVE  Lamports(k)' = Lamports(k) /\ Holding(k)' = Holding(k)
  <2>1. CASE k \in DOMAIN acct'
    <3>1. acct'[k] = Load(program, k)
      <4>1. CASE acct'[k] = acct[k] /\ k \in DOMAIN acct
        BY <4>1 DEF Load
      <4>2. CASE \E i \in DOMAIN slots : slots[i] = k /\ acct'[k] = Copy(program, slots, changed, i)
        BY <1>1, <1>2, <4>2
      <4> QED BY <1>0, <2>1, <4>1, <4>2, Zenon DEF LastCopiesStored
    <3>2. Lamports(k)' = Load(program, k).lamports /\ Holding(k)' = HoldingOf(Load(program, k))
      BY <2>1, <3>1 DEF Lamports, Holding, HoldingOf
    <3> QED BY <3>2, LoadGood
  <2>2. CASE k \notin DOMAIN acct'
    <3>1. k \notin DOMAIN acct
      BY <1>0, <2>2 DEF LastCopiesStored
    <3> QED BY <2>2, <3>1 DEF Lamports, Holding
  <2> QED BY <2>1, <2>2
<1>3. ASSUME NEW i \in DOMAIN slots,
             \A j \in DOMAIN slots : slots[j] = slots[i] /\ j # i =>
               After(program, slots, changed, j) = Load(program, slots[i])
      PROVE  /\ Lamports(slots[i])' = After(program, slots, changed, i).lamports
             /\ Holding(slots[i])' = HoldingOf(After(program, slots, changed, i))
  <2>1. CASE After(program, slots, changed, i) # Load(program, slots[i])
    <3>1. acct'[slots[i]] = Copy(program, slots, changed, i) /\ slots[i] \in DOMAIN acct'
      BY <2>1, ExecuteExact
    <3> QED BY <1>1, <3>1 DEF Lamports, Holding, HoldingOf
  <2>2. CASE After(program, slots, changed, i) = Load(program, slots[i])
    <3>1. \A j \in DOMAIN slots : slots[j] = slots[i] =>
            After(program, slots, changed, j) = Load(program, slots[i])
      BY <1>3, <2>2
    <3>2. Lamports(slots[i])' = Lamports(slots[i]) /\ Holding(slots[i])' = Holding(slots[i])
      BY <1>2, <3>1
    <3> QED BY <2>2, <3>2, LoadGood
  <2> QED BY <2>1, <2>2
<1> QED BY <1>2, <1>3

\* One account, or at most two, has changed and is now as x (and y) say.
OneChanged(a, x) ==
  /\ \A k : k # a => Lamports(k)' = Lamports(k) /\ Holding(k)' = Holding(k)
  /\ Lamports(a)' = x.lamports /\ Holding(a)' = HoldingOf(x)
TwoChanged(a, x, b, y) ==
  /\ \A k : k \notin {a, b} => Lamports(k)' = Lamports(k) /\ Holding(k)' = Holding(k)
  /\ a # b => Lamports(a)' = x.lamports /\ Holding(a)' = HoldingOf(x)
  /\ Lamports(b)' = y.lamports /\ Holding(b)' = HoldingOf(y)

LEMMA OneSlot ==
  ASSUME AllGood, NEW program \in Programs, NEW slots, Slots(slots), NEW w, NEW changed,
         NEW approved, Execute(program, slots, w, changed, approved), ~shadowed',
         NEW c \in DOMAIN slots, DOMAIN changed = {c}, Good(slots[c], changed[c])
  PROVE  OneChanged(slots[c], changed[c])
<1>1. /\ After(program, slots, changed, c) = changed[c]
      /\ \A i \in DOMAIN slots : i # c => After(program, slots, changed, i) = Load(program, slots[i])
  BY DEF After
<1>2. \A i \in DOMAIN slots : Good(slots[i], After(program, slots, changed, i))
  BY <1>1, LoadGood
<1>3. ASSUME NEW k, k # slots[c] PROVE Lamports(k)' = Lamports(k) /\ Holding(k)' = Holding(k)
  <2>1. \A i \in DOMAIN slots : slots[i] = k => After(program, slots, changed, i) = Load(program, k)
    BY <1>1, <1>3
  <2> QED BY <1>2, <2>1, ExecuteMeasures
<1>4. Lamports(slots[c])' = changed[c].lamports /\ Holding(slots[c])' = HoldingOf(changed[c])
  <2>1. \A j \in DOMAIN slots : slots[j] = slots[c] /\ j # c =>
          After(program, slots, changed, j) = Load(program, slots[c])
    BY <1>1
  <2> QED BY <1>1, <1>2, <2>1, ExecuteMeasures
<1> QED BY <1>3, <1>4 DEF OneChanged

LEMMA TwoSlots ==
  ASSUME AllGood, NEW program \in Programs, NEW slots, Slots(slots), NEW w, NEW changed,
         NEW approved, Execute(program, slots, w, changed, approved), ~shadowed',
         {1, 2} \subseteq DOMAIN slots, DOMAIN changed = {1, 2},
         Good(slots[1], changed[1]), Good(slots[2], changed[2])
  PROVE  /\ TwoChanged(slots[1], changed[1], slots[2], changed[2])
         /\ slots[1] = slots[2] => changed[1] = Load(program, slots[1])
<1>1. /\ After(program, slots, changed, 1) = changed[1]
      /\ After(program, slots, changed, 2) = changed[2]
      /\ \A i \in DOMAIN slots : i \notin {1, 2} =>
           After(program, slots, changed, i) = Load(program, slots[i])
  BY DEF After
<1>2. \A i \in DOMAIN slots : Good(slots[i], After(program, slots, changed, i))
  BY <1>1, LoadGood
<1>3. slots[1] = slots[2] => changed[1] = Load(program, slots[1])
  BY <1>1, EarlierUnchanged
<1>4. ASSUME NEW k, k \notin {slots[1], slots[2]}
      PROVE  Lamports(k)' = Lamports(k) /\ Holding(k)' = Holding(k)
  <2>1. \A i \in DOMAIN slots : slots[i] = k => After(program, slots, changed, i) = Load(program, k)
    BY <1>1, <1>4
  <2> QED BY <1>2, <2>1, ExecuteMeasures
<1>5. Lamports(slots[2])' = changed[2].lamports /\ Holding(slots[2])' = HoldingOf(changed[2])
  <2>1. \A j \in DOMAIN slots : slots[j] = slots[2] /\ j # 2 =>
          After(program, slots, changed, j) = Load(program, slots[2])
    BY <1>1, <1>3
  <2> QED BY <1>1, <1>2, <2>1, ExecuteMeasures
<1>6. ASSUME slots[1] # slots[2]
      PROVE  Lamports(slots[1])' = changed[1].lamports /\ Holding(slots[1])' = HoldingOf(changed[1])
  <2>1. \A j \in DOMAIN slots : slots[j] = slots[1] /\ j # 1 =>
          After(program, slots, changed, j) = Load(program, slots[1])
    BY <1>1, <1>6
  <2> QED BY <1>1, <1>2, <2>1, ExecuteMeasures
<1> QED BY <1>3, <1>4, <1>5, <1>6 DEF TwoChanged

-----------------------------------------------------------------------------
(***************************************************************************)
(* Owners.  An account with a mint's or a token account's contents is not  *)
(* the system program's, so that only the token program writes it.         *)
(***************************************************************************)
Owned(a, rec) ==
  IsTokenData(a.data) => a.owner # "system" /\ (rec \/ a.owner = "token")
AllOwned == \A k \in DOMAIN acct : Owned(acct[k], reclaimed)

LEMMA LoadOwned ==
  ASSUME AllOwned, NEW program, NEW k
  PROVE  Owned(Load(program, k), reclaimed)
<1>1. ~IsTokenData(Fresh(program).data)
  BY DEF IsTokenData, Fresh, NoData
<1> QED BY <1>1 DEF AllOwned, Owned, Load

\* If every copy that is stored is owned as it should be, every account is.
LEMMA ExecuteOwned ==
  ASSUME AllOwned, NEW program \in Programs, NEW slots, Slots(slots), NEW w, NEW changed,
         NEW approved, Execute(program, slots, w, changed, approved),
         reclaimed => reclaimed',
         \A i \in DOMAIN slots : Owned(Copy(program, slots, changed, i), reclaimed')
  PROVE  AllOwned'
<1>0. LastCopiesStored(program, slots, changed)
  BY ExecuteStores
<1>1. ASSUME NEW k \in DOMAIN acct' PROVE Owned(acct'[k], reclaimed')
  <2>1. CASE acct'[k] = acct[k] /\ k \in DOMAIN acct
    BY <2>1 DEF AllOwned, Owned
  <2>2. CASE \E i \in DOMAIN slots : slots[i] = k /\ acct'[k] = Copy(program, slots, changed, i)
    BY <2>2
  <2> QED BY <1>0, <2>1, <2>2, Zenon DEF LastCopiesStored
<1> QED BY <1>1 DEF AllOwned, Owned

\* The token program keeps the owner and claims what it writes into a blank account.
LEMMA TokenOwned ==
  ASSUME NEW k, NEW pre, Good(k, pre), NEW post, Good(k, post), NEW rec,
         validate_write("token", pre, post, {}), post.owner = pre.owner, Owned(pre, rec)
  PROVE  Owned(claim("token", pre, post), rec)
<1>1. "token" \in Programs
  BY DEF Programs
<1>2. /\ claim("token", pre, post).data = post.data
      /\ claim("token", pre, pre) = pre
  BY <1>1, Claims DEF Good
<1>3. CASE post = pre
  BY <1>2, <1>3
<1>4. CASE pre.owner = "token"
  BY <1>4 DEF claim, Owned
<1>5. CASE credit_only(pre, post)
  <2>1. post.data = pre.data /\ claim("token", pre, post) = post
    BY <1>5 DEF credit_only, claim, Good, Account
  <2> QED BY <2>1 DEF Owned
<1>6. CASE is_blank(pre) /\ pre.owner # "token" /\ ~credit_only(pre, post)
  <2>1. claim("token", pre, post).owner = "token"
    BY <1>6 DEF claim, Good, Account
  <2> QED BY <2>1 DEF Owned
<1> QED BY <1>3, <1>4, <1>5, <1>6 DEF validate_write

\* The system program writes no such contents, and cannot touch them.
LEMMA SystemOwned ==
  ASSUME NEW k, NEW pre, Good(k, pre), NEW post, Good(k, post), NEW rec,
         validate_write("system", pre, post, {}),
         IsTokenData(post.data) => post.data = pre.data, Owned(pre, rec)
  PROVE  /\ Owned(claim("system", pre, post), rec)
         /\ HoldingOf(post) = HoldingOf(pre)
<1>1. "system" \in Programs
  BY DEF Programs
<1>2. claim("system", pre, post).data = post.data /\ claim("system", pre, pre) = pre
  BY <1>1, Claims DEF Good
<1>3. CASE post = pre
  BY <1>2, <1>3
<1>4. CASE pre.owner = "system" \/ is_blank(pre)
  <2>1. ~IsTokenData(pre.data)
    BY <1>4 DEF Owned, is_blank, IsTokenData, NoData
  <2>2. ~IsTokenData(post.data)
    BY <2>1
  <2> QED BY <1>2, <2>1, <2>2 DEF Owned, HoldingOf
<1>5. CASE credit_only(pre, post)
  <2>1. post.data = pre.data /\ post.owner = pre.owner /\ claim("system", pre, post) = post
    BY <1>5 DEF credit_only, claim, Good, Account
  <2> QED BY <2>1 DEF Owned, HoldingOf
<1> QED BY <1>3, <1>4, <1>5 DEF validate_write

-----------------------------------------------------------------------------
(***************************************************************************)
(* What every instruction keeps.                                           *)
(***************************************************************************)
Supplies == SumFunction([m \in Mints |-> Holding(m)])
Holdings == SumFunction([t \in Accounts |-> Holding(t)])
AllLamports == SumFunction([k \in Keys |-> Lamports(k)])

InstructionKeeps ==
  /\ AllGood'
  /\ AllOwned => AllOwned'
  /\ AllOwned /\ ~shadowed' /\ Supplies = Holdings => Supplies' = Holdings'
  /\ ~shadowed' /\ AllLamports <= U64_MAX => AllLamports' = AllLamports

LEMMA FiniteKeys == IsFiniteSet(Keys) /\ IsFiniteSet(Mints) /\ IsFiniteSet(Accounts)
BY RuntimeAssumption, TokenAssumption, FS_Subset

Measured == \A k : Lamports(k) \in Nat /\ Holding(k) \in Nat

LEMMA Measures == AllGood => Measured
<1>1. ASSUME AllGood, NEW k PROVE Lamports(k) \in Nat /\ Holding(k) \in Nat
  <2>1. CASE k \in DOMAIN acct
    <3>1. acct[k].lamports \in Nat /\ acct[k].data \in Contents(k)
      BY <1>1, <2>1 DEF AllGood, Good, Account
    <3>2. IsTokenData(acct[k].data) => acct[k].data.amount \in Nat
      BY <3>1, TokenAssumption
      DEF IsTokenData, Contents, TokenData, MintState, TokenAccountState, NoData, Zeros
    <3> QED BY <2>1, <3>1, <3>2 DEF Lamports, Holding
  <2>2. CASE k \notin DOMAIN acct
    BY <2>2 DEF Lamports, Holding
  <2> QED BY <2>1, <2>2
<1> QED BY <1>1 DEF Measured

LEMMA MeasuresNext == AllGood' => Measured'
BY Measures, PTL

\* Copies with the same holdings (lamports) as before change no holdings (lamports).
LEMMA ExecuteKeepsHoldings ==
  ASSUME AllGood, NEW program \in Programs, NEW slots, Slots(slots), NEW w, NEW changed,
         NEW approved, Execute(program, slots, w, changed, approved),
         \A i \in DOMAIN slots : Good(slots[i], After(program, slots, changed, i))
  PROVE  /\ (\A i \in DOMAIN slots :
               HoldingOf(After(program, slots, changed, i)) = HoldingOf(Load(program, slots[i])))
            => \A k : Holding(k)' = Holding(k)
         /\ (\A i \in DOMAIN slots :
               After(program, slots, changed, i).lamports = Load(program, slots[i]).lamports)
            => \A k : Lamports(k)' = Lamports(k)
<1>0. LastCopiesStored(program, slots, changed)
  BY ExecuteStores
<1>1. ASSUME NEW i \in DOMAIN slots
      PROVE  /\ Copy(program, slots, changed, i).lamports = After(program, slots, changed, i).lamports
             /\ HoldingOf(Copy(program, slots, changed, i)) = HoldingOf(After(program, slots, changed, i))
  <2>1. Copy(program, slots, changed, i).data = After(program, slots, changed, i).data
    BY LoadGood, Claims DEF Good, Copy
  <2> QED BY <2>1, LoadGood, Claims DEF Good, Copy, HoldingOf
<1>2. ASSUME NEW k PROVE
        \/ k \notin DOMAIN acct' /\ k \notin DOMAIN acct
        \/ k \in DOMAIN acct' /\ k \in DOMAIN acct /\ acct'[k] = acct[k]
        \/ k \in DOMAIN acct' /\ \E i \in DOMAIN slots :
              slots[i] = k /\ acct'[k] = Copy(program, slots, changed, i)
  BY <1>0, Zenon DEF LastCopiesStored
<1>3. ASSUME NEW k, NEW i \in DOMAIN slots, slots[i] = k, k \in DOMAIN acct',
             acct'[k] = Copy(program, slots, changed, i)
      PROVE  /\ Holding(k)' = HoldingOf(After(program, slots, changed, i))
             /\ Lamports(k)' = After(program, slots, changed, i).lamports
             /\ Holding(k) = HoldingOf(Load(program, slots[i]))
             /\ Lamports(k) = Load(program, slots[i]).lamports
  <2>1. Holding(k)' = HoldingOf(acct'[k]) /\ Lamports(k)' = acct'[k].lamports
    BY <1>3 DEF Holding, HoldingOf, Lamports
  <2> QED BY <1>1, <1>3, <2>1, LoadGood
<1>4. ASSUME \A i \in DOMAIN slots :
               HoldingOf(After(program, slots, changed, i)) = HoldingOf(Load(program, slots[i])),
             NEW k
      PROVE  Holding(k)' = Holding(k)
  <2>1. CASE \/ k \notin DOMAIN acct' /\ k \notin DOMAIN acct
             \/ k \in DOMAIN acct' /\ k \in DOMAIN acct /\ acct'[k] = acct[k]
    BY <2>1 DEF Holding
  <2>2. CASE k \in DOMAIN acct' /\ \E i \in DOMAIN slots :
               slots[i] = k /\ acct'[k] = Copy(program, slots, changed, i)
    <3>1. PICK i \in DOMAIN slots : slots[i] = k /\ acct'[k] = Copy(program, slots, changed, i)
      BY <2>2
    <3> QED BY <1>3, <1>4, <2>2, <3>1
  <2> QED BY <1>2, <2>1, <2>2
<1>5. ASSUME \A i \in DOMAIN slots :
               After(program, slots, changed, i).lamports = Load(program, slots[i]).lamports,
             NEW k
      PROVE  Lamports(k)' = Lamports(k)
  <2>1. CASE \/ k \notin DOMAIN acct' /\ k \notin DOMAIN acct
             \/ k \in DOMAIN acct' /\ k \in DOMAIN acct /\ acct'[k] = acct[k]
    BY <2>1 DEF Lamports
  <2>2. CASE k \in DOMAIN acct' /\ \E i \in DOMAIN slots :
               slots[i] = k /\ acct'[k] = Copy(program, slots, changed, i)
    <3>1. PICK i \in DOMAIN slots : slots[i] = k /\ acct'[k] = Copy(program, slots, changed, i)
      BY <2>2
    <3> QED BY <1>3, <1>5, <2>2, <3>1
  <2> QED BY <1>2, <2>1, <2>2
<1> QED BY <1>4, <1>5

LEMMA SameHoldings ==
  ASSUME \A k : Holding(k)' = Holding(k)
  PROVE  Supplies' = Supplies /\ Holdings' = Holdings
BY DEF Supplies, Holdings

LEMMA SameLamports ==
  ASSUME \A k : Lamports(k)' = Lamports(k)
  PROVE  AllLamports' = AllLamports
BY DEF AllLamports

\* Types and owners after an instruction of the token program that keeps owners.
LEMMA TokenStored ==
  ASSUME AllGood, NEW slots, Slots(slots), NEW w, NEW changed,
         Execute("token", slots, w, changed, {}), reclaimed' = reclaimed,
         \A i \in DOMAIN slots : Good(slots[i], After("token", slots, changed, i)),
         \A i \in DOMAIN slots :
           After("token", slots, changed, i).owner = Load("token", slots[i]).owner
  PROVE  AllGood' /\ (AllOwned => AllOwned')
<1>0. "token" \in Programs
  BY DEF Programs
<1>1. AllGood'
  BY <1>0, ExecuteGood
<1>2. ASSUME NEW i \in DOMAIN slots
      PROVE  validate_write("token", Load("token", slots[i]), After("token", slots, changed, i), {})
  BY Zenon DEF Execute, After
<1>3. ASSUME AllOwned PROVE AllOwned'
  <2>1. ASSUME NEW i \in DOMAIN slots PROVE Owned(Copy("token", slots, changed, i), reclaimed')
    <3>1. /\ Good(slots[i], Load("token", slots[i])) /\ Owned(Load("token", slots[i]), reclaimed)
      BY <1>0, <1>3, LoadGood, LoadOwned
    <3>2. Owned(claim("token", Load("token", slots[i]), After("token", slots, changed, i)), reclaimed)
      BY <1>2, <3>1, TokenOwned
    <3> QED BY <3>2 DEF Copy
  <2> QED BY <1>0, <1>3, <2>1, ExecuteOwned
<1> QED BY <1>1, <1>3

\* write_data, slot by slot.
Written(slots, data) == [i \in DOMAIN data |-> write_data(slots[i], data[i])]

LEMMA WriteFirstStored ==
  ASSUME AllGood, NEW slots, Slots(slots), NEW w, NEW data, WriteFirst(slots, w, data),
         reclaimed' = reclaimed, DOMAIN data \subseteq DOMAIN slots,
         \A i \in DOMAIN data : data[i] \in Contents(slots[i])
  PROVE  /\ Execute("token", slots, w, Written(slots, data), {})
         /\ \A i \in DOMAIN data : /\ Good(slots[i], Written(slots, data)[i])
                                   /\ Written(slots, data)[i].data = data[i]
                                   /\ Written(slots, data)[i].lamports = Lamports(slots[i])
         /\ AllGood' /\ (AllOwned => AllOwned')
         /\ \A k : Lamports(k)' = Lamports(k)
         /\ (\A i \in DOMAIN data : HoldingOf(Written(slots, data)[i]) = Holding(slots[i]))
              => \A k : Holding(k)' = Holding(k)
<1> DEFINE ch == Written(slots, data)
<1>0. "token" \in Programs
  BY DEF Programs
<1>1. Execute("token", slots, w, ch, {})
  BY DEF WriteFirst, Written
<1>2. DOMAIN ch = DOMAIN data
  BY DEF Written
<1>3. ASSUME NEW i \in DOMAIN data
      PROVE  /\ Good(slots[i], ch[i]) /\ ch[i].data = data[i]
             /\ ch[i].lamports = Load("token", slots[i]).lamports
             /\ ch[i].owner = Load("token", slots[i]).owner
  <2>1. Good(slots[i], Load("token", slots[i]))
    BY <1>0, LoadGood
  <2>2. ch[i] = [Load("token", slots[i]) EXCEPT !.data = data[i]]
    BY DEF Written, write_data
  <2> QED BY <2>1, <2>2 DEF Good, Account
<1> HIDE DEF ch
<1>4. ASSUME NEW i \in DOMAIN slots
      PROVE  /\ Good(slots[i], After("token", slots, ch, i))
             /\ After("token", slots, ch, i).owner = Load("token", slots[i]).owner
             /\ After("token", slots, ch, i).lamports = Load("token", slots[i]).lamports
  <2>1. CASE i \in DOMAIN data
    BY <1>2, <1>3, <2>1 DEF After
  <2>2. CASE i \notin DOMAIN data
    BY <1>0, <1>2, <2>2, LoadGood DEF After
  <2> QED BY <2>1, <2>2
<1>5. AllGood' /\ (AllOwned => AllOwned')
  BY <1>1, <1>4, TokenStored
<1>6. \A k : Lamports(k)' = Lamports(k)
  BY <1>0, <1>1, <1>4, ExecuteKeepsHoldings
<1>7. ASSUME \A i \in DOMAIN data : HoldingOf(ch[i]) = Holding(slots[i])
      PROVE  \A k : Holding(k)' = Holding(k)
  <2>1. ASSUME NEW i \in DOMAIN slots
        PROVE  HoldingOf(After("token", slots, ch, i)) = HoldingOf(Load("token", slots[i]))
    <3>1. CASE i \in DOMAIN data
      BY <1>0, <1>2, <1>7, <3>1, LoadGood DEF After
    <3>2. CASE i \notin DOMAIN data
      BY <1>2, <3>2 DEF After
    <3> QED BY <3>1, <3>2
  <2> QED BY <1>0, <1>1, <1>4, <2>1, ExecuteKeepsHoldings
<1>8. \A i \in DOMAIN data : Lamports(slots[i]) = Load("token", slots[i]).lamports
  BY <1>0, LoadGood
<1> QED BY <1>1, <1>3, <1>5, <1>6, <1>7, <1>8 DEF ch

\* An instruction that rewrites its accounts without moving tokens.
LEMMA QuietWrite ==
  ASSUME AllGood, NEW slots, Slots(slots), NEW w, NEW data, WriteFirst(slots, w, data),
         reclaimed' = reclaimed, DOMAIN data \subseteq DOMAIN slots,
         \A i \in DOMAIN data : /\ data[i] \in Contents(slots[i]) /\ IsTokenData(data[i])
                               /\ data[i].amount = Holding(slots[i])
  PROVE  InstructionKeeps
<1>1. \A i \in DOMAIN data : Written(slots, data)[i].data = data[i]
  BY WriteFirstStored
<1>2. \A i \in DOMAIN data : HoldingOf(Written(slots, data)[i]) = Holding(slots[i])
  BY <1>1 DEF HoldingOf
<1>3. /\ AllGood' /\ (AllOwned => AllOwned') /\ \A k : Lamports(k)' = Lamports(k)
      /\ \A k : Holding(k)' = Holding(k)
  BY <1>2, WriteFirstStored
<1> QED BY <1>3, SameHoldings, SameLamports DEF InstructionKeeps

-----------------------------------------------------------------------------
(***************************************************************************)
(* The token program.                                                      *)
(***************************************************************************)
LEMMA TheSlots ==
  ASSUME NEW a \in Keys, NEW b \in Keys, NEW c \in Keys, NEW d \in Keys
  PROVE  Slots(<<a>>) /\ Slots(<<a, b>>) /\ Slots(<<a, b, c>>) /\ Slots(<<a, b, c, d>>)
<1>1. /\ <<a>> \in [1 .. 1 -> Keys] /\ <<a, b>> \in [1 .. 2 -> Keys]
      /\ <<a, b, c>> \in [1 .. 3 -> Keys] /\ <<a, b, c, d>> \in [1 .. 4 -> Keys]
  OBVIOUS
<1> QED BY <1>1 DEF Slots

\* What the program finds in a mint and in a token account.
LEMMA MintData ==
  ASSUME AllGood, NEW m, IsMint(m)
  PROVE  /\ Read(m).amount \in 0 .. U64_MAX /\ Holding(m) = Read(m).amount
         /\ \A n \in 0 .. U64_MAX :
              LET d == [Read(m) EXCEPT !.amount = n]
              IN d \in Contents(m) /\ IsTokenData(d) /\ d.amount = n
<1>1. Good(m, Load("token", m)) /\ Holding(m) = HoldingOf(Load("token", m))
  BY LoadGood DEF Programs
<1>2. Read(m) \in Contents(m) /\ Read(m).kind = "mint"
  BY <1>1 DEF Good, Account, Read, IsMint
<1>3. PICK x \in 0 .. U64_MAX : Read(m) = MintState(x) /\ m \in Mints
  BY <1>2 DEF Contents, NoData, Zeros, TokenData, MintState, TokenAccountState
<1>4. Read(m).amount = x /\ IsTokenData(Read(m))
  BY <1>3 DEF MintState, IsTokenData
<1>5. Holding(m) = x
  BY <1>1, <1>4 DEF HoldingOf, Read
<1>6. \A n \in 0 .. U64_MAX : [Read(m) EXCEPT !.amount = n] = MintState(n)
  BY <1>3 DEF MintState
<1>7. \A n \in 0 .. U64_MAX :
        MintState(n) \in Contents(m) /\ IsTokenData(MintState(n)) /\ MintState(n).amount = n
  BY <1>3 DEF Contents, TokenData, MintState, IsTokenData
<1> QED BY <1>4, <1>5, <1>6, <1>7

LEMMA TokenAccountData ==
  ASSUME AllGood, NEW t, IsTokenAccount(t)
  PROVE  /\ Read(t).amount \in 0 .. U64_MAX /\ Holding(t) = Read(t).amount
         /\ Read(t) \in Contents(t) /\ IsTokenData(Read(t))
         /\ \A n \in 0 .. U64_MAX :
              LET d == [Read(t) EXCEPT !.amount = n]
              IN d \in Contents(t) /\ IsTokenData(d) /\ d.amount = n
         /\ \A f \in BOOLEAN :
              LET d == [Read(t) EXCEPT !.frozen = f]
              IN d \in Contents(t) /\ IsTokenData(d) /\ d.amount = Read(t).amount
<1>1. Good(t, Load("token", t)) /\ Holding(t) = HoldingOf(Load("token", t))
  BY LoadGood DEF Programs
<1>2. Read(t) \in Contents(t) /\ Read(t).kind = "token"
  BY <1>1 DEF Good, Account, Read, IsTokenAccount
<1>3. PICK m \in Mints, x \in 0 .. U64_MAX, f \in BOOLEAN :
        Read(t) = TokenAccountState(m, x, f) /\ t \in Accounts
  BY <1>2 DEF Contents, NoData, Zeros, TokenData, MintState, TokenAccountState
<1>4. Read(t).amount = x /\ IsTokenData(Read(t))
  BY <1>3 DEF TokenAccountState, IsTokenData
<1>5. Holding(t) = x
  BY <1>1, <1>4 DEF HoldingOf, Read
<1>6. /\ \A n \in 0 .. U64_MAX : [Read(t) EXCEPT !.amount = n] = TokenAccountState(m, n, f)
      /\ \A g \in BOOLEAN : [Read(t) EXCEPT !.frozen = g] = TokenAccountState(m, x, g)
  BY <1>3 DEF TokenAccountState
<1>7. \A n \in 0 .. U64_MAX, g \in BOOLEAN : LET d == TokenAccountState(m, n, g) IN
        d \in Contents(t) /\ IsTokenData(d) /\ d.amount = n
  BY <1>3 DEF Contents, TokenData, TokenAccountState, IsTokenData
<1> QED BY <1>2, <1>3, <1>4, <1>5, <1>6, <1>7

LEMMA TokenKeys == Mints \subseteq Keys /\ Accounts \subseteq Keys /\ Signers \subseteq Keys
BY TokenAssumption

LEMMA InitializeMintKeeps ==
  ASSUME AllGood, NEW m \in Mints, NEW w, InitializeMint(m, w), reclaimed' = reclaimed
  PROVE  InstructionKeeps
<1> DEFINE slots == <<m>>
           data == <<MintState(0)>>
<1>1. Slots(slots)
  BY TheSlots, TokenKeys
<1>2. WriteFirst(slots, w, data)
  BY DEF InitializeMint
<1>3. Holding(m) = 0
  <2>1. Good(m, Load("token", m)) /\ Holding(m) = HoldingOf(Load("token", m))
    BY LoadGood DEF Programs
  <2>2. ~IsTokenData(Load("token", m).data)
    BY <2>1, TokenAssumption
    DEF InitializeMint, IsMint, Read, Good, Account, Contents, TokenData, IsTokenData, NoData, Zeros
  <2> QED BY <2>1, <2>2 DEF HoldingOf
<1>4. /\ MintState(0) \in Contents(m) /\ IsTokenData(MintState(0)) /\ MintState(0).amount = 0
  BY TokenAssumption DEF Contents, TokenData, MintState, IsTokenData
<1>5. DOMAIN data = {1} /\ DOMAIN slots = {1} /\ data[1] = MintState(0) /\ slots[1] = m
  OBVIOUS
<1> HIDE DEF slots, data
<1> QED BY <1>1, <1>2, <1>3, <1>4, <1>5, QuietWrite

\* What a new token account holds.
LEMMA NewAccountData ==
  ASSUME NEW t \in Accounts, NEW m \in Mints
  PROVE  /\ TokenAccountState(m, 0, FALSE) \in Contents(t)
         /\ IsTokenData(TokenAccountState(m, 0, FALSE))
         /\ TokenAccountState(m, 0, FALSE).amount = 0
<1> DEFINE new == TokenAccountState(m, 0, FALSE)
<1>1. 0 \in 0 .. U64_MAX /\ FALSE \in BOOLEAN
  BY TokenAssumption
<1>2. new \in TokenData
  <2>1. \E x \in Mints, n \in 0 .. U64_MAX, f \in BOOLEAN : new = TokenAccountState(x, n, f)
    BY <1>1, Zenon
  <2> HIDE DEF new
  <2> QED BY <2>1 DEF TokenData
<1>3. new.kind = "token" /\ new.amount = 0
  BY DEF TokenAccountState
<1> HIDE DEF new
<1>4. new \in Contents(t) /\ IsTokenData(new) /\ new.amount = 0
  BY <1>2, <1>3 DEF Contents, IsTokenData
<1> QED BY <1>4 DEF new

LEMMA InitializeAccountKeeps ==
  ASSUME AllGood, NEW t \in Accounts, NEW m \in Mints, NEW s \in Signers, NEW w,
         InitializeAccount(t, m, s, w), reclaimed' = reclaimed
  PROVE  InstructionKeeps
<1> DEFINE slots == <<t, m, s>>
           new == TokenAccountState(m, 0, FALSE)
           data == <<new>>
<1>1. Slots(slots)
  BY TheSlots, TokenKeys
<1>2. WriteFirst(slots, w, data)
  BY DEF InitializeAccount
<1>3. Holding(t) = 0
  <2>1. Good(t, Load("token", t)) /\ Holding(t) = HoldingOf(Load("token", t))
    BY LoadGood DEF Programs
  <2>2. ~IsTokenData(Load("token", t).data)
    BY <2>1, TokenAssumption
    DEF InitializeAccount, IsTokenAccount, Read, Good, Account, Contents, TokenData, IsTokenData,
        NoData, Zeros
  <2> QED BY <2>1, <2>2 DEF HoldingOf
<1>4. new \in Contents(t) /\ IsTokenData(new) /\ new.amount = 0
  BY NewAccountData
<1>5. DOMAIN data = {1} /\ 1 \in DOMAIN slots /\ data[1] = new /\ slots[1] = t
  OBVIOUS
<1> HIDE DEF slots, data, new
<1> QED BY <1>1, <1>2, <1>3, <1>4, <1>5, QuietWrite

\* Approve and Revoke, FreezeAccount and ThawAccount.
LEMMA RewriteKeeps ==
  ASSUME AllGood, NEW t \in Accounts, NEW s \in Keys, NEW w, reclaimed' = reclaimed,
         Approve(t, s, w) \/ FreezeAccount(t, w) \/ ThawAccount(t, w)
  PROVE  InstructionKeeps
<1>1. PICK slots \in {<<t, s>>, <<t>>}, d \in {Read(t), [Read(t) EXCEPT !.frozen = TRUE],
                                             [Read(t) EXCEPT !.frozen = FALSE]} :
        WriteFirst(slots, w, <<d>>) /\ IsTokenAccount(t)
  BY Zenon DEF Approve, FreezeAccount, ThawAccount
<1>2. Slots(slots) /\ 1 \in DOMAIN slots /\ slots[1] = t
  <2>1. t \in Keys /\ s \in Keys
    BY TokenKeys
  <2>2. Slots(<<t>>) /\ Slots(<<t, s>>)
    BY <2>1, TheSlots
  <2>3. CASE slots = <<t>>
    BY <2>2, <2>3
  <2>4. CASE slots = <<t, s>>
    BY <2>2, <2>4
  <2> QED BY <2>3, <2>4
<1>3. d \in Contents(t) /\ IsTokenData(d) /\ d.amount = Holding(t)
  BY <1>1, TokenAccountData
<1> DEFINE data == <<d>>
<1>4. DOMAIN data = {1} /\ data[1] = d
  OBVIOUS
<1>5. WriteFirst(slots, w, data)
  BY <1>1
<1> HIDE DEF data
<1> QED BY <1>2, <1>3, <1>4, <1>5, QuietWrite

\* The sums after a mint and an account, two accounts, or the lamports of two
\* keys have changed.
LEMMA MintAndAccount ==
  ASSUME AllGood, AllGood', NEW m \in Mints, NEW t \in Accounts,
         \A k : k \notin {m, t} => Holding(k)' = Holding(k)
  PROVE  /\ Supplies' = Supplies - Holding(m) + Holding(m)'
         /\ Holdings' = Holdings - Holding(t) + Holding(t)'
<1> DEFINE f == [k \in Mints |-> Holding(k)]
           g == [k \in Mints |-> Holding(k)']
           p == [k \in Accounts |-> Holding(k)]
           q == [k \in Accounts |-> Holding(k)']
<1>1. \A k : Holding(k) \in Int /\ Holding(k)' \in Int
  <2>1. \A k : Holding(k) \in Nat
    BY Measures DEF Measured
  <2>2. \A k : Holding(k)' \in Nat
    BY MeasuresNext DEF Measured
  <2> QED BY <2>1, <2>2
<1>2. /\ f \in [Mints -> Int] /\ g \in [Mints -> Int]
      /\ p \in [Accounts -> Int] /\ q \in [Accounts -> Int]
  BY <1>1
<1>3. /\ \A k \in Mints \ {m} : g[k] = f[k]
      /\ \A k \in Accounts \ {t} : q[k] = p[k]
  BY TokenAssumption
<1>4. /\ f[m] = Holding(m) /\ g[m] = Holding(m)' /\ p[t] = Holding(t) /\ q[t] = Holding(t)'
  OBVIOUS
<1>5. /\ Supplies = SumFunction(f) /\ Supplies' = SumFunction(g)
      /\ Holdings = SumFunction(p) /\ Holdings' = SumFunction(q)
  BY DEF Supplies, Holdings
<1> HIDE DEF f, g, p, q
<1>6. SumFunction(g) = SumFunction(f) - f[m] + g[m]
  BY <1>2, <1>3, FiniteKeys, SumOneChange
<1>7. SumFunction(q) = SumFunction(p) - p[t] + q[t]
  BY <1>2, <1>3, FiniteKeys, SumOneChange
<1> QED BY <1>4, <1>5, <1>6, <1>7

LEMMA SupplyInt == AllGood => Supplies \in Int
<1> DEFINE f == [k \in Mints |-> Holding(k)]
<1>1. ASSUME AllGood PROVE f \in [Mints -> Nat]
  BY <1>1, Measures DEF Measured
<1> HIDE DEF f
<1>2. AllGood => SumFunction(f) \in Nat
  BY <1>1, FiniteKeys, SumOfNats
<1> QED BY <1>2 DEF Supplies, f

LEMMA TwoAccounts ==
  ASSUME AllGood, AllGood', NEW t \in Accounts, NEW u \in Accounts, t # u,
         \A k : k \notin {t, u} => Holding(k)' = Holding(k)
  PROVE  /\ Supplies' = Supplies
         /\ Holdings' = Holdings - Holding(t) - Holding(u) + Holding(t)' + Holding(u)'
<1> DEFINE p == [k \in Accounts |-> Holding(k)]
           q == [k \in Accounts |-> Holding(k)']
<1>1. \A k : Holding(k) \in Nat
  BY Measures DEF Measured
<1>2. \A k : Holding(k)' \in Nat
  BY MeasuresNext DEF Measured
<1>3. p \in [Accounts -> Int] /\ q \in [Accounts -> Int]
  BY <1>1, <1>2
<1>4. \A k \in Accounts \ {t, u} : q[k] = p[k]
  OBVIOUS
<1>5. p[t] = Holding(t) /\ q[t] = Holding(t)' /\ p[u] = Holding(u) /\ q[u] = Holding(u)'
  OBVIOUS
<1>6. Holdings = SumFunction(p) /\ Holdings' = SumFunction(q)
  BY DEF Holdings
<1>7. Supplies' = Supplies
  BY TokenAssumption DEF Supplies
<1> HIDE DEF p, q
<1>8. SumFunction(q) = SumFunction(p) - p[t] - p[u] + q[t] + q[u]
  BY <1>3, <1>4, FiniteKeys, SumTwoChanges
<1> QED BY <1>5, <1>6, <1>7, <1>8

LEMMA TwoLamports ==
  ASSUME AllGood, AllGood', NEW a \in Keys, NEW b \in Keys, a # b,
         \A k : k \notin {a, b} => Lamports(k)' = Lamports(k)
  PROVE  /\ AllLamports' = AllLamports - Lamports(a) - Lamports(b) + Lamports(a)' + Lamports(b)'
         /\ Lamports(a) + Lamports(b) <= AllLamports /\ AllLamports \in Nat
<1> DEFINE p == [k \in Keys |-> Lamports(k)]
           q == [k \in Keys |-> Lamports(k)']
<1>1. \A k : Lamports(k) \in Nat
  BY Measures DEF Measured
<1>2. \A k : Lamports(k)' \in Nat
  BY MeasuresNext DEF Measured
<1>3. p \in [Keys -> Int] /\ q \in [Keys -> Int] /\ p \in [Keys -> Nat]
  BY <1>1, <1>2
<1>4. \A k \in Keys \ {a, b} : q[k] = p[k]
  OBVIOUS
<1>5. p[a] = Lamports(a) /\ q[a] = Lamports(a)' /\ p[b] = Lamports(b) /\ q[b] = Lamports(b)'
  OBVIOUS
<1>6. AllLamports = SumFunction(p) /\ AllLamports' = SumFunction(q)
  BY DEF AllLamports
<1> HIDE DEF p, q
<1>7. SumFunction(q) = SumFunction(p) - p[a] - p[b] + q[a] + q[b]
  BY <1>3, <1>4, FiniteKeys, SumTwoChanges
<1>8. SumFunction(p) \in Nat /\ p[a] + p[b] <= SumFunction(p)
  BY <1>3, FiniteKeys, SumOfNats, SumOfNatsTwo
<1> QED BY <1>5, <1>6, <1>7, <1>8

\* Two writes of the token program: types, owners and lamports are kept, and the
\* holdings of the two accounts are what was written.
LEMMA TwoWrites ==
  ASSUME AllGood, NEW a \in Keys, NEW b \in Keys, NEW c \in Keys, NEW x, NEW y, NEW w,
         WriteFirst(<<a, b, c>>, w, <<x, y>>), reclaimed' = reclaimed,
         x \in Contents(a), y \in Contents(b), IsTokenData(x), IsTokenData(y)
  PROVE  /\ AllGood' /\ (AllOwned => AllOwned') /\ AllLamports' = AllLamports
         /\ ~shadowed' =>
              /\ \A k : k \notin {a, b} => Holding(k)' = Holding(k)
              /\ a # b => Holding(a)' = x.amount
              /\ Holding(b)' = y.amount
              /\ a = b => x.amount = Holding(a)
<1> DEFINE slots == <<a, b, c>>
           data == <<x, y>>
           ch == Written(slots, data)
<1>1. Slots(slots) /\ WriteFirst(slots, w, data)
  BY TheSlots
<1>2. /\ DOMAIN slots = 1 .. 3 /\ DOMAIN data = {1, 2} /\ data[1] = x /\ data[2] = y
      /\ slots[1] = a /\ slots[2] = b
  OBVIOUS
<1> HIDE DEF slots, data
<1>3. DOMAIN data \subseteq DOMAIN slots /\ \A i \in DOMAIN data : data[i] \in Contents(slots[i])
  BY <1>2
<1>4. /\ Execute("token", slots, w, ch, {})
      /\ \A i \in DOMAIN data : Good(slots[i], ch[i]) /\ ch[i].data = data[i]
      /\ AllGood' /\ (AllOwned => AllOwned') /\ \A k : Lamports(k)' = Lamports(k)
  BY <1>1, <1>3, WriteFirstStored
<1>5. AllLamports' = AllLamports
  BY <1>4, SameLamports
<1>6. DOMAIN ch = {1, 2}
  BY <1>2 DEF Written
<1> HIDE DEF ch
<1>7. ASSUME ~shadowed'
      PROVE  /\ \A k : k \notin {a, b} => Holding(k)' = Holding(k)
             /\ a # b => Holding(a)' = x.amount
             /\ Holding(b)' = y.amount
             /\ a = b => x.amount = Holding(a)
  <2>1. /\ TwoChanged(a, ch[1], b, ch[2]) /\ (a = b => ch[1] = Load("token", a))
    BY <1>1, <1>2, <1>4, <1>6, <1>7, TwoSlots DEF Programs
  <2>2. HoldingOf(ch[1]) = x.amount /\ HoldingOf(ch[2]) = y.amount
    BY <1>2, <1>4 DEF HoldingOf
  <2>3. Holding(a) = HoldingOf(Load("token", a))
    BY LoadGood DEF Programs
  <2> QED BY <2>1, <2>2, <2>3 DEF TwoChanged
<1> QED BY <1>4, <1>5, <1>7

LEMMA MintToKeeps ==
  ASSUME AllGood, NEW m \in Mints, NEW t \in Accounts, NEW s \in Signers, NEW n \in Amounts,
         NEW w, MintTo(m, t, s, n, w), reclaimed' = reclaimed
  PROVE  InstructionKeeps
<1> DEFINE x == [Read(m) EXCEPT !.amount = Read(m).amount + n]
           y == [Read(t) EXCEPT !.amount = Read(t).amount + n]
<1>1. /\ IsMint(m) /\ IsTokenAccount(t) /\ n \in Nat
      /\ Read(m).amount + n <= U64_MAX /\ Read(t).amount + n <= U64_MAX
      /\ WriteFirst(<<m, t, s>>, w, <<x, y>>)
  BY TokenAssumption DEF MintTo
<1>2. /\ Read(m).amount \in 0 .. U64_MAX /\ Holding(m) = Read(m).amount
      /\ Read(t).amount \in 0 .. U64_MAX /\ Holding(t) = Read(t).amount
  BY <1>1, MintData, TokenAccountData
<1>3. Read(m).amount + n \in 0 .. U64_MAX /\ Read(t).amount + n \in 0 .. U64_MAX
  BY <1>1, <1>2, TokenAssumption
<1>4. /\ x \in Contents(m) /\ IsTokenData(x) /\ x.amount = Holding(m) + n
      /\ y \in Contents(t) /\ IsTokenData(y) /\ y.amount = Holding(t) + n
  BY <1>1, <1>2, <1>3, MintData, TokenAccountData
<1> HIDE DEF x, y
<1>5. m \in Keys /\ t \in Keys /\ s \in Keys /\ m # t
  BY TokenAssumption
<1>6. /\ AllGood' /\ (AllOwned => AllOwned') /\ AllLamports' = AllLamports
      /\ ~shadowed' => /\ \A k : k \notin {m, t} => Holding(k)' = Holding(k)
                       /\ Holding(m)' = x.amount /\ Holding(t)' = y.amount
  BY <1>1, <1>4, <1>5, TwoWrites
<1>7. ASSUME ~shadowed', Supplies = Holdings PROVE Supplies' = Holdings'
  <2>1. /\ Supplies' = Supplies - Holding(m) + Holding(m)'
        /\ Holdings' = Holdings - Holding(t) + Holding(t)'
    BY <1>6, <1>7, MintAndAccount
  <2>2. Holding(m) \in Nat /\ Holding(t) \in Nat /\ Supplies \in Int
    BY <1>2, SupplyInt
  <2> QED BY <1>1, <1>4, <1>6, <1>7, <2>1, <2>2
<1> QED BY <1>6, <1>7 DEF InstructionKeeps

LEMMA BurnKeeps ==
  ASSUME AllGood, NEW m \in Mints, NEW t \in Accounts, NEW s \in Signers, NEW n \in Amounts,
         NEW w, Burn(t, m, s, n, w), reclaimed' = reclaimed
  PROVE  InstructionKeeps
<1> DEFINE x == [Read(t) EXCEPT !.amount = Read(t).amount - n]
           y == [Read(m) EXCEPT !.amount = Read(m).amount - n]
<1>1. /\ IsMint(m) /\ IsTokenAccount(t) /\ n \in Nat
      /\ n <= Read(t).amount /\ n <= Read(m).amount
      /\ WriteFirst(<<t, m, s>>, w, <<x, y>>)
  BY TokenAssumption DEF Burn
<1>2. /\ Read(m).amount \in 0 .. U64_MAX /\ Holding(m) = Read(m).amount
      /\ Read(t).amount \in 0 .. U64_MAX /\ Holding(t) = Read(t).amount
  BY <1>1, MintData, TokenAccountData
<1>3. Read(m).amount - n \in 0 .. U64_MAX /\ Read(t).amount - n \in 0 .. U64_MAX
  BY <1>1, <1>2, TokenAssumption
<1>4. /\ x \in Contents(t) /\ IsTokenData(x) /\ x.amount = Holding(t) - n
      /\ y \in Contents(m) /\ IsTokenData(y) /\ y.amount = Holding(m) - n
  BY <1>1, <1>2, <1>3, MintData, TokenAccountData
<1> HIDE DEF x, y
<1>5. m \in Keys /\ t \in Keys /\ s \in Keys /\ m # t
  BY TokenAssumption
<1>6. /\ AllGood' /\ (AllOwned => AllOwned') /\ AllLamports' = AllLamports
      /\ ~shadowed' => /\ \A k : k \notin {t, m} => Holding(k)' = Holding(k)
                       /\ Holding(t)' = x.amount /\ Holding(m)' = y.amount
  BY <1>1, <1>4, <1>5, TwoWrites
<1>7. ASSUME ~shadowed', Supplies = Holdings PROVE Supplies' = Holdings'
  <2>1. /\ Supplies' = Supplies - Holding(m) + Holding(m)'
        /\ Holdings' = Holdings - Holding(t) + Holding(t)'
    BY <1>6, <1>7, MintAndAccount
  <2>2. Holding(m) \in Nat /\ Holding(t) \in Nat /\ Supplies \in Int
    BY <1>2, SupplyInt
  <2> QED BY <1>1, <1>4, <1>6, <1>7, <2>1, <2>2
<1> QED BY <1>6, <1>7 DEF InstructionKeeps

\* A transfer to oneself writes the first copy unchanged or is shadowed.
LEMMA TransferKeeps ==
  ASSUME AllGood, NEW t \in Accounts, NEW u \in Accounts, NEW s \in Signers, NEW n \in Amounts,
         NEW w, Transfer(t, u, s, n, w), reclaimed' = reclaimed
  PROVE  InstructionKeeps
<1> DEFINE x == [Read(t) EXCEPT !.amount = Read(t).amount - n]
           y == [Read(u) EXCEPT !.amount = Read(u).amount + n]
<1>1. /\ IsTokenAccount(t) /\ IsTokenAccount(u) /\ n \in Nat
      /\ n <= Read(t).amount /\ Read(u).amount + n <= U64_MAX
      /\ WriteFirst(<<t, u, s>>, w, <<x, y>>)
  BY TokenAssumption DEF Transfer
<1>2. /\ Read(t).amount \in 0 .. U64_MAX /\ Holding(t) = Read(t).amount
      /\ Read(u).amount \in 0 .. U64_MAX /\ Holding(u) = Read(u).amount
  BY <1>1, TokenAccountData
<1>3. Read(t).amount - n \in 0 .. U64_MAX /\ Read(u).amount + n \in 0 .. U64_MAX
  BY <1>1, <1>2, TokenAssumption
<1>4. /\ x \in Contents(t) /\ IsTokenData(x) /\ x.amount = Holding(t) - n
      /\ y \in Contents(u) /\ IsTokenData(y) /\ y.amount = Holding(u) + n
  BY <1>1, <1>2, <1>3, TokenAccountData
<1> HIDE DEF x, y
<1>5. t \in Keys /\ u \in Keys /\ s \in Keys
  BY TokenAssumption
<1>6. /\ AllGood' /\ (AllOwned => AllOwned') /\ AllLamports' = AllLamports
      /\ ~shadowed' => /\ \A k : k \notin {t, u} => Holding(k)' = Holding(k)
                       /\ t # u => Holding(t)' = x.amount
                       /\ Holding(u)' = y.amount
                       /\ t = u => x.amount = Holding(t)
  BY <1>1, <1>4, <1>5, TwoWrites
<1>7. ASSUME ~shadowed', Supplies = Holdings PROVE Supplies' = Holdings'
  <2>1. Holding(t) \in Nat /\ Holding(u) \in Nat /\ Supplies \in Int
    BY <1>2, SupplyInt
  <2>2. CASE t # u
    <3>1. /\ Supplies' = Supplies
          /\ Holdings' = Holdings - Holding(t) - Holding(u) + Holding(t)' + Holding(u)'
      BY <1>6, <1>7, <2>2, TwoAccounts
    <3> QED BY <1>1, <1>4, <1>6, <1>7, <2>1, <2>2, <3>1
  <2>3. CASE t = u
    <3>1. n = 0
      BY <1>1, <1>4, <1>6, <1>7, <2>1, <2>3
    <3>2. Holding(u)' = Holding(u)
      BY <1>4, <1>6, <1>7, <2>1, <3>1
    <3>3. \A k : Holding(k)' = Holding(k)
      BY <1>6, <1>7, <2>3, <3>2
    <3> QED BY <1>7, <3>3, SameHoldings
  <2> QED BY <2>2, <2>3
<1> QED BY <1>6, <1>7 DEF InstructionKeeps

LEMMA NoWrap ==
  ASSUME NEW a \in Nat, NEW M \in Nat, a <= M
  PROVE  a % (M + 1) = a
OBVIOUS

\* The destination's lamports do not wrap around while all there are fit.
LEMMA CloseAccountKeeps ==
  ASSUME AllGood, NEW t \in Accounts, NEW dest \in Keys, NEW w,
         CloseAccount(t, dest, w), reclaimed' = reclaimed
  PROVE  InstructionKeeps
<1> DEFINE lt == Load("token", t)
           ld == Load("token", dest)
           x == [lt EXCEPT !.lamports = 0, !.data = NoData]
           y == [ld EXCEPT !.lamports = (ld.lamports + lt.lamports) % (U64_MAX + 1)]
           slots == <<t, dest>>
           ch == <<x, y>>
<1>0. "token" \in Programs
  BY DEF Programs
<1>1. IsTokenAccount(t) /\ Read(t).amount = 0 /\ Execute("token", slots, w, ch, {})
  BY DEF CloseAccount
<1>2. /\ Good(t, lt) /\ Lamports(t) = lt.lamports /\ Holding(t) = HoldingOf(lt)
      /\ Good(dest, ld) /\ Lamports(dest) = ld.lamports /\ Holding(dest) = HoldingOf(ld)
  BY <1>0, LoadGood
<1>3. Holding(t) = 0 /\ IsTokenData(lt.data)
  BY <1>1, TokenAccountData DEF Read
<1>4. NoData \in Contents(t) /\ ~IsTokenData(NoData)
  BY DEF Contents, IsTokenData, NoData
<1>5. t \in Keys
  BY TokenKeys
<1> HIDE DEF lt, ld
<1>6. /\ Good(t, x) /\ x.owner = lt.owner /\ x.lamports = 0 /\ x.data = NoData /\ x # lt
  BY <1>2, <1>3, <1>4 DEF Good, Account
<1>7. (ld.lamports + lt.lamports) % (U64_MAX + 1) \in Nat
  BY <1>2, TokenAssumption DEF Good, Account
<1>8. /\ Good(dest, y) /\ y.owner = ld.owner /\ y.data = ld.data
      /\ y.lamports = (ld.lamports + lt.lamports) % (U64_MAX + 1)
  BY <1>2, <1>7 DEF Good, Account
<1>9. HoldingOf(x) = Holding(t) /\ HoldingOf(y) = Holding(dest)
  BY <1>2, <1>3, <1>4, <1>6, <1>8 DEF HoldingOf
<1> HIDE DEF x, y
<1>10. /\ Slots(slots) /\ DOMAIN slots = {1, 2} /\ DOMAIN ch = {1, 2}
       /\ slots[1] = t /\ slots[2] = dest /\ ch[1] = x /\ ch[2] = y
  <2>1. Slots(slots)
    BY <1>5, TheSlots
  <2> QED BY <2>1
<1> HIDE DEF slots, ch
<1>11. /\ After("token", slots, ch, 1) = x /\ After("token", slots, ch, 2) = y
  BY <1>10 DEF After
<1>12. ASSUME NEW i \in DOMAIN slots
       PROVE  /\ Good(slots[i], After("token", slots, ch, i))
              /\ After("token", slots, ch, i).owner = Load("token", slots[i]).owner
              /\ HoldingOf(After("token", slots, ch, i)) = HoldingOf(Load("token", slots[i]))
  <2>1. i = 1 \/ i = 2
    BY <1>10
  <2> QED BY <1>2, <1>6, <1>8, <1>9, <1>10, <1>11, <2>1 DEF lt, ld
<1>13. AllGood' /\ (AllOwned => AllOwned')
  BY <1>1, <1>10, <1>12, TokenStored
<1>14. Supplies' = Supplies /\ Holdings' = Holdings
  BY <1>0, <1>1, <1>10, <1>12, ExecuteKeepsHoldings, SameHoldings
<1>15. ASSUME ~shadowed', AllLamports <= U64_MAX PROVE AllLamports' = AllLamports
  <2>1. TwoChanged(t, x, dest, y) /\ (t = dest => x = Load("token", t))
    BY <1>0, <1>1, <1>6, <1>8, <1>10, <1>15, TwoSlots
  <2>2. t # dest
    BY <1>6, <2>1 DEF lt
  <2>3. /\ \A k : k \notin {t, dest} => Lamports(k)' = Lamports(k)
        /\ Lamports(t)' = 0 /\ Lamports(dest)' = (Lamports(dest) + Lamports(t)) % (U64_MAX + 1)
    BY <1>2, <1>6, <1>8, <2>1, <2>2 DEF TwoChanged
  <2>4. /\ AllLamports' = AllLamports - Lamports(t) - Lamports(dest) + Lamports(t)' + Lamports(dest)'
        /\ Lamports(t) + Lamports(dest) <= AllLamports /\ AllLamports \in Nat
    BY <1>5, <1>13, <2>2, <2>3, TwoLamports
  <2>5. Lamports(t) \in Nat /\ Lamports(dest) \in Nat /\ U64_MAX \in Nat
    BY <1>2, TokenAssumption DEF Good, Account
  <2>6. (Lamports(dest) + Lamports(t)) % (U64_MAX + 1) = Lamports(dest) + Lamports(t)
    <3>1. Lamports(dest) + Lamports(t) \in Nat /\ Lamports(dest) + Lamports(t) <= U64_MAX
      BY <1>15, <2>4, <2>5
    <3> QED BY <2>5, <3>1, NoWrap
  <2> QED BY <2>3, <2>4, <2>5, <2>6
<1> QED BY <1>13, <1>14, <1>15 DEF InstructionKeeps

LEMMA TokenStepKeeps ==
  ASSUME AllGood, NEW w, TokenStep(w), reclaimed' = reclaimed
  PROVE  InstructionKeeps
<1>1. CASE \E m \in Mints : InitializeMint(m, w)
  BY <1>1, InitializeMintKeeps
<1>2. CASE \E t \in Accounts, m \in Mints, s \in Signers : InitializeAccount(t, m, s, w)
  BY <1>2, InitializeAccountKeeps
<1>3. CASE \E t \in Accounts, m \in Mints, s \in Signers, n \in Amounts : MintTo(m, t, s, n, w)
  BY <1>3, MintToKeeps
<1>4. CASE \E t \in Accounts, m \in Mints, s \in Signers, n \in Amounts : Burn(t, m, s, n, w)
  BY <1>4, BurnKeeps
<1>5. CASE \E t, u \in Accounts, s \in Signers, n \in Amounts : Transfer(t, u, s, n, w)
  BY <1>5, TransferKeeps
<1>6. CASE \E t \in Accounts, s \in Signers : Approve(t, s, w)
  BY <1>6, RewriteKeeps, TokenKeys
<1>7. CASE \E t \in Accounts : FreezeAccount(t, w) \/ ThawAccount(t, w)
  <2>1. PICK t \in Accounts : FreezeAccount(t, w) \/ ThawAccount(t, w)
    BY <1>7
  <2>2. t \in Keys
    BY TokenKeys
  <2> QED BY <2>1, <2>2, RewriteKeeps
<1>8. CASE \E t \in Accounts, dest \in Keys : CloseAccount(t, dest, w)
  BY <1>8, CloseAccountKeeps
<1> QED BY <1>1, <1>2, <1>3, <1>4, <1>5, <1>6, <1>7, <1>8 DEF TokenStep

-----------------------------------------------------------------------------
(***************************************************************************)
(* The system program and the associated token account program.            *)
(***************************************************************************)

\* An instruction of the system program that writes no token contents cannot
\* replace any either: the gate lets it change only what is its own or blank.
LEMMA SystemStored ==
  ASSUME AllGood, NEW slots, Slots(slots), NEW w, NEW changed,
         Execute("system", slots, w, changed, {}), reclaimed' = reclaimed,
         \A i \in DOMAIN slots : Good(slots[i], After("system", slots, changed, i)),
         \A i \in DOMAIN slots : LET post == After("system", slots, changed, i)
                                 IN IsTokenData(post.data) => post.data = Load("system", slots[i]).data
  PROVE  /\ AllGood' /\ (AllOwned => AllOwned')
         /\ AllOwned => Supplies' = Supplies /\ Holdings' = Holdings
<1>0. "system" \in Programs
  BY DEF Programs
<1>1. AllGood'
  BY <1>0, ExecuteGood
<1>2. ASSUME NEW i \in DOMAIN slots
      PROVE  validate_write("system", Load("system", slots[i]), After("system", slots, changed, i), {})
  BY Zenon DEF Execute, After
<1>3. ASSUME AllOwned, NEW i \in DOMAIN slots
      PROVE  /\ Owned(Copy("system", slots, changed, i), reclaimed)
             /\ HoldingOf(After("system", slots, changed, i)) = HoldingOf(Load("system", slots[i]))
  <2>1. /\ Good(slots[i], Load("system", slots[i])) /\ Owned(Load("system", slots[i]), reclaimed)
    BY <1>0, <1>3, LoadGood, LoadOwned
  <2>2. /\ Owned(claim("system", Load("system", slots[i]), After("system", slots, changed, i)), reclaimed)
        /\ HoldingOf(After("system", slots, changed, i)) = HoldingOf(Load("system", slots[i]))
    BY <1>2, <2>1, SystemOwned
  <2> QED BY <2>2 DEF Copy
<1>4. ASSUME AllOwned PROVE AllOwned'
  <2>1. \A i \in DOMAIN slots : Owned(Copy("system", slots, changed, i), reclaimed')
    BY <1>3, <1>4
  <2> QED BY <1>0, <1>4, <2>1, ExecuteOwned
<1>5. ASSUME AllOwned PROVE Supplies' = Supplies /\ Holdings' = Holdings
  <2>1. \A k : Holding(k)' = Holding(k)
    BY <1>0, <1>3, <1>5, ExecuteKeepsHoldings
  <2> QED BY <2>1, SameHoldings
<1> QED BY <1>1, <1>4, <1>5

\* Two accounts, the first of which keeps its contents and the second gets none
\* of a token's; their lamports add up to what they were.
LEMMA SystemPair ==
  ASSUME AllGood, NEW a \in Keys, NEW b \in Keys, NEW x, NEW y, NEW w, reclaimed' = reclaimed,
         Execute("system", <<a, b>>, w, <<x, y>>, {}), Good(a, x), Good(b, y),
         x.data = System(a).data, IsTokenData(y.data) => y.data = System(b).data,
         a # b => x.lamports + y.lamports = Lamports(a) + Lamports(b),
         a = b /\ x = System(a) => y.lamports = Lamports(b)
  PROVE  InstructionKeeps
<1> DEFINE slots == <<a, b>>
           ch == <<x, y>>
<1>0. "system" \in Programs
  BY DEF Programs
<1>1. Slots(slots)
  BY TheSlots
<1>2. /\ DOMAIN slots = {1, 2} /\ DOMAIN ch = {1, 2} /\ Execute("system", slots, w, ch, {})
      /\ slots[1] = a /\ slots[2] = b /\ ch[1] = x /\ ch[2] = y
  OBVIOUS
<1> HIDE DEF slots, ch
<1>3. After("system", slots, ch, 1) = x /\ After("system", slots, ch, 2) = y
  BY <1>2 DEF After
<1>4. ASSUME NEW i \in DOMAIN slots
      PROVE  /\ Good(slots[i], After("system", slots, ch, i))
             /\ IsTokenData(After("system", slots, ch, i).data) =>
                  After("system", slots, ch, i).data = Load("system", slots[i]).data
  <2>1. i = 1 \/ i = 2
    BY <1>2
  <2> QED BY <1>2, <1>3, <2>1 DEF System
<1>5. /\ AllGood' /\ (AllOwned => AllOwned')
      /\ AllOwned => Supplies' = Supplies /\ Holdings' = Holdings
  BY <1>1, <1>2, <1>4, SystemStored
<1>6. ASSUME ~shadowed' PROVE AllLamports' = AllLamports
  <2>1. TwoChanged(a, x, b, y) /\ (a = b => x = Load("system", a))
    BY <1>0, <1>1, <1>2, <1>6, TwoSlots
  <2>2. CASE a # b
    <3>1. /\ \A k : k \notin {a, b} => Lamports(k)' = Lamports(k)
          /\ Lamports(a)' = x.lamports /\ Lamports(b)' = y.lamports
      BY <2>1, <2>2 DEF TwoChanged
    <3>2. /\ AllLamports' = AllLamports - Lamports(a) - Lamports(b) + Lamports(a)' + Lamports(b)'
          /\ AllLamports \in Nat
      BY <1>5, <2>2, <3>1, TwoLamports
    <3>3. x.lamports \in Nat /\ y.lamports \in Nat /\ Lamports(a) \in Nat /\ Lamports(b) \in Nat
      BY Measures DEF Measured, Good, Account
    <3> QED BY <2>2, <3>1, <3>2, <3>3
  <2>3. CASE a = b
    <3>1. Lamports(b)' = Lamports(b)
      BY <2>1, <2>3 DEF TwoChanged, System
    <3>2. \A k : Lamports(k)' = Lamports(k)
      BY <2>1, <2>3, <3>1 DEF TwoChanged
    <3> QED BY <3>2, SameLamports
  <2> QED BY <2>2, <2>3
<1> QED BY <1>5, <1>6 DEF InstructionKeeps

\* One account whose lamports stay and that gets no token's contents.
LEMMA SystemSingle ==
  ASSUME AllGood, NEW a \in Keys, NEW x, NEW w, reclaimed' = reclaimed,
         Execute("system", <<a>>, w, <<x>>, {}), Good(a, x),
         IsTokenData(x.data) => x.data = System(a).data, x.lamports = System(a).lamports
  PROVE  InstructionKeeps
<1> DEFINE slots == <<a>>
           ch == <<x>>
<1>0. "system" \in Programs
  BY DEF Programs
<1>1. Slots(slots)
  BY TheSlots
<1>2. /\ DOMAIN slots = {1} /\ DOMAIN ch = {1} /\ Execute("system", slots, w, ch, {})
      /\ slots[1] = a /\ ch[1] = x
  OBVIOUS
<1> HIDE DEF slots, ch
<1>3. ASSUME NEW i \in DOMAIN slots
      PROVE  /\ Good(slots[i], After("system", slots, ch, i))
             /\ IsTokenData(After("system", slots, ch, i).data) =>
                  After("system", slots, ch, i).data = Load("system", slots[i]).data
             /\ After("system", slots, ch, i).lamports = Load("system", slots[i]).lamports
  BY <1>2 DEF System, After
<1>4. /\ AllGood' /\ (AllOwned => AllOwned')
      /\ AllOwned => Supplies' = Supplies /\ Holdings' = Holdings
  BY <1>1, <1>2, <1>3, SystemStored
<1>5. AllLamports' = AllLamports
  BY <1>0, <1>1, <1>2, <1>3, ExecuteKeepsHoldings, SameLamports
<1> QED BY <1>4, <1>5 DEF InstructionKeeps

LEMMA SystemStepKeeps ==
  ASSUME AllGood, NEW w, SystemStep(w), reclaimed' = reclaimed
  PROVE  InstructionKeeps
<1>0. \A k : Good(k, System(k)) /\ Lamports(k) = System(k).lamports
  BY LoadGood DEF Programs, System
<1>1. Spaces \subseteq {NoData, Zeros} /\ Owners \subseteq Programs /\ Amounts \subseteq Nat
  BY LedgerAssumption, TokenAssumption
<1>2. \A k : \A d \in {NoData, Zeros} : d \in Contents(k) /\ ~IsTokenData(d)
  BY DEF Contents, IsTokenData, NoData, Zeros
<1>3. ASSUME NEW p \in Keys, NEW q \in Keys, NEW n \in Amounts \cup {0}, NEW space \in Spaces,
             NEW owner \in Owners, CreateAccount(p, q, n, space, owner, w)
      PROVE  InstructionKeeps
  <2> DEFINE a == System(p)
             b == System(q)
             x == [a EXCEPT !.lamports = a.lamports - n]
             y == [b EXCEPT !.lamports = n, !.data = space, !.owner = owner]
  <2>1. n <= a.lamports /\ Unused(b) /\ Execute("system", <<p, q>>, w, <<x, y>>, {})
    BY <1>3 DEF CreateAccount, SystemExecute
  <2>2. /\ Good(p, a) /\ Good(q, b) /\ Lamports(p) = a.lamports /\ Lamports(q) = b.lamports
        /\ b.lamports = 0 /\ n \in Nat /\ space \in Contents(q) /\ ~IsTokenData(space)
        /\ owner \in Programs
    BY <1>0, <1>1, <1>2, <2>1 DEF Unused
  <2> HIDE DEF a, b
  <2>3. a.lamports \in Nat
    BY <2>2 DEF Good, Account
  <2>4. a.lamports - n \in Nat
    BY <2>1, <2>2, <2>3
  <2>5. Good(p, x) /\ x.data = a.data /\ x.lamports = a.lamports - n
    BY <2>2, <2>4 DEF Good, Account
  <2>6. Good(q, y) /\ y.data = space /\ y.lamports = n
    BY <2>2 DEF Good, Account
  <2> HIDE DEF x, y
  <2>7. x.lamports + y.lamports = Lamports(p) + Lamports(q)
    BY <2>2, <2>3, <2>5, <2>6
  <2>8. p = q => y.lamports = Lamports(q)
    <3>1. p = q => a = b
      BY DEF a, b
    <3> QED BY <2>1, <2>2, <2>3, <2>6, <3>1
  <2> QED BY <2>1, <2>2, <2>5, <2>6, <2>7, <2>8, SystemPair DEF a, b
<1>4. ASSUME NEW p \in Keys, NEW q \in Keys, NEW space \in Spaces,
             NEW owner \in Owners, CreateAccountWithAnchor(p, q, space, owner, w)
      PROVE  InstructionKeeps
  <2> DEFINE a == System(p)
             b == System(q)
             y == [b EXCEPT !.data = space, !.owner = owner, !.anchor = TRUE]
  <2>1. Execute("system", <<p, q>>, w, <<a, y>>, {})
    BY <1>4 DEF CreateAccountWithAnchor, SystemExecute
  <2>2. /\ Good(p, a) /\ Good(q, b) /\ Lamports(p) = a.lamports /\ Lamports(q) = b.lamports
        /\ space \in Contents(q) /\ ~IsTokenData(space) /\ owner \in Programs
    BY <1>0, <1>1, <1>2
  <2> HIDE DEF a, b
  <2>3. Good(q, y) /\ y.data = space /\ y.lamports = b.lamports
    BY <2>2 DEF Good, Account
  <2> HIDE DEF y
  <2> QED BY <2>1, <2>2, <2>3, SystemPair DEF a, b
<1>5. ASSUME NEW p \in Keys, NEW q \in Keys, NEW n \in Amounts, TransferLamports(p, q, n, w)
      PROVE  InstructionKeeps
  <2> DEFINE a == System(p)
             b == System(q)
             x == [a EXCEPT !.lamports = a.lamports - n]
             y == [b EXCEPT !.lamports = b.lamports + n]
  <2>1. n <= a.lamports /\ Execute("system", <<p, q>>, w, <<x, y>>, {})
    BY <1>5 DEF TransferLamports, SystemExecute
  <2>2. /\ Good(p, a) /\ Good(q, b) /\ Lamports(p) = a.lamports /\ Lamports(q) = b.lamports
        /\ n \in Nat
    BY <1>0, <1>1
  <2>3. p = q => a = b
    OBVIOUS
  <2> HIDE DEF a, b
  <2>4. a.lamports \in Nat /\ b.lamports \in Nat
    BY <2>2 DEF Good, Account
  <2>5. /\ Good(p, x) /\ x.data = a.data /\ x.lamports = a.lamports - n
        /\ Good(q, y) /\ y.data = b.data /\ y.lamports = b.lamports + n
    BY <2>1, <2>2, <2>4 DEF Good, Account
  <2> HIDE DEF x, y
  <2>6. x.lamports + y.lamports = Lamports(p) + Lamports(q)
    BY <2>2, <2>4, <2>5
  <2>7. p = q /\ x = a => y.lamports = Lamports(q)
    BY <2>2, <2>3, <2>4, <2>5
  <2> QED BY <2>1, <2>2, <2>5, <2>6, <2>7, SystemPair DEF a, b
<1>6. ASSUME NEW k \in Keys, NEW space \in Spaces, Allocate(k, space, w) PROVE InstructionKeeps
  <2> DEFINE a == System(k)
             d == IF space = NoData THEN a.data ELSE Zeros
             x == [a EXCEPT !.data = d]
  <2>1. Execute("system", <<k>>, w, <<x>>, {})
    BY <1>6 DEF Allocate, SystemExecute
  <2>2. Good(k, a) /\ d \in Contents(k) /\ (IsTokenData(d) => d = a.data)
    BY <1>0, <1>2 DEF Good, Account
  <2> HIDE DEF a, d
  <2>3. Good(k, x) /\ x.data = d /\ x.lamports = a.lamports
    BY <2>2 DEF Good, Account
  <2> HIDE DEF x
  <2> QED BY <2>1, <2>2, <2>3, SystemSingle DEF a
<1>7. ASSUME NEW k \in Keys, NEW owner \in Owners, Assign(k, owner, w) PROVE InstructionKeeps
  <2> DEFINE a == System(k)
             x == [a EXCEPT !.owner = owner]
  <2>1. Execute("system", <<k>>, w, <<x>>, {})
    BY <1>7 DEF Assign, SystemExecute
  <2>2. Good(k, a) /\ owner \in Programs
    BY <1>0, <1>1
  <2> HIDE DEF a
  <2>3. Good(k, x) /\ x.data = a.data /\ x.lamports = a.lamports
    BY <2>2 DEF Good, Account
  <2> HIDE DEF x
  <2> QED BY <2>1, <2>3, SystemSingle DEF a
<1> QED BY <1>3, <1>4, <1>5, <1>6, <1>7 DEF SystemStep

\* An address with contents is left as it is.
LEMMA CreateExistingKeeps ==
  ASSUME AllGood, NEW payer \in Keys, NEW o \in DOMAIN Associated, NEW m \in Mints, NEW w,
         CreateExisting(payer, o, m, w)
  PROVE  InstructionKeeps
<1> DEFINE ata == Associated[o][m]
           slots == <<payer, ata, o, m>>
           ch == << >>
<1>0. "ata" \in Programs
  BY DEF Programs
<1>1. Slots(slots)
  BY LedgerAssumption, TokenKeys, TheSlots
<1>2. Execute("ata", slots, w, ch, {}) /\ reclaimed' = reclaimed /\ DOMAIN ch = {}
  BY DEF CreateExisting
<1> HIDE DEF slots, ch
<1>3. ASSUME NEW i \in DOMAIN slots
      PROVE  /\ After("ata", slots, ch, i) = Load("ata", slots[i])
             /\ Good(slots[i], Load("ata", slots[i]))
             /\ Copy("ata", slots, ch, i) = Load("ata", slots[i])
  <2>1. After("ata", slots, ch, i) = Load("ata", slots[i]) /\ Good(slots[i], Load("ata", slots[i]))
    BY <1>0, <1>2, LoadGood DEF After
  <2> QED BY <1>0, <2>1, Claims DEF Copy, Good
<1>4. AllGood'
  BY <1>0, <1>1, <1>2, <1>3, ExecuteGood
<1>5. ASSUME AllOwned PROVE AllOwned'
  <2>1. \A i \in DOMAIN slots : Owned(Copy("ata", slots, ch, i), reclaimed')
    BY <1>2, <1>3, <1>5, LoadOwned
  <2> QED BY <1>0, <1>1, <1>2, <1>5, <2>1, ExecuteOwned
<1>6. \A k : Holding(k)' = Holding(k) /\ Lamports(k)' = Lamports(k)
  BY <1>0, <1>1, <1>2, <1>3, ExecuteKeepsHoldings
<1> QED BY <1>4, <1>5, <1>6, SameHoldings, SameLamports DEF InstructionKeeps

\* What the called token program hands back is claimed by the caller only where
\* the token program was the owner before.
LEMMA CalleeOwns ==
  ASSUME NEW k, NEW pre, Good(k, pre), NEW data \in Contents(k), IsTokenData(data),
         pre.data = NoData, NEW post, Good(k, post), post.data = data,
         post.lamports = pre.lamports, post.owner = pre.owner,
         invoke_allowed("token", pre, post)
  PROVE  LET copy == invoke_indexed("token", pre, post)
             kept == claim("ata", pre, copy)
         IN /\ Good(k, copy) /\ copy.data = data /\ copy.lamports = pre.lamports
            /\ kept.data = data /\ kept.owner \in {"token", "ata"}
            /\ pre.owner # "token" => kept.owner = "token"
<1> DEFINE copy == claim("token", pre, post)
           kept == claim("ata", pre, copy)
<1>1. "token" \in Programs /\ "ata" \in Programs
  BY DEF Programs
<1>2. data # NoData
  BY DEF IsTokenData, NoData
<1>3. ~credit_only(pre, post) /\ post # pre
  <2>1. credit_only(pre, post) => post.data = pre.data
    BY DEF credit_only, Good, Account
  <2> QED BY <1>2, <2>1
<1>4. pre.owner = "token" \/ is_blank(pre)
  BY <1>3 DEF invoke_allowed, validate_write
<1>5. Good(k, copy) /\ copy.data = data /\ copy.lamports = pre.lamports
  BY <1>1, Claims DEF Good
<1>6. copy.owner = "token"
  BY <1>3, <1>4 DEF claim, Good, Account
<1> HIDE DEF copy
<1>7. kept.data = data /\ kept.owner \in {"token", "ata"}
  BY <1>1, <1>5, <1>6, Claims DEF Good
<1>8. pre.owner # "token" => kept.owner = "token"
  BY <1>6 DEF claim
<1> QED BY <1>5, <1>7, <1>8 DEF invoke_indexed, copy

LEMMA CreateKeeps ==
  ASSUME AllGood, NEW payer \in Keys, NEW o \in DOMAIN Associated, NEW m \in Mints, NEW w,
         Create(payer, o, m, w)
  PROVE  InstructionKeeps /\ (reclaimed => reclaimed')
<1> DEFINE ata == Associated[o][m]
           slots == <<payer, ata, o, m>>
           pre == Load("ata", ata)
           data == TokenAccountState(m, 0, FALSE)
           post == [pre EXCEPT !.data = data]
           copy == invoke_indexed("token", pre, post)
           ch == [i \in {2} |-> copy]
<1>0. "ata" \in Programs
  BY DEF Programs
<1>1. Slots(slots) /\ ata \in Accounts
  BY LedgerAssumption, TokenKeys, TheSlots
<1>2. /\ pre.data = NoData /\ invoke_allowed("token", pre, post)
      /\ Execute("ata", slots, w, ch, {copy})
      /\ reclaimed' = (reclaimed \/ pre.owner = "token")
  BY DEF Create
<1>3. DOMAIN ch = {2} /\ ch[2] = copy /\ slots[2] = ata /\ 2 \in DOMAIN slots
  OBVIOUS
<1>4. data \in Contents(ata) /\ IsTokenData(data) /\ data.amount = 0
  BY <1>1, NewAccountData
<1>5. Good(ata, pre)
  BY <1>0, LoadGood
<1> HIDE DEF slots, ch, data
<1>6. /\ Good(ata, copy) /\ copy.data = data /\ copy.lamports = pre.lamports
      /\ claim("ata", pre, copy).data = data /\ claim("ata", pre, copy).owner \in {"token", "ata"}
      /\ pre.owner # "token" => claim("ata", pre, copy).owner = "token"
  <2> HIDE DEF pre
  <2>1. /\ Good(ata, post) /\ post.data = data /\ post.lamports = pre.lamports
        /\ post.owner = pre.owner
    BY <1>4, <1>5 DEF Good, Account
  <2> HIDE DEF post
  <2> QED BY <1>2, <1>4, <1>5, <2>1, CalleeOwns
<1> HIDE DEF copy, pre, ata
<1>7. ASSUME NEW i \in DOMAIN slots
      PROVE  /\ i = 2 => /\ After("ata", slots, ch, i) = copy /\ slots[i] = ata
                         /\ Load("ata", slots[i]) = pre
             /\ i # 2 => After("ata", slots, ch, i) = Load("ata", slots[i])
             /\ Good(slots[i], Load("ata", slots[i]))
             /\ Good(slots[i], After("ata", slots, ch, i))
  BY <1>0, <1>3, <1>6, LoadGood DEF After, pre
<1>8. AllGood'
  BY <1>0, <1>1, <1>2, <1>7, ExecuteGood
<1>9. ASSUME AllOwned PROVE AllOwned'
  <2>1. ASSUME NEW i \in DOMAIN slots PROVE Owned(Copy("ata", slots, ch, i), reclaimed')
    <3>1. CASE i = 2
      <4>1. Copy("ata", slots, ch, i) = claim("ata", pre, copy)
        BY <1>7, <3>1 DEF Copy
      <4> QED BY <1>2, <1>6, <4>1 DEF Owned
    <3>2. CASE i # 2
      <4>1. Copy("ata", slots, ch, i) = Load("ata", slots[i])
        BY <1>0, <1>7, <3>2, Claims DEF Copy, Good
      <4>2. Owned(Load("ata", slots[i]), reclaimed)
        BY <1>9, LoadOwned
      <4> QED BY <1>2, <4>1, <4>2 DEF Owned
    <3> QED BY <3>1, <3>2
  <2> QED BY <1>0, <1>1, <1>2, <1>9, <2>1, ExecuteOwned
<1>10. ASSUME NEW i \in DOMAIN slots
       PROVE  /\ HoldingOf(After("ata", slots, ch, i)) = HoldingOf(Load("ata", slots[i]))
              /\ After("ata", slots, ch, i).lamports = Load("ata", slots[i]).lamports
  <2>1. HoldingOf(copy) = 0 /\ HoldingOf(pre) = 0
    BY <1>2, <1>4, <1>6 DEF HoldingOf, IsTokenData, NoData
  <2> QED BY <1>6, <1>7, <2>1
<1>11. \A k : Holding(k)' = Holding(k) /\ Lamports(k)' = Lamports(k)
  BY <1>0, <1>1, <1>2, <1>7, <1>10, ExecuteKeepsHoldings
<1> QED BY <1>2, <1>8, <1>9, <1>11, SameHoldings, SameLamports DEF InstructionKeeps

LEMMA AtaStepKeeps ==
  ASSUME AllGood, NEW w, AtaStep(w)
  PROVE  InstructionKeeps /\ (reclaimed => reclaimed')
<1>1. PICK payer \in Signers, o \in DOMAIN Associated, m \in Mints :
        CreateExisting(payer, o, m, w) \/ Create(payer, o, m, w)
  BY DEF AtaStep
<1>2. payer \in Keys
  BY TokenKeys
<1>3. CASE CreateExisting(payer, o, m, w)
  BY <1>2, <1>3, CreateExistingKeeps DEF CreateExisting
<1>4. CASE Create(payer, o, m, w)
  BY <1>2, <1>4, CreateKeeps
<1> QED BY <1>1, <1>3, <1>4

-----------------------------------------------------------------------------
(***************************************************************************)
(* The faucet, and the invariants.  A call under way holds an account as   *)
(* it was read and as it is to be stored; while nothing has come between,  *)
(* storing it adds the lamports granted and changes no token.              *)
(***************************************************************************)
CallOK ==
  call # NoCall =>
    /\ call.key \in Keys /\ call.n \in Amounts /\ granted + call.n <= MaxGrants
    /\ Good(call.key, call.account) /\ Good(call.key, call.read)
    /\ call.account.owner = call.read.owner
    /\ IsTokenData(call.account.data) \/ IsTokenData(call.read.data)
         => call.account.data = call.read.data

LedgerInv ==
  /\ AllGood /\ CallOK /\ granted \in 0 .. MaxGrants
  /\ shadowed \in BOOLEAN /\ reclaimed \in BOOLEAN /\ raced \in BOOLEAN
OwnerInv    == raced \/ AllOwned
SupplyInv   == shadowed \/ raced \/ Supplies = Holdings
FundInv     == shadowed \/ raced \/
                 (call # NoCall => call.account.lamports = call.read.lamports + call.n)
LamportsInv == shadowed \/ raced \/ AllLamports = granted

\* What an instruction does besides storing accounts.
Ran ==
  /\ shadowed => shadowed'
  /\ shadowed' \in BOOLEAN
  /\ \/ UNCHANGED faucetVars
     \/ call # NoCall /\ call' = NoCall /\ granted' = granted + call.n /\ raced' = TRUE

LEMMA ExecuteRan ==
  ASSUME NEW program, NEW slots, NEW w, NEW changed, NEW approved,
         Execute(program, slots, w, changed, approved)
  PROVE  Ran
<1>1. /\ shadowed => shadowed'
      /\ shadowed' \in BOOLEAN
  BY Zenon DEF Execute
<1>2. Meanwhile({slots[i] : i \in DOMAIN slots})
  BY Zenon DEF Execute
<1> QED BY <1>1, <1>2 DEF Ran, Meanwhile

LEMMA TokenStepRan ==
  ASSUME NEW w, TokenStep(w)
  PROVE  Ran
<1>0. \A slots, data : WriteFirst(slots, w, data) => Ran
  BY ExecuteRan, Zenon DEF WriteFirst
<1>1. CASE \E m \in Mints : InitializeMint(m, w)
  BY <1>0, <1>1, Zenon DEF InitializeMint
<1>2. CASE \E t \in Accounts, m \in Mints, s \in Signers : InitializeAccount(t, m, s, w)
  BY <1>0, <1>2, Zenon DEF InitializeAccount
<1>3. CASE \E t \in Accounts, m \in Mints, s \in Signers, n \in Amounts : MintTo(m, t, s, n, w)
  BY <1>0, <1>3, Zenon DEF MintTo
<1>4. CASE \E t \in Accounts, m \in Mints, s \in Signers, n \in Amounts : Burn(t, m, s, n, w)
  BY <1>0, <1>4, Zenon DEF Burn
<1>5. CASE \E t, u \in Accounts, s \in Signers, n \in Amounts : Transfer(t, u, s, n, w)
  BY <1>0, <1>5, Zenon DEF Transfer
<1>6. CASE \E t \in Accounts, s \in Signers : Approve(t, s, w)
  BY <1>0, <1>6, Zenon DEF Approve
<1>7. CASE \E t \in Accounts : FreezeAccount(t, w) \/ ThawAccount(t, w)
  BY <1>0, <1>7, Zenon DEF FreezeAccount, ThawAccount
<1>8. CASE \E t \in Accounts, dest \in Keys : CloseAccount(t, dest, w)
  BY <1>8, ExecuteRan, Zenon DEF CloseAccount
<1> QED BY <1>1, <1>2, <1>3, <1>4, <1>5, <1>6, <1>7, <1>8 DEF TokenStep

LEMMA SystemStepRan ==
  ASSUME NEW w, SystemStep(w)
  PROVE  Ran
<1>0. \A slots, changed : SystemExecute(slots, w, changed) => Ran
  BY ExecuteRan, Zenon DEF SystemExecute
<1>1. CASE \E p, q \in Keys, n \in Amounts \cup {0}, space \in Spaces, owner \in Owners :
             CreateAccount(p, q, n, space, owner, w)
  BY <1>0, <1>1, Zenon DEF CreateAccount
<1>2. CASE \E p, q \in Keys, space \in Spaces, owner \in Owners :
             CreateAccountWithAnchor(p, q, space, owner, w)
  BY <1>0, <1>2, Zenon DEF CreateAccountWithAnchor
<1>3. CASE \E p, q \in Keys, n \in Amounts : TransferLamports(p, q, n, w)
  BY <1>0, <1>3, Zenon DEF TransferLamports
<1>4. CASE \E k \in Keys, space \in Spaces : Allocate(k, space, w)
  BY <1>0, <1>4, Zenon DEF Allocate
<1>5. CASE \E k \in Keys, owner \in Owners : Assign(k, owner, w)
  BY <1>0, <1>5, Zenon DEF Assign
<1> QED BY <1>1, <1>2, <1>3, <1>4, <1>5 DEF SystemStep

LEMMA AtaStepRan ==
  ASSUME NEW w, AtaStep(w)
  PROVE  Ran /\ reclaimed' \in {reclaimed, TRUE, FALSE}
<1>1. PICK payer \in Signers, o \in DOMAIN Associated, m \in Mints :
        CreateExisting(payer, o, m, w) \/ Create(payer, o, m, w)
  BY DEF AtaStep
<1>2. CASE CreateExisting(payer, o, m, w)
  BY <1>2, ExecuteRan, Zenon DEF CreateExisting
<1>3. CASE Create(payer, o, m, w)
  BY <1>3, ExecuteRan, Zenon DEF Create
<1> QED BY <1>1, <1>2, <1>3

\* Every instruction, whichever program it is of.
Instruction ==
  /\ InstructionKeeps /\ Ran
  /\ reclaimed => reclaimed'
  /\ reclaimed' \in {reclaimed, TRUE, FALSE}

LEMMA InstructionSteps ==
  ASSUME AllGood, NEW w,
         ((TokenStep(w) \/ SystemStep(w)) /\ UNCHANGED reclaimed) \/ AtaStep(w)
  PROVE  Instruction
<1>1. CASE TokenStep(w) /\ UNCHANGED reclaimed
  BY <1>1, TokenStepKeeps, TokenStepRan DEF Instruction
<1>2. CASE SystemStep(w) /\ UNCHANGED reclaimed
  BY <1>2, SystemStepKeeps, SystemStepRan DEF Instruction
<1>3. CASE AtaStep(w)
  BY <1>3, AtaStepKeeps, AtaStepRan DEF Instruction
<1> QED BY <1>1, <1>2, <1>3

LEMMA InstructionKeepsInv ==
  ASSUME LedgerInv, Instruction
  PROVE  /\ LedgerInv'
         /\ OwnerInv => OwnerInv'
         /\ OwnerInv /\ SupplyInv => SupplyInv'
         /\ FundInv => FundInv'
         /\ LamportsInv /\ MaxGrants <= U64_MAX => LamportsInv'
<1> USE DEF Instruction
<1>1. AllGood'
  BY DEF InstructionKeeps
<1>2. CASE UNCHANGED faucetVars
  <2>1. granted' = granted /\ call' = call /\ raced' = raced
    BY <1>2 DEF faucetVars
  <2>2. CallOK'
    BY <2>1 DEF LedgerInv, CallOK, Good
  <2>3. LedgerInv'
    BY <1>1, <2>1, <2>2 DEF LedgerInv, Ran
  <2>4. OwnerInv => OwnerInv'
    BY <2>1 DEF OwnerInv, InstructionKeeps
  <2>5. OwnerInv /\ SupplyInv => SupplyInv'
    BY <2>1, Zenon DEF OwnerInv, SupplyInv, InstructionKeeps, Ran
  <2>6. FundInv => FundInv'
    BY <2>1 DEF FundInv, Ran
  <2>7. ASSUME LamportsInv, MaxGrants <= U64_MAX PROVE LamportsInv'
    <3>1. granted <= U64_MAX
      BY <2>7, LedgerAssumption, TokenAssumption DEF LedgerInv
    <3>2. ~shadowed' /\ ~raced' => AllLamports = granted
      BY <2>1, <2>7 DEF LamportsInv, Ran
    <3> QED BY <2>1, <3>1, <3>2 DEF LamportsInv, InstructionKeeps
  <2> QED BY <2>3, <2>4, <2>5, <2>6, <2>7
<1>3. CASE call # NoCall /\ call' = NoCall /\ granted' = granted + call.n /\ raced' = TRUE
  <2>1. CallOK'
    BY <1>3 DEF CallOK
  <2>2. granted' \in 0 .. MaxGrants
    <3>1. call.n \in Nat /\ granted + call.n <= MaxGrants
      BY <1>3, TokenAssumption DEF LedgerInv, CallOK
    <3>2. granted \in Nat /\ MaxGrants \in Nat
      BY LedgerAssumption DEF LedgerInv
    <3> QED BY <1>3, <3>1, <3>2
  <2>3. LedgerInv'
    BY <1>1, <1>3, <2>1, <2>2 DEF LedgerInv, Ran
  <2> QED BY <1>3, <2>3 DEF OwnerInv, SupplyInv, FundInv, LamportsInv
<1> QED BY <1>2, <1>3 DEF Ran

\* A faucet call reads.
LEMMA BeginKeepsInv ==
  ASSUME LedgerInv, NEW k \in Keys, NEW n \in Amounts, NEW a, BeginGrant(k, a, n),
         Good(k, a), a.owner = Load("system", k).owner,
         IsTokenData(a.data) \/ IsTokenData(Load("system", k).data) => a.data = Load("system", k).data,
         LamportsInv /\ MaxGrants <= U64_MAX =>
           shadowed \/ raced \/ a.lamports = Load("system", k).lamports + n
  PROVE  /\ LedgerInv'
         /\ OwnerInv => OwnerInv'
         /\ OwnerInv /\ SupplyInv => SupplyInv'
         /\ FundInv /\ LamportsInv /\ MaxGrants <= U64_MAX => FundInv'
         /\ LamportsInv => LamportsInv'
<1> DEFINE read == Load("system", k)
<1>1. /\ acct' = acct /\ shadowed' = shadowed /\ reclaimed' = reclaimed
      /\ granted' = granted /\ raced' = raced /\ granted + n <= MaxGrants
      /\ call' = [key |-> k, account |-> a, n |-> n, read |-> read]
  BY DEF BeginGrant
<1>2. Good(k, read)
  BY LoadGood DEF LedgerInv, Programs
<1> HIDE DEF read
<1>3. call'.key = k /\ call'.account = a /\ call'.n = n /\ call'.read = read
  BY <1>1
<1>4. AllGood'
  BY <1>1 DEF LedgerInv, AllGood, Good
<1>5. CallOK'
  BY <1>1, <1>2, <1>3 DEF CallOK, Good, read
<1>6. LedgerInv'
  BY <1>1, <1>4, <1>5 DEF LedgerInv
<1>7. Holdings' = Holdings /\ Supplies' = Supplies /\ AllLamports' = AllLamports
  BY <1>1 DEF Holdings, Supplies, AllLamports, Holding, Lamports
<1>8. OwnerInv => OwnerInv'
  BY <1>1 DEF OwnerInv, AllOwned, Owned
<1>9. FundInv /\ LamportsInv /\ MaxGrants <= U64_MAX => FundInv'
  BY <1>1, <1>3 DEF FundInv, read
<1> QED BY <1>1, <1>6, <1>7, <1>8, <1>9 DEF SupplyInv, LamportsInv

\* What one account has is part of what there is.
LEMMA OneLamports ==
  ASSUME AllGood, NEW k \in Keys
  PROVE  AllLamports \in Nat /\ Lamports(k) \in Nat /\ Lamports(k) <= AllLamports
<1> DEFINE p == [x \in Keys |-> Lamports(x)]
<1>1. p \in [Keys -> Nat] /\ p[k] = Lamports(k)
  BY Measures DEF Measured
<1>2. AllLamports = SumFunction(p)
  BY DEF AllLamports
<1> HIDE DEF p
<1> QED BY <1>1, <1>2, FiniteKeys, SumOfNats

LEMMA GrantsBegin ==
  ASSUME LedgerInv, NEW k \in Keys, NEW n \in Amounts,
         \/ request_airdrop(k, n)
         \/ \E space \in Spaces : create_account_with_faucet(k, n, space)
  PROVE  /\ LedgerInv'
         /\ OwnerInv => OwnerInv'
         /\ OwnerInv /\ SupplyInv => SupplyInv'
         /\ FundInv /\ LamportsInv /\ MaxGrants <= U64_MAX => FundInv'
         /\ LamportsInv => LamportsInv'
<1> DEFINE read == Load("system", k)
<1>1. Good(k, read) /\ Lamports(k) = read.lamports
  BY LoadGood DEF LedgerInv, Programs
<1>2. n \in Nat /\ U64_MAX \in Nat
  BY TokenAssumption
<1>3. CASE request_airdrop(k, n)
  <2> DEFINE sum == IF read.lamports + n <= U64_MAX THEN read.lamports + n ELSE U64_MAX
             a == [read EXCEPT !.lamports = sum]
  <2>1. BeginGrant(k, a, n)
    BY <1>3 DEF request_airdrop
  <2> HIDE DEF read
  <2>2. read.lamports \in Nat /\ sum \in Nat
    BY <1>1, <1>2 DEF Good, Account
  <2>3. ASSUME LamportsInv, MaxGrants <= U64_MAX, ~shadowed, ~raced
        PROVE  sum = read.lamports + n
    <3>1. AllLamports = granted /\ granted + n <= MaxGrants /\ granted \in Nat
      BY <2>1, <2>3 DEF LamportsInv, BeginGrant, LedgerInv
    <3>2. read.lamports <= AllLamports /\ AllLamports \in Nat
      BY <1>1, OneLamports DEF LedgerInv
    <3>3. MaxGrants \in Nat
      BY LedgerAssumption
    <3> QED BY <1>2, <2>2, <2>3, <3>1, <3>2, <3>3
  <2> HIDE DEF sum
  <2>4. Good(k, a) /\ a.owner = read.owner /\ a.data = read.data /\ a.lamports = sum
    BY <1>1, <2>2 DEF Good, Account
  <2> HIDE DEF a
  <2> QED BY <2>1, <2>3, <2>4, BeginKeepsInv DEF read
<1>4. ASSUME NEW space \in Spaces, create_account_with_faucet(k, n, space)
      PROVE  /\ LedgerInv'
             /\ OwnerInv => OwnerInv'
             /\ OwnerInv /\ SupplyInv => SupplyInv'
             /\ FundInv /\ LamportsInv /\ MaxGrants <= U64_MAX => FundInv'
             /\ LamportsInv => LamportsInv'
  <2> DEFINE a == [Fresh("system") EXCEPT !.lamports = n, !.data = space]
  <2>1. BeginGrant(k, a, n) /\ read = Fresh("system")
    BY <1>4 DEF create_account_with_faucet, Load
  <2>2. space \in {NoData, Zeros}
    BY LedgerAssumption
  <2>3. ~IsTokenData(space) /\ ~IsTokenData(read.data) /\ space \in Contents(k) /\ read.lamports = 0
    BY <2>1, <2>2 DEF IsTokenData, NoData, Zeros, Fresh, Contents
  <2> HIDE DEF read
  <2>4. Good(k, a) /\ a.owner = read.owner /\ a.data = space /\ a.lamports = n
    BY <1>1, <1>2, <2>1, <2>3 DEF Good, Account, Fresh
  <2> HIDE DEF a
  <2>5. a.lamports = read.lamports + n
    BY <1>2, <2>3, <2>4
  <2> QED BY <2>1, <2>3, <2>4, <2>5, BeginKeepsInv DEF read
<1> QED BY <1>3, <1>4

\* A faucet call stores what it computed, over whatever is there.
LEMMA SaveKeepsInv ==
  ASSUME LedgerInv, save_account
  PROVE  /\ LedgerInv'
         /\ OwnerInv => OwnerInv'
         /\ OwnerInv /\ SupplyInv => SupplyInv'
         /\ FundInv'
         /\ FundInv /\ LamportsInv => LamportsInv'
<1>0. PICK key : key = call.key
  OBVIOUS
<1> DEFINE new == call.account
           n == call.n
           read == Load("system", key)
<1>1. /\ call' = NoCall /\ granted' = granted + n /\ shadowed' = shadowed /\ reclaimed' = reclaimed
      /\ acct' = [k \in DOMAIN acct \cup {key} |-> IF k = key THEN new ELSE acct[k]]
      /\ raced' = (raced \/ read # call.read)
  BY <1>0 DEF save_account
<1>2. /\ key \in Keys /\ n \in Nat /\ granted + n <= MaxGrants /\ Good(key, new)
      /\ new.owner = call.read.owner
      /\ IsTokenData(new.data) \/ IsTokenData(call.read.data) => new.data = call.read.data
  BY <1>0, TokenAssumption DEF save_account, LedgerInv, CallOK
<1>3. granted \in Nat /\ MaxGrants \in Nat /\ AllGood
  BY LedgerAssumption DEF LedgerInv
<1>4. /\ Lamports(key) = read.lamports /\ Holding(key) = HoldingOf(read)
      /\ AllOwned => Owned(read, reclaimed)
  BY <1>3, LoadGood, LoadOwned DEF Programs
<1> HIDE DEF new, n, read
<1>5. /\ DOMAIN acct' = DOMAIN acct \cup {key} /\ acct'[key] = new
      /\ \A k : k # key /\ k \in DOMAIN acct => acct'[k] = acct[k]
  BY <1>1
<1>6. /\ Lamports(key)' = new.lamports /\ Holding(key)' = HoldingOf(new)
      /\ \A k : k # key => Lamports(k)' = Lamports(k) /\ Holding(k)' = Holding(k)
  BY <1>5 DEF Lamports, Holding, HoldingOf
<1>7. AllGood'
  BY <1>2, <1>3, <1>5 DEF AllGood, Good
<1>8. LedgerInv'
  <2>1. CallOK'
    BY <1>1 DEF CallOK
  <2>2. granted' \in 0 .. MaxGrants
    BY <1>1, <1>2, <1>3
  <2>3. raced' \in BOOLEAN
    BY <1>1, Zenon
  <2> QED BY <1>1, <1>7, <2>1, <2>2, <2>3 DEF LedgerInv
<1>9. ASSUME ~raced' PROVE read = call.read /\ ~raced
  BY <1>1, <1>9
<1>10. ASSUME OwnerInv, ~raced' PROVE AllOwned'
  <2>1. Owned(new, reclaimed)
    BY <1>2, <1>4, <1>9, <1>10 DEF OwnerInv, Owned
  <2>2. AllOwned
    BY <1>9, <1>10 DEF OwnerInv
  <2>3. ASSUME NEW k \in DOMAIN acct' PROVE Owned(acct'[k], reclaimed')
    BY <1>1, <1>5, <2>1, <2>2 DEF AllOwned
  <2> QED BY <2>3 DEF AllOwned, Owned
<1>11. ASSUME ~raced' PROVE Supplies' = Supplies /\ Holdings' = Holdings
  <2>1. HoldingOf(new) = HoldingOf(read)
    BY <1>2, <1>9, <1>11 DEF HoldingOf
  <2>2. \A k : Holding(k)' = Holding(k)
    BY <1>4, <1>6, <2>1
  <2> QED BY <2>2, SameHoldings
<1>12. ASSUME FundInv, LamportsInv, ~shadowed', ~raced' PROVE AllLamports' = granted'
  <2>1. new.lamports = read.lamports + n /\ AllLamports = granted
    BY <1>1, <1>9, <1>12 DEF FundInv, LamportsInv, save_account, new, n
  <2> DEFINE f == [k \in Keys |-> Lamports(k)]
             g == [k \in Keys |-> Lamports(k)']
  <2>2. \A k : Lamports(k) \in Nat
    BY <1>3, Measures DEF Measured
  <2>3. \A k : Lamports(k)' \in Nat
    BY <1>7, MeasuresNext DEF Measured
  <2>4. /\ f \in [Keys -> Int] /\ g \in [Keys -> Int]
        /\ f[key] = Lamports(key) /\ g[key] = Lamports(key)'
    BY <1>2, <2>2, <2>3
  <2>5. \A k \in Keys \ {key} : g[k] = f[k]
    BY <1>6
  <2>6. AllLamports = SumFunction(f) /\ AllLamports' = SumFunction(g)
    BY DEF AllLamports
  <2> HIDE DEF f, g
  <2>7. SumFunction(g) = SumFunction(f) - f[key] + g[key]
    BY <1>2, <2>4, <2>5, FiniteKeys, SumOneChange
  <2>8. Lamports(key) \in Nat
    BY <2>2
  <2> QED BY <1>1, <1>2, <1>3, <1>4, <1>6, <2>1, <2>4, <2>6, <2>7, <2>8
<1>13. FundInv'
  BY <1>1 DEF FundInv
<1> QED BY <1>1, <1>8, <1>9, <1>10, <1>11, <1>12, <1>13 DEF OwnerInv, SupplyInv, LamportsInv

-----------------------------------------------------------------------------
(***************************************************************************)
(* The theorems.                                                           *)
(***************************************************************************)
LEMMA LedgerStarts ==
  ASSUME Init
  PROVE  LedgerInv /\ OwnerInv /\ SupplyInv /\ FundInv /\ LamportsInv
<1>1. DOMAIN acct = {} /\ shadowed = FALSE /\ reclaimed = FALSE /\ raced = FALSE
      /\ granted = 0 /\ call = NoCall
  BY DEF Init
<1>2. \A k : Lamports(k) = 0 /\ Holding(k) = 0
  BY <1>1 DEF Lamports, Holding
<1>3. Supplies = 0 /\ Holdings = 0 /\ AllLamports = 0
  <2> DEFINE f == [k \in Mints |-> Holding(k)]
             p == [k \in Accounts |-> Holding(k)]
             l == [k \in Keys |-> Lamports(k)]
  <2>1. /\ DOMAIN f = Mints /\ \A k \in Mints : f[k] = 0
        /\ DOMAIN p = Accounts /\ \A k \in Accounts : p[k] = 0
        /\ DOMAIN l = Keys /\ \A k \in Keys : l[k] = 0
    BY <1>2
  <2>2. Supplies = SumFunction(f) /\ Holdings = SumFunction(p) /\ AllLamports = SumFunction(l)
    BY DEF Supplies, Holdings, AllLamports
  <2> HIDE DEF f, p, l
  <2> QED BY <2>1, <2>2, FiniteKeys, SumOfZeros
<1>4. LedgerInv
  <2>1. granted \in 0 .. MaxGrants
    BY <1>1, LedgerAssumption
  <2>2. AllGood /\ CallOK
    BY <1>1 DEF AllGood, CallOK
  <2> QED BY <1>1, <2>1, <2>2 DEF LedgerInv
<1> QED BY <1>1, <1>3, <1>4 DEF OwnerInv, AllOwned, SupplyInv, FundInv, LamportsInv

LEMMA LedgerSteps ==
  ASSUME LedgerInv, [Next]_vars
  PROVE  /\ LedgerInv'
         /\ OwnerInv => OwnerInv'
         /\ OwnerInv /\ SupplyInv => SupplyInv'
         /\ FundInv /\ LamportsInv /\ MaxGrants <= U64_MAX => FundInv' /\ LamportsInv'
<1>0. AllGood
  BY DEF LedgerInv
<1>1. CASE \E w \in Flags : (TokenStep(w) \/ SystemStep(w)) /\ UNCHANGED reclaimed
  BY <1>0, <1>1, InstructionSteps, InstructionKeepsInv
<1>2. CASE \E w \in Flags : AtaStep(w)
  BY <1>0, <1>2, InstructionSteps, InstructionKeepsInv
<1>3. ASSUME NEW k \in Funded, NEW n \in Amounts,
             \/ request_airdrop(k, n)
             \/ \E space \in Spaces : create_account_with_faucet(k, n, space)
      PROVE  /\ LedgerInv'
             /\ OwnerInv => OwnerInv'
             /\ OwnerInv /\ SupplyInv => SupplyInv'
             /\ FundInv /\ LamportsInv /\ MaxGrants <= U64_MAX => FundInv' /\ LamportsInv'
  <2>1. k \in Keys
    BY LedgerAssumption
  <2> QED BY <1>3, <2>1, GrantsBegin
<1>4. CASE save_account
  BY <1>4, SaveKeepsInv
<1>5. CASE UNCHANGED vars
  <2>1. /\ acct' = acct /\ shadowed' = shadowed /\ reclaimed' = reclaimed
        /\ granted' = granted /\ call' = call /\ raced' = raced
    BY <1>5 DEF vars, faucetVars
  <2>2. Holdings' = Holdings /\ Supplies' = Supplies /\ AllLamports' = AllLamports
    BY <2>1 DEF Holdings, Supplies, AllLamports, Holding, Lamports
  <2>3. LedgerInv'
    BY <2>1 DEF LedgerInv, AllGood, CallOK, Good
  <2>4. OwnerInv => OwnerInv'
    BY <2>1 DEF OwnerInv, AllOwned, Owned
  <2>5. FundInv => FundInv'
    BY <2>1 DEF FundInv
  <2> QED BY <2>1, <2>2, <2>3, <2>4, <2>5 DEF SupplyInv, LamportsInv
<1> QED BY <1>1, <1>2, <1>3, <1>4, <1>5 DEF Next

LEMMA LedgerTypeOK == LedgerInv => TypeOK
<1>1. ASSUME AllGood, NEW k \in DOMAIN acct
      PROVE  acct[k] \in Account({NoData, Zeros} \cup TokenData)
  BY <1>1 DEF AllGood, Good, Contents, Account
<1> QED BY <1>1 DEF LedgerInv, CallOK, AllGood, TypeOK

\* Every stored account is well-formed, whatever clients ask the three programs
\* and the faucet to do with it, and the faucet hands out no more than its bound.
THEOREM LedgerTypes == Spec => []TypeOK
<1>1. Init => LedgerInv
  BY LedgerStarts
<1>2. LedgerInv /\ [Next]_vars => LedgerInv'
  BY LedgerSteps
<1> QED BY <1>1, <1>2, LedgerTypeOK, PTL DEF Spec

\* Mints and token accounts belong to the token program, until an address it
\* already owned is made an associated account or a faucet call brings back what
\* an account was (TokenOwnsItsData): the owner gate keeps the system program from
\* assigning them, and claim gives a blank account to the program that writes it.
THEOREM TokenDataOwned == Spec => []TokenOwnsItsData
<1>1. Init => LedgerInv /\ OwnerInv
  BY LedgerStarts
<1>2. LedgerInv /\ OwnerInv /\ [Next]_vars => LedgerInv' /\ OwnerInv'
  BY LedgerSteps
<1>3. OwnerInv => TokenOwnsItsData
  BY DEF OwnerInv, AllOwned, Owned, TokenOwnsItsData
<1> QED BY <1>1, <1>2, <1>3, PTL DEF Spec

\* The supplies of all mints add up to what all token accounts hold, for any
\* number of mints and accounts and any amounts, until a changed copy is shadowed
\* or a faucet call races an instruction (TokensConserved).  It rests on the
\* owners: the system program could otherwise reallocate an account that holds
\* tokens.
THEOREM TokenSupply == Spec => []TokensConserved
<1>1. Init => LedgerInv /\ OwnerInv /\ SupplyInv
  BY LedgerStarts
<1>2. LedgerInv /\ OwnerInv /\ SupplyInv /\ [Next]_vars => LedgerInv' /\ OwnerInv' /\ SupplyInv'
  BY LedgerSteps
<1>3. SupplyInv => TokensConserved
  BY DEF SupplyInv, Supplies, Holdings, TokensConserved
<1> QED BY <1>1, <1>2, <1>3, PTL DEF Spec

\* As long as all that the faucet hands out fits in a u64, no lamport is made or
\* lost (LamportsConserved): neither the saturating sum of the faucet nor the
\* wrapping sum of CloseAccount is ever reached, because no account has more than
\* there is in all.
THEOREM LamportsKept ==
  ASSUME MaxGrants <= U64_MAX
  PROVE  Spec => []LamportsConserved
<1>1. Init => LedgerInv /\ FundInv /\ LamportsInv
  BY LedgerStarts
<1>2. LedgerInv /\ FundInv /\ LamportsInv /\ [Next]_vars => LedgerInv' /\ FundInv' /\ LamportsInv'
  BY LedgerSteps
<1>3. LamportsInv => LamportsConserved
  BY DEF LamportsInv, AllLamports, LamportsConserved
<1> QED BY <1>1, <1>2, <1>3, PTL DEF Spec
=============================================================================
