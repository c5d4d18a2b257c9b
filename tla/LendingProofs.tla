--------------------------- MODULE LendingProofs ---------------------------
(***************************************************************************)
(* Proofs about Lending, for any bids, loans, amounts, timestamps and any  *)
(* number of transactions, rejections and failing Bitcoin calls.           *)
(*                                                                         *)
(* The properties compare what was sent with the saved account, and        *)
(* between the two stand the working copy and its queue.  The invariants   *)
(* count a queued settlement as if it were sent: then an instruction and   *)
(* the settling of its outcome both keep the balance.                      *)
(*                                                                         *)
(* Then the other end of a settlement, on Bitcoin: what the indexer tells  *)
(* of a transaction, whether an inscription in custody is handed on and    *)
(* what robust signing comes to, for any outputs, any committee, any list  *)
(* of signers and any number of blocks and restarts.                       *)
(***************************************************************************)
EXTENDS Lending, Bitcoin, InductionLemmas, SequenceTheorems, TLAPS

\* The account as a record with exactly these fields.
Account(b, l, p, o, r) ==
  [bids |-> b, loans |-> l, pending |-> p, opened |-> o, repaid |-> r]

IsAccount(c) ==
  /\ c = Account(c.bids, c.loans, c.pending, c.opened, c.repaid)
  /\ Collection(c)
  /\ IsFiniteSet(DOMAIN c.bids)

\* What one settlement, and a queue of at most two, will move and pay for i.
MovesOf(s, i) == IF s.insc = i /\ s.kind # "repayment" THEN 1 ELSE 0
SatsOf(s, i)  == IF s.insc = i /\ s.kind = "repayment" THEN s.amount ELSE 0
Moves(p, i) ==
  IF p = << >> THEN 0
  ELSE MovesOf(p[1], i) + (IF Len(p) = 1 THEN 0 ELSE MovesOf(p[2], i))
Sats(p, i) ==
  IF p = << >> THEN 0
  ELSE SatsOf(p[1], i) + (IF Len(p) = 1 THEN 0 ELSE SatsOf(p[2], i))

\* d is c after an instruction: what d has closed and been repaid beyond c is
\* what d has queued.
QueuesWhatItDoes(c, d) ==
  /\ Len(d.pending) <= 2
  /\ \A j \in Inscriptions : /\ Closed(d, j) = Closed(c, j) + Moves(d.pending, j)
                             /\ d.repaid[j] = c.repaid[j] + Sats(d.pending, j)

-----------------------------------------------------------------------------
(***************************************************************************)
(* The program.                                                            *)
(***************************************************************************)

\* Replacing fields of an account.
LEMMA AccountFields ==
  ASSUME NEW b, NEW l, NEW p, NEW o, NEW r
  PROVE  /\ Account(b, l, p, o, r).bids = b
         /\ Account(b, l, p, o, r).loans = l
         /\ Account(b, l, p, o, r).pending = p
         /\ Account(b, l, p, o, r).opened = o
         /\ Account(b, l, p, o, r).repaid = r
BY DEF Account

LEMMA MadeAccount ==
  ASSUME NEW b, NEW l, NEW p \in Seq(Settlement),
         NEW o \in [Inscriptions -> Nat], NEW r \in [Inscriptions -> Nat],
         DOMAIN b \subseteq Utxos, IsFiniteSet(DOMAIN b), \A u \in DOMAIN b : b[u] \in Bid,
         DOMAIN l \subseteq Inscriptions, \A i \in DOMAIN l : l[i] \in Loan
  PROVE  IsAccount(Account(b, l, p, o, r))
<1> DEFINE d == Account(b, l, p, o, r)
<1>1. /\ d.bids = b /\ d.loans = l /\ d.pending = p /\ d.opened = o /\ d.repaid = r
  BY AccountFields
<1>2. d = Account(d.bids, d.loans, d.pending, d.opened, d.repaid)
  BY <1>1, Zenon
<1> HIDE DEF d
<1>3. Collection(d)
  BY <1>1 DEF Collection
<1>4. IsAccount(d)
  BY <1>1, <1>2, <1>3 DEF IsAccount
<1> QED BY <1>4 DEF d

LEMMA PlaceAccount ==
  ASSUME NEW c, IsAccount(c), c.pending = << >>,
         NEW u \in Utxos, NEW v \in Offers[u], NEW d \in PlaceBid(c, u, v)
  PROVE  IsAccount(d) /\ QueuesWhatItDoes(c, d)
<1> DEFINE b == Put(c.bids, u, [value |-> v])
<1>1. d = Account(b, c.loans, << >>, c.opened, c.repaid)
  BY DEF PlaceBid, IsAccount, Account
<1>2. /\ d.bids = b /\ d.loans = c.loans /\ d.pending = << >>
      /\ d.opened = c.opened /\ d.repaid = c.repaid
  BY <1>1, AccountFields
<1>3. v \in Values
  BY DEF Values
<1>4. /\ DOMAIN b = DOMAIN c.bids \cup {u}
      /\ \A w \in DOMAIN b : b[w] \in Bid
  BY <1>3 DEF Put, IsAccount, Collection, Bid
<1>5. IsFiniteSet(DOMAIN b)
  BY <1>4, FS_AddElement DEF IsAccount
<1> HIDE DEF b
<1>6. IsAccount(d)
  BY <1>1, <1>2, <1>4, <1>5 DEF IsAccount, Collection
<1>7. QueuesWhatItDoes(c, d)
  BY <1>2 DEF QueuesWhatItDoes, Moves, Sats, Closed, IsAccount, Collection
<1> QED BY <1>6, <1>7

LEMMA DropBids ==
  ASSUME NEW c, IsAccount(c), NEW u
  PROVE  LET b == Drop(c.bids, u) IN
         /\ DOMAIN b \subseteq Utxos /\ \A w \in DOMAIN b : b[w] \in Bid
         /\ IsFiniteSet(DOMAIN b)
<1>1. DOMAIN Drop(c.bids, u) = DOMAIN c.bids \ {u}
  BY DEF Drop, Restrict
<1>2. IsFiniteSet(DOMAIN c.bids \ {u})
  BY FS_RemoveElement DEF IsAccount
<1> QED BY <1>1, <1>2 DEF Drop, Restrict, IsAccount, Collection

LEMMA CancelAccount ==
  ASSUME NEW c, IsAccount(c), c.pending = << >>, NEW u \in Utxos, NEW d \in CancelBid(c, u)
  PROVE  IsAccount(d) /\ QueuesWhatItDoes(c, d)
<1> DEFINE b == Drop(c.bids, u)
<1>1. d = Account(b, c.loans, << >>, c.opened, c.repaid)
  BY DEF CancelBid, IsAccount, Account
<1>2. /\ d.bids = b /\ d.loans = c.loans /\ d.pending = << >>
      /\ d.opened = c.opened /\ d.repaid = c.repaid
  BY <1>1, AccountFields
<1>3. /\ DOMAIN b \subseteq Utxos /\ \A w \in DOMAIN b : b[w] \in Bid
      /\ IsFiniteSet(DOMAIN b)
  BY DropBids
<1> HIDE DEF b
<1>6. IsAccount(d)
  BY <1>1, <1>2, <1>3 DEF IsAccount, Collection
<1>7. QueuesWhatItDoes(c, d)
  BY <1>2 DEF QueuesWhatItDoes, Moves, Sats, Closed, IsAccount, Collection
<1> QED BY <1>6, <1>7

LEMMA AcceptAccount ==
  ASSUME NEW c, IsAccount(c), c.pending = << >>,
         NEW i \in Inscriptions, NEW ts \in Times, NEW d \in AcceptBid(c, i, ts)
  PROVE  IsAccount(d) /\ QueuesWhatItDoes(c, d)
<1>1. i \notin DOMAIN c.loans
  BY DEF AcceptBid
<1>2. PICK u \in BestBids(c.bids) :
        d = [c EXCEPT !.bids = Drop(@, u),
                      !.loans = Put(@, i, [value |-> c.bids[u].value, started_at |-> ts,
                                           repaid |-> 0]),
                      !.opened[i] = @ + 1]
  BY <1>1 DEF AcceptBid
<1> DEFINE b == Drop(c.bids, u)
           loan == [value |-> c.bids[u].value, started_at |-> ts, repaid |-> 0]
           l == Put(c.loans, i, loan)
           o == [c.opened EXCEPT ![i] = @ + 1]
<1>3. d = Account(b, l, << >>, o, c.repaid)
  BY <1>2 DEF IsAccount, Account
<1>4. /\ d.bids = b /\ d.loans = l /\ d.pending = << >>
      /\ d.opened = o /\ d.repaid = c.repaid
  BY <1>3, AccountFields
<1>5. /\ DOMAIN b \subseteq Utxos /\ \A w \in DOMAIN b : b[w] \in Bid
      /\ IsFiniteSet(DOMAIN b)
  BY DropBids
<1>6. loan \in Loan
  <2>1. c.bids[u] \in Bid
    BY DEF BestBids, IsAccount, Collection
  <2> QED BY <2>1 DEF Bid, Loan
<1>7. /\ DOMAIN l = DOMAIN c.loans \cup {i}
      /\ \A j \in DOMAIN l : l[j] \in Loan
  BY <1>6 DEF Put, IsAccount, Collection
<1>8. /\ o \in [Inscriptions -> Nat]
      /\ \A j \in Inscriptions : o[j] = IF j = i THEN c.opened[i] + 1 ELSE c.opened[j]
  BY DEF IsAccount, Collection
<1> HIDE DEF b, l, o, loan
<1>9. IsAccount(d)
  BY <1>3, <1>4, <1>5, <1>7, <1>8 DEF IsAccount, Collection
<1>10. QueuesWhatItDoes(c, d)
  BY <1>1, <1>4, <1>7, <1>8 DEF QueuesWhatItDoes, Moves, Sats, Closed, IsAccount, Collection
<1> QED BY <1>9, <1>10

LEMMA RepayAccount ==
  ASSUME NEW c, IsAccount(c), c.pending = << >>,
         NEW i \in Inscriptions, NEW a \in Nat, NEW ts, NEW d \in RepayLoan(c, i, a, ts)
  PROVE  IsAccount(d) /\ QueuesWhatItDoes(c, d)
<1> DEFINE loan == [c.loans[i] EXCEPT !.repaid = @ + a]
           done == loan.repaid >= repayment_due(loan.value)
           l == IF done THEN Drop(c.loans, i) ELSE Put(c.loans, i, loan)
           p == << >> \o << Repayment(i, a) >> \o (IF done THEN << Return(i) >> ELSE << >>)
           q == IF done THEN << Repayment(i, a), Return(i) >> ELSE << Repayment(i, a) >>
           r == [c.repaid EXCEPT ![i] = @ + a]
<1>1. i \in DOMAIN c.loans
  BY DEF RepayLoan
<1>2. d = [c EXCEPT !.loans = IF done THEN Drop(@, i) ELSE Put(@, i, loan),
                    !.pending = @ \o << Repayment(i, a) >>
                                  \o (IF done THEN << Return(i) >> ELSE << >>),
                    !.repaid[i] = @ + a]
  BY <1>1, Zenon DEF RepayLoan
<1>3. loan \in Loan
  BY <1>1 DEF IsAccount, Collection, Loan
<1> HIDE DEF loan
<1>4. d = Account(c.bids, l, p, c.opened, r)
  <2> HIDE DEF done
  <2> QED BY <1>2 DEF IsAccount, Account
<1>5. p = q
  <2> DEFINE s == Repayment(i, a)
             t == Return(i)
  <2> HIDE DEF done, s, t
  <2>1. << >> \o << s >> \o << t >> = << s, t >> /\ << >> \o << s >> \o << >> = << s >>
    <3>1. << s >> \in Seq({s, t}) /\ << t >> \in Seq({s, t}) /\ << >> \in Seq({s, t})
      OBVIOUS
    <3>2. << >> \o << s >> = << s >> /\ << s >> \o << >> = << s >>
      BY <3>1, ConcatEmptySeq
    <3>3. << s >> \o << t >> = << s, t >>
      <4>1. Append(<< s >>, t) = << s, t >>
        <5>1. Append(<< s >>, t) \in Seq({s, t}) /\ << s, t >> \in Seq({s, t})
          OBVIOUS
        <5>2. Len(Append(<< s >>, t)) = 2 /\ Len(<< s, t >>) = 2
          OBVIOUS
        <5>3. \A k \in 1 .. 2 : Append(<< s >>, t)[k] = << s, t >>[k]
          OBVIOUS
        <5> QED BY <5>1, <5>2, <5>3, SeqEqual
      <4> QED BY <3>1, <4>1, AppendIsConcat
    <3> QED BY <3>2, <3>3
  <2> QED BY <2>1 DEF s, t
<1> HIDE DEF p
<1>6. /\ d.bids = c.bids /\ d.loans = l /\ d.pending = q
      /\ d.opened = c.opened /\ d.repaid = r
  BY <1>4, <1>5, AccountFields
<1>7. /\ DOMAIN l = IF done THEN DOMAIN c.loans \ {i} ELSE DOMAIN c.loans
      /\ \A j \in DOMAIN l : l[j] \in Loan
  <2> HIDE DEF done
  <2> QED BY <1>1, <1>3 DEF Put, Drop, Restrict, IsAccount, Collection
<1>8. /\ r \in [Inscriptions -> Nat]
      /\ \A j \in Inscriptions : r[j] = IF j = i THEN c.repaid[i] + a ELSE c.repaid[j]
  BY DEF IsAccount, Collection
<1>9. /\ Repayment(i, a) \in Settlement /\ Return(i) \in Settlement
      /\ \A j : /\ MovesOf(Repayment(i, a), j) = 0
                /\ SatsOf(Repayment(i, a), j) = IF i = j THEN a ELSE 0
                /\ MovesOf(Return(i), j) = IF i = j THEN 1 ELSE 0
                /\ SatsOf(Return(i), j) = 0
  BY DEF Repayment, Return, Settlement, MovesOf, SatsOf
<1>10. /\ q \in Seq(Settlement) /\ Len(q) <= 2
       /\ \A j : /\ Moves(q, j) = IF done /\ i = j THEN 1 ELSE 0
                 /\ Sats(q, j) = IF i = j THEN a ELSE 0
  <2> DEFINE s == Repayment(i, a)
             t == Return(i)
  <2>1. s \in Settlement /\ t \in Settlement
    BY <1>9
  <2>2. \A j : /\ MovesOf(s, j) = 0 /\ SatsOf(s, j) = IF i = j THEN a ELSE 0
               /\ MovesOf(t, j) = (IF i = j THEN 1 ELSE 0) /\ SatsOf(t, j) = 0
    BY <1>9
  <2> HIDE DEF done, s, t
  <2>3. CASE done
    <3>1. q = <<s, t>>
      BY <2>3 DEF s, t
    <3> HIDE DEF q
    <3> QED BY <2>1, <2>2, <2>3, <3>1 DEF Moves, Sats
  <2>4. CASE ~done
    <3>1. q = <<s>>
      BY <2>4 DEF s, t
    <3> HIDE DEF q
    <3> QED BY <2>1, <2>2, <2>4, <3>1 DEF Moves, Sats
  <2> QED BY <2>3, <2>4
<1> HIDE DEF l, q, r, done
<1>11. IsAccount(d)
  BY <1>1, <1>4, <1>5, <1>6, <1>7, <1>8, <1>10 DEF IsAccount, Collection
<1>12. QueuesWhatItDoes(c, d)
  BY <1>1, <1>6, <1>7, <1>8, <1>10 DEF QueuesWhatItDoes, Closed, IsAccount, Collection
<1> QED BY <1>11, <1>12

LEMMA ClaimAccount ==
  ASSUME NEW c, IsAccount(c), c.pending = << >>,
         NEW i \in Inscriptions, NEW ts, NEW d \in ClaimDefault(c, i, ts)
  PROVE  IsAccount(d) /\ QueuesWhatItDoes(c, d)
<1> DEFINE l == Drop(c.loans, i)
           s == Seize(i)
<1>1. i \in DOMAIN c.loans
  BY DEF ClaimDefault
<1>2. d = [c EXCEPT !.loans = Drop(@, i), !.pending = Append(@, Seize(i))]
  BY <1>1, Zenon DEF ClaimDefault
<1>3. d = Account(c.bids, l, << s >>, c.opened, c.repaid)
  <2> HIDE DEF s, l
  <2>1. Append(<< >>, s) = << s >>
    OBVIOUS
  <2>2. d = Account(c.bids, l, Append(c.pending, s), c.opened, c.repaid)
    BY <1>2 DEF IsAccount, Account, s, l
  <2> QED BY <2>1, <2>2
<1>4. /\ d.bids = c.bids /\ d.loans = l /\ d.pending = << s >>
      /\ d.opened = c.opened /\ d.repaid = c.repaid
  BY <1>3, AccountFields
<1>5. DOMAIN l = DOMAIN c.loans \ {i} /\ \A j \in DOMAIN l : l[j] \in Loan
  BY DEF Drop, Restrict, IsAccount, Collection
<1>6. /\ s \in Settlement
      /\ \A j : MovesOf(s, j) = (IF i = j THEN 1 ELSE 0) /\ SatsOf(s, j) = 0
  BY DEF Seize, Settlement, MovesOf, SatsOf
<1> HIDE DEF l, s
<1>7. /\ <<s>> \in Seq(Settlement) /\ Len(<<s>>) <= 2
      /\ \A j : Moves(<<s>>, j) = (IF i = j THEN 1 ELSE 0) /\ Sats(<<s>>, j) = 0
  BY <1>6 DEF Moves, Sats
<1>8. IsAccount(d)
  BY <1>1, <1>3, <1>4, <1>5, <1>7 DEF IsAccount, Collection
<1>9. QueuesWhatItDoes(c, d)
  BY <1>1, <1>4, <1>5, <1>7 DEF QueuesWhatItDoes, Closed, IsAccount, Collection
<1> QED BY <1>8, <1>9

\* The five instructions.
LEMMA InstructionKinds ==
  ASSUME NEW i \in Instruction
  PROVE  \/ i \in [op : {"place"}, utxo : Utxos, value : Values] /\ i.value \in Offers[i.utxo]
         \/ i \in [op : {"cancel"}, utxo : Utxos]
         \/ i \in [op : {"accept", "claim"}, insc : Inscriptions]
         \/ i \in [op : {"repay"}, insc : Inscriptions, amount : Amounts]
BY DEF Instruction

\* Every instruction queues exactly what it closes and takes in.
LEMMA ProcessQueues ==
  ASSUME NEW c, IsAccount(c), c.pending = << >>,
         NEW i \in Instruction, NEW ts \in Times, NEW d \in process(c, i, ts)
  PROVE  IsAccount(d) /\ QueuesWhatItDoes(c, d)
<1>1. CASE i \in [op : {"place"}, utxo : Utxos, value : Values] /\ i.value \in Offers[i.utxo]
  <2>1. i.op = "place" /\ i.utxo \in Utxos /\ i.value \in Offers[i.utxo]
    BY <1>1
  <2>2. d \in PlaceBid(c, i.utxo, i.value)
    BY <2>1 DEF process
  <2> QED BY <2>1, <2>2, PlaceAccount
<1>2. CASE i \in [op : {"cancel"}, utxo : Utxos]
  <2>1. d \in CancelBid(c, i.utxo)
    BY <1>2 DEF process
  <2> QED BY <1>2, <2>1, CancelAccount
<1>3. CASE i \in [op : {"accept", "claim"}, insc : Inscriptions] /\ i.op = "accept"
  <2>1. d \in AcceptBid(c, i.insc, ts)
    BY <1>3 DEF process
  <2> QED BY <1>3, <2>1, AcceptAccount
<1>4. CASE i \in [op : {"accept", "claim"}, insc : Inscriptions] /\ i.op = "claim"
  <2>1. d \in ClaimDefault(c, i.insc, ts)
    BY <1>4 DEF process
  <2> QED BY <1>4, <2>1, ClaimAccount
<1>5. CASE i \in [op : {"repay"}, insc : Inscriptions, amount : Amounts]
  <2>1. d \in RepayLoan(c, i.insc, i.amount, ts)
    BY <1>5 DEF process
  <2>2. i.insc \in Inscriptions /\ i.amount \in Nat
    BY <1>5, LendingAssumption
  <2> QED BY <2>1, <2>2, RepayAccount
<1>6. i \in [op : {"accept", "claim"}, insc : Inscriptions] => i.op \in {"accept", "claim"}
  OBVIOUS
<1> QED BY <1>1, <1>2, <1>3, <1>4, <1>5, <1>6, InstructionKinds

\* Only the choice among equal bids has more than one outcome.
LEMMA ProcessDetermined ==
  ASSUME NEW c, IsAccount(c), NEW i \in Instruction, NEW ts,
         ~(i.op = "accept" /\ Cardinality(BestBids(c.bids)) > 1),
         NEW d \in process(c, i, ts), NEW e \in process(c, i, ts)
  PROVE  d = e
<1>1. i.op \in {"place", "cancel", "accept", "claim", "repay"}
  <2>1. \/ i \in [op : {"place"}, utxo : Utxos, value : Values] /\ i.value \in Offers[i.utxo]
        \/ i \in [op : {"cancel"}, utxo : Utxos]
        \/ i \in [op : {"accept", "claim"}, insc : Inscriptions]
        \/ i \in [op : {"repay"}, insc : Inscriptions, amount : Amounts]
    BY InstructionKinds
  <2> QED BY <2>1
<1>2. CASE i.op = "place"
  BY <1>2 DEF process, PlaceBid
<1>3. CASE i.op = "cancel"
  BY <1>3 DEF process, CancelBid
<1>4. CASE i.op = "accept"
  <2>1. IsFiniteSet(BestBids(c.bids))
    BY FS_Subset DEF BestBids, IsAccount
  <2>2. Cardinality(BestBids(c.bids)) \in Nat /\ ~(Cardinality(BestBids(c.bids)) > 1)
    BY <1>4, <2>1, FS_CardinalityType
  <2>3. ASSUME NEW u \in BestBids(c.bids), NEW w \in BestBids(c.bids), u # w
        PROVE  FALSE
    <3>1. /\ IsFiniteSet({u, w}) /\ Cardinality({u, w}) = 2
      <4>1. IsFiniteSet({u}) /\ Cardinality({u}) = 1
        BY FS_Singleton
      <4>2. IsFiniteSet({u} \cup {w}) /\ Cardinality({u} \cup {w}) = Cardinality({u}) + 1
        BY <2>3, <4>1, FS_AddElement
      <4>3. {u} \cup {w} = {u, w}
        OBVIOUS
      <4> QED BY <4>1, <4>2, <4>3
    <3>2. Cardinality({u, w}) <= Cardinality(BestBids(c.bids))
      BY <2>1, <2>3, FS_Subset
    <3> QED BY <2>2, <3>1, <3>2
  <2>4. d \in AcceptBid(c, i.insc, ts) /\ e \in AcceptBid(c, i.insc, ts)
    BY <1>4 DEF process
  <2> HIDE DEF BestBids
  <2> QED BY <2>3, <2>4, Zenon DEF AcceptBid
<1>5. CASE i.op = "claim"
  BY <1>5 DEF process, ClaimDefault
<1>6. CASE i.op = "repay"
  <2>1. d \in RepayLoan(c, i.insc, i.amount, ts) /\ e \in RepayLoan(c, i.insc, i.amount, ts)
    BY <1>6 DEF process
  <2>2. \E x : RepayLoan(c, i.insc, i.amount, ts) \subseteq {x}
    <3>1. CASE i.insc \notin DOMAIN c.loans \/ i.amount = 0
      BY <2>1, <3>1, Zenon DEF RepayLoan
    <3>2. CASE ~(i.insc \notin DOMAIN c.loans \/ i.amount = 0)
      BY <3>2, Zenon DEF RepayLoan
    <3> QED BY <3>1, <3>2
  <2> QED BY <2>1, <2>2
<1> QED BY <1>1, <1>2, <1>3, <1>4, <1>5, <1>6

-----------------------------------------------------------------------------
(***************************************************************************)
(* Accounts and queues.                                                    *)
(***************************************************************************)

\* Outside the settling of an instruction every queue is empty, and one holds
\* no more than a repayment and the return of its inscription.
AccountInv ==
  /\ TypeOK
  /\ IsAccount(coll) /\ IsAccount(replica) /\ IsAccount(work) /\ IsAccount(rework)
  /\ coll.pending = << >> /\ replica.pending = << >> /\ rework.pending = << >>
  /\ phase # "settle" => work.pending = << >>
  /\ Len(work.pending) <= 2

\* Emptying a queue, as the replica does.
LEMMA Drained ==
  ASSUME NEW c, IsAccount(c)
  PROVE  /\ IsAccount(drain_lending(c)) /\ drain_lending(c).pending = << >>
         /\ c.pending = << >> => drain_lending(c) = c
<1>1. drain_lending(c) = Account(c.bids, c.loans, << >>, c.opened, c.repaid)
  BY DEF drain_lending, IsAccount, Account
<1>2. << >> \in Seq(Settlement)
  OBVIOUS
<1>3. IsAccount(drain_lending(c))
  <2>1. IsAccount(Account(c.bids, c.loans, << >>, c.opened, c.repaid))
    BY <1>2, MadeAccount DEF IsAccount, Collection
  <2> QED BY <1>1, <2>1
<1>4. drain_lending(c).pending = << >>
  BY <1>1, AccountFields
<1> QED BY <1>1, <1>3, <1>4 DEF IsAccount

LEMMA QueueOfNone ==
  ASSUME NEW D, NEW q \in Seq(D), Len(q) = 0
  PROVE  q = << >>
OBVIOUS

LEMMA QueueOfOne ==
  ASSUME NEW D, NEW q \in Seq(D), Len(q) = 1
  PROVE  Head(q) \in D /\ Head(q) = q[1] /\ Tail(q) = << >>
<1>1. Tail(q) \in Seq(D) /\ Len(Tail(q)) = 0
  OBVIOUS
<1>2. Tail(q) = << >>
  BY <1>1, QueueOfNone, Zenon
<1>3. Head(q) \in D /\ Head(q) = q[1]
  OBVIOUS
<1> QED BY <1>2, <1>3

LEMMA QueueOfTwo ==
  ASSUME NEW D, NEW q \in Seq(D), Len(q) = 2
  PROVE  /\ Head(q) \in D /\ Head(q) = q[1] /\ Tail(q) \in Seq(D)
         /\ Len(Tail(q)) = 1 /\ Tail(q) # << >> /\ Tail(q)[1] = q[2] /\ q[2] \in D
<1>1. Head(q) \in D /\ Head(q) = q[1] /\ Tail(q) \in Seq(D) /\ Len(Tail(q)) = 1
  OBVIOUS
<1>2. Tail(q)[1] = q[2] /\ q[2] \in D
  OBVIOUS
<1>3. Tail(q) # << >>
  <2> SUFFICES ASSUME Tail(q) = << >> PROVE FALSE
    OBVIOUS
  <2>1. Len(Tail(q)) = Len(<< >>)
    BY Zenon
  <2>2. Len(<< >>) = 0
    OBVIOUS
  <2> QED BY <1>1, <2>1, <2>2
<1> QED BY <1>1, <1>2, <1>3

LEMMA ShortQueue ==
  ASSUME NEW D, NEW q \in Seq(D), q # << >>, Len(q) <= 2
  PROVE  Len(q) = 1 \/ Len(q) = 2
<1> DEFINE n == Len(q)
<1>1. n \in Nat /\ n # 0 /\ n <= 2
  OBVIOUS
<1> HIDE DEF n
<1>2. n = 1 \/ n = 2
  BY <1>1
<1> QED BY <1>2 DEF n

LEMMA SettlementNats ==
  \A s \in Settlement : \A j : MovesOf(s, j) \in Nat /\ SatsOf(s, j) \in Nat
BY DEF Settlement, MovesOf, SatsOf

\* Taking the first settlement out of a queue.
LEMMA TailQueue ==
  ASSUME NEW p \in Seq(Settlement), p # << >>, Len(p) <= 2
  PROVE  /\ Head(p) \in Settlement /\ Tail(p) \in Seq(Settlement) /\ Len(Tail(p)) <= 2
         /\ \A j : /\ Moves(p, j) = MovesOf(Head(p), j) + Moves(Tail(p), j)
                   /\ Sats(p, j) = SatsOf(Head(p), j) + Sats(Tail(p), j)
<1> DEFINE h == Head(p)
           t == Tail(p)
<1>1. /\ Len(p) = 1 \/ Len(p) = 2
      /\ h \in Settlement /\ h = p[1]
      /\ t \in Seq(Settlement)
      /\ Len(p) = 1 => t = << >>
      /\ Len(p) = 2 => Len(t) = 1 /\ t # << >> /\ t[1] = p[2] /\ p[2] \in Settlement
  <2>1. Len(p) = 1 \/ Len(p) = 2
    BY ShortQueue, Zenon
  <2>2. << >> \in Seq(Settlement)
    OBVIOUS
  <2>3. Len(p) = 1 => h \in Settlement /\ h = p[1] /\ t = << >>
    BY QueueOfOne, Zenon
  <2>4. Len(p) = 2 => /\ h \in Settlement /\ h = p[1] /\ t \in Seq(Settlement)
                      /\ Len(t) = 1 /\ t # << >> /\ t[1] = p[2] /\ p[2] \in Settlement
    BY QueueOfTwo, Zenon
  <2> HIDE DEF h, t
  <2>5. Len(p) = 2 => Len(p) # 1
    OBVIOUS
  <2> QED BY <2>1, <2>2, <2>3, <2>4, <2>5, Zenon
<1>2. \A s \in Settlement : \A j : MovesOf(s, j) \in Nat /\ SatsOf(s, j) \in Nat
  BY SettlementNats
<1> HIDE DEF h, t
<1>3. CASE Len(p) = 1
  <2>1. t = << >> /\ Len(t) <= 2
    BY <1>1, <1>3
  <2>2. \A j : Moves(t, j) = 0 /\ Sats(t, j) = 0
    BY <2>1 DEF Moves, Sats
  <2>3. \A j : Moves(p, j) = MovesOf(h, j) + 0 /\ Sats(p, j) = SatsOf(h, j) + 0
    BY <1>1, <1>3 DEF Moves, Sats
  <2> QED BY <1>1, <2>1, <2>2, <2>3 DEF h, t
<1>4. CASE Len(p) = 2
  BY <1>1, <1>2, <1>4 DEF Moves, Sats, h, t
<1> QED BY <1>1, <1>3, <1>4

LEMMA QueueNats ==
  ASSUME NEW p \in Seq(Settlement), Len(p) <= 2
  PROVE  \A j : Moves(p, j) \in Nat /\ Sats(p, j) \in Nat
<1>1. CASE p = << >>
  BY <1>1 DEF Moves, Sats
<1>2. CASE p # << >>
  <2>1. Len(p) = 1 \/ Len(p) = 2
    BY <1>2, ShortQueue, Zenon
  <2>2. CASE Len(p) = 1
    <3>1. p[1] \in Settlement
      BY <2>2, QueueOfOne, Zenon
    <3> QED BY <1>2, <2>2, <3>1, SettlementNats DEF Moves, Sats
  <2>3. CASE Len(p) = 2
    <3>1. p[1] \in Settlement /\ p[2] \in Settlement
      BY <2>3, QueueOfTwo, Zenon
    <3> QED BY <1>2, <2>3, <3>1, SettlementNats DEF Moves, Sats
  <2> QED BY <2>1, <2>2, <2>3
<1> QED BY <1>1, <1>2

\* One settlement that is sent.
LEMMA SentOne ==
  ASSUME NEW z \in [moves : [Inscriptions -> Nat], sats : [Inscriptions -> Nat]],
         NEW s \in Settlement, NEW y,
         y = IF s.kind = "repayment" THEN [z EXCEPT !.sats[s.insc] = @ + s.amount]
             ELSE [z EXCEPT !.moves[s.insc] = @ + 1]
  PROVE  /\ y \in [moves : [Inscriptions -> Nat], sats : [Inscriptions -> Nat]]
         /\ \A j \in Inscriptions : /\ y.moves[j] = z.moves[j] + MovesOf(s, j)
                                    /\ y.sats[j] = z.sats[j] + SatsOf(s, j)
<1>1. s.insc \in Inscriptions /\ (s.kind = "repayment" => s.amount \in Nat)
  BY DEF Settlement
<1>2. CASE s.kind = "repayment"
  <2>1. y = [z EXCEPT !.sats[s.insc] = @ + s.amount]
    BY <1>2
  <2> QED BY <1>1, <1>2, <2>1 DEF MovesOf, SatsOf
<1>3. CASE s.kind # "repayment"
  <2>1. y = [z EXCEPT !.moves[s.insc] = @ + 1]
    BY <1>3
  <2> QED BY <1>1, <1>3, <2>1 DEF MovesOf, SatsOf
<1> QED BY <1>2, <1>3

LEMMA NewAccount ==
  IsAccount(NewCollection) /\ NewCollection.pending = << >>
<1> DEFINE z == [i \in Inscriptions |-> 0]
<1>1. NewCollection = Account(<< >>, << >>, << >>, z, z)
  BY DEF NewCollection, Account
<1>2. z \in [Inscriptions -> Nat] /\ << >> \in Seq(Settlement) /\ DOMAIN << >> = {}
  OBVIOUS
<1> HIDE DEF z
<1>3. IsAccount(NewCollection)
  BY <1>1, <1>2, MadeAccount, FS_EmptySet
<1> QED BY <1>1, <1>3, AccountFields

LEMMA InitAccounts == Init => AccountInv
<1> SUFFICES ASSUME Init PROVE AccountInv
  OBVIOUS
<1>1. Collection(NewCollection)
  BY NewAccount DEF IsAccount
<1>2. TypeOK
  <2>1. \A c \in {coll, replica, work, rework} : Collection(c)
    BY <1>1, Zenon DEF Init
  <2>2. {MaxTxs, MaxInstrs, MaxAborts, MaxSendFails} \subseteq Nat
    BY LendingAssumption
  <2>3. sent \in [moves : [Inscriptions -> Nat], sats : [Inscriptions -> Nat]]
    BY DEF Init
  <2>4. /\ phase \in {"idle", "run", "settle"} /\ now \in Times
        /\ torn \in BOOLEAN /\ tie \in BOOLEAN
    BY DEF Init
  <2>5. /\ left \in 0 .. MaxInstrs /\ txs \in 0 .. MaxTxs
        /\ aborts \in 0 .. MaxAborts /\ sendFails \in 0 .. MaxSendFails
    <3>1. left = 0 /\ txs = 0 /\ aborts = 0 /\ sendFails = 0
      BY DEF Init
    <3> QED BY <2>2, <3>1
  <2> QED BY <2>1, <2>3, <2>4, <2>5 DEF TypeOK
<1>3. Len(work.pending) <= 2
  BY NewAccount DEF Init
<1> QED BY <1>2, <1>3, NewAccount DEF Init, AccountInv

LEMMA StepAccounts == AccountInv /\ [Next]_vars => AccountInv'
<1> SUFFICES ASSUME AccountInv, [Next]_vars PROVE AccountInv'
  OBVIOUS
<1> DEFINE Accounts ==
      /\ IsAccount(coll) /\ IsAccount(replica) /\ IsAccount(work) /\ IsAccount(rework)
      /\ coll.pending = << >> /\ replica.pending = << >> /\ rework.pending = << >>
      /\ phase # "settle" => work.pending = << >>
      /\ Len(work.pending) <= 2
    Plain ==
      /\ phase \in {"idle", "run", "settle"}
      /\ now \in Times /\ left \in 0 .. MaxInstrs
      /\ sent \in [moves : [Inscriptions -> Nat], sats : [Inscriptions -> Nat]]
      /\ torn \in BOOLEAN /\ tie \in BOOLEAN
      /\ txs \in 0 .. MaxTxs /\ aborts \in 0 .. MaxAborts
      /\ sendFails \in 0 .. MaxSendFails
<1>0. Accounts /\ Plain
  BY DEF AccountInv, TypeOK
<1>a. SUFFICES Accounts' /\ Plain'
  BY DEF AccountInv, TypeOK, IsAccount
<1>b. Len(<< >>) <= 2
  OBVIOUS
<1>c. {MaxTxs, MaxInstrs, MaxAborts, MaxSendFails} \subseteq Nat
  BY LendingAssumption
<1>1. CASE BeginTx
  <2>1. Accounts'
    BY <1>0, <1>1, <1>b DEF BeginTx
  <2>2. Plain'
    BY <1>0, <1>1, <1>c DEF BeginTx, history
  <2> QED BY <2>1, <2>2
<1>2. ASSUME NEW i \in Instruction, RunInstr(i) PROVE Accounts' /\ Plain'
  <2>1. work' \in process(work, i, now) /\ work.pending = << >>
    BY <1>0, <1>2 DEF RunInstr
  <2>2. IsAccount(work') /\ Len(work'.pending) <= 2
    BY <1>0, <2>1, ProcessQueues DEF QueuesWhatItDoes
  <2>3. IsAccount(rework') /\ rework'.pending = << >>
    <3>1. CASE process(rework, i, now) = {}
      BY <1>0, <1>2, <3>1 DEF RunInstr
    <3>2. CASE process(rework, i, now) # {}
      <4>1. PICK r \in process(rework, i, now) : rework' = drain_lending(r)
        BY <1>2, <3>2 DEF RunInstr
      <4>2. IsAccount(r)
        BY <1>0, ProcessQueues
      <4> QED BY <4>1, <4>2, Drained
    <3> QED BY <3>1, <3>2
  <2>4. Accounts'
    BY <1>0, <1>2, <2>2, <2>3 DEF RunInstr
  <2>5. tie' \in BOOLEAN
    BY <1>2, Zenon DEF RunInstr
  <2>6. Plain'
    BY <1>0, <1>2, <1>c, <2>5 DEF RunInstr, bounds
  <2> QED BY <2>4, <2>6
<1>3. ASSUME NEW i \in Instruction, InstrFails(i) PROVE Accounts' /\ Plain'
  <2>1. Accounts'
    BY <1>0, <1>3 DEF InstrFails, DiscardTx
  <2>2. Plain'
    BY <1>0, <1>3 DEF InstrFails, DiscardTx, bounds
  <2> QED BY <2>1, <2>2
<1>4. ASSUME NEW ok \in BOOLEAN, Settle(ok) PROVE Accounts' /\ Plain'
  <2> DEFINE s == Head(work.pending)
  <2>1. work.pending \in Seq(Settlement) /\ work.pending # << >> /\ Len(work.pending) <= 2
    BY <1>0, <1>4 DEF Settle, IsAccount, Collection
  <2>2. s \in Settlement /\ Tail(work.pending) \in Seq(Settlement) /\ Len(Tail(work.pending)) <= 2
    BY <2>1, TailQueue
  <2>3. work' = Account(work.bids, work.loans, Tail(work.pending), work.opened, work.repaid)
    BY <1>0, <1>4 DEF Settle, IsAccount, Account
  <2>4. IsAccount(work') /\ work'.pending = Tail(work.pending)
    <3>1. IsAccount(Account(work.bids, work.loans, Tail(work.pending), work.opened, work.repaid))
      BY <1>0, <2>2, MadeAccount DEF IsAccount, Collection
    <3> QED BY <2>3, <3>1, AccountFields
  <2>5. Accounts'
    BY <1>0, <1>4, <2>2, <2>4 DEF Settle
  <2>7. sent' \in [moves : [Inscriptions -> Nat], sats : [Inscriptions -> Nat]]
    <3> HIDE DEF s
    <3>1. CASE ok
      <4>1. sent' = IF s.kind = "repayment" THEN [sent EXCEPT !.sats[s.insc] = @ + s.amount]
                    ELSE [sent EXCEPT !.moves[s.insc] = @ + 1]
        BY <1>4, <3>1 DEF Settle, s
      <4> QED BY <1>0, <2>2, <4>1, SentOne
    <3>2. CASE ~ok
      BY <1>0, <1>4, <3>2 DEF Settle
    <3> QED BY <3>1, <3>2
  <2>8. sendFails' \in 0 .. MaxSendFails
    BY <1>0, <1>4, <1>c DEF Settle
  <2>9. Plain'
    BY <1>0, <1>4, <2>7, <2>8 DEF Settle, history
  <2> QED BY <2>5, <2>9
<1>5. CASE EndSettle
  <2>1. Accounts'
    BY <1>0, <1>5 DEF EndSettle
  <2>2. Plain'
    BY <1>0, <1>5 DEF EndSettle, history, bounds
  <2> QED BY <2>1, <2>2
<1>6. CASE CommitTx
  <2>1. Accounts'
    BY <1>0, <1>6 DEF CommitTx
  <2>2. Plain'
    BY <1>0, <1>6 DEF CommitTx, history, bounds
  <2> QED BY <2>1, <2>2
<1>7. CASE AbortTx
  <2>1. Accounts'
    BY <1>0, <1>7 DEF AbortTx, DiscardTx
  <2>2. Plain'
    BY <1>0, <1>7, <1>c DEF AbortTx, DiscardTx
  <2> QED BY <2>1, <2>2
<1>8. CASE UNCHANGED vars
  BY <1>0, <1>8 DEF vars, history, bounds
<1> QED BY <1>1, <1>2, <1>3, <1>4, <1>5, <1>6, <1>7, <1>8 DEF Next

LEMMA AccountsHold == Spec => []AccountInv
BY InitAccounts, StepAccounts, PTL DEF Spec

\* The account stays well-formed, its bids, loans, queue and counters included,
\* and so do the replica's and the copies transactions work on.
THEOREM LendingTypes == Spec => []TypeOK
<1>1. AccountInv => TypeOK
  BY DEF AccountInv
<1> QED BY <1>1, AccountsHold, PTL

-----------------------------------------------------------------------------
(***************************************************************************)
(* What is sent.                                                           *)
(***************************************************************************)

\* With c's queue sent on top of z, no more (no less) has gone out than c accounts for.
Covers(z, c) == \A i \in Inscriptions :
  /\ z.moves[i] + Moves(c.pending, i) <= Closed(c, i)
  /\ z.sats[i] + Sats(c.pending, i) <= c.repaid[i]
Reached(z, c) == \A i \in Inscriptions :
  /\ z.moves[i] + Moves(c.pending, i) >= Closed(c, i)
  /\ z.sats[i] + Sats(c.pending, i) >= c.repaid[i]

\* A copy that is dropped untorn accounts for the same as the saved account.
SendInv == ~torn => Covers(sent, work) /\ (phase = "idle" => Covers(sent, coll))

\* The saved account is settled throughout, and the copy with its queue is too.
SettledInv == sendFails = 0 => Reached(sent, coll) /\ (phase # "idle" => Reached(sent, work))

SentType == [moves : [Inscriptions -> Nat], sats : [Inscriptions -> Nat]]

\* An instruction adds to the queue what it adds to the account.
LEMMA InstrBalances ==
  ASSUME NEW z \in SentType, NEW c, IsAccount(c), c.pending = << >>,
         NEW d, IsAccount(d), QueuesWhatItDoes(c, d)
  PROVE  /\ Covers(z, c) => Covers(z, d)
         /\ Reached(z, c) => Reached(z, d)
<1>1. \A i \in Inscriptions : Moves(c.pending, i) = 0 /\ Sats(c.pending, i) = 0
  BY DEF Moves, Sats
<1>2. \A i \in Inscriptions : /\ Closed(c, i) \in Int /\ Closed(d, i) \in Int
                              /\ c.repaid[i] \in Nat /\ d.repaid[i] \in Nat
  BY DEF Closed, IsAccount, Collection
<1>3. \A p \in Seq(Settlement), i \in Inscriptions :
        Len(p) <= 2 => Moves(p, i) \in Nat /\ Sats(p, i) \in Nat
  BY QueueNats
<1>4. \A i \in Inscriptions : Moves(d.pending, i) \in Nat /\ Sats(d.pending, i) \in Nat
  BY <1>3 DEF IsAccount, Collection, QueuesWhatItDoes
<1>5. \A i \in Inscriptions : /\ z.moves[i] \in Nat /\ z.sats[i] \in Nat
                              /\ Closed(d, i) = Closed(c, i) + Moves(d.pending, i)
                              /\ d.repaid[i] = c.repaid[i] + Sats(d.pending, i)
  BY DEF QueuesWhatItDoes, SentType
<1>6. Covers(z, c) => Covers(z, d)
  <2> SUFFICES ASSUME Covers(z, c), NEW i \in Inscriptions
               PROVE  /\ z.moves[i] + Moves(d.pending, i) <= Closed(d, i)
                      /\ z.sats[i] + Sats(d.pending, i) <= d.repaid[i]
    BY DEF Covers
  <2>1. z.moves[i] + 0 <= Closed(c, i) /\ z.sats[i] + 0 <= c.repaid[i]
    BY <1>1 DEF Covers
  <2> QED BY <2>1, <1>2, <1>4, <1>5
<1>7. Reached(z, c) => Reached(z, d)
  BY <1>1, <1>2, <1>4, <1>5 DEF Reached
<1> QED BY <1>6, <1>7

\* Settling moves one entry from the queue to what was sent; a failed call
\* loses it.
LEMMA SettleBalances ==
  ASSUME AccountInv, NEW ok \in BOOLEAN, Settle(ok)
  PROVE  /\ Covers(sent, work) => Covers(sent', work')
         /\ ok /\ Reached(sent, work) => Reached(sent', work')
         /\ Reached(sent, coll) => Reached(sent', coll')
<1> DEFINE s == Head(work.pending)
           t == Tail(work.pending)
<1>1. /\ IsAccount(work) /\ IsAccount(coll) /\ coll' = coll
      /\ work.pending \in Seq(Settlement) /\ work.pending # << >>
      /\ Len(work.pending) <= 2 /\ sent \in SentType
  BY DEF AccountInv, Settle, IsAccount, Collection, TypeOK, SentType
<1>2. /\ s \in Settlement /\ t \in Seq(Settlement) /\ Len(t) <= 2
      /\ \A j : /\ Moves(work.pending, j) = MovesOf(s, j) + Moves(t, j)
                /\ Sats(work.pending, j) = SatsOf(s, j) + Sats(t, j)
  BY <1>1, TailQueue
<1>3. work' = Account(work.bids, work.loans, t, work.opened, work.repaid)
  BY <1>1 DEF Settle, IsAccount, Account
<1>4. /\ work'.loans = work.loans /\ work'.pending = t
      /\ work'.opened = work.opened /\ work'.repaid = work.repaid
  BY <1>3, AccountFields
<1> HIDE DEF s, t
<1>5. \A j \in Inscriptions :
        /\ MovesOf(s, j) \in Nat /\ SatsOf(s, j) \in Nat
        /\ Moves(t, j) \in Nat /\ Sats(t, j) \in Nat
  BY <1>2, QueueNats, SettlementNats
<1>6. \A j \in Inscriptions :
        /\ sent.moves[j] \in Nat /\ sent.sats[j] \in Nat
        /\ IF ok THEN /\ sent'.moves[j] = sent.moves[j] + MovesOf(s, j)
                      /\ sent'.sats[j] = sent.sats[j] + SatsOf(s, j)
           ELSE sent'.moves[j] = sent.moves[j] /\ sent'.sats[j] = sent.sats[j]
  <2>1. CASE ok
    <3>1. sent' = IF s.kind = "repayment" THEN [sent EXCEPT !.sats[s.insc] = @ + s.amount]
                  ELSE [sent EXCEPT !.moves[s.insc] = @ + 1]
      BY <2>1 DEF Settle, s
    <3>2. \A j \in Inscriptions : /\ sent'.moves[j] = sent.moves[j] + MovesOf(s, j)
                                  /\ sent'.sats[j] = sent.sats[j] + SatsOf(s, j)
      BY <1>1, <1>2, <3>1, SentOne DEF SentType
    <3> QED BY <1>1, <2>1, <3>2 DEF SentType
  <2>2. CASE ~ok
    <3>1. sent' = sent
      BY <2>2 DEF Settle
    <3> QED BY <1>1, <2>2, <3>1 DEF SentType
  <2> QED BY <2>1, <2>2
<1>7. \A j \in Inscriptions :
        /\ Closed(work', j) = Closed(work, j) /\ Closed(work, j) \in Int
        /\ work'.repaid[j] = work.repaid[j] /\ work.repaid[j] \in Nat
        /\ Closed(coll, j) \in Int /\ coll.repaid[j] \in Nat
  BY <1>1, <1>4 DEF Closed, IsAccount, Collection
<1>8. \A j \in Inscriptions : Moves(coll.pending, j) = 0 /\ Sats(coll.pending, j) = 0
  BY DEF AccountInv, Moves, Sats
<1>9. Covers(sent, work) => Covers(sent', work')
  <2> SUFFICES ASSUME Covers(sent, work), NEW j \in Inscriptions
               PROVE  /\ sent'.moves[j] + Moves(work'.pending, j) <= Closed(work', j)
                      /\ sent'.sats[j] + Sats(work'.pending, j) <= work'.repaid[j]
    BY DEF Covers
  <2>1. /\ sent.moves[j] + (MovesOf(s, j) + Moves(t, j)) <= Closed(work, j)
        /\ sent.sats[j] + (SatsOf(s, j) + Sats(t, j)) <= work.repaid[j]
    BY <1>2 DEF Covers
  <2> QED BY <2>1, <1>4, <1>5, <1>6, <1>7
<1>10. ok /\ Reached(sent, work) => Reached(sent', work')
  <2> SUFFICES ASSUME ok, Reached(sent, work), NEW j \in Inscriptions
               PROVE  /\ sent'.moves[j] + Moves(work'.pending, j) >= Closed(work', j)
                      /\ sent'.sats[j] + Sats(work'.pending, j) >= work'.repaid[j]
    BY DEF Reached
  <2>1. /\ sent.moves[j] + (MovesOf(s, j) + Moves(t, j)) >= Closed(work, j)
        /\ sent.sats[j] + (SatsOf(s, j) + Sats(t, j)) >= work.repaid[j]
    BY <1>2 DEF Reached
  <2> QED BY <2>1, <1>4, <1>5, <1>6, <1>7
<1>11. Reached(sent, coll) => Reached(sent', coll')
  BY <1>1, <1>5, <1>6, <1>7, <1>8 DEF Reached
<1> QED BY <1>9, <1>10, <1>11

LEMMA InitSent == Init => SendInv /\ SettledInv
<1> SUFFICES ASSUME Init PROVE Covers(sent, coll) /\ Reached(sent, coll)
  BY DEF Init, SendInv, SettledInv
<1>1. \A i \in Inscriptions : Moves(coll.pending, i) = 0 /\ Sats(coll.pending, i) = 0
  BY NewAccount DEF Init, Moves, Sats
<1>2. \A i \in Inscriptions : Closed(coll, i) = 0 /\ coll.repaid[i] = 0
  BY DEF Init, NewCollection, Closed
<1>3. \A i \in Inscriptions : sent.moves[i] = 0 /\ sent.sats[i] = 0
  BY DEF Init
<1> QED BY <1>1, <1>2, <1>3 DEF Covers, Reached

\* Dropping a copy that accounts for what the saved account does changes nothing.
LEMMA DiscardBalances ==
  ASSUME AccountInv, phase = "run", DiscardTx, ~torn', Covers(sent, work)
  PROVE  Covers(sent', coll')
<1>1. work.pending = coll.pending /\ sent' = sent /\ coll' = coll
  BY DEF AccountInv, DiscardTx
<1>2. \A i \in Inscriptions : Closed(work, i) = Closed(coll, i) /\ work.repaid[i] = coll.repaid[i]
  BY Zenon DEF DiscardTx
<1> QED BY <1>1, <1>2 DEF Covers

LEMMA StepSent == AccountInv /\ AccountInv' /\ SendInv /\ [Next]_vars => SendInv'
<1> SUFFICES ASSUME AccountInv, AccountInv', SendInv, [Next]_vars, ~torn'
             PROVE  Covers(sent, work)' /\ (phase' = "idle" => Covers(sent, coll)')
  BY DEF SendInv
<1>0. sent \in SentType /\ torn \in BOOLEAN
  BY DEF AccountInv, TypeOK, SentType
<1>1. CASE BeginTx
  BY <1>1 DEF BeginTx, history, SendInv, Covers
<1>2. ASSUME NEW i \in Instruction, RunInstr(i)
      PROVE  Covers(sent, work)' /\ (phase' = "idle" => Covers(sent, coll)')
  <2>1. /\ work' \in process(work, i, now) /\ IsAccount(work) /\ work.pending = << >>
        /\ now \in Times /\ sent' = sent /\ phase' = "settle" /\ torn' = torn
    BY <1>2 DEF RunInstr, AccountInv, TypeOK
  <2>2. IsAccount(work') /\ QueuesWhatItDoes(work, work')
    BY <2>1, ProcessQueues
  <2>3. Covers(sent, work)
    BY <2>1 DEF SendInv
  <2>4. Covers(sent, work')
    BY <1>0, <2>1, <2>2, <2>3, InstrBalances
  <2> QED BY <2>1, <2>4 DEF Covers
<1>3. ASSUME NEW i \in Instruction, InstrFails(i)
      PROVE  Covers(sent, work)' /\ (phase' = "idle" => Covers(sent, coll)')
  <2>1. phase = "run" /\ DiscardTx
    BY <1>3 DEF InstrFails
  <2>2. ~torn /\ sent' = sent /\ work' = work
    BY <2>1 DEF DiscardTx
  <2>3. Covers(sent, work)
    BY <2>2 DEF SendInv
  <2>4. Covers(sent', coll')
    BY <2>1, <2>3, DiscardBalances
  <2> QED BY <2>2, <2>3, <2>4 DEF Covers
<1>4. ASSUME NEW ok \in BOOLEAN, Settle(ok)
      PROVE  Covers(sent, work)' /\ (phase' = "idle" => Covers(sent, coll)')
  <2>1. phase' = "settle" /\ torn' = torn
    BY <1>4 DEF Settle, history
  <2>2. Covers(sent', work')
    BY <1>4, <2>1, SettleBalances DEF SendInv
  <2> QED BY <2>1, <2>2 DEF Covers
<1>5. CASE EndSettle
  BY <1>5 DEF EndSettle, history, SendInv, Covers
<1>6. CASE CommitTx
  BY <1>6 DEF CommitTx, history, SendInv, Covers
<1>7. CASE AbortTx
  <2>1. phase = "run" /\ DiscardTx
    BY <1>7 DEF AbortTx
  <2>2. ~torn /\ sent' = sent /\ work' = work
    BY <2>1 DEF DiscardTx
  <2>3. Covers(sent, work)
    BY <2>2 DEF SendInv
  <2>4. Covers(sent', coll')
    BY <2>1, <2>3, DiscardBalances
  <2> QED BY <2>2, <2>3, <2>4 DEF Covers
<1>8. CASE UNCHANGED vars
  BY <1>8 DEF vars, history, SendInv, Covers
<1> QED BY <1>1, <1>2, <1>3, <1>4, <1>5, <1>6, <1>7, <1>8 DEF Next

LEMMA StepSettled == AccountInv /\ AccountInv' /\ SettledInv /\ [Next]_vars => SettledInv'
<1> SUFFICES ASSUME AccountInv, AccountInv', SettledInv, [Next]_vars, sendFails' = 0
             PROVE  Reached(sent, coll)' /\ (phase' # "idle" => Reached(sent, work)')
  BY DEF SettledInv
<1>0. sent \in SentType /\ sendFails \in Nat
  BY LendingAssumption DEF AccountInv, TypeOK, SentType
<1>1. CASE BeginTx
  BY <1>1 DEF BeginTx, history, SettledInv, Reached
<1>2. ASSUME NEW i \in Instruction, RunInstr(i)
      PROVE  Reached(sent, coll)' /\ (phase' # "idle" => Reached(sent, work)')
  <2>1. /\ work' \in process(work, i, now) /\ IsAccount(work) /\ work.pending = << >>
        /\ now \in Times /\ sent' = sent /\ phase = "run" /\ coll' = coll
        /\ sendFails' = sendFails
    BY <1>2 DEF RunInstr, AccountInv, TypeOK, bounds
  <2>2. IsAccount(work') /\ QueuesWhatItDoes(work, work')
    BY <2>1, ProcessQueues
  <2>3. Reached(sent, work) /\ Reached(sent, coll)
    BY <2>1 DEF SettledInv
  <2>4. Reached(sent, work')
    BY <1>0, <2>1, <2>2, <2>3, InstrBalances
  <2> QED BY <2>1, <2>3, <2>4 DEF Reached
<1>3. ASSUME NEW i \in Instruction, InstrFails(i)
      PROVE  Reached(sent, coll)' /\ (phase' # "idle" => Reached(sent, work)')
  BY <1>3 DEF InstrFails, DiscardTx, bounds, SettledInv, Reached
<1>4. ASSUME NEW ok \in BOOLEAN, Settle(ok)
      PROVE  Reached(sent, coll)' /\ (phase' # "idle" => Reached(sent, work)')
  <2>1. ok /\ sendFails = 0 /\ phase = "settle"
    BY <1>0, <1>4 DEF Settle
  <2>2. Reached(sent', coll') /\ Reached(sent', work')
    BY <1>4, <2>1, SettleBalances DEF SettledInv
  <2> QED BY <2>2 DEF Reached
<1>5. CASE EndSettle
  BY <1>5 DEF EndSettle, bounds, SettledInv, Reached
<1>6. CASE CommitTx
  BY <1>6 DEF CommitTx, bounds, SettledInv, Reached
<1>7. CASE AbortTx
  BY <1>7 DEF AbortTx, DiscardTx, SettledInv, Reached
<1>8. CASE UNCHANGED vars
  BY <1>8 DEF vars, bounds, SettledInv, Reached
<1> QED BY <1>1, <1>2, <1>3, <1>4, <1>5, <1>6, <1>7, <1>8 DEF Next

\* Between transactions no inscription has moved more often than a saved loan on
\* it was closed and no lender was paid more sats than were repaid, unless a
\* transaction failed after one of its instructions was settled: settle_lending
\* sends before the save.
THEOREM OnlyCommittedSent == Spec => []SendsWhatWasCommitted
<1>1. Init => SendInv
  BY InitSent
<1>2. AccountInv /\ SendInv => SendsWhatWasCommitted
  <2> SUFFICES ASSUME AccountInv, SendInv, phase = "idle", ~torn, NEW i \in Inscriptions
               PROVE  sent.moves[i] <= Closed(coll, i) /\ sent.sats[i] <= coll.repaid[i]
    BY DEF SendsWhatWasCommitted
  <2>1. Moves(coll.pending, i) = 0 /\ Sats(coll.pending, i) = 0
    BY DEF AccountInv, Moves, Sats
  <2>2. sent.moves[i] \in Nat /\ sent.sats[i] \in Nat
    BY DEF AccountInv, TypeOK
  <2>3. sent.moves[i] + 0 <= Closed(coll, i) /\ sent.sats[i] + 0 <= coll.repaid[i]
    BY <2>1 DEF SendInv, Covers
  <2> QED BY <2>2, <2>3
<1> QED BY <1>1, <1>2, AccountsHold, StepSent, PTL DEF Spec

\* While the Bitcoin calls succeed every closed loan has moved its inscription
\* and every repayment has reached the lender, whatever transactions are rejected.
THEOREM NothingLeftUnsettled == Spec => []EverythingSettled
<1>1. Init => SettledInv
  BY InitSent
<1>2. AccountInv /\ SettledInv => EverythingSettled
  <2> SUFFICES ASSUME AccountInv, SettledInv, sendFails = 0, NEW i \in Inscriptions
               PROVE  sent.moves[i] >= Closed(coll, i) /\ sent.sats[i] >= coll.repaid[i]
    BY DEF EverythingSettled
  <2>1. Moves(coll.pending, i) = 0 /\ Sats(coll.pending, i) = 0
    BY DEF AccountInv, Moves, Sats
  <2>2. sent.moves[i] \in Nat /\ sent.sats[i] \in Nat
    BY DEF AccountInv, TypeOK
  <2>3. sent.moves[i] + 0 >= Closed(coll, i) /\ sent.sats[i] + 0 >= coll.repaid[i]
    BY <2>1 DEF SettledInv, Reached
  <2> QED BY <2>2, <2>3
<1> QED BY <1>1, <1>2, AccountsHold, StepSettled, PTL DEF Spec

-----------------------------------------------------------------------------
(***************************************************************************)
(* The replica.                                                            *)
(***************************************************************************)

\* Within a transaction the replica's copy is the primary's without its queue.
ReplicaInv ==
  ~tie => replica = coll /\ (phase # "idle" => rework = drain_lending(work))

LEMMA StepReplica == AccountInv /\ AccountInv' /\ ReplicaInv /\ [Next]_vars => ReplicaInv'
<1> SUFFICES ASSUME AccountInv, AccountInv', ReplicaInv, [Next]_vars, ~tie'
             PROVE  /\ replica' = coll'
                    /\ phase' # "idle" => rework' = drain_lending(work')
  BY DEF ReplicaInv, drain_lending
<1>0. phase # "settle" => drain_lending(work) = work
  BY Drained DEF AccountInv
<1>1. CASE BeginTx
  <2>1. rework' = replica /\ work' = coll /\ replica = coll
        /\ replica' = replica /\ coll' = coll
    BY <1>1 DEF BeginTx, history, ReplicaInv
  <2>2. drain_lending(coll) = coll
    BY Drained DEF AccountInv
  <2> QED BY <2>1, <2>2
<1>2. ASSUME NEW i \in Instruction, RunInstr(i)
      PROVE  replica' = coll' /\ rework' = drain_lending(work')
  <2>1. /\ phase = "run" /\ replica' = replica /\ coll' = coll
        /\ work' \in process(work, i, now)
    BY <1>2 DEF RunInstr
  <2>2. ~tie /\ ~(i.op = "accept" /\ Cardinality(BestBids(work.bids)) > 1)
    BY <1>2, Zenon DEF RunInstr
  <2>3. rework = work /\ replica = coll
    BY <1>0, <2>1, <2>2 DEF ReplicaInv
  <2>4. PICK r \in process(work, i, now) : rework' = drain_lending(r)
    BY <1>2, <2>1, <2>3, Zenon DEF RunInstr
  <2>5. r = work'
    BY <2>1, <2>2, ProcessDetermined DEF AccountInv
  <2> QED BY <2>1, <2>3, <2>4, <2>5
<1>3. ASSUME NEW i \in Instruction, InstrFails(i)
      PROVE  replica' = coll' /\ phase' = "idle"
  BY <1>3 DEF InstrFails, DiscardTx, ReplicaInv
<1>4. ASSUME NEW ok \in BOOLEAN, Settle(ok)
      PROVE  replica' = coll' /\ rework' = drain_lending(work')
  <2>1. /\ phase = "settle" /\ replica' = replica /\ coll' = coll /\ tie' = tie
        /\ rework' = rework /\ work' = [work EXCEPT !.pending = Tail(@)]
    BY <1>4 DEF Settle, history
  <2>2. drain_lending(work') = drain_lending(work)
    BY <2>1 DEF drain_lending, AccountInv, IsAccount, Account
  <2> QED BY <2>1, <2>2 DEF ReplicaInv
<1>5. CASE EndSettle
  BY <1>5 DEF EndSettle, history, ReplicaInv
<1>6. CASE CommitTx
  <2>1. /\ phase = "run" /\ coll' = work /\ replica' = rework /\ phase' = "idle"
        /\ tie' = tie
    BY <1>6 DEF CommitTx, history
  <2> QED BY <1>0, <2>1 DEF ReplicaInv
<1>7. CASE AbortTx
  BY <1>7 DEF AbortTx, DiscardTx, ReplicaInv
<1>8. CASE UNCHANGED vars
  BY <1>8 DEF vars, history, ReplicaInv
<1> QED BY <1>1, <1>2, <1>3, <1>4, <1>5, <1>6, <1>7, <1>8 DEF Next

\* Re-executing the saved transactions, without sending, leaves a replica with
\* the primary's account, until equal bids are chosen from a HashMap.
THEOREM LendingReplicaAgrees == Spec => []ReplicaAgrees
<1>1. Init => ReplicaInv
  BY DEF Init, ReplicaInv
<1>2. ReplicaInv => ReplicaAgrees
  BY DEF ReplicaInv, ReplicaAgrees
<1> QED BY <1>1, <1>2, AccountsHold, StepReplica, PTL DEF Spec

-----------------------------------------------------------------------------
(***************************************************************************)
(* The chain and the indexer.                                              *)
(***************************************************************************)

\* A transaction is never in the mempool and in a block.  What the last full poll
\* saw and is gone since was mined or evicted, and the history says which; a
\* mined one is noticed by the poll under way or by the next one, unless its
\* block came late or was swallowed.
ChainOK ==
  height \in Nat /\ last_height \in Nat /\ last_height <= height /\ mempool \cap mined = {}

PollOK ==
  /\ polling \in {"no", "advanced", "same"}
  /\ polling # "no" /\ "late" \notin window => height <= last_height
  /\ seen # {} /\ height > last_height => window \cap {"block", "late"} # {}
  /\ seen # {} /\ polling = "advanced" => window \cap {"block", "late", "swallowed"} # {}

SeenOK ==
  \A t \in seen :
    /\ t \in mempool \cup mined \/ "evicted" \in window
    /\ t \in mined => \/ window \cap {"late", "swallowed"} # {}
                      \/ polling = "no" /\ height > last_height
                      \/ polling = "advanced"

IndexerInv == ChainOK /\ PollOK /\ SeenOK

LEMMA IndexerStarts == BitcoinInit => IndexerInv
BY DEF BitcoinInit, IndexerInit, IndexerInv, ChainOK, PollOK, SeenOK

\* What a step of the chain does: something comes, goes or is mined.
LEMMA ArriveKeeps ==
  ASSUME IndexerInv, NEW t, Accepted(t), UNCHANGED <<height, mined, indexerVars, window>>
  PROVE  IndexerInv'
BY DEF Accepted, indexerVars, IndexerInv, ChainOK, PollOK, SeenOK

LEMMA MineKeeps ==
  ASSUME IndexerInv, NEW block \in SUBSET mempool, MineBlock(block)
  PROVE  IndexerInv'
<1>1. /\ height' = height + 1 /\ mempool' = mempool \ block /\ mined' = mined \cup block
      /\ last_height' = last_height /\ seen' = seen /\ polling' = polling
      /\ window' = window \cup {IF polling = "no" THEN "block" ELSE "late"}
  BY DEF MineBlock, indexerVars
<1>2. ChainOK'
  BY <1>1 DEF IndexerInv, ChainOK
<1>3. PollOK'
  BY <1>1 DEF IndexerInv, ChainOK, PollOK
<1>4. ASSUME NEW t \in seen'
      PROVE  /\ t \in mempool' \cup mined' \/ "evicted" \in window'
             /\ t \in mined' => \/ window' \cap {"late", "swallowed"} # {}
                                \/ polling' = "no" /\ height' > last_height'
                                \/ polling' = "advanced"
  <2>1. t \in mempool' \cup mined' \/ "evicted" \in window'
    BY <1>1, <1>4 DEF IndexerInv, SeenOK
  <2>2. CASE polling = "no"
    <3>1. t \in mined => window \cap {"late", "swallowed"} # {} \/ height > last_height
      BY <1>1, <1>4, <2>2 DEF IndexerInv, SeenOK
    <3> QED BY <1>1, <2>1, <2>2, <3>1 DEF IndexerInv, ChainOK
  <2>3. CASE polling # "no"
    BY <1>1, <2>1, <2>3
  <2> QED BY <2>2, <2>3
<1> QED BY <1>2, <1>3, <1>4 DEF IndexerInv, SeenOK

LEMMA EvictKeeps ==
  ASSUME IndexerInv, NEW t \in mempool, Evict(t)
  PROVE  IndexerInv'
BY DEF Evict, indexerVars, IndexerInv, ChainOK, PollOK, SeenOK

LEMMA PollHeightKeeps ==
  ASSUME IndexerInv, PollHeight
  PROVE  IndexerInv'
<1>1. /\ polling = "no" /\ UNCHANGED <<height, mempool, mined, seen, told, window>>
      /\ polling' = IF height > last_height THEN "advanced" ELSE "same"
      /\ last_height' = IF height > last_height THEN height ELSE last_height
  BY DEF PollHeight, tip_advanced, chainVars
<1>2. ChainOK'
  BY <1>1 DEF IndexerInv, ChainOK
<1>3. PollOK'
  BY <1>1 DEF IndexerInv, ChainOK, PollOK
<1>4. SeenOK'
  BY <1>1 DEF IndexerInv, ChainOK, SeenOK
<1> QED BY <1>2, <1>3, <1>4 DEF IndexerInv

LEMMA PollFailsKeeps ==
  ASSUME IndexerInv, PollFails
  PROVE  IndexerInv'
<1>1. /\ polling # "no" /\ polling' = "no"
      /\ UNCHANGED <<height, mempool, mined, last_height, seen, told>>
      /\ window' = window \cup (IF polling = "advanced" THEN {"swallowed"} ELSE {})
  BY DEF PollFails, chainVars
<1>2. ChainOK' /\ PollOK'
  BY <1>1 DEF IndexerInv, ChainOK, PollOK
<1>3. SeenOK'
  BY <1>1 DEF IndexerInv, SeenOK
<1> QED BY <1>2, <1>3 DEF IndexerInv

LEMMA PollMempoolKeeps ==
  ASSUME IndexerInv, PollMempool
  PROVE  IndexerInv'
<1>1. /\ polling # "no" /\ polling' = "no" /\ seen' = mempool
      /\ UNCHANGED <<height, mempool, mined, last_height>>
      /\ window' = IF "late" \in window THEN {"block"} ELSE {}
  BY DEF PollMempool, chainVars
<1>2. ChainOK' /\ PollOK'
  BY <1>1 DEF IndexerInv, ChainOK, PollOK
<1>3. SeenOK'
  BY <1>1 DEF IndexerInv, ChainOK, SeenOK
<1> QED BY <1>2, <1>3 DEF IndexerInv

LEMMA IndexerRestarts ==
  ASSUME IndexerInv, IndexerRestart
  PROVE  IndexerInv'
BY DEF IndexerRestart, chainVars, IndexerInv, ChainOK, PollOK, SeenOK

LEMMA IndexerSteps == IndexerInv /\ [BitcoinNext]_bitcoinVars => IndexerInv'
<1> SUFFICES ASSUME IndexerInv, [BitcoinNext]_bitcoinVars PROVE IndexerInv'
  OBVIOUS
<1>0. ASSUME UNCHANGED <<chainVars, indexerVars, window>> PROVE IndexerInv'
  BY <1>0 DEF chainVars, indexerVars, IndexerInv, ChainOK, PollOK, SeenOK
<1>1. CASE IndexerStep
  BY <1>1, ArriveKeeps, MineKeeps, EvictKeeps, PollHeightKeeps, PollFailsKeeps, PollMempoolKeeps
     DEF IndexerStep, Arrive
<1>2. CASE \E o \in Outputs, order \in {"display", "internal"}, belowFee \in BOOLEAN,
              rpc \in {"ok", "down", "lost"} : settle_lending(o, order, belowFee, rpc)
  <2>1. PICK o \in Outputs, order \in {"display", "internal"}, belowFee \in BOOLEAN,
             rpc \in {"ok", "down", "lost"} : settle_lending(o, order, belowFee, rpc)
    BY <1>2
  <2>2. /\ Accepted(Move(o)) \/ mempool' = mempool
        /\ UNCHANGED <<height, mined, indexerVars, window>>
    BY <2>1, Zenon DEF settle_lending
  <2>3. CASE mempool' = mempool
    BY <1>0, <2>2, <2>3 DEF chainVars
  <2> QED BY <2>2, <2>3, ArriveKeeps
<1>3. CASE IndexerRestart
  BY <1>3, IndexerRestarts
<1>4. CASE UNCHANGED bitcoinVars
  BY <1>0, <1>4 DEF bitcoinVars
<1> QED BY <1>0, <1>1, <1>2, <1>3, <1>4 DEF BitcoinNext

\* Subscribers are told what became of a transaction but for the races named
\* (poll_once, BitcoinIndexer), for any transactions, blocks and failing calls.
THEOREM FateTold == BitcoinSpec => EventsTellTheFate
<1> DEFINE Told(t) ==
      t \notin DOMAIN told \/ told'[t] # told[t] =>
         /\ told'[t] = "Confirmed" /\ t \notin mined =>
              "evicted" \in window /\ window \cap {"block", "late", "swallowed"} # {}
         /\ told'[t] = "Evicted" /\ t \in mined => window \cap {"late", "swallowed"} # {}
<1>1. IndexerInv /\ [BitcoinNext]_bitcoinVars => [\A t \in DOMAIN told' : Told(t)]_told
  <2> SUFFICES ASSUME IndexerInv, [BitcoinNext]_bitcoinVars, told' # told, NEW t \in DOMAIN told'
               PROVE  Told(t)
    OBVIOUS
  <2>1. CASE PollMempool
    <3> DEFINE changed == (mempool \ seen) \cup (seen \ mempool)
    <3>1. /\ told' = [x \in DOMAIN told \cup changed |->
                        IF x \in changed
                        THEN IF x \in mempool THEN "Seen"
                             ELSE IF polling = "advanced" THEN "Confirmed" ELSE "Evicted"
                        ELSE told[x]]
          /\ polling # "no"
      BY <2>1 DEF PollMempool
    <3>2. CASE t \notin changed
      BY <3>1, <3>2
    <3>3. CASE t \in mempool /\ t \in changed
      BY <3>1, <3>3
    <3>4. CASE t \in seen /\ t \notin mempool
      <4>1. told'[t] = IF polling = "advanced" THEN "Confirmed" ELSE "Evicted"
        BY <3>1, <3>4
      <4> QED BY <3>1, <3>4, <4>1 DEF IndexerInv, PollOK, SeenOK
    <3> QED BY <3>2, <3>3, <3>4
  <2>2. CASE IndexerRestart
    BY <2>2 DEF IndexerRestart
  <2>3. ~PollMempool /\ ~IndexerRestart => told' = told
    BY DEF BitcoinNext, IndexerStep, Arrive, MineBlock, Evict, PollHeight, PollFails, settle_lending,
           bitcoinVars, indexerVars
  <2> QED BY <2>1, <2>2, <2>3
<1> QED BY <1>1, IndexerStarts, IndexerSteps, PTL DEF BitcoinSpec, EventsTellTheFate

-----------------------------------------------------------------------------
(***************************************************************************)
(* Custody.                                                                *)
(***************************************************************************)

\* The first signers of the committee are enough.
LEMMA CommitteeCanSign == sign(take(signer_ids, THRESHOLD)) = "signature"
<1> DEFINE first == take(signer_ids, THRESHOLD)
<1>1. Total \in Nat /\ THRESHOLD \in 1 .. Total
  BY ThresholdAssumption
<1>2. signer_ids \in Seq(1 .. Total) /\ Len(signer_ids) = Total
  BY <1>1 DEF signer_ids
<1>3. first = SubSeq(signer_ids, 1, THRESHOLD)
  BY <1>1, <1>2 DEF take
<1>4. first = [i \in 1 .. THRESHOLD |-> i]
  BY <1>1, <1>2, <1>3 DEF signer_ids
<1>5. Len(first) = THRESHOLD /\ ToSet(first) = 1 .. THRESHOLD
  BY <1>1, <1>4 DEF ToSet
<1>6. ToSet(signer_ids) = 1 .. Total
  BY <1>1 DEF signer_ids, ToSet
<1>7. Cardinality(1 .. THRESHOLD) = THRESHOLD
  BY <1>1, FS_Interval
<1> HIDE DEF first
<1>8. EnoughCommitments(first)
  BY <1>1, <1>5, <1>7 DEF EnoughCommitments
<1>9. ToSet(first) \subseteq ToSet(signer_ids) /\ ~(Len(first) < THRESHOLD)
  BY <1>1, <1>5, <1>6
<1> QED BY <1>8, <1>9 DEF sign, first

\* An output that was not tried to settle is unspent.
CustodyInv ==
  /\ DOMAIN attempt = Outputs
  /\ \A o \in Outputs : attempt[o] = NotTried => Move(o) \notin mempool \cup mined
  /\ CustodyIsKept

LEMMA CustodyStarts == BitcoinInit => CustodyInv
BY DEF BitcoinInit, IndexerInit, CustodyInit, CustodyInv, CustodyIsKept, NotTried

LEMMA SettleKeeps ==
  ASSUME CustodyInv, NEW o \in Outputs, NEW order \in {"display", "internal"},
         NEW belowFee \in BOOLEAN, NEW rpc \in {"ok", "down", "lost"},
         settle_lending(o, order, belowFee, rpc)
  PROVE  CustodyInv'
<1> DEFINE goes == /\ rpc # "down" /\ Found(o, order) /\ ~belowFee
                   /\ IF custody THEN CommitteeSigns(o) ELSE WalletSigns(o)
           tried == [state |-> IF goes /\ rpc = "ok" THEN "sent" ELSE "failed",
                     excused |-> rpc # "ok" \/ order = "internal" \/ belowFee,
                     deposit |-> deposit[o], custodian |-> Custodian]
<1>1. /\ attempt[o] = NotTried /\ attempt' = [attempt EXCEPT ![o] = tried]
      /\ IF goes THEN Accepted(Move(o)) ELSE UNCHANGED mempool
      /\ mined' = mined
  BY DEF settle_lending
<1>2. ASSUME tried.state = "failed", ~tried.excused, tried.deposit # Nobody
      PROVE  tried.deposit # tried.custodian
  <2>1. rpc = "ok" /\ order = "display" /\ ~belowFee
    BY <1>2
  <2>2. ~goes
    BY <1>2, <2>1
  <2>3. Found(o, order)
    BY <1>1, <2>1 DEF CustodyInv, Found
  <2>4. ~(IF custody THEN CommitteeSigns(o) ELSE WalletSigns(o))
    BY <2>1, <2>2, <2>3
  <2>5. deposit[o] # Custodian
    BY <2>4, CommitteeCanSign DEF CommitteeSigns, WalletSigns, Custodian
  <2> QED BY <2>5
<1>3. tried # NotTried
  BY DEF NotTried
<1> HIDE DEF tried, goes
<1>4. DOMAIN attempt' = Outputs /\ attempt'[o] = tried
      /\ \A x \in Outputs \ {o} : attempt'[x] = attempt[x]
  BY <1>1 DEF CustodyInv
<1>5. \A x \in Outputs \ {o} : Move(x) # Move(o)
  BY DEF Move
<1>6. ASSUME NEW x \in Outputs, attempt'[x] = NotTried PROVE Move(x) \notin mempool' \cup mined'
  <2>1. x # o /\ Move(x) \notin mempool \cup mined
    BY <1>3, <1>4, <1>6 DEF CustodyInv
  <2> QED BY <1>1, <1>5, <2>1 DEF Accepted
<1>7. CustodyIsKept'
  BY <1>2, <1>4 DEF CustodyInv, CustodyIsKept
<1> QED BY <1>4, <1>6, <1>7 DEF CustodyInv, Move

LEMMA CustodySteps == CustodyInv /\ [BitcoinNext]_bitcoinVars => CustodyInv'
<1> SUFFICES ASSUME CustodyInv, [BitcoinNext]_bitcoinVars PROVE CustodyInv'
  OBVIOUS
<1>0. ASSUME attempt' = attempt,
             \A o \in Outputs : Move(o) \in mempool' \cup mined' => Move(o) \in mempool \cup mined
      PROVE  CustodyInv'
  BY <1>0 DEF CustodyInv, CustodyIsKept, Move
<1>1. CASE IndexerStep /\ UNCHANGED custodyVars
  <2>1. attempt' = attempt
    BY <1>1 DEF custodyVars
  <2>2. ASSUME NEW o \in Outputs, Move(o) \in mempool' \cup mined'
        PROVE  Move(o) \in mempool \cup mined
    <3>1. \A x : Other(x) # Move(o)
      BY DEF Other, Move
    <3> QED BY <1>1, <2>2, <3>1
            DEF IndexerStep, Arrive, Accepted, MineBlock, Evict, PollHeight, PollFails, PollMempool,
                chainVars
  <2> QED BY <1>0, <2>1, <2>2
<1>2. CASE \E o \in Outputs, order \in {"display", "internal"}, belowFee \in BOOLEAN,
              rpc \in {"ok", "down", "lost"} : settle_lending(o, order, belowFee, rpc)
  BY <1>2, SettleKeeps
<1>3. CASE \/ \E o \in Outputs : Deposit(o) /\ UNCHANGED <<chainVars, indexerVars, window>>
           \/ \E online \in Online, disruptive \in SUBSET (1 .. Total) :
                SignRobust(online, disruptive) /\ UNCHANGED <<chainVars, indexerVars, window>>
           \/ IndexerRestart /\ CustodyRestart
           \/ UNCHANGED bitcoinVars
  <2>1. attempt' = attempt /\ mempool' = mempool /\ mined' = mined
    BY <1>3 DEF Deposit, SignRobust, IndexerRestart, CustodyRestart, bitcoinVars, chainVars, custodyVars
  <2> QED BY <1>0, <2>1
<1> QED BY <1>1, <1>2, <1>3 DEF BitcoinNext

\* An inscription that the custodian of the moment can spend is sent on when its
\* loan ends, unless a call fails, the loan names the output in Bitcoin's own
\* order or its value is below the fee (CustodyIsKept; settle_lending,
\* settle_with_committee, transfer_utxo): the committee's first signers are always
\* enough, and the output is not spent before.
THEOREM CustodyKept == BitcoinSpec => []CustodyIsKept
<1>1. CustodyInv => CustodyIsKept
  BY DEF CustodyInv
<1> QED BY <1>1, CustodyStarts, CustodySteps, PTL DEF BitcoinSpec

-----------------------------------------------------------------------------
(***************************************************************************)
(* Robust signing: filter and then the rounds, by induction.               *)
(***************************************************************************)
Filters(h, s, S, n) ==
  h = [i \in 0 .. n |-> IF i = 0 THEN << >>
                        ELSE IF s[i] \in S THEN Append(h[i - 1], s[i]) ELSE h[i - 1]]

\* The recursion in filter has a solution.
LEMMA FiltersExists ==
  ASSUME NEW s, NEW S, NEW n \in Nat
  PROVE  \E h : Filters(h, s, S, n)
<1> DEFINE P == {k \in Nat : \E h : Filters(h, s, S, k)}
<1>1. ASSUME NEW k \in Nat, \A j \in 0 .. k - 1 : j \in P
      PROVE  k \in P
  <2>1. CASE k = 0
    <3>1. Filters([i \in 0 .. k |-> << >>], s, S, k)
      BY <2>1 DEF Filters
    <3> QED BY <3>1
  <2>2. CASE k # 0
    <3>1. PICK g : Filters(g, s, S, k - 1)
      <4>1. k - 1 \in 0 .. k - 1
        BY <2>2
      <4> QED BY <1>1, <4>1
    <3> DEFINE h == [i \in 0 .. k |-> IF i < k THEN g[i]
                                      ELSE IF s[i] \in S THEN Append(g[i - 1], s[i]) ELSE g[i - 1]]
    <3>2. ASSUME NEW i \in 0 .. k
          PROVE  h[i] = IF i = 0 THEN << >>
                        ELSE IF s[i] \in S THEN Append(h[i - 1], s[i]) ELSE h[i - 1]
      <4>1. \A j \in 0 .. k - 1 : g[j] = IF j = 0 THEN << >>
                                         ELSE IF s[j] \in S THEN Append(g[j - 1], s[j]) ELSE g[j - 1]
        BY <3>1 DEF Filters
      <4>2. i # 0 => h[i - 1] = g[i - 1]
        OBVIOUS
      <4>3. i < k => i \in 0 .. k - 1 /\ h[i] = g[i]
        OBVIOUS
      <4>4. CASE i < k
        BY <4>1, <4>2, <4>3, <4>4
      <4>5. CASE i = k
        BY <2>2, <4>2, <4>5
      <4> QED BY <4>4, <4>5
    <3>3. h = [i \in 0 .. k |-> h[i]]
      OBVIOUS
    <3> HIDE DEF h
    <3>4. Filters(h, s, S, k)
      BY <3>2, <3>3, Zenon DEF Filters
    <3> QED BY <3>4
  <2> QED BY <2>1, <2>2
<1> HIDE DEF P
<1>2. Nat \subseteq P
  BY <1>1, NatInductionSet
<1> QED BY <1>2 DEF P

\* What the first i places of s leave.
KeptOf(k, s, S, i) ==
  /\ k \in Seq(Nat) /\ Len(k) <= i
  /\ ToSet(k) = {s[j] : j \in 1 .. i} \cap S
  /\ IsInjective(s) => IsInjective(k)
  /\ (\E j \in 1 .. i : s[j] \notin S) => Len(k) < i

LEMMA KeptStep ==
  ASSUME NEW s \in Seq(Nat), NEW S, NEW i \in 1 .. Len(s), NEW k, KeptOf(k, s, S, i - 1)
  PROVE  KeptOf(IF s[i] \in S THEN Append(k, s[i]) ELSE k, s, S, i)
<1>0. /\ s[i] \in Nat /\ k \in Seq(Nat) /\ Len(k) \in Nat /\ Len(k) <= i - 1 /\ DOMAIN k = 1 .. Len(k)
      /\ DOMAIN s = 1 .. Len(s) /\ i \in Nat
  BY DEF KeptOf
<1>1. {s[j] : j \in 1 .. i} = {s[j] : j \in 1 .. i - 1} \cup {s[i]}
  <2>1. 1 .. i = (1 .. i - 1) \cup {i}
    OBVIOUS
  <2> QED BY <2>1
<1>2. CASE s[i] \notin S
  <2>1. ToSet(k) = {s[j] : j \in 1 .. i} \cap S
    BY <1>1, <1>2 DEF KeptOf
  <2>2. Len(k) <= i /\ Len(k) < i
    BY <1>0
  <2>3. KeptOf(k, s, S, i)
    BY <1>0, <2>1, <2>2 DEF KeptOf
  <2> QED BY <1>2, <2>3
<1>3. CASE s[i] \in S
  <2> DEFINE a == Append(k, s[i])
  <2>1. /\ a \in Seq(Nat) /\ Len(a) = Len(k) + 1
        /\ \A j \in 1 .. Len(a) : a[j] = IF j <= Len(k) THEN k[j] ELSE s[i]
        /\ DOMAIN a = 1 .. Len(k) + 1
    BY <1>0
  <2> HIDE DEF a
  <2>2. ToSet(a) = ToSet(k) \cup {s[i]}
    <3>1. ASSUME NEW x \in ToSet(a) PROVE x \in ToSet(k) \cup {s[i]}
      BY <1>0, <2>1 DEF ToSet
    <3>2. ASSUME NEW x \in ToSet(k) PROVE x \in ToSet(a)
      <4>1. PICK j \in DOMAIN k : x = k[j]
        BY DEF ToSet
      <4>2. j \in DOMAIN a /\ a[j] = x
        BY <1>0, <2>1, <4>1
      <4> QED BY <4>2 DEF ToSet
    <3>3. s[i] \in ToSet(a)
      <4>0. PICK j : j = Len(k) + 1
        OBVIOUS
      <4>1. j \in 1 .. Len(a) /\ ~(j <= Len(k)) /\ j \in DOMAIN a
        BY <1>0, <2>1, <4>0
      <4>2. a[j] = s[i]
        BY <2>1, <4>1
      <4> QED BY <4>1, <4>2 DEF ToSet
    <3> QED BY <3>1, <3>2, <3>3
  <2>3. ToSet(a) = {s[j] : j \in 1 .. i} \cap S
    BY <1>1, <1>3, <2>2 DEF KeptOf
  <2>4. IsInjective(s) => IsInjective(a)
    <3> SUFFICES ASSUME IsInjective(s) PROVE IsInjective(a)
      OBVIOUS
    <3>1. s[i] \notin ToSet(k)
      <4>1. ASSUME NEW j \in 1 .. i - 1 PROVE s[j] # s[i]
        <5>1. j \in DOMAIN s /\ i \in DOMAIN s /\ j # i
          BY <1>0
        <5> QED BY <5>1 DEF IsInjective
      <4> QED BY <4>1 DEF KeptOf
    <3>2. IsInjective(k)
      BY DEF KeptOf
    <3>3. ASSUME NEW x \in DOMAIN a, NEW y \in DOMAIN a, a[x] = a[y] PROVE x = y
      <4>1. x <= Len(k) => x \in DOMAIN k /\ a[x] = k[x] /\ k[x] \in ToSet(k)
        BY <1>0, <2>1 DEF ToSet
      <4>2. y <= Len(k) => y \in DOMAIN k /\ a[y] = k[y] /\ k[y] \in ToSet(k)
        BY <1>0, <2>1 DEF ToSet
      <4>3. (x > Len(k) => a[x] = s[i]) /\ (y > Len(k) => a[y] = s[i])
        BY <1>0, <2>1
      <4>4. x <= Len(k) <=> y <= Len(k)
        BY <1>0, <2>1, <3>1, <3>3, <4>1, <4>2, <4>3
      <4>5. CASE x <= Len(k)
        BY <3>2, <3>3, <4>1, <4>2, <4>4, <4>5 DEF IsInjective
      <4>6. CASE x > Len(k)
        BY <1>0, <2>1, <4>4, <4>6
      <4> QED BY <1>0, <2>1, <4>5, <4>6
    <3> QED BY <3>3 DEF IsInjective
  <2>5. (\E j \in 1 .. i : s[j] \notin S) => Len(a) < i
    <3> SUFFICES ASSUME NEW j \in 1 .. i, s[j] \notin S PROVE Len(a) < i
      OBVIOUS
    <3>1. j \in 1 .. i - 1
      BY <1>3
    <3> QED BY <1>0, <2>1, <3>1 DEF KeptOf
  <2>6. KeptOf(a, s, S, i)
    BY <1>0, <2>1, <2>3, <2>4, <2>5 DEF KeptOf
  <2> QED BY <1>3, <2>6 DEF a
<1> QED BY <1>2, <1>3

\* filter leaves what is in S and nothing else, each as often as before or never.
LEMMA FilterKeeps ==
  ASSUME NEW s \in Seq(Nat), NEW S
  PROVE  /\ filter(s, S) \in Seq(Nat)
         /\ ToSet(filter(s, S)) = ToSet(s) \cap S
         /\ IsInjective(s) => IsInjective(filter(s, S))
         /\ ~(ToSet(s) \subseteq S) => Len(filter(s, S)) < Len(s)
<1>0. Len(s) \in Nat /\ DOMAIN s = 1 .. Len(s)
  OBVIOUS
<1> DEFINE h == CHOOSE g : Filters(g, s, S, Len(s))
<1>1. Filters(h, s, S, Len(s))
  BY <1>0, FiltersExists
<1>2. filter(s, S) = h[Len(s)]
  BY DEF filter, Filters
<1> HIDE DEF h
<1> DEFINE P == {i \in Nat : i <= Len(s) => KeptOf(h[i], s, S, i)}
<1>3. ASSUME NEW i \in Nat, \A j \in 0 .. i - 1 : j \in P
      PROVE  i \in P
  <2> SUFFICES ASSUME i <= Len(s) PROVE KeptOf(h[i], s, S, i)
    OBVIOUS
  <2>0. i \in 0 .. Len(s)
    BY <1>0
  <2>1. h[i] = IF i = 0 THEN << >> ELSE IF s[i] \in S THEN Append(h[i - 1], s[i]) ELSE h[i - 1]
    BY <1>1, <2>0 DEF Filters
  <2>2. CASE i = 0
    <3>1. h[i] = << >> /\ 1 .. i = {}
      BY <2>1, <2>2
    <3> QED BY <2>2, <3>1 DEF KeptOf, ToSet, IsInjective
  <2>3. CASE i # 0
    <3>1. i - 1 \in 0 .. i - 1 /\ i - 1 <= Len(s) /\ i \in 1 .. Len(s)
      BY <1>0, <2>3
    <3>2. KeptOf(h[i - 1], s, S, i - 1)
      BY <1>3, <3>1
    <3> DEFINE k == h[i - 1]
    <3>3. KeptOf(k, s, S, i - 1) /\ h[i] = IF s[i] \in S THEN Append(k, s[i]) ELSE k
      BY <2>1, <2>3, <3>2
    <3> HIDE DEF k
    <3>4. KeptOf(IF s[i] \in S THEN Append(k, s[i]) ELSE k, s, S, i)
      BY <3>1, <3>3, KeptStep
    <3> QED BY <3>3, <3>4
  <2> QED BY <2>2, <2>3
<1> HIDE DEF P
<1>4. Nat \subseteq P
  BY <1>3, NatInductionSet
<1>5. KeptOf(h[Len(s)], s, S, Len(s))
  BY <1>0, <1>4 DEF P
<1>6. ToSet(s) = {s[j] : j \in 1 .. Len(s)}
  BY <1>0 DEF ToSet
<1>7. ~(ToSet(s) \subseteq S) => \E j \in 1 .. Len(s) : s[j] \notin S
  BY <1>6
<1> QED BY <1>2, <1>5, <1>6, <1>7 DEF KeptOf

-----------------------------------------------------------------------------
\* How a round with these candidates ends, if f says how the next one does.
Again(f, c, b) == {[o EXCEPT !.excluded = @ \cup {b}] : o \in f[retain(c, b)]}

Bad(c, disruptive) == ToSet(quorum_of(c)) \cap disruptive

Ends(f, c, disruptive) ==
  IF Len(c) < THRESHOLD THEN {[result |-> "RobustExhausted", excluded |-> {}]}
  ELSE IF ~EnoughCommitments(quorum_of(c)) THEN {[result |-> "Frost", excluded |-> {}]}
  ELSE IF Bad(c, disruptive) = {} THEN {[result |-> "signature", excluded |-> {}]}
  ELSE UNION {Again(f, c, b) : b \in Bad(c, disruptive)}

Shorter(c) == {e \in Seq(Nat) : Len(e) < Len(c)}
UpTo(n) == {c \in Seq(Nat) : Len(c) <= n}

\* f is how the rounds end with at most n candidates.
RoundsUpTo(f, d, n) == f = [c \in UpTo(n) |-> Ends(f, c, d)]

LEMMA QuorumIsFirst ==
  ASSUME NEW c \in Seq(Nat), Len(c) >= THRESHOLD
  PROVE  /\ quorum_of(c) \in Seq(Nat) /\ Len(quorum_of(c)) = THRESHOLD
         /\ \A i \in 1 .. THRESHOLD : quorum_of(c)[i] = c[i]
         /\ ToSet(quorum_of(c)) \subseteq ToSet(c)
<1>1. THRESHOLD \in Nat /\ THRESHOLD \in 1 .. Len(c) /\ Len(c) \in Nat /\ DOMAIN c = 1 .. Len(c)
  BY ThresholdAssumption
<1>2. quorum_of(c) = SubSeq(c, 1, THRESHOLD)
  BY <1>1 DEF quorum_of, take
<1>3. /\ quorum_of(c) \in Seq(Nat) /\ Len(quorum_of(c)) = THRESHOLD
      /\ \A i \in 1 .. THRESHOLD : quorum_of(c)[i] = c[i]
  BY <1>1, <1>2
<1>4. DOMAIN quorum_of(c) = 1 .. THRESHOLD
  BY <1>3
<1>5. ASSUME NEW i \in 1 .. THRESHOLD PROVE quorum_of(c)[i] = c[i] /\ i \in DOMAIN c
  BY <1>1, <1>3
<1> QED BY <1>3, <1>4, <1>5 DEF ToSet

\* A signer that is dropped was there: fewer are left.
LEMMA RetainShorter ==
  ASSUME NEW c \in Seq(Nat), NEW d, Len(c) >= THRESHOLD, NEW b \in Bad(c, d)
  PROVE  /\ retain(c, b) \in Shorter(c) /\ b \in d
         /\ ToSet(retain(c, b)) = ToSet(c) \ {b}
         /\ IsInjective(c) => IsInjective(retain(c, b))
<1>1. b \in ToSet(c) /\ b \in d
  BY QuorumIsFirst DEF Bad
<1> DEFINE S == ToSet(c) \ {b}
<1>2. ~(ToSet(c) \subseteq S) /\ ToSet(c) \cap S = ToSet(c) \ {b} /\ retain(c, b) = filter(c, S)
  BY <1>1 DEF retain
<1> HIDE DEF S
<1>3. /\ filter(c, S) \in Seq(Nat)
      /\ ToSet(filter(c, S)) = ToSet(c) \cap S
      /\ IsInjective(c) => IsInjective(filter(c, S))
      /\ Len(filter(c, S)) < Len(c)
  BY <1>2, FilterKeeps
<1> QED BY <1>1, <1>2, <1>3 DEF Shorter

\* The end of a round depends on rounds with fewer candidates only.
LEMMA EndsLocal ==
  ASSUME NEW c \in Seq(Nat), NEW d, NEW f, NEW g, \A e \in Shorter(c) : f[e] = g[e]
  PROVE  Ends(f, c, d) = Ends(g, c, d)
<1>1. CASE Len(c) < THRESHOLD
  BY <1>1 DEF Ends
<1>2. CASE ~(Len(c) < THRESHOLD)
  <2>1. Len(c) >= THRESHOLD
    BY <1>2, ThresholdAssumption
  <2>2. ASSUME NEW b \in Bad(c, d) PROVE Again(f, c, b) = Again(g, c, b)
    <3>1. f[retain(c, b)] = g[retain(c, b)]
      BY <2>1, RetainShorter
    <3> QED BY <3>1 DEF Again
  <2>3. {Again(f, c, b) : b \in Bad(c, d)} = {Again(g, c, b) : b \in Bad(c, d)}
    BY <2>2
  <2> QED BY <1>2, <2>3 DEF Ends
<1> QED BY <1>1, <1>2

\* The recursion of the rounds has solutions, and they agree.
LEMMA RoundsUpToExists ==
  ASSUME NEW d, NEW n \in Nat
  PROVE  \E f : RoundsUpTo(f, d, n)
<1> DEFINE P == {k \in Nat : \E f : RoundsUpTo(f, d, k)}
<1>1. ASSUME NEW k \in Nat, \A j \in 0 .. k - 1 : j \in P
      PROVE  k \in P
  <2>1. PICK g : k # 0 => RoundsUpTo(g, d, k - 1)
    <3>1. k # 0 => k - 1 \in 0 .. k - 1
      OBVIOUS
    <3> QED BY <1>1, <3>1
  <2> DEFINE h == [c \in UpTo(k) |-> Ends(g, c, d)]
  <2>2. ASSUME NEW c \in UpTo(k)
        PROVE  Ends(g, c, d) = Ends(h, c, d)
    <3>1. c \in Seq(Nat) /\ Len(c) <= k /\ Len(c) \in Nat
      BY DEF UpTo
    <3>2. ASSUME NEW e \in Shorter(c) PROVE g[e] = h[e]
      <4>1. e \in Seq(Nat) /\ Len(e) \in Nat /\ Len(e) < Len(c)
        BY DEF Shorter
      <4>2. k # 0 /\ e \in UpTo(k - 1) /\ e \in UpTo(k)
        BY <3>1, <4>1 DEF UpTo
      <4>3. g[e] = Ends(g, e, d)
        BY <2>1, <4>2 DEF RoundsUpTo
      <4> QED BY <4>2, <4>3
    <3> HIDE DEF h
    <3> QED BY <3>1, <3>2, EndsLocal
  <2>3. h = [c \in UpTo(k) |-> Ends(h, c, d)]
    BY <2>2
  <2> HIDE DEF h
  <2>4. RoundsUpTo(h, d, k)
    BY <2>3 DEF RoundsUpTo
  <2> QED BY <2>4
<1> HIDE DEF P
<1>2. Nat \subseteq P
  BY <1>1, NatInductionSet
<1> QED BY <1>2 DEF P

LEMMA RoundsAgree ==
  ASSUME NEW d, NEW m \in Nat, NEW n \in Nat, NEW f, NEW g,
         RoundsUpTo(f, d, m), RoundsUpTo(g, d, n)
  PROVE  \A c \in Seq(Nat) : Len(c) <= m /\ Len(c) <= n => f[c] = g[c]
<1> DEFINE P == {k \in Nat : \A c \in Seq(Nat) : Len(c) = k /\ k <= m /\ k <= n => f[c] = g[c]}
<1>1. ASSUME NEW k \in Nat, \A j \in 0 .. k - 1 : j \in P
      PROVE  k \in P
  <2> SUFFICES ASSUME NEW c \in Seq(Nat), Len(c) = k, k <= m, k <= n PROVE f[c] = g[c]
    OBVIOUS
  <2>1. ASSUME NEW e \in Shorter(c) PROVE f[e] = g[e]
    <3>1. e \in Seq(Nat) /\ Len(e) \in 0 .. k - 1 /\ Len(e) <= m /\ Len(e) <= n
      BY DEF Shorter
    <3>2. Len(e) \in P
      BY <1>1, <3>1
    <3> QED BY <3>1, <3>2
  <2>2. c \in UpTo(m) /\ c \in UpTo(n)
    BY DEF UpTo
  <2>3. f[c] = Ends(f, c, d) /\ g[c] = Ends(g, c, d)
    BY <2>2 DEF RoundsUpTo
  <2>4. Ends(f, c, d) = Ends(g, c, d)
    BY <2>1, EndsLocal
  <2> QED BY <2>3, <2>4
<1>2. Nat \subseteq P
  <2> HIDE DEF P
  <2> QED BY <1>1, NatInductionSet
<1>3. ASSUME NEW c \in Seq(Nat), Len(c) <= m, Len(c) <= n PROVE f[c] = g[c]
  <2>1. Len(c) \in P
    BY <1>2
  <2> QED BY <1>3, <2>1
<1> QED BY <1>3

\* The rounds end as their definition says.
LEMMA RoundsEquation ==
  ASSUME NEW d
  PROVE  \A c \in Seq(Nat) : Rounds(d)[c] = Ends(Rounds(d), c, d)
<1> DEFINE F(n) == CHOOSE f : RoundsUpTo(f, d, n)
           H == [c \in Seq(Nat) |-> F(Len(c))[c]]
<1>1. \A n \in Nat : RoundsUpTo(F(n), d, n)
  BY RoundsUpToExists
<1> HIDE DEF F
<1>2. ASSUME NEW c \in Seq(Nat) PROVE H[c] = Ends(H, c, d)
  <2>0. Len(c) \in Nat /\ c \in UpTo(Len(c))
    BY DEF UpTo
  <2>1. PICK g : g = F(Len(c)) /\ RoundsUpTo(g, d, Len(c))
    BY <1>1, <2>0
  <2>2. ASSUME NEW e \in Shorter(c) PROVE g[e] = H[e]
    <3>1. e \in Seq(Nat) /\ Len(e) \in Nat /\ Len(e) <= Len(c) /\ Len(e) <= Len(e)
      BY DEF Shorter
    <3>2. PICK f : f = F(Len(e)) /\ RoundsUpTo(f, d, Len(e))
      BY <1>1, <3>1
    <3>3. g[e] = f[e]
      BY <2>0, <2>1, <3>1, <3>2, RoundsAgree
    <3> QED BY <3>1, <3>2, <3>3
  <2>3. g[c] = Ends(g, c, d)
    BY <2>0, <2>1 DEF RoundsUpTo
  <2>4. H[c] = g[c]
    BY <2>1
  <2> HIDE DEF H
  <2>5. Ends(g, c, d) = Ends(H, c, d)
    BY <2>2, EndsLocal
  <2> QED BY <2>3, <2>4, <2>5
<1>3. H = [c \in Seq(Nat) |-> Ends(H, c, d)]
  BY <1>2
<1>4. Rounds(d) = CHOOSE f : f = [c \in Seq(Nat) |-> Ends(f, c, d)]
  BY DEF Rounds, Ends, Again, Bad
<1> HIDE DEF H
<1>5. Rounds(d) = [c \in Seq(Nat) |-> Ends(Rounds(d), c, d)]
  BY <1>3, <1>4
<1> QED BY <1>5

-----------------------------------------------------------------------------
\* A list names nobody twice if it has as many members as places.
LEMMA SetOfSeq ==
  ASSUME NEW s \in Seq(Nat)
  PROVE  /\ IsFiniteSet(ToSet(s)) /\ Cardinality(ToSet(s)) \in Nat
         /\ Cardinality(ToSet(s)) <= Len(s)
         /\ Cardinality(ToSet(s)) = Len(s) <=> IsInjective(s)
<1>0. Len(s) \in Nat /\ DOMAIN s = 1 .. Len(s)
  OBVIOUS
<1>1. /\ Len(s) \in Nat /\ DOMAIN s = 1 .. Len(s)
      /\ IsFiniteSet(1 .. Len(s)) /\ Cardinality(1 .. Len(s)) = Len(s)
  <2>1. 1 \in Int /\ Len(s) \in Int /\ (IF 1 > Len(s) THEN 0 ELSE Len(s) - 1 + 1) = Len(s)
    BY <1>0
  <2> QED BY <1>0, <2>1, FS_Interval
<1>2. s \in Surjection(1 .. Len(s), ToSet(s))
  BY <1>1 DEF Surjection, ToSet
<1>3. s \in Injection(1 .. Len(s), ToSet(s)) <=> IsInjective(s)
  BY <1>1, <1>2 DEF Injection, Surjection, IsInjective
<1>4. /\ IsFiniteSet(ToSet(s)) /\ Cardinality(ToSet(s)) <= Len(s)
      /\ Cardinality(ToSet(s)) = Len(s) <=> IsInjective(s)
  BY <1>1, <1>2, <1>3, FS_Surjection
<1> QED BY <1>4, FS_CardinalityType

\* With candidates c, o drops nobody honest and has a signature if enough are honest.
EndsWell(o, c, d) ==
  /\ o.excluded \subseteq d
  /\ o.result = "signature" <=> Cardinality(ToSet(c) \ d) >= THRESHOLD
  /\ o = [result |-> o.result, excluded |-> o.excluded]

\* A round ends well if every next one, with fewer candidates, does.
LEMMA RoundEndsWell ==
  ASSUME NEW c \in Seq(Nat), NEW d, NEW f, IsInjective(c),
         \A e \in Shorter(c) : IsInjective(e) => \A o \in f[e] : EndsWell(o, e, d)
  PROVE  \A o \in Ends(f, c, d) : EndsWell(o, c, d)
<1>0. /\ THRESHOLD \in Nat /\ Len(c) \in Nat
      /\ IsFiniteSet(ToSet(c)) /\ Cardinality(ToSet(c)) = Len(c)
  BY ThresholdAssumption, SetOfSeq
<1>1. /\ IsFiniteSet(ToSet(c) \ d) /\ Cardinality(ToSet(c) \ d) <= Cardinality(ToSet(c))
      /\ Cardinality(ToSet(c) \ d) \in Nat
  <2>1. ToSet(c) \ d \in SUBSET ToSet(c)
    OBVIOUS
  <2> QED BY <1>0, <2>1, FS_Subset, FS_CardinalityType
<1>2. CASE Len(c) < THRESHOLD
  <2>1. ~(Cardinality(ToSet(c) \ d) >= THRESHOLD)
    BY <1>0, <1>1, <1>2
  <2>2. Ends(f, c, d) = {[result |-> "RobustExhausted", excluded |-> {}]}
    BY <1>2 DEF Ends
  <2> QED BY <2>1, <2>2 DEF EndsWell
<1>3. CASE ~(Len(c) < THRESHOLD)
  <2>0. Len(c) >= THRESHOLD
    BY <1>0, <1>3
  <2> DEFINE q == quorum_of(c)
  <2>1. /\ q \in Seq(Nat) /\ Len(q) = THRESHOLD /\ ToSet(q) \subseteq ToSet(c)
        /\ \A i \in 1 .. THRESHOLD : q[i] = c[i]
    BY <2>0, QuorumIsFirst
  <2> HIDE DEF q
  <2>2. IsInjective(q)
    <3>1. /\ DOMAIN q = 1 .. THRESHOLD /\ DOMAIN c = 1 .. Len(c)
          /\ 1 .. THRESHOLD \subseteq 1 .. Len(c)
      BY <1>0, <2>0, <2>1
    <3> QED BY <2>1, <3>1 DEF IsInjective
  <2>3. Cardinality(ToSet(q)) = THRESHOLD
    BY <2>1, <2>2, SetOfSeq
  <2>4. EnoughCommitments(quorum_of(c))
    BY <1>0, <2>3 DEF EnoughCommitments, q
  <2>5. CASE Bad(c, d) = {}
    <3>1. ToSet(q) \in SUBSET (ToSet(c) \ d)
      BY <2>1, <2>5 DEF Bad, q
    <3>2. Cardinality(ToSet(c) \ d) >= THRESHOLD
      BY <1>0, <1>1, <2>3, <3>1, FS_Subset
    <3>3. Ends(f, c, d) = {[result |-> "signature", excluded |-> {}]}
      BY <1>3, <2>4, <2>5 DEF Ends
    <3> QED BY <3>2, <3>3 DEF EndsWell
  <2>6. CASE Bad(c, d) # {}
    <3> SUFFICES ASSUME NEW o \in Ends(f, c, d) PROVE EndsWell(o, c, d)
      OBVIOUS
    <3>1. PICK b \in Bad(c, d) : o \in Again(f, c, b)
      BY <1>3, <2>4, <2>6 DEF Ends
    <3>2. PICK e \in Shorter(c) : /\ e = retain(c, b) /\ IsInjective(e) /\ b \in d
                                  /\ ToSet(e) = ToSet(c) \ {b}
      BY <2>0, RetainShorter
    <3>3. PICK p \in f[e] : o = [p EXCEPT !.excluded = @ \cup {b}]
      BY <3>1, <3>2 DEF Again
    <3>4. EndsWell(p, e, d)
      BY <3>2, <3>3
    <3>5. ToSet(e) \ d = ToSet(c) \ d
      BY <3>2
    <3>6. o = [result |-> p.result, excluded |-> p.excluded \cup {b}]
      BY <3>3, <3>4 DEF EndsWell
    <3>7. o.result = p.result /\ o.excluded = p.excluded \cup {b}
      BY <3>6
    <3> QED BY <3>2, <3>4, <3>5, <3>6, <3>7 DEF EndsWell
  <2> QED BY <2>5, <2>6
<1> QED BY <1>2, <1>3

\* By induction on the number of candidates.
LEMMA RoundsEndWell ==
  ASSUME NEW d
  PROVE  \A c \in Seq(Nat) : IsInjective(c) => \A o \in Rounds(d)[c] : EndsWell(o, c, d)
<1> DEFINE P == {k \in Nat : \A c \in Seq(Nat) :
                   Len(c) = k /\ IsInjective(c) => \A o \in Rounds(d)[c] : EndsWell(o, c, d)}
<1>1. ASSUME NEW k \in Nat, \A j \in 0 .. k - 1 : j \in P
      PROVE  k \in P
  <2> SUFFICES ASSUME NEW c \in Seq(Nat), Len(c) = k, IsInjective(c)
               PROVE  \A o \in Rounds(d)[c] : EndsWell(o, c, d)
    OBVIOUS
  <2>1. ASSUME NEW e \in Shorter(c), IsInjective(e)
        PROVE  \A o \in Rounds(d)[e] : EndsWell(o, e, d)
    <3>1. e \in Seq(Nat) /\ Len(e) \in 0 .. k - 1
      BY DEF Shorter
    <3>2. Len(e) \in P
      BY <1>1, <3>1
    <3> QED BY <2>1, <3>1, <3>2
  <2>2. PICK f : f = Rounds(d)
    OBVIOUS
  <2>3. \A o \in Ends(f, c, d) : EndsWell(o, c, d)
    BY <2>1, <2>2, RoundEndsWell
  <2> QED BY <2>2, <2>3, RoundsEquation
<1>2. Nat \subseteq P
  <2> HIDE DEF P
  <2> QED BY <1>1, NatInductionSet
<1>3. ASSUME NEW c \in Seq(Nat), IsInjective(c) PROVE \A o \in Rounds(d)[c] : EndsWell(o, c, d)
  <2>1. Len(c) \in P
    BY <1>2
  <2> QED BY <1>3, <2>1
<1> QED BY <1>3

LEMMA SigningStep ==
  ASSUME NEW online \in Online, NEW disruptive \in SUBSET (1 .. Total), SignRobust(online, disruptive)
  PROVE  RobustSigning'
<1>0. online \in Seq(Nat)
  BY CustodyAssumption
<1> DEFINE few == Cardinality((ToSet(online) \cap 1 .. Total) \ disruptive)
<1>1. PICK o \in sign_robust(online, disruptive) :
        session' = [result |-> o.result, blamesHonest |-> ~(o.excluded \subseteq disruptive),
                    enough |-> few >= THRESHOLD, twice |-> Cardinality(ToSet(online)) < Len(online)]
  BY DEF SignRobust
<1> HIDE DEF few
<1>2. /\ session'.result = o.result /\ session'.blamesHonest = ~(o.excluded \subseteq disruptive)
      /\ session'.enough = (few >= THRESHOLD)
      /\ session'.twice = (Cardinality(ToSet(online)) < Len(online))
  BY <1>1
<1>3. ASSUME ~session'.twice
      PROVE  o.excluded \subseteq disruptive /\ (o.result = "signature" <=> few >= THRESHOLD)
  <2>1. Cardinality(ToSet(online)) = Len(online) /\ IsInjective(online)
    <3>1. Cardinality(ToSet(online)) \in Nat /\ Len(online) \in Nat
      BY <1>0, SetOfSeq
    <3>2. ~(Cardinality(ToSet(online)) < Len(online))
      BY <1>2, <1>3, Zenon
    <3> QED BY <1>0, <3>1, <3>2, SetOfSeq
  <2>2. ToSet(signer_ids) = 1 .. Total
    BY ThresholdAssumption DEF signer_ids, ToSet
  <2>3. PICK c : c = filter(online, ToSet(signer_ids))
    OBVIOUS
  <2>4. c \in Seq(Nat) /\ IsInjective(c) /\ ToSet(c) = ToSet(online) \cap 1 .. Total
    BY <1>0, <2>1, <2>2, <2>3, FilterKeeps
  <2>5. o \in Rounds(disruptive)[c]
    BY <1>1, <2>3 DEF sign_robust
  <2>6. EndsWell(o, c, disruptive)
    BY <2>4, <2>5, RoundsEndWell
  <2> QED BY <2>4, <2>6 DEF EndsWell, few
<1> QED BY <1>2, <1>3, Zenon DEF RobustSigning

LEMMA SigningSteps == RobustSigning /\ [BitcoinNext]_bitcoinVars => RobustSigning'
<1> SUFFICES ASSUME RobustSigning, [BitcoinNext]_bitcoinVars PROVE RobustSigning'
  OBVIOUS
<1>0. ASSUME session' = session PROVE RobustSigning'
  BY <1>0 DEF RobustSigning, NoSession
<1>1. CASE \E online \in Online, disruptive \in SUBSET (1 .. Total) : SignRobust(online, disruptive)
  BY <1>1, SigningStep
<1>2. CASE \E o \in Outputs : Deposit(o)
  BY <1>0, <1>2 DEF Deposit
<1>3. CASE \E o \in Outputs, order \in {"display", "internal"}, belowFee \in BOOLEAN,
              rpc \in {"ok", "down", "lost"} : settle_lending(o, order, belowFee, rpc)
  BY <1>0, <1>3 DEF settle_lending
<1>4. CASE UNCHANGED custodyVars \/ CustodyRestart \/ UNCHANGED bitcoinVars
  BY <1>0, <1>4 DEF custodyVars, bitcoinVars, CustodyRestart
<1> QED BY <1>1, <1>2, <1>3, <1>4 DEF BitcoinNext

\* RobustSigning: for every committee, list of signers and set of disruptive ones,
\* sign_robust makes a signature exactly if enough honest signers of the committee
\* are online, and drops nobody honest, whichever bad share the aggregator names.
THEOREM SigningIsRobust == BitcoinSpec => []RobustSigning
<1>1. BitcoinInit => RobustSigning
  BY DEF BitcoinInit, CustodyInit, RobustSigning
<1> QED BY <1>1, SigningSteps, PTL DEF BitcoinSpec
=============================================================================
