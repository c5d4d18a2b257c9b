------------------------------ MODULE Lending ------------------------------
(***************************************************************************)
(* The ordinals lending program and the node's settlement of its outcomes: *)
(* himsha-programs/lending, execution.rs (apply, settle_lending) and       *)
(* settlement.rs (the replica's drain).                                    *)
(*                                                                         *)
(* A transaction runs its instructions on a working copy of the            *)
(* collection; after each one the queued settlements are sent to Bitcoin,  *)
(* and only after the last one is the copy saved.  A replica re-executes   *)
(* what was saved and sends nothing.  Addresses are left out: a loan has   *)
(* one lender and one borrower.                                            *)
(***************************************************************************)
EXTENDS Integers, Sequences, FiniteSets, Functions

CONSTANTS Utxos,         \* keys of bids
          Inscriptions,
          Offers,        \* Offers[u]: loan values bid with u
          Rate,          \* interest_rate_bps of every bid
          Period,        \* loan_period of every bid
          Amounts,       \* amounts repaid
          Times,         \* timestamps the submitters choose
          MaxTxs,        \* bound: transactions
          MaxInstrs,     \* bound: lending instructions in a transaction
          MaxAborts,     \* bound: transactions that fail at their end
          MaxSendFails   \* bound: Bitcoin calls that fail

BPS == 10000

ASSUME LendingAssumption ==
  /\ {Rate, Period, MaxTxs, MaxInstrs, MaxAborts, MaxSendFails} \subseteq Nat
  /\ Offers \in [Utxos -> SUBSET Nat]
  /\ Amounts \subseteq Nat /\ Times \subseteq Nat

VARIABLES coll,      \* the saved collection account
          replica,   \* a follower's copy of it
          phase,     \* "idle", "run" or "settle"
          work,      \* the transaction's working copy
          rework,    \* the replica's working copy for the same transaction
          now,       \* the transaction's timestamp
          left,      \* instructions it may still run
          sent,      \* what went out to Bitcoin: moves and sats per inscription
          torn,      \* history: a transaction failed after settling something
          tie,       \* history: equal bids were chosen from
          txs, aborts, sendFails   \* counted against the bounds

history == <<torn, tie>>
bounds == <<txs, aborts, sendFails>>
vars == <<coll, replica, phase, work, rework, now, left, sent, history, bounds>>

Values == UNION {Offers[u] : u \in Utxos}
Bid  == [value : Values]
Loan == [value : Values, started_at : Times, repaid : Nat]
Settlement ==
  [kind : {"return", "seize"}, insc : Inscriptions]
    \cup [kind : {"repayment"}, insc : Inscriptions, amount : Nat]

\* The account: open bids, active loans, queued settlements; and, as history,
\* the loans ever opened and the sats ever repaid per inscription.
Collection(c) ==
  /\ DOMAIN c.bids \subseteq Utxos /\ \A u \in DOMAIN c.bids : c.bids[u] \in Bid
  /\ DOMAIN c.loans \subseteq Inscriptions
  /\ \A i \in DOMAIN c.loans : c.loans[i] \in Loan
  /\ c.pending \in Seq(Settlement)
  /\ c.opened \in [Inscriptions -> Nat] /\ c.repaid \in [Inscriptions -> Nat]

NewCollection ==
  [bids |-> << >>, loans |-> << >>, pending |-> << >>,
   opened |-> [i \in Inscriptions |-> 0], repaid |-> [i \in Inscriptions |-> 0]]

TypeOK ==
  /\ \A c \in {coll, replica, work, rework} : Collection(c)
  /\ phase \in {"idle", "run", "settle"}
  /\ now \in Times /\ left \in 0 .. MaxInstrs
  /\ sent \in [moves : [Inscriptions -> Nat], sats : [Inscriptions -> Nat]]
  /\ torn \in BOOLEAN /\ tie \in BOOLEAN
  /\ txs \in 0 .. MaxTxs /\ aborts \in 0 .. MaxAborts
  /\ sendFails \in 0 .. MaxSendFails

\* InitCollection has been executed.
Init ==
  /\ coll = NewCollection /\ replica = NewCollection
  /\ work = NewCollection /\ rework = NewCollection
  /\ phase = "idle" /\ left = 0
  /\ now \in Times
  /\ sent = [moves |-> [i \in Inscriptions |-> 0], sats |-> [i \in Inscriptions |-> 0]]
  /\ torn = FALSE /\ tie = FALSE
  /\ txs = 0 /\ aborts = 0 /\ sendFails = 0

-----------------------------------------------------------------------------
(***************************************************************************)
(* The program: each operator gives the collections the instruction may    *)
(* leave behind, none if it returns an error.                              *)
(***************************************************************************)

Put(f, k, v) == [j \in DOMAIN f \cup {k} |-> IF j = k THEN v ELSE f[j]]
Drop(f, k)   == Restrict(f, DOMAIN f \ {k})

repayment_due(value) == value + (value * Rate) \div BPS
Expired(loan, ts) ==
  (IF ts >= loan.started_at THEN ts - loan.started_at ELSE 0) > Period

PlaceBid(c, u, v) ==
  IF u \in DOMAIN c.bids THEN {} ELSE {[c EXCEPT !.bids = Put(@, u, [value |-> v])]}

CancelBid(c, u) ==
  IF u \in DOMAIN c.bids THEN {[c EXCEPT !.bids = Drop(@, u)]} ELSE {}

\* Equal bids are told apart by the iteration order of a HashMap, which differs
\* from process to process.
BestBids(bids) ==
  {u \in DOMAIN bids : \A w \in DOMAIN bids : bids[w].value <= bids[u].value}

AcceptBid(c, i, ts) ==
  IF i \in DOMAIN c.loans THEN {}
  ELSE {[c EXCEPT !.bids = Drop(@, u),
                  !.loans = Put(@, i, [value |-> c.bids[u].value, started_at |-> ts,
                                       repaid |-> 0]),
                  !.opened[i] = @ + 1] : u \in BestBids(c.bids)}

Repayment(i, a) == [kind |-> "repayment", insc |-> i, amount |-> a]
Return(i)       == [kind |-> "return", insc |-> i]
Seize(i)        == [kind |-> "seize", insc |-> i]

\* The payment that closes the loan is not forwarded.
RepayLoan_Mutant(c, i, a, ts) ==
  IF i \notin DOMAIN c.loans \/ a = 0 THEN {}
  ELSE IF Expired(c.loans[i], ts) THEN {}
  ELSE LET loan == [c.loans[i] EXCEPT !.repaid = @ + a]
           done == loan.repaid >= repayment_due(loan.value)
       IN {[c EXCEPT
              !.loans = IF done THEN Drop(@, i) ELSE Put(@, i, loan),
              !.pending = @ \o << IF done THEN Return(i) ELSE Repayment(i, a) >>,
              !.repaid[i] = @ + a]}

\* In time and not zero: the payment is queued for the lender, and with the last
\* one the inscription for the borrower.
RepayLoan(c, i, a, ts) ==
  IF i \notin DOMAIN c.loans \/ a = 0 THEN {}
  ELSE IF Expired(c.loans[i], ts) THEN {}
  ELSE LET loan == [c.loans[i] EXCEPT !.repaid = @ + a]
           done == loan.repaid >= repayment_due(loan.value)
       IN {[c EXCEPT
              !.loans = IF done THEN Drop(@, i) ELSE Put(@, i, loan),
              !.pending = @ \o << Repayment(i, a) >>
                            \o (IF done THEN << Return(i) >> ELSE << >>),
              !.repaid[i] = @ + a]}

ClaimDefault_Mutant(c, i, ts) ==
  IF i \notin DOMAIN c.loans THEN {}
  ELSE IF ~Expired(c.loans[i], ts) THEN {}
  ELSE {[c EXCEPT !.pending = Append(@, Seize(i))]}

ClaimDefault(c, i, ts) ==
  IF i \notin DOMAIN c.loans THEN {}
  ELSE IF ~Expired(c.loans[i], ts) THEN {}
  ELSE {[c EXCEPT !.loans = Drop(@, i), !.pending = Append(@, Seize(i))]}

\* The instructions, as what they do to a collection c at time ts.
Instruction ==
  {i \in [op : {"place"}, utxo : Utxos, value : Values] : i.value \in Offers[i.utxo]}
    \cup [op : {"cancel"}, utxo : Utxos]
    \cup [op : {"accept", "claim"}, insc : Inscriptions]
    \cup [op : {"repay"}, insc : Inscriptions, amount : Amounts]

process(c, i, ts) ==
  CASE i.op = "place"  -> PlaceBid(c, i.utxo, i.value)
    [] i.op = "cancel" -> CancelBid(c, i.utxo)
    [] i.op = "accept" -> AcceptBid(c, i.insc, ts)
    [] i.op = "repay"  -> RepayLoan(c, i.insc, i.amount, ts)
    [] i.op = "claim"  -> ClaimDefault(c, i.insc, ts)

-----------------------------------------------------------------------------
(***************************************************************************)
(* The node.                                                               *)
(***************************************************************************)

drain_lending_Mutant(c) == c

\* The replica empties the queue and sends nothing.
drain_lending(c) == [c EXCEPT !.pending = << >>]

BeginTx ==
  /\ phase = "idle" /\ txs < MaxTxs
  /\ txs' = txs + 1
  /\ phase' = "run"
  /\ now' \in Times
  /\ left' \in 1 .. MaxInstrs
  /\ work' = coll /\ rework' = replica
  /\ UNCHANGED <<coll, replica, sent, history, aborts, sendFails>>

\* The instruction succeeds here, and the replica will do the same with it later;
\* one it cannot execute leaves its copy as it was.
RunInstr(i) ==
  /\ phase = "run" /\ left > 0
  /\ work' \in process(work, i, now)
  /\ LET again == process(rework, i, now)
     IN IF again = {} THEN UNCHANGED rework
        ELSE \E r \in again : rework' = drain_lending(r)
  /\ phase' = "settle"
  /\ left' = left - 1
  /\ tie' = (tie \/ (i.op = "accept" /\ Cardinality(BestBids(work.bids)) > 1))
  /\ UNCHANGED <<coll, replica, now, sent, torn, bounds>>

Closed(c, i) == c.opened[i] - (IF i \in DOMAIN c.loans THEN 1 ELSE 0)

\* The transaction is rejected and its working copy dropped.
DiscardTx ==
  /\ phase' = "idle"
  /\ torn' = (torn \/ \E i \in Inscriptions :
                \/ Closed(work, i) # Closed(coll, i)
                \/ work.repaid[i] # coll.repaid[i])
  /\ UNCHANGED <<coll, replica, work, rework, now, left, sent, tie>>

\* The instruction fails and takes the transaction with it.
InstrFails(i) ==
  /\ phase = "run" /\ left > 0
  /\ process(work, i, now) = {}
  /\ DiscardTx
  /\ UNCHANGED bounds

\* take_settlements: each one is sent, or its error is logged.
Settle(ok) ==
  /\ phase = "settle" /\ work.pending # << >>
  /\ ok \/ sendFails < MaxSendFails
  /\ sendFails' = IF ok THEN sendFails ELSE sendFails + 1
  /\ LET s == Head(work.pending)
     IN sent' = IF ~ok THEN sent
                ELSE IF s.kind = "repayment"
                THEN [sent EXCEPT !.sats[s.insc] = @ + s.amount]
                ELSE [sent EXCEPT !.moves[s.insc] = @ + 1]
  /\ work' = [work EXCEPT !.pending = Tail(@)]
  /\ UNCHANGED <<coll, replica, phase, rework, now, left, history, txs, aborts>>

EndSettle ==
  /\ phase = "settle" /\ work.pending = << >>
  /\ phase' = "run"
  /\ UNCHANGED <<coll, replica, work, rework, now, left, sent, history, bounds>>

CommitTx ==
  /\ phase = "run"
  /\ coll' = work /\ replica' = rework
  /\ phase' = "idle"
  /\ UNCHANGED <<work, rework, now, left, sent, history, bounds>>

\* A later instruction of another program or the save at the end fails.
AbortTx ==
  /\ phase = "run" /\ aborts < MaxAborts
  /\ aborts' = aborts + 1
  /\ DiscardTx
  /\ UNCHANGED <<txs, sendFails>>

Next ==
  \/ BeginTx
  \/ \E i \in Instruction : RunInstr(i)
  \/ \E i \in Instruction : InstrFails(i)
  \/ \E ok \in BOOLEAN : Settle(ok)
  \/ EndSettle
  \/ CommitTx
  \/ AbortTx

Spec == Init /\ [][Next]_vars

-----------------------------------------------------------------------------
(***************************************************************************)
(* Properties, between transactions.                                       *)
(***************************************************************************)

\* Nothing goes out to Bitcoin that the saved loans do not account for: an
\* inscription moves at most once per closed loan and the lender gets no more
\* sats than were repaid (execution.rs: a transaction "either commits atomically
\* or not at all"), as long as no transaction fails after one of its instructions
\* closed a loan or took a repayment.
SendsWhatWasCommitted ==
  phase = "idle" /\ ~torn => \A i \in Inscriptions :
    sent.moves[i] <= Closed(coll, i) /\ sent.sats[i] <= coll.repaid[i]

\* Every closed loan has moved its inscription and every repayment has gone to
\* the lender (lending: settlements are "awaiting the node to move the actual
\* Bitcoin UTXOs"), whatever transactions fail, while the Bitcoin calls succeed.
EverythingSettled ==
  phase = "idle" /\ sendFails = 0 => \A i \in Inscriptions :
    sent.moves[i] >= Closed(coll, i) /\ sent.sats[i] >= coll.repaid[i]

\* Re-executing the saved transactions leads a replica to the same account
\* (follower.rs: it "independently re-derives every state transition"), through
\* rejected transactions and failing Bitcoin calls, until equal bids are chosen
\* from.
ReplicaAgrees == phase = "idle" /\ ~tie => replica = coll
=============================================================================
