----------------------------- MODULE TxPipeline -----------------------------
(***************************************************************************)
(* A transaction's way through the primary: the sendTransaction handler    *)
(* (main.rs), the bounded channel, the block producer (block_producer.rs)  *)
(* and the tables they keep in the database (state.rs).                    *)
(*                                                                         *)
(* Every database call is a transaction of its own and nothing spans two of*)
(* them, so concurrent sendTransaction calls and the producer interleave   *)
(* between any two calls.  The channel and the tasks are lost in a crash,  *)
(* the tables are not.  What a transaction does to the accounts is left    *)
(* out: executing it succeeds or fails, and `commits' records in order the *)
(* executions whose effects were saved (save_accounts_atomic).             *)
(***************************************************************************)
EXTENDS Integers, Sequences, SequencesExt, FiniteSets

CONSTANTS Txs,        \* transactions, each with its own txid
          Callers,    \* concurrent sendTransaction calls
          RefSlot,    \* RefSlot[t]: slot of the block t names as recent_blockhash
          MaxAge,     \* MAX_BLOCKHASH_AGE
          Capacity,   \* capacity of the pending channel
          MaxSubmits, \* bound: sendTransaction calls in a behaviour
          MaxCrashes, \* bound: crashes in a behaviour
          MaxFailures \* bound: database writes that fail in a behaviour

ASSUME PipelineAssumption ==
  /\ RefSlot \in [Txs -> Nat]
  /\ MaxAge \in Nat
  /\ Capacity \in Nat \ {0}
  /\ MaxSubmits \in Nat
  /\ MaxCrashes \in Nat
  /\ MaxFailures \in Nat

VARIABLES          \* the database
  slot,            \* META["slot"]
  blocks,          \* BLOCKS: blocks[s] for the slots that have one
  txIdx,           \* TX_IDX: txIdx[t] the slot t is indexed at, or NoSlot
  status           \* TX_STATUS: status[t]
VARIABLES          \* in memory
  queue,           \* the pending channel
  call,            \* call[c]: where handler c stands and the tx it carries
  producer,        \* where the block producer stands
  batch,           \* its transactions still to execute
  included,        \* its executed ones: to be put in the block, then indexed
  pslot            \* the slot it is producing
VARIABLES          \* observation and bounds
  commits,         \* history: every execution whose effects were saved
  raced,           \* history: transactions submitted while a call carried them
  submits,         \* sendTransaction calls so far
  crashes,         \* crashes so far
  failures         \* failed database writes so far

dbVars     == <<slot, blocks, txIdx, status>>
memVars    == <<queue, call, producer, batch, included, pslot>>
callVars   == <<raced, submits, crashes>>
boundVars  == <<callVars, failures>>
vars       == <<dbVars, memVars, commits, boundVars>>

NoSlot  == -1
Unknown == [kind |-> "unknown"]
Pending == [kind |-> "pending"]
Succeeded(s) == [kind |-> "succeeded", slot |-> s]
Failed(s)    == [kind |-> "failed", slot |-> s]
TxStatus == {Unknown, Pending} \cup [kind : {"succeeded", "failed"}, slot : Nat]
Idle    == [pc |-> "idle"]
Handler(p, t) == [pc |-> p, tx |-> t]
Handlers == {Idle} \cup {Handler(p, t) : p \in {"fresh", "accepted", "marked"},
                                         t \in Txs}

TypeOK ==
  /\ slot \in Nat
  /\ DOMAIN blocks \subseteq 0 .. slot
  /\ \A s \in DOMAIN blocks : blocks[s] \in Seq(Txs)
  /\ txIdx \in [Txs -> Nat \cup {NoSlot}]
  /\ status \in [Txs -> TxStatus]
  /\ queue \in Seq(Txs) /\ Len(queue) <= Capacity
  /\ call \in [Callers -> Handlers]
  /\ producer \in {"idle", "execute", "index", "mark"}
  /\ batch \in Seq(Txs)
  /\ included \in Seq(Txs)
  /\ pslot \in Nat
  /\ commits \in Seq(Txs)
  /\ submits \in 0 .. MaxSubmits
  /\ raced \subseteq Txs
  /\ crashes \in 0 .. MaxCrashes
  /\ failures \in 0 .. MaxFailures

\* A fresh node: the genesis block is seeded at slot 0.
Init ==
  /\ slot = 0
  /\ blocks = [s \in {0} |-> << >>]
  /\ txIdx = [t \in Txs |-> NoSlot]
  /\ status = [t \in Txs |-> Unknown]
  /\ queue = << >>
  /\ call = [c \in Callers |-> Idle]
  /\ producer = "idle"
  /\ batch = << >>
  /\ included = << >>
  /\ pslot = 0
  /\ commits = << >>
  /\ submits = 0
  /\ raced = {}
  /\ crashes = 0
  /\ failures = 0

-----------------------------------------------------------------------------
(***************************************************************************)
(* sendTransaction.                                                        *)
(***************************************************************************)

\* The slots whose blockhash a new transaction may still name.
recent_blockhashes == {s \in DOMAIN blocks : s >= slot - MaxAge /\ s <= slot}

\* Signature, chain id and blockhash are good and the index does not know the
\* transaction: the call goes on, otherwise it returns an error.
Submit(c, t) ==
  /\ call[c] = Idle /\ submits < MaxSubmits
  /\ submits' = submits + 1
  /\ call' = IF RefSlot[t] \in recent_blockhashes /\ txIdx[t] = NoSlot
             THEN [call EXCEPT ![c] = Handler("fresh", t)]
             ELSE call
  /\ raced' = IF \E d \in Callers : call[d] # Idle /\ call[d].tx = t
              THEN raced \cup {t} ELSE raced
  /\ UNCHANGED <<dbVars, queue, producer, batch, included, pslot, commits,
                 crashes, failures>>

CheckStatus_Mutant(c) ==
  /\ call[c].pc = "fresh"
  /\ LET t == call[c].tx
     IN call' = [call EXCEPT ![c] = Handler("accepted", t)]
  /\ UNCHANGED <<dbVars, queue, producer, batch, included, pslot, commits, boundVars>>

\* A pending or succeeded transaction is refused; any other is dry-run, which
\* writes nothing, and accepted if that succeeds.
CheckStatus(c) ==
  /\ call[c].pc = "fresh"
  /\ LET t == call[c].tx
     IN \/ /\ status[t].kind \notin {"pending", "succeeded"}
           /\ call' = [call EXCEPT ![c] = Handler("accepted", t)]
        \/ call' = [call EXCEPT ![c] = Idle]
  /\ UNCHANGED <<dbVars, queue, producer, batch, included, pslot, commits, boundVars>>

MarkPending(c) ==
  /\ call[c].pc = "accepted"
  /\ status' = [status EXCEPT ![call[c].tx] = Pending]
  /\ call' = [call EXCEPT ![c] = Handler("marked", @.tx)]
  /\ UNCHANGED <<slot, blocks, txIdx, queue, producer, batch, included, pslot,
                 commits, boundVars>>

\* The channel is bounded: the call waits while it is full.
Enqueue(c) ==
  /\ call[c].pc = "marked" /\ Len(queue) < Capacity
  /\ queue' = Append(queue, call[c].tx)
  /\ call' = [call EXCEPT ![c] = Idle]
  /\ UNCHANGED <<dbVars, producer, batch, included, pslot, commits, boundVars>>

-----------------------------------------------------------------------------
(***************************************************************************)
(* The block producer.                                                     *)
(***************************************************************************)

\* A write to the database, which may fail: the code logs that or not and
\* carries on.
Write(ok) ==
  /\ ok \/ failures < MaxFailures
  /\ failures' = IF ok THEN failures ELSE failures + 1

\* A tick with transactions waiting: take them all and open the next slot.
Drain(ok) ==
  /\ producer = "idle" /\ queue # << >>
  /\ Write(ok)
  /\ queue' = << >>
  /\ IF ok THEN /\ slot' = slot + 1
                /\ pslot' = slot + 1
                /\ batch' = queue
                /\ producer' = "execute"
           ELSE UNCHANGED <<slot, pslot, batch, producer>>
  /\ UNCHANGED <<blocks, txIdx, status, call, included, commits, callVars>>

ExecuteOk_Mutant ==
  /\ producer = "execute" /\ batch # << >>
  /\ commits' = Append(commits, Head(batch))
  /\ included' = <<Head(batch)>> \o included
  /\ batch' = Tail(batch)
  /\ UNCHANGED <<dbVars, queue, call, producer, pslot, boundVars>>

\* The next transaction executes and its effects are saved in one database
\* transaction.
ExecuteOk ==
  /\ producer = "execute" /\ batch # << >>
  /\ commits' = Append(commits, Head(batch))
  /\ included' = Append(included, Head(batch))
  /\ batch' = Tail(batch)
  /\ UNCHANGED <<dbVars, queue, call, producer, pslot, boundVars>>

mark_failed_unless_succeeded_Mutant(t) ==
  status' = IF txIdx[t] = NoSlot THEN status
            ELSE [status EXCEPT ![t] = Failed(pslot)]

\* mark_failed_unless_succeeded; only the producer ever records a success, so
\* its read and its write cannot be told from one step.
mark_failed_unless_succeeded(t) ==
  status' = IF status[t].kind = "succeeded" THEN status
            ELSE [status EXCEPT ![t] = Failed(pslot)]

\* The next transaction fails: it is left out of the block.
ExecuteErr(recorded) ==
  /\ producer = "execute" /\ batch # << >>
  /\ Write(recorded)
  /\ IF recorded THEN mark_failed_unless_succeeded(Head(batch))
                 ELSE UNCHANGED status
  /\ batch' = Tail(batch)
  /\ UNCHANGED <<slot, blocks, txIdx, queue, call, producer, included, pslot,
                 commits, callVars>>

SaveBlock_Mutant(ok) ==
  /\ producer = "execute" /\ batch = << >>
  /\ Write(ok)
  /\ UNCHANGED <<blocks, included>>
  /\ producer' = "index"
  /\ UNCHANGED <<slot, txIdx, status, queue, call, batch, pslot, commits, callVars>>

\* Every transaction has run: the block is written.  When that fails the
\* producer goes on to its next tick.
SaveBlock(ok) ==
  /\ producer = "execute" /\ batch = << >>
  /\ Write(ok)
  /\ IF ok THEN /\ blocks' = [s \in DOMAIN blocks \cup {pslot} |->
                                IF s = pslot THEN included ELSE blocks[s]]
                /\ producer' = "index"
                /\ UNCHANGED included
           ELSE /\ producer' = "idle"
                /\ included' = << >>
                /\ UNCHANGED blocks
  /\ UNCHANGED <<slot, txIdx, status, queue, call, batch, pslot, commits, callVars>>

\* index_transaction for the block's next transaction.
IndexTx(ok) ==
  /\ producer = "index" /\ included # << >>
  /\ Write(ok)
  /\ txIdx' = IF ok THEN [txIdx EXCEPT ![Head(included)] = pslot] ELSE txIdx
  /\ producer' = "mark"
  /\ UNCHANGED <<slot, blocks, status, queue, call, batch, included, pslot,
                 commits, callVars>>

MarkSucceeded_Mutant(ok) ==
  /\ producer = "mark"
  /\ Write(ok)
  /\ status' = IF ok THEN [status EXCEPT ![Head(included)] = Succeeded(slot - 1)]
                     ELSE status
  /\ included' = Tail(included)
  /\ producer' = "index"
  /\ UNCHANGED <<slot, blocks, txIdx, queue, call, batch, pslot, commits, callVars>>

\* ... and the record that it succeeded.
MarkSucceeded(ok) ==
  /\ producer = "mark"
  /\ Write(ok)
  /\ status' = IF ok THEN [status EXCEPT ![Head(included)] = Succeeded(pslot)]
                     ELSE status
  /\ included' = Tail(included)
  /\ producer' = "index"
  /\ UNCHANGED <<slot, blocks, txIdx, queue, call, batch, pslot, commits, callVars>>

\* The whole block is indexed.
EndBlock ==
  /\ producer = "index" /\ included = << >>
  /\ producer' = "idle"
  /\ UNCHANGED <<dbVars, queue, call, batch, included, pslot, commits, boundVars>>

-----------------------------------------------------------------------------
(***************************************************************************)
(* Faults.                                                                 *)
(***************************************************************************)

\* The process dies and starts again on the same database.
Crash ==
  /\ crashes < MaxCrashes
  /\ crashes' = crashes + 1
  /\ queue' = << >>
  /\ call' = [c \in Callers |-> Idle]
  /\ producer' = "idle"
  /\ batch' = << >>
  /\ included' = << >>
  /\ pslot' = 0
  /\ UNCHANGED <<dbVars, commits, raced, submits, failures>>

\* A write of sendTransaction fails: the error is discarded.
MarkPendingLost(c) ==
  /\ call[c].pc = "accepted"
  /\ Write(FALSE)
  /\ call' = [call EXCEPT ![c] = Handler("marked", @.tx)]
  /\ UNCHANGED <<dbVars, queue, producer, batch, included, pslot, commits, callVars>>

CallerStep(c) ==
  \/ CheckStatus(c)
  \/ MarkPending(c)
  \/ Enqueue(c)

ProducerStep ==
  \/ Drain(TRUE)
  \/ ExecuteOk
  \/ ExecuteErr(TRUE)
  \/ SaveBlock(TRUE)
  \/ IndexTx(TRUE)
  \/ MarkSucceeded(TRUE)
  \/ EndBlock

WriteFails ==
  \/ Drain(FALSE)
  \/ ExecuteErr(FALSE)
  \/ SaveBlock(FALSE)
  \/ IndexTx(FALSE)
  \/ MarkSucceeded(FALSE)
  \/ \E c \in Callers : MarkPendingLost(c)

Next ==
  \/ \E c \in Callers, t \in Txs : Submit(c, t)
  \/ \E c \in Callers : CallerStep(c)
  \/ ProducerStep
  \/ Crash
  \/ WriteFails

Spec == Init /\ [][Next]_vars

\* The runtime keeps polling the producer and every accepted call.
Fairness ==
  /\ WF_vars(ProducerStep)
  /\ \A c \in Callers : WF_vars(CallerStep(c))

FairSpec == Spec /\ Fairness

-----------------------------------------------------------------------------
(***************************************************************************)
(* Safety.                                                                 *)
(***************************************************************************)
InBlock(t, s) == s \in DOMAIN blocks /\ t \in ToSet(blocks[s])

\* An indexed transaction is found in the block its index names, whenever the
\* process crashes or a write fails: getProcessedTransaction relies on it.
IndexNamesItsBlock == \A t \in Txs : txIdx[t] # NoSlot => InBlock(t, txIdx[t])

\* A transaction reported as succeeded in a slot is in the block of that slot,
\* whenever the process crashes or a write fails (getSignatureStatus).
SuccessNamesItsBlock ==
  \A t \in Txs : status[t].kind = "succeeded" => InBlock(t, status[t].slot)

\* The transactions saved into the blocks, in order.
Chain == FlattenSeq([s \in 1 .. slot |-> IF s \in DOMAIN blocks THEN blocks[s]
                                         ELSE << >>])

\* While nothing fails, the blocks in order are exactly the executions the
\* primary committed, in the order it committed them, but for the block it is
\* working on: whoever re-executes the blocks repeats what the primary did.
BlocksReplayCommits ==
  crashes = 0 /\ failures = 0 =>
    commits = Chain \o (IF producer = "execute" THEN included ELSE << >>)

Count(t, s) == Cardinality({i \in DOMAIN s : s[i] = t})

\* What the de-duplication of sendTransaction achieves: through any crashes, a
\* transaction whose submissions never overlapped takes effect at most once as
\* long as no write failed.
AppliedOnceUnlessRaced ==
  failures = 0 => \A t \in Txs \ raced : Count(t, commits) <= 1

\* A transaction reported as succeeded stays so ("never downgrade one that
\* already Succeeded", mark_failed_unless_succeeded), through any crashes, unless
\* its submissions overlapped or a write failed.
SuccessStays ==
  [][\A t \in Txs \ raced' :
       failures' = 0 /\ status[t].kind = "succeeded" => status'[t] = status[t]]_vars

-----------------------------------------------------------------------------
(***************************************************************************)
(* Liveness.                                                               *)
(***************************************************************************)

\* A pending transaction is eventually reported as succeeded or failed ("never
\* a silent drop", the block producer's loop) unless the process crashes or a
\* write fails.
PendingResolves ==
  \A t \in Txs : (status[t].kind = "pending")
                   ~> (status[t].kind # "pending" \/ crashes + failures > 0)
=============================================================================
