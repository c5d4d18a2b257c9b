------------------------- MODULE TransactionProofs --------------------------
(***************************************************************************)
(* Proofs about a transaction's way through a node (TxPipeline) and about  *)
(* the way of each of its instructions through the runtime (Invocation).   *)
(*                                                                         *)
(* TxPipeline: for any number of transactions, callers and crashes and any *)
(* pattern of failing writes; the theorems are about Spec, whatever its    *)
(* bounds on crashes and failing writes.                                   *)
(*                                                                         *)
(* Invocation: for every depth, budget and cost of calls, any accounts of  *)
(* strangers and any number of departures from what builders make.         *)
(***************************************************************************)
EXTENDS TxPipeline, Invocation, InductionLemmas

-----------------------------------------------------------------------------
(***************************************************************************)
(* Sequences and call records.                                             *)
(***************************************************************************)

\* The first element of a sequence and the rest of it come from the sequence.
LEMMA HeadAndTail ==
  ASSUME NEW s \in Seq(Txs), s # << >>
  PROVE  /\ Head(s) \in Txs /\ Head(s) \in ToSet(s)
         /\ Tail(s) \in Seq(Txs) /\ ToSet(Tail(s)) \subseteq ToSet(s)
<1>1. Len(s) \in Nat /\ Len(s) > 0 /\ DOMAIN s = 1 .. Len(s)
  OBVIOUS
<1>2. Head(s) = s[1] /\ Head(s) \in Txs /\ Tail(s) \in Seq(Txs)
  BY <1>1
<1>3. \A i \in 1 .. Len(s) - 1 : Tail(s)[i] = s[i + 1]
  BY <1>1
<1>4. DOMAIN Tail(s) = 1 .. Len(s) - 1
  BY <1>1
<1> QED BY <1>1, <1>2, <1>3, <1>4 DEF ToSet

\* A call that is not idle carries a transaction.
LEMMA CallCarriesTx ==
  ASSUME NEW h \in Handlers, h.pc # "idle"
  PROVE  h.tx \in Txs /\ h.pc \in {"fresh", "accepted", "marked"}
BY DEF Handlers, Idle, Handler

\* The values a handler is set to are calls.
LEMMA HandlerTypes ==
  ASSUME NEW t \in Txs
  PROVE  /\ Idle \in Handlers /\ Handler("fresh", t) \in Handlers
         /\ Handler("accepted", t) \in Handlers /\ Handler("marked", t) \in Handlers
BY DEF Handlers

LEMMA StatusTypes ==
  ASSUME NEW s \in Nat
  PROVE  /\ Pending \in TxStatus /\ Unknown \in TxStatus
         /\ Succeeded(s) \in TxStatus /\ Failed(s) \in TxStatus
BY DEF TxStatus, Pending, Unknown, Succeeded, Failed

-----------------------------------------------------------------------------
(***************************************************************************)
(* The inductive invariant.  The two properties need to know which block   *)
(* the producer is writing: it is the newest slot, it has no block before  *)
(* it is saved, and what is left to be indexed is in it.                   *)
(***************************************************************************)
ProducerInv ==
  /\ producer # "idle" => pslot = slot
  /\ producer = "execute" => pslot \notin DOMAIN blocks
  /\ producer \in {"index", "mark"} =>
       pslot \in DOMAIN blocks /\ ToSet(included) \subseteq ToSet(blocks[pslot])
  /\ producer = "mark" => included # << >>

Inv == TypeOK /\ ProducerInv /\ IndexNamesItsBlock /\ SuccessNamesItsBlock

LEMMA InitInv == Init => Inv
<1> SUFFICES ASSUME Init PROVE Inv
  OBVIOUS
<1> USE PipelineAssumption DEF Init
<1>1. TypeOK
  BY DEF TypeOK, TxStatus, Handlers
<1>2. ProducerInv
  BY DEF ProducerInv
<1>3. IndexNamesItsBlock /\ SuccessNamesItsBlock
  BY DEF IndexNamesItsBlock, SuccessNamesItsBlock, Unknown, NoSlot
<1> QED BY <1>1, <1>2, <1>3 DEF Inv

\* A step that leaves blocks, index and statuses alone keeps what they say.
LEMMA TablesUnchanged ==
  ASSUME IndexNamesItsBlock, SuccessNamesItsBlock, UNCHANGED <<blocks, txIdx, status>>
  PROVE  IndexNamesItsBlock' /\ SuccessNamesItsBlock'
BY DEF IndexNamesItsBlock, SuccessNamesItsBlock, InBlock

LEMMA CallerInv ==
  ASSUME Inv, NEW c \in Callers,
         (\E t \in Txs : Submit(c, t)) \/ CallerStep(c) \/ MarkPendingLost(c)
  PROVE  Inv'
<1> USE PipelineAssumption DEF Inv
<1>0. call[c] \in Handlers
  BY DEF TypeOK
<1>1. ASSUME NEW t \in Txs, Submit(c, t) PROVE Inv'
  <2>1. call' \in [Callers -> Handlers]
    BY <1>1, HandlerTypes DEF Submit, TypeOK
  <2> QED BY <1>1, <2>1, TablesUnchanged DEF Submit, dbVars, TypeOK, ProducerInv
<1>2. CASE CheckStatus(c)
  <2>1. call[c].tx \in Txs
    BY <1>0, <1>2, CallCarriesTx DEF CheckStatus
  <2>2. call' \in [Callers -> Handlers]
    BY <1>2, <2>1, HandlerTypes DEF CheckStatus, TypeOK
  <2> QED BY <1>2, <2>2, TablesUnchanged
          DEF CheckStatus, dbVars, boundVars, callVars, TypeOK, ProducerInv
<1>3. CASE MarkPending(c)
  <2>1. call[c].tx \in Txs
    BY <1>0, <1>3, CallCarriesTx DEF MarkPending
  <2>2. call' \in [Callers -> Handlers] /\ status' \in [Txs -> TxStatus]
    BY <1>3, <2>1, HandlerTypes, StatusTypes DEF MarkPending, TypeOK
  <2>3. IndexNamesItsBlock' /\ SuccessNamesItsBlock'
    BY <1>3, <2>1
       DEF MarkPending, IndexNamesItsBlock, SuccessNamesItsBlock, InBlock,
           Pending, TypeOK
  <2> QED BY <1>3, <2>2, <2>3 DEF MarkPending, boundVars, callVars, TypeOK, ProducerInv
<1>4. CASE Enqueue(c)
  <2>1. call[c].tx \in Txs
    BY <1>0, <1>4, CallCarriesTx DEF Enqueue
  <2>2. call' \in [Callers -> Handlers]
    BY <1>4, <2>1, HandlerTypes DEF Enqueue, TypeOK
  <2>3. queue' \in Seq(Txs) /\ Len(queue') <= Capacity
    BY <1>4, <2>1 DEF Enqueue, TypeOK
  <2> QED BY <1>4, <2>2, <2>3, TablesUnchanged
          DEF Enqueue, dbVars, boundVars, callVars, TypeOK, ProducerInv
<1>5. CASE MarkPendingLost(c)
  <2>1. call[c].tx \in Txs
    BY <1>0, <1>5, CallCarriesTx DEF MarkPendingLost
  <2>2. call' \in [Callers -> Handlers]
    BY <1>5, <2>1, HandlerTypes DEF MarkPendingLost, Write, TypeOK
  <2> QED BY <1>5, <2>2, TablesUnchanged
          DEF MarkPendingLost, Write, dbVars, boundVars, callVars, TypeOK, ProducerInv
<1> QED BY <1>1, <1>2, <1>3, <1>4, <1>5 DEF CallerStep

LEMMA ProducerStepInv ==
  ASSUME Inv, NEW ok \in BOOLEAN,
         \/ Drain(ok) \/ ExecuteOk \/ ExecuteErr(ok) \/ SaveBlock(ok)
         \/ IndexTx(ok) \/ MarkSucceeded(ok) \/ EndBlock
  PROVE  Inv'
<1> USE PipelineAssumption DEF Inv
<1>1. CASE Drain(ok)
  <2>1. slot + 1 \notin DOMAIN blocks
    BY DEF TypeOK
  <2>2. TypeOK'
    BY <1>1 DEF Drain, Write, boundVars, callVars, TypeOK
  <2>3. ProducerInv'
    BY <1>1, <2>1 DEF Drain, Write, ProducerInv
  <2> QED BY <1>1, <2>2, <2>3, TablesUnchanged DEF Drain
<1>2. CASE ExecuteOk
  <2>1. Head(batch) \in Txs /\ Tail(batch) \in Seq(Txs)
    BY <1>2, HeadAndTail DEF ExecuteOk, TypeOK
  <2>2. commits' \in Seq(Txs) /\ included' \in Seq(Txs) /\ batch' \in Seq(Txs)
    BY <1>2, <2>1 DEF ExecuteOk, TypeOK
  <2> QED BY <1>2, <2>2, TablesUnchanged
          DEF ExecuteOk, dbVars, boundVars, callVars, TypeOK, ProducerInv
<1>3. CASE ExecuteErr(ok)
  <2>1. Head(batch) \in Txs /\ Tail(batch) \in Seq(Txs)
    BY <1>3, HeadAndTail DEF ExecuteErr, Write, TypeOK
  <2>2. /\ status' \in [Txs -> TxStatus]
        /\ \A t \in Txs : status'[t].kind = "succeeded" => status'[t] = status[t]
    <3>1. \/ status' = status
          \/ status' = [status EXCEPT ![Head(batch)] = Failed(pslot)]
      BY <1>3 DEF ExecuteErr, Write, mark_failed_unless_succeeded
    <3>2. Failed(pslot) \in TxStatus /\ Failed(pslot).kind = "failed"
      BY StatusTypes DEF Failed, TypeOK
    <3> QED BY <2>1, <3>1, <3>2 DEF TypeOK
  <2>3. IndexNamesItsBlock' /\ SuccessNamesItsBlock'
    BY <1>3, <2>2
       DEF ExecuteErr, Write, IndexNamesItsBlock, SuccessNamesItsBlock, InBlock
  <2> QED BY <1>3, <2>1, <2>2, <2>3 DEF ExecuteErr, Write, boundVars, callVars, TypeOK, ProducerInv
<1>4. CASE SaveBlock(ok)
  <2>1. CASE ok
    <3>1. /\ blocks' = [s \in DOMAIN blocks \cup {pslot} |->
                          IF s = pslot THEN included ELSE blocks[s]]
          /\ producer = "execute" /\ producer' = "index" /\ included' = included
      BY <1>4, <2>1 DEF SaveBlock
    <3>2. /\ pslot = slot /\ pslot \notin DOMAIN blocks
          /\ DOMAIN blocks' = DOMAIN blocks \cup {pslot}
          /\ blocks'[pslot] = included
          /\ \A s \in DOMAIN blocks : blocks'[s] = blocks[s]
      BY <3>1 DEF ProducerInv
    <3>3. TypeOK'
      BY <1>4, <3>1, <3>2 DEF SaveBlock, Write, boundVars, callVars, TypeOK
    <3>4. ProducerInv'
      BY <1>4, <3>1, <3>2 DEF SaveBlock, Write, ProducerInv
    <3>5. IndexNamesItsBlock' /\ SuccessNamesItsBlock'
      BY <1>4, <3>2
         DEF SaveBlock, Write, IndexNamesItsBlock, SuccessNamesItsBlock, InBlock
    <3> QED BY <3>3, <3>4, <3>5
  <2>2. CASE ~ok
    BY <1>4, <2>2, TablesUnchanged DEF SaveBlock, Write, boundVars, callVars, TypeOK, ProducerInv
  <2> QED BY <2>1, <2>2
<1>5. CASE IndexTx(ok)
  <2>1. Head(included) \in Txs /\ InBlock(Head(included), pslot)
    BY <1>5, HeadAndTail DEF IndexTx, Write, ProducerInv, TypeOK, InBlock
  <2>2. TypeOK' /\ ProducerInv'
    BY <1>5, <2>1 DEF IndexTx, Write, boundVars, callVars, TypeOK, ProducerInv
  <2>3. \A t \in Txs : txIdx'[t] \in {txIdx[t], pslot}
                       /\ (txIdx'[t] # txIdx[t] => t = Head(included) /\ txIdx'[t] = pslot)
    BY <1>5 DEF IndexTx, Write, TypeOK
  <2>4. IndexNamesItsBlock' /\ SuccessNamesItsBlock'
    BY <1>5, <2>1, <2>3
       DEF IndexTx, Write, IndexNamesItsBlock, SuccessNamesItsBlock, InBlock
  <2> QED BY <2>2, <2>4
<1>6. CASE MarkSucceeded(ok)
  <2>1. /\ Head(included) \in Txs /\ InBlock(Head(included), pslot)
        /\ Tail(included) \in Seq(Txs)
        /\ ToSet(Tail(included)) \subseteq ToSet(included)
    BY <1>6, HeadAndTail DEF MarkSucceeded, Write, ProducerInv, TypeOK, InBlock
  <2>2. /\ status' \in [Txs -> TxStatus]
        /\ \A t \in Txs : \/ status'[t] = status[t]
                          \/ t = Head(included) /\ status'[t] = Succeeded(pslot)
    BY <1>6, <2>1, StatusTypes DEF MarkSucceeded, Write, TypeOK
  <2>3. TypeOK' /\ ProducerInv'
    BY <1>6, <2>1, <2>2 DEF MarkSucceeded, Write, boundVars, callVars, TypeOK, ProducerInv
  <2>4. IndexNamesItsBlock' /\ SuccessNamesItsBlock'
    BY <1>6, <2>1, <2>2
       DEF MarkSucceeded, Write, IndexNamesItsBlock, SuccessNamesItsBlock, InBlock, Succeeded
  <2> QED BY <2>3, <2>4
<1>7. CASE EndBlock
  BY <1>7, TablesUnchanged DEF EndBlock, dbVars, boundVars, callVars, TypeOK, ProducerInv
<1> QED BY <1>1, <1>2, <1>3, <1>4, <1>5, <1>6, <1>7

LEMMA InvStep == Inv /\ [Next]_vars => Inv'
<1> SUFFICES ASSUME Inv, [Next]_vars PROVE Inv'
  OBVIOUS
<1>1. CASE Crash
  <2>1. call' \in [Callers -> Handlers]
    BY <1>1 DEF Crash, Handlers
  <2> QED BY <1>1, <2>1, PipelineAssumption, TablesUnchanged
          DEF Crash, dbVars, TypeOK, ProducerInv, Inv
<1>2. CASE UNCHANGED vars
  BY <1>2, TablesUnchanged
     DEF vars, dbVars, memVars, boundVars, callVars, Inv, TypeOK, ProducerInv
<1> QED BY <1>1, <1>2, CallerInv, ProducerStepInv
        DEF Next, ProducerStep, WriteFails

LEMMA InvHolds == Spec => []Inv
BY InitInv, InvStep, PTL DEF Spec

\* The state stays well-typed through crashes and failing writes; no slot
\* beyond the current one has a block and the channel keeps its capacity.
THEOREM TypeCorrect == Spec => []TypeOK
BY InvHolds, PTL DEF Inv

\* At any time, after any crash and any failed write, an indexed transaction is
\* in the block its index names (index_transaction, getProcessedTransaction).
THEOREM IndexSound == Spec => []IndexNamesItsBlock
BY InvHolds, PTL DEF Inv

\* At any time, after any crash and any failed write, a transaction reported as
\* succeeded is in the block of the reported slot (getSignatureStatus).
THEOREM SuccessSound == Spec => []SuccessNamesItsBlock
BY InvHolds, PTL DEF Inv

-----------------------------------------------------------------------------
(***************************************************************************)
(* The blocks repeat the commits.  The step that opens a slot adds an      *)
(* empty part to the chain, the one that saves its block fills that part.  *)
(***************************************************************************)
Part(s) == IF s \in DOMAIN blocks THEN blocks[s] ELSE << >>

ReplayInv ==
  /\ producer = "idle" => included = << >>
  /\ producer # "idle" => pslot \in 1 .. slot
  /\ BlocksReplayCommits


\* Appending sequences.
LEMMA Appending ==
  ASSUME NEW D, NEW s \in Seq(D), NEW t \in Seq(D)
  PROVE  s \o << >> = s /\ s \o t \in Seq(D)
OBVIOUS

LEMMA AppendAcross ==
  \A s, t \in Seq(Txs) : \A x \in Txs : Append(s \o t, x) = s \o Append(t, x)
<1> SUFFICES ASSUME NEW s \in Seq(Txs), NEW t \in Seq(Txs), NEW x \in Txs
             PROVE  Append(s \o t, x) = s \o Append(t, x)
  OBVIOUS
<1> QED OBVIOUS

LEMMA PartTyped ==
  ASSUME TypeOK, NEW s
  PROVE  Part(s) \in Seq(Txs)
BY DEF TypeOK, Part

LEMMA ChainParts ==
  ASSUME TypeOK
  PROVE  Chain = FlattenSeq([s \in 1 .. slot |-> Part(s)]) /\ Chain \in Seq(Txs)
<1> DEFINE T == [s \in 1 .. slot |-> Part(s)]
           S == [s \in 1 .. slot + 1 |-> Part(s)]
<1>1. Chain = FlattenSeq(T)
  BY DEF Chain, Part
<1>2. slot \in Nat /\ T \in [1 .. slot -> Seq(Txs)] /\ S \in [1 .. slot + 1 -> Seq(Txs)]
  BY PartTyped DEF TypeOK
<1>3. Prefix(T, S, slot)
  BY <1>2 DEF Prefix
<1> HIDE DEF S, T
<1>4. FlattenSeq(T) \in Seq(Txs)
  BY <1>2, <1>3, FlattenLast
<1> QED BY <1>1, <1>4 DEF T

\* Opening a slot leaves the chain as it is.
LEMMA ChainOpens ==
  ASSUME TypeOK, TypeOK', slot' = slot + 1, blocks' = blocks
  PROVE  Chain' = Chain
<1> DEFINE T == [s \in 1 .. slot |-> Part(s)]
           S == [s \in 1 .. slot + 1 |-> Part(s)]
<1>1. slot \in Nat /\ T \in [1 .. slot -> Seq(Txs)] /\ S \in [1 .. slot + 1 -> Seq(Txs)]
  BY PartTyped DEF TypeOK
<1>2. Prefix(T, S, slot) /\ S[slot + 1] = << >>
  BY <1>1 DEF Prefix, Part, TypeOK
<1>3. Chain = FlattenSeq(T) /\ Chain \in Seq(Txs)
  BY ChainParts
<1>4. Chain' = FlattenSeq(S)
  BY DEF Chain, Part
<1> HIDE DEF S, T
<1>5. FlattenSeq(S) = FlattenSeq(T) \o S[slot + 1]
  BY <1>1, <1>2, FlattenLast
<1> QED BY <1>2, <1>3, <1>4, <1>5, Appending

\* Saving the block of the current slot appends it to the chain.
LEMMA ChainSaves ==
  ASSUME TypeOK, TypeOK', slot # 0, slot' = slot, slot \notin DOMAIN blocks,
         NEW b \in Seq(Txs),
         blocks' = [s \in DOMAIN blocks \cup {slot} |-> IF s = slot THEN b ELSE blocks[s]]
  PROVE  Chain' = Chain \o b
<1> DEFINE n == slot - 1
           T == [s \in 1 .. n |-> Part(s)]
           S == [s \in 1 .. n + 1 |-> Part(s)]
           R == [s \in 1 .. n + 1 |-> IF s = slot THEN b ELSE Part(s)]
<1>1. n \in Nat /\ n + 1 = slot
  BY DEF TypeOK
<1>2. /\ T \in [1 .. n -> Seq(Txs)] /\ S \in [1 .. n + 1 -> Seq(Txs)]
      /\ R \in [1 .. n + 1 -> Seq(Txs)]
  BY PartTyped
<1>3. Prefix(T, S, n) /\ Prefix(T, R, n) /\ S[n + 1] = << >> /\ R[n + 1] = b
  BY <1>1 DEF Prefix, Part
<1>4. Chain = FlattenSeq(S)
  BY <1>1, ChainParts
<1>5. Chain' = FlattenSeq(R)
  <2>1. \A s \in 1 .. slot : (IF s \in DOMAIN blocks' THEN blocks'[s] ELSE << >>)
                              = IF s = slot THEN b ELSE Part(s)
    BY DEF Part
  <2>2. Chain' = FlattenSeq([s \in 1 .. slot |-> IF s \in DOMAIN blocks' THEN blocks'[s]
                                                 ELSE << >>])
    BY DEF Chain
  <2> QED BY <1>1, <2>1, <2>2
<1> HIDE DEF S, T, R, n
<1>6. /\ FlattenSeq(S) = FlattenSeq(T) \o S[n + 1] /\ FlattenSeq(T) \in Seq(Txs)
      /\ FlattenSeq(R) = FlattenSeq(T) \o R[n + 1]
  BY <1>1, <1>2, <1>3, FlattenLast
<1> QED BY <1>3, <1>4, <1>5, <1>6, Appending

LEMMA ReplayInit == Init => ReplayInv
<1> SUFFICES ASSUME Init PROVE ReplayInv
  OBVIOUS
<1>1. Chain = << >>
  BY DEF Init, Chain, FlattenSeq
<1> QED BY <1>1 DEF Init, ReplayInv, BlocksReplayCommits

LEMMA ReplayStep == Inv /\ ReplayInv /\ [Next]_vars => ReplayInv'
<1> SUFFICES ASSUME Inv, ReplayInv, [Next]_vars PROVE ReplayInv'
  OBVIOUS
<1>0. TypeOK /\ TypeOK' /\ ProducerInv
  BY InvStep DEF Inv
<1>1. slot \in Nat /\ included \in Seq(Txs) /\ Chain \in Seq(Txs) /\ failures \in Nat
      /\ crashes \in Nat
  BY <1>0, ChainParts DEF TypeOK
<1>2. ASSUME UNCHANGED <<slot, blocks>> PROVE Chain' = Chain
  BY <1>2 DEF Chain
<1>3. CASE UNCHANGED vars
  BY <1>2, <1>3 DEF vars, dbVars, memVars, boundVars, callVars, ReplayInv, BlocksReplayCommits
<1>4. CASE Crash
  BY <1>1, <1>4 DEF Crash, ReplayInv, BlocksReplayCommits
<1>5. ASSUME NEW c \in Callers, NEW t \in Txs, Submit(c, t) PROVE ReplayInv'
  BY <1>2, <1>5 DEF Submit, dbVars, ReplayInv, BlocksReplayCommits
<1>6. ASSUME NEW c \in Callers, CallerStep(c) PROVE ReplayInv'
  BY <1>2, <1>6 DEF CallerStep, CheckStatus, MarkPending, Enqueue, dbVars, boundVars, callVars,
                    ReplayInv, BlocksReplayCommits
<1>7. ASSUME NEW c \in Callers, MarkPendingLost(c) PROVE ReplayInv'
  BY <1>1, <1>2, <1>7 DEF MarkPendingLost, Write, dbVars, callVars, ReplayInv, BlocksReplayCommits
<1>8. ASSUME NEW ok \in BOOLEAN, Drain(ok) PROVE ReplayInv'
  <2>1. CASE ok
    <3>1. Chain' = Chain
      BY <1>0, <1>8, <2>1, ChainOpens DEF Drain
    <3> QED BY <1>1, <1>8, <2>1, <3>1, Appending
            DEF Drain, Write, callVars, ReplayInv, BlocksReplayCommits
  <2>2. CASE ~ok
    BY <1>1, <1>8, <2>2 DEF Drain, Write, callVars, ReplayInv, BlocksReplayCommits
  <2> QED BY <2>1, <2>2
<1>9. CASE ExecuteOk
  <2>1. Head(batch) \in Txs
    BY <1>0, <1>9, HeadAndTail DEF ExecuteOk, TypeOK
  <2>2. Append(Chain \o included, Head(batch)) = Chain \o Append(included, Head(batch))
    <3> DEFINE x == Head(batch)
               c == Chain
    <3>1. x \in Txs /\ c \in Seq(Txs) /\ included \in Seq(Txs)
      BY <1>1, <2>1
    <3> HIDE DEF x, c
    <3>2. Append(c \o included, x) = c \o Append(included, x)
      BY <3>1, AppendAcross, Zenon
    <3> QED BY <3>2 DEF x, c
  <2> QED BY <1>2, <1>9, <2>2
          DEF ExecuteOk, dbVars, boundVars, callVars, ReplayInv, BlocksReplayCommits
<1>10. ASSUME NEW ok \in BOOLEAN, ExecuteErr(ok) PROVE ReplayInv'
  BY <1>1, <1>2, <1>10 DEF ExecuteErr, Write, callVars, ReplayInv, BlocksReplayCommits
<1>11. ASSUME NEW ok \in BOOLEAN, SaveBlock(ok) PROVE ReplayInv'
  <2>1. CASE ok
    <3>1. slot # 0 /\ pslot = slot /\ pslot \notin DOMAIN blocks /\ producer = "execute"
      BY <1>0, <1>1, <1>11 DEF SaveBlock, ProducerInv, ReplayInv
    <3>2. slot' = slot /\ blocks' = [s \in DOMAIN blocks \cup {slot} |->
                                       IF s = slot THEN included ELSE blocks[s]]
      BY <1>11, <2>1, <3>1 DEF SaveBlock
    <3>3. Chain' = Chain \o included /\ Chain' \in Seq(Txs)
      <4>1. Chain' = Chain \o included
        BY <1>0, <1>1, <3>1, <3>2, ChainSaves
      <4> QED BY <1>1, <4>1
    <3>4. Chain' \o << >> = Chain'
      BY <3>3, Appending
    <3> QED BY <1>11, <2>1, <3>1, <3>3, <3>4
            DEF SaveBlock, Write, callVars, ReplayInv, BlocksReplayCommits
  <2>2. CASE ~ok
    BY <1>1, <1>11, <2>2 DEF SaveBlock, Write, callVars, ReplayInv, BlocksReplayCommits
  <2> QED BY <2>1, <2>2
<1>12. ASSUME NEW ok \in BOOLEAN, IndexTx(ok) \/ MarkSucceeded(ok) PROVE ReplayInv'
  BY <1>1, <1>2, <1>12
     DEF IndexTx, MarkSucceeded, Write, callVars, ReplayInv, BlocksReplayCommits
<1>13. CASE EndBlock
  BY <1>2, <1>13 DEF EndBlock, dbVars, boundVars, callVars, ReplayInv, BlocksReplayCommits
<1> QED BY <1>3, <1>4, <1>5, <1>6, <1>7, <1>8, <1>9, <1>10, <1>11, <1>12, <1>13
        DEF Next, ProducerStep, WriteFails

\* While nothing fails the blocks, in order, are the executions the primary
\* committed, for any number of transactions, callers and blocks.
THEOREM BlocksReplay == Spec => []BlocksReplayCommits
<1>1. ReplayInv => BlocksReplayCommits
  BY DEF ReplayInv
<1> QED BY <1>1, ReplayInit, ReplayStep, InvHolds, PTL DEF Spec

-----------------------------------------------------------------------------
(***************************************************************************)
(* A transaction whose submissions never overlapped, while no write        *)
(* fails: it is in at most one place on its way to the commits, once, and  *)
(* its status says so.                                                     *)
(***************************************************************************)
AtMostOnce(t, s) == \A i, j \in DOMAIN s : s[i] = t /\ s[j] = t => i = j

Carries(c, t) == call[c].pc # "idle" /\ call[c].tx = t

Nowhere(t) == t \notin ToSet(queue) \cup ToSet(batch) \cup ToSet(included) \cup ToSet(commits)

CallsOf(t) ==
  /\ \A c, d \in Callers : Carries(c, t) /\ Carries(d, t) => c = d
  /\ \A c \in Callers : Carries(c, t) /\ call[c].pc = "accepted" =>
       status[t].kind \notin {"pending", "succeeded"}
  /\ \A c \in Callers : Carries(c, t) /\ call[c].pc = "marked" =>
       status[t].kind = "pending" /\ Nowhere(t)

PlacesOf(t) ==
  /\ AtMostOnce(t, queue) /\ AtMostOnce(t, batch)
  /\ AtMostOnce(t, included) /\ AtMostOnce(t, commits)
  /\ t \in ToSet(queue) => t \notin ToSet(batch)
  /\ t \in ToSet(queue) \cup ToSet(batch) =>
       status[t].kind = "pending" /\ t \notin ToSet(commits)
  /\ t \in ToSet(included) => status[t].kind = "pending" /\ t \in ToSet(commits)
  /\ t \in ToSet(commits) => status[t].kind \in {"pending", "succeeded"}

OnceInv == failures = 0 => \A t \in Txs \ raced : CallsOf(t) /\ PlacesOf(t)

LEMMA AppendOnce ==
  ASSUME NEW s \in Seq(Txs), NEW x \in Txs, NEW t \in Txs
  PROVE  /\ ToSet(Append(s, x)) = ToSet(s) \cup {x}
         /\ AtMostOnce(t, s) /\ (x = t => t \notin ToSet(s)) => AtMostOnce(t, Append(s, x))
<1>1. /\ Len(s) \in Nat /\ DOMAIN s = 1 .. Len(s) /\ DOMAIN Append(s, x) = 1 .. Len(s) + 1
      /\ \A i \in 1 .. Len(s) : Append(s, x)[i] = s[i]
      /\ Append(s, x)[Len(s) + 1] = x
  OBVIOUS
<1>2. \A i \in 1 .. Len(s) + 1 : i \in 1 .. Len(s) \/ i = Len(s) + 1
  BY <1>1
<1>3. 1 .. Len(s) \subseteq 1 .. Len(s) + 1 /\ Len(s) + 1 \in 1 .. Len(s) + 1
  BY <1>1
<1> DEFINE a == Append(s, x)
           n == Len(s)
           m == Len(s) + 1
<1>4. /\ DOMAIN s = 1 .. n /\ DOMAIN a = 1 .. m
      /\ \A i \in 1 .. n : a[i] = s[i]
      /\ a[m] = x /\ m \in 1 .. m
      /\ \A i \in 1 .. m : i \in 1 .. n \/ i = m
      /\ 1 .. n \subseteq 1 .. m
  BY <1>1, <1>2, <1>3
<1> HIDE DEF a, n, m
<1>5. ToSet(a) = ToSet(s) \cup {x}
  BY <1>4, Zenon DEF ToSet
<1>6. ASSUME AtMostOnce(t, s), x = t => t \notin ToSet(s) PROVE AtMostOnce(t, a)
  BY <1>4, <1>6, Zenon DEF ToSet, AtMostOnce
<1> QED BY <1>5, <1>6 DEF a

LEMMA TailOnce ==
  ASSUME NEW s \in Seq(Txs), s # << >>, NEW t \in Txs
  PROVE  /\ Head(s) \in Txs /\ Tail(s) \in Seq(Txs)
         /\ ToSet(s) = ToSet(Tail(s)) \cup {Head(s)}
         /\ AtMostOnce(t, s) => /\ AtMostOnce(t, Tail(s))
                                /\ Head(s) = t => t \notin ToSet(Tail(s))
<1> DEFINE a == Tail(s)
           n == Len(s)
<1>1. /\ n \in Nat /\ n > 0 /\ DOMAIN s = 1 .. n /\ Head(s) = s[1]
      /\ Head(s) \in Txs /\ Tail(s) \in Seq(Txs)
      /\ DOMAIN a = 1 .. n - 1 /\ \A i \in 1 .. n - 1 : a[i] = s[i + 1]
  OBVIOUS
<1> HIDE DEF a, n
<1>2. ToSet(s) = ToSet(a) \cup {Head(s)}
  <2>1. \A i \in 1 .. n : i = 1 \/ (i - 1 \in 1 .. n - 1 /\ (i - 1) + 1 = i)
    BY <1>1
  <2>2. \A i \in 1 .. n - 1 : i + 1 \in 1 .. n
    BY <1>1
  <2>3. 1 \in 1 .. n
    BY <1>1
  <2>4. ASSUME NEW i \in 1 .. n PROVE s[i] \in ToSet(a) \cup {Head(s)}
    <3>1. CASE i = 1
      BY <1>1, <3>1
    <3>2. CASE i - 1 \in 1 .. n - 1 /\ (i - 1) + 1 = i
      <4>1. a[i - 1] = s[i]
        BY <1>1, <3>2
      <4> QED BY <1>1, <3>2, <4>1 DEF ToSet
    <3> QED BY <2>1, <3>1, <3>2
  <2>5. ASSUME NEW i \in 1 .. n - 1 PROVE a[i] \in ToSet(s)
    BY <1>1, <2>2 DEF ToSet
  <2>6. Head(s) \in ToSet(s)
    BY <1>1, <2>3 DEF ToSet
  <2> QED BY <1>1, <2>4, <2>5, <2>6 DEF ToSet
<1>3. ASSUME AtMostOnce(t, s) PROVE AtMostOnce(t, a)
  <2> SUFFICES ASSUME NEW i \in 1 .. n - 1, NEW j \in 1 .. n - 1, a[i] = t, a[j] = t
               PROVE  i = j
    BY <1>1 DEF AtMostOnce
  <2>1. i + 1 \in 1 .. n /\ j + 1 \in 1 .. n /\ s[i + 1] = t /\ s[j + 1] = t
    BY <1>1
  <2>2. i + 1 = j + 1
    BY <1>1, <1>3, <2>1 DEF AtMostOnce
  <2> QED BY <1>1, <2>2
<1>4. ASSUME AtMostOnce(t, s), Head(s) = t PROVE t \notin ToSet(a)
  <2> SUFFICES ASSUME NEW i \in 1 .. n - 1, a[i] = t PROVE FALSE
    BY <1>1 DEF ToSet
  <2>1. i + 1 \in 1 .. n /\ 1 \in 1 .. n /\ s[i + 1] = t /\ s[1] = t /\ i + 1 # 1
    BY <1>1, <1>4
  <2> QED BY <1>1, <1>4, <2>1 DEF AtMostOnce
<1> QED BY <1>1, <1>2, <1>3, <1>4 DEF a

LEMMA EmptyOnce ==
  ASSUME NEW t
  PROVE  ToSet(<< >>) = {} /\ AtMostOnce(t, << >>)
BY DEF ToSet, AtMostOnce

\* A step that moves no transaction and writes no status.
LEMMA PlacesStay ==
  ASSUME NEW t, PlacesOf(t), UNCHANGED <<queue, batch, included, commits, status>>
  PROVE  PlacesOf(t)'
BY DEF PlacesOf, AtMostOnce

\* A failed write does not happen, and a submission of t while a call carries it
\* neither, in a step after which no write failed and t's did not overlap.
LEMMA OnceStepCaller ==
  ASSUME TypeOK, NEW t \in Txs, CallsOf(t), PlacesOf(t), t \notin raced', failures' = 0,
         NEW c \in Callers,
         (\E u \in Txs : Submit(c, u)) \/ CallerStep(c) \/ MarkPendingLost(c)
  PROVE  CallsOf(t)' /\ PlacesOf(t)'
<1>0. call[c] \in Handlers /\ failures \in Nat
  BY DEF TypeOK
<1>h. \A p, u : Handler(p, u).pc = p /\ Handler(p, u).tx = u /\ Idle.pc = "idle"
  BY DEF Handler, Idle
<1>1. ASSUME NEW u \in Txs, Submit(c, u) PROVE CallsOf(t)' /\ PlacesOf(t)'
  <2>1. PlacesOf(t)'
    BY <1>1, PlacesStay DEF Submit, dbVars
  <2>2. CASE call' = call
    BY <1>1, <2>1, <2>2 DEF Submit, dbVars, CallsOf, Carries, Nowhere
  <2>3. CASE call' = [call EXCEPT ![c] = Handler("fresh", u)]
    <3>1. /\ call'[c] = Handler("fresh", u)
          /\ \A d \in Callers \ {c} : call'[d] = call[d]
      BY <2>3 DEF TypeOK
    <3>2. u = t => \A d \in Callers : ~Carries(d, t)
      <4>1. ASSUME NEW d \in Callers, Carries(d, t), u = t PROVE FALSE
        <5>1. call[d] # Idle /\ call[d].tx = u
          BY <1>h, <4>1 DEF Carries
        <5> QED BY <1>1, <4>1, <5>1 DEF Submit
      <4> QED BY <4>1
    <3>3. \A d \in Callers \ {c} : Carries(d, t)' <=> Carries(d, t)
      BY <3>1 DEF Carries
    <3>4. Carries(c, t)' => u = t /\ call'[c].pc = "fresh"
      BY <1>h, <3>1 DEF Carries
    <3>5. UNCHANGED <<status, queue, batch, included, commits>>
      BY <1>1 DEF Submit, dbVars
    <3> QED BY <2>1, <3>1, <3>2, <3>3, <3>4, <3>5 DEF CallsOf, Nowhere
  <2> QED BY <1>1, <2>2, <2>3 DEF Submit
<1>2. CASE CheckStatus(c)
  <2>1. PlacesOf(t)'
    BY <1>2, PlacesStay DEF CheckStatus, dbVars
  <2>2. /\ \A d \in Callers \ {c} : call'[d] = call[d]
        /\ call[c].pc = "fresh"
        /\ \/ call'[c] = Idle
           \/ /\ call'[c] = Handler("accepted", call[c].tx)
              /\ status[call[c].tx].kind \notin {"pending", "succeeded"}
    BY <1>2 DEF CheckStatus, TypeOK
  <2>3. \A d \in Callers : Carries(d, t)' => Carries(d, t)
    BY <1>h, <2>2 DEF Carries
  <2>4. UNCHANGED <<status, queue, batch, included, commits>>
    BY <1>2 DEF CheckStatus, dbVars
  <2>5. Carries(c, t)' => /\ call'[c].pc = "accepted"
                          /\ status[t].kind \notin {"pending", "succeeded"}
    BY <1>h, <2>2 DEF Carries
  <2> QED BY <2>1, <2>2, <2>3, <2>4, <2>5 DEF CallsOf, Nowhere
<1>3. CASE MarkPending(c)
  <2>1. call[c].tx \in Txs
    BY <1>0, <1>3, CallCarriesTx DEF MarkPending
  <2>2. /\ \A d \in Callers \ {c} : call'[d] = call[d]
        /\ call'[c] = Handler("marked", call[c].tx) /\ call[c].pc = "accepted"
        /\ \A u \in Txs : status'[u] = IF u = call[c].tx THEN Pending ELSE status[u]
        /\ UNCHANGED <<queue, batch, included, commits>>
    BY <1>3 DEF MarkPending, TypeOK
  <2>3. \A d \in Callers : Carries(d, t)' <=> Carries(d, t)
    BY <1>h, <2>2 DEF Carries
  <2>4. CASE call[c].tx = t
    <3>1. Carries(c, t) /\ status[t].kind \notin {"pending", "succeeded"}
      BY <2>2, <2>4 DEF Carries, CallsOf
    <3>2. Nowhere(t) /\ Nowhere(t)'
      BY <2>2, <3>1 DEF PlacesOf, Nowhere
    <3>3. status'[t].kind = "pending"
      BY <2>2, <2>4 DEF Pending
    <3>4. \A d \in Callers : Carries(d, t)' => d = c
      BY <2>3, <3>1 DEF CallsOf
    <3>5. CallsOf(t)'
      BY <1>h, <2>2, <3>2, <3>3, <3>4 DEF CallsOf
    <3>6. PlacesOf(t)'
      BY <2>2, <3>2, <3>3 DEF PlacesOf, Nowhere, AtMostOnce
    <3> QED BY <3>5, <3>6
  <2>5. CASE call[c].tx # t
    <3>1. status'[t] = status[t] /\ ~Carries(c, t)'
      BY <1>h, <2>2, <2>5 DEF Carries
    <3>2. CallsOf(t)'
      BY <2>2, <2>3, <3>1 DEF CallsOf, Nowhere
    <3>3. PlacesOf(t)'
      BY <2>2, <3>1 DEF PlacesOf, AtMostOnce
    <3> QED BY <3>2, <3>3
  <2> QED BY <2>4, <2>5
<1>4. CASE Enqueue(c)
  <2>1. call[c].tx \in Txs
    BY <1>0, <1>4, CallCarriesTx DEF Enqueue
  <2>2. /\ \A d \in Callers \ {c} : call'[d] = call[d]
        /\ call'[c] = Idle /\ call[c].pc = "marked"
        /\ queue' = Append(queue, call[c].tx) /\ queue \in Seq(Txs)
        /\ UNCHANGED <<status, batch, included, commits>>
    BY <1>4 DEF Enqueue, TypeOK, dbVars
  <2>3. \A d \in Callers : Carries(d, t)' => d # c /\ Carries(d, t)
    BY <1>h, <2>2 DEF Carries
  <2>4. call[c].tx = t => /\ Carries(c, t) /\ status[t].kind = "pending" /\ Nowhere(t)
                          /\ \A d \in Callers : ~Carries(d, t)'
    BY <2>2, <2>3 DEF Carries, CallsOf
  <2>5. /\ ToSet(queue') = ToSet(queue) \cup {call[c].tx}
        /\ AtMostOnce(t, queue) /\ (call[c].tx = t => t \notin ToSet(queue)) => AtMostOnce(t, queue')
    BY <2>1, <2>2, AppendOnce
  <2>6. AtMostOnce(t, queue)'
    BY <2>4, <2>5 DEF PlacesOf, Nowhere, AtMostOnce
  <2>7. PlacesOf(t)'
    BY <2>2, <2>4, <2>5, <2>6 DEF PlacesOf, Nowhere, AtMostOnce
  <2>8. CallsOf(t)'
    BY <2>2, <2>3, <2>4, <2>5 DEF CallsOf, Nowhere
  <2> QED BY <2>7, <2>8
<1>5. ~MarkPendingLost(c)
  BY <1>0 DEF MarkPendingLost, Write
<1> QED BY <1>1, <1>2, <1>3, <1>4, <1>5 DEF CallerStep

\* The producer leaves the calls alone: they keep what they know of t when its
\* status stays and t comes to no new place.
LEMMA CallsStay ==
  ASSUME NEW t, CallsOf(t), call' = call, status'[t] = status[t], Nowhere(t) => Nowhere(t)'
  PROVE  CallsOf(t)'
BY DEF CallsOf, Carries

LEMMA OnceStepProducer ==
  ASSUME Inv, NEW t \in Txs, CallsOf(t), PlacesOf(t), failures' = 0, NEW ok \in BOOLEAN,
         \/ Drain(ok) \/ ExecuteOk \/ ExecuteErr(ok) \/ SaveBlock(ok)
         \/ IndexTx(ok) \/ MarkSucceeded(ok) \/ EndBlock
  PROVE  CallsOf(t)' /\ PlacesOf(t)'
<1>0. TypeOK /\ failures \in Nat /\ ProducerInv
  BY DEF Inv, TypeOK
<1>w. Write(ok) => ok
  BY <1>0 DEF Write
<1>1. CASE Drain(ok)
  <2>1. queue' = << >> /\ batch' = queue /\ UNCHANGED <<call, status, included, commits>>
    BY <1>1, <1>w DEF Drain
  <2>2. PlacesOf(t)'
    BY <2>1, EmptyOnce DEF PlacesOf, AtMostOnce
  <2>3. Nowhere(t) => Nowhere(t)'
    BY <2>1, EmptyOnce DEF Nowhere
  <2> QED BY <2>1, <2>2, <2>3, CallsStay
<1>2. CASE ExecuteOk
  <2>1. /\ batch \in Seq(Txs) /\ batch # << >> /\ included \in Seq(Txs) /\ commits \in Seq(Txs)
        /\ commits' = Append(commits, Head(batch)) /\ included' = Append(included, Head(batch))
        /\ batch' = Tail(batch) /\ UNCHANGED <<call, status, queue>>
    BY <1>0, <1>2 DEF ExecuteOk, TypeOK, dbVars
  <2>2. /\ Head(batch) \in Txs /\ ToSet(batch) = ToSet(batch') \cup {Head(batch)}
        /\ AtMostOnce(t, Tail(batch))
        /\ Head(batch) = t => t \notin ToSet(batch')
    BY <2>1, TailOnce DEF PlacesOf
  <2>3. Head(batch) = t => /\ t \notin ToSet(commits) /\ t \notin ToSet(included)
                           /\ t \notin ToSet(queue) /\ status[t].kind = "pending"
    BY <2>2 DEF PlacesOf
  <2>4. /\ ToSet(commits') = ToSet(commits) \cup {Head(batch)}
        /\ ToSet(included') = ToSet(included) \cup {Head(batch)}
        /\ AtMostOnce(t, Append(commits, Head(batch)))
        /\ AtMostOnce(t, Append(included, Head(batch)))
    BY <2>1, <2>2, <2>3, AppendOnce DEF PlacesOf
  <2>5. AtMostOnce(t, commits)' /\ AtMostOnce(t, included)' /\ AtMostOnce(t, batch)'
        /\ AtMostOnce(t, queue)'
    BY <2>1, <2>2, <2>4 DEF AtMostOnce, PlacesOf
  <2>6. PlacesOf(t)'
    BY <2>1, <2>2, <2>3, <2>4, <2>5 DEF PlacesOf
  <2>7. Nowhere(t) => Nowhere(t)'
    BY <2>1, <2>2, <2>4 DEF Nowhere
  <2> QED BY <2>1, <2>6, <2>7, CallsStay
<1>3. CASE ExecuteErr(ok)
  <2>1. /\ batch \in Seq(Txs) /\ batch # << >>
        /\ batch' = Tail(batch) /\ UNCHANGED <<call, queue, included, commits>>
        /\ status' = IF status[Head(batch)].kind = "succeeded" THEN status
                     ELSE [status EXCEPT ![Head(batch)] = Failed(pslot)]
        /\ status \in [Txs -> TxStatus]
    BY <1>0, <1>3, <1>w DEF ExecuteErr, TypeOK, mark_failed_unless_succeeded
  <2>2. /\ Head(batch) \in Txs /\ ToSet(batch) = ToSet(batch') \cup {Head(batch)}
        /\ AtMostOnce(t, Tail(batch))
        /\ Head(batch) = t => t \notin ToSet(batch')
    BY <2>1, TailOnce DEF PlacesOf
  <2>3. AtMostOnce(t, batch)' /\ AtMostOnce(t, queue)' /\ AtMostOnce(t, included)'
        /\ AtMostOnce(t, commits)'
    BY <2>1, <2>2 DEF AtMostOnce, PlacesOf
  <2>4. CASE Head(batch) = t
    <3>1. status[t].kind = "pending" /\ t \notin ToSet(queue) /\ t \notin ToSet(commits)
          /\ t \notin ToSet(included)
      BY <2>2, <2>4 DEF PlacesOf
    <3>2. status'[t].kind = "failed"
      BY <2>1, <2>4, <3>1 DEF Failed
    <3>3. PlacesOf(t)'
      BY <2>1, <2>2, <2>3, <2>4, <3>1 DEF PlacesOf
    <3>4. \A c \in Callers : Carries(c, t) => call[c].pc # "marked"
      BY <2>2, <2>4 DEF CallsOf, Nowhere
    <3>5. CallsOf(t)'
      BY <2>1, <3>2, <3>4 DEF CallsOf, Carries
    <3> QED BY <3>3, <3>5
  <2>5. CASE Head(batch) # t
    <3>1. status'[t] = status[t]
      BY <2>1, <2>5
    <3>2. PlacesOf(t)'
      BY <2>1, <2>2, <2>3, <3>1 DEF PlacesOf
    <3>3. Nowhere(t) => Nowhere(t)'
      BY <2>1, <2>2 DEF Nowhere
    <3> QED BY <2>1, <3>1, <3>2, <3>3, CallsStay
  <2> QED BY <2>4, <2>5
<1>4. CASE SaveBlock(ok) \/ IndexTx(ok) \/ EndBlock
  <2>1. UNCHANGED <<call, status, queue, batch, included, commits>>
    BY <1>4, <1>w DEF SaveBlock, IndexTx, EndBlock, dbVars
  <2> QED BY <2>1, PlacesStay, CallsStay DEF Nowhere
<1>5. CASE MarkSucceeded(ok)
  <2>1. /\ included \in Seq(Txs) /\ included # << >>
        /\ included' = Tail(included) /\ UNCHANGED <<call, queue, batch, commits>>
        /\ status' = [status EXCEPT ![Head(included)] = Succeeded(pslot)]
        /\ status \in [Txs -> TxStatus]
    BY <1>0, <1>5, <1>w DEF MarkSucceeded, TypeOK, ProducerInv
  <2>2. /\ Head(included) \in Txs /\ ToSet(included) = ToSet(included') \cup {Head(included)}
        /\ AtMostOnce(t, Tail(included))
        /\ Head(included) = t => t \notin ToSet(included')
    BY <2>1, TailOnce DEF PlacesOf
  <2>3. AtMostOnce(t, batch)' /\ AtMostOnce(t, queue)' /\ AtMostOnce(t, included)'
        /\ AtMostOnce(t, commits)'
    BY <2>1, <2>2 DEF AtMostOnce, PlacesOf
  <2>4. CASE Head(included) = t
    <3>1. status[t].kind = "pending" /\ t \in ToSet(commits)
          /\ t \notin ToSet(queue) /\ t \notin ToSet(batch)
      BY <2>2, <2>4 DEF PlacesOf
    <3>2. status'[t].kind = "succeeded"
      BY <2>1, <2>4 DEF Succeeded
    <3>3. PlacesOf(t)'
      BY <2>1, <2>2, <2>3, <2>4, <3>1, <3>2 DEF PlacesOf
    <3>4. \A c \in Callers : Carries(c, t) => call[c].pc \notin {"marked", "accepted"}
      BY <2>2, <2>4, <3>1 DEF CallsOf, Nowhere
    <3>5. CallsOf(t)'
      BY <2>1, <3>2, <3>4 DEF CallsOf, Carries
    <3> QED BY <3>3, <3>5
  <2>5. CASE Head(included) # t
    <3>1. status'[t] = status[t]
      BY <2>1, <2>5
    <3>2. PlacesOf(t)'
      BY <2>1, <2>2, <2>3, <2>5, <3>1 DEF PlacesOf
    <3>3. Nowhere(t) => Nowhere(t)'
      BY <2>1, <2>2 DEF Nowhere
    <3> QED BY <2>1, <3>1, <3>2, <3>3, CallsStay
  <2> QED BY <2>4, <2>5
<1> QED BY <1>1, <1>2, <1>3, <1>4, <1>5

\* Overlaps and failed writes are never forgotten.
LEMMA HistoryGrows ==
  ASSUME TypeOK, [Next]_vars
  PROVE  raced \subseteq raced' /\ failures \in Nat /\ failures <= failures'
<1>0. failures \in Nat
  BY DEF TypeOK
<1>1. CASE UNCHANGED vars
  BY <1>0, <1>1 DEF vars, boundVars, callVars
<1>2. CASE Next
  BY <1>0, <1>2
     DEF Next, Submit, CallerStep, CheckStatus, MarkPending, Enqueue, ProducerStep, Drain,
         ExecuteOk, ExecuteErr, SaveBlock, IndexTx, MarkSucceeded, EndBlock, WriteFails,
         MarkPendingLost, Crash, Write, boundVars, callVars
<1> QED BY <1>1, <1>2

LEMMA OnceStep == Inv /\ OnceInv /\ [Next]_vars => OnceInv'
<1> SUFFICES ASSUME Inv, OnceInv, [Next]_vars, failures' = 0, NEW t \in Txs, t \notin raced'
             PROVE  CallsOf(t)' /\ PlacesOf(t)'
  BY DEF OnceInv
<1>0. TypeOK
  BY DEF Inv
<1>1. CallsOf(t) /\ PlacesOf(t)
  <2>1. failures = 0 /\ t \notin raced
    BY <1>0, HistoryGrows
  <2> QED BY <2>1 DEF OnceInv
<1>2. CASE UNCHANGED vars
  BY <1>1, <1>2, PlacesStay, CallsStay DEF vars, dbVars, memVars, Nowhere
<1>3. CASE Crash
  <2>1. /\ queue' = << >> /\ batch' = << >> /\ included' = << >> /\ commits' = commits
        /\ status' = status /\ \A c \in Callers : call'[c] = Idle
    BY <1>3 DEF Crash, dbVars
  <2>2. PlacesOf(t)'
    BY <1>1, <2>1, EmptyOnce DEF PlacesOf, AtMostOnce
  <2>3. \A c \in Callers : ~Carries(c, t)'
    BY <2>1 DEF Carries, Idle
  <2> QED BY <2>2, <2>3 DEF CallsOf
<1> QED BY <1>0, <1>1, <1>2, <1>3, OnceStepCaller, OnceStepProducer
        DEF Next, ProducerStep, WriteFails

LEMMA OnceInit == Init => OnceInv
BY EmptyOnce DEF Init, OnceInv, CallsOf, PlacesOf, Carries, Nowhere, Idle

LEMMA OnceHolds == Spec => []OnceInv
BY OnceInit, OnceStep, InvHolds, PTL DEF Spec

\* Through any crashes a transaction whose submissions never overlapped takes
\* effect at most once while no write fails.
THEOREM AppliedOnce == Spec => []AppliedOnceUnlessRaced
<1>1. Inv /\ OnceInv => AppliedOnceUnlessRaced
  <2> SUFFICES ASSUME OnceInv, failures = 0, NEW t \in Txs \ raced
               PROVE  Count(t, commits) <= 1
    BY DEF AppliedOnceUnlessRaced
  <2>1. AtMostOnce(t, commits)
    BY DEF OnceInv, PlacesOf
  <2> DEFINE S == {i \in DOMAIN commits : commits[i] = t}
  <2>2. CASE S = {}
    BY <2>2, FS_EmptySet DEF Count
  <2>3. CASE S # {}
    <3>1. PICK i \in S : TRUE
      BY <2>3
    <3>2. \A j \in S : j = i
      BY <2>1 DEF AtMostOnce
    <3>3. S = {i}
      <4> HIDE DEF S
      <4> QED BY <3>1, <3>2
    <3>4. Count(t, commits) = 1
      BY <3>3, FS_Singleton, Zenon DEF Count
    <3> QED BY <3>4
  <2> QED BY <2>2, <2>3
<1> QED BY <1>1, OnceHolds, InvHolds, PTL

\* No handler and no failure the producer records takes a success back, as long
\* as the transaction's submissions do not overlap and no write fails.
THEOREM SuccessKept == Spec => SuccessStays
<1> DEFINE A == \A t \in Txs \ raced' :
                  failures' = 0 /\ status[t].kind = "succeeded" => status'[t] = status[t]
<1>1. Inv /\ OnceInv /\ OnceInv' /\ [Next]_vars => [A]_vars
  <2> SUFFICES ASSUME Inv, OnceInv, Next, NEW t \in Txs, t \notin raced', failures' = 0,
                      status[t].kind = "succeeded"
               PROVE  status'[t] = status[t]
    OBVIOUS
  <2>0. TypeOK /\ ProducerInv
    BY DEF Inv
  <2>1. failures = 0 /\ t \notin raced /\ failures \in Nat
    BY <2>0, HistoryGrows
  <2>2. CallsOf(t) /\ PlacesOf(t)
    BY <2>1 DEF OnceInv
  <2>3. ASSUME NEW c \in Callers, MarkPending(c) PROVE status'[t] = status[t]
    <3>1. call[c].tx # t
      BY <2>2, <2>3 DEF MarkPending, CallsOf, Carries
    <3> QED BY <2>0, <2>3, <3>1 DEF MarkPending, TypeOK
  <2>4. ASSUME NEW ok \in BOOLEAN, ExecuteErr(ok) PROVE status'[t] = status[t]
    BY <2>0, <2>4 DEF ExecuteErr, mark_failed_unless_succeeded, TypeOK
  <2>5. ASSUME NEW ok \in BOOLEAN, MarkSucceeded(ok) PROVE status'[t] = status[t]
    <3>1. included # << >> /\ included \in Seq(Txs)
      BY <2>0, <2>5 DEF MarkSucceeded, ProducerInv, TypeOK
    <3>2. Head(included) # t
      BY <2>2, <3>1, HeadAndTail DEF PlacesOf
    <3> QED BY <2>0, <2>5, <3>2 DEF MarkSucceeded, TypeOK
  <2>6. \/ \E c \in Callers : MarkPending(c)
        \/ \E ok \in BOOLEAN : ExecuteErr(ok) \/ MarkSucceeded(ok)
        \/ status' = status
    BY DEF Next, Submit, CallerStep, CheckStatus, Enqueue, ProducerStep, Drain, ExecuteOk,
           SaveBlock, IndexTx, EndBlock, WriteFails, MarkPendingLost, Crash, dbVars
  <2> QED BY <2>3, <2>4, <2>5, <2>6
<1> HIDE DEF A
<1>2. Spec => [][A]_vars
  BY <1>1, OnceHolds, InvHolds, PTL DEF Spec
<1> QED BY <1>2 DEF A, SuccessStays

-----------------------------------------------------------------------------
(***************************************************************************)
(* What the programs do to their slots.                                    *)
(***************************************************************************)

\* The slots a program writes itself, and those that a called program may change,
\* itself or through the programs it calls.
Own(p) ==
  CASE p = "ata" -> {} [] p \in {"swap", "vault"} -> {1} [] p \in {"mm", "token"} -> {1, 2}
    [] OTHER -> Nat
Touched(p) == IF p = "mm" THEN 1 .. 4 ELSE 1 .. 2

\* The programs that others call, and what they are called for.
Callees  == {"token", "mm"}
CalledFor == {"InitializeAccount", "MintTo", "Transfer", "Burn", "AddLiquidity", "RemoveLiquidity"}
Callable == [token |-> {"InitializeAccount", "MintTo", "Transfer", "Burn"},
             mm    |-> {"AddLiquidity", "RemoveLiquidity"}]

Plain   == {"sign", "put", "set", "add", "give", "rekey"}
Calls   == [op : {"call"}, program : Callees, name : CalledFor, window : Seq(Nat), signed : SUBSET Nat]
Effects == [op : Plain, slot : Nat] \cup Calls

\* A call: who calls whom, each slot at most once, and what the called program
\* changes is nothing that its caller writes.
CallSound(p, e) ==
  /\ p \notin {"system", "guest", "token"}
  /\ e.program # p /\ (e.program = "mm" => p = "vault")
  /\ e.name \in Callable[e.program]
  /\ \A m, n \in DOMAIN e.window : e.window[m] = e.window[n] => m = n
  /\ \A m \in DOMAIN e.window : m \in Touched(e.program) => e.window[m] \notin Own(p)

Sound(p, e) ==
  \/ e.op = "sign"
  \/ e.op \in {"put", "set", "add"} /\ e.slot \in Own(p)
  \/ e.op \in {"give", "rekey"} /\ p \in {"system", "guest"}
  \/ e.op = "call" /\ CallSound(p, e)

\* What a called program's own calls change is what it may change.
Nested(p, e) ==
  e.op = "call" => \A m \in DOMAIN e.window : m \in Touched(e.program) => e.window[m] \in Touched(p)

Plan(p)   == {e \in Effects : Sound(p, e)}
Called(p) == {e \in Plan(p) : Nested(p, e)}

LEMMA PlainEffects ==
  ASSUME NEW p, NEW i \in Nat
  PROVE  /\ Sign(i) \in Called(p)
         /\ i \in Own(p) => Put(i) \in Called(p) /\ Set(i) \in Called(p) /\ Add(i) \in Called(p)
         /\ p \in {"system", "guest"} => Give(i) \in Plan(p) /\ Rekey \in Plan(p)
BY DEF Sign, Put, Set, Add, Give, Rekey, Called, Plan, Effects, Plain, Sound, Nested

LEMMA CallTypes ==
  ASSUME NEW p \in {"token", "mm"}, NEW name \in CalledFor,
         NEW w \in Seq(Nat), NEW signed \in SUBSET Nat
  PROVE  LET e == Call(p, name, w, signed)
         IN /\ e \in Calls /\ e.op = "call" /\ e.program = p /\ e.name = name
            /\ e.window = w /\ e.signed = signed
<1>1. p \in Callees
  BY DEF Callees
<1> QED BY <1>1 DEF Call, Calls

LEMMA CalledInPlan == \A p : Called(p) \subseteq Plan(p)
BY DEF Called

LEMMA OwnSlots ==
  /\ Own("ata") = {} /\ Own("swap") = {1} /\ Own("vault") = {1}
  /\ Own("mm") = {1, 2} /\ Own("token") = {1, 2}
  /\ Own("system") = Nat /\ Own("oracle") = Nat /\ Own("lending") = Nat
  /\ Own("runes") = Nat /\ Own("nft") = Nat /\ Own("guest") = Nat
BY DEF Own

\* A call of the token program that writes two slots and asks a third one's authority.
LEMMA TokenCalls ==
  ASSUME NEW p \in {"swap", "mm", "vault"}, NEW name \in {"MintTo", "Transfer", "Burn"},
         NEW a \in Nat, NEW b \in Nat, NEW c \in Nat, a # b, b # c, a # c,
         a \notin Own(p), b \notin Own(p), NEW signed \in SUBSET Nat
  PROVE  /\ TokenCallSigned(name, <<a, b, c>>, signed) \in Plan(p)
         /\ TokenCall(name, <<a, b, c>>) \in Plan(p)
         /\ a \in Touched(p) /\ b \in Touched(p)
              => /\ TokenCallSigned(name, <<a, b, c>>, signed) \in Called(p)
                 /\ TokenCall(name, <<a, b, c>>) \in Called(p)
<1> DEFINE w == <<a, b, c>>
<1>1. w \in Seq(Nat) /\ DOMAIN w = 1 .. 3 /\ w[1] = a /\ w[2] = b /\ w[3] = c
  OBVIOUS
<1>2. \A m, n \in DOMAIN w : w[m] = w[n] => m = n
  BY <1>1
<1>3. \A m \in DOMAIN w : m \in 1 .. 2 => w[m] \in {a, b}
  BY <1>1
<1> HIDE DEF w
<1>4. ASSUME NEW s \in SUBSET Nat
      PROVE  LET e == Call("token", name, w, s)
             IN e \in Plan(p) /\ (a \in Touched(p) /\ b \in Touched(p) => e \in Called(p))
  <2> DEFINE e == Call("token", name, w, s)
  <2>1. /\ e \in Calls /\ e.op = "call" /\ e.program = "token" /\ e.name = name
        /\ e.window = w
    <3>1. name \in CalledFor /\ "token" \in {"token", "mm"}
      BY DEF CalledFor
    <3> QED BY <1>1, <3>1, CallTypes
  <2> HIDE DEF e
  <2>2. CallSound(p, e)
    BY <1>2, <1>3, <2>1 DEF CallSound, Callable, Touched
  <2>3. e \in Plan(p)
    BY <2>1, <2>2 DEF Plan, Sound, Effects
  <2>4. ASSUME a \in Touched(p), b \in Touched(p) PROVE Nested(p, e)
    <3>1. Touched(e.program) = 1 .. 2
      BY <2>1 DEF Touched
    <3> QED BY <1>3, <2>1, <2>4, <3>1 DEF Nested
  <2>5. e \in Plan(p) /\ (a \in Touched(p) /\ b \in Touched(p) => e \in Called(p))
    BY <2>3, <2>4 DEF Called
  <2> QED BY <2>5 DEF e
<1>5. {} \in SUBSET Nat
  OBVIOUS
<1> QED BY <1>4, <1>5 DEF TokenCall, TokenCallSigned, w

LEMMA LiquidityCalls ==
  ASSUME NEW name \in {"AddLiquidity", "RemoveLiquidity"},
         NEW a \in Nat, NEW b \in Nat, NEW c \in Nat, NEW d \in Nat,
         a # b, a # c, a # d, b # c, b # d, c # d, 1 \notin {a, b, c, d}
  PROVE  mm_liquidity(name, a, b, c, d) \in Plan("vault")
<1> DEFINE w == <<a, b, c, d, 1>>
           e == Call("mm", name, w, {5})
<1>1. /\ w \in Seq(Nat) /\ DOMAIN w = 1 .. 5
      /\ w[1] = a /\ w[2] = b /\ w[3] = c /\ w[4] = d /\ w[5] = 1
  OBVIOUS
<1>2. \A m, n \in DOMAIN w : w[m] = w[n] => m = n
  BY <1>1
<1>3. \A m \in DOMAIN w : m \in 1 .. 4 => w[m] \in {a, b, c, d}
  BY <1>1
<1> HIDE DEF w
<1>4. /\ e \in Calls /\ e.op = "call" /\ e.program = "mm" /\ e.name = name /\ e.window = w
  <2>1. name \in CalledFor /\ "mm" \in {"token", "mm"} /\ {5} \in SUBSET Nat
    BY DEF CalledFor
  <2> QED BY <1>1, <2>1, CallTypes
<1> HIDE DEF e
<1>5. CallSound("vault", e)
  BY <1>2, <1>3, <1>4, OwnSlots DEF CallSound, Callable, Touched
<1>6. e \in Plan("vault")
  BY <1>4, <1>5 DEF Plan, Sound, Effects
<1> QED BY <1>6 DEF mm_liquidity, e, w

LEMMA SystemSound ==
  \A n \in DOMAIN SystemProcess : \A s \in SystemProcess[n] : s \in Seq(Plan("system"))
<1> DEFINE S == Plan("system")
<1>1. /\ Sign(1) \in S /\ Set(1) \in S /\ Add(2) \in S /\ Give(1) \in S /\ Give(2) \in S
  BY PlainEffects, CalledInPlan, OwnSlots
<1> HIDE DEF S
<1>2. /\ <<Sign(1)>> \in Seq(S) /\ <<Set(1), Give(2)>> \in Seq(S) /\ <<Give(2)>> \in Seq(S)
      /\ <<Set(1), Add(2)>> \in Seq(S) /\ <<Give(1)>> \in Seq(S) /\ <<Set(1)>> \in Seq(S)
  BY <1>1
<1>3. \A s, t \in Seq(S) : s \o t \in Seq(S)
  OBVIOUS
<1>4. \A n \in DOMAIN SystemProcess : \A s \in SystemProcess[n] :
        s \in {<<Sign(1)>> \o <<Set(1), Give(2)>>, <<Sign(1)>> \o <<Give(2)>>, <<Sign(1)>> \o <<Set(1), Add(2)>>,
               <<Sign(1)>> \o <<Give(1)>>, <<Sign(1)>> \o <<Set(1)>>}
  BY DEF SystemProcess, Once, ensure_signers
<1>5. \A n \in DOMAIN SystemProcess : \A s \in SystemProcess[n] : s \in Seq(S)
  BY <1>2, <1>3, <1>4
<1> QED BY <1>5 DEF S

LEMMA TokenSound ==
  \A n \in DOMAIN TokenProcess : \A s \in TokenProcess[n] : s \in Seq(Called("token"))
<1> DEFINE S == Called("token")
<1>1. /\ Sign(3) \in S /\ Put(1) \in S /\ Put(2) \in S /\ Add(2) \in S /\ Set(1) \in S
  BY PlainEffects, OwnSlots
<1> HIDE DEF S
<1>2. <<Sign(3), Put(1), Put(2)>> \in Seq(S) /\ <<Put(1)>> \in Seq(S) /\ <<Add(2), Set(1)>> \in Seq(S)
  BY <1>1
<1>3. \A n \in DOMAIN TokenProcess : \A s \in TokenProcess[n] :
        s \in {<<Sign(3), Put(1), Put(2)>>, <<Put(1)>>, <<Add(2), Set(1)>>}
  BY DEF TokenProcess, Once, TwoWrites
<1>4. \A n \in DOMAIN TokenProcess : \A s \in TokenProcess[n] : s \in Seq(S)
  BY <1>2, <1>3
<1> QED BY <1>4 DEF S

LEMMA AtaSound ==
  \A n \in DOMAIN AtaProcess : \A s \in AtaProcess[n] : s \in Seq(Plan("ata"))
<1> DEFINE w == <<2, 4>>
           e == TokenCall("InitializeAccount", w)
<1>1. w \in Seq(Nat) /\ \A m, n \in DOMAIN w : w[m] = w[n] => m = n
  OBVIOUS
<1> HIDE DEF w
<1>2. /\ e \in Calls /\ e.op = "call" /\ e.program = "token" /\ e.name = "InitializeAccount"
      /\ e.window = w
  <2>1. "InitializeAccount" \in CalledFor /\ "token" \in {"token", "mm"} /\ {} \in SUBSET Nat
    BY DEF CalledFor
  <2> QED BY <1>1, <2>1, CallTypes DEF TokenCall
<1> HIDE DEF e
<1>3. e \in Plan("ata")
  BY <1>1, <1>2, OwnSlots DEF Plan, Sound, Effects, CallSound, Callable
<1>4. <<e>> \in Seq(Plan("ata")) /\ << >> \in Seq(Plan("ata"))
  BY <1>3
<1>5. \A n \in DOMAIN AtaProcess : \A s \in AtaProcess[n] : s \in {<<e>>, << >>}
  BY DEF AtaProcess, e, w
<1> QED BY <1>4, <1>5

LEMMA SwapSound ==
  \A n \in DOMAIN SwapProcess : \A s \in SwapProcess[n] : s \in Seq(Plan("swap"))
<1> DEFINE S == Plan("swap")
           swap == <<Sign(6), TokenCall("Transfer", <<2, 4, 6>>),
                     TokenCallSigned("Transfer", <<5, 3, 1>>, {3}), Put(1)>>
           deposit == <<Sign(7), TokenCall("Transfer", <<2, 4, 7>>), TokenCall("Transfer", <<3, 5, 7>>),
                        TokenCall("MintTo", <<8, 6, 7>>), Put(1)>>
           withdraw == <<Sign(7), TokenCall("Burn", <<6, 8, 7>>), TokenCall("Transfer", <<4, 2, 7>>),
                         TokenCall("Transfer", <<5, 3, 7>>), Put(1)>>
<1>1. Sign(6) \in S /\ Sign(7) \in S /\ Put(1) \in S
  BY PlainEffects, CalledInPlan, OwnSlots
<1>2. /\ TokenCall("Transfer", <<2, 4, 6>>) \in S /\ TokenCall("Transfer", <<2, 4, 7>>) \in S
      /\ TokenCall("Transfer", <<3, 5, 7>>) \in S /\ TokenCall("MintTo", <<8, 6, 7>>) \in S
      /\ TokenCall("Burn", <<6, 8, 7>>) \in S /\ TokenCall("Transfer", <<4, 2, 7>>) \in S
      /\ TokenCall("Transfer", <<5, 3, 7>>) \in S
      /\ TokenCallSigned("Transfer", <<5, 3, 1>>, {3}) \in S
  <2>1. /\ \A name \in {"MintTo", "Transfer", "Burn"}, a, b, c \in Nat :
             a # b /\ b # c /\ a # c /\ a # 1 /\ b # 1 => TokenCall(name, <<a, b, c>>) \in S
        /\ {3} \in SUBSET Nat
    BY TokenCalls, OwnSlots
  <2>2. TokenCallSigned("Transfer", <<5, 3, 1>>, {3}) \in S
    BY TokenCalls, OwnSlots
  <2> HIDE DEF S
  <2> QED BY <2>1, <2>2
<1> HIDE DEF S
<1>3. <<Put(1)>> \in Seq(S) /\ swap \in Seq(S) /\ deposit \in Seq(S) /\ withdraw \in Seq(S)
  BY <1>1, <1>2
<1> HIDE DEF swap, deposit, withdraw
<1>4. \A n \in DOMAIN SwapProcess : \A s \in SwapProcess[n] : s \in {<<Put(1)>>, swap, deposit, withdraw}
  BY DEF SwapProcess, Once, swap, deposit, withdraw
<1>5. \A n \in DOMAIN SwapProcess : \A s \in SwapProcess[n] : s \in Seq(S)
  BY <1>3, <1>4
<1> QED BY <1>5 DEF S

LEMMA OracleSound ==
  \A n \in DOMAIN OracleProcess : \A s \in OracleProcess[n] : s \in Seq(Plan("oracle"))
<1> DEFINE S == Plan("oracle")
<1>1. Sign(2) \in S /\ Put(1) \in S
  BY PlainEffects, CalledInPlan, OwnSlots
<1> HIDE DEF S
<1>2. <<Sign(2), Put(1)>> \in Seq(S) /\ <<Sign(2)>> \in Seq(S) /\ <<Put(1)>> \in Seq(S)
  BY <1>1
<1>3. <<Sign(2)>> \o <<Put(1)>> \in Seq(S)
  BY <1>2
<1>4. \A n \in DOMAIN OracleProcess : \A s \in OracleProcess[n] :
        s \in {<<Sign(2), Put(1)>>, <<Sign(2)>> \o <<Put(1)>>}
  BY DEF OracleProcess, Once, require_authority
<1>5. \A n \in DOMAIN OracleProcess : \A s \in OracleProcess[n] : s \in Seq(S)
  BY <1>2, <1>3, <1>4
<1> QED BY <1>5 DEF S

LEMMA LendingSound ==
  \A n \in DOMAIN LendingProcess : \A s \in LendingProcess[n] : s \in Seq(Plan("lending"))
<1> DEFINE S == Plan("lending")
<1>1. Sign(2) \in S /\ Put(1) \in S
  BY PlainEffects, CalledInPlan, OwnSlots
<1> HIDE DEF S
<1>2. <<Sign(2), Put(1)>> \in Seq(S)
  BY <1>1
<1>3. \A n \in DOMAIN LendingProcess : \A s \in LendingProcess[n] : s \in Seq(S)
  BY <1>2 DEF LendingProcess, Once
<1> QED BY <1>3 DEF S

\* As a called program, the market only moves liquidity.
LEMMA MoneyMarketSound ==
  /\ \A n \in DOMAIN MoneyMarketProcess : \A s \in MoneyMarketProcess[n] : s \in Seq(Plan("mm"))
  /\ \A n \in Callable["mm"] :
       n \in DOMAIN MoneyMarketProcess /\ \A s \in MoneyMarketProcess[n] : s \in Seq(Called("mm"))
<1> DEFINE S == Plan("mm")
           C == Called("mm")
           in  == <<Sign(5), mm_transfer(3, 4, 5), Put(1), Put(2)>>
           out == <<Sign(5), mm_transfer_signed(4, 3), Put(1), Put(2)>>
           liq == <<Sign(7), mm_transfer(3, 4, 7), mm_transfer_signed(6, 5), Put(1), Put(2)>>
<1>0. C \subseteq S
  BY CalledInPlan
<1>1. Sign(5) \in C /\ Sign(6) \in C /\ Sign(7) \in C /\ Put(1) \in C /\ Put(2) \in C
  BY PlainEffects, OwnSlots
<1>2. mm_transfer(3, 4, 5) \in C /\ mm_transfer_signed(4, 3) \in C
  BY TokenCalls, OwnSlots DEF mm_transfer, mm_transfer_signed, Touched
<1>3. mm_transfer(3, 4, 7) \in S /\ mm_transfer_signed(6, 5) \in S
  BY TokenCalls, OwnSlots DEF mm_transfer, mm_transfer_signed
<1> HIDE DEF S, C
<1>4. in \in Seq(C) /\ out \in Seq(C)
  BY <1>1, <1>2
<1>5. in \in Seq(S) /\ out \in Seq(S)
  BY <1>0, <1>1, <1>2
<1>6. liq \in Seq(S)
  BY <1>0, <1>1, <1>3
<1>7. <<Sign(6), Put(1)>> \in Seq(S) /\ <<Put(1)>> \in Seq(S)
  BY <1>0, <1>1
<1> HIDE DEF in, out, liq
<1>8. \A n \in DOMAIN MoneyMarketProcess : \A s \in MoneyMarketProcess[n] :
        s \in {in, out, liq, <<Sign(6), Put(1)>>, <<Put(1)>>}
  BY DEF MoneyMarketProcess, Once, in, out, liq
<1>9. \A n \in Callable["mm"] :
        n \in DOMAIN MoneyMarketProcess /\ \A s \in MoneyMarketProcess[n] : s \in {in, out}
  BY DEF MoneyMarketProcess, Once, Callable, in, out
<1>10. \A n \in DOMAIN MoneyMarketProcess : \A s \in MoneyMarketProcess[n] : s \in Seq(S)
  BY <1>5, <1>6, <1>7, <1>8
<1>11. \A n \in Callable["mm"] :
         n \in DOMAIN MoneyMarketProcess /\ \A s \in MoneyMarketProcess[n] : s \in Seq(C)
  BY <1>4, <1>9
<1> QED BY <1>10, <1>11 DEF S, C

LEMMA VaultSound ==
  \A n \in DOMAIN VaultProcess : \A s \in VaultProcess[n] : s \in Seq(Plan("vault"))
<1> DEFINE S == Plan("vault")
           redeem == <<vault_burn(4, 5, 6), vault_token_transfer_signed(3, 2), Put(1)>>
           recall == <<mm_liquidity("RemoveLiquidity", 7, 8, 3, 9)>>
           deposit == <<Sign(6), vault_token_transfer(2, 3, 6), vault_mint_signed(5, 4), Put(1)>>
           report == <<Sign(2), vault_mint_signed(4, 5), Put(1)>>
           deploy == <<Sign(6), mm_liquidity("AddLiquidity", 3, 4, 2, 5), Put(1)>>
           undeploy == <<Sign(6), mm_liquidity("RemoveLiquidity", 3, 4, 2, 5), Put(1)>>
<1>1. Sign(2) \in S /\ Sign(5) \in S /\ Sign(6) \in S /\ Put(1) \in S
  BY PlainEffects, CalledInPlan, OwnSlots
<1>2. /\ vault_burn(4, 5, 6) \in S /\ vault_token_transfer_signed(3, 2) \in S
      /\ vault_token_transfer(2, 3, 6) \in S /\ vault_mint_signed(5, 4) \in S
      /\ vault_mint_signed(4, 5) \in S
  BY TokenCalls, OwnSlots
  DEF vault_burn, vault_token_transfer_signed, vault_token_transfer, vault_mint_signed
<1>3. /\ mm_liquidity("RemoveLiquidity", 7, 8, 3, 9) \in S
      /\ mm_liquidity("AddLiquidity", 3, 4, 2, 5) \in S
      /\ mm_liquidity("RemoveLiquidity", 3, 4, 2, 5) \in S
  BY LiquidityCalls
<1> HIDE DEF S
<1>4. /\ redeem \in Seq(S) /\ recall \in Seq(S) /\ deposit \in Seq(S) /\ report \in Seq(S)
      /\ deploy \in Seq(S) /\ undeploy \in Seq(S)
      /\ <<Sign(5), Put(1)>> \in Seq(S) /\ <<Sign(2), Put(1)>> \in Seq(S) /\ <<Sign(6)>> \in Seq(S)
  BY <1>1, <1>2, <1>3
<1> HIDE DEF redeem, recall, deposit, report, deploy, undeploy
<1>5. <<Sign(6)>> \o redeem \in Seq(S) /\ <<Sign(6)>> \o recall \o redeem \in Seq(S)
  BY <1>4
<1>6. \A n \in DOMAIN VaultProcess : \A s \in VaultProcess[n] :
        s \in {<<Sign(5), Put(1)>>, deposit, <<Sign(6)>> \o redeem, <<Sign(6)>> \o recall \o redeem,
               <<Sign(2), Put(1)>>, report, deploy, undeploy}
  BY DEF VaultProcess, Once, redeem, recall, deposit, report, deploy, undeploy
<1>7. \A n \in DOMAIN VaultProcess : \A s \in VaultProcess[n] : s \in Seq(S)
  BY <1>4, <1>5, <1>6
<1> QED BY <1>7 DEF S

LEMMA RunesSound ==
  \A n \in DOMAIN RuneProcess : \A s \in RuneProcess[n] : s \in Seq(Plan("runes"))
<1> DEFINE S == Plan("runes")
<1>1. Sign(3) \in S /\ Put(1) \in S /\ Put(2) \in S
  BY PlainEffects, CalledInPlan, OwnSlots
<1> HIDE DEF S
<1>2. <<Sign(3), Put(1), Put(2)>> \in Seq(S) /\ <<Sign(3), Put(1)>> \in Seq(S) /\ <<Put(1)>> \in Seq(S)
  BY <1>1
<1>3. \A n \in DOMAIN RuneProcess : \A s \in RuneProcess[n] :
        s \in {<<Sign(3), Put(1), Put(2)>>, <<Sign(3), Put(1)>>, <<Put(1)>>}
  BY DEF RuneProcess, Once, TwoWrites
<1>4. \A n \in DOMAIN RuneProcess : \A s \in RuneProcess[n] : s \in Seq(S)
  BY <1>2, <1>3
<1> QED BY <1>4 DEF S

LEMMA MetadataSound ==
  \A n \in DOMAIN MetadataProcess : \A s \in MetadataProcess[n] : s \in Seq(Plan("nft"))
<1> DEFINE S == Plan("nft")
<1>1. Put(1) \in S
  BY PlainEffects, CalledInPlan, OwnSlots
<1> HIDE DEF S
<1>2. <<Put(1)>> \in Seq(S)
  BY <1>1
<1>3. \A n \in DOMAIN MetadataProcess : \A s \in MetadataProcess[n] : s \in Seq(S)
  BY <1>2 DEF MetadataProcess, Once
<1> QED BY <1>3 DEF S

LEMMA GuestSound ==
  \A n \in DOMAIN GuestProcess : \A s \in GuestProcess[n] : s \in Seq(Plan("guest"))
<1> DEFINE S == Plan("guest")
           Whatever == {Sign(1)} \cup UNION {{Set(i), Add(i), Give(i)} : i \in 1 .. 2}
<1>1. Rekey \in S /\ Whatever \subseteq S
  <2>1. ASSUME NEW i \in 1 .. 2 PROVE {Set(i), Add(i), Give(i)} \subseteq S
    <3>1. i \in Nat
      OBVIOUS
    <3> QED BY <3>1, PlainEffects, CalledInPlan, OwnSlots
  <2>2. Sign(1) \in S /\ Rekey \in S
    BY PlainEffects, CalledInPlan
  <2> HIDE DEF S
  <2> QED BY <2>1, <2>2
<1>2. \A n \in DOMAIN GuestProcess : GuestProcess[n] = {<<Rekey>>} \cup {<<e, f>> : e, f \in Whatever}
  BY DEF GuestProcess
<1> HIDE DEF S, Whatever
<1>3. <<Rekey>> \in Seq(S) /\ \A e, f \in Whatever : <<e, f>> \in Seq(S)
  BY <1>1
<1>4. \A n \in DOMAIN GuestProcess : \A s \in GuestProcess[n] : s \in Seq(S)
  <2> TAKE n \in DOMAIN GuestProcess
  <2> TAKE s \in GuestProcess[n]
  <2>1. s = <<Rekey>> \/ \E e, f \in Whatever : s = <<e, f>>
    BY <1>2
  <2> QED BY <1>3, <2>1
<1> QED BY <1>4 DEF S

\* Every way of every program to succeed keeps to its slots.
LEMMA ProgramsSound ==
  ASSUME NEW p \in DOMAIN run_builtin, NEW n \in DOMAIN run_builtin[p], NEW s \in run_builtin[p][n]
  PROVE  s \in Seq(Plan(p))
<1>1. Seq(Called("token")) \subseteq Seq(Plan("token"))
  BY CalledInPlan
<1>2. p \in {"system", "token", "ata", "swap", "oracle", "lending", "mm", "vault", "runes", "nft", "guest"}
  BY DEF run_builtin
<1>3. /\ run_builtin["system"] = SystemProcess /\ run_builtin["token"] = TokenProcess
      /\ run_builtin["ata"] = AtaProcess /\ run_builtin["swap"] = SwapProcess
      /\ run_builtin["oracle"] = OracleProcess /\ run_builtin["lending"] = LendingProcess
      /\ run_builtin["mm"] = MoneyMarketProcess /\ run_builtin["vault"] = VaultProcess
      /\ run_builtin["runes"] = RuneProcess /\ run_builtin["nft"] = MetadataProcess
      /\ run_builtin["guest"] = GuestProcess
  BY DEF run_builtin
<1> QED BY <1>1, <1>2, <1>3, SystemSound, TokenSound, AtaSound, SwapSound, OracleSound, LendingSound,
           MoneyMarketSound, VaultSound, RunesSound, MetadataSound, GuestSound

\* A called program can be called for what it is called for, and keeps to the slots
\* it may change.
LEMMA CalleesSound ==
  ASSUME NEW p \in Callees, NEW n \in Callable[p]
  PROVE  /\ p \in DOMAIN run_builtin /\ n \in DOMAIN run_builtin[p]
         /\ \A s \in run_builtin[p][n] : s \in Seq(Called(p))
<1>1. run_builtin["token"] = TokenProcess /\ run_builtin["mm"] = MoneyMarketProcess
  BY DEF run_builtin
<1>2. p \in DOMAIN run_builtin
  BY DEF run_builtin, Callees
<1>3. Callable["token"] \subseteq DOMAIN TokenProcess
  BY DEF Callable, TokenProcess
<1> QED BY <1>1, <1>2, <1>3, TokenSound, MoneyMarketSound DEF Callees

-----------------------------------------------------------------------------
(***************************************************************************)
(* The invariant of Invocation: the stack of frames over the stored        *)
(* accounts A of the instruction I.                                        *)
(***************************************************************************)
Kinds   == {Instruction[b.program][b.name][i] : b \in Builders \cup ByHand, i \in Nat}
Writers == Kinds \cup DOMAIN run_builtin \cup Strangers
States  == [owner : Writers, lamports : Nat, data : Seq(Writers)]

Copies(A) == [key : DOMAIN A, flag : Flags, state : States]
Frames(A) == [program : DOMAIN run_builtin, copies : Seq(Copies(A)), window : Seq(Nat), todo : Seq(Effects)]

\* s is pre with more lamports and more contents, the new ones written by p.
Writes(p, pre, s) ==
  /\ s.lamports >= pre.lamports /\ Len(s.data) >= Len(pre.data)
  /\ \A i \in 1 .. Len(pre.data) : s.data[i] = pre.data[i]
  /\ \A i \in Len(pre.data) + 1 .. Len(s.data) : s.data[i] = p
  /\ p \in {"system", "guest"} \/ s.owner = pre.owner

\* s is what the gate lets called programs leave where old is stored, in an
\* instruction of q: contents belong to the program that wrote them, and an account
\* that was not empty to the program it belonged to.
Clean(q, old, s) ==
  /\ s.lamports >= old.lamports /\ Len(s.data) >= Len(old.data)
  /\ \A i \in Len(old.data) + 1 .. Len(s.data) : s.data[i] = s.owner
  /\ ~is_blank(old) \/ s.data = <<>> => s.owner = old.owner
  /\ is_blank(old) /\ s.data # <<>> => s.owner \in Callees \ {q}

\* What the gate lets an instruction leave: OnlyOwnersWrite for one account.
Fine(old, s) ==
  LET writers == {s.data[i] : i \in Len(old.data) + 1 .. Len(s.data)}
  IN s # old => /\ (writers \subseteq {old.owner} \/ is_blank(old))
                /\ writers \subseteq {s.owner, "system", "guest"}

FrameOK(A, f) ==
  /\ f \in Frames(A) /\ f.todo \in Seq(Plan(f.program))
  /\ \A j \in DOMAIN f.todo : Slots(f.todo[j]) \subseteq DOMAIN f.copies

\* The frame of the instruction: slots the program writes hold what it wrote, the
\* others what its callees left.
Bottom(A, I, f) ==
  /\ f.program = I.program /\ DOMAIN f.copies = DOMAIN I.keys
  /\ \A i \in DOMAIN f.copies :
       LET c == f.copies[i]
       IN /\ c.key = I.keys[i] /\ c.flag = I.flags[i]
          /\ i \in Own(f.program) => Writes(f.program, A[c.key], c.state)
          /\ i \notin Own(f.program) => Clean(I.program, A[c.key], c.state)

\* The frame of a call, over its caller's.
Above(A, I, caller, f) ==
  /\ caller.todo # <<>> /\ Head(caller.todo).op = "call"
  /\ Head(caller.todo).window = f.window /\ Head(caller.todo).program = f.program
  /\ f.program \in Callees \ {I.program} /\ I.program # "token"
  /\ f.todo \in Seq(Called(f.program))
  /\ DOMAIN f.copies = DOMAIN f.window
  /\ \A i \in DOMAIN f.copies :
       LET c == f.copies[i]
           of == caller.copies[f.window[i]]
       IN /\ c.key = of.key
          /\ i \in Head(caller.todo).signed \/ c.flag = of.flag
          /\ i \notin Touched(f.program) => c.state = of.state
          /\ i \in Touched(f.program) => Clean(I.program, A[c.key], of.state)
          /\ i \in Own(f.program) => Writes(f.program, of.state, c.state)
          /\ i \in Touched(f.program) \ Own(f.program) => Clean(I.program, A[c.key], c.state)

StackOK(A, I, st) ==
  /\ st \in Seq(Frames(A))
  /\ \A d \in DOMAIN st : FrameOK(A, st[d])
  /\ st # <<>> => Bottom(A, I, st[1])
  /\ \A d \in 2 .. Len(st) : Above(A, I, st[d - 1], st[d])

TrailOK(A, I, trail) ==
  \A k \in DOMAIN trail : k \in DOMAIN A /\ trail[k] \in States /\ Clean(I.program, A[k], trail[k])

\* The instruction and the accounts it finds.
IxOK(A, I) ==
  /\ I.program \in DOMAIN run_builtin /\ I.name \in DOMAIN run_builtin[I.program]
  /\ A = I.was /\ A \in Seq(States)
  /\ I.keys \in Seq(DOMAIN A) /\ I.flags \in Seq(Flags) /\ Len(I.flags) = Len(I.keys)
  /\ \A k \in DOMAIN A : is_blank(A[k]) => A[k].owner \in {I.program, "system"}

InvocationInv ==
  /\ outcome = "running" =>
       /\ IxOK(acct, ix) /\ StackOK(acct, ix, stack)
       /\ stack # <<>> => TrailOK(acct, ix, approved)
  /\ outcome # "running" => stack = <<>>
  /\ OnlyOwnersWrite

-----------------------------------------------------------------------------
(***************************************************************************)
(* Stacks.                                                                 *)
(***************************************************************************)
LEMMA Pushed ==
  ASSUME NEW S, NEW st \in Seq(S), NEW f \in S
  PROVE  /\ Append(st, f) \in Seq(S) /\ Len(Append(st, f)) = Len(st) + 1
         /\ Append(st, f)[Len(st) + 1] = f
         /\ \A d \in 1 .. Len(st) : Append(st, f)[d] = st[d]
OBVIOUS

LEMMA FrontOf ==
  ASSUME NEW S, NEW st \in Seq(S), st # <<>>
  PROVE  /\ Front(st) \in Seq(S) /\ Len(Front(st)) = Len(st) - 1
         /\ \A d \in 1 .. Len(st) - 1 : Front(st)[d] = st[d]
         /\ Last(st) = st[Len(st)] /\ Last(st) \in S
<1>1. Len(st) \in Nat \ {0}
  OBVIOUS
<1>2. Front(st) = SubSeq(st, 1, Len(st) - 1)
  BY DEF Front
<1>3. Len(st) - 1 \in Nat /\ \A i \in 1 .. Len(st) - 1 : st[i] \in S
  BY <1>1
<1>4. Front(st) = [i \in 1 .. Len(st) - 1 |-> st[i]]
  BY <1>1, <1>2
<1>5. Front(st) \in Seq(S) /\ Len(Front(st)) = Len(st) - 1
  BY <1>3, <1>4
<1>6. Last(st) = st[Len(st)] /\ Last(st) \in S
  BY <1>1 DEF Last
<1> QED BY <1>4, <1>5, <1>6

\* The top is replaced.
LEMMA TopReplaced ==
  ASSUME NEW S, NEW st \in Seq(S), st # <<>>, NEW f \in S
  PROVE  LET t == Append(Front(st), f)
         IN /\ t \in Seq(S) /\ Len(t) = Len(st) /\ t[Len(st)] = f
            /\ \A d \in 1 .. Len(st) - 1 : t[d] = st[d]
<1>1. Len(st) \in Nat \ {0}
  OBVIOUS
<1> QED BY <1>1, FrontOf, Pushed

\* The top is taken off and the one under it replaced.
LEMMA TopReturned ==
  ASSUME NEW S, NEW st \in Seq(S), Len(st) > 1, NEW f \in S
  PROVE  LET t == Append(Front(Front(st)), f)
         IN /\ t \in Seq(S) /\ Len(t) = Len(st) - 1 /\ t[Len(st) - 1] = f
            /\ \A d \in 1 .. Len(st) - 2 : t[d] = st[d]
            /\ Last(Front(st)) = st[Len(st) - 1]
<1>1. /\ Len(st) \in Nat /\ st # <<>> /\ Front(st) \in Seq(S) /\ Len(Front(st)) = Len(st) - 1
      /\ \A d \in 1 .. Len(st) - 1 : Front(st)[d] = st[d]
  <2>1. st # <<>> /\ Len(st) \in Nat
    OBVIOUS
  <2> QED BY <2>1, FrontOf
<1>2. Front(st) # <<>>
  BY <1>1
<1>3. Last(Front(st)) = st[Len(st) - 1]
  <2>1. Last(Front(st)) = Front(st)[Len(st) - 1]
    BY <1>1, <1>2, FrontOf
  <2> QED BY <1>1, <2>1
<1> DEFINE u == Front(st)
<1> HIDE DEF u
<1>4. LET t == Append(Front(u), f)
      IN t \in Seq(S) /\ Len(t) = Len(u) /\ t[Len(u)] = f /\ \A d \in 1 .. Len(u) - 1 : t[d] = u[d]
  BY <1>1, <1>2, TopReplaced DEF u
<1> QED BY <1>1, <1>3, <1>4 DEF u

-----------------------------------------------------------------------------
(***************************************************************************)
(* The gate.                                                               *)
(***************************************************************************)
LEMMA LastOf ==
  ASSUME NEW n \in Nat, NEW T \in SUBSET (1 .. n), T # {}
  PROVE  Max(T) \in T
<1> DEFINE P == {m \in Nat : \A U \in SUBSET (1 .. m) : U # {} => \E x \in U : \A y \in U : x >= y}
<1>1. ASSUME NEW m \in Nat, \A k \in 0 .. m - 1 : k \in P
      PROVE  m \in P
  <2> SUFFICES ASSUME NEW U \in SUBSET (1 .. m), U # {} PROVE \E x \in U : \A y \in U : x >= y
    OBVIOUS
  <2>1. CASE m \in U
    BY <2>1
  <2>2. CASE m \notin U
    <3>1. m # 0 /\ m - 1 \in 0 .. m - 1
      <4>1. m = 0 => 1 .. m = {}
        OBVIOUS
      <4>2. m # 0
        BY <4>1
      <4> QED BY <4>2
    <3>2. U \in SUBSET (1 .. m - 1)
      BY <2>2
    <3> QED BY <1>1, <3>1, <3>2
  <2> QED BY <2>1, <2>2
<1> HIDE DEF P
<1>2. n \in P
  BY <1>1, NatInductionSet
<1>3. \E x \in T : \A y \in T : x >= y
  BY <1>2 DEF P
<1> QED BY <1>3, Zenon DEF Max

\* A property of (key, state) pairs that the approvals have so far, and that every
\* legal change has, holds of all approvals made on the way.
LEMMA ApprovalsKeep ==
  ASSUME NEW G, NEW program, NEW before, NEW A, NEW copies \in Seq(Copies(A)),
         \A k \in DOMAIN approved : <<k, approved[k]>> \in G,
         \A i \in DOMAIN copies :
           ~same_state(before[i], copies[i].state) /\ Legal(program, before[i], copies[i].state)
             => <<copies[i].key, claim(program, before[i], copies[i].state)>> \in G,
         NEW n
  PROVE  \A k \in DOMAIN record(program, before, copies, n) :
           <<k, record(program, before, copies, n)[k]>> \in G
<1> DEFINE made(k) == {i \in DOMAIN copies :
                         /\ i < n /\ copies[i].key = k /\ ~same_state(before[i], copies[i].state)
                         /\ Legal(program, before[i], copies[i].state)}
           D == DOMAIN approved \cup {c \in {copies[i].key : i \in DOMAIN copies} : made(c) # {}}
           R == record(program, before, copies, n)
<1>1. R = [k \in D |-> IF made(k) = {} THEN approved[k]
                       ELSE Claimed(program, before, copies)[Max(made(k))].state]
  BY DEF record
<1>2. Len(copies) \in Nat /\ DOMAIN copies = 1 .. Len(copies)
  OBVIOUS
<1>3. ASSUME NEW k \in D PROVE <<k, R[k]>> \in G
  <2>1. CASE made(k) = {}
    <3>1. k \in DOMAIN approved /\ R[k] = approved[k]
      BY <1>1, <2>1
    <3> QED BY <3>1
  <2>2. CASE made(k) # {}
    <3> DEFINE i == Max(made(k))
    <3>1. made(k) \in SUBSET (1 .. Len(copies))
      BY <1>2
    <3> HIDE DEF made
    <3>2. i \in made(k)
      BY <1>2, <2>2, <3>1, LastOf
    <3> USE DEF made
    <3> HIDE DEF i
    <3>3. /\ i \in DOMAIN copies /\ copies[i].key = k /\ ~same_state(before[i], copies[i].state)
          /\ Legal(program, before[i], copies[i].state)
      BY <3>2
    <3>4. Claimed(program, before, copies)[i].state = claim(program, before[i], copies[i].state)
      <4>1. copies[i] \in Copies(A)
        BY <3>3
      <4>2. Claimed(program, before, copies)[i]
              = [copies[i] EXCEPT !.state = claim(program, before[i], copies[i].state)]
        BY <3>3 DEF Claimed
      <4> QED BY <4>1, <4>2 DEF Copies
    <3>5. R[k] = Claimed(program, before, copies)[i].state
      BY <1>1, <2>2 DEF i
    <3> QED BY <3>3, <3>4, <3>5
  <2> QED BY <2>1, <2>2
<1> QED BY <1>1, <1>3

\* So every copy that passes the gate is unchanged or has the property.
LEMMA GateKeeps ==
  ASSUME NEW G, NEW program, NEW before, NEW A, NEW copies \in Seq(Copies(A)),
         \A k \in DOMAIN approved : <<k, approved[k]>> \in G,
         \A i \in DOMAIN copies :
           ~same_state(before[i], copies[i].state) /\ Legal(program, before[i], copies[i].state)
             => <<copies[i].key, claim(program, before[i], copies[i].state)>> \in G,
         validate_writes(program, before, copies).ok
  PROVE  LET gate == validate_writes(program, before, copies)
         IN /\ \A k \in DOMAIN gate.trail : <<k, gate.trail[k]>> \in G
            /\ DOMAIN gate.copies = DOMAIN copies
            /\ \A i \in DOMAIN copies :
                 LET c == gate.copies[i]
                 IN /\ c.key = copies[i].key /\ c.flag = copies[i].flag
                    /\ before[i] = copies[i].state => c.state = copies[i].state
                    /\ before[i] # copies[i].state => <<c.key, c.state>> \in G
<1> DEFINE gate == validate_writes(program, before, copies)
           C == Claimed(program, before, copies)
<1>1. /\ gate.trail = record(program, before, copies, Len(copies) + 1)
      /\ gate.copies = C
  BY DEF validate_writes
<1>2. \A i \in DOMAIN copies :
        validate_write(program, copies[i].key, before[i], copies[i].state,
                       record(program, before, copies, i))
  BY DEF validate_writes
<1>3. \A k \in DOMAIN gate.trail : <<k, gate.trail[k]>> \in G
  BY <1>1, ApprovalsKeep
<1>4. DOMAIN C = DOMAIN copies
  BY DEF Claimed
<1>5. ASSUME NEW i \in DOMAIN copies
      PROVE  /\ C[i].key = copies[i].key /\ C[i].flag = copies[i].flag
             /\ C[i].state = claim(program, before[i], copies[i].state)
  <2>1. copies[i] \in Copies(A)
    OBVIOUS
  <2>2. C[i] = [copies[i] EXCEPT !.state = claim(program, before[i], copies[i].state)]
    BY DEF Claimed
  <2> QED BY <2>1, <2>2 DEF Copies
<1>6. ASSUME NEW i \in DOMAIN copies
      PROVE  /\ before[i] = copies[i].state => C[i].state = copies[i].state
             /\ before[i] # copies[i].state => <<copies[i].key, C[i].state>> \in G
  <2> DEFINE pre == before[i]
             post == copies[i].state
             R == record(program, before, copies, i)
  <2>0. post \in States
    <3>1. copies[i] \in Copies(A)
      OBVIOUS
    <3> QED BY <3>1 DEF Copies
  <2>1. CASE same_state(pre, post)
    <3>1. pre = post
      BY <2>1 DEF same_state
    <3>2. post.lamports \in Nat /\ credit_only(pre, post)
      BY <2>0, <3>1 DEF credit_only, States
    <3>3. claim(program, pre, post) = post
      BY <3>2 DEF claim
    <3> QED BY <1>5, <3>1, <3>3
  <2>2. CASE ~same_state(pre, post) /\ Legal(program, pre, post)
    <3>1. <<copies[i].key, claim(program, pre, post)>> \in G
      BY <2>2
    <3>2. pre # post
      BY <2>2 DEF same_state
    <3> QED BY <1>5, <3>1, <3>2
  <2>3. CASE ~same_state(pre, post) /\ ~Legal(program, pre, post)
    <3>1. copies[i].key \in DOMAIN R /\ same_state(R[copies[i].key], post)
      BY <1>2, <2>3 DEF validate_write
    <3>2. R[copies[i].key] = post
      BY <3>1 DEF same_state
    <3>3. <<copies[i].key, post>> \in G
      <4>1. \A k \in DOMAIN R : <<k, R[k]>> \in G
        BY ApprovalsKeep
      <4> HIDE DEF R, post
      <4> QED BY <3>1, <3>2, <4>1
    <3>4. claim(program, pre, post) = post
      BY <2>3 DEF claim, Legal
    <3>5. pre # post
      BY <2>3 DEF same_state
    <3> QED BY <1>5, <3>3, <3>4, <3>5
  <2> QED BY <2>1, <2>2, <2>3
<1> QED BY <1>1, <1>3, <1>4, <1>5, <1>6

\* A legal change by a called program, or one it got back from a program it called
\* itself, leaves what called programs may leave.
LEMMA CalleeLeavesClean ==
  ASSUME NEW q, NEW p \in Callees \ {q}, NEW old \in States, NEW pre \in States, NEW s \in States,
         is_blank(old) => old.owner \in {q, "system"},
         Clean(q, old, pre), Writes(p, pre, s) \/ Clean(q, old, s),
         ~same_state(pre, s), Legal(p, pre, s)
  PROVE  claim(p, pre, s) \in States /\ Clean(q, old, claim(p, pre, s))
<1>0. p \in Writers /\ p \notin {"system", "guest"}
  BY DEF Writers, Callees, run_builtin
<1>1. /\ old.lamports \in Nat /\ pre.lamports \in Nat /\ s.lamports \in Nat
      /\ old.data \in Seq(Writers) /\ pre.data \in Seq(Writers) /\ s.data \in Seq(Writers)
      /\ Len(old.data) \in Nat /\ Len(pre.data) \in Nat /\ Len(s.data) \in Nat
  BY DEF States
<1>2. is_blank(pre) => is_blank(old)
  BY <1>1 DEF Clean, is_blank
<1>3. CASE Writes(p, pre, s) /\ is_blank(pre) /\ pre.owner # p /\ ~credit_only(pre, s)
  <2> DEFINE c == [s EXCEPT !.owner = p]
  <2>1. s.owner = pre.owner
    BY <1>0, <1>3 DEF Writes
  <2>2. claim(p, pre, s) = c
    BY <1>3, <2>1 DEF claim
  <2>3. c \in States /\ c.owner = p /\ c.lamports = s.lamports /\ c.data = s.data
    BY <1>0 DEF States
  <2>4. /\ \A i \in 1 .. Len(s.data) : s.data[i] = p
        /\ s.lamports >= pre.lamports /\ pre.data = <<>>
    BY <1>1, <1>3 DEF Writes, is_blank
  <2>5. s.data # <<>>
    <3> SUFFICES ASSUME s.data = <<>> PROVE FALSE
      OBVIOUS
    <3>1. s = [pre EXCEPT !.lamports = s.lamports]
      BY <2>1, <2>4 DEF States
    <3> QED BY <1>3, <2>4, <3>1 DEF credit_only
  <2>6. is_blank(old) /\ old.data = <<>> /\ old.lamports = 0
    BY <1>2, <1>3 DEF is_blank
  <2> HIDE DEF c
  <2>7. Clean(q, old, c)
    BY <1>1, <2>3, <2>4, <2>5, <2>6 DEF Clean
  <2> QED BY <2>2, <2>3, <2>7
<1>4. CASE Writes(p, pre, s) /\ ~(is_blank(pre) /\ pre.owner # p /\ ~credit_only(pre, s))
  <2>1. claim(p, pre, s) = s
    BY <1>4 DEF claim
  <2>2. s.owner = pre.owner
    BY <1>0, <1>4 DEF Writes
  <2>3. pre.owner = p \/ credit_only(pre, s)
    BY <1>4 DEF Legal
  <2>4. CASE credit_only(pre, s)
    <3>1. s.data = pre.data /\ s.lamports >= pre.lamports
      BY <2>4 DEF credit_only, States
    <3> QED BY <1>1, <2>1, <2>2, <3>1 DEF Clean
  <2>5. CASE pre.owner = p
    <3>1. \A i \in Len(old.data) + 1 .. Len(s.data) : s.data[i] = p
      <4> TAKE i \in Len(old.data) + 1 .. Len(s.data)
      <4>1. CASE i <= Len(pre.data)
        BY <1>1, <1>4, <2>5, <4>1 DEF Writes, Clean
      <4>2. CASE i > Len(pre.data)
        BY <1>1, <1>4, <4>2 DEF Writes
      <4> QED BY <1>1, <4>1, <4>2
    <3>2. s.data = <<>> => pre.data = <<>>
      BY <1>1, <1>4 DEF Writes
    <3> QED BY <1>1, <1>4, <2>1, <2>2, <2>5, <3>1, <3>2 DEF Clean, Writes
  <2> QED BY <2>3, <2>4, <2>5
<1>5. CASE Clean(q, old, s)
  <2>1. CASE is_blank(pre) /\ ~credit_only(pre, s)
    <3>1. is_blank(old) /\ pre.owner = old.owner /\ pre.data = <<>> /\ pre.lamports = 0
      BY <1>2, <2>1 DEF Clean, is_blank
    <3>2. CASE s.data = <<>>
      <4>1. s.owner = pre.owner
        BY <1>5, <3>1, <3>2 DEF Clean
      <4>2. s = [pre EXCEPT !.lamports = s.lamports]
        BY <3>1, <3>2, <4>1 DEF States
      <4>3. s.lamports >= pre.lamports
        BY <1>1, <3>1
      <4> QED BY <2>1, <4>2, <4>3 DEF credit_only
    <3>3. CASE s.data # <<>>
      <4>1. s.owner \in Callees \ {q}
        BY <1>5, <3>1, <3>3 DEF Clean
      <4>2. s.owner # pre.owner
        BY <3>1, <4>1 DEF Callees
      <4>3. claim(p, pre, s) = s
        BY <4>2 DEF claim
      <4> QED BY <1>5, <4>3
    <3> QED BY <3>2, <3>3
  <2>2. CASE ~(is_blank(pre) /\ ~credit_only(pre, s))
    <3>1. claim(p, pre, s) = s
      BY <2>2 DEF claim
    <3> QED BY <1>5, <3>1
  <2> QED BY <2>1, <2>2
<1> QED BY <1>3, <1>4, <1>5

\* A legal change by the instruction's program, or one it got back, can be stored.
LEMMA TopLeavesFine ==
  ASSUME NEW p, NEW old \in States, NEW s \in States,
         is_blank(old) => old.owner \in {p, "system"},
         Writes(p, old, s) \/ Clean(p, old, s), Legal(p, old, s)
  PROVE  Fine(old, claim(p, old, s))
<1>1. /\ old.data \in Seq(Writers) /\ s.data \in Seq(Writers)
      /\ Len(old.data) \in Nat /\ Len(s.data) \in Nat
  BY DEF States
<1> DEFINE W(t) == {t.data[i] : i \in Len(old.data) + 1 .. Len(t.data)}
<1>2. CASE credit_only(old, s)
  <2>1. claim(p, old, s) = s
    BY <1>2 DEF claim
  <2>2. s.data = old.data
    BY <1>2 DEF credit_only, States
  <2>3. W(s) = {}
    BY <1>1, <2>2
  <2> QED BY <2>1, <2>3 DEF Fine
<1>3. CASE ~credit_only(old, s) /\ Writes(p, old, s)
  <2>1. W(s) \subseteq {p}
    BY <1>1, <1>3 DEF Writes
  <2>2. CASE old.owner = p
    <3>1. claim(p, old, s) = s
      BY <2>2 DEF claim
    <3>2. p \in {s.owner, "system", "guest"}
      BY <1>3, <2>2 DEF Writes
    <3> QED BY <2>1, <2>2, <3>1, <3>2 DEF Fine
  <2>3. CASE old.owner # p
    <3>1. is_blank(old)
      BY <1>3, <2>3 DEF Legal
    <3>2. CASE s.owner = old.owner
      <4> DEFINE c == [s EXCEPT !.owner = p]
      <4>1. claim(p, old, s) = c
        BY <1>3, <2>3, <3>1, <3>2 DEF claim
      <4>2. c.owner = p /\ c.data = s.data
        BY DEF States
      <4> HIDE DEF c
      <4> QED BY <2>1, <3>1, <4>1, <4>2 DEF Fine
    <3>3. CASE s.owner # old.owner
      <4>1. claim(p, old, s) = s /\ p \in {"system", "guest"}
        BY <1>3, <3>3 DEF claim, Writes
      <4> QED BY <2>1, <3>1, <4>1 DEF Fine
    <3> QED BY <3>2, <3>3
  <2> QED BY <2>2, <2>3
<1>4. CASE ~credit_only(old, s) /\ Clean(p, old, s)
  <2>1. W(s) \subseteq {s.owner}
    BY <1>1, <1>4 DEF Clean
  <2>2. ~is_blank(old) => s.owner = old.owner
    BY <1>4 DEF Clean
  <2>3. CASE claim(p, old, s) = s
    BY <2>1, <2>2, <2>3 DEF Fine
  <2>4. CASE claim(p, old, s) # s
    <3>1. is_blank(old) /\ s.owner = old.owner
      BY <2>4 DEF claim
    <3>2. s.data = <<>>
      BY <1>4, <3>1 DEF Clean, Callees
    <3>3. claim(p, old, s).data = <<>>
      BY <3>2 DEF claim, States
    <3>4. Len(<<>>) = 0 /\ Len(old.data) + 1 .. 0 = {}
      BY <1>1
    <3> QED BY <3>1, <3>3, <3>4 DEF Fine
  <2> QED BY <2>3, <2>4
<1> QED BY <1>2, <1>3, <1>4

\* What called programs may leave can be stored.
LEMMA CleanIsFine ==
  ASSUME NEW q, NEW old \in States, NEW s \in States, Clean(q, old, s)
  PROVE  Fine(old, s)
BY DEF Fine, Clean

-----------------------------------------------------------------------------
(***************************************************************************)
(* Frames.                                                                 *)
(***************************************************************************)

\* A called program writes only what it may change.
LEMMA OwnTouched == \A p \in Callees : Own(p) \subseteq Touched(p)
BY OwnSlots DEF Callees, Touched

LEMMA TailOf ==
  ASSUME NEW S, NEW s \in Seq(S), s # <<>>
  PROVE  /\ Head(s) = s[1] /\ 1 \in DOMAIN s /\ Head(s) \in S
         /\ Tail(s) \in Seq(S) /\ DOMAIN Tail(s) = 1 .. Len(s) - 1
         /\ \A j \in DOMAIN Tail(s) : j + 1 \in DOMAIN s /\ Tail(s)[j] = s[j + 1]
<1>1. Len(s) \in Nat \ {0} /\ DOMAIN s = 1 .. Len(s)
  OBVIOUS
<1>2. DOMAIN Tail(s) = 1 .. Len(s) - 1 /\ Tail(s) \in Seq(S)
  BY <1>1
<1>3. \A j \in 1 .. Len(s) - 1 : j + 1 \in DOMAIN s /\ Tail(s)[j] = s[j + 1]
  BY <1>1
<1> QED BY <1>1, <1>2, <1>3

\* The frame f at depth d may change its copies to c2: its own slots as it may
\* write them, the others to what called programs may leave.
Changes(A, I, d, f, c2) ==
  /\ c2 \in Seq(Copies(A)) /\ DOMAIN c2 = DOMAIN f.copies
  /\ \A i \in DOMAIN c2 :
       LET p == f.program
           c == f.copies[i]
       IN /\ c2[i].key = c.key /\ c2[i].flag = c.flag
          /\ \/ c2[i].state = c.state
             \/ i \in Own(p) /\ \A pre \in States : Writes(p, pre, c.state) => Writes(p, pre, c2[i].state)
             \/ /\ i \notin Own(p) /\ (d > 1 => i \in Touched(p))
                /\ Clean(I.program, A[c.key], c2[i].state)

Gone(f, c2) == [f EXCEPT !.copies = c2, !.todo = Tail(@)]

\* A frame goes on, as the top of the stack, with copies changed as it may change them.
LEMMA FrameGoesOn ==
  ASSUME NEW A, NEW I, NEW st, StackOK(A, I, st), NEW d \in 1 .. Len(st),
         st[d].todo # <<>>, NEW c2, Changes(A, I, d, st[d], c2),
         \A k \in DOMAIN A : A[k] \in States,
         NEW t, t \in Seq(Frames(A)), Len(t) = d,
         t[d] = Gone(st[d], c2),
         \A e \in 1 .. d - 1 : t[e] = st[e]
  PROVE  StackOK(A, I, t)
<1> DEFINE f == st[d]
           g == t[d]
           p == f.program
<1>0. c2 \in Seq(Copies(A)) /\ DOMAIN c2 = DOMAIN st[d].copies
  BY DEF Changes
<1>1. st \in Seq(Frames(A)) /\ FrameOK(A, f) /\ f \in Frames(A)
  BY DEF StackOK, FrameOK
<1>2. /\ g.copies = c2 /\ g.todo = Tail(f.todo) /\ g.program = p /\ g.window = f.window
  BY <1>1 DEF Frames, Gone
<1>3. f.todo \in Seq(Plan(p)) /\ f.copies \in Seq(Copies(A)) /\ f.todo \in Seq(Effects)
  BY <1>1 DEF FrameOK, Frames
<1>4. /\ Tail(f.todo) \in Seq(Plan(p)) /\ DOMAIN Tail(f.todo) = 1 .. Len(f.todo) - 1
      /\ \A j \in DOMAIN Tail(f.todo) : j + 1 \in DOMAIN f.todo /\ Tail(f.todo)[j] = f.todo[j + 1]
  <2> DEFINE td == f.todo
             S == Plan(p)
  <2>1. td \in Seq(S) /\ td # <<>>
    BY <1>3
  <2> HIDE DEF td, S
  <2>2. /\ Tail(td) \in Seq(S) /\ DOMAIN Tail(td) = 1 .. Len(td) - 1
        /\ \A j \in DOMAIN Tail(td) : j + 1 \in DOMAIN td /\ Tail(td)[j] = td[j + 1]
    BY <2>1, TailOf
  <2> QED BY <2>2 DEF td, S
<1>5. g \in Frames(A)
  OBVIOUS
<1>6. FrameOK(A, g)
  <2>1. \A j \in DOMAIN f.todo : Slots(f.todo[j]) \subseteq DOMAIN f.copies
    BY <1>1 DEF FrameOK
  <2> QED BY <1>0, <1>2, <1>4, <1>5, <2>1 DEF FrameOK
<1>7. \A e \in DOMAIN t : FrameOK(A, t[e])
  BY <1>6 DEF StackOK
<1>8. CASE d = 1
  <2>1. Bottom(A, I, f)
    BY <1>8 DEF StackOK
  <2>2. \A i \in DOMAIN c2 : A[f.copies[i].key] \in States
    <3>1. \A i \in DOMAIN c2 : f.copies[i] \in Copies(A)
      BY <1>0, <1>3
    <3> QED BY <3>1 DEF Copies
  <2>3. Bottom(A, I, g)
    BY <1>0, <1>2, <1>8, <2>1, <2>2 DEF Bottom, Changes
  <2> QED BY <1>7, <1>8, <2>3 DEF StackOK
<1>9. CASE d > 1
  <2> DEFINE caller == st[d - 1]
  <2>1. Above(A, I, caller, f) /\ Bottom(A, I, st[1])
    BY <1>9 DEF StackOK
  <2>2. p \in Callees \ {I.program} /\ Own(p) \subseteq Touched(p)
    BY <2>1, OwnTouched DEF Above
  <2>3. Tail(f.todo) \in Seq(Called(p))
    <3>1. f.todo \in Seq(Called(p))
      BY <2>1 DEF Above
    <3> QED BY <3>1, TailOf
  <2>4. \A i \in DOMAIN c2 : caller.copies[f.window[i]].state \in States
    <3> TAKE i \in DOMAIN c2
    <3>1. caller \in Frames(A) /\ FrameOK(A, caller)
      BY <1>9 DEF StackOK, FrameOK
    <3>2. /\ caller.todo \in Seq(Effects) /\ caller.todo # <<>>
          /\ Head(caller.todo).op = "call" /\ Head(caller.todo).window = f.window
          /\ i \in DOMAIN f.window
      BY <1>0, <2>1, <3>1 DEF Above, Frames
    <3>3. Head(caller.todo) = caller.todo[1] /\ 1 \in DOMAIN caller.todo
      BY <3>2
    <3>4. Slots(caller.todo[1]) \subseteq DOMAIN caller.copies
      BY <3>1, <3>3 DEF FrameOK
    <3>5. f.window[i] \in DOMAIN caller.copies
      BY <3>2, <3>3, <3>4 DEF Slots
    <3>6. caller.copies \in Seq(Copies(A))
      BY <3>1 DEF Frames
    <3>7. caller.copies[f.window[i]] \in Copies(A)
      BY <3>5, <3>6
    <3> QED BY <3>7 DEF Copies
  <2>5. Above(A, I, caller, g)
    <3>1. \A i \in DOMAIN c2 :
            LET c == c2[i]
                of == caller.copies[f.window[i]]
            IN /\ c.key = of.key
               /\ i \in Head(caller.todo).signed \/ c.flag = of.flag
               /\ i \notin Touched(p) => c.state = of.state
               /\ i \in Touched(p) => Clean(I.program, A[c.key], of.state)
               /\ i \in Own(p) => Writes(p, of.state, c.state)
               /\ i \in Touched(p) \ Own(p) => Clean(I.program, A[c.key], c.state)
      <4> TAKE i \in DOMAIN c2
      <4> DEFINE c == f.copies[i]
                 of == caller.copies[f.window[i]]
      <4>1. /\ c.key = of.key
            /\ i \in Head(caller.todo).signed \/ c.flag = of.flag
            /\ i \notin Touched(p) => c.state = of.state
            /\ i \in Touched(p) => Clean(I.program, A[c.key], of.state)
            /\ i \in Own(p) => Writes(p, of.state, c.state)
            /\ i \in Touched(p) \ Own(p) => Clean(I.program, A[c.key], c.state)
        BY <1>0, <2>1 DEF Above
      <4>2. /\ c2[i].key = c.key /\ c2[i].flag = c.flag
            /\ \/ c2[i].state = c.state
               \/ i \in Own(p) /\ \A pre \in States : Writes(p, pre, c.state) => Writes(p, pre, c2[i].state)
               \/ i \notin Own(p) /\ i \in Touched(p) /\ Clean(I.program, A[c.key], c2[i].state)
        BY <1>9 DEF Changes
      <4>3. of.state \in States
        BY <2>4
      <4> HIDE DEF c, of, p, caller, f
      <4>4. /\ c2[i].key = of.key
            /\ i \in Head(caller.todo).signed \/ c2[i].flag = of.flag
            /\ i \notin Touched(p) => c2[i].state = of.state
            /\ i \in Touched(p) => Clean(I.program, A[c2[i].key], of.state)
            /\ i \in Own(p) => Writes(p, of.state, c2[i].state)
            /\ i \in Touched(p) \ Own(p) => Clean(I.program, A[c2[i].key], c2[i].state)
        BY <2>2, <4>1, <4>2, <4>3
      <4> QED BY <4>4 DEF of
    <3>2. /\ caller.todo # <<>> /\ Head(caller.todo).op = "call"
          /\ Head(caller.todo).window = f.window /\ Head(caller.todo).program = p
          /\ p \in Callees \ {I.program} /\ I.program # "token"
          /\ DOMAIN f.copies = DOMAIN f.window
      BY <2>1 DEF Above
    <3> HIDE DEF p, caller, f, g
    <3>3. DOMAIN c2 = DOMAIN f.window
      BY <1>0, <3>2 DEF f
    <3> QED BY <1>2, <2>3, <3>1, <3>2, <3>3 DEF Above
  <2>6. \A e \in 2 .. Len(t) : Above(A, I, t[e - 1], t[e])
    <3> TAKE e \in 2 .. Len(t)
    <3>1. CASE e = d
      BY <2>5, <1>9, <3>1
    <3>2. CASE e # d
      BY <3>2 DEF StackOK
    <3> QED BY <3>1, <3>2
  <2>7. t[1] = st[1]
    BY <1>9
  <2> QED BY <1>7, <2>1, <2>6, <2>7 DEF StackOK
<1> QED BY <1>8, <1>9

-----------------------------------------------------------------------------
(***************************************************************************)
(* The initial states.                                                     *)
(***************************************************************************)
Made(b) ==
  /\ b.program \in DOMAIN run_builtin /\ b.name \in DOMAIN run_builtin[b.program]
  /\ b.flags \in Seq(Flags)

LEMMA IxMade ==
  ASSUME NEW p \in DOMAIN run_builtin, NEW n \in DOMAIN run_builtin[p], NEW f \in Seq(Flags)
  PROVE  Made(Ix(p, n, f))
BY DEF Made, Ix

LEMMA SystemMade ==
  \A b \in {system_create_account, system_create_account_with_anchor, system_transfer,
            system_assign, system_allocate} : Made(b)
<1>1. "system" \in DOMAIN run_builtin /\ run_builtin["system"] = SystemProcess
  BY DEF run_builtin
<1>2. DOMAIN SystemProcess = {"CreateAccount", "CreateAccountWithAnchor", "Transfer", "Assign", "Allocate"}
  BY DEF SystemProcess
<1>3. <<"WS", "WS">> \in Seq(Flags) /\ <<"WS", "W">> \in Seq(Flags) /\ <<"WS">> \in Seq(Flags)
  BY DEF Flags
<1> QED BY <1>1, <1>2, <1>3, IxMade DEF system_create_account, system_create_account_with_anchor,
           system_transfer, system_assign, system_allocate

LEMMA TokenMade ==
  /\ \A b \in {token_initialize_mint, token_initialize_account, token_mint_to, token_transfer,
               token_burn} : Made(b)
  /\ \A b \in {Ix("token", "Approve", <<"W", "R", "RS">>), Ix("token", "Revoke", <<"W", "RS">>),
               Ix("token", "FreezeAccount", <<"W", "RS">>), Ix("token", "ThawAccount", <<"W", "RS">>),
               Ix("token", "CloseAccount", <<"W", "W", "RS">>)} : Made(b)
  /\ Made(create_associated_token_account)
<1>1. /\ "token" \in DOMAIN run_builtin /\ run_builtin["token"] = TokenProcess
      /\ "ata" \in DOMAIN run_builtin /\ run_builtin["ata"] = AtaProcess
  BY DEF run_builtin
<1>2. /\ DOMAIN TokenProcess = {"InitializeMint", "InitializeAccount", "MintTo", "Transfer", "Burn", "Approve",
                                "Revoke", "FreezeAccount", "ThawAccount", "CloseAccount"}
      /\ DOMAIN AtaProcess = {"Create"}
  BY DEF TokenProcess, AtaProcess
<1>3. /\ <<"W">> \in Seq(Flags) /\ <<"W", "R", "R">> \in Seq(Flags) /\ <<"W", "W", "RS">> \in Seq(Flags)
      /\ <<"W", "R", "RS">> \in Seq(Flags) /\ <<"W", "RS">> \in Seq(Flags)
      /\ <<"WS", "W", "R", "R">> \in Seq(Flags)
  BY DEF Flags
<1> DEFINE TokenIx(n, f) == Ix("token", n, f)
<1>0. \A n \in DOMAIN TokenProcess, f \in Seq(Flags) : Made(TokenIx(n, f))
  BY <1>1, IxMade
<1> HIDE DEF TokenIx
<1>4. /\ Made(TokenIx("InitializeMint", <<"W">>)) /\ Made(TokenIx("InitializeAccount", <<"W", "R", "R">>))
      /\ Made(TokenIx("MintTo", <<"W", "W", "RS">>)) /\ Made(TokenIx("Transfer", <<"W", "W", "RS">>))
      /\ Made(TokenIx("Burn", <<"W", "W", "RS">>))
  BY <1>0, <1>2, <1>3
<1>6. /\ Made(TokenIx("Approve", <<"W", "R", "RS">>)) /\ Made(TokenIx("Revoke", <<"W", "RS">>))
      /\ Made(TokenIx("FreezeAccount", <<"W", "RS">>)) /\ Made(TokenIx("ThawAccount", <<"W", "RS">>))
      /\ Made(TokenIx("CloseAccount", <<"W", "W", "RS">>))
  BY <1>0, <1>2, <1>3
<1>7. \A b \in {token_initialize_mint, token_initialize_account, token_mint_to, token_transfer, token_burn} :
        Made(b)
  BY <1>4 DEF TokenIx, token_initialize_mint, token_initialize_account, token_mint_to, token_transfer, token_burn
<1>5. Made(create_associated_token_account)
  BY <1>1, <1>2, <1>3, IxMade DEF create_associated_token_account
<1> QED BY <1>5, <1>6, <1>7 DEF TokenIx

LEMMA SwapMade ==
  /\ \A b \in {swap_initialize, swap_swap} : Made(b)
  /\ \A b \in {Ix("swap", "Swap", <<"W", "W", "W", "W", "W", "RS">>),
               Ix("swap", "Deposit", <<"W", "W", "W", "W", "W", "W", "RS", "W">>),
               Ix("swap", "Withdraw", <<"W", "W", "W", "W", "W", "W", "RS", "W">>)} : Made(b)
<1>1. "swap" \in DOMAIN run_builtin /\ run_builtin["swap"] = SwapProcess
  BY DEF run_builtin
<1>2. DOMAIN SwapProcess = {"Initialize", "Swap", "Deposit", "Withdraw"}
  BY DEF SwapProcess
<1>3. /\ <<"W", "R", "R", "W", "W", "W", "WS">> \in Seq(Flags)
      /\ <<"R", "W", "W", "W", "W", "RS">> \in Seq(Flags)
      /\ <<"W", "W", "W", "W", "W", "RS">> \in Seq(Flags)
      /\ <<"W", "W", "W", "W", "W", "W", "RS", "W">> \in Seq(Flags)
  BY DEF Flags
<1>4. Made(swap_initialize) /\ Made(swap_swap)
  BY <1>1, <1>2, <1>3, IxMade DEF swap_initialize, swap_swap
<1> QED BY <1>1, <1>2, <1>3, <1>4, IxMade

LEMMA OracleMade ==
  \A b \in {oracle_init_feed, oracle_update_price, oracle_add_publisher, oracle_remove_publisher} : Made(b)
<1>1. "oracle" \in DOMAIN run_builtin /\ run_builtin["oracle"] = OracleProcess
  BY DEF run_builtin
<1>2. DOMAIN OracleProcess = {"InitFeed", "UpdatePrice", "AddPublisher", "RemovePublisher"}
  BY DEF OracleProcess
<1>3. <<"W", "RS">> \in Seq(Flags)
  BY DEF Flags
<1> QED BY <1>1, <1>2, <1>3, IxMade DEF oracle_init_feed, oracle_update_price, oracle_add_publisher,
           oracle_remove_publisher, admin_ix

LEMMA LendingMade ==
  \A b \in {lending_init_collection, lending_place_bid, lending_cancel_bid, lending_accept_bid,
            lending_repay_loan, lending_claim_default} : Made(b)
<1>1. "lending" \in DOMAIN run_builtin /\ run_builtin["lending"] = LendingProcess
  BY DEF run_builtin
<1>2. DOMAIN LendingProcess = {"InitCollection", "PlaceBid", "CancelBid", "AcceptBid", "RepayLoan", "ClaimDefault"}
  BY DEF LendingProcess, LendingInstruction
<1>3. <<"W", "RS">> \in Seq(Flags) /\ <<"W", "WS">> \in Seq(Flags)
  BY DEF Flags
<1> QED BY <1>1, <1>2, <1>3, IxMade DEF lending_init_collection, lending_place_bid, lending_cancel_bid,
           lending_accept_bid, lending_repay_loan, lending_claim_default

LEMMA MoneyMarketMade ==
  \A b \in {mm_init_market, mm_sync_price, mm_add_liquidity, mm_remove_liquidity, mm_supply, mm_withdraw,
            mm_borrow, mm_repay, mm_liquidate} : Made(b)
<1>1. "mm" \in DOMAIN run_builtin /\ run_builtin["mm"] = MoneyMarketProcess
  BY DEF run_builtin
<1>2. DOMAIN MoneyMarketProcess = {"InitMarket", "SyncPrice", "AddLiquidity", "Supply", "Repay",
                                   "RemoveLiquidity", "Withdraw", "Borrow", "Liquidate"}
  BY DEF MoneyMarketProcess
<1>3. /\ <<"W", "R", "R", "W", "W", "RS", "R">> \in Seq(Flags) /\ <<"W", "R">> \in Seq(Flags)
      /\ <<"W", "W", "W", "W", "RS">> \in Seq(Flags)
      /\ <<"W", "W", "W", "W", "W", "W", "RS">> \in Seq(Flags)
  BY DEF Flags
<1> QED BY <1>1, <1>2, <1>3, IxMade DEF mm_init_market, mm_sync_price, mm_add_liquidity, mm_remove_liquidity,
           mm_supply, mm_withdraw, mm_borrow, mm_repay, mm_liquidate, liquidity_ix, vault_ix

LEMMA VaultMade ==
  /\ \A b \in {vault_init_vault, vault_deposit, vault_withdraw, vault_report, vault_report_with_market,
               vault_deploy, vault_undeploy} : Made(b)
  /\ Made(Ix("vault", "Withdraw", <<"W", "W", "W", "W", "W", "RS", "W", "W", "W">>))
<1>1. "vault" \in DOMAIN run_builtin /\ run_builtin["vault"] = VaultProcess
  BY DEF run_builtin
<1>2. DOMAIN VaultProcess = {"InitVault", "Deposit", "Withdraw", "Report", "Deploy", "Undeploy"}
  BY DEF VaultProcess
<1>3. /\ <<"W", "R", "R", "W", "RS">> \in Seq(Flags) /\ <<"W", "W", "W", "W", "W", "RS">> \in Seq(Flags)
      /\ <<"W", "RS", "R", "W", "W">> \in Seq(Flags) /\ <<"W", "RS", "R", "W", "W", "R">> \in Seq(Flags)
      /\ <<"W", "W", "W", "W", "W", "RS", "W", "W", "W">> \in Seq(Flags)
  BY DEF Flags
<1>4. \A b \in {vault_init_vault, vault_deposit, vault_withdraw, vault_report, vault_report_with_market,
               vault_deploy, vault_undeploy} : Made(b)
  BY <1>1, <1>2, <1>3, IxMade DEF vault_init_vault, vault_deposit, vault_withdraw, vault_report,
           vault_report_with_market, vault_deploy, vault_undeploy, user_ix, strategy_ix
<1> QED BY <1>1, <1>2, <1>3, <1>4, IxMade

LEMMA AssetsMade ==
  /\ \A b \in {runes_etch, runes_mint, runes_transfer, runes_burn, runes_init_balance} : Made(b)
  /\ \A b \in {nft_create_metadata, nft_update_metadata} : Made(b)
  /\ \A b \in {Ix("nft", "VerifyCreator", <<"W", "RS">>), Ix("nft", "MakeImmutable", <<"W", "RS">>)} : Made(b)
<1>1. /\ "runes" \in DOMAIN run_builtin /\ run_builtin["runes"] = RuneProcess
      /\ "nft" \in DOMAIN run_builtin /\ run_builtin["nft"] = MetadataProcess
  BY DEF run_builtin
<1>2. /\ DOMAIN RuneProcess = {"Etch", "Mint", "Transfer", "Burn", "InitBalance"}
      /\ DOMAIN MetadataProcess = {"Create", "Update", "VerifyCreator", "MakeImmutable"}
  BY DEF RuneProcess, MetadataProcess, MetadataInstruction
<1>3. /\ <<"W", "W", "RS">> \in Seq(Flags) /\ <<"W", "R">> \in Seq(Flags) /\ <<"W", "R", "RS">> \in Seq(Flags)
      /\ <<"W", "RS">> \in Seq(Flags)
  BY DEF Flags
<1> DEFINE RunesIx(n, f) == Ix("runes", n, f)
           NftIx(n, f) == Ix("nft", n, f)
<1>4. /\ \A n \in DOMAIN RuneProcess, f \in Seq(Flags) : Made(RunesIx(n, f))
      /\ \A n \in DOMAIN MetadataProcess, f \in Seq(Flags) : Made(NftIx(n, f))
  BY <1>1, IxMade
<1> HIDE DEF RunesIx, NftIx
<1>5. /\ Made(RunesIx("Etch", <<"W", "W", "RS">>)) /\ Made(RunesIx("Mint", <<"W", "W", "RS">>))
      /\ Made(RunesIx("Transfer", <<"W", "W", "RS">>)) /\ Made(RunesIx("Burn", <<"W", "W", "RS">>))
      /\ Made(RunesIx("InitBalance", <<"W", "R">>))
  BY <1>2, <1>3, <1>4
<1>6. /\ Made(NftIx("Create", <<"W", "R", "RS">>)) /\ Made(NftIx("Update", <<"W", "RS">>))
      /\ Made(NftIx("VerifyCreator", <<"W", "RS">>)) /\ Made(NftIx("MakeImmutable", <<"W", "RS">>))
  BY <1>2, <1>3, <1>4
<1>7. \A b \in {runes_etch, runes_mint, runes_transfer, runes_burn, runes_init_balance} : Made(b)
  BY <1>5 DEF RunesIx, runes_etch, runes_mint, runes_transfer, runes_burn, runes_init_balance
<1>8. \A b \in {nft_create_metadata, nft_update_metadata} : Made(b)
  BY <1>6 DEF NftIx, nft_create_metadata, nft_update_metadata
<1> QED BY <1>6, <1>7, <1>8 DEF NftIx

LEMMA GuestMade == Made(Ix("guest", "Run", <<"WS", "W">>)) /\ Made(Ix("guest", "RunOwn", <<"W", "R">>))
<1>1. "guest" \in DOMAIN run_builtin /\ run_builtin["guest"] = GuestProcess
  BY DEF run_builtin
<1>2. DOMAIN GuestProcess = {"Run", "RunOwn"}
  BY DEF GuestProcess, GuestInstruction
<1>3. <<"W", "R">> \in Seq(Flags) /\ <<"WS", "W">> \in Seq(Flags)
  BY DEF Flags
<1> QED BY <1>1, <1>2, <1>3, IxMade

\* Clients name programs and instructions that there are.
LEMMA ClientsMade == \A b \in Builders \cup ByHand : Made(b)
<1>1. \A b \in Builders : Made(b)
  BY SystemMade, TokenMade, SwapMade, OracleMade, LendingMade, MoneyMarketMade, VaultMade, AssetsMade
  DEF Builders
<1>2. \A b \in ByHand : Made(b)
  BY TokenMade, SwapMade, VaultMade, AssetsMade, GuestMade DEF ByHand
<1> QED BY <1>1, <1>2

\* The accounts an instruction finds, whatever clients pass.
LEMMA ExpectedStates ==
  ASSUME NEW b \in Builders \cup ByHand, NEW i \in Nat,
         NEW a \in Expected(b.program, Instruction[b.program][b.name][i])
  PROVE  a \in States /\ (is_blank(a) => a.owner \in {b.program, "system"})
<1> DEFINE kind == Instruction[b.program][b.name][i]
<1>1. kind \in Writers
  BY DEF Writers, Kinds
<1>2. b.program \in Writers
  BY ClientsMade DEF Made, Writers
<1>3. "system" \in Writers /\ "mm" \in Writers /\ "runes" \in Writers
  BY DEF Writers, run_builtin
<1> HIDE DEF kind
<1>4. \/ a = Account("system", 1, <<>>) \/ a = Fresh(b.program) \/ a = Fresh("system")
      \/ \E w \in Writers : a = Account(w, 0, <<w>>)
  <2>1. a \in Expected(b.program, kind)
    BY DEF kind
  <2>2. CASE kind = "wallet"
    BY <2>1, <2>2 DEF Expected
  <2>3. CASE kind = "new"
    BY <2>1, <2>3 DEF Expected, New
  <2>4. CASE kind = "position"
    BY <1>3, <2>1, <2>4 DEF Expected, New
  <2>5. CASE kind = "balance"
    BY <1>3, <2>1, <2>5 DEF Expected, New
  <2>6. CASE kind \notin {"wallet", "new", "position", "balance"}
    <3>1. a = Account(kind, 0, <<kind>>)
      BY <2>1, <2>6 DEF Expected
    <3> QED BY <1>1, <3>1
  <2> QED BY <2>2, <2>3, <2>4, <2>5, <2>6
<1>5. CASE a = Account("system", 1, <<>>)
  BY <1>3, <1>5 DEF Account, States, is_blank
<1>6. ASSUME NEW w \in {b.program, "system"}, a = Fresh(w)
      PROVE  a \in States /\ a.owner = w
  <2>1. w \in Writers
    BY <1>2, <1>3
  <2>2. a = [owner |-> w, lamports |-> 0, data |-> <<>>]
    BY <1>6 DEF Fresh, Account
  <2> QED BY <2>1, <2>2 DEF States
<1>7. ASSUME NEW w \in Writers, a = Account(w, 0, <<w>>) PROVE a \in States /\ ~is_blank(a)
  BY <1>7 DEF Account, States, is_blank
<1> QED BY <1>4, <1>5, <1>6, <1>7

LEMMA ForeignStates ==
  ASSUME NEW a \in {Account(p, 0, <<p>>) : p \in Strangers} \cup {Account("system", 1, <<>>)}
  PROVE  a \in States /\ ~is_blank(a)
<1>1. "system" \in Writers /\ Strangers \subseteq Writers
  BY DEF Writers, run_builtin
<1>2. CASE a = Account("system", 1, <<>>)
  BY <1>1, <1>2 DEF Account, States, is_blank
<1>3. CASE a \in {Account(p, 0, <<p>>) : p \in Strangers}
  <2>1. PICK p \in Strangers : a = Account(p, 0, <<p>>)
    BY <1>3
  <2> QED BY <1>1, <2>1 DEF Account, States, is_blank
<1> QED BY <1>2, <1>3

LEMMA InitOK ==
  ASSUME InvocationInit
  PROVE  IxOK(acct, ix) /\ stack = <<>> /\ outcome = "running"
<1>1. PICK b \in Builders \cup ByHand :
        LET n == Len(b.flags)
            asMade == [i \in 1 .. n |-> i]
            right  == Tables(b.program, Instruction[b.program][b.name], n)
        IN \E f \in {b.flags} \cup Reflagged(b.flags), k \in {asMade} \cup Doubled(n),
              t \in right \cup UNION {Foreign(r) : r \in right} :
             LET departures == Cardinality({x \in {<<1, f = b.flags>>, <<2, k = asMade>>,
                                                   <<3, t \in right>>} : ~x[2]})
             IN /\ departures <= MaxDeviations
                /\ ix = [program |-> b.program, name |-> b.name, flags |-> f, keys |-> k,
                         was |-> t, built |-> b \in Builders /\ departures = 0]
                /\ acct = t
  BY DEF InvocationInit
<1> DEFINE n == Len(b.flags)
           asMade == [i \in 1 .. n |-> i]
           right == Tables(b.program, Instruction[b.program][b.name], n)
<1>2. Made(b)
  BY ClientsMade
<1>3. b.flags \in Seq(Flags) /\ n \in Nat
  BY <1>2 DEF Made
<1>4. PICK f \in {b.flags} \cup Reflagged(b.flags), k \in {asMade} \cup Doubled(n),
           t \in right \cup UNION {Foreign(r) : r \in right} :
        LET departures == Cardinality({x \in {<<1, f = b.flags>>, <<2, k = asMade>>,
                                              <<3, t \in right>>} : ~x[2]})
        IN /\ departures <= MaxDeviations
           /\ ix = [program |-> b.program, name |-> b.name, flags |-> f, keys |-> k,
                    was |-> t, built |-> b \in Builders /\ departures = 0]
           /\ acct = t
  BY <1>1, Zenon
<1>13. /\ ix.program = b.program /\ ix.name = b.name /\ ix.flags = f /\ ix.keys = k /\ ix.was = t
       /\ acct = t
  BY <1>4
<1>5. f \in Seq(Flags) /\ Len(f) = n
  BY <1>3, <1>4 DEF Reflagged
<1>6. k \in [1 .. n -> 1 .. n]
  BY <1>3, <1>4 DEF Doubled
<1>7. ASSUME NEW r \in right
      PROVE  /\ DOMAIN r = 1 .. n /\ r \in [1 .. n -> States]
             /\ \A i \in 1 .. n : is_blank(r[i]) => r[i].owner \in {b.program, "system"}
  <2>1. /\ DOMAIN r = 1 .. n
        /\ \A i \in 1 .. n : r[i] \in Expected(b.program, Instruction[b.program][b.name][i])
        /\ r = [i \in 1 .. n |-> r[i]]
    BY DEF Tables
  <2>2. \A i \in 1 .. n : r[i] \in States /\ (is_blank(r[i]) => r[i].owner \in {b.program, "system"})
    <3> TAKE i \in 1 .. n
    <3>1. i \in Nat /\ r[i] \in Expected(b.program, Instruction[b.program][b.name][i])
      BY <2>1
    <3> HIDE DEF n, right
    <3> QED BY <3>1, ExpectedStates
  <2> QED BY <2>1, <2>2
<1>8. /\ t \in [1 .. n -> States]
      /\ \A i \in 1 .. n : is_blank(t[i]) => t[i].owner \in {b.program, "system"}
  <2>1. CASE t \in right
    BY <1>7, <2>1
  <2>2. CASE t \notin right
    <3>1. PICK r \in right : t \in Foreign(r)
      BY <1>4, <2>2
    <3>2. PICK j \in DOMAIN r, a \in {Account(p, 0, <<p>>) : p \in Strangers} \cup {Account("system", 1, <<>>)} :
            t = [r EXCEPT ![j] = a]
      BY <3>1 DEF Foreign
    <3>3. a \in States /\ ~is_blank(a)
      BY ForeignStates
    <3>4. /\ r \in [1 .. n -> States]
          /\ \A i \in 1 .. n : is_blank(r[i]) => r[i].owner \in {b.program, "system"}
      BY <1>7
    <3> HIDE DEF n
    <3> QED BY <3>2, <3>3, <3>4
  <2> QED BY <2>1, <2>2
<1>9. acct \in Seq(States) /\ DOMAIN acct = 1 .. n
  BY <1>3, <1>13, <1>8
<1>10. ix.keys \in Seq(DOMAIN acct) /\ Len(ix.keys) = n
  BY <1>3, <1>13, <1>6, <1>9
<1>11. \A j \in DOMAIN acct : is_blank(acct[j]) => acct[j].owner \in {ix.program, "system"}
  BY <1>13, <1>8, <1>9
<1>12. IxOK(acct, ix)
  BY <1>2, <1>13, <1>5, <1>9, <1>10, <1>11 DEF IxOK, Made
<1> QED BY <1>12 DEF InvocationInit

-----------------------------------------------------------------------------
(***************************************************************************)
(* A program's own effects.                                                *)
(***************************************************************************)
LEMMA TopOf ==
  ASSUME NEW A, NEW I, NEW st, StackOK(A, I, st), st # <<>>
  PROVE  LET f == Last(st)
         IN /\ Len(st) \in Nat \ {0} /\ f = st[Len(st)] /\ FrameOK(A, f)
            /\ st \in Seq(Frames(A)) /\ f \in Frames(A)
            /\ f.program \in DOMAIN run_builtin /\ f.program \in Writers
            /\ f.copies \in Seq(Copies(A)) /\ f.window \in Seq(Nat)
            /\ f.todo # <<>> => /\ Head(f.todo) \in Plan(f.program)
                                /\ Slots(Head(f.todo)) \subseteq DOMAIN f.copies
<1> DEFINE f == Last(st)
           S == Frames(A)
<1>1. st \in Seq(S)
  BY DEF StackOK
<1>2. Len(st) \in Nat \ {0}
  BY <1>1
<1>3. f = st[Len(st)]
  BY DEF Last
<1>4. FrameOK(A, f)
  BY <1>1, <1>2, <1>3 DEF StackOK
<1>5. f \in Frames(A) /\ f.todo \in Seq(Plan(f.program))
  BY <1>4 DEF FrameOK
<1>6. /\ f.program \in DOMAIN run_builtin /\ f.program \in Writers
      /\ f.copies \in Seq(Copies(A)) /\ f.window \in Seq(Nat)
  BY <1>5 DEF Frames, Writers
<1>7. ASSUME f.todo # <<>>
      PROVE  Head(f.todo) \in Plan(f.program) /\ Slots(Head(f.todo)) \subseteq DOMAIN f.copies
  <2> DEFINE td == f.todo
             P == Plan(f.program)
  <2>1. td \in Seq(P) /\ td # <<>>
    BY <1>5, <1>7
  <2> HIDE DEF td, P
  <2>2. Head(td) \in P /\ Head(td) = td[1] /\ 1 \in DOMAIN td
    BY <2>1, TailOf
  <2>3. \A j \in DOMAIN td : Slots(td[j]) \subseteq DOMAIN f.copies
    BY <1>4 DEF FrameOK, td
  <2>4. Head(td) \in P /\ Slots(Head(td)) \subseteq DOMAIN f.copies
    BY <2>2, <2>3
  <2> QED BY <2>4 DEF td, P
<1> QED BY <1>1, <1>2, <1>3, <1>4, <1>5, <1>6, <1>7

\* The top frame goes on with slots of its own changed as it may change them.
LEMMA StackGoesOn ==
  ASSUME NEW A, NEW I, NEW st, StackOK(A, I, st), IxOK(A, I), st # <<>>, Last(st).todo # <<>>,
         NEW c2 \in Seq(Copies(A)), DOMAIN c2 = DOMAIN Last(st).copies,
         \A i \in DOMAIN c2 :
           LET p == Last(st).program
               c == Last(st).copies[i]
           IN /\ c2[i].key = c.key /\ c2[i].flag = c.flag
              /\ \/ c2[i].state = c.state
                 \/ i \in Own(p) /\ \A pre \in States : Writes(p, pre, c.state) => Writes(p, pre, c2[i].state)
  PROVE  StackOK(A, I, Append(Front(st), Gone(Last(st), c2)))
<1> DEFINE S == Frames(A)
           d == Len(st)
           f == Last(st)
           g == Gone(f, c2)
           t == Append(Front(st), g)
<1>1. /\ d \in Nat \ {0} /\ f = st[d] /\ st \in Seq(S) /\ f \in S
  BY TopOf
<1>2. g \in S
  <2>1. f.todo \in Seq(Effects) /\ f.todo # <<>>
    BY <1>1 DEF Frames
  <2>2. Tail(f.todo) \in Seq(Effects)
    BY <2>1, TailOf
  <2> QED BY <1>1, <2>2 DEF Frames, Gone
<1>3. \A k \in DOMAIN A : A[k] \in States
  BY DEF IxOK
<1> HIDE DEF S, g, t
<1>4. /\ t \in Seq(S) /\ Len(t) = d /\ t[d] = g /\ \A e \in 1 .. d - 1 : t[e] = st[e]
  BY <1>1, <1>2, TopReplaced DEF t
<1>5. g = Gone(st[d], c2)
  BY <1>1 DEF g
<1>6. d \in 1 .. Len(st) /\ st[d].todo # <<>> /\ DOMAIN c2 = DOMAIN st[d].copies
  BY <1>1
<1>7. \A i \in DOMAIN c2 :
        LET p == st[d].program
            c == st[d].copies[i]
        IN /\ c2[i].key = c.key /\ c2[i].flag = c.flag
           /\ \/ c2[i].state = c.state
              \/ i \in Own(p) /\ \A pre \in States : Writes(p, pre, c.state) => Writes(p, pre, c2[i].state)
  BY <1>1
<1> HIDE DEF d
<1>8. StackOK(A, I, t)
  <2>1. /\ t \in Seq(Frames(A)) /\ Len(t) = d
        /\ t[d] = Gone(st[d], c2)
        /\ \A e \in 1 .. d - 1 : t[e] = st[e]
    BY <1>4, <1>5 DEF S
  <2>2. Changes(A, I, d, st[d], c2)
    BY <1>6, <1>7 DEF Changes
  <2> QED BY <1>3, <1>6, <2>1, <2>2, FrameGoesOn
<1> QED BY <1>8 DEF t, g

LEMMA WritesMore ==
  ASSUME NEW p \in Writers, NEW s \in States
  PROVE  /\ [s EXCEPT !.data = Append(@, p)] \in States
         /\ [s EXCEPT !.lamports = @ + 1] \in States
         /\ [s EXCEPT !.data = Append(@, p), !.owner = "token"] \in States
         /\ \A pre \in States : Writes(p, pre, s) =>
              /\ Writes(p, pre, [s EXCEPT !.data = Append(@, p)])
              /\ Writes(p, pre, [s EXCEPT !.lamports = @ + 1])
              /\ p \in {"system", "guest"}
                   => Writes(p, pre, [s EXCEPT !.data = Append(@, p), !.owner = "token"])
<1> DEFINE w == [s EXCEPT !.data = Append(@, p)]
           a == [s EXCEPT !.lamports = @ + 1]
           g == [s EXCEPT !.data = Append(@, p), !.owner = "token"]
<1>1. "token" \in Writers
  BY DEF Writers, run_builtin
<1>2. s.data \in Seq(Writers) /\ s.lamports \in Nat /\ s.owner \in Writers
  BY DEF States
<1>3. /\ Append(s.data, p) \in Seq(Writers) /\ Len(s.data) \in Nat
      /\ Len(Append(s.data, p)) = Len(s.data) + 1 /\ Append(s.data, p)[Len(s.data) + 1] = p
      /\ \A i \in 1 .. Len(s.data) : Append(s.data, p)[i] = s.data[i]
  <2> DEFINE td == s.data
             W == Writers
  <2> HIDE DEF td, W
  <2>1. td \in Seq(W) /\ p \in W
    BY <1>2 DEF td, W
  <2>2. /\ Append(td, p) \in Seq(W) /\ Len(td) \in Nat
        /\ Len(Append(td, p)) = Len(td) + 1 /\ Append(td, p)[Len(td) + 1] = p
        /\ \A i \in 1 .. Len(td) : Append(td, p)[i] = td[i]
    BY <2>1, Pushed
  <2> QED BY <2>2 DEF td, W
<1>4. /\ w \in States /\ w.data = Append(s.data, p) /\ w.lamports = s.lamports /\ w.owner = s.owner
      /\ a \in States /\ a.data = s.data /\ a.lamports = s.lamports + 1 /\ a.owner = s.owner
      /\ g \in States /\ g.data = Append(s.data, p) /\ g.lamports = s.lamports
  <2> DEFINE more == Append(s.data, p)
  <2>1. more \in Seq(Writers)
    BY <1>3
  <2> HIDE DEF more
  <2>2. s \in [owner : Writers, lamports : Nat, data : Seq(Writers)]
    BY DEF States
  <2>3. /\ w = [s EXCEPT !.data = more] /\ a = [s EXCEPT !.lamports = s.lamports + 1]
        /\ g = [s EXCEPT !.data = more, !.owner = "token"]
    BY DEF more
  <2>4. w \in States /\ w.data = more /\ w.lamports = s.lamports /\ w.owner = s.owner
    BY <2>1, <2>2, <2>3 DEF States
  <2>5. a \in States /\ a.data = s.data /\ a.lamports = s.lamports + 1 /\ a.owner = s.owner
    BY <1>2, <2>2, <2>3 DEF States
  <2>6. g \in States /\ g.data = more /\ g.lamports = s.lamports
    BY <1>1, <2>1, <2>2, <2>3 DEF States
  <2> QED BY <2>4, <2>5, <2>6 DEF more
<1> HIDE DEF w, a, g
<1>5. ASSUME NEW pre \in States, Writes(p, pre, s)
      PROVE  /\ Writes(p, pre, w) /\ Writes(p, pre, a)
             /\ p \in {"system", "guest"} => Writes(p, pre, g)
  <2>1. /\ pre.lamports \in Nat /\ pre.data \in Seq(Writers) /\ Len(pre.data) \in Nat
    BY DEF States
  <2>2. Writes(p, pre, a)
    BY <1>2, <1>4, <1>5, <2>1 DEF Writes
  <2>3. /\ \A i \in 1 .. Len(pre.data) : Append(s.data, p)[i] = pre.data[i]
        /\ \A i \in Len(pre.data) + 1 .. Len(s.data) + 1 : Append(s.data, p)[i] = p
    BY <1>3, <1>5, <2>1 DEF Writes
  <2>4. Writes(p, pre, w)
    BY <1>2, <1>3, <1>4, <1>5, <2>1, <2>3 DEF Writes
  <2>5. p \in {"system", "guest"} => Writes(p, pre, g)
    BY <1>2, <1>3, <1>4, <1>5, <2>1, <2>3 DEF Writes
  <2> QED BY <2>2, <2>4, <2>5
<1> QED BY <1>4, <1>5 DEF w, a, g

LEMMA CopyChanged ==
  ASSUME NEW A, NEW copies \in Seq(Copies(A)), NEW i \in DOMAIN copies, NEW s \in States
  PROVE  LET c2 == [copies EXCEPT ![i] = [copies[i] EXCEPT !.state = s]]
         IN /\ c2 \in Seq(Copies(A)) /\ DOMAIN c2 = DOMAIN copies
            /\ \A j \in DOMAIN c2 : /\ c2[j].key = copies[j].key /\ c2[j].flag = copies[j].flag
                                    /\ c2[j].state = IF j = i THEN s ELSE copies[j].state
<1> DEFINE x == [copies[i] EXCEPT !.state = s]
<1>1. copies[i] \in Copies(A)
  OBVIOUS
<1>2. x \in Copies(A) /\ x.key = copies[i].key /\ x.flag = copies[i].flag /\ x.state = s
  BY <1>1 DEF Copies
<1> HIDE DEF x
<1> DEFINE c2 == [copies EXCEPT ![i] = x]
<1>3. c2 \in Seq(Copies(A)) /\ DOMAIN c2 = DOMAIN copies
  BY <1>2
<1>4. \A j \in DOMAIN c2 : c2[j] = IF j = i THEN x ELSE copies[j]
  BY <1>3
<1>5. \A j \in DOMAIN c2 : /\ c2[j].key = copies[j].key /\ c2[j].flag = copies[j].flag
                           /\ c2[j].state = IF j = i THEN s ELSE copies[j].state
  BY <1>2, <1>4
<1> QED BY <1>3, <1>5 DEF x

\* The running program changes one slot as it may.
LEMMA SlotChanged ==
  ASSUME NEW A, NEW I, NEW st, StackOK(A, I, st), IxOK(A, I), st # <<>>, Last(st).todo # <<>>,
         NEW i \in DOMAIN Last(st).copies, i \in Own(Last(st).program), NEW s \in States,
         \A pre \in States : Writes(Last(st).program, pre, Last(st).copies[i].state)
                               => Writes(Last(st).program, pre, s)
  PROVE  StackOK(A, I, Append(Front(st),
                   Gone(Last(st), [Last(st).copies EXCEPT ![i] = [Last(st).copies[i] EXCEPT !.state = s]])))
<1> DEFINE f == Last(st)
           c2 == [f.copies EXCEPT ![i] = [f.copies[i] EXCEPT !.state = s]]
<1>1. f.copies \in Seq(Copies(A))
  BY TopOf
<1>2. /\ c2 \in Seq(Copies(A)) /\ DOMAIN c2 = DOMAIN f.copies
      /\ \A j \in DOMAIN c2 : /\ c2[j].key = f.copies[j].key /\ c2[j].flag = f.copies[j].flag
                              /\ c2[j].state = IF j = i THEN s ELSE f.copies[j].state
  BY <1>1, CopyChanged
<1> HIDE DEF c2
<1>3. \A j \in DOMAIN c2 :
        LET p == Last(st).program
            c == Last(st).copies[j]
        IN /\ c2[j].key = c.key /\ c2[j].flag = c.flag
           /\ \/ c2[j].state = c.state
              \/ j \in Own(p) /\ \A pre \in States : Writes(p, pre, c.state) => Writes(p, pre, c2[j].state)
  <2> TAKE j \in DOMAIN c2
  <2>1. CASE j = i
    BY <1>2, <2>1
  <2>2. CASE j # i
    BY <1>2, <2>2
  <2> QED BY <2>1, <2>2
<1>4. StackOK(A, I, Append(Front(st), Gone(Last(st), c2)))
  BY <1>2, <1>3, StackGoesOn
<1> QED BY <1>4 DEF c2

\* OnlyOwnersWrite, account by account.
AccountsFine(A, was) == \A k \in DOMAIN A : Fine(was[k], A[k])

LEMMA OwnersByAccount ==
  /\ OnlyOwnersWrite <=> AccountsFine(acct, ix.was)
  /\ OnlyOwnersWrite' <=> AccountsFine(acct', ix'.was)
BY Zenon DEF OnlyOwnersWrite, AccountsFine, Fine

LEMMA StaysOK ==
  ASSUME InvocationInv, outcome = "running", stack # <<>>, StackOK(acct, ix, stack'),
         UNCHANGED <<ix, acct, approved, outcome>>
  PROVE  InvocationInv'
<1>1. IxOK(acct, ix) /\ TrailOK(acct, ix, approved) /\ OnlyOwnersWrite
  BY DEF InvocationInv
<1>2. OnlyOwnersWrite'
  BY <1>1, OwnersByAccount
<1>3. IxOK(acct', ix') /\ TrailOK(acct', ix', approved') /\ StackOK(acct', ix', stack') /\ outcome' = "running"
  BY <1>1
<1> QED BY <1>2, <1>3 DEF InvocationInv

LEMMA Fails ==
  ASSUME InvocationInv, NEW error, error # "running", Fail(error)
  PROVE  InvocationInv'
<1>1. OnlyOwnersWrite'
  BY OwnersByAccount DEF InvocationInv, Fail
<1>2. outcome' # "running" /\ stack' = <<>>
  BY DEF Fail
<1> QED BY <1>1, <1>2 DEF InvocationInv

LEMMA RunningIsRunning ==
  ASSUME InvocationInv, stack # <<>>
  PROVE  /\ outcome = "running" /\ IxOK(acct, ix) /\ StackOK(acct, ix, stack)
         /\ TrailOK(acct, ix, approved)
BY DEF InvocationInv

\* The effects that a program has in its plan, and where.
LEMMA PlannedSlots ==
  ASSUME NEW p, NEW e \in Plan(p), NEW D, Slots(e) \subseteq D, e.op \in Plain
  PROVE  /\ e.op \in {"sign", "put", "set", "add", "give"} => e.slot \in D
         /\ e.op \in {"put", "set", "add", "give"} => e.slot \in Own(p)
         /\ e.op = "give" => p \in {"system", "guest"}
<1>1. e \in Effects /\ Sound(p, e)
  BY DEF Plan
<1>2. e \in [op : Plain, slot : Nat]
  BY <1>1 DEF Effects, Calls, Plain
<1>3. e.slot \in D
  BY DEF Slots, Plain
<1>4. e.op \in {"put", "set", "add"} => e.slot \in Own(p)
  BY <1>1 DEF Sound
<1>5. e.op = "give" => p \in {"system", "guest"} /\ Own(p) = Nat /\ e.slot \in Nat
  BY <1>1, <1>2, OwnSlots DEF Sound
<1> QED BY <1>3, <1>4, <1>5

LEMMA Signs ==
  ASSUME InvocationInv, require_signer
  PROVE  InvocationInv'
<1>1. Running /\ Top.todo # <<>>
  BY DEF require_signer
<1>2. CASE Continue(Top.copies)
  <2>1. /\ outcome = "running" /\ IxOK(acct, ix) /\ StackOK(acct, ix, stack) /\ stack # <<>>
        /\ Last(stack).todo # <<>>
    BY <1>1, RunningIsRunning DEF Running, Top
  <2> DEFINE c2 == Last(stack).copies
  <2>2. c2 \in Seq(Copies(acct))
    BY <2>1, TopOf
  <2>3. StackOK(acct, ix, Append(Front(stack), Gone(Last(stack), c2)))
    BY <2>1, <2>2, StackGoesOn
  <2>4. stack' = Append(Front(stack), Gone(Last(stack), c2))
    BY <1>2 DEF Continue, Top, Rest, Gone
  <2>5. UNCHANGED <<ix, acct, approved, outcome>>
    BY <1>2 DEF Continue
  <2> QED BY <2>1, <2>3, <2>4, <2>5, StaysOK
<1>3. CASE Fail("MissingSigner")
  BY <1>3, Fails
<1> QED BY <1>2, <1>3 DEF require_signer

\* A program changes the state in one of its slots to one it may write.
LEMMA Changed ==
  ASSUME InvocationInv, Running, Top.todo # <<>>, NEW STATE c2, Continue(c2),
         NEW STATE i, i \in DOMAIN Top.copies, i \in Own(Top.program), NEW STATE s, s \in States,
         \A pre \in States : Writes(Top.program, pre, Top.copies[i].state) => Writes(Top.program, pre, s),
         c2 = [Top.copies EXCEPT ![i] = [Top.copies[i] EXCEPT !.state = s]]
  PROVE  InvocationInv'
<1>1. /\ outcome = "running" /\ IxOK(acct, ix) /\ StackOK(acct, ix, stack) /\ stack # <<>>
      /\ Last(stack).todo # <<>> /\ Top = Last(stack)
  BY RunningIsRunning DEF Running, Top
<1>2. StackOK(acct, ix, Append(Front(stack), Gone(Last(stack),
        [Last(stack).copies EXCEPT ![i] = [Last(stack).copies[i] EXCEPT !.state = s]])))
  BY <1>1, SlotChanged
<1>3. stack' = Append(Front(stack), Gone(Last(stack), c2))
  BY DEF Continue, Top, Rest, Gone
<1>4. UNCHANGED <<ix, acct, approved, outcome>>
  BY DEF Continue
<1>5. StackOK(acct, ix, stack')
  BY <1>1, <1>2, <1>3
<1> QED BY <1>1, <1>4, <1>5, StaysOK

\* What the effects write.
LEMMA EffectWrites ==
  ASSUME InvocationInv, Running, Top.todo # <<>>, Effect.op \in {"put", "set", "add", "give"}
  PROVE  LET i == Effect.slot
             p == Top.program
             s == Top.copies[i].state
         IN /\ i \in DOMAIN Top.copies /\ i \in Own(p)
            /\ p \in Writers /\ s \in States /\ Top.copies[i] \in Copies(acct)
            /\ Effect.op = "give" => p \in {"system", "guest"}
<1>1. /\ stack # <<>> /\ StackOK(acct, ix, stack) /\ Top = Last(stack)
  BY RunningIsRunning DEF Running, Top
<1>2. /\ Top.program \in Writers /\ Top.copies \in Seq(Copies(acct))
      /\ Effect \in Plan(Top.program) /\ Slots(Effect) \subseteq DOMAIN Top.copies
  BY <1>1, TopOf DEF Effect
<1>3. Effect.op \in Plain
  BY DEF Plain
<1>4. /\ Effect.slot \in DOMAIN Top.copies /\ Effect.slot \in Own(Top.program)
      /\ Effect.op = "give" => Top.program \in {"system", "guest"}
  BY <1>2, <1>3, PlannedSlots
<1>5. Top.copies[Effect.slot] \in Copies(acct)
  BY <1>2, <1>4
<1> QED BY <1>2, <1>4, <1>5 DEF Copies

LEMMA WritesSlot ==
  ASSUME InvocationInv, Running, Top.todo # <<>>, Effect.op \in {"put", "set"},
         Continue(Written(Effect.slot))
  PROVE  InvocationInv'
<1> DEFINE i == Effect.slot
           p == Top.program
           s == Top.copies[i].state
           s2 == [s EXCEPT !.data = Append(@, p)]
           c2 == [Top.copies EXCEPT ![i] = [Top.copies[i] EXCEPT !.state = s2]]
<1>1. /\ i \in DOMAIN Top.copies /\ i \in Own(p) /\ p \in Writers /\ s \in States
      /\ Top.copies[i] \in Copies(acct)
  BY EffectWrites
<1>2. s2 \in States /\ \A pre \in States : Writes(p, pre, s) => Writes(p, pre, s2)
  BY <1>1, WritesMore
<1>3. Written(i) = c2
  BY <1>1 DEF Written
<1>4. Continue(c2)
  BY <1>3
<1> HIDE DEF c2, s2
<1>5. c2 = [Top.copies EXCEPT ![i] = [Top.copies[i] EXCEPT !.state = s2]]
  BY DEF c2
<1> QED BY <1>1, <1>2, <1>4, <1>5, Changed

LEMMA AddsLamports ==
  ASSUME InvocationInv, Running, Top.todo # <<>>, Effect.op = "add",
         Continue([Top.copies EXCEPT ![Effect.slot].state.lamports = @ + 1])
  PROVE  InvocationInv'
<1> DEFINE i == Effect.slot
           p == Top.program
           s == Top.copies[i].state
           s2 == [s EXCEPT !.lamports = @ + 1]
           c2 == [Top.copies EXCEPT ![i] = [Top.copies[i] EXCEPT !.state = s2]]
<1>1. /\ i \in DOMAIN Top.copies /\ i \in Own(p) /\ p \in Writers /\ s \in States
      /\ Top.copies[i] \in Copies(acct)
  BY EffectWrites
<1>2. s2 \in States /\ \A pre \in States : Writes(p, pre, s) => Writes(p, pre, s2)
  BY <1>1, WritesMore
<1>4. Continue(c2)
  BY <1>1
<1> HIDE DEF c2, s2
<1>5. c2 = [Top.copies EXCEPT ![i] = [Top.copies[i] EXCEPT !.state = s2]]
  BY DEF c2
<1> QED BY <1>1, <1>2, <1>4, <1>5, Changed

LEMMA GivesAway ==
  ASSUME InvocationInv, Running, Top.todo # <<>>, Effect.op = "give",
         Continue([Written(Effect.slot) EXCEPT ![Effect.slot].state.owner = "token"])
  PROVE  InvocationInv'
<1> DEFINE i == Effect.slot
           p == Top.program
           s == Top.copies[i].state
           s2 == [s EXCEPT !.data = Append(@, p), !.owner = "token"]
           c2 == [Top.copies EXCEPT ![i] = [Top.copies[i] EXCEPT !.state = s2]]
<1>1. /\ i \in DOMAIN Top.copies /\ i \in Own(p) /\ p \in Writers /\ s \in States
      /\ Top.copies[i] \in Copies(acct) /\ p \in {"system", "guest"}
  BY EffectWrites
<1>2. s2 \in States /\ \A pre \in States : Writes(p, pre, s) => Writes(p, pre, s2)
  BY <1>1, WritesMore
<1>3. [Written(i) EXCEPT ![i].state.owner = "token"] = c2
  BY <1>1 DEF Written, Copies, States
<1>4. Continue(c2)
  BY <1>3
<1> HIDE DEF c2, s2
<1>5. c2 = [Top.copies EXCEPT ![i] = [Top.copies[i] EXCEPT !.state = s2]]
  BY DEF c2
<1> QED BY <1>1, <1>2, <1>4, <1>5, Changed

\* A program's own effects keep the invariant.
LEMMA OwnEffects ==
  ASSUME InvocationInv, write_data \/ ChangeDirectly \/ Stop
  PROVE  InvocationInv'
<1>1. CASE write_data
  BY <1>1, WritesSlot, Fails DEF write_data
<1>2. CASE ChangeDirectly
  BY <1>2, WritesSlot, AddsLamports, GivesAway, Fails DEF ChangeDirectly
<1>3. CASE Stop
  BY <1>3, Fails DEF Stop
<1> QED BY <1>1, <1>2, <1>3

-----------------------------------------------------------------------------
(***************************************************************************)
(* New frames.                                                             *)
(***************************************************************************)
LEMMA NothingWritten ==
  ASSUME NEW s \in States
  PROVE  (\A p : Writes(p, s, s)) /\ (\A q : Clean(q, s, s))
<1>1. s.lamports \in Nat /\ s.data \in Seq(Writers) /\ Len(s.data) \in Nat
  BY DEF States
<1>2. Len(s.data) + 1 .. Len(s.data) = {}
  BY <1>1
<1> QED BY <1>1, <1>2 DEF Writes, Clean, is_blank

LEMMA PlansAreEffects == \A p : Seq(Plan(p)) \subseteq Seq(Effects) /\ Seq(Called(p)) \subseteq Seq(Plan(p))
BY DEF Plan, Called

LEMMA FirstFrame ==
  ASSUME NEW A, NEW I, IxOK(A, I), NEW effects, effects \in run_builtin[I.program][I.name],
         NEW copies,
         copies = [i \in DOMAIN I.keys |-> [key |-> I.keys[i], flag |-> I.flags[i], state |-> A[I.keys[i]]]],
         \A j \in DOMAIN effects : Slots(effects[j]) \subseteq DOMAIN copies
  PROVE  StackOK(A, I, Append(<<>>, [program |-> I.program, copies |-> copies,
                                     window |-> <<>>, todo |-> effects]))
<1> DEFINE p == I.program
           f == [program |-> p, copies |-> copies, window |-> <<>>, todo |-> effects]
           S == Frames(A)
           t == Append(<<>>, f)
<1>1. /\ p \in DOMAIN run_builtin /\ I.name \in DOMAIN run_builtin[p]
      /\ A \in Seq(States) /\ I.keys \in Seq(DOMAIN A) /\ I.flags \in Seq(Flags)
      /\ Len(I.flags) = Len(I.keys)
  BY DEF IxOK
<1>2. effects \in Seq(Plan(p)) /\ effects \in Seq(Effects)
  BY <1>1, ProgramsSound, PlansAreEffects
<1>3. ASSUME NEW i \in DOMAIN I.keys
      PROVE  /\ copies[i] \in Copies(A) /\ copies[i].key = I.keys[i] /\ copies[i].flag = I.flags[i]
             /\ copies[i].state = A[I.keys[i]] /\ A[I.keys[i]] \in States
  <2>1. i \in DOMAIN I.flags
    BY <1>1
  <2>2. I.keys[i] \in DOMAIN A /\ I.flags[i] \in Flags /\ A[I.keys[i]] \in States
    BY <1>1, <2>1
  <2> QED BY <2>2 DEF Copies
<1>4. DOMAIN copies = DOMAIN I.keys /\ copies \in Seq(Copies(A))
  <2> DEFINE C == Copies(A)
  <2>1. \A i \in DOMAIN I.keys : copies[i] \in C
    BY <1>3
  <2>2. DOMAIN copies = DOMAIN I.keys /\ DOMAIN I.keys = 1 .. Len(I.keys) /\ Len(I.keys) \in Nat
    BY <1>1
  <2>3. copies \in [1 .. Len(I.keys) -> C]
    BY <2>1, <2>2
  <2> HIDE DEF C
  <2>4. copies \in Seq(C)
    BY <2>2, <2>3
  <2> QED BY <2>2, <2>4 DEF C
<1>5. /\ f \in S /\ f.program = p /\ f.copies = copies /\ f.todo = effects
  BY <1>1, <1>2, <1>4 DEF Frames
<1> HIDE DEF f
<1>6. FrameOK(A, f)
  BY <1>2, <1>5 DEF FrameOK
<1>7. Bottom(A, I, f)
  <2>1. \A i \in DOMAIN copies :
          LET c == copies[i]
          IN /\ c.key = I.keys[i] /\ c.flag = I.flags[i]
             /\ Writes(p, A[c.key], c.state) /\ Clean(p, A[c.key], c.state)
    <3> TAKE i \in DOMAIN copies
    <3> DEFINE s == A[I.keys[i]]
    <3>1. /\ copies[i].key = I.keys[i] /\ copies[i].flag = I.flags[i] /\ copies[i].state = s
          /\ s \in States
      BY <1>3, <1>4
    <3>2. A[copies[i].key] = s
      BY <3>1
    <3> HIDE DEF s
    <3>3. Writes(p, s, s) /\ Clean(p, s, s)
      BY <3>1, NothingWritten
    <3> QED BY <3>1, <3>2, <3>3
  <2> QED BY <1>4, <1>5, <2>1 DEF Bottom
<1> HIDE DEF S
<1>8. <<>> \in Seq(S) /\ Len(<<>>) = 0
  OBVIOUS
<1>9. t \in Seq(S) /\ Len(t) = 1 /\ t[1] = f
  BY <1>5, <1>8, Pushed
<1> HIDE DEF t
<1>10. DOMAIN t = 1 .. 1 /\ t # <<>> /\ 2 .. Len(t) = {}
  BY <1>9
<1>11. \A d \in DOMAIN t : FrameOK(A, t[d])
  BY <1>6, <1>9, <1>10
<1>12. StackOK(A, I, t)
  BY <1>7, <1>9, <1>10, <1>11 DEF StackOK, S
<1> QED BY <1>12 DEF t, f

\* A call of the top frame: whom it calls, and what the called program may change
\* holds what called programs may leave.
LEMMA CallsWell ==
  ASSUME NEW A, NEW I, NEW st, StackOK(A, I, st), st # <<>>, Last(st).todo # <<>>,
         NEW c, c = Head(Last(st).todo), c.op = "call"
  PROVE  /\ c.program \in Callees \ {I.program} /\ I.program # "token"
         /\ c.name \in Callable[c.program] /\ c.window \in Seq(Nat)
         /\ \A i \in DOMAIN c.window :
              /\ c.window[i] \in DOMAIN Last(st).copies
              /\ i \in Touched(c.program) =>
                   LET of == Last(st).copies[c.window[i]] IN Clean(I.program, A[of.key], of.state)
<1> DEFINE f == Last(st)
           p == f.program
           d == Len(st)
<1>1. /\ d \in Nat \ {0} /\ f = st[d] /\ c \in Plan(p) /\ Slots(c) \subseteq DOMAIN f.copies
      /\ f.copies \in Seq(Copies(A))
  BY TopOf
<1>2. c \in Calls /\ CallSound(p, c)
  BY <1>1 DEF Plan, Effects, Sound, Plain
<1>3. /\ c.program \in Callees /\ c.window \in Seq(Nat) /\ c.name \in Callable[c.program]
      /\ p \notin {"system", "guest", "token"} /\ c.program # p /\ (c.program = "mm" => p = "vault")
      /\ \A m \in DOMAIN c.window : m \in Touched(c.program) => c.window[m] \notin Own(p)
  BY <1>2 DEF Calls, CallSound
<1>4. \A i \in DOMAIN c.window : c.window[i] \in DOMAIN f.copies
  BY <1>1 DEF Slots
<1>5. CASE d = 1
  <2>1. Bottom(A, I, f)
    BY <1>1, <1>5 DEF StackOK
  <2>2. p = I.program
    BY <2>1 DEF Bottom
  <2>3. ASSUME NEW i \in DOMAIN c.window, i \in Touched(c.program)
        PROVE  LET of == f.copies[c.window[i]] IN Clean(I.program, A[of.key], of.state)
    BY <1>3, <1>4, <2>1, <2>3 DEF Bottom
  <2> QED BY <1>3, <1>4, <2>2, <2>3
<1>6. CASE d > 1
  <2>1. Above(A, I, st[d - 1], f)
    BY <1>1, <1>6 DEF StackOK
  <2>2. p \in Callees \ {I.program} /\ I.program # "token" /\ f.todo \in Seq(Called(p))
    BY <2>1 DEF Above
  <2>3. p = "mm" /\ c.program = "token"
    BY <1>3, <2>2 DEF Callees
  <2>4. c \in Called(p)
    BY <2>2, TailOf
  <2>5. Nested(p, c)
    BY <2>4 DEF Called
  <2>6. ASSUME NEW i \in DOMAIN c.window, i \in Touched(c.program)
        PROVE  LET of == f.copies[c.window[i]] IN Clean(I.program, A[of.key], of.state)
    <3>1. c.window[i] \in Touched(p) \ Own(p) /\ c.window[i] \in DOMAIN f.copies
      BY <1>3, <1>4, <2>5, <2>6 DEF Nested
    <3> QED BY <2>1, <3>1 DEF Above
  <2> QED BY <1>3, <1>4, <2>2, <2>3, <2>6
<1>7. d = 1 \/ d > 1
  <2> HIDE DEF d, f, p
  <2> QED BY <1>1
<1> QED BY <1>5, <1>6, <1>7, Zenon

LEMMA NewFrame ==
  ASSUME NEW A, NEW I, NEW st, StackOK(A, I, st), st # <<>>, Last(st).todo # <<>>,
         NEW c, c = Head(Last(st).todo), c.op = "call",
         NEW effects, effects \in run_builtin[c.program][c.name],
         NEW w, w \in Seq(Copies(A)), DOMAIN w = DOMAIN c.window,
         \A i \in DOMAIN w :
           LET of == Last(st).copies[c.window[i]]
           IN w[i].key = of.key /\ w[i].state = of.state /\ (i \in c.signed \/ w[i].flag = of.flag),
         \A j \in DOMAIN effects : Slots(effects[j]) \subseteq DOMAIN w
  PROVE  StackOK(A, I, Append(st, [program |-> c.program, copies |-> w,
                                   window |-> c.window, todo |-> effects]))
<1> DEFINE f == Last(st)
           p == c.program
           g == [program |-> p, copies |-> w, window |-> c.window, todo |-> effects]
           d == Len(st)
           S == Frames(A)
           t == Append(st, g)
<1>1. /\ d \in Nat \ {0} /\ f = st[d] /\ st \in Seq(S) /\ f.copies \in Seq(Copies(A))
  BY TopOf
<1>2. /\ p \in Callees \ {I.program} /\ I.program # "token"
      /\ c.name \in Callable[p] /\ c.window \in Seq(Nat)
      /\ \A i \in DOMAIN c.window :
           /\ c.window[i] \in DOMAIN f.copies
           /\ i \in Touched(p) =>
                LET of == f.copies[c.window[i]] IN Clean(I.program, A[of.key], of.state)
  BY CallsWell
<1>3. p \in DOMAIN run_builtin /\ effects \in Seq(Called(p))
  BY <1>2, CalleesSound
<1>4. effects \in Seq(Plan(p)) /\ effects \in Seq(Effects)
  BY <1>3, PlansAreEffects
<1>5. /\ g \in S /\ g.program = p /\ g.copies = w /\ g.window = c.window /\ g.todo = effects
  BY <1>2, <1>3, <1>4 DEF Frames
<1> HIDE DEF g
<1>6. FrameOK(A, g)
  BY <1>4, <1>5 DEF FrameOK
<1>7. Above(A, I, f, g)
  <2>1. \A i \in DOMAIN w : f.copies[c.window[i]].state \in States
    <3> TAKE i \in DOMAIN w
    <3>1. c.window[i] \in DOMAIN f.copies
      BY <1>2
    <3> HIDE DEF f
    <3>2. f.copies[c.window[i]] \in Copies(A)
      BY <1>1, <3>1
    <3> QED BY <3>2 DEF Copies
  <2>2. \A i \in DOMAIN w :
          LET of == f.copies[c.window[i]]
          IN /\ w[i].key = of.key
             /\ i \in c.signed \/ w[i].flag = of.flag
             /\ i \notin Touched(p) => w[i].state = of.state
             /\ i \in Touched(p) => Clean(I.program, A[w[i].key], of.state)
             /\ i \in Own(p) => Writes(p, of.state, w[i].state)
             /\ i \in Touched(p) \ Own(p) => Clean(I.program, A[w[i].key], w[i].state)
    BY <1>2, <2>1, NothingWritten
  <2> HIDE DEF f, p
  <2> QED BY <1>2, <1>3, <1>5, <2>2 DEF Above, f, p
<1> HIDE DEF S
<1>8. /\ t \in Seq(S) /\ Len(t) = d + 1 /\ t[d + 1] = g /\ \A e \in 1 .. d : t[e] = st[e]
  BY <1>1, <1>5, Pushed
<1> HIDE DEF t
<1>9. \A e \in DOMAIN t : FrameOK(A, t[e])
  <2> TAKE e \in DOMAIN t
  <2>1. e \in 1 .. d \/ e = d + 1
    BY <1>1, <1>8
  <2> QED BY <1>6, <1>8, <2>1 DEF StackOK
<1>10. \A e \in 2 .. Len(t) : Above(A, I, t[e - 1], t[e])
  <2> TAKE e \in 2 .. Len(t)
  <2>1. CASE e = d + 1
    BY <1>1, <1>7, <1>8, <2>1
  <2>2. CASE e # d + 1
    <3>1. e \in 2 .. d /\ e - 1 \in 1 .. d
      BY <1>1, <1>8, <2>2
    <3>2. Above(A, I, st[e - 1], st[e])
      BY <3>1 DEF StackOK
    <3> QED BY <1>8, <3>1, <3>2
  <2> QED BY <2>1, <2>2
<1>11. t[1] = st[1] /\ Bottom(A, I, st[1])
  BY <1>1, <1>8 DEF StackOK
<1>12. StackOK(A, I, t)
  BY <1>8, <1>9, <1>10, <1>11 DEF StackOK, S
<1> QED BY <1>12 DEF t, g

LEMMA Begins ==
  ASSUME InvocationInv, Begin
  PROVE  InvocationInv'
<1> DEFINE copies == [i \in DOMAIN ix.keys |->
                        [key |-> ix.keys[i], flag |-> ix.flags[i], state |-> acct[ix.keys[i]]]]
<1>1. stack = <<>> /\ outcome = "running" /\ IxOK(acct, ix) /\ OnlyOwnersWrite
  BY DEF Begin, InvocationInv
<1>2. CASE Fail("DuplicateWritableAccount")
  BY <1>2, Fails
<1>3. CASE /\ \E effects \in run_builtin[ix.program][ix.name] :
                Frame(ix.program, ix.name, copies, <<>>, effects)
           /\ begin_execution
           /\ UNCHANGED <<ix, acct, outcome>>
  <2>1. PICK effects \in run_builtin[ix.program][ix.name] :
          Frame(ix.program, ix.name, copies, <<>>, effects)
    BY <1>3
  <2>2. /\ \A j \in DOMAIN effects : Slots(effects[j]) \subseteq DOMAIN copies
        /\ stack' = Append(stack, [program |-> ix.program, copies |-> copies,
                                   window |-> <<>>, todo |-> effects])
    BY <2>1 DEF Frame
  <2>3. StackOK(acct, ix, Append(<<>>, [program |-> ix.program, copies |-> copies,
                                        window |-> <<>>, todo |-> effects]))
    BY <1>1, <2>1, <2>2, FirstFrame
  <2>4. StackOK(acct, ix, stack')
    BY <1>1, <2>2, <2>3
  <2>5. approved' = <<>> /\ DOMAIN <<>> = {}
    BY <1>3 DEF begin_execution
  <2>6. TrailOK(acct, ix, approved')
    BY <2>5 DEF TrailOK
  <2>7. OnlyOwnersWrite'
    BY <1>1, <1>3, OwnersByAccount
  <2> QED BY <1>1, <1>3, <2>4, <2>6, <2>7 DEF InvocationInv
<1> QED BY <1>2, <1>3 DEF Begin

LEMMA SignedFlags ==
  \A flag \in Flags : (IF IsWritable(flag) THEN "WS" ELSE "RS") \in Flags
BY DEF Flags

LEMMA CallsOut ==
  ASSUME InvocationInv, invoke_signed_indexed
  PROVE  InvocationInv'
<1> DEFINE c == Effect
           cost == CPI_BASE_COST + PER_ACCOUNT_COST * Len(c.window)
           copies == [i \in DOMAIN c.window |-> Top.copies[c.window[i]]]
           signed(flag) == IF IsWritable(flag) THEN "WS" ELSE "RS"
           window == [i \in DOMAIN copies |->
                        IF i \in c.signed THEN [copies[i] EXCEPT !.flag = signed(@)] ELSE copies[i]]
<1>1. stack # <<>> /\ Top.todo # <<>> /\ c.op = "call"
  BY DEF invoke_signed_indexed, Running
<1>2. /\ outcome = "running" /\ StackOK(acct, ix, stack) /\ Top = Last(stack) /\ Last(stack).todo # <<>>
      /\ c = Head(Last(stack).todo)
  BY <1>1, RunningIsRunning DEF Top, Effect
<1>3. CASE \/ Fail("CpiDepthExceeded") \/ Fail("ComputeExhausted") \/ Fail("DuplicateWritableAccount")
  BY <1>3, Fails
<1>4. CASE /\ \E effects \in run_builtin[c.program][c.name] :
                Frame(c.program, c.name, window, c.window, effects)
           /\ spent' = spent + cost
           /\ UNCHANGED <<ix, acct, approved, outcome>>
  <2>1. PICK effects \in run_builtin[c.program][c.name] :
          Frame(c.program, c.name, window, c.window, effects)
    BY <1>4
  <2>2. /\ \A j \in DOMAIN effects : Slots(effects[j]) \subseteq DOMAIN window
        /\ stack' = Append(stack, [program |-> c.program, copies |-> window,
                                   window |-> c.window, todo |-> effects])
    BY <2>1 DEF Frame
  <2>3. /\ c.window \in Seq(Nat) /\ \A i \in DOMAIN c.window : c.window[i] \in DOMAIN Top.copies
        /\ Top.copies \in Seq(Copies(acct))
    BY <1>1, <1>2, CallsWell, TopOf
  <2>4. \A i \in DOMAIN c.window :
          /\ window[i] \in Copies(acct) /\ window[i].key = Top.copies[c.window[i]].key
          /\ window[i].state = Top.copies[c.window[i]].state
          /\ i \in c.signed \/ window[i].flag = Top.copies[c.window[i]].flag
    <3> TAKE i \in DOMAIN c.window
    <3> DEFINE of == Top.copies[c.window[i]]
    <3>1. of \in Copies(acct)
      BY <2>3
    <3>2. window[i] = IF i \in c.signed THEN [of EXCEPT !.flag = signed(of.flag)] ELSE of
      OBVIOUS
    <3> HIDE DEF of, window
    <3>3. of.flag \in Flags
      BY <3>1 DEF Copies
    <3>4. signed(of.flag) \in Flags
      BY <3>3, SignedFlags
    <3> HIDE DEF signed
    <3>5. /\ window[i] \in Copies(acct) /\ window[i].key = of.key /\ window[i].state = of.state
          /\ i \in c.signed \/ window[i].flag = of.flag
      BY <3>1, <3>2, <3>4 DEF Copies
    <3> QED BY <3>5 DEF of
  <2>5. DOMAIN window = DOMAIN c.window
    OBVIOUS
  <2>6. window \in Seq(Copies(acct))
    <3> DEFINE C == Copies(acct)
               n == Len(c.window)
    <3>1. n \in Nat /\ DOMAIN c.window = 1 .. n
      BY <2>3
    <3>2. window = [i \in 1 .. n |-> window[i]]
      BY <2>5, <3>1
    <3> HIDE DEF window, C, n
    <3>3. \A i \in 1 .. n : window[i] \in C
      BY <2>4, <3>1 DEF C
    <3>4. window \in Seq(C)
      BY <3>1, <3>2, <3>3
    <3> QED BY <3>4 DEF C
  <2> HIDE DEF window, c
  <2>7. StackOK(acct, ix, Append(stack, [program |-> c.program, copies |-> window,
                                         window |-> c.window, todo |-> effects]))
    BY <1>1, <1>2, <2>1, <2>2, <2>4, <2>5, <2>6, NewFrame
  <2>8. StackOK(acct, ix, stack')
    BY <2>2, <2>7
  <2> QED BY <1>1, <1>2, <1>4, <2>8, StaysOK
<1> QED BY <1>3, <1>4 DEF invoke_signed_indexed

-----------------------------------------------------------------------------
(***************************************************************************)
(* Calls that return.                                                      *)
(***************************************************************************)
LEMMA LinkOf ==
  ASSUME NEW A, NEW I, NEW st, StackOK(A, I, st), NEW d \in 2 .. Len(st)
  PROVE  LET f == st[d]
             caller == st[d - 1]
         IN /\ f \in Frames(A) /\ caller \in Frames(A) /\ caller.todo # <<>>
            /\ f.program \in Callees \ {I.program}
            /\ f.window \in Seq(Nat) /\ DOMAIN f.copies = DOMAIN f.window
            /\ \A i \in DOMAIN f.window :
                 /\ f.window[i] \in DOMAIN caller.copies
                 /\ i \in Touched(f.program) =>
                      /\ f.window[i] \notin Own(caller.program)
                      /\ d - 1 > 1 => f.window[i] \in Touched(caller.program)
<1> DEFINE f == st[d]
           caller == st[d - 1]
           p == caller.program
           td == caller.todo
           c == Head(td)
<1>1. Above(A, I, caller, f) /\ FrameOK(A, f) /\ FrameOK(A, caller)
  BY DEF StackOK
<1>2. /\ td # <<>> /\ c.op = "call" /\ c.window = f.window /\ c.program = f.program
      /\ f.program \in Callees \ {I.program} /\ DOMAIN f.copies = DOMAIN f.window
  BY <1>1 DEF Above
<1>3. f \in Frames(A) /\ caller \in Frames(A) /\ f.window \in Seq(Nat) /\ td \in Seq(Plan(p))
  BY <1>1 DEF FrameOK, Frames
<1>4. c \in Plan(p) /\ c = td[1] /\ 1 \in DOMAIN td
  <2> HIDE DEF td
  <2> QED BY <1>2, <1>3, TailOf
<1>5. Slots(c) \subseteq DOMAIN caller.copies
  BY <1>1, <1>4 DEF FrameOK
<1>6. CallSound(p, c)
  BY <1>2, <1>4 DEF Plan, Sound
<1>7. \A i \in DOMAIN f.window :
        /\ f.window[i] \in DOMAIN caller.copies
        /\ i \in Touched(f.program) => f.window[i] \notin Own(p)
  BY <1>2, <1>5, <1>6 DEF Slots, CallSound
<1>8. ASSUME d - 1 > 1
      PROVE  \A i \in DOMAIN f.window : i \in Touched(f.program) => f.window[i] \in Touched(p)
  <2>1. d - 1 \in 2 .. Len(st)
    BY <1>8
  <2>2. Above(A, I, st[(d - 1) - 1], caller)
    BY <2>1 DEF StackOK
  <2>3. td \in Seq(Called(p))
    BY <2>2 DEF Above
  <2>4. c \in Called(p)
    <3> HIDE DEF td
    <3> QED BY <1>2, <2>3, TailOf
  <2>5. Nested(p, c)
    BY <2>4 DEF Called
  <2> QED BY <1>2, <2>5 DEF Nested
<1> QED BY <1>2, <1>3, <1>7, <1>8

\* What a call returns is a change its caller's frame may make.
LEMMA ReturnChanges ==
  ASSUME NEW A, NEW I, NEW st, StackOK(A, I, st), NEW d \in 2 .. Len(st),
         NEW g, DOMAIN g = DOMAIN st[d].copies,
         \A i \in DOMAIN g :
           LET c == st[d].copies[i]
               pre == st[d - 1].copies[st[d].window[i]].state
           IN /\ g[i].key = c.key
              /\ pre = c.state => g[i].state = c.state
              /\ pre # c.state => g[i].state \in States /\ Clean(I.program, A[c.key], g[i].state)
  PROVE  Changes(A, I, d - 1, st[d - 1], write_back(st[d - 1].copies, st[d].window, g))
<1> DEFINE f == st[d]
           caller == st[d - 1]
           q == caller.copies
           w == f.window
           c2 == write_back(q, w, g)
           at(j) == {i \in DOMAIN w : w[i] = j}
<1>1. /\ f \in Frames(A) /\ caller \in Frames(A) /\ w \in Seq(Nat) /\ DOMAIN f.copies = DOMAIN w
      /\ \A i \in DOMAIN w :
           /\ w[i] \in DOMAIN q
           /\ i \in Touched(f.program) =>
                w[i] \notin Own(caller.program) /\ (d - 1 > 1 => w[i] \in Touched(caller.program))
  BY LinkOf
<1>2. q \in Seq(Copies(A))
  BY <1>1 DEF Frames
<1>3. \A i \in DOMAIN w :
        /\ f.copies[i].key = q[w[i]].key
        /\ i \notin Touched(f.program) => f.copies[i].state = q[w[i]].state
  <2>1. Above(A, I, caller, f)
    BY DEF StackOK
  <2> QED BY <1>1, <2>1 DEF Above
<1>4. DOMAIN c2 = DOMAIN q
  BY DEF write_back
<1>5. ASSUME NEW j \in DOMAIN q
      PROVE  /\ c2[j] \in Copies(A) /\ c2[j].key = q[j].key /\ c2[j].flag = q[j].flag
             /\ \/ c2[j].state = q[j].state
                \/ /\ j \notin Own(caller.program) /\ (d - 1 > 1 => j \in Touched(caller.program))
                   /\ Clean(I.program, A[q[j].key], c2[j].state)
  <2>1. q[j] \in Copies(A)
    BY <1>2
  <2>2. CASE at(j) = {}
    <3>1. c2[j] = q[j]
      BY <2>2 DEF write_back
    <3> QED BY <2>1, <3>1
  <2>3. CASE at(j) # {}
    <3> DEFINE i == Max(at(j))
    <3>1. i \in DOMAIN w /\ w[i] = j
      <4>1. at(j) \in SUBSET (1 .. Len(w)) /\ Len(w) \in Nat
        BY <1>1
      <4> HIDE DEF at
      <4>2. i \in at(j)
        BY <2>3, <4>1, LastOf
      <4> QED BY <4>2 DEF at
    <3>2. c2[j] = [q[j] EXCEPT !.state = g[i].state]
      BY <2>3 DEF write_back
    <3> HIDE DEF i, c2, at
    <3>3. /\ f.copies[i].key = q[j].key /\ i \in DOMAIN g
          /\ q[j].state = f.copies[i].state => g[i].state = f.copies[i].state
          /\ q[j].state # f.copies[i].state
               => g[i].state \in States /\ Clean(I.program, A[f.copies[i].key], g[i].state)
      BY <1>1, <1>3, <3>1
    <3>4. CASE q[j].state = f.copies[i].state
      <4>1. g[i].state = q[j].state
        BY <3>3, <3>4
      <4>2. q[j].state \in States
        BY <2>1 DEF Copies
      <4> QED BY <2>1, <3>2, <4>1, <4>2 DEF Copies
    <3>5. CASE q[j].state # f.copies[i].state
      <4>1. i \in Touched(f.program)
        BY <1>3, <3>1, <3>5
      <4>2. j \notin Own(caller.program) /\ (d - 1 > 1 => j \in Touched(caller.program))
        BY <1>1, <3>1, <4>1
      <4>3. g[i].state \in States /\ Clean(I.program, A[q[j].key], g[i].state)
        BY <3>3, <3>5
      <4>4. c2[j] \in Copies(A) /\ c2[j].key = q[j].key /\ c2[j].flag = q[j].flag /\ c2[j].state = g[i].state
        BY <2>1, <3>2, <4>3 DEF Copies
      <4> QED BY <4>2, <4>3, <4>4
    <3> QED BY <3>4, <3>5
  <2> QED BY <2>2, <2>3
<1>6. c2 \in Seq(Copies(A))
  <2> DEFINE C == Copies(A)
             n == Len(q)
  <2>1. n \in Nat /\ DOMAIN q = 1 .. n
    BY <1>2
  <2>2. c2 = [j \in 1 .. n |-> c2[j]]
    BY <1>4, <2>1 DEF write_back
  <2> HIDE DEF c2, C, n
  <2>3. \A j \in 1 .. n : c2[j] \in C
    BY <1>5, <2>1 DEF C
  <2>4. c2 \in Seq(C)
    BY <2>1, <2>2, <2>3
  <2> QED BY <2>4 DEF C
<1> HIDE DEF c2
<1>7. Changes(A, I, d - 1, caller, c2)
  BY <1>4, <1>5, <1>6 DEF Changes
<1> QED BY <1>7 DEF c2

\* The stack after a call returned.
LEMMA StackReturns ==
  ASSUME NEW A, NEW I, NEW st, StackOK(A, I, st), IxOK(A, I), Len(st) > 1,
         NEW c2, Changes(A, I, Len(st) - 1, st[Len(st) - 1], c2)
  PROVE  StackOK(A, I, Append(Front(Front(st)), Gone(st[Len(st) - 1], c2)))
<1> DEFINE S == Frames(A)
           d == Len(st) - 1
           f == st[d]
           g == Gone(f, c2)
           t == Append(Front(Front(st)), g)
<1>1. st \in Seq(S) /\ Len(st) \in Nat /\ d \in 1 .. Len(st) /\ Len(st) \in 2 .. Len(st)
  BY DEF StackOK
<1>2. f \in S /\ f.todo # <<>>
  BY <1>1, LinkOf
<1>3. g \in S
  <2>1. f.todo \in Seq(Effects) /\ f.todo # <<>>
    BY <1>2 DEF Frames
  <2>2. Tail(f.todo) \in Seq(Effects)
    BY <2>1, TailOf
  <2>3. c2 \in Seq(Copies(A))
    BY DEF Changes
  <2> QED BY <1>2, <2>2, <2>3 DEF Frames, Gone
<1> HIDE DEF S, g
<1>4. t \in Seq(S) /\ Len(t) = d /\ t[d] = g /\ \A e \in 1 .. Len(st) - 2 : t[e] = st[e]
  BY <1>1, <1>3, TopReturned
<1> HIDE DEF t
<1>5. \A k \in DOMAIN A : A[k] \in States
  BY DEF IxOK
<1>6. /\ t \in Seq(Frames(A)) /\ Len(t) = d /\ t[d] = Gone(st[d], c2)
      /\ \A e \in 1 .. d - 1 : t[e] = st[e]
  BY <1>1, <1>4 DEF S, g
<1>7. Changes(A, I, d, st[d], c2) /\ st[d].todo # <<>>
  BY <1>2
<1> HIDE DEF d, f
<1>8. StackOK(A, I, t)
  BY <1>1, <1>5, <1>6, <1>7, FrameGoesOn
<1> QED BY <1>8 DEF t, g, f, d

\* The states, by key, that called programs may leave.
Leavable == {x \in (DOMAIN acct) \X States : Clean(ix.program, acct[x[1]], x[2])}

LEMMA LeavableMeans ==
  \A k, s : <<k, s>> \in Leavable <=> k \in DOMAIN acct /\ s \in States /\ Clean(ix.program, acct[k], s)
<1> TAKE k, s
<1> DEFINE x == <<k, s>>
<1>1. x[1] = k /\ x[2] = s /\ (x \in (DOMAIN acct) \X States <=> k \in DOMAIN acct /\ s \in States)
  OBVIOUS
<1> HIDE DEF x
<1>2. x \in Leavable <=> x \in (DOMAIN acct) \X States /\ Clean(ix.program, acct[x[1]], x[2])
  BY DEF Leavable
<1>3. x \in Leavable <=> k \in DOMAIN acct /\ s \in States /\ Clean(ix.program, acct[k], s)
  BY <1>1, <1>2
<1> QED BY <1>3 DEF x

LEMMA Returns ==
  ASSUME InvocationInv, Return
  PROVE  InvocationInv'
<1> DEFINE d == Len(stack)
           f == stack[d]
           caller == stack[d - 1]
           p == f.program
           before == [i \in DOMAIN f.window |-> caller.copies[f.window[i]].state]
           gate == validate_writes(p, before, f.copies)
<1>1. Len(stack) > 1
  BY DEF Return
<1>2. stack # <<>>
  BY <1>1
<1>3. outcome = "running" /\ IxOK(acct, ix) /\ StackOK(acct, ix, stack) /\ TrailOK(acct, ix, approved)
  BY <1>2, RunningIsRunning
<1>4. /\ stack \in Seq(Frames(acct)) /\ d \in Nat \ {0} /\ d \in 2 .. Len(stack) /\ Top = f
      /\ f.copies \in Seq(Copies(acct))
  <2>1. /\ d \in Nat \ {0} /\ stack \in Seq(Frames(acct)) /\ Top = stack[d]
        /\ Top.copies \in Seq(Copies(acct))
    BY <1>2, <1>3, TopOf DEF Top
  <2> QED BY <1>1, <2>1
<1>5. Last(Rest) = caller
  <2> DEFINE S == Frames(acct)
  <2>1. stack \in Seq(S)
    BY <1>4
  <2> HIDE DEF S
  <2>2. \A x \in S : Last(Front(stack)) = stack[Len(stack) - 1]
    BY <1>1, <2>1, TopReturned
  <2>3. f \in S
    BY <1>4, <2>1
  <2> QED BY <2>2, <2>3 DEF Rest
<1>6. /\ f \in Frames(acct) /\ caller \in Frames(acct) /\ p \in Callees \ {ix.program}
      /\ f.window \in Seq(Nat) /\ DOMAIN f.copies = DOMAIN f.window
      /\ \A i \in DOMAIN f.window : f.window[i] \in DOMAIN caller.copies
  BY <1>3, <1>4, LinkOf
<1>7. CASE Fail("IllegalOwnerWrite")
  BY <1>7, Fails
<1>8. CASE /\ gate.ok
           /\ stack' = Append(Front(Rest),
                         [caller EXCEPT !.copies = write_back(@, f.window, gate.copies), !.todo = Tail(@)])
           /\ approved' = gate.trail
           /\ UNCHANGED <<ix, acct, spent, outcome>>
  <2>1. \A k \in DOMAIN approved : <<k, approved[k]>> \in Leavable
    BY <1>3, LeavableMeans DEF TrailOK
  <2>2. ASSUME NEW i \in DOMAIN f.copies,
               ~same_state(before[i], f.copies[i].state), Legal(p, before[i], f.copies[i].state)
        PROVE  <<f.copies[i].key, claim(p, before[i], f.copies[i].state)>> \in Leavable
    <3> DEFINE pre == caller.copies[f.window[i]].state
               s == f.copies[i].state
               k == f.copies[i].key
               of == caller.copies[f.window[i]]
    <3>1. before[i] = pre
      BY <1>6
    <3>2. /\ f.copies[i].key = of.key
          /\ i \notin Touched(p) => s = pre
          /\ i \in Touched(p) => Clean(ix.program, acct[k], pre)
          /\ i \in Own(p) => Writes(p, pre, s)
          /\ i \in Touched(p) \ Own(p) => Clean(ix.program, acct[k], s)
      <4>1. Above(acct, ix, caller, f)
        BY <1>3, <1>4 DEF StackOK
      <4> QED BY <4>1 DEF Above
    <3>3. i \in Touched(p)
      BY <2>2, <3>1, <3>2 DEF same_state
    <3>4. f.copies[i] \in Copies(acct)
      BY <1>4
    <3>5. s \in States /\ k \in DOMAIN acct
      BY <3>4 DEF Copies
    <3>6. of \in Copies(acct)
      <4>1. caller.copies \in Seq(Copies(acct)) /\ f.window[i] \in DOMAIN caller.copies
        BY <1>6 DEF Frames
      <4> QED BY <4>1
    <3>7. pre \in States
      BY <3>6 DEF Copies
    <3>8. acct[k] \in States /\ (is_blank(acct[k]) => acct[k].owner \in {ix.program, "system"})
      BY <1>3, <3>5 DEF IxOK
    <3>9. Legal(p, pre, s) /\ ~same_state(pre, s)
      BY <2>2, <3>1
    <3>10. Writes(p, pre, s) \/ Clean(ix.program, acct[k], s)
      BY <3>2, <3>3
    <3>11. Clean(ix.program, acct[k], pre)
      BY <3>2, <3>3
    <3> HIDE DEF before, pre, s, k, p, of
    <3>12. claim(p, pre, s) \in States /\ Clean(ix.program, acct[k], claim(p, pre, s))
      BY <1>6, <3>5, <3>7, <3>8, <3>9, <3>10, <3>11, CalleeLeavesClean
    <3>13. <<k, claim(p, pre, s)>> \in Leavable
      BY <3>5, <3>12, LeavableMeans
    <3> QED BY <3>1, <3>13 DEF k, s
  <2> HIDE DEF before, p
  <2>3. /\ \A k \in DOMAIN gate.trail : <<k, gate.trail[k]>> \in Leavable
        /\ DOMAIN gate.copies = DOMAIN f.copies
        /\ \A i \in DOMAIN f.copies :
             LET c == gate.copies[i]
             IN /\ c.key = f.copies[i].key /\ c.flag = f.copies[i].flag
                /\ before[i] = f.copies[i].state => c.state = f.copies[i].state
                /\ before[i] # f.copies[i].state => <<c.key, c.state>> \in Leavable
    <3> DEFINE cs == f.copies
    <3>1. cs \in Seq(Copies(acct)) /\ validate_writes(p, before, cs).ok
      BY <1>4, <1>8
    <3>2. \A i \in DOMAIN cs :
            ~same_state(before[i], cs[i].state) /\ Legal(p, before[i], cs[i].state)
              => <<cs[i].key, claim(p, before[i], cs[i].state)>> \in Leavable
      BY <2>2
    <3> HIDE DEF cs
    <3>3. LET gt == validate_writes(p, before, cs)
          IN /\ \A k \in DOMAIN gt.trail : <<k, gt.trail[k]>> \in Leavable
             /\ DOMAIN gt.copies = DOMAIN cs
             /\ \A i \in DOMAIN cs :
                  LET c == gt.copies[i]
                  IN /\ c.key = cs[i].key /\ c.flag = cs[i].flag
                     /\ before[i] = cs[i].state => c.state = cs[i].state
                     /\ before[i] # cs[i].state => <<c.key, c.state>> \in Leavable
      BY <2>1, <3>1, <3>2, GateKeeps
    <3> QED BY <3>3, Zenon DEF cs
  <2> DEFINE g == gate.copies
             c2 == write_back(caller.copies, f.window, g)
  <2> HIDE DEF gate
  <2>4. \A i \in DOMAIN g :
          LET c == stack[d].copies[i]
              pre == stack[d - 1].copies[stack[d].window[i]].state
          IN /\ g[i].key = c.key
             /\ pre = c.state => g[i].state = c.state
             /\ pre # c.state => g[i].state \in States /\ Clean(ix.program, acct[c.key], g[i].state)
    <3> TAKE i \in DOMAIN g
    <3>1. before[i] = caller.copies[f.window[i]].state
      BY <1>6, <2>3 DEF before
    <3>2. <<g[i].key, g[i].state>> \in Leavable
            => g[i].state \in States /\ Clean(ix.program, acct[g[i].key], g[i].state)
      BY LeavableMeans
    <3> QED BY <2>3, <3>1, <3>2
  <2>5. DOMAIN g = DOMAIN stack[d].copies
    BY <2>3
  <2> HIDE DEF g
  <2>6. Changes(acct, ix, d - 1, stack[d - 1], c2)
    BY <1>3, <1>4, <2>4, <2>5, ReturnChanges
  <2> HIDE DEF c2
  <2>7. StackOK(acct, ix, Append(Front(Front(stack)), Gone(stack[Len(stack) - 1], c2)))
    BY <1>1, <1>3, <2>6, StackReturns
  <2>8. stack' = Append(Front(Front(stack)), Gone(stack[Len(stack) - 1], c2))
    BY <1>8 DEF Gone, c2, g, Rest
  <2>9. StackOK(acct, ix, stack')
    BY <2>7, <2>8
  <2>10. TrailOK(acct, ix, approved')
    <3>1. \A k \in DOMAIN approved' : <<k, approved'[k]>> \in Leavable
      BY <1>8, <2>3
    <3>2. ASSUME NEW k \in DOMAIN approved'
          PROVE  k \in DOMAIN acct /\ approved'[k] \in States /\ Clean(ix.program, acct[k], approved'[k])
      <4>1. <<k, approved'[k]>> \in Leavable
        BY <3>1
      <4> QED BY <4>1, LeavableMeans
    <3> QED BY <3>2 DEF TrailOK
  <2>11. OnlyOwnersWrite'
    BY <1>8, OwnersByAccount DEF InvocationInv
  <2>12. IxOK(acct', ix') /\ StackOK(acct', ix', stack') /\ TrailOK(acct', ix', approved')
    BY <1>3, <1>8, <2>9, <2>10
  <2> QED BY <1>3, <1>8, <2>11, <2>12 DEF InvocationInv
<1>9. IF gate.ok
      THEN /\ stack' = Append(Front(Rest),
                         [caller EXCEPT !.copies = write_back(@, f.window, gate.copies), !.todo = Tail(@)])
           /\ approved' = gate.trail
           /\ UNCHANGED <<ix, acct, spent, outcome>>
      ELSE Fail("IllegalOwnerWrite")
  <2> HIDE DEF f, caller, d
  <2> QED BY <1>4, <1>5 DEF Return
<1> QED BY <1>7, <1>8, <1>9

-----------------------------------------------------------------------------
(***************************************************************************)
(* The end of the instruction.                                             *)
(***************************************************************************)

\* The states, by key, that can be stored.
Storable == {x \in (DOMAIN acct) \X States : Fine(acct[x[1]], x[2])}

LEMMA StorableMeans ==
  \A k, s : <<k, s>> \in Storable <=> k \in DOMAIN acct /\ s \in States /\ Fine(acct[k], s)
<1> TAKE k, s
<1> DEFINE x == <<k, s>>
<1>1. x[1] = k /\ x[2] = s /\ (x \in (DOMAIN acct) \X States <=> k \in DOMAIN acct /\ s \in States)
  OBVIOUS
<1> HIDE DEF x
<1>2. x \in Storable <=> x \in (DOMAIN acct) \X States /\ Fine(acct[x[1]], x[2])
  BY DEF Storable
<1>3. x \in Storable <=> k \in DOMAIN acct /\ s \in States /\ Fine(acct[k], s)
  BY <1>1, <1>2
<1> QED BY <1>3 DEF x

LEMMA ClaimedState ==
  ASSUME NEW p \in Writers, NEW pre, NEW s \in States
  PROVE  claim(p, pre, s) \in States
<1>1. [s EXCEPT !.owner = p] \in States
  BY DEF States
<1> QED BY <1>1 DEF claim

LEMMA Finishes ==
  ASSUME InvocationInv, Finish
  PROVE  InvocationInv'
<1> DEFINE f == stack[1]
           p == ix.program
           cs == f.copies
           before == [i \in DOMAIN ix.keys |-> acct[ix.keys[i]]]
           gate == validate_writes(p, before, cs)
<1>1. Len(stack) = 1
  BY DEF Finish
<1>2. stack # <<>>
  BY <1>1
<1>3. outcome = "running" /\ IxOK(acct, ix) /\ StackOK(acct, ix, stack) /\ TrailOK(acct, ix, approved)
  BY <1>2, RunningIsRunning
<1>4. Top = f /\ cs \in Seq(Copies(acct))
  BY <1>1, <1>2, <1>3, TopOf DEF Top
<1>5. CASE Fail("IllegalOwnerWrite")
  BY <1>5, Fails
<1>6. CASE /\ gate.ok
           /\ acct' = Overlay(gate.copies)
           /\ outcome' = "accepted" /\ stack' = <<>>
           /\ UNCHANGED <<ix, spent>>
  <2>1. /\ p \in DOMAIN run_builtin /\ \A k \in DOMAIN acct : acct[k] \in States
        /\ \A k \in DOMAIN acct : is_blank(acct[k]) => acct[k].owner \in {p, "system"}
        /\ ix.was = acct
    BY <1>3 DEF IxOK
  <2>2. p \in Writers
    BY <2>1 DEF Writers
  <2>3. \A k \in DOMAIN approved : <<k, approved[k]>> \in Storable
    <3> TAKE k \in DOMAIN approved
    <3>1. k \in DOMAIN acct /\ approved[k] \in States /\ Clean(ix.program, acct[k], approved[k])
      BY <1>3 DEF TrailOK
    <3>2. Fine(acct[k], approved[k])
      BY <2>1, <3>1, CleanIsFine
    <3> QED BY <3>1, <3>2, StorableMeans
  <2>4. ASSUME NEW i \in DOMAIN cs
        PROVE  /\ cs[i].key \in DOMAIN acct /\ cs[i].state \in States
               /\ before[i] = acct[cs[i].key]
               /\ Writes(p, acct[cs[i].key], cs[i].state) \/ Clean(p, acct[cs[i].key], cs[i].state)
    <3>1. Bottom(acct, ix, f)
      BY <1>2, <1>3 DEF StackOK
    <3>2. cs[i] \in Copies(acct)
      BY <1>4
    <3>3. i \in DOMAIN ix.keys /\ cs[i].key = ix.keys[i]
      BY <3>1 DEF Bottom
    <3>4. Writes(p, acct[cs[i].key], cs[i].state) \/ Clean(p, acct[cs[i].key], cs[i].state)
      BY <3>1 DEF Bottom
    <3> QED BY <3>2, <3>3, <3>4 DEF Copies
  <2> HIDE DEF before, cs, f
  <2>5. ASSUME NEW i \in DOMAIN cs, Legal(p, before[i], cs[i].state)
        PROVE  <<cs[i].key, claim(p, before[i], cs[i].state)>> \in Storable
    <3> DEFINE k == cs[i].key
               s == cs[i].state
               old == acct[k]
    <3>1. /\ k \in DOMAIN acct /\ s \in States /\ before[i] = old
          /\ Writes(p, old, s) \/ Clean(p, old, s)
      BY <2>4
    <3>2. old \in States /\ (is_blank(old) => old.owner \in {p, "system"})
      BY <2>1, <3>1
    <3>3. Legal(p, old, s)
      BY <2>5, <3>1
    <3> HIDE DEF old, s, k
    <3>4. Fine(old, claim(p, old, s)) /\ claim(p, old, s) \in States
      BY <2>2, <3>1, <3>2, <3>3, TopLeavesFine, ClaimedState
    <3>5. <<k, claim(p, old, s)>> \in Storable
      BY <3>1, <3>4, StorableMeans DEF old
    <3> QED BY <3>1, <3>5 DEF k, s
  <2>6. \A i \in DOMAIN cs :
          ~same_state(before[i], cs[i].state) /\ Legal(p, before[i], cs[i].state)
            => <<cs[i].key, claim(p, before[i], cs[i].state)>> \in Storable
    BY <2>5
  <2> HIDE DEF p
  <2>7. /\ DOMAIN gate.copies = DOMAIN cs
        /\ \A i \in DOMAIN cs :
             LET c == gate.copies[i]
             IN /\ c.key = cs[i].key
                /\ before[i] = cs[i].state => c.state = cs[i].state
                /\ before[i] # cs[i].state => <<c.key, c.state>> \in Storable
    <3>1. LET gt == validate_writes(p, before, cs)
          IN /\ \A k \in DOMAIN gt.trail : <<k, gt.trail[k]>> \in Storable
             /\ DOMAIN gt.copies = DOMAIN cs
             /\ \A i \in DOMAIN cs :
                  LET c == gt.copies[i]
                  IN /\ c.key = cs[i].key /\ c.flag = cs[i].flag
                     /\ before[i] = cs[i].state => c.state = cs[i].state
                     /\ before[i] # cs[i].state => <<c.key, c.state>> \in Storable
      BY <1>4, <1>6, <2>3, <2>6, GateKeeps
    <3> QED BY <3>1, Zenon
  <2> DEFINE g == gate.copies
             at(k) == {i \in DOMAIN g : g[i].key = k}
  <2> HIDE DEF gate
  <2>8. DOMAIN g = 1 .. Len(cs) /\ Len(cs) \in Nat
    <3>1. DOMAIN cs = 1 .. Len(cs) /\ Len(cs) \in Nat
      BY <1>4
    <3> QED BY <2>7, <3>1
  <2> HIDE DEF g
  <2>9. ASSUME NEW k \in DOMAIN acct PROVE Fine(acct[k], Overlay(g)[k])
    <3>1. CASE at(k) = {}
      <4>1. Overlay(g)[k] = acct[k]
        BY <3>1 DEF Overlay
      <4> QED BY <4>1 DEF Fine
    <3>2. CASE at(k) # {}
      <4> DEFINE i == Max(at(k))
      <4>1. i \in DOMAIN g /\ g[i].key = k
        <5>1. at(k) \in SUBSET (1 .. Len(cs))
          BY <2>8
        <5> HIDE DEF at
        <5>2. i \in at(k)
          BY <2>8, <3>2, <5>1, LastOf
        <5> QED BY <5>2 DEF at
      <4>2. Overlay(g)[k] = g[i].state
        BY <3>2 DEF Overlay
      <4> HIDE DEF i, at
      <4>3. /\ i \in DOMAIN cs /\ g[i].key = cs[i].key
            /\ before[i] = cs[i].state => g[i].state = cs[i].state
            /\ before[i] # cs[i].state => <<g[i].key, g[i].state>> \in Storable
        BY <2>7, <4>1 DEF g
      <4>4. cs[i].key = k /\ before[i] = acct[k]
        BY <2>4, <4>1, <4>3
      <4>5. CASE before[i] = cs[i].state
        <5>1. g[i].state = acct[k]
          BY <4>3, <4>4, <4>5
        <5> QED BY <4>2, <5>1 DEF Fine
      <4>6. CASE before[i] # cs[i].state
        BY <4>1, <4>2, <4>3, <4>6, StorableMeans
      <4> QED BY <4>5, <4>6
    <3> QED BY <3>1, <3>2
  <2>10. acct' = Overlay(g) /\ DOMAIN Overlay(g) = DOMAIN acct
    BY <1>6 DEF g, Overlay
  <2>11. ix' = ix
    BY <1>6
  <2>12. AccountsFine(acct', ix'.was)
    BY <2>1, <2>9, <2>10, <2>11 DEF AccountsFine
  <2>13. OnlyOwnersWrite'
    BY <2>12, OwnersByAccount
  <2> QED BY <1>6, <2>13 DEF InvocationInv
<1>7. IF gate.ok
      THEN /\ acct' = Overlay(gate.copies)
           /\ approved' = gate.trail
           /\ outcome' = "accepted" /\ stack' = <<>>
           /\ UNCHANGED <<ix, spent>>
      ELSE Fail("IllegalOwnerWrite")
  <2> HIDE DEF f
  <2> QED BY <1>4 DEF Finish
<1> QED BY <1>5, <1>6, <1>7

-----------------------------------------------------------------------------
LEMMA InvocationInvInit == InvocationInit => InvocationInv
<1> SUFFICES ASSUME InvocationInit PROVE InvocationInv
  OBVIOUS
<1>1. IxOK(acct, ix) /\ stack = <<>> /\ outcome = "running"
  BY InitOK
<1>2. StackOK(acct, ix, <<>>)
  <2>1. <<>> \in Seq(Frames(acct)) /\ DOMAIN <<>> = {} /\ 2 .. Len(<<>>) = {}
    OBVIOUS
  <2> QED BY <2>1 DEF StackOK
<1>3. OnlyOwnersWrite
  <2>1. ix.was = acct
    BY <1>1 DEF IxOK
  <2>2. AccountsFine(acct, ix.was)
    BY <2>1 DEF AccountsFine, Fine
  <2> QED BY <2>2, OwnersByAccount
<1> QED BY <1>1, <1>2, <1>3 DEF InvocationInv

LEMMA InvocationInvNext == InvocationInv /\ [InvocationNext]_invocationVars => InvocationInv'
<1> SUFFICES ASSUME InvocationInv, [InvocationNext]_invocationVars PROVE InvocationInv'
  OBVIOUS
<1>1. CASE Begin
  BY <1>1, Begins
<1>2. CASE require_signer
  BY <1>2, Signs
<1>3. CASE write_data \/ ChangeDirectly \/ Stop
  BY <1>3, OwnEffects
<1>4. CASE invoke_signed_indexed
  BY <1>4, CallsOut
<1>5. CASE Return
  BY <1>5, Returns
<1>6. CASE Finish
  BY <1>6, Finishes
<1>7. CASE UNCHANGED invocationVars
  <2>1. OnlyOwnersWrite'
    BY <1>7, OwnersByAccount DEF InvocationInv, invocationVars
  <2> QED BY <1>7, <2>1 DEF InvocationInv, invocationVars
<1> QED BY <1>1, <1>2, <1>3, <1>4, <1>5, <1>6, <1>7 DEF InvocationNext

\* For every depth, budget, cost and residue on the meter, and whatever accounts,
\* keys and flags a client passes to whichever instruction: when the owner gate
\* (owner.rs) has let an instruction and all the calls it made end, a stored change
\* of contents was made by the program that owned the account, or the account was
\* empty; and contents belong to the program that wrote them, unless the system
\* program or a deployed one gave the account away.
THEOREM OwnersOnly == InvocationSpec => []OnlyOwnersWrite
<1>1. InvocationInv => OnlyOwnersWrite
  BY DEF InvocationInv
<1> QED BY <1>1, InvocationInvInit, InvocationInvNext, PTL DEF InvocationSpec

-----------------------------------------------------------------------------
(***************************************************************************)
(* Signatures.                                                             *)
(***************************************************************************)

\* A signed copy at depth d was signed by the client, or lent a signature on the way.
SignedAt(I, st, d) ==
  \A i \in DOMAIN st[d].copies :
    LET c == st[d].copies[i]
    IN IsSigner(c.flag) =>
         \/ \E s \in DOMAIN I.keys : I.keys[s] = c.key /\ IsSigner(I.flags[s])
         \/ \E e \in 2 .. d : \E j \in Head(st[e - 1].todo).signed : st[e].copies[j].key = c.key

LEMMA SignedOnTheWay ==
  ASSUME NEW A, NEW I, NEW st, StackOK(A, I, st)
  PROVE  \A d \in DOMAIN st : SignedAt(I, st, d)
<1> DEFINE P == {d \in Nat : d \in DOMAIN st => SignedAt(I, st, d)}
<1>1. st \in Seq(Frames(A))
  BY DEF StackOK
<1>2. DOMAIN st = 1 .. Len(st) /\ Len(st) \in Nat
  BY <1>1
<1>3. ASSUME NEW d \in Nat, \A e \in 0 .. d - 1 : e \in P
      PROVE  d \in P
  <2> SUFFICES ASSUME d \in DOMAIN st PROVE SignedAt(I, st, d)
    OBVIOUS
  <2>1. CASE d = 1
    <3>1. Bottom(A, I, st[1])
      BY <1>1, <1>2, <2>1 DEF StackOK
    <3> QED BY <2>1, <3>1 DEF Bottom, SignedAt
  <2>2. CASE d # 1
    <3>1. d \in 2 .. Len(st) /\ d - 1 \in DOMAIN st /\ d - 1 \in 0 .. d - 1
      BY <1>2, <2>2
    <3>2. SignedAt(I, st, d - 1)
      BY <1>3, <3>1
    <3>3. Above(A, I, st[d - 1], st[d])
      BY <3>1 DEF StackOK
    <3>4. ASSUME NEW i \in DOMAIN st[d].copies, IsSigner(st[d].copies[i].flag)
          PROVE  \/ \E s \in DOMAIN I.keys : I.keys[s] = st[d].copies[i].key /\ IsSigner(I.flags[s])
                 \/ \E e \in 2 .. d : \E j \in Head(st[e - 1].todo).signed : st[e].copies[j].key = st[d].copies[i].key
      <4> DEFINE c == st[d].copies[i]
                 of == st[d - 1].copies[st[d].window[i]]
      <4>1. c.key = of.key /\ (i \in Head(st[d - 1].todo).signed \/ c.flag = of.flag)
        BY <3>3 DEF Above
      <4>2. CASE i \in Head(st[d - 1].todo).signed
        BY <3>1, <4>2
      <4>3. CASE c.flag = of.flag
        <5>1. st[d].window[i] \in DOMAIN st[d - 1].copies
          BY <3>1, <3>3, LinkOf DEF Above
        <5>2. \/ \E s \in DOMAIN I.keys : I.keys[s] = of.key /\ IsSigner(I.flags[s])
              \/ \E e \in 2 .. d - 1 : \E j \in Head(st[e - 1].todo).signed : st[e].copies[j].key = of.key
          BY <3>2, <3>4, <4>3, <5>1 DEF SignedAt
        <5>3. 2 .. d - 1 \subseteq 2 .. d
          OBVIOUS
        <5> QED BY <4>1, <5>2, <5>3
      <4> QED BY <4>1, <4>2, <4>3
    <3> QED BY <3>4 DEF SignedAt
  <2> QED BY <2>1, <2>2
<1> HIDE DEF P
<1>4. \A d \in Nat : d \in P
  BY <1>3, NatInductionSet
<1> QED BY <1>2, <1>4 DEF P

\* However deep programs call each other: a slot that counts as signed in a running
\* program was signed by the client, or a call that has not returned yet lent it the
\* signature (cpi.rs: "The signer flag is scoped to the window").
THEOREM SignaturesScoped == InvocationSpec => []SignaturesStayScoped
<1>1. InvocationInv => SignaturesStayScoped
  <2> SUFFICES ASSUME InvocationInv PROVE SignaturesStayScoped
    OBVIOUS
  <2>1. CASE stack = <<>>
    <3>1. DOMAIN stack = {}
      BY <2>1
    <3> QED BY <3>1 DEF SignaturesStayScoped
  <2>2. CASE stack # <<>>
    <3>1. StackOK(acct, ix, stack)
      BY <2>2, RunningIsRunning
    <3>2. \A d \in DOMAIN stack : SignedAt(ix, stack, d)
      BY <3>1, SignedOnTheWay
    <3> QED BY <3>2 DEF SignaturesStayScoped, SignedAt
  <2> QED BY <2>1, <2>2
<1> QED BY <1>1, InvocationInvInit, InvocationInvNext, PTL DEF InvocationSpec
=============================================================================
