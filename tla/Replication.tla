---------------------------- MODULE Replication ----------------------------
(***************************************************************************)
(* Replication and priority failover (follower.rs, started from main.rs):  *)
(* one primary produces blocks, followers pull them one by one, re-execute *)
(* them on their own accounts, and promote themselves when polls keep      *)
(* failing and no standby of higher priority answers.  Quorum failover is  *)
(* module Election, the primary's admission of transactions TxPipeline.    *)
(*                                                                         *)
(* An account is the amount it holds.  An instruction mints an amount, or  *)
(* moves one and fails if the source is short: token MintTo and Transfer.  *)
(* The state root stands for the accounts it commits to.                   *)
(***************************************************************************)
EXTENDS Integers, Sequences, SequencesExt, FiniteSets

CONSTANTS Followers, Primary,
          Higher,       \* Higher[f]: the standbys f defers to
          Accounts, Txs,
          Instrs,       \* Instrs[t]: the instructions of transaction t
          Failover,     \* is HIMSHA_FAILOVER_MISSES set
          MaxMisses,    \* its value
          Mortal,       \* nodes that may crash
          MaxSlot,      \* bound: slots
          MaxBatch,     \* bound: transactions in a batch
          Faults,       \* the kinds of faults that may happen
          MaxFaults,    \* bound: their number
          MaxReruns     \* bound: blocks given up on because an instruction fails

Nodes == Followers \cup {Primary}
Kinds == {"crash", "torn", "restart", "drop", "airdrop"}
Mint(a, k)    == [op |-> "mint", to |-> a, amount |-> k]
Move(a, b, k) == [op |-> "move", from |-> a, to |-> b, amount |-> k]
Instruction == [op : {"mint"}, to : Accounts, amount : Nat]
                 \cup [op : {"move"}, from : Accounts, to : Accounts, amount : Nat]

ASSUME ReplicationAssumption ==
  /\ Primary \notin Followers
  /\ Higher \in [Followers -> SUBSET Followers]
  /\ Instrs \in [Txs -> Seq(Instruction)]
  /\ Failover \in BOOLEAN
  /\ MaxMisses \in Nat \ {0}
  /\ Mortal \subseteq Nodes
  /\ Faults \subseteq Kinds
  /\ {MaxSlot, MaxBatch, MaxFaults, MaxReruns} \subseteq Nat

VARIABLES              \* each node's database
  slot,                \* META["slot"]
  blocks,              \* BLOCKS: blocks[n][s] for the slots that have one
  bal                  \* ACCOUNTS: bal[n][a]
VARIABLES              \* each node's task
  at,                  \* where it stands
  batch, included,     \* sequencer: still to execute, executed
  misses, target,      \* follower: failed polls in a row, the slot to reach
  block,               \* the block it is applying
  todo, writes,        \* its instructions to run, accounts to save
  ask                  \* higher standbys still to ask
VARIABLES              \* observation and bounds
  promoted,            \* history: followers that ever promoted themselves
  faults,              \* how many of each kind so far: crashes between blocks and
                       \* within one (torn), restarts, lost calls, airdrops
  reruns               \* blocks given up on so far

db   == <<slot, blocks, bal>>
task == <<at, batch, included, misses, target, block, todo, writes, ask>>
history == <<promoted, faults, reruns>>
vars == <<db, task, history>>

Sequencing(n) == at[n] \in {"produce", "execute"}
Up(n)         == at[n] # "down"
Applying(n)   == at[n] \in {"apply", "saved"}

Total    == faults.crash + faults.torn + faults.restart + faults.drop + faults.airdrop
Fault(k) == k \in Faults /\ Total < MaxFaults /\ faults' = [faults EXCEPT ![k] = @ + 1]

Balances == [Accounts -> Nat]
Block    == [txs : Seq(Txs), root : Balances]
Genesis  == [txs |-> << >>, root |-> [a \in Accounts |-> 0]]

TypeOK ==
  /\ slot \in [Nodes -> Nat]
  /\ \A n \in Nodes : \A s \in DOMAIN blocks[n] : s \in Nat /\ blocks[n][s] \in Block
  /\ bal \in [Nodes -> Balances]
  /\ at \in [Nodes -> {"poll", "sync", "apply", "saved", "decide", "ask",
                       "produce", "execute", "down"}]
  /\ batch \in [Nodes -> Seq(Txs)] /\ included \in [Nodes -> Seq(Txs)]
  /\ misses \in [Nodes -> 0 .. MaxMisses]
  /\ target \in [Nodes -> Nat]
  /\ block \in [Nodes -> Block]
  /\ todo \in [Nodes -> Seq(Instruction)]
  /\ writes \in [Nodes -> Seq(Accounts \X Nat)]
  /\ ask \in [Nodes -> SUBSET Followers]
  /\ promoted \subseteq Followers
  /\ faults \in [Kinds -> Nat] /\ Total <= MaxFaults
  /\ reruns \in 0 .. MaxReruns

\* What the node's environment variables make of it when it starts.
Configured(n) == IF n = Primary THEN "produce" ELSE "poll"

Init ==
  /\ slot = [n \in Nodes |-> 0]
  /\ blocks = [n \in Nodes |-> [s \in {0} |-> Genesis]]
  /\ bal = [n \in Nodes |-> Genesis.root]
  /\ at = [n \in Nodes |-> Configured(n)]
  /\ batch = [n \in Nodes |-> << >>]
  /\ included = [n \in Nodes |-> << >>]
  /\ misses = [n \in Nodes |-> 0]
  /\ target = [n \in Nodes |-> 0]
  /\ block = [n \in Nodes |-> Genesis]
  /\ todo = [n \in Nodes |-> << >>]
  /\ writes = [n \in Nodes |-> << >>]
  /\ ask = [n \in Nodes |-> {}]
  /\ promoted = {}
  /\ faults = [k \in Kinds |-> 0]
  /\ reruns = 0

-----------------------------------------------------------------------------
(***************************************************************************)
(* Running instructions.                                                   *)
(***************************************************************************)

CanRun(b, i) ==
  i.op = "move" => b[i.from] >= i.amount /\ i.from # i.to

\* The accounts the instruction changed, in the order they are saved.
Updated(b, i) ==
  IF i.op = "mint" THEN << <<i.to, b[i.to] + i.amount>> >>
  ELSE << <<i.from, b[i.from] - i.amount>>, <<i.to, b[i.to] + i.amount>> >>

Save(b, w) == [b EXCEPT ![w[1]] = w[2]]

save_block(bs, s, b) == [k \in DOMAIN bs \cup {s} |-> IF k = s THEN b ELSE bs[k]]

\* What the instruction makes of the accounts, saved together.
Effect(b, i) ==
  IF i.op = "mint" THEN [b EXCEPT ![i.to] = @ + i.amount]
  ELSE [b EXCEPT ![i.from] = @ - i.amount, ![i.to] = @ + i.amount]

\* A transaction runs against an overlay and is saved as a whole or not at all:
\* whether its instructions all run, and where the overlay then stands.
Apply(b, is) ==
  LET run[k \in 0 .. Len(is)] ==
        IF k = 0 THEN [ok |-> TRUE, bal |-> b]
        ELSE IF run[k - 1].ok /\ CanRun(run[k - 1].bal, is[k])
        THEN [ok |-> TRUE, bal |-> Effect(run[k - 1].bal, is[k])]
        ELSE [ok |-> FALSE, bal |-> run[k - 1].bal]
  IN run[Len(is)]

-----------------------------------------------------------------------------
(***************************************************************************)
(* A sequencer.                                                            *)
(***************************************************************************)

\* The batch is what the channel holds: transactions this node's index does not
\* know yet.
IndexedTxs(n) == UNION {ToSet(blocks[n][s].txs) : s \in DOMAIN blocks[n]}
Batches(n) == {b \in SeqOf(Txs \ IndexedTxs(n), MaxBatch) :
                 b # << >> /\ IsInjective(b)}

StartBlock(n) ==
  /\ at[n] = "produce" /\ slot[n] < MaxSlot
  /\ \E b \in Batches(n) : batch' = [batch EXCEPT ![n] = b]
  /\ slot' = [slot EXCEPT ![n] = @ + 1]
  /\ included' = [included EXCEPT ![n] = << >>]
  /\ at' = [at EXCEPT ![n] = "execute"]
  /\ UNCHANGED <<blocks, bal, misses, target, block, todo, writes, ask, history>>

ExecuteTx_Mutant(n) ==
  /\ at[n] = "execute" /\ batch[n] # << >>
  /\ LET t == Head(batch[n])
         r == Apply(bal[n], Instrs[t])
     IN /\ bal' = [bal EXCEPT ![n] = r.bal]
        /\ included' = IF r.ok THEN [included EXCEPT ![n] = Append(@, t)] ELSE included
  /\ batch' = [batch EXCEPT ![n] = Tail(@)]
  /\ UNCHANGED <<slot, blocks, at, misses, target, block, todo, writes, ask, history>>

ExecuteTx(n) ==
  /\ at[n] = "execute" /\ batch[n] # << >>
  /\ LET t == Head(batch[n])
         r == Apply(bal[n], Instrs[t])
     IN IF r.ok
        THEN /\ bal' = [bal EXCEPT ![n] = r.bal]
             /\ included' = [included EXCEPT ![n] = Append(@, t)]
        ELSE UNCHANGED <<bal, included>>
  /\ batch' = [batch EXCEPT ![n] = Tail(@)]
  /\ UNCHANGED <<slot, blocks, at, misses, target, block, todo, writes, ask, history>>

SaveBlock(n) ==
  /\ at[n] = "execute" /\ batch[n] = << >>
  /\ blocks' = [blocks EXCEPT ![n] =
       save_block(@, slot[n], [txs |-> included[n], root |-> bal[n]])]
  /\ at' = [at EXCEPT ![n] = "produce"]
  /\ UNCHANGED <<slot, bal, batch, included, misses, target, block, todo, writes, ask, history>>

\* requestAirdrop credits an account of the node that was asked, outside any
\* block; the code offers it on every node.
Airdrop(n, a) ==
  /\ Up(n) /\ Fault("airdrop")
  /\ bal' = [bal EXCEPT ![n][a] = @ + 1]
  /\ UNCHANGED <<slot, blocks, task, promoted, reruns>>

-----------------------------------------------------------------------------
(***************************************************************************)
(* A follower.  Any error of sync_once counts as a missed poll.            *)
(***************************************************************************)

Missed(f) ==
  /\ misses' = [misses EXCEPT ![f] = IF @ < MaxMisses THEN @ + 1 ELSE @]
  /\ at' = [at EXCEPT ![f] = "decide"]

Synced(f) ==
  /\ misses' = [misses EXCEPT ![f] = 0]
  /\ at' = [at EXCEPT ![f] = "decide"]

GetSlot(f) ==
  /\ at[f] = "poll" /\ Up(Primary)
  /\ target' = [target EXCEPT ![f] = slot[Primary]]
  /\ at' = [at EXCEPT ![f] = "sync"]
  /\ UNCHANGED <<db, batch, included, misses, block, todo, writes, ask, history>>

CaughtUp_Mutant(f) ==
  /\ at[f] = "sync" /\ slot[f] + 1 >= target[f]
  /\ Synced(f)
  /\ UNCHANGED <<db, batch, included, target, block, todo, writes, ask, history>>

CaughtUp(f) ==
  /\ at[f] = "sync" /\ slot[f] >= target[f]
  /\ Synced(f)
  /\ UNCHANGED <<db, batch, included, target, block, todo, writes, ask, history>>

FetchBlock(f) ==
  /\ at[f] = "sync" /\ slot[f] < target[f] /\ Up(Primary)
  /\ slot[f] + 1 \in DOMAIN blocks[Primary]
  /\ LET b == blocks[Primary][slot[f] + 1]
     IN /\ block' = [block EXCEPT ![f] = b]
        /\ todo' = [todo EXCEPT ![f] = FlattenSeq([k \in DOMAIN b.txs |-> Instrs[b.txs[k]]])]
  /\ writes' = [writes EXCEPT ![f] = << >>]
  /\ at' = [at EXCEPT ![f] = "apply"]
  /\ UNCHANGED <<db, batch, included, misses, target, ask, history>>

\* The primary has no such block: not an error, the poll ends well.
BlockMissing(f) ==
  /\ at[f] = "sync" /\ slot[f] < target[f] /\ Up(Primary)
  /\ slot[f] + 1 \notin DOMAIN blocks[Primary]
  /\ Synced(f)
  /\ UNCHANGED <<db, batch, included, target, block, todo, writes, ask, history>>

\* The call to the primary fails: it is down or the network drops it.
CallFails(f) ==
  /\ at[f] = "poll" \/ (at[f] = "sync" /\ slot[f] < target[f])
  /\ IF Up(Primary) THEN Fault("drop") ELSE UNCHANGED faults
  /\ Missed(f)
  /\ UNCHANGED <<db, batch, included, target, block, todo, writes, ask, promoted, reruns>>

\* The next instruction of the block runs on the follower's own accounts.
RunInstr(f) ==
  /\ at[f] = "apply" /\ writes[f] = << >> /\ todo[f] # << >>
  /\ CanRun(bal[f], Head(todo[f]))
  /\ writes' = [writes EXCEPT ![f] = Updated(bal[f], Head(todo[f]))]
  /\ todo' = [todo EXCEPT ![f] = Tail(@)]
  /\ UNCHANGED <<db, at, batch, included, misses, target, block, ask, history>>

\* The poll ends in an error; what the block's earlier instructions saved stays,
\* and the next poll runs them again.
InstrFails(f) ==
  /\ at[f] = "apply" /\ writes[f] = << >> /\ todo[f] # << >>
  /\ ~CanRun(bal[f], Head(todo[f]))
  /\ reruns < MaxReruns /\ reruns' = reruns + 1
  /\ Missed(f)
  /\ UNCHANGED <<db, batch, included, target, block, todo, writes, ask, promoted, faults>>

\* Every account is saved in a database transaction of its own.
SaveAccount(f) ==
  /\ at[f] = "apply" /\ writes[f] # << >>
  /\ bal' = [bal EXCEPT ![f] = Save(@, Head(writes[f]))]
  /\ writes' = [writes EXCEPT ![f] = Tail(@)]
  /\ UNCHANGED <<slot, blocks, at, batch, included, misses, target, block, todo, ask, history>>

\* All instructions have run.  A root that differs is logged, nothing more.
FinishBlock(f) ==
  /\ at[f] = "apply" /\ writes[f] = << >> /\ todo[f] = << >>
  /\ blocks' = [blocks EXCEPT ![f] = save_block(@, slot[f] + 1, block[f])]
  /\ at' = [at EXCEPT ![f] = "saved"]
  /\ UNCHANGED <<slot, bal, batch, included, misses, target, block, todo, writes, ask, history>>

AdvanceSlot_Mutant(f) ==
  /\ at[f] = "saved"
  /\ slot' = [slot EXCEPT ![f] = target[f]]
  /\ at' = [at EXCEPT ![f] = "sync"]
  /\ UNCHANGED <<blocks, bal, batch, included, misses, target, block, todo, writes, ask, history>>

AdvanceSlot(f) ==
  /\ at[f] = "saved"
  /\ slot' = [slot EXCEPT ![f] = @ + 1]
  /\ at' = [at EXCEPT ![f] = "sync"]
  /\ UNCHANGED <<blocks, bal, batch, included, misses, target, block, todo, writes, ask, history>>

should_promote(f) == Failover /\ misses[f] >= MaxMisses

Decide_Mutant(f) ==
  /\ at[f] = "decide"
  /\ at' = [at EXCEPT ![f] = IF should_promote(f) THEN "ask" ELSE "poll"]
  /\ UNCHANGED <<db, batch, included, misses, target, block, todo, writes, ask, history>>

Decide(f) ==
  /\ at[f] = "decide"
  /\ at' = [at EXCEPT ![f] = IF should_promote(f) THEN "ask" ELSE "poll"]
  /\ ask' = [ask EXCEPT ![f] = Higher[f]]
  /\ UNCHANGED <<db, batch, included, misses, target, block, todo, writes, history>>

\* A standby of higher priority answers: not this round.
Defer(f, p) ==
  /\ at[f] = "ask" /\ p \in ask[f] /\ Up(p)
  /\ at' = [at EXCEPT ![f] = "poll"]
  /\ UNCHANGED <<db, batch, included, misses, target, block, todo, writes, ask, history>>

NoAnswer(f, p) ==
  /\ at[f] = "ask" /\ p \in ask[f]
  /\ IF Up(p) THEN Fault("drop") ELSE UNCHANGED faults
  /\ ask' = [ask EXCEPT ![f] = @ \ {p}]
  /\ UNCHANGED <<db, at, batch, included, misses, target, block, todo, writes, promoted, reruns>>

Promote(f) ==
  /\ at[f] = "ask" /\ ask[f] = {}
  /\ at' = [at EXCEPT ![f] = "produce"]
  /\ promoted' = promoted \cup {f}
  /\ UNCHANGED <<db, batch, included, misses, target, block, todo, writes, ask, faults, reruns>>

-----------------------------------------------------------------------------
\* The process dies: the databases stay, the tasks start afresh.
Crash(n) ==
  /\ n \in Mortal /\ Up(n)
  /\ Fault(IF at[n] = "execute" \/ Applying(n) THEN "torn" ELSE "crash")
  /\ at' = [at EXCEPT ![n] = "down"]
  /\ UNCHANGED <<db, batch, included, misses, target, block, todo, writes, ask, promoted, reruns>>

Restart(n) ==
  /\ at[n] = "down" /\ Fault("restart")
  /\ at' = [at EXCEPT ![n] = Configured(n)]
  /\ misses' = [misses EXCEPT ![n] = 0]
  /\ UNCHANGED <<db, batch, included, target, block, todo, writes, ask, promoted, reruns>>

Produce(n) == StartBlock(n) \/ ExecuteTx(n) \/ SaveBlock(n)

Follow(f) ==
  \/ GetSlot(f) \/ CaughtUp(f) \/ FetchBlock(f) \/ BlockMissing(f)
  \/ RunInstr(f) \/ InstrFails(f) \/ SaveAccount(f)
  \/ FinishBlock(f) \/ AdvanceSlot(f)
  \/ Decide(f) \/ Promote(f)
  \/ \E p \in Followers : Defer(f, p)

Next ==
  \/ \E n \in Nodes : Produce(n) \/ Crash(n) \/ Restart(n)
  \/ \E n \in Nodes, a \in Accounts : Airdrop(n, a)
  \/ \E f \in Followers : Follow(f) \/ CallFails(f) \/ \E p \in Followers : NoAnswer(f, p)

Spec == Init /\ [][Next]_vars

\* The producer finishes the block it has begun and the follower's loop goes on;
\* nobody promises another transaction, a crash or a lost call.
FairSpec ==
  /\ Spec
  /\ \A n \in Nodes : WF_vars(ExecuteTx(n) \/ SaveBlock(n))
  /\ \A f \in Followers : WF_vars(Follow(f))

-----------------------------------------------------------------------------
(***************************************************************************)
(* Properties.                                                             *)
(***************************************************************************)

\* The blocks a replica holds up to its slot are the primary's, without a hole,
\* through crashes, restarts, lost calls and airdrops (a promoted follower has
\* blocks of its own).
ReplicaHoldsPrimaryChain ==
  \A f \in Followers \ promoted :
    /\ slot[f] <= slot[Primary]
    /\ \A s \in 0 .. slot[f] :
         s \in DOMAIN blocks[f] /\ s \in DOMAIN blocks[Primary]
           /\ blocks[f][s] = blocks[Primary][s]

\* Between two blocks a replica's accounts are those the block's state root
\* commits to: re-executing arrives where the primary was, unless accounts were
\* changed outside blocks or a node died within a block.
ReplicaMatchesRoot ==
  faults.airdrop + faults.torn = 0 =>
    \A f \in Followers \ promoted :
      Up(f) /\ ~Applying(f) => bal[f] = blocks[f][slot[f]].root

\* follower.rs: "exactly one (the highest-priority live node) promotes - no two
\* sequencers at once".
OneSequencer == Cardinality({n \in Nodes : Sequencing(n)}) <= 1

\* What priority failover achieves: whatever nodes die at whatever moment, no two
\* nodes sequence, as long as the dead stay dead, no call between live nodes is
\* lost and no account changes outside blocks.
CrashesLeaveOneSequencer ==
  faults.restart + faults.drop + faults.airdrop = 0 => OneSequencer

\* follower.rs on sync_once: "Catch up from the local slot to the primary's tip".
\* While the primary is there, a replica reaches every slot it has reached, through
\* lost calls and crashes between blocks.
ReplicaCatchesUp ==
  \A f \in Followers : \A k \in 1 .. MaxSlot :
    slot[Primary] = k ~> \/ slot[f] >= k
                         \/ ~Up(Primary) \/ ~Up(f) \/ f \in promoted
                         \/ faults.airdrop + faults.torn > 0
=============================================================================
