# TLA+ specifications of the Himsha network

Himsha is a programmable layer over Bitcoin: one sequencer node executes
transactions against accounts with built-in programs and produces blocks;
followers replicate the blocks and take over when the sequencer disappears. This
directory holds TLA+ models of its protocols and programs, the TLC
configurations that check them on small instances, and TLAPS proofs of the
results that matter for every instance. Paths are relative to the repository.

## 1. Inventory of the system

| Part | State it keeps | Operations | Correct when |
|---|---|---|---|
| Election (`himsha-node/src/election.rs`, `follower.rs`) | current_term, voted_for, leader_id, is_leader, in memory only | preVote, requestVote, getLeader; elect, discover_leader | one vote per term and voter, one winner per term, a term is opened only after a pre-vote majority |
| Pipeline (`main.rs` send_transaction, `block_producer.rs`) | bounded channel, tasks, BLOCKS, TX_IDX, TX_STATUS, slot | check, dry run, mark pending, enqueue, execute, save block, index, mark | an accepted transaction is applied once, in a block, with a status that names that block |
| Follower (`follower.rs`) | last applied slot, tick counters | sync_once, apply_block, apply_transaction, priority failover | a follower's state is a prefix of the primary's |
| State DB (`state.rs`) | accounts, vault reserves, blocks, statuses, anchors | one redb transaction per call | what is read together was written together |
| Execution and settlement (`execution.rs`, `settlement.rs`) | pending lending settlements | execute_transaction, settle_lending, drain | every settled loan pays out once |
| Bitcoin indexer (`bitcoin_indexer.rs`) | last height, last mempool | poll_once, transfer_utxo, transfer_utxo_committee | subscribers learn what became of each transaction |
| Custody (`custody.rs`, `settlement_tx.rs`) | the committee's key, in memory only | from_env, settle_with_committee | what users deposit can be sent on when a loan ends |
| Runtime (`himsha-runtime`) | accounts of one transaction, CPI depth, compute units, approvals | owner gate, CPI write back, Merkle root | a program changes only what it owns; lamports are conserved; what the builders make can run |
| VM (`himsha-vm`) | registry | execute, dispatch | a failed instruction leaves nothing behind |
| Threshold (`himsha-threshold`) | shares, excluded signers | DKG, sign, sign_robust | a quorum of honest signers always signs |
| Programs (`himsha-programs/*`) | one account layout each | one handler per instruction | conservation: what is owed is held |
| CLI, SDKs, website | none | encoding, RPC calls | not modelled: no state |

How the parts interact. RPC handlers run concurrently on a multi-threaded
runtime; they share the database (one redb transaction per call, nothing spans
two calls), the pending channel and the election lock. The block producer is one
task. A follower runs sync and election in one loop, and becomes a producer when
promoted. Programs are called by the VM with account snapshots and call each
other through CPI, which copies accounts in and out by index.


### What is hard in this code

- Interleavings: the election mutex is held for single statements, so an RPC
  handler runs between any two steps of a candidate's loop; `sendTransaction`
  reads, preflights and marks in separate database transactions; the producer
  and airdrops write the same accounts.
- Crashes: term and vote, the pending channel and every task are in memory only;
  a batch is committed transaction by transaction before its block is saved; a
  replica saves a block account by account.
- Lost and late calls: a vote request that its caller gave up on is still handled;
  every error of a poll counts as a missed one.
- Order of effects: lending settlements go out to Bitcoin before the accounts that
  call for them are saved.
- Arithmetic: interest, shares, liquidity tokens and medians round in several
  places, and timestamps are chosen by whoever submits.
- Copies: the vault's cached assets and lender shares, the pool's cached
  reserves, one copy of an account per instruction slot and per call.
- The outside: Bitcoin moves between two calls of a poll, an answer is lost after its
  transaction was accepted, a restarted node has another committee.

`PROJECT.json` lists these one by one, at the line where each bites, with the
properties that would catch it going wrong.

## 2. Plan

Done, in this order: `Election` with `TermLeaders`, `TxPipeline`, `Replication`
(the node's protocols), then `Lending` (program and node together),
`MoneyMarket` and `Vault` (the vault composed with the market it calls), `Swap`,
`Oracle` (the programs that hold value), `Runtime` with `Token` and `Ledger` (the
executor, the owner gate and the programs that make accounts, beside the faucet);
`Instructions` and `Invocation` (every instruction of every program through nested
calls); `Runes` and `Metadata` with `Assets`; `Indexer`, `Threshold` and `Custody`
with `Bitcoin`; proofs for the three protocols, then for the market with its vault,
the swap, the lending program and the ledger, then for the price feed, the runes and
the metadata, and the dealings with Bitcoin, then for the owner gate and nested calls;
restarts of electing nodes, with the theorems restated for them.

Next: the pipeline composed with replication (transactions that a follower accepts
and runs, stale, after its promotion); the Merkle root as a function checked against a
reference; the anchoring of roots.

Worth a refinement: TxPipeline as the implementation of an abstract ledger that appends each accepted
transaction once, and Replication's chain as a prefix of it.

## 3. Modules and the code they model

Every definition that models code is listed with its lines in `PROJECT.json`
(`map`). An MC module extends the module it is named after and adds the model
values; the constants' values are in the `.cfg`.

**Election** (`election.rs`; `follower.rs` run_until_promote, discover_leader, elect;
`main.rs` handlers). `election[n]` is the node's `ElectionState`, and the operators
`observe_term`, `consider_vote`, `consider_pre_vote`, `start_candidacy`,
`become_leader`, `observe_leader` are its methods. `phase`, `todo`, `reply`, `best`,
`round` and `votes` are the loop's position and its local variables. A call to a
member is two steps, its handling (`Answer...`) and the reading of the answer
(`Read...`), because the caller's own handlers run in between; `CallFails`,
`AnswerLost` and `LateRequestVote` are the ways it goes wrong. `grants`, `backed` and
`wins` are history. `TermLeaders` is the abstract specification: each term is handed out
at most once, unless a vote of it is forgotten. `Restart` is the death of a process and
its start in one step (one that is down answers no calls and takes no steps, which the
other actions already allow): the node is as `main` makes it, in term 0 and without a vote, while
requests it sent and answers it gave stay under way. `restarted` and `forgot`, the votes
whose voter has restarted since, are history.

**TxPipeline** (`main.rs` send_transaction; `block_producer.rs` run; the tables in
`state.rs`). The four tables are variables that survive `Crash`; the channel, the
handlers and the producer are not. `Submit` is validation and the index lookup,
`CheckStatus` the status lookup with the preflight, then `MarkPending` and
`Enqueue`; the producer's `Drain`, `ExecuteOk`/`ExecuteErr`, `SaveBlock`, `IndexTx`,
`MarkSucceeded`, `EndBlock` follow the loop body. Each database write that the code
allows to fail takes a Boolean: FALSE is the error path (logged or discarded).
What a transaction does to accounts is abstract here.

**Replication** (`follower.rs` run_until_promote, sync_once, apply_block,
apply_transaction, should_promote; `block_producer.rs`; `main.rs` airdrop). `slot`,
`blocks`, `bal` are each node's database, the rest its task. An account is a
number, an instruction mints or moves; that keeps what re-execution depends on: an
instruction may fail, a transaction is atomic on the primary (`Apply`, which folds
`Effect` over its instructions), and on a replica every account is saved by itself
(`RunInstr`, `SaveAccount`). `Faults` names
the kinds of faults a run allows: crashes between blocks, within one ("torn"),
restarts, lost calls, airdrops.

**Lending** (`himsha-programs/lending`; `execution.rs` apply, settle_lending;
`settlement.rs` drain_lending). A transaction runs instructions on a working copy
(`RunInstr`, `InstrFails`), settles after each (`Settle`, `EndSettle`), then commits or is
discarded (`CommitTx`, `AbortTx`). A replica's copy is run beside it. `torn` and
`tie` are history: something was settled by a transaction that then failed; equal
bids were chosen from.

**MoneyMarket, Vault** (`himsha-programs/money-market`, `vault`). One action per
instruction, with the code's order of rounding. The scales (BPS, price, index,
seconds per year) are constants, so that rounding shows at single-digit amounts.
Vault extends MoneyMarket: `Deploy`, `Undeploy` and `Withdraw` call the market's
instructions on the vault's lender position, and the market's other users act in
between. Whether a caller passes the optional accounts is an input.

**Swap** (`himsha-programs/swap`). One action per instruction, and the two ways the
token program changes the pool's surroundings without it: tokens sent to a
reserve, liquidity tokens burned. `integer_sqrt` is Newton's loop as a recursive
function. U64_MAX is a small constant so that the overflow errors happen.

**Oracle** (`himsha-programs/oracle`). UpdatePrice by honest publishers (who post the
true price) and others (who post anything, with any timestamp), AddPublisher,
RemovePublisher. The limits are those InitFeed was called with.

**Runtime** (`execution.rs` apply, `himsha-vm/src/dispatch.rs`, `himsha-runtime`
account, owner, cpi). `acct` is the ACCOUNTS table. `Execute` is one instruction of a
built-in program: load a copy per slot, refuse a key in two writable slots, run,
put every copy through the owner gate (`validate_write`, with the first writer's
`claim`), store slot by slot. A failed instruction stores nothing, so it is no
step. The contents of an account are a mint, a token account, zeros or nothing.
`shadowed` is history: a changed copy was followed by another copy of the account
that was not flagged writable as well.

**Token** (`himsha-programs/token`). The token program's instructions as changes of
those copies; `WriteFirst` is `write_data`, which needs the writable flag.

**Ledger** composes them with the system program, the associated token account
program (`Create` calls the token program and is gated twice, at the call and at
the instruction) and the faucet, whose calls read an account (`request_airdrop`,
`create_account_with_faucet`) and store it later (`save_account`). An instruction is
one step; `Meanwhile` is a faucet call that ends in the course of it and is
overwritten. The set of slots flagged writable is an input. `reclaimed` is history:
an address that the token program already owned was made an associated account;
`raced`: a faucet call and something else read an account and both stored it.

**Instructions, Invocation** (`himsha-runtime` cpi, owner, compute, account; `himsha-vm`
executor, dispatch; `execution.rs` apply; every program's instruction type, builders and
`process`). Instructions is a set of tables: which accounts an instruction expects,
which flags its builder gives them, and what `process` does to its slots (signature
checks, writes, calls of other programs), in order. Amounts and contents are left to
the programs' own modules; a program may stop with an error between any two
effects. Invocation runs one instruction on them: `Begin` lays out the copies and
starts the program, `invoke_signed_indexed` and `Return` push and pop a frame of
copies, `Finish` stores. The gate goes over the slots in order: `record` gives the
approvals once the slots before the n-th are judged, which is what `validate_write`
finds there. `approved` and `spent` are the thread-local approvals and the
compute meter. An account is its owner, its lamports and the programs that wrote its
contents. Init chooses an instruction as its builder makes it, or with departures:
accounts of others, accounts that were funded before they were made, the same key
twice, other flags.

**Runes, Metadata, Assets** (`himsha-programs/runes`, `nft-metadata`). One action per
instruction. A rune's etching and its balances are accounts of one program, told
apart by their length only: `ReadsAsBalance` and `BalanceOrNew` say what the program
makes of either. `recast`, `hidden` and `relabelled` are history: an account was
written as the other kind, a write was lost because the signer's copy is stored
last, a balance changed its rune. Assets interleaves the two programs.

**Indexer, Threshold, Custody, Bitcoin** (`bitcoin_indexer.rs`, `custody.rs`,
`settlement_tx.rs`, `execution.rs` settle_lending, `himsha-threshold`). The Bitcoin node is
external: transactions arrive, are mined or leave the mempool. `PollHeight` and
`PollMempool` are the two calls of `poll_once`, `PollFails` the failure of the second.
Custody has who can spend each inscription (the wallet, or the committee of one start
of the process), one settlement attempt per inscription with the calls that may fail
or lose their answer, and restarts. Threshold has the signers: `sign`, and the rounds of
`sign_robust` as a recursive function to the set of its possible outcomes, since the
FROST library may name any of several bad shares. What custody sends is in the
mempool that the indexer watches.

## 4. Runs

| Run | Instance | Shows |
|---|---|---|
| election | 3 members, terms to 2, one late request at a time or one restart | `OneWinnerUnlessVoteForgotten`, `TermsBackedByPreVote`, `NamedLeaderSequences`, `TermsAndVotesOnlyMoveForward`, refinement of `TermLeaders` |
| pipeline | 2 transactions, 2 concurrent calls, 4 submissions, channel of 2, 1 crash, 1 failing write | `BlocksReplayCommits`, `IndexNamesItsBlock`, `SuccessNamesItsBlock`, `AppliedOnceUnlessRaced`, `SuccessStays`, `PendingResolves` |
| replication | 2 followers, 2 slots, any 2 faults of 5 kinds | `ReplicaHoldsPrimaryChain`, `ReplicaMatchesRoot`, `CrashesLeaveOneSequencer` |
| replication_catch_up | 1 follower, 3 transactions, the same faults | `ReplicaCatchesUp` |
| lending | 2 bids, 1 inscription, 4 transactions of 2 instructions | `SendsWhatWasCommitted`, `EverythingSettled`, `ReplicaAgrees` |
| vault | 1 borrower, the vault as lender, 2 prices, 2 times | `LedgersAgree`, `SharesWorthDeposit`; of the market `BooksMatch`, `ShareValueNeverFalls`, `DebtFallsOnlyByPaying` |
| swap | 1 user, amounts 1, 2, 5, u64 of 30 | `LockedForever`, `NeverDrained`, `ProvidersKeepValue`, `BootstrapIsRoot` |
| oracle | 3 publishers, one of them arbitrary, 3 prices | `FreshGlitchContained`, `PriceFollows` |
| ledger | a mint, a token account, an associated account, a wallet; 1 lamport, u64 of 2, one faucet call at a time | `TokensConserved`, `LamportsConserved`, `TokenOwnsItsData` |
| invocation | all 46 builders and 13 instructions put together by hand, up to 2 departures, a fresh or nearly used-up meter | `BuiltInstructionsRun`, `OnlyOwnersWrite`, `SignaturesStayScoped` |
| assets | 3 rune accounts, a capped and an open mint, 3 times, u64 of 3; 1 metadata record, 2 authorities | `SupplyIsHeld`, `FrozenStays` |
| bitcoin | 1 inscription and 1 transaction of others, 3 blocks, 2 starts, 2 of 3 signers | `EventsTellTheFate`, `CustodyIsKept`, `RobustSigning` |

The comment above a property's definition states it in words. `TypeOK` documents the
state of a module; those of the modules with proofs are proved there.

Bounds and why they suffice. Election: with three members two candidates and a
third voter exist, which is the least that lets majorities overlap in one node;
two terms let a node be moved to a newer term while it still counts the votes of
an older one; the theorems hold for every value. One restart is enough for a voter to
vote again in its term, and states with two winners are reached; late requests after a
restart are left to the theorems. The two followers are interchangeable (symmetry; no
liveness is checked here). TxPipeline: two calls race on one
transaction while the other one separates them in the channel; four submissions
allow a re-submission after success, failure and crash; `MaxAge` 1 makes
blockhashes expire. Replication: two faults are the least with which a dead
primary comes back, or a call is lost after a crash; two slots give a replica one
block behind it and one in hand; one transaction fails half-way unless another one
ran before. Lending: four transactions open, partly repay, repay and default one
loan and open a second. Vault, MoneyMarket, Swap: amounts of one digit with small
scales are where rounding is largest in proportion; `MaxPool`, `MaxAssets`,
`MaxReserve` and the like only keep the state space finite. Oracle: three
publishers are the fewest with which a median masks one. Ledger: two units of one
token let both accounts hold some and let sums overflow; one lamport is enough to
make an account not blank; the flags are first slot only or first two, since the
outcome of an instruction does not depend on them beyond being refused. What
follows a shadowed copy or a race with the faucet is not explored (`Regular`): the
conservation laws promise nothing there. Invocation: two departures are the least
with which a foreign account is also flagged, or doubled, so that one check alone
would miss it; the budget is what the largest built-in instruction needs (the code's
is larger), and the deepest chain of calls, vault, market, token, is inside the depth
limit. Assets: three accounts are a rune and two balances, or two runes and a
balance; what follows a recast account or a hidden write is not explored. Bitcoin:
three blocks let one come before, between and after a poll's two calls; two starts
are a deposit before and a settlement after a restart; three signers with one
disruptive are exactly enough, with two too few, and a fourth has no key share.
Signing reads nothing of the rest, so nothing is explored after it (`NotSigned`).

Deadlock. The runs switch the deadlock check off because bounded instances stop
when their bounds are used up; what must go on is stated as `PendingResolves`,
`ReplicaCatchesUp` and `PriceFollows`.

Fairness. `TxPipeline!Fairness`: the tokio runtime keeps polling the producer task
and every handler it has accepted, so a step that stays possible is taken;
clients, crashes and failing writes are not fair. `Replication!FairSpec`: the
producer finishes a block it has begun and the follower's loop goes on; nobody
promises another transaction. The follower's HTTP client sets no timeout
(`follower.rs:74`), so that every call ends in an answer or an error is an
assumption. `Oracle!OracleFairSpec`: honest publishers keep posting, which is their job
outside this repository. Election states no liveness: nothing in the code keeps two
candidates from splitting votes again and again.

## 5. Proofs

Checked by TLAPS for every value of the constants that meets the named ASSUMEs.

**InductionLemmas** has what the other modules share. The library's induction
theorems take a predicate as a parameter, which the provers cannot instantiate;
stated for a set (`NatInductionSet`, `SubsetInduction`) they are first-order and can
be used. From them: what a sum over a finite set is, and how it changes with one or
two of its terms (`SumUpdate`, `SumTwoChanges`, `SumOfNats`), what flattening a
sequence of sequences yields, how division rounds.

**ElectionProofs** (from `ConfigAssumption`; any number of restarts). Every lemma about
a step has a half for `RunningStep`, one case per action, and one for `Restart`.
`TypeCorrect` by `TypeInv` (types, and that a candidate's round is a term).
`TermsAndVotesForward` by a case split on the actions into `VoteStep`: what a step can do
to terms, votes and grants. `OneVote` needs `HeldVotes`: of the votes it has not
forgotten, the one a node granted in its current term is the `voted_for` it still holds,
and none is from a later term. `OneWinner` adds `CountedVotes` (every counted vote was
granted) and `WinsHaveQuorum` (each win has a majority of grants), which speak of what was
granted and so survive restarts, and `QuorumsIntersect` over finite cardinalities: the
voter that two winners share has forgotten one of the two votes. `Implements` is the
refinement of `TermLeaders` from the same invariant; the terms of forgotten votes are the
reopened ones. `PreVoteBacksTerms` uses `BackedInv`, which carries the claim through terms
in flight (replies, late requests, rounds); `NamedLeaders` uses `LeaderInv`, the same for
leaders in replies and in `best`, and that the set of nodes that may be named only grows
(`LeadersStay`).

**TransactionProofs** is about a transaction's way through the node, and about the way of
each of its instructions through the runtime.

*TxPipeline* (from `PipelineAssumption`). `TypeCorrect`, `IndexSound` and
`SuccessSound` by one invariant. `ProducerInv` is the strengthening: while the
producer indexes, what is left of the batch is in the block of its slot, and while
it executes, that slot has no block yet. `BlocksReplay` adds `ReplayInv`, which keeps
the slot in hand at the end of the chain so that a saved block is appended to the
flattened ones. `AppliedOnce` and `SuccessKept` rest on `OnceInv`: a transaction whose
submissions never overlapped is in at most one place (a handler, the channel, the
batch, the block in hand), and in none once it is committed unless its mark is still
to come. Crashes and failing writes are part of `Spec`.

*Invocation* (without assumptions on its constants: any depth, budget and costs, any
departures). The gate alone does not give `OnlyOwnersWrite`: a program that a call
returned to could leave what the called one was allowed to leave and its own writes on
top, and be let through by an approval. That it does not is a fact about the programs.
`Own(p)` are the slots a program writes itself and `Touched(p)` those a called program may
change, itself or through its calls; `ProgramsSound` and `CalleesSound` go through every way
of every program to succeed and show that it writes `Own` slots only, that it passes each
slot to a call at most once, and that what the called program may change is not its own
(`CallSound`) and, if it was called itself, is what it may change (`Nested`). With that
`InvocationInv` is inductive: in every frame of the stack an own slot holds what the
program found and its own writes after it (`Writes`), any other slot and every approval
what called programs may leave where the stored account is (`Clean`: contents belong to
who wrote them, an account that was not empty to whom it belonged, an empty one never to
the instruction's own program). `GateKeeps` says that a property of approvals and of legal
changes holds of every copy that passes the gate, whatever the order of the slots; it is
used for `Clean` when a call returns and for what may be stored when the instruction ends
(`OwnersOnly`). It needs that an empty account belongs to the system program or to the
program the instruction names, which is how `apply` lays it out: one that belonged to the
token program could be claimed twice. `SignaturesScoped` is by induction on the depth of
the stack, from the same invariant.

**ReplicationProofs** (from `ReplicationAssumption`). `ReplicaChain` by `ChainInv`:
the block a replica applies is the primary's block of its next slot, and the
primary never rewrites a slot (the slot it executes has no block). `ReplicaTypes`: no
account is overdrawn, neither by a batch nor by a block that is run again.
`ReplicaRoots` by `RootInv`: running what is left of the block in hand from where a
replica's accounts are, with the writes it still owes, ends at the accounts of the
primary's block; it needs that `Apply` of a sequence is `Apply` of its rest after
`Effect` of its head. `FailoverSafe` by `FailoverInv`: a standby gives up only on nodes
that are down, and those before it in rank are down when it promotes itself. It
assumes `AllRanked`, that of any two standbys each knows which goes first, which is
what the run's instance has. All five kinds of faults are part of `Spec`; the
properties say which ones they exclude.

**VaultProofs** (from `MarketAssumption` and `VaultAssumption`). `MarketInv` adds to the
books that the borrow index never falls below one or below a position's snapshot;
with it every call of the market keeps `BooksMatch` (`MarketBooksMatch`, and
`VaultBooksMatch` with the vault as a lender), a lender share loses no value
(`VaultShareValue`) and a debt falls only by what is paid (`VaultDebts`), for every
amount and scale: the products are compared before they are divided. `VaultLedgers`
and `VaultWorth` are about the vault's copies: `VaultInv` says that its record of lender
shares is the market's, so that each of its calls changes both alike.

**ProgramProofs** is about the programs that keep to their own accounts.

*Swap* (from `SwapAssumption`). `SqrtIsRoot`: Newton's loop ends at the integer
square root of every natural number; its invariant is that a step never falls below
the root. `LockedAmountStays` and `PoolNeverDrained` by `SwapInv`, with `NoneBefore`: nobody
holds liquidity tokens of a pool that is not in use. `ProvidersValueKept` is the
inequality of the constant product with the fee and both roundings.

*Oracle* (from `OracleAssumption`). `OracleTypes` needs that `fresh_median` is somebody's
price: `MedianExists` picks the least price with enough posts up to it and shows that
not too many are below. `GlitchContained` then counts: of three or more fresh posts two
are up to the median and two from it on, so with at most one publisher that is not
honest (the theorem's hypothesis) an honest one is on either side.

*Assets* (from `RunesAssumption`). `RunesSupply` by `RunesInv`: the two totals agree, and
while runes are not mixed every rune's balances hold its circulation and nobody holds a
rune that is not etched (`RunesApart`; without it an etching could find balances of
its rune). A step changes the sums in one or two places (`OneSlot`, `TwoSlots`).
`FrozenForGood` needs no more than that records keep their fields.

**LendingProofs** (from `LendingAssumption`). `AccountInv` says that queues are empty
except between an instruction and its settlement, when they hold at most two.
`OnlyCommittedSent` by `SendInv` and `NothingLeftUnsettled` by `SettledInv`: what was sent
plus what is queued is at most, or at least, what the working copy has closed and
repaid. `LendingReplicaAgrees` by `ReplicaInv`: the replica's copy is the primary's with
an empty queue.

The same module follows the settlements to Bitcoin (from `ThresholdAssumption` and
`CustodyAssumption`). `FateTold` by `IndexerInv`: what the last full poll saw and is gone was
mined or evicted and the history says which, and a block not yet noticed is above
`last_height`. `CustodyKept` by `CustodyInv`: an output that was not tried is unspent, and the
committee's first signers are always enough (`CommitteeCanSign`). `SigningIsRobust` is by
induction on the candidates: `FilterKeeps` says what `filter` leaves, `RoundsEquation` that
the recursion in `Rounds` has a solution, and `RoundEndsWell` that a round drops only a
disruptive signer and ends with a signature exactly if a threshold of honest ones is
left.

**LedgerProofs** (from `RuntimeAssumption`, `TokenAssumption`, `LedgerAssumption`). First,
for any program: of the copies of an account that `Execute` stores the last one stays
(`ExecuteStores`), and unless one is shadowed that is the changed one
(`ExecuteMeasures`). Then `InstructionKeeps`, one lemma per instruction of the three
programs. `TokenDataOwned` needs in `OwnerInv` that even after `reclaimed` no mint or
token account is the system program's, which the gate would then let rewrite it;
`TokenSupply` needs `TokenDataOwned`'s invariant for that reason. `LamportsKept` assumes
that all the faucet hands out fits in a u64 (the sum of `request_airdrop` saturates, that
of `CloseAccount` wraps): then no account reaches the limit, because none has more than
there is in all. `CallOK` and `FundInv` say what a faucet call in flight will add. The
theorems do not stop at the first race or shadowed copy, as the run does.

Only model-checked: the liveness properties `PendingResolves`, `ReplicaCatchesUp` and
`PriceFollows` (fairness and ENABLED are outside this prover), and Invocation's
`BuiltInstructionsRun`, which is about the concrete instructions, flags and limits and for
which the run covers every builder.

## 6. Where code and documentation disagree

The three that matter most:

1. `main.rs:641`: term and vote are not saved, so a voter that restarts votes twice in
   a term and two nodes win it; `election.rs:8-13` says at most one can. With three
   members: the primary votes for one follower, restarts, and votes for the other.
   `OneWinnerUnlessVoteForgotten` says what holds.
2. `main.rs:132`: two overlapping `sendTransaction` calls with the same transaction
   are both executed; the repository's README lists "txid de-duplication".
   `AppliedOnceUnlessRaced` says what holds.
3. `follower.rs:117`: a block that a replica cannot re-execute counts as an
   unreachable primary, and the replica promotes itself beside it;
   `follower.rs:38-41` says there are never two sequencers.
   `CrashesLeaveOneSequencer` says what holds.

Other places where a comment promises more than the code does; the properties
above are stated with the condition under which they hold:

- `become_leader` marks the term the node is in, not the one it won; and a leader
  that steps down keeps producing blocks (`election.rs:12-13`, `:20`). The properties
  speak of won terms.
- A crash loses pending transactions but keeps their mark (`rpc.rs:187-190`); a late
  `Pending` may overwrite a success (`state.rs:343-345`) when submissions overlap.
- A slot without a block stops a replica silently (`follower.rs:270`); a block torn by
  a crash is run again from its start (`follower.rs:364`).
- Lending settles before the commit (`execution.rs:127`), drops a settlement whose
  call fails (`execution.rs:214`), and picks among equal bids by map order
  (`lending/src/lib.rs:367`), so replicas may differ.
- Money market: `total_borrows` keeps interest that no position owes
  (`lib.rs:217`); once no lender shares are left, redeeming what remains in the pool
  burns none (`lib.rs:252`). Vault: the cache lags (`lib.rs:55-56`, `:684`), and stale
  pricing follows an Undeploy (`:455`).
- Swap: a deposit's two sides are rounded on their own (`lib.rs:303`).
- Oracle: the deviation bound can freeze a feed (`lib.rs:289` against `:15-16`), and with
  two fresh posts the median follows either one (`:94` against `:5-6`).
- Runtime: an account in a writable slot and again in a later read-only one is
  restored to its old content (`account.rs:158-159`: "Read-only duplicates are
  harmless"). A blank account that is merely named is stored as owned by the
  program that named it (`execution.rs:92`; `owner.rs:62-64` leaves that to the first
  write).
- Faucet: an airdrop and a transaction that read the same account undo each other's
  write, whichever comes last (`main.rs:247`).
- Swap's builder flags the pool read-only, but the program writes it
  (`swap/src/lib.rs:113-138`): a built swap is always refused. An account that was
  funded before its program made it belongs to the system program and cannot be
  initialized (`owner.rs:97`).
- Runes: Mint and Etch put their rune into a balance of any other rune and rename it
  (`runes/src/lib.rs:300`); Burn takes it from any; InitBalance, "for `rune`", names none, so
  the account never receives a transfer. Metadata: nobody's signature is asked for, and a
  record frozen with an empty name is made anew by Create (`nft-metadata/src/lib.rs:139`).
- Indexer: a block between the two calls of a poll, or before a poll that failed half-way,
  turns a confirmation into an eviction; an eviction in a tick with a block is told as a
  confirmation (`bitcoin_indexer.rs:273`). A settlement that Bitcoin evicts is not sent again.
- Custody: the committee's key is new at every start (`custody.rs:41`), so what was sent to
  an earlier start's address is out of reach. An output is looked up by the loan's bytes as
  they are (`execution.rs:191`), while `himsha-runtime/src/utxo.rs:22` and `bitcoin_indexer.rs`
  call them little-endian, the reverse of what Bitcoin displays and parses.
- Lightning: an error answer without `payment_error` counts as paid (`lightning.rs:103`).
- Associated accounts: an address that was closed still belongs to the token
  program; creating it again makes the outer boundary's claim hand it to the
  associated account program, so the token program can no longer write it
  (`ata/src/lib.rs:84-86`). An address of another program that already has lamports or an
  anchor cannot be initialized.

## 7. Not modelled

Lightning, satoshi payments and the anchoring of state roots (single calls to external
nodes); signatures, keys, encodings, the Merkle root, zk proofs and receipts
(cryptography, with their outcomes as inputs); the database's owner index and counters,
which mirror the accounts; the deployment of programs; the CLI, SDKs and website (no
state); transactions accepted by followers (section 2).
Within the modelled programs, wallets hold what their owners send, and slippage
limits, which only let a caller refuse a result, are left out.
