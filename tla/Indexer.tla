------------------------------ MODULE Indexer ------------------------------
(***************************************************************************)
(* The Bitcoin indexer (bitcoin_indexer.rs): a thread that polls the tip   *)
(* and the mempool of a Bitcoin node and tells subscribers what became of  *)
(* each transaction.  The Bitcoin node is external: transactions come,     *)
(* are mined in blocks or leave the mempool without a block.               *)
(***************************************************************************)
EXTENDS Integers, FiniteSets

CONSTANTS Others,     \* transactions of others
          MaxHeight   \* bound: blocks of the chain

ASSUME IndexerAssumption == MaxHeight \in Nat \ {0}

VARIABLES height, mempool, mined,   \* the Bitcoin node
          last_height, seen,        \* run_sync_blocking's locals
          polling,    \* the poll has read the height: what advanced says, or "no"
          told,       \* the last event about each transaction
          window      \* history: what happened since the last poll that went through

chainVars   == <<height, mempool, mined>>
indexerVars == <<last_height, seen, polling, told>>

Other(x) == <<"other", x>>

\* A node that has been running: its first blocks hold nothing of interest.
IndexerInit ==
  /\ height = 1 /\ mempool = {} /\ mined = {}
  /\ last_height = 0 /\ seen = {} /\ polling = "no"
  /\ told = [t \in {} |-> "none"]
  /\ window = {}

-----------------------------------------------------------------------------
(***************************************************************************)
(* The Bitcoin node.                                                       *)
(***************************************************************************)

\* A transaction, one that was evicted too, is accepted.
Accepted(t) == t \notin mempool \cup mined /\ mempool' = mempool \cup {t}

Arrive(x) == Accepted(Other(x)) /\ UNCHANGED <<height, mined, indexerVars, window>>

\* A block between the two reads of a poll comes late.
MineBlock(txs) ==
  /\ height < MaxHeight /\ height' = height + 1
  /\ mempool' = mempool \ txs /\ mined' = mined \cup txs
  /\ window' = window \cup {IF polling = "no" THEN "block" ELSE "late"}
  /\ UNCHANGED indexerVars

Evict(t) ==
  /\ mempool' = mempool \ {t}
  /\ window' = window \cup {"evicted"}
  /\ UNCHANGED <<height, mined, indexerVars>>

-----------------------------------------------------------------------------
(***************************************************************************)
(* poll_once.  Its first call may fail, which changes nothing.             *)
(***************************************************************************)
tip_advanced_Mutant == height >= last_height
tip_advanced == height > last_height

PollHeight ==
  /\ polling = "no"
  /\ polling' = IF tip_advanced THEN "advanced" ELSE "same"
  /\ last_height' = IF tip_advanced THEN height ELSE last_height
  /\ UNCHANGED <<chainVars, seen, told, window>>

\* The second call fails: the new height is kept, the snapshot is not renewed.
PollFails ==
  /\ polling # "no" /\ polling' = "no"
  /\ window' = window \cup (IF polling = "advanced" THEN {"swallowed"} ELSE {})
  /\ UNCHANGED <<chainVars, last_height, seen, told>>

PollMempool ==
  LET Event(t) == IF t \in mempool THEN "Seen"
                  ELSE IF polling = "advanced" THEN "Confirmed" ELSE "Evicted"
      changed == (mempool \ seen) \cup (seen \ mempool)
  IN /\ polling # "no" /\ polling' = "no"
     /\ told' = [t \in DOMAIN told \cup changed |-> IF t \in changed THEN Event(t) ELSE told[t]]
     /\ seen' = mempool
     /\ window' = IF "late" \in window THEN {"block"} ELSE {}
     /\ UNCHANGED <<chainVars, last_height>>

\* The process starts again, and the thread with it.
IndexerRestart ==
  /\ last_height' = 0 /\ seen' = {} /\ polling' = "no"
  /\ told' = [t \in {} |-> "none"] /\ window' = {}
  /\ UNCHANGED chainVars

IndexerStep ==
  \/ \E x \in Others : Arrive(x)
  \/ \E txs \in SUBSET mempool : MineBlock(txs)
  \/ \E t \in mempool : Evict(t)
  \/ PollHeight \/ PollFails \/ PollMempool

-----------------------------------------------------------------------------
\* Subscribers are told what became of a transaction ("confirmed if a block
\* arrived this tick, otherwise treated as evicted"), with two exceptions: an
\* eviction is told as a confirmation if a block came since the last poll, and a
\* confirmation as an eviction if the block came between the poll's two calls or
\* a poll failed after it had noticed the block.
EventsTellTheFate ==
  [][\A t \in DOMAIN told' :
       t \notin DOMAIN told \/ told'[t] # told[t] =>
         /\ told'[t] = "Confirmed" /\ t \notin mined =>
              "evicted" \in window /\ window \cap {"block", "late", "swallowed"} # {}
         /\ told'[t] = "Evicted" /\ t \in mined => window \cap {"late", "swallowed"} # {}]_told
=============================================================================
