------------------------------ MODULE Bitcoin ------------------------------
(***************************************************************************)
(* The node's dealings with Bitcoin: what custody sends is in the mempool  *)
(* that the indexer watches, and both start anew with the process.         *)
(***************************************************************************)
EXTENDS Custody

bitcoinVars == <<chainVars, indexerVars, window, custodyVars>>

BitcoinInit == IndexerInit /\ CustodyInit

BitcoinNext ==
  \/ IndexerStep /\ UNCHANGED custodyVars
  \/ \E o \in Outputs : Deposit(o) /\ UNCHANGED <<chainVars, indexerVars, window>>
  \/ \E o \in Outputs, order \in {"display", "internal"}, belowFee \in BOOLEAN,
        rpc \in {"ok", "down", "lost"} : settle_lending(o, order, belowFee, rpc)
  \/ \E online \in Online, disruptive \in SUBSET (1 .. Total) :
       SignRobust(online, disruptive) /\ UNCHANGED <<chainVars, indexerVars, window>>
  \/ IndexerRestart /\ CustodyRestart

BitcoinSpec == BitcoinInit /\ [][BitcoinNext]_bitcoinVars
=============================================================================
