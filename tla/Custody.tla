------------------------------ MODULE Custody ------------------------------
(***************************************************************************)
(* How inscriptions are kept and handed on (custody.rs, settlement_tx.rs,  *)
(* bitcoin_indexer.rs, execution.rs): users send them to the node's wallet *)
(* or to the committee's address, and a committed lending transaction      *)
(* makes the node send them on, once.                                      *)
(*                                                                         *)
(* The committee's key is made when the process starts and is not stored.  *)
(* A loan names an output by 32 bytes, in the order in which a txid is     *)
(* displayed or in Bitcoin's own; the node displays them as they are.      *)
(***************************************************************************)
EXTENDS Indexer, Threshold

CONSTANTS Outputs,    \* the inscriptions' outputs
          MaxBoots,   \* bound: starts of the process
          Online      \* lists of signers that robust signing is asked to use

ASSUME CustodyAssumption == MaxBoots \in Nat /\ Online \subseteq Seq(Nat)

VARIABLES boot,       \* how often the process has started
          custody,    \* HIMSHA_THRESHOLD is set
          deposit,    \* whose each output is
          attempt,    \* what came of its settlement
          session     \* the last robust signing

custodyVars == <<boot, custody, deposit, attempt, session>>

Nobody == -1
Wallet == 0
\* Who can spend what is deposited now: the committee of this start, or the wallet.
Custodian == IF custody THEN boot ELSE Wallet

Move(o) == <<"move", o>>

NotTried == [state |-> "none"]
NoSession == [result |-> "none"]

CustodyInit ==
  /\ boot = 1 /\ custody \in BOOLEAN
  /\ deposit = [o \in Outputs |-> Nobody]
  /\ attempt = [o \in Outputs |-> NotTried]
  /\ session = NoSession

-----------------------------------------------------------------------------
\* A user sends the inscription to the address that the node has at the time.
Deposit(o) ==
  /\ deposit[o] = Nobody
  /\ deposit' = [deposit EXCEPT ![o] = Custodian]
  /\ UNCHANGED <<boot, custody, attempt, session>>

\* Txid::from_str of the bytes as they are displayed.
Found(o, order) == order = "display" /\ Move(o) \notin mempool \cup mined

\* transfer_utxo: the wallet signs what it can spend.
WalletSigns(o) == deposit[o] = Wallet

CommitteeSigns_Mutant(o) == sign(take(signer_ids, THRESHOLD - 1)) = "signature" /\ deposit[o] = boot

\* settle_with_committee: the first signers sign, whatever the output's script is;
\* Bitcoin accepts it if the output is this committee's.
CommitteeSigns(o) == sign(take(signer_ids, THRESHOLD)) = "signature" /\ deposit[o] = boot

\* The settlement was taken off the queue and is not tried again.  A call may
\* fail before the transaction is sent, or its answer may be lost after.
settle_lending(o, order, belowFee, rpc) ==
  LET goes == /\ rpc # "down" /\ Found(o, order) /\ ~belowFee
              /\ IF custody THEN CommitteeSigns(o) ELSE WalletSigns(o)
  IN /\ attempt[o] = NotTried
     /\ attempt' = [attempt EXCEPT ![o] =
                      [state |-> IF goes /\ rpc = "ok" THEN "sent" ELSE "failed",
                       excused |-> rpc # "ok" \/ order = "internal" \/ belowFee,
                       deposit |-> deposit[o], custodian |-> Custodian]]
     /\ IF goes THEN Accepted(Move(o)) ELSE UNCHANGED mempool
     /\ UNCHANGED <<height, mined, indexerVars, window, boot, custody, deposit, session>>

\* from_env at every start; the setting may have been changed.
CustodyRestart ==
  /\ boot < MaxBoots /\ boot' = boot + 1
  /\ custody' \in BOOLEAN
  /\ UNCHANGED <<deposit, attempt, session>>

\* A caller asks the committee for a robust signature.
SignRobust(online, disruptive) ==
  /\ session = NoSession
  /\ \E o \in sign_robust(online, disruptive) :
       session' = [result |-> o.result, blamesHonest |-> ~(o.excluded \subseteq disruptive),
                   enough |-> Cardinality((ToSet(online) \cap 1 .. Total) \ disruptive) >= THRESHOLD,
                   twice |-> Cardinality(ToSet(online)) < Len(online)]
  /\ UNCHANGED <<boot, custody, deposit, attempt>>

-----------------------------------------------------------------------------
\* An inscription that was sent to the node before its loan ends is sent on,
\* unless the loan names the output in Bitcoin's own order, its value is below
\* the fee, or a call fails; or the process was started again since with a
\* committee then or now: the committee's address is then nobody's.
CustodyIsKept ==
  \A o \in Outputs :
    LET a == attempt[o]
    IN a.state = "failed" /\ ~a.excused /\ a.deposit # Nobody => a.deposit # a.custodian

\* "Produce a valid aggregate signature even when some signers are disruptive, as
\* long as at least threshold honest signers are online", and only then; nobody
\* honest is dropped.  The list of signers must not name one twice.
RobustSigning ==
  session # NoSession /\ ~session.twice =>
    /\ ~session.blamesHonest
    /\ session.enough <=> session.result = "signature"
=============================================================================
