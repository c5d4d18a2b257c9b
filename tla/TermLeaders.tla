---------------------------- MODULE TermLeaders ----------------------------
(***************************************************************************)
(* What the election promises: terms are handed out one by one, each to at *)
(* most one node and for good.  Only a term that a voter has forgotten to  *)
(* have voted in can be handed out again.  Election implements this with   *)
(* votes.                                                                  *)
(***************************************************************************)
EXTENDS Integers

CONSTANTS Nodes, MaxTerm

VARIABLES won,      \* the terms that were won, each with its winner
          reopened  \* the terms that some voter has forgotten to have voted in

TermFree(n, t) == \A w \in won : w.term = t => w.node = n

Init == won = {} /\ reopened = {}

\* Node n wins term t, which nobody else holds unless it was reopened.  Term 0
\* is never won: it belongs to the primary the cluster starts with.
WinTerm(n, t) ==
  /\ TermFree(n, t) \/ t \in reopened
  /\ won' = won \cup {[node |-> n, term |-> t]}
  /\ UNCHANGED reopened

\* A voter forgets its votes; who has won stays so.
Reopen == reopened \subseteq reopened' /\ UNCHANGED won

Next == Reopen \/ \E n \in Nodes, t \in 1 .. MaxTerm : WinTerm(n, t)

Spec == Init /\ [][Next]_<<won, reopened>>
=============================================================================
