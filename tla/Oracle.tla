------------------------------- MODULE Oracle -------------------------------
(***************************************************************************)
(* The price feed program (himsha-programs/oracle): publishers post        *)
(* prices, the feed reports the median of the fresh ones.                  *)
(*                                                                         *)
(* Honest publishers post the asset's true price, which moves; the others  *)
(* post anything.  Timestamps come with the messages and need not be in    *)
(* order.  The authority has its own slot from InitFeed on and manages the *)
(* others.  An instruction that returns an error changes nothing.          *)
(***************************************************************************)
EXTENDS Integers, FiniteSets

CONSTANTS Publishers, authority, Honest, Prices, Times,
          BPS, MAX_PUBLISHERS,
          Deviations,   \* the choices of max_deviation_bps at InitFeed
          Ages,         \* the choices of max_submission_age
          MaxChanges    \* bound: moves of the true price and of the publisher set

ASSUME OracleAssumption ==
  /\ IsFiniteSet(Publishers) /\ authority \in Publishers /\ Honest \subseteq Publishers
  /\ Prices \subseteq Nat \ {0} /\ Times \subseteq Nat
  /\ BPS \in Nat \ {0}
  /\ Deviations \subseteq Nat /\ Ages \subseteq Nat
  /\ MAX_PUBLISHERS \in Nat \ {0} /\ MaxChanges \in Nat

VARIABLES feed,         \* the aggregate, when it was computed, and the limits
          submissions,  \* the registered publishers' latest posts
          truth,        \* the true price
          changes       \* moves of truth and of the publisher set so far

oracleVars == <<feed, submissions, truth, changes>>

Submission == [price : Nat, publish_ts : Nat]

OracleTypeOK ==
  /\ feed \in [price : Nat, publish_ts : Nat, max_deviation_bps : Deviations,
              max_submission_age : Ages]
  /\ \E registered \in SUBSET Publishers :
       /\ authority \in registered
       /\ Cardinality(registered) <= MAX_PUBLISHERS
       /\ submissions \in [registered -> Submission]
  /\ truth \in Prices
  /\ changes \in 0 .. MaxChanges

NoSubmission == [price |-> 0, publish_ts |-> 0]

\* InitFeed has been executed.
OracleInit ==
  /\ \E d \in Deviations, a \in Ages :
       feed = [price |-> 0, publish_ts |-> 0, max_deviation_bps |-> d,
               max_submission_age |-> a]
  /\ submissions = [p \in {authority} |-> NoSubmission]
  /\ truth \in Prices
  /\ changes = 0

-----------------------------------------------------------------------------
SatSub(a, b) == IF a >= b THEN a - b ELSE 0

submission_fresh(s, now) ==
  /\ s.price # 0
  /\ \/ feed.max_submission_age = 0
     \/ SatSub(now, s.publish_ts) <= feed.max_submission_age

Fresh(subs, now) == {p \in DOMAIN subs : submission_fresh(subs[p], now)}

fresh_count(subs, now) == Cardinality(Fresh(subs, now))

fresh_quorum_Mutant(subs) == IF Cardinality(DOMAIN subs) <= 1 THEN 1 ELSE 3

fresh_quorum(subs) == IF Cardinality(DOMAIN subs) <= 1 THEN 1 ELSE 2

fresh_median_Mutant(subs, now) ==
  LET Below(x) == {p \in Fresh(subs, now) : subs[p].price < x}
  IN CHOOSE x \in {subs[p].price : p \in Fresh(subs, now)} : Below(x) = {}

\* The lower-middle one of the fresh prices.
fresh_median(subs, now) ==
  LET Below(x) == {p \in Fresh(subs, now) : subs[p].price < x}
      UpTo(x)  == {p \in Fresh(subs, now) : subs[p].price <= x}
      mid == (fresh_count(subs, now) - 1) \div 2
  IN CHOOSE x \in {subs[p].price : p \in Fresh(subs, now)} :
       Cardinality(Below(x)) <= mid /\ mid < Cardinality(UpTo(x))

deviation_bps(old, new) ==
  ((IF old >= new THEN old - new ELSE new - old) * BPS) \div old

out_of_bounds(new) ==
  /\ feed.price # 0 /\ feed.max_deviation_bps # 0
  /\ deviation_bps(feed.price, new) > feed.max_deviation_bps

\* Without quorum the post is kept and the aggregate held; a median too far
\* from the aggregate is an error, and the post is lost with it.
UpdatePrice(p, price, now) ==
  /\ price # 0 /\ p \in DOMAIN submissions
  /\ LET subs == [submissions EXCEPT ![p] = [price |-> price, publish_ts |-> now]]
         quorum == fresh_count(subs, now) >= fresh_quorum(subs)
     IN /\ submissions' = subs
        /\ \/ ~quorum /\ UNCHANGED feed
           \/ /\ quorum /\ ~out_of_bounds(fresh_median(subs, now))
              /\ feed' = [feed EXCEPT !.price = fresh_median(subs, now), !.publish_ts = now]
  /\ UNCHANGED <<truth, changes>>

AddPublisher(p) ==
  /\ changes < MaxChanges
  /\ p \notin DOMAIN submissions
  /\ Cardinality(DOMAIN submissions) < MAX_PUBLISHERS
  /\ submissions' = [q \in DOMAIN submissions \union {p} |->
                       IF q = p THEN NoSubmission ELSE submissions[q]]
  /\ changes' = changes + 1
  /\ UNCHANGED <<feed, truth>>

\* The aggregate stays as it was, with the removed publisher's part in it.
RemovePublisher(p) ==
  /\ changes < MaxChanges
  /\ p # authority /\ p \in DOMAIN submissions
  /\ submissions' = [q \in DOMAIN submissions \ {p} |-> submissions[q]]
  /\ changes' = changes + 1
  /\ UNCHANGED <<feed, truth>>

\* The asset's price moves; outside the program.
TruthMoves ==
  /\ changes < MaxChanges
  /\ truth' \in Prices \ {truth}
  /\ changes' = changes + 1
  /\ UNCHANGED <<feed, submissions>>

HonestUpdate(p) == \E now \in Times : UpdatePrice(p, truth, now)

OracleNext ==
  \/ \E p \in Honest : HonestUpdate(p)
  \/ \E p \in Publishers \ Honest, price \in Prices, now \in Times : UpdatePrice(p, price, now)
  \/ \E p \in Publishers : AddPublisher(p) \/ RemovePublisher(p)
  \/ TruthMoves

OracleSpec == OracleInit /\ [][OracleNext]_oracleVars

\* Publishers keep posting.
OracleFairSpec == OracleSpec /\ \A p \in Honest : WF_oracleVars(HonestUpdate(p))

-----------------------------------------------------------------------------
(***************************************************************************)
(* Properties.                                                             *)
(***************************************************************************)

HonestPrices == {submissions[q].price : q \in Honest \cap DOMAIN submissions} \ {0}

Between(x, S) == (\E y \in S : y <= x) /\ (\E y \in S : x <= y)

\* "One compromised or glitching publisher cannot move the aggregate on its own
\* once >= 3 publishers exist", as far as the code ensures it: when at least three
\* posts are fresh and one publisher is not honest, the aggregate moves only to
\* where the honest ones' posts are.
FreshGlitchContained ==
  [][feed' # feed /\ fresh_count(submissions', feed'.publish_ts) >= 3
       => Between(feed'.price, HonestPrices')]_oracleVars

\* Once the true price has stopped moving the aggregate becomes it and stays,
\* through a publisher that keeps glitching beside two honest ones, provided
\* that posts neither expire nor are refused for their deviation.
PriceFollows ==
  /\ feed.max_deviation_bps = 0 /\ feed.max_submission_age = 0
  /\ <>[](DOMAIN submissions \subseteq Honest \/ Honest \subseteq DOMAIN submissions)
  => <>[](feed.price = truth)
=============================================================================
