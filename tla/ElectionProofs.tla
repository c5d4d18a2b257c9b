--------------------------- MODULE ElectionProofs ---------------------------
(***************************************************************************)
(* Proofs about Election, for every member set, every bound on terms and   *)
(* every number of delayed calls and of restarts.                          *)
(***************************************************************************)
EXTENDS Election, FiniteSetTheorems, TLAPS

\* A candidate's round is a term it opened, hence within the bound.  TypeOK
\* alone is not inductive: the term a RequestVote carries comes from here.
RoundOK == \A n \in Nodes : phase[n] = "candidate" => round[n] \in 1 .. MaxTerm

TypeInv == TypeOK /\ RoundOK

-----------------------------------------------------------------------------
(***************************************************************************)
(* The methods of ElectionState.                                           *)
(***************************************************************************)

\* Every method returns an ElectionState (election.rs).
LEMMA MethodTypes ==
  ASSUME NEW s \in ElectionState, NEW t \in Terms, NEW c \in Nodes
  PROVE  /\ observe_term(s, t) \in ElectionState
         /\ consider_vote(s, t, c) \in ElectionState
         /\ become_leader(s, c) \in ElectionState
         /\ observe_leader(s, t, c) \in ElectionState
         /\ s.current_term < MaxTerm => start_candidacy(s, c) \in ElectionState
         /\ vote_granted(s, t, c) \in BOOLEAN
<1> USE ConfigAssumption DEF ElectionState, Terms, NodeOpt
<1>1. observe_term(s, t) \in ElectionState
  BY DEF observe_term, StepDown
<1>2. consider_vote(s, t, c) \in ElectionState
  BY <1>1 DEF consider_vote
<1>3. become_leader(s, c) \in ElectionState
  BY DEF become_leader
<1>4. observe_leader(s, t, c) \in ElectionState
  BY DEF observe_leader
<1>5. s.current_term < MaxTerm => start_candidacy(s, c) \in ElectionState
  BY DEF start_candidacy
<1>6. vote_granted(s, t, c) \in BOOLEAN
  BY DEF vote_granted
<1> QED BY <1>1, <1>2, <1>3, <1>4, <1>5, <1>6

\* What handling a RequestVote does to a term and a vote: the term only rises,
\* a granted vote is the one held afterwards, and a vote held in a term that
\* does not change is kept (consider_vote).
LEMMA ConsiderVote ==
  ASSUME NEW s \in ElectionState, NEW t \in Terms, NEW c \in Nodes
  PROVE  LET u == consider_vote(s, t, c)
         IN /\ u.current_term >= s.current_term
            /\ vote_granted(s, t, c) => u.current_term = t /\ u.voted_for = c
            /\ u.current_term = s.current_term /\ s.voted_for # None
                 => u.voted_for = s.voted_for
BY ConfigAssumption
   DEF ElectionState, Terms, NodeOpt, observe_term, StepDown, consider_vote,
       vote_granted

\* Stepping down to a higher term, or staying (observe_term).
LEMMA ObserveTerm ==
  ASSUME NEW s \in ElectionState, NEW t \in Terms
  PROVE  LET u == observe_term(s, t)
         IN /\ u.current_term >= s.current_term
            /\ u.current_term = s.current_term => u = s
BY DEF ElectionState, Terms, observe_term, StepDown

\* Following a discovered leader keeps the vote (observe_leader).
LEMMA ObserveLeader ==
  ASSUME NEW s \in ElectionState, NEW t \in Terms, NEW l \in Nodes
  PROVE  LET u == observe_leader(s, t, l)
         IN u.current_term >= s.current_term /\ u.voted_for = s.voted_for
BY DEF ElectionState, Terms, observe_leader

-----------------------------------------------------------------------------
(***************************************************************************)
(* Type correctness.                                                       *)
(***************************************************************************)
LEMMA TypeInit == Init => TypeInv
<1> SUFFICES ASSUME Init PROVE TypeInv
  OBVIOUS
<1> USE ConfigAssumption
<1>1. DefaultState \in ElectionState
  BY DEF DefaultState, ElectionState, Terms, NodeOpt
<1>2. \A n \in Nodes : become_leader(DefaultState, n) \in ElectionState
  BY <1>1 DEF become_leader, ElectionState, NodeOpt
<1>3. TypeOK
  BY <1>1, <1>2 DEF Init, StartState, StartPhase, TypeOK, Phases, Terms
<1>4. RoundOK
  BY DEF Init, StartPhase, RoundOK
<1> QED BY <1>3, <1>4 DEF TypeInv

LEMMA RunningTypeStep == TypeInv /\ [RunningStep]_vars => TypeInv'
<1> SUFFICES ASSUME TypeInv, [RunningStep]_vars PROVE TypeInv'
  OBVIOUS
<1> USE ConfigAssumption DEF TypeInv
<1>0. Followers \subseteq Members /\ Followers \subseteq Nodes
  BY DEF Followers
<1>1. ASSUME NEW n \in Followers, LosePrimary(n) PROVE TypeInv'
  BY <1>0, <1>1 DEF LosePrimary, TypeOK, RoundOK, Phases, history, losses
<1>2. ASSUME NEW n \in Followers, ReadGetLeader(n) PROVE TypeInv'
  BY <1>0, <1>2 DEF ReadGetLeader, TypeOK, RoundOK, Reply, Best, NodeOpt, history, losses
<1>3. ASSUME NEW n \in Followers, Repoint(n) PROVE TypeInv'
  BY <1>0, <1>3, MethodTypes
     DEF Repoint, FoundNewLeader, TypeOK, RoundOK, Best, Phases, history, losses
<1>4. ASSUME NEW n \in Followers, StartPreVote(n) PROVE TypeInv'
  BY <1>0, <1>4
     DEF StartPreVote, TypeOK, RoundOK, ElectionState, Terms, Phases, history, losses
<1>5. ASSUME NEW n \in Followers, ReadVote(n) PROVE TypeInv'
  <2>1. reply[n] \in Reply
    BY <1>0, <1>5 DEF ReadVote, TypeOK
  <2>2. observe_term(election[n], reply[n].term) \in ElectionState
    BY <1>0, <2>1, MethodTypes DEF TypeOK, Reply
  <2>3. votes' \in [Nodes -> SUBSET Members] /\ election' \in [Nodes -> ElectionState]
    BY <1>0, <1>5, <2>1, <2>2 DEF ReadVote, TypeOK, Reply
  <2> QED BY <1>0, <1>5, <2>3 DEF ReadVote, TypeOK, RoundOK, history, losses
<1>6. ASSUME NEW n \in Followers, StartCandidacy(n) PROVE TypeInv'
  <2>1. start_candidacy(election[n], n) \in ElectionState
    BY <1>0, <1>6, MethodTypes DEF StartCandidacy, TypeOK, Terms
  <2> DEFINE t == start_candidacy(election[n], n).current_term
  <2>2. t \in Terms /\ t \in 1 .. MaxTerm
    BY <1>0, <2>1 DEF ElectionState, Terms, start_candidacy, TypeOK
  <2>3. /\ election' = [election EXCEPT ![n] = start_candidacy(election[n], n)]
        /\ round' = [round EXCEPT ![n] = t]
        /\ grants' = grants \cup {[voter |-> n, term |-> t, cand |-> n]}
        /\ backed' \subseteq backed \cup {t}
    BY <1>6 DEF StartCandidacy
  <2> HIDE DEF t
  <2>4. /\ election' \in [Nodes -> ElectionState]
        /\ round' \in [Nodes -> 0 .. MaxTerm + 1]
        /\ grants' \subseteq Vote /\ backed' \subseteq Terms
    BY <1>0, <2>1, <2>2, <2>3 DEF TypeOK, Vote, Terms
  <2>5. RoundOK'
    BY <1>0, <1>6, <2>2, <2>3 DEF StartCandidacy, RoundOK, TypeOK
  <2> QED BY <1>0, <1>6, <2>4, <2>5 DEF StartCandidacy, TypeOK, Phases, losses
<1>7. ASSUME NEW n \in Followers, AnswerLost(n) PROVE TypeInv'
  BY <1>0, <1>7 DEF AnswerLost, TypeOK, RoundOK, history, losses
<1>8. ASSUME NEW n \in Followers, GiveUp(n) PROVE TypeInv'
  BY <1>0, <1>8 DEF GiveUp, EndRound, TypeOK, RoundOK, Phases, history, losses
<1>9. ASSUME NEW n \in Followers, Promote(n) PROVE TypeInv'
  <2>1. become_leader(election[n], n) \in ElectionState /\ round[n] \in Terms
    BY <1>0, <1>9, MethodTypes, 0 \in Terms DEF Promote, TypeOK, RoundOK, Terms
  <2>2. wins' \subseteq Win
    BY <1>0, <1>9, <2>1 DEF Promote, TypeOK, Win
  <2> QED BY <1>0, <1>9, <2>1, <2>2
     DEF Promote, EndRound, TypeOK, RoundOK, Phases, losses
<1>10. ASSUME NEW n \in Followers, NEW m \in Members, AnswerGetLeader(n, m)
       PROVE TypeInv'
  BY <1>0, <1>10
     DEF AnswerGetLeader, TypeOK, RoundOK, Reply, ElectionState, history, losses
<1>11. ASSUME NEW n \in Followers, NEW m \in Members, AnswerPreVote(n, m)
       PROVE TypeInv'
  <2>1. consider_pre_vote(election[m], round[n]) \in BOOLEAN
    BY <1>0 DEF consider_pre_vote, TypeOK, ElectionState, Terms
  <2> QED BY <1>0, <1>11, <2>1
     DEF AnswerPreVote, TypeOK, RoundOK, Reply, ElectionState, NodeOpt, history, losses
<1>12. ASSUME NEW n \in Followers, NEW m \in Members, AnswerRequestVote(n, m)
       PROVE TypeInv'
  <2>1. /\ round[n] \in Terms
        /\ consider_vote(election[m], round[n], n) \in ElectionState
        /\ vote_granted(election[m], round[n], n) \in BOOLEAN
    BY <1>0, <1>12, MethodTypes DEF AnswerRequestVote, RoundOK, TypeOK, Terms
  <2> QED BY <1>0, <1>12, <2>1
     DEF AnswerRequestVote, HandleRequestVote, TypeOK, RoundOK, Reply,
         ElectionState, NodeOpt, Vote, losses
<1>13. ASSUME NEW n \in Followers, NEW m \in Members, CallFails(n, m)
       PROVE TypeInv'
  BY <1>0, <1>13 DEF CallFails, TypeOK, RoundOK, Terms, history, losses
<1>14. ASSUME NEW q \in late, LateRequestVote(q) PROVE TypeInv'
  <2>1. /\ q.to \in Members /\ q.to \in Nodes
        /\ q.term \in Terms /\ q.cand \in Nodes
    BY DEF TypeOK
  <2>2. consider_vote(election[q.to], q.term, q.cand) \in ElectionState
    BY <2>1, MethodTypes DEF TypeOK
  <2> QED BY <1>14, <2>1, <2>2
     DEF LateRequestVote, HandleRequestVote, TypeOK, RoundOK, Vote, losses
<1>15. CASE UNCHANGED vars
  BY <1>15 DEF vars, taskVars, history, losses, TypeOK, RoundOK
<1> QED BY <1>1, <1>2, <1>3, <1>4, <1>5, <1>6, <1>7, <1>8, <1>9, <1>10, <1>11,
           <1>12, <1>13, <1>14, <1>15 DEF RunningStep, TaskStep, CallStep

\* A restarted node is well-typed, in term 0, and in no candidacy.
LEMMA RestartShape ==
  ASSUME TypeInv, NEW n \in Nodes, Restart(n)
  PROVE  /\ TypeInv'
         /\ election'[n] = StartState(n)
         /\ StartState(n).current_term = 0
         /\ StartState(n).leader \in {None, Primary}
         /\ StartPhase(n) # "candidate"
<1>1. DefaultState \in ElectionState
  BY ConfigAssumption DEF DefaultState, ElectionState, Terms, NodeOpt
<1>2. /\ StartState(n) \in ElectionState
      /\ StartState(n).current_term = 0
      /\ StartState(n).leader \in {None, Primary}
  BY <1>1 DEF StartState, DefaultState, become_leader, ElectionState, NodeOpt
<1>3. StartPhase(n) \in Phases /\ StartPhase(n) # "candidate"
  BY DEF StartPhase, Phases
<1>4. TypeOK'
  BY <1>2, <1>3, ConfigAssumption DEF Restart, EndRound, TypeInv, TypeOK
<1>5. RoundOK'
  BY <1>3 DEF Restart, EndRound, TypeInv, TypeOK, RoundOK
<1> QED BY <1>2, <1>3, <1>4, <1>5 DEF TypeInv, TypeOK, Restart

LEMMA TypeStep == TypeInv /\ [Next]_vars => TypeInv'
BY RunningTypeStep, RestartShape DEF Next

\* The state stays well-typed: in particular no term passes the bound and a
\* node only ever names a node as its vote or its leader.
THEOREM TypeCorrect == Spec => []TypeOK
<1>1. Spec => []TypeInv
  BY TypeInit, TypeStep, PTL DEF Spec
<1> QED BY <1>1, PTL DEF TypeInv

-----------------------------------------------------------------------------
(***************************************************************************)
(* Terms and votes.                                                        *)
(***************************************************************************)

\* What no step may do to a node's term and vote.
Forward(s, u) ==
  /\ s.current_term <= u.current_term
  /\ s.current_term = u.current_term /\ s.voted_for # None
       => u.voted_for = s.voted_for

\* A step moves every node forward, forgets no vote, and a vote it adds is the
\* one the voter holds after it.
VoteStep ==
  /\ \A n \in Nodes : Forward(election[n], election'[n])
  /\ grants \subseteq grants'
  /\ \A g \in grants' \ grants : /\ election'[g.voter].current_term = g.term
                                 /\ election'[g.voter].voted_for = g.cand

LEMMA HandleRequestVoteStep ==
  ASSUME TypeInv, NEW m \in Nodes, NEW t \in Terms, NEW c \in Nodes,
         HandleRequestVote(m, t, c)
  PROVE  VoteStep
<1>1. election[m] \in ElectionState
  BY DEF TypeInv, TypeOK
<1>2. Forward(election[m], consider_vote(election[m], t, c))
  BY <1>1, ConsiderVote DEF Forward
<1>3. \A n \in Nodes : Forward(election[n], election'[n])
  BY <1>2 DEF HandleRequestVote, Forward, TypeInv, TypeOK, ElectionState, Terms
<1>4. ASSUME NEW g \in grants' \ grants
      PROVE  /\ election'[g.voter].current_term = g.term
             /\ election'[g.voter].voted_for = g.cand
  <2>1. vote_granted(election[m], t, c) /\ g = [voter |-> m, term |-> t, cand |-> c]
    BY <1>4 DEF HandleRequestVote
  <2> QED BY <1>1, <2>1, ConsiderVote DEF HandleRequestVote, TypeInv, TypeOK
<1> QED BY <1>3, <1>4 DEF VoteStep, HandleRequestVote

LEMMA NextVoteStep == TypeInv /\ [RunningStep]_vars => VoteStep
<1> SUFFICES ASSUME TypeInv, [RunningStep]_vars PROVE VoteStep
  OBVIOUS
<1>0. /\ Followers \subseteq Nodes /\ Members \subseteq Nodes
      /\ \A n \in Nodes : election[n] \in ElectionState
      /\ \A n \in Nodes : Forward(election[n], election[n])
  BY ConfigAssumption
     DEF Followers, TypeInv, TypeOK, Forward, ElectionState, Terms
<1>1. CASE UNCHANGED <<election, grants>>
  BY <1>0, <1>1 DEF VoteStep
<1>2. ASSUME NEW n \in Followers, Repoint(n) PROVE VoteStep
  <2>1. best[n] \in Best
    BY <1>0, <1>2 DEF Repoint, FoundNewLeader, TypeInv, TypeOK
  <2>2. Forward(election[n],
                observe_leader(election[n], best[n].term, best[n].leader))
    BY <1>0, <2>1, ObserveLeader DEF Best, Forward
  <2> QED BY <1>0, <1>2, <2>2
     DEF Repoint, VoteStep, TypeInv, TypeOK, history, losses
<1>3. ASSUME NEW n \in Followers, ReadVote(n) PROVE VoteStep
  <2>1. reply[n] \in Reply
    BY <1>0, <1>3 DEF ReadVote, TypeInv, TypeOK
  <2>2. Forward(election[n], observe_term(election[n], reply[n].term))
    BY <1>0, <2>1, ObserveTerm DEF Reply, Forward
  <2> QED BY <1>0, <1>3, <2>2
     DEF ReadVote, VoteStep, TypeInv, TypeOK, history, losses
<1>4. ASSUME NEW n \in Followers, StartCandidacy(n) PROVE VoteStep
  <2> DEFINE u == start_candidacy(election[n], n)
  <2>1. Forward(election[n], u) /\ u.voted_for = n
    BY <1>0 DEF start_candidacy, Forward, ElectionState, Terms
  <2>2. /\ election' = [election EXCEPT ![n] = u]
        /\ grants' = grants \cup
             {[voter |-> n, term |-> u.current_term, cand |-> n]}
    BY <1>4 DEF StartCandidacy
  <2> HIDE DEF u
  <2> QED BY <1>0, <2>1, <2>2 DEF VoteStep, TypeInv, TypeOK
<1>5. ASSUME NEW n \in Followers, Promote(n) PROVE VoteStep
  <2>1. Forward(election[n], become_leader(election[n], n))
    BY <1>0 DEF become_leader, Forward, ElectionState, Terms
  <2> QED BY <1>0, <1>5, <2>1 DEF Promote, VoteStep, TypeInv, TypeOK
<1>6. ASSUME NEW n \in Followers, NEW m \in Members, AnswerRequestVote(n, m)
      PROVE  VoteStep
  BY <1>0, <1>6, HandleRequestVoteStep
     DEF AnswerRequestVote, TypeInv, RoundOK, Terms
<1>7. ASSUME NEW q \in late, LateRequestVote(q) PROVE VoteStep
  BY <1>0, <1>7, HandleRequestVoteStep DEF LateRequestVote, TypeInv, TypeOK
<1> QED
  BY <1>1, <1>2, <1>3, <1>4, <1>5, <1>6, <1>7
     DEF RunningStep, TaskStep, CallStep, LosePrimary, ReadGetLeader, StartPreVote,
         AnswerLost, GiveUp, AnswerGetLeader, AnswerPreVote, CallFails, vars,
         taskVars, history, losses

\* Unless a node restarts, its term never goes back and a vote it cast in a term
\* is kept throughout the term, for any number of nodes (ElectionState's methods).
THEOREM TermsAndVotesForward == Spec => TermsAndVotesOnlyMoveForward
<1> DEFINE A == \A n \in Nodes : \/ Restart(n)
                                 \/ Forward(election[n], election'[n])
<1>1. TypeInv /\ [Next]_vars => [A]_vars
  <2> SUFFICES ASSUME TypeInv, Next PROVE A
    OBVIOUS
  <2>1. CASE RunningStep
    BY <2>1, NextVoteStep DEF VoteStep
  <2>2. ASSUME NEW m \in Nodes, Restart(m) PROVE A
    <3> SUFFICES ASSUME NEW n \in Nodes, n # m
                 PROVE  Forward(election[n], election'[n])
      BY <2>2
    <3>1. election'[n] = election[n] /\ election[n] \in ElectionState
      BY <2>2 DEF Restart, TypeInv, TypeOK
    <3> QED BY <3>1 DEF Forward, ElectionState, Terms
  <2> QED BY <2>1, <2>2 DEF Next
<1>2. Spec => []TypeInv
  BY TypeInit, TypeStep, PTL DEF Spec
<1>3. Spec => [][A]_vars
  BY <1>1, <1>2, PTL DEF Spec
<1> QED BY <1>3, PTL DEF TermsAndVotesOnlyMoveForward, Forward

-----------------------------------------------------------------------------
(***************************************************************************)
(* One vote per term, one winner per term.                                 *)
(***************************************************************************)

\* Any two majorities of the member set share a member (quorum, has_quorum).
LEMMA QuorumsIntersect ==
  ASSUME NEW Q \in SUBSET Members, NEW R \in SUBSET Members,
         HasQuorum(Q), HasQuorum(R)
  PROVE  \E m \in Members : m \in Q /\ m \in R
<1>1. /\ IsFiniteSet(Q) /\ IsFiniteSet(R) /\ IsFiniteSet(Members)
      /\ Q \cup R \in SUBSET Members
  BY ConfigAssumption, FS_Subset
<1>2. /\ Cardinality(Q \cup R) = Cardinality(Q) + Cardinality(R)
                                 - Cardinality(Q \cap R)
      /\ Cardinality(Q \cup R) <= Cardinality(Members)
  BY <1>1, FS_Union, FS_Subset
<1>3. IsFiniteSet(Q \cap R)
  BY <1>1, FS_Intersection
<1>4. /\ Cardinality(Q) \in Nat /\ Cardinality(R) \in Nat
      /\ Cardinality(Members) \in Nat /\ Cardinality(Q \cap R) \in Nat
  BY <1>1, <1>3, FS_CardinalityType
<1>5. Cardinality(Q \cap R) # 0
  BY <1>2, <1>4 DEF HasQuorum, has_quorum, quorum
<1>6. Q \cap R # {}
  BY <1>3, <1>5, FS_EmptySet
<1> QED BY <1>6

\* Of the votes that it has not forgotten, the one a node has granted in its
\* current term is the one it holds, and it has granted none in a later term.
HeldVotes ==
  \A g \in grants \ forgot :
    /\ g.term <= election[g.voter].current_term
    /\ g.term = election[g.voter].current_term
         => election[g.voter].voted_for = g.cand

Granted(m, t, c) == [voter |-> m, term |-> t, cand |-> c] \in grants

\* A candidate counts only votes that were granted to it in its own round.
CountedVotes ==
  \A n \in Nodes : phase[n] = "candidate" =>
    /\ \A m \in votes[n] : Granted(m, round[n], n)
    /\ reply[n] # None /\ reply[n].granted
         => Granted(reply[n].from, round[n], n)

\* Behind every win stands a majority that granted its vote for that term.
WinsHaveQuorum ==
  \A w \in wins : \E Q \in SUBSET Members :
    HasQuorum(Q) /\ \A m \in Q : Granted(m, w.term, w.node)

VoteInv == HeldVotes /\ OneVotePerTerm

ElectInv == TypeInv /\ VoteInv /\ CountedVotes /\ WinsHaveQuorum

\* Only a restart makes a node forget.
LEMMA RunningForgetsNothing == [RunningStep]_vars => UNCHANGED losses
BY DEF RunningStep, TaskStep, CallStep, LosePrimary, ReadGetLeader, Repoint,
       StartPreVote, ReadVote, StartCandidacy, AnswerLost, GiveUp, Promote,
       AnswerGetLeader, AnswerPreVote, AnswerRequestVote, CallFails,
       LateRequestVote, vars, history, losses

LEMMA VoteInvStep ==
  ASSUME TypeInv, TypeInv', VoteInv, VoteStep, forgot' = forgot
  PROVE  VoteInv'
<1>0. /\ \A g \in grants' : g.voter \in Nodes /\ g.term \in Nat
                             /\ g.cand \in Nodes
      /\ \A n \in Nodes : /\ election[n].current_term \in Nat
                          /\ election'[n].current_term \in Nat
  BY ConfigAssumption DEF TypeInv, TypeOK, Vote, ElectionState, Terms
<1>1. ASSUME NEW g \in (grants \ forgot)'
      PROVE  /\ g.term <= election'[g.voter].current_term
             /\ g.term = election'[g.voter].current_term
                  => election'[g.voter].voted_for = g.cand
  <2>1. g \in grants' /\ g \notin forgot
    BY <1>1
  <2>2. CASE g \in grants
    BY <1>0, <2>1, <2>2, ConfigAssumption
       DEF VoteInv, HeldVotes, OneVotePerTerm, VoteStep, Forward
  <2>3. CASE g \notin grants
    BY <1>0, <2>1, <2>3 DEF VoteStep
  <2> QED BY <2>2, <2>3
<1>2. ASSUME NEW g \in (grants \ forgot)', NEW h \in (grants \ forgot)',
             g.voter = h.voter, g.term = h.term
      PROVE  g.cand = h.cand
  <2>1. CASE g \in grants /\ h \in grants
    BY <1>2, <2>1 DEF VoteInv, HeldVotes, OneVotePerTerm
  <2>2. CASE g \notin grants \/ h \notin grants
    <3>1. g.term = election'[g.voter].current_term
      BY <1>2, <2>2 DEF VoteStep
    <3> QED BY <1>1, <1>2, <3>1
  <2> QED BY <2>1, <2>2
<1> QED BY <1>1, <1>2 DEF VoteInv, HeldVotes, OneVotePerTerm

LEMMA CountedVotesStep ==
  TypeInv /\ CountedVotes /\ VoteStep /\ [RunningStep]_vars => CountedVotes'
<1> SUFFICES ASSUME TypeInv, CountedVotes, VoteStep, [RunningStep]_vars
             PROVE  CountedVotes'
  OBVIOUS
<1>0. /\ Followers \subseteq Nodes /\ Followers \subseteq Members
      /\ grants \subseteq grants'
  BY ConfigAssumption DEF Followers, VoteStep
<1>1. CASE UNCHANGED <<phase, votes, round, reply>>
  BY <1>0, <1>1 DEF CountedVotes, Granted
<1>2. ASSUME NEW n \in Followers, \/ LosePrimary(n) \/ ReadGetLeader(n)
                                  \/ Repoint(n) \/ StartPreVote(n)
                                  \/ GiveUp(n) \/ Promote(n) \/ AnswerLost(n)
      PROVE  CountedVotes'
  BY <1>0, <1>2
     DEF LosePrimary, ReadGetLeader, Repoint, StartPreVote, GiveUp, Promote,
         AnswerLost, EndRound, CountedVotes, Granted, TypeInv, TypeOK, Phases
<1>3. ASSUME NEW n \in Followers, ReadVote(n) PROVE CountedVotes'
  BY <1>0, <1>3 DEF ReadVote, CountedVotes, Granted, TypeInv, TypeOK
<1>4. ASSUME NEW n \in Followers, StartCandidacy(n) PROVE CountedVotes'
  <2> DEFINE t == start_candidacy(election[n], n).current_term
  <2>1. /\ round' = [round EXCEPT ![n] = t]
        /\ votes' = [votes EXCEPT ![n] = {n}]
        /\ phase' = [phase EXCEPT ![n] = "candidate"]
        /\ reply' = reply /\ reply[n] = None
        /\ [voter |-> n, term |-> t, cand |-> n] \in grants'
    BY <1>4 DEF StartCandidacy
  <2> HIDE DEF t
  <2> QED BY <1>0, <2>1 DEF CountedVotes, Granted, TypeInv, TypeOK
<1>5. ASSUME NEW n \in Followers, NEW m \in Members,
             AnswerGetLeader(n, m) \/ AnswerPreVote(n, m)
      PROVE  CountedVotes'
  BY <1>0, <1>5
     DEF AnswerGetLeader, AnswerPreVote, CountedVotes, Granted, TypeInv, TypeOK
<1>6. ASSUME NEW n \in Followers, NEW m \in Members, AnswerRequestVote(n, m)
      PROVE  CountedVotes'
  <2>1. vote_granted(election[m], round[n], n) => Granted(m, round[n], n)'
    BY <1>6 DEF AnswerRequestVote, HandleRequestVote, Granted
  <2> QED BY <1>0, <1>6, <2>1
     DEF AnswerRequestVote, CountedVotes, Granted, TypeInv, TypeOK
<1>7. ASSUME NEW n \in Followers, NEW m \in Members, CallFails(n, m)
      PROVE  CountedVotes'
  BY <1>1, <1>7 DEF CallFails
<1>8. ASSUME NEW q \in late, LateRequestVote(q) PROVE CountedVotes'
  BY <1>1, <1>8 DEF LateRequestVote
<1>9. CASE UNCHANGED vars
  BY <1>1, <1>9 DEF vars, taskVars
<1> QED BY <1>2, <1>3, <1>4, <1>5, <1>6, <1>7, <1>8, <1>9
        DEF RunningStep, TaskStep, CallStep

LEMMA WinsHaveQuorumStep ==
  TypeInv /\ CountedVotes /\ WinsHaveQuorum /\ VoteStep /\ [RunningStep]_vars
    => WinsHaveQuorum'
<1> SUFFICES ASSUME TypeInv, CountedVotes, WinsHaveQuorum, VoteStep, [RunningStep]_vars
             PROVE  WinsHaveQuorum'
  OBVIOUS
<1>0. Followers \subseteq Nodes /\ grants \subseteq grants'
  BY DEF Followers, VoteStep
<1>1. CASE UNCHANGED wins
  BY <1>0, <1>1 DEF WinsHaveQuorum, Granted
<1>2. ASSUME NEW n \in Followers, Promote(n) PROVE WinsHaveQuorum'
  <2>1. /\ votes[n] \in SUBSET Members /\ HasQuorum(votes[n])
        /\ \A m \in votes[n] :
             [voter |-> m, term |-> round[n], cand |-> n] \in grants'
    <3>1. phase[n] = "candidate" /\ grants' = grants /\ HasQuorum(votes[n])
      BY <1>2 DEF Promote
    <3>2. votes[n] \in SUBSET Members /\ \A m \in votes[n] : Granted(m, round[n], n)
      BY <1>0, <3>1 DEF CountedVotes, TypeInv, TypeOK
    <3> QED BY <3>1, <3>2 DEF Granted
  <2>2. wins' = wins \cup {[node |-> n, term |-> round[n]]}
    BY <1>2 DEF Promote
  <2>3. ASSUME NEW w \in wins'
        PROVE  \E Q \in SUBSET Members :
                 /\ HasQuorum(Q)
                 /\ \A m \in Q :
                      [voter |-> m, term |-> w.term, cand |-> w.node] \in grants'
    <3>1. CASE w \in wins
      BY <1>0, <3>1 DEF WinsHaveQuorum, Granted
    <3>2. CASE w = [node |-> n, term |-> round[n]]
      BY <2>1, <3>2
    <3> QED BY <2>2, <3>1, <3>2
  <2> QED BY <2>3 DEF WinsHaveQuorum, Granted
<1> QED
  BY <1>1, <1>2
     DEF RunningStep, TaskStep, CallStep, LosePrimary, ReadGetLeader, Repoint,
         StartPreVote, ReadVote, StartCandidacy, AnswerLost, GiveUp,
         AnswerGetLeader, AnswerPreVote, AnswerRequestVote, CallFails,
         LateRequestVote, vars, history, losses

\* A restart forgets all votes of its node, and nobody else's; what has been
\* counted or won stays so.
LEMMA ElectInvRestart ==
  ASSUME ElectInv, NEW n \in Nodes, Restart(n)
  PROVE  ElectInv'
<1>0. TypeInv /\ TypeInv' /\ StartPhase(n) # "candidate"
  BY RestartShape DEF ElectInv
<1>1. grants' = grants /\ wins' = wins
  BY DEF Restart
<1>2. \A g \in (grants \ forgot)' :
        g \in grants \ forgot /\ g.voter # n /\ election'[g.voter] = election[g.voter]
  <2>1. \A g \in (grants \ forgot)' :
          g \in grants \ forgot /\ g.voter # n /\ g.voter \in Nodes
    BY <1>1 DEF Restart, ElectInv, TypeInv, TypeOK, Vote
  <2> QED BY <2>1 DEF Restart, ElectInv, TypeInv, TypeOK
<1>3. VoteInv'
  BY <1>2 DEF VoteInv, HeldVotes, OneVotePerTerm, ElectInv
<1>4. CountedVotes'
  BY <1>0, <1>1 DEF Restart, EndRound, CountedVotes, Granted, ElectInv, TypeInv, TypeOK
<1>5. WinsHaveQuorum'
  BY <1>1 DEF WinsHaveQuorum, Granted, ElectInv
<1> QED BY <1>0, <1>3, <1>4, <1>5 DEF ElectInv

LEMMA ElectInvHolds == Spec => []ElectInv
<1>1. Init => ElectInv
  BY TypeInit DEF Init, StartPhase, ElectInv, VoteInv, HeldVotes, OneVotePerTerm,
                  CountedVotes, WinsHaveQuorum
<1>2. ElectInv /\ [Next]_vars => ElectInv'
  <2> SUFFICES ASSUME ElectInv, [Next]_vars PROVE ElectInv'
    OBVIOUS
  <2>1. CASE [RunningStep]_vars
    <3>1. TypeInv' /\ VoteStep /\ forgot' = forgot
      BY <2>1, RunningTypeStep, NextVoteStep, RunningForgetsNothing
         DEF ElectInv, losses
    <3> QED BY <2>1, <3>1, VoteInvStep, CountedVotesStep, WinsHaveQuorumStep
            DEF ElectInv
  <2>2. ASSUME NEW n \in Nodes, Restart(n) PROVE ElectInv'
    BY <2>2, ElectInvRestart
  <2> QED BY <2>1, <2>2 DEF Next
<1> QED BY <1>1, <1>2, PTL DEF Spec

LEMMA ElectInvOneWinner == ElectInv => OneWinnerUnlessVoteForgotten
<1> SUFFICES ASSUME ElectInv, NEW v \in wins, NEW w \in wins,
                    v.term = w.term, v.node # w.node
             PROVE  \E m \in Members :
                      LET g == [voter |-> m, term |-> v.term, cand |-> v.node]
                          h == [voter |-> m, term |-> w.term, cand |-> w.node]
                      IN /\ g \in grants /\ h \in grants
                         /\ g \in forgot \/ h \in forgot
  BY DEF OneWinnerUnlessVoteForgotten
<1>1. PICK Q \in SUBSET Members :
        HasQuorum(Q) /\ \A m \in Q : Granted(m, v.term, v.node)
  BY DEF ElectInv, WinsHaveQuorum
<1>2. PICK R \in SUBSET Members :
        HasQuorum(R) /\ \A m \in R : Granted(m, w.term, w.node)
  BY DEF ElectInv, WinsHaveQuorum
<1>3. PICK m \in Members : m \in Q /\ m \in R
  BY <1>1, <1>2, QuorumsIntersect
<1> DEFINE g == [voter |-> m, term |-> v.term, cand |-> v.node]
           h == [voter |-> m, term |-> w.term, cand |-> w.node]
<1>4. g \in grants /\ h \in grants
  BY <1>1, <1>2, <1>3 DEF Granted
<1>5. g \in forgot \/ h \in forgot
  <2>1. g.voter = h.voter /\ g.term = h.term /\ g.cand # h.cand
    OBVIOUS
  <2> HIDE DEF g, h
  <2> QED BY <1>4, <2>1 DEF ElectInv, VoteInv, OneVotePerTerm
<1> QED BY <1>4, <1>5

\* The votes a node remembers are for one candidate per term, in a cluster of any
\* size (consider_vote, start_candidacy, observe_leader).
THEOREM OneVote == Spec => []OneVotePerTerm
BY ElectInvHolds, PTL DEF ElectInv, VoteInv

\* In a cluster of any size, whatever happens to its messages and however often
\* its nodes restart, a term has two winners only through a member that voted
\* for both and had lost one of the two votes in a restart (elect, main).
THEOREM OneWinner == Spec => []OneWinnerUnlessVoteForgotten
BY ElectInvHolds, ElectInvOneWinner, PTL

-----------------------------------------------------------------------------
(***************************************************************************)
(* The election implements TermLeaders.                                    *)
(***************************************************************************)
LEMMA StepImplements ==
  ElectInv /\ ElectInv' /\ [Next]_vars
    => [TermLeadership!Next]_<<wins, {g.term : g \in forgot}>>
<1> SUFFICES ASSUME ElectInv, ElectInv', [Next]_vars
             PROVE  [TermLeadership!Next]_<<wins, {g.term : g \in forgot}>>
  OBVIOUS
<1>1. ASSUME NEW n \in Followers, Promote(n) PROVE TermLeadership!Next
  <2>1. n \in Nodes /\ round[n] \in 1 .. MaxTerm
    BY <1>1 DEF Promote, ElectInv, TypeInv, RoundOK, Followers
  <2>2. wins' = wins \cup {[node |-> n, term |-> round[n]]} /\ forgot' = forgot
    BY <1>1 DEF Promote, losses
  <2>3. OneWinnerUnlessVoteForgotten'
    BY ElectInvOneWinner, PTL
  <2>4. \/ TermLeadership!TermFree(n, round[n])
        \/ round[n] \in {g.term : g \in forgot}
    <3> SUFFICES ASSUME NEW w \in wins, w.term = round[n], w.node # n
                 PROVE  \E g \in forgot : g.term = round[n]
      BY DEF TermLeadership!TermFree
    <3> DEFINE v == [node |-> n, term |-> round[n]]
    <3>1. w \in wins' /\ v \in wins' /\ w.term = v.term /\ w.node # v.node
      BY <2>2
    <3>2. PICK m \in Members :
            \/ [voter |-> m, term |-> w.term, cand |-> w.node] \in forgot'
            \/ [voter |-> m, term |-> v.term, cand |-> v.node] \in forgot'
      BY <2>3, <3>1, Zenon DEF OneWinnerUnlessVoteForgotten
    <3> QED BY <2>2, <3>1, <3>2
  <2> QED BY <2>1, <2>2, <2>4 DEF TermLeadership!Next, TermLeadership!WinTerm
<1>2. ASSUME NEW n \in Nodes, Restart(n) PROVE TermLeadership!Next
  <2>1. forgot \subseteq forgot' /\ wins' = wins
    BY <1>2 DEF Restart
  <2> QED BY <2>1 DEF TermLeadership!Next, TermLeadership!Reopen
<1>3. CASE UNCHANGED <<wins, forgot>>
  BY <1>3
<1> QED
  BY <1>1, <1>2, <1>3
     DEF Next, RunningStep, TaskStep, CallStep, LosePrimary, ReadGetLeader, Repoint,
         StartPreVote, ReadVote, StartCandidacy, AnswerLost, GiveUp,
         AnswerGetLeader, AnswerPreVote, AnswerRequestVote, CallFails,
         LateRequestVote, vars, history, losses

\* Every behaviour of the election, seen through its wins, hands out each term to
\* one node at most and never takes it back, unless a voter of that term forgot
\* its vote (run_until_promote, main).
THEOREM Implements == Spec => ImplementsTermLeaders
<1>1. Init => TermLeadership!Init
  BY DEF Init, TermLeadership!Init
<1> QED BY <1>1, StepImplements, ElectInvHolds, PTL
        DEF Spec, TermLeadership!Spec, ImplementsTermLeaders

-----------------------------------------------------------------------------
(***************************************************************************)
(* Pre-votes and named leaders.                                            *)
(***************************************************************************)

\* Every term that is held or under way was opened after a pre-vote majority.
BackedTerm(t) == t > 0 => t \in backed

BackedInv ==
  /\ \A n \in Nodes :
       /\ BackedTerm(election[n].current_term)
       /\ phase[n] = "candidate" => BackedTerm(round[n])
       /\ reply[n] # None => BackedTerm(reply[n].term)
       /\ best[n] # None => BackedTerm(best[n].term)
  /\ \A q \in late : BackedTerm(q.term)

\* The nodes that may be named as leaders: elected or configured, and producing
\* blocks unless a restart has ended that.
Elected == {Primary} \cup {w.node : w \in wins}
Producing == {l \in Nodes : phase[l] = "sequencer" \/ l \in restarted}
Leaders == Elected \cap Producing

\* Every leader named in a state, an answer or a search is one of them.
LeaderInv ==
  \A n \in Nodes :
    /\ election[n].leader \in Leaders \cup {None}
    /\ reply[n] # None => reply[n].leader \in Leaders \cup {None}
    /\ best[n] # None => best[n].leader \in Leaders

\* The term a method leaves behind is the old one or the one it was given.
LEMMA TermOrigin ==
  ASSUME NEW s \in ElectionState, NEW t \in Terms, NEW c \in Nodes
  PROVE  /\ observe_term(s, t).current_term \in {s.current_term, t}
         /\ consider_vote(s, t, c).current_term \in {s.current_term, t}
         /\ observe_leader(s, t, c).current_term \in {s.current_term, t}
         /\ become_leader(s, c).current_term = s.current_term
BY DEF ElectionState, Terms, observe_term, StepDown, consider_vote,
       observe_leader, become_leader

LEMMA RunningBackedStep == TypeInv /\ BackedInv /\ [RunningStep]_vars => BackedInv'
<1> SUFFICES ASSUME TypeInv, BackedInv, [RunningStep]_vars PROVE BackedInv'
  OBVIOUS
<1>0. /\ Followers \subseteq Nodes /\ Members \subseteq Nodes
      /\ \A n \in Nodes : election[n] \in ElectionState
  BY ConfigAssumption DEF Followers, TypeInv, TypeOK
<1> USE DEF BackedInv, BackedTerm
<1>1. ASSUME NEW n \in Followers,
             \/ LosePrimary(n) \/ ReadGetLeader(n) \/ StartPreVote(n)
             \/ AnswerLost(n) \/ GiveUp(n)
      PROVE  BackedInv'
  BY <1>0, <1>1
     DEF LosePrimary, ReadGetLeader, StartPreVote, AnswerLost, GiveUp, EndRound,
         TypeInv, TypeOK, history, losses
<1>2. ASSUME NEW n \in Followers, Repoint(n) PROVE BackedInv'
  <2>1. best[n] \in Best
    BY <1>0, <1>2 DEF Repoint, FoundNewLeader, TypeInv, TypeOK
  <2>2. BackedTerm(observe_leader(election[n], best[n].term,
                                  best[n].leader).current_term)
    BY <1>0, <1>2, <2>1, TermOrigin DEF Best, Repoint, FoundNewLeader
  <2> QED BY <1>0, <1>2, <2>2 DEF Repoint, TypeInv, TypeOK, history, losses
<1>3. ASSUME NEW n \in Followers, ReadVote(n) PROVE BackedInv'
  <2>1. reply[n] \in Reply
    BY <1>0, <1>3 DEF ReadVote, TypeInv, TypeOK
  <2>2. BackedTerm(observe_term(election[n], reply[n].term).current_term)
    BY <1>0, <1>3, <2>1, TermOrigin, ConfigAssumption DEF Reply, ReadVote
  <2>3. \A m \in Nodes : BackedTerm(election'[m].current_term)
    BY <1>0, <1>3, <2>2 DEF ReadVote, TypeInv, TypeOK
  <2> QED BY <1>0, <1>3, <2>3 DEF ReadVote, TypeInv, TypeOK, history, losses
<1>4. ASSUME NEW n \in Followers, StartCandidacy(n) PROVE BackedInv'
  <2> DEFINE u == start_candidacy(election[n], n)
  <2>1. /\ election' = [election EXCEPT ![n] = u]
        /\ round' = [round EXCEPT ![n] = u.current_term]
        /\ backed' = backed \cup {u.current_term}
        /\ phase' = [phase EXCEPT ![n] = "candidate"]
        /\ UNCHANGED <<reply, best, late>>
    BY <1>4 DEF StartCandidacy
  <2> HIDE DEF u
  <2> QED BY <1>0, <2>1 DEF TypeInv, TypeOK
<1>5. ASSUME NEW n \in Followers, Promote(n) PROVE BackedInv'
  <2>1. \A m \in Nodes : election'[m].current_term = election[m].current_term
    BY <1>0, <1>5, TermOrigin DEF Promote, become_leader, TypeInv, TypeOK
  <2> QED BY <1>0, <1>5, <2>1 DEF Promote, EndRound, TypeInv, TypeOK
<1>6. ASSUME NEW n \in Followers, NEW m \in Members,
             \/ AnswerGetLeader(n, m) \/ AnswerPreVote(n, m)
      PROVE  BackedInv'
  <2>1. BackedTerm(election[m].current_term)
    BY <1>0
  <2>2. \A k \in Nodes : reply'[k] # None =>
          \/ k # n /\ reply'[k] = reply[k]
          \/ k = n /\ reply'[k].term = election[m].current_term
    BY <1>0, <1>6 DEF AnswerGetLeader, AnswerPreVote, TypeInv, TypeOK
  <2> QED BY <1>0, <1>6, <2>1, <2>2 DEF AnswerGetLeader, AnswerPreVote, history, losses
<1>7. ASSUME NEW n \in Followers, NEW m \in Members, CallFails(n, m)
      PROVE  BackedInv'
  BY <1>0, <1>7 DEF CallFails, TypeInv, TypeOK, history, losses
<1>8. ASSUME NEW n \in Followers, NEW m \in Members, AnswerRequestVote(n, m)
      PROVE  BackedInv'
  <2>1. round[n] \in Terms /\ BackedTerm(round[n])
    BY <1>0, <1>8 DEF AnswerRequestVote, TypeInv, RoundOK, Terms
  <2>2. BackedTerm(consider_vote(election[m], round[n], n).current_term)
    BY <1>0, <2>1, TermOrigin
  <2> QED BY <1>0, <1>8, <2>2
     DEF AnswerRequestVote, HandleRequestVote, TypeInv, TypeOK
<1>9. ASSUME NEW q \in late, LateRequestVote(q) PROVE BackedInv'
  <2>1. /\ q.to \in Nodes /\ q.term \in Terms /\ q.cand \in Nodes
        /\ BackedTerm(q.term)
    BY <1>0 DEF TypeInv, TypeOK
  <2>2. BackedTerm(consider_vote(election[q.to], q.term, q.cand).current_term)
    BY <1>0, <2>1, TermOrigin
  <2> QED BY <1>0, <1>9, <2>1, <2>2
     DEF LateRequestVote, HandleRequestVote, TypeInv, TypeOK
<1>10. CASE UNCHANGED vars
  BY <1>10 DEF vars, taskVars, history, losses
<1> QED BY <1>1, <1>2, <1>3, <1>4, <1>5, <1>6, <1>7, <1>8, <1>9, <1>10
        DEF RunningStep, TaskStep, CallStep

\* A restart opens no term: the node is back in term 0.
LEMMA RestartBackedStep ==
  ASSUME TypeInv, BackedInv, NEW n \in Nodes, Restart(n)
  PROVE  BackedInv'
<1>1. election'[n].current_term = 0 /\ StartPhase(n) # "candidate"
  BY RestartShape
<1>2. \A m \in Nodes : BackedTerm(election[m].current_term)'
  BY <1>1 DEF Restart, BackedInv, BackedTerm, TypeInv, TypeOK
<1> QED BY <1>1, <1>2
   DEF Restart, EndRound, BackedInv, BackedTerm, TypeInv, TypeOK

LEMMA BackedStep == TypeInv /\ BackedInv /\ [Next]_vars => BackedInv'
BY RunningBackedStep, RestartBackedStep DEF Next

\* No term is ever opened without a pre-vote majority, in a cluster of any size
\* and with any number of restarts (elect's pre-vote phase).
THEOREM PreVoteBacksTerms == Spec => []TermsBackedByPreVote
<1>1. Init => BackedInv
  <2> SUFFICES ASSUME Init PROVE BackedInv
    OBVIOUS
  <2>1. \A n \in Nodes : election[n].current_term = 0
    BY DEF Init, StartState, DefaultState, become_leader
  <2> QED BY <2>1 DEF Init, StartPhase, BackedInv, BackedTerm
<1>2. Spec => []TypeInv
  BY TypeInit, TypeStep, PTL DEF Spec
<1>3. BackedInv => TermsBackedByPreVote
  BY DEF BackedInv, BackedTerm, TermsBackedByPreVote
<1> QED BY <1>1, <1>2, <1>3, BackedStep, PTL DEF Spec

\* The leader a method leaves behind is none, the old one, or the one given.
LEMMA LeaderOrigin ==
  ASSUME NEW s \in ElectionState, NEW t \in Terms, NEW c \in Nodes
  PROVE  /\ observe_term(s, t).leader \in {None, s.leader}
         /\ consider_vote(s, t, c).leader \in {None, s.leader}
         /\ observe_leader(s, t, c).leader \in {s.leader, c}
         /\ become_leader(s, c).leader = c
         /\ start_candidacy(s, c).leader = None
BY DEF ElectionState, Terms, observe_term, StepDown, consider_vote,
       observe_leader, become_leader, start_candidacy

\* Once a leader always a leader: nobody stops producing but by a restart.
LEMMA LeadersStay == TypeInv /\ [Next]_vars => Leaders \subseteq Leaders'
<1> SUFFICES ASSUME TypeInv, [Next]_vars PROVE Leaders \subseteq Leaders'
  OBVIOUS
<1>1. wins \subseteq wins'
  BY DEF Next, RunningStep, TaskStep, CallStep, LosePrimary, ReadGetLeader,
         Repoint, StartPreVote, ReadVote, StartCandidacy, AnswerLost, GiveUp,
         Promote, AnswerGetLeader, AnswerPreVote, AnswerRequestVote, CallFails,
         LateRequestVote, Restart, vars, history
<1>2. restarted \subseteq restarted'
  BY RunningForgetsNothing DEF Next, Restart, losses
<1>3. ASSUME NEW l \in Nodes, phase[l] = "sequencer"
      PROVE  phase'[l] = "sequencer" \/ l \in restarted'
  BY <1>3
     DEF Next, RunningStep, TaskStep, CallStep, LosePrimary, ReadGetLeader,
         Repoint, StartPreVote, ReadVote, StartCandidacy, AnswerLost, GiveUp,
         Promote, AnswerGetLeader, AnswerPreVote, AnswerRequestVote, CallFails,
         LateRequestVote, Restart, vars, taskVars, TypeInv, TypeOK
<1> QED BY <1>1, <1>2, <1>3 DEF Leaders, Elected, Producing

LEMMA RunningLeaderStep == TypeInv /\ LeaderInv /\ [RunningStep]_vars => LeaderInv'
<1> SUFFICES ASSUME TypeInv, LeaderInv, [RunningStep]_vars PROVE LeaderInv'
  OBVIOUS
<1>0. /\ Followers \subseteq Nodes /\ Members \subseteq Nodes /\ None \notin Nodes
      /\ \A n \in Nodes : election[n] \in ElectionState
      /\ Leaders \subseteq Leaders'
  BY ConfigAssumption, LeadersStay DEF Followers, TypeInv, TypeOK, Next
<1> USE DEF LeaderInv
<1>1. ASSUME NEW n \in Followers,
             \/ LosePrimary(n) \/ StartPreVote(n) \/ AnswerLost(n) \/ GiveUp(n)
             \/ ReadGetLeader(n)
      PROVE  LeaderInv'
  BY <1>0, <1>1
     DEF LosePrimary, StartPreVote, AnswerLost, GiveUp, ReadGetLeader,
         TypeInv, TypeOK, Reply, NodeOpt
<1>2. ASSUME NEW n \in Followers, Repoint(n) PROVE LeaderInv'
  <2>1. best[n] \in Best /\ best[n].leader \in Leaders
    BY <1>0, <1>2 DEF Repoint, FoundNewLeader, TypeInv, TypeOK
  <2>2. observe_leader(election[n], best[n].term, best[n].leader).leader
          \in {election[n].leader, best[n].leader}
    BY <1>0, <2>1, LeaderOrigin DEF Best
  <2> QED BY <1>0, <1>2, <2>1, <2>2 DEF Repoint, TypeInv, TypeOK
<1>3. ASSUME NEW n \in Followers, ReadVote(n) PROVE LeaderInv'
  <2>1. reply[n] \in Reply
    BY <1>0, <1>3 DEF ReadVote, TypeInv, TypeOK
  <2>2. observe_term(election[n], reply[n].term).leader
          \in {None, election[n].leader}
    BY <1>0, <2>1, LeaderOrigin DEF Reply
  <2>3. \A m \in Nodes : election'[m].leader \in {None, election[m].leader}
    BY <1>0, <1>3, <2>2 DEF ReadVote, TypeInv, TypeOK
  <2> QED BY <1>0, <1>3, <2>3 DEF ReadVote, TypeInv, TypeOK
<1>4. ASSUME NEW n \in Followers, StartCandidacy(n) PROVE LeaderInv'
  <2> DEFINE u == start_candidacy(election[n], n)
  <2>1. /\ election' = [election EXCEPT ![n] = u]
        /\ UNCHANGED <<reply, best>>
    BY <1>4 DEF StartCandidacy
  <2>2. u.leader = None
    BY DEF start_candidacy
  <2> HIDE DEF u
  <2> QED BY <1>0, <2>1, <2>2 DEF TypeInv, TypeOK
<1>5. ASSUME NEW n \in Followers, Promote(n) PROVE LeaderInv'
  <2>1. n \in Leaders'
    <3>1. [node |-> n, term |-> round[n]] \in wins' /\ phase'[n] = "sequencer"
      BY <1>0, <1>5 DEF Promote, TypeInv, TypeOK
    <3>2. n \in Elected'
      BY <3>1 DEF Elected
    <3>3. n \in Producing'
      BY <1>0, <3>1 DEF Producing
    <3> QED BY <3>2, <3>3 DEF Leaders
  <2>2. \A m \in Nodes : election'[m].leader \in {n, election[m].leader}
    BY <1>0, <1>5 DEF Promote, become_leader, TypeInv, TypeOK, ElectionState
  <2> QED BY <1>0, <1>5, <2>1, <2>2 DEF Promote
<1>6. ASSUME NEW n \in Followers, NEW m \in Members,
             \/ AnswerGetLeader(n, m) \/ AnswerPreVote(n, m) \/ CallFails(n, m)
      PROVE  LeaderInv'
  BY <1>0, <1>6
     DEF AnswerGetLeader, AnswerPreVote, CallFails, TypeInv, TypeOK
<1>7. ASSUME NEW n \in Followers, NEW m \in Members, AnswerRequestVote(n, m)
      PROVE  LeaderInv'
  <2>1. consider_vote(election[m], round[n], n).leader \in {None, election[m].leader}
    BY <1>0, <1>7, LeaderOrigin DEF AnswerRequestVote, TypeInv, RoundOK, Terms
  <2>2. \A k \in Nodes : election'[k].leader \in {None, election[k].leader}
    BY <1>0, <1>7, <2>1
       DEF AnswerRequestVote, HandleRequestVote, TypeInv, TypeOK
  <2> QED BY <1>0, <1>7, <2>2 DEF AnswerRequestVote, TypeInv, TypeOK
<1>8. ASSUME NEW q \in late, LateRequestVote(q) PROVE LeaderInv'
  <2>1. q.to \in Nodes /\ q.term \in Terms /\ q.cand \in Nodes
    BY <1>0 DEF TypeInv, TypeOK
  <2>2. consider_vote(election[q.to], q.term, q.cand).leader
          \in {None, election[q.to].leader}
    BY <1>0, <2>1, LeaderOrigin
  <2>3. \A k \in Nodes : election'[k].leader \in {None, election[k].leader}
    BY <1>0, <1>8, <2>1, <2>2
       DEF LateRequestVote, HandleRequestVote, TypeInv, TypeOK
  <2> QED BY <1>0, <1>8, <2>3 DEF LateRequestVote
<1>9. CASE UNCHANGED vars
  BY <1>0, <1>9 DEF vars, taskVars
<1> QED BY <1>1, <1>2, <1>3, <1>4, <1>5, <1>6, <1>7, <1>8, <1>9
        DEF RunningStep, TaskStep, CallStep

LEMMA RestartLeaderStep ==
  ASSUME TypeInv, LeaderInv, NEW n \in Nodes, Restart(n)
  PROVE  LeaderInv'
<1>1. election'[n].leader \in {None, Primary}
  BY RestartShape
<1>2. n = Primary \/ election'[n].leader = None
  BY RestartShape DEF StartState, DefaultState
<1>3. Leaders \subseteq Leaders' /\ n \in restarted'
  BY LeadersStay DEF Next, Restart
<1>4. election'[n].leader \in (Leaders \cup {None})'
  BY <1>1, <1>2, <1>3 DEF Leaders, Elected, Producing
<1> QED BY <1>3, <1>4 DEF Restart, LeaderInv, TypeInv, TypeOK

LEMMA LeaderStep == TypeInv /\ LeaderInv /\ [Next]_vars => LeaderInv'
BY RunningLeaderStep, RestartLeaderStep DEF Next

\* With any number of restarts, a leader that getLeader names was configured or
\* elected, and is producing blocks unless it has restarted (become_leader,
\* observe_leader).
THEOREM NamedLeaders == Spec => []NamedLeaderSequences
<1>1. Init => LeaderInv
  <2> SUFFICES ASSUME Init PROVE LeaderInv
    OBVIOUS
  <2>1. \A n \in Nodes : election[n].leader \in {None, Primary}
    BY DEF Init, StartState, DefaultState, become_leader
  <2>2. Primary \in Leaders
    BY ConfigAssumption DEF Init, StartPhase, Leaders, Elected, Producing
  <2> QED BY <2>1, <2>2 DEF Init, LeaderInv
<1>2. Spec => []TypeInv
  BY TypeInit, TypeStep, PTL DEF Spec
<1>3. LeaderInv => NamedLeaderSequences
  BY DEF LeaderInv, Leaders, Elected, Producing, NamedLeaderSequences
<1> QED BY <1>1, <1>2, <1>3, LeaderStep, PTL DEF Spec
=============================================================================
