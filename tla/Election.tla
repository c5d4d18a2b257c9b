------------------------------ MODULE Election ------------------------------
(***************************************************************************)
(* Quorum leader election among himsha nodes (election.rs and the election *)
(* half of follower.rs and main.rs).                                       *)
(*                                                                         *)
(* Every node keeps one ElectionState behind a mutex.  Two kinds of steps  *)
(* touch it: the RPC handlers preVote, requestVote and getLeader, which run*)
(* at any moment, and the follower loop, which on lost contact with its    *)
(* primary looks for a leader, polls a pre-vote, stands as a candidate and *)
(* counts votes.  The loop holds the mutex only for single statements, so  *)
(* a handler may run between any two of its steps.  RPCs to the members    *)
(* are issued one at a time; each may fail, lose its answer, or reach the  *)
(* peer long after the caller gave up.  The state is kept in memory only,  *)
(* so that a process that restarts is in term 0 again and remembers no     *)
(* vote, while its peers go on from where they are.                        *)
(***************************************************************************)
EXTENDS Integers, FiniteSets

CONSTANTS Nodes,    \* every himsha node
          Members,  \* HIMSHA_ELECTION_MEMBERS: the nodes whose votes count
          Primary,  \* the node started without HIMSHA_FOLLOW
          None,     \* Option::None
          MaxTerm,  \* bound: no candidacy beyond this term
          MaxUpsets \* bound: given-up RequestVote calls under way at once,
                    \* and restarts, together

ASSUME ConfigAssumption ==
  /\ IsFiniteSet(Members)
  /\ Members # {}
  /\ Members \subseteq Nodes
  /\ Primary \in Nodes
  /\ Nodes \ {Primary} \subseteq Members
  /\ None \notin Nodes
  /\ MaxTerm \in Nat
  /\ MaxUpsets \in Nat

VARIABLES
  election,   \* election[n]: the ElectionState of node n
  phase,      \* phase[n]: where n's follower task stands
  primaryUrl, \* primaryUrl[n]: the node that n replicates from
  todo,       \* todo[n]: the members n's current round has still to call
  reply,      \* reply[n]: the answer n's task is about to read, or None
  best,       \* best[n]: the leader discover_leader has found so far, or None
  round,      \* round[n]: the term n's current poll or candidacy is for
  votes,      \* votes[n]: the members counted for n in the current round
  late        \* RequestVote calls given up by their caller, still under way

VARIABLE
  restarts    \* how many restarts there were, for the bound

\* History of the election, read by no action.
VARIABLES
  grants,     \* every vote ever granted
  backed,     \* every term opened by a candidate with a pre-vote majority
  wins,       \* every election won
  restarted,  \* the nodes that have restarted
  forgot      \* the granted votes whose voter has restarted since

taskVars == <<phase, primaryUrl, todo, reply, best, round, votes, late>>
losses   == <<restarts, restarted, forgot>>
history  == <<grants, backed, wins, losses>>
vars     == <<election, taskVars, history>>

Followers == Nodes \ {Primary}
Terms     == 0 .. MaxTerm
NodeOpt   == Nodes \cup {None}

ElectionState == [current_term : Terms, voted_for : NodeOpt,
                  is_leader : BOOLEAN, leader : NodeOpt]
Phases == {"follow", "discover", "preVote", "candidate", "sequencer"}
Reply  == [from : Members, term : Terms, granted : BOOLEAN, leader : NodeOpt]
Best   == [term : Terms, leader : Nodes]
Vote   == [voter : Nodes, term : Terms, cand : Nodes]
Win    == [node : Nodes, term : Terms]

-----------------------------------------------------------------------------
(***************************************************************************)
(* ElectionState's methods, as functions of the state they are called on.  *)
(***************************************************************************)
DefaultState == [current_term |-> 0, voted_for |-> None,
                 is_leader |-> FALSE, leader |-> None]

\* Adopt a newer term: the vote and the leader belong to the old one.
StepDown(t) == [current_term |-> t, voted_for |-> None,
                   is_leader |-> FALSE, leader |-> None]

observe_term_Mutant(s, t) ==
  IF t >= s.current_term THEN StepDown(t) ELSE s

observe_term(s, t) == IF t > s.current_term THEN StepDown(t) ELSE s

\* Does consider_vote grant its vote for candidate c in term t?
vote_granted(s, t, c) ==
  /\ t >= s.current_term
  /\ observe_term(s, t).voted_for \in {None, c}

consider_vote(s, t, c) ==
  IF vote_granted(s, t, c)
  THEN [observe_term(s, t) EXCEPT !.voted_for = c]
  ELSE observe_term(s, t)

\* Read-only: whether a RequestVote for term t would be worth making.
consider_pre_vote(s, t) == t >= s.current_term /\ ~s.is_leader

start_candidacy_Mutant(s, self) ==
  [current_term |-> s.current_term + 1, voted_for |-> self,
   is_leader |-> FALSE, leader |-> self]

start_candidacy(s, self) ==
  [current_term |-> s.current_term + 1, voted_for |-> self,
   is_leader |-> FALSE, leader |-> None]

\* Marks the term the node is in now, whichever term the votes were for.
become_leader(s, self) == [s EXCEPT !.is_leader = TRUE, !.leader = self]

\* Adopts the term and keeps voted_for, even one cast in an older term.
observe_leader(s, t, l) ==
  IF t >= s.current_term
  THEN [s EXCEPT !.current_term = t, !.leader = l, !.is_leader = FALSE]
  ELSE s

quorum_Mutant(members) == members \div 2

quorum(members) == members \div 2 + 1

has_quorum(granted, members) == members > 0 /\ granted >= quorum(members)

HasQuorum(V) == has_quorum(Cardinality(V), Cardinality(Members))

-----------------------------------------------------------------------------
TypeOK ==
  /\ election \in [Nodes -> ElectionState]
  /\ phase \in [Nodes -> Phases]
  /\ primaryUrl \in [Nodes -> Nodes]
  /\ todo \in [Nodes -> SUBSET Members]
  /\ reply \in [Nodes -> Reply \cup {None}]
  /\ best \in [Nodes -> Best \cup {None}]
  /\ round \in [Nodes -> 0 .. MaxTerm + 1]
  /\ votes \in [Nodes -> SUBSET Members]
  /\ late \subseteq [to : Members, term : Terms, cand : Nodes]
  /\ grants \subseteq Vote
  /\ backed \subseteq Terms
  /\ wins \subseteq Win
  /\ restarts \in Nat
  /\ restarted \subseteq Nodes
  /\ forgot \subseteq grants

\* A process starts: the primary marks itself leader of term 0 and starts its
\* block producer, every other node follows it.
StartState(n) == IF n = Primary THEN become_leader(DefaultState, n)
                 ELSE DefaultState
StartPhase(n) == IF n = Primary THEN "sequencer" ELSE "follow"

\* A fresh cluster.
Init ==
  /\ election = [n \in Nodes |-> StartState(n)]
  /\ phase = [n \in Nodes |-> StartPhase(n)]
  /\ primaryUrl = [n \in Nodes |-> Primary]
  /\ todo = [n \in Nodes |-> {}]
  /\ reply = [n \in Nodes |-> None]
  /\ best = [n \in Nodes |-> None]
  /\ round = [n \in Nodes |-> 0]
  /\ votes = [n \in Nodes |-> {}]
  /\ late = {}
  /\ grants = {}
  /\ backed = {}
  /\ wins = {}
  /\ restarts = 0
  /\ restarted = {}
  /\ forgot = {}

-----------------------------------------------------------------------------
(***************************************************************************)
(* The follower task of node n.                                            *)
(***************************************************************************)

\* max_misses polls in a row failed: ask the members who leads.
LosePrimary(n) ==
  /\ phase[n] = "follow"
  /\ phase' = [phase EXCEPT ![n] = "discover"]
  /\ todo' = [todo EXCEPT ![n] = Members \ {n}]
  /\ UNCHANGED <<election, primaryUrl, reply, best, round, votes, late, history>>

\* Member m answers getLeader.
AnswerGetLeader(n, m) ==
  /\ phase[n] = "discover" /\ m \in todo[n] /\ reply[n] = None
  /\ todo' = [todo EXCEPT ![n] = @ \ {m}]
  /\ reply' = [reply EXCEPT ![n] =
       [from |-> m, term |-> election[m].current_term, granted |-> FALSE,
        leader |-> election[m].leader]]
  /\ UNCHANGED <<election, phase, primaryUrl, best, round, votes, late, history>>

\* The task reads the answer; only a strictly higher term replaces the best.
ReadGetLeader(n) ==
  /\ phase[n] = "discover" /\ reply[n] # None
  /\ LET r == reply[n]
         better == /\ r.leader # None
                   /\ best[n] = None \/ r.term > best[n].term
     IN best' = IF better
                THEN [best EXCEPT ![n] = [term |-> r.term, leader |-> r.leader]]
                ELSE best
  /\ reply' = [reply EXCEPT ![n] = None]
  /\ UNCHANGED <<election, phase, primaryUrl, todo, round, votes, late, history>>

FoundNewLeader(n) ==
  best[n] # None /\ best[n].leader \notin {primaryUrl[n], n}

\* All members asked and another leader is known: follow it, elect nobody.
Repoint(n) ==
  /\ phase[n] = "discover" /\ todo[n] = {} /\ reply[n] = None
  /\ FoundNewLeader(n)
  /\ primaryUrl' = [primaryUrl EXCEPT ![n] = best[n].leader]
  /\ election' = [election EXCEPT
                    ![n] = observe_leader(@, best[n].term, best[n].leader)]
  /\ phase' = [phase EXCEPT ![n] = "follow"]
  /\ best' = [best EXCEPT ![n] = None]
  /\ UNCHANGED <<todo, reply, round, votes, late, history>>

\* No other leader: poll a pre-vote for the term after the current one.
StartPreVote(n) ==
  /\ phase[n] = "discover" /\ todo[n] = {} /\ reply[n] = None
  /\ ~FoundNewLeader(n)
  /\ phase' = [phase EXCEPT ![n] = "preVote"]
  /\ round' = [round EXCEPT ![n] = election[n].current_term + 1]
  /\ votes' = [votes EXCEPT ![n] = {n}]
  /\ todo' = [todo EXCEPT ![n] = Members \ {n}]
  /\ best' = [best EXCEPT ![n] = None]
  /\ UNCHANGED <<election, primaryUrl, reply, late, history>>

\* Member m answers preVote from its state, changing nothing.
AnswerPreVote(n, m) ==
  /\ phase[n] = "preVote" /\ m \in todo[n] /\ reply[n] = None
  /\ todo' = [todo EXCEPT ![n] = @ \ {m}]
  /\ reply' = [reply EXCEPT ![n] =
       [from |-> m, term |-> election[m].current_term, leader |-> None,
        granted |-> consider_pre_vote(election[m], round[n])]]
  /\ UNCHANGED <<election, phase, primaryUrl, best, round, votes, late, history>>

\* The task reads a preVote or requestVote answer: a grant is counted, a
\* refusal from a higher term makes the node step down to it.
ReadVote(n) ==
  /\ phase[n] \in {"preVote", "candidate"} /\ reply[n] # None
  /\ IF reply[n].granted
     THEN /\ votes' = [votes EXCEPT ![n] = @ \cup {reply[n].from}]
          /\ UNCHANGED election
     ELSE /\ election' = [election EXCEPT ![n] = observe_term(@, reply[n].term)]
          /\ UNCHANGED votes
  /\ reply' = [reply EXCEPT ![n] = None]
  /\ UNCHANGED <<phase, primaryUrl, todo, best, round, late, history>>

StartCandidacy_Mutant(n) ==
  /\ phase[n] = "preVote" /\ todo[n] = {} /\ reply[n] = None
  /\ election[n].current_term < MaxTerm
  /\ LET s == start_candidacy(election[n], n)
     IN /\ election' = [election EXCEPT ![n] = s]
        /\ round' = [round EXCEPT ![n] = s.current_term]
        /\ grants' = grants \cup
             {[voter |-> n, term |-> s.current_term, cand |-> n]}
        /\ backed' = IF HasQuorum(votes[n])
                     THEN backed \cup {s.current_term} ELSE backed
  /\ phase' = [phase EXCEPT ![n] = "candidate"]
  /\ votes' = [votes EXCEPT ![n] = {n}]
  /\ todo' = [todo EXCEPT ![n] = Members \ {n}]
  /\ UNCHANGED <<primaryUrl, reply, best, late, wins, losses>>

\* The pre-vote reached a majority: stand in the term after the one the node
\* is in by now, with its own vote.
StartCandidacy(n) ==
  /\ phase[n] = "preVote" /\ todo[n] = {} /\ reply[n] = None
  /\ HasQuorum(votes[n])
  /\ election[n].current_term < MaxTerm
  /\ LET s == start_candidacy(election[n], n)
     IN /\ election' = [election EXCEPT ![n] = s]
        /\ round' = [round EXCEPT ![n] = s.current_term]
        /\ grants' = grants \cup
             {[voter |-> n, term |-> s.current_term, cand |-> n]}
        /\ backed' = IF HasQuorum(votes[n])
                     THEN backed \cup {s.current_term} ELSE backed
  /\ phase' = [phase EXCEPT ![n] = "candidate"]
  /\ votes' = [votes EXCEPT ![n] = {n}]
  /\ todo' = [todo EXCEPT ![n] = Members \ {n}]
  /\ UNCHANGED <<primaryUrl, reply, best, late, wins, losses>>

\* What handling RequestVote(t, c) does at member m.
HandleRequestVote(m, t, c) ==
  /\ election' = [election EXCEPT ![m] = consider_vote(@, t, c)]
  /\ grants' = IF vote_granted(election[m], t, c)
               THEN grants \cup {[voter |-> m, term |-> t, cand |-> c]}
               ELSE grants

\* Member m answers the RequestVote of candidate n.
AnswerRequestVote(n, m) ==
  /\ phase[n] = "candidate" /\ m \in todo[n] /\ reply[n] = None
  /\ HandleRequestVote(m, round[n], n)
  /\ todo' = [todo EXCEPT ![n] = @ \ {m}]
  /\ reply' = [reply EXCEPT ![n] =
       [from |-> m, term |-> consider_vote(election[m], round[n], n).current_term,
        granted |-> vote_granted(election[m], round[n], n), leader |-> None]]
  /\ UNCHANGED <<phase, primaryUrl, best, round, votes, late,
                 backed, wins, losses>>

\* The call to m fails before an answer; a RequestVote may still get through.
CallFails(n, m) ==
  /\ m \in todo[n] /\ reply[n] = None
  /\ todo' = [todo EXCEPT ![n] = @ \ {m}]
  /\ \/ UNCHANGED late
     \/ /\ phase[n] = "candidate"
        /\ Cardinality(late) + restarts < MaxUpsets
        /\ late' = late \cup {[to |-> m, term |-> round[n], cand |-> n]}
  /\ UNCHANGED <<election, phase, primaryUrl, reply, best, round, votes, history>>

\* A RequestVote whose caller gave up reaches its peer; nobody reads the answer.
LateRequestVote(q) ==
  /\ q \in late
  /\ HandleRequestVote(q.to, q.term, q.cand)
  /\ late' = late \ {q}
  /\ UNCHANGED <<phase, primaryUrl, todo, reply, best, round, votes,
                 backed, wins, losses>>

\* The answer to a RequestVote is lost on its way back: the peer has voted,
\* the vote is not counted.  (For the two read-only calls this is CallFails.)
AnswerLost(n) ==
  /\ phase[n] = "candidate" /\ reply[n] # None
  /\ reply' = [reply EXCEPT ![n] = None]
  /\ UNCHANGED <<election, phase, primaryUrl, todo, best, round, votes, late,
                 history>>

\* elect returns: its local counters go out of scope.
EndRound(n) ==
  /\ round' = [round EXCEPT ![n] = 0]
  /\ votes' = [votes EXCEPT ![n] = {}]

\* No majority of pre-votes or of votes: follow again, retry at a later poll.
GiveUp(n) ==
  /\ phase[n] \in {"preVote", "candidate"} /\ todo[n] = {} /\ reply[n] = None
  /\ ~HasQuorum(votes[n])
  /\ phase' = [phase EXCEPT ![n] = "follow"]
  /\ EndRound(n)
  /\ UNCHANGED <<election, primaryUrl, todo, reply, best, late, history>>

\* A majority of votes: become leader and start the block producer.
Promote(n) ==
  /\ phase[n] = "candidate" /\ todo[n] = {} /\ reply[n] = None
  /\ HasQuorum(votes[n])
  /\ election' = [election EXCEPT ![n] = become_leader(@, n)]
  /\ phase' = [phase EXCEPT ![n] = "sequencer"]
  /\ wins' = wins \cup {[node |-> n, term |-> round[n]]}
  /\ EndRound(n)
  /\ UNCHANGED <<primaryUrl, todo, reply, best, late, grants, backed, losses>>

\* One step of the task of n that its own loop takes.
TaskStep(n) ==
  \/ LosePrimary(n)
  \/ ReadGetLeader(n)
  \/ Repoint(n)
  \/ StartPreVote(n)
  \/ ReadVote(n)
  \/ StartCandidacy(n)
  \/ AnswerLost(n)
  \/ GiveUp(n)
  \/ Promote(n)

\* One step of the RPC n has under way to m.
CallStep(n, m) ==
  \/ AnswerGetLeader(n, m)
  \/ AnswerPreVote(n, m)
  \/ AnswerRequestVote(n, m)
  \/ CallFails(n, m)

RunningStep ==
  \/ \E n \in Followers : TaskStep(n)
  \/ \E n \in Followers, m \in Members : CallStep(n, m)
  \/ \E q \in late : LateRequestVote(q)

\* The process of n dies and starts again.  (While it is down the calls to it
\* fail.)  Requests that it sent, and answers that it gave, stay under way;
\* answers to it have nobody to read them.
Restart(n) ==
  /\ Cardinality(late) + restarts < MaxUpsets
  /\ restarts' = restarts + 1
  /\ election' = [election EXCEPT ![n] = StartState(n)]
  /\ phase' = [phase EXCEPT ![n] = StartPhase(n)]
  /\ primaryUrl' = [primaryUrl EXCEPT ![n] = Primary]
  /\ todo' = [todo EXCEPT ![n] = {}]
  /\ reply' = [reply EXCEPT ![n] = None]
  /\ best' = [best EXCEPT ![n] = None]
  /\ EndRound(n)
  /\ restarted' = restarted \cup {n}
  /\ forgot' = forgot \cup {g \in grants : g.voter = n}
  /\ UNCHANGED <<late, grants, backed, wins>>

Next ==
  \/ RunningStep
  \/ \E n \in Nodes : Restart(n)

Spec == Init /\ [][Next]_vars

-----------------------------------------------------------------------------
(***************************************************************************)
(* Safety.                                                                 *)
(***************************************************************************)

\* Among the votes a node remembers no two are for different candidates of one
\* term, although observe_leader moves it to a new term without clearing
\* voted_for and requests may arrive long after they were sent (consider_vote).
OneVotePerTerm ==
  \A g, h \in grants \ forgot :
    g.voter = h.voter /\ g.term = h.term => g.cand = h.cand

\* Two nodes win the election of one term only if some member voted for both and
\* had lost one of the two votes in a restart.  A term whose votes nobody forgot
\* has one winner, whatever else restarts, whatever calls fail, are lost or
\* arrive late, and whatever terms are adopted while a candidate still counts
\* its votes (elect, has_quorum, and main's in-memory ElectionState).
OneWinnerUnlessVoteForgotten ==
  \A v, w \in wins : v.term = w.term /\ v.node # w.node =>
    \E m \in Members :
      LET g == [voter |-> m, term |-> v.term, cand |-> v.node]
          h == [voter |-> m, term |-> w.term, cand |-> w.node]
      IN /\ g \in grants /\ h \in grants
         /\ g \in forgot \/ h \in forgot

\* Every term a node has ever moved to was opened by a candidate that a
\* majority of the members had told it would be worth standing: a node cut off
\* from a majority raises no term, its own included, and neither does one that
\* restarts (elect's pre-vote).
TermsBackedByPreVote ==
  \A n \in Nodes :
    election[n].current_term > 0 => election[n].current_term \in backed

\* A leader that a node names in getLeader answers is the configured primary or
\* has won an election, and unless it has restarted it is really running the
\* block producer, so that a follower that re-points to it finds blocks there
\* (become_leader, observe_leader, discover_leader).
NamedLeaderSequences ==
  \A n \in Nodes :
    LET l == election[n].leader
    IN l # None => /\ l = Primary \/ \E w \in wins : w.node = l
                   /\ phase[l] = "sequencer" \/ l \in restarted

\* Unless it restarts, a node's term never goes back, and while the term stays
\* its vote, once cast, is not taken back or given to another.
TermsAndVotesOnlyMoveForward ==
  [][\A n \in Nodes :
       LET s == election[n]
           u == election'[n]
       IN \/ Restart(n)
          \/ /\ s.current_term <= u.current_term
             /\ s.current_term = u.current_term /\ s.voted_for # None
                  => u.voted_for = s.voted_for]_vars

\* Seen through its wins, the election is the abstract specification of terms
\* handed out to one node each: a promotion adds a win of a term that nobody
\* else holds unless a vote of that term is forgotten, and no other step touches
\* the wins (run_until_promote).
TermLeadership == INSTANCE TermLeaders
                    WITH won <- wins, reopened <- {g.term : g \in forgot}

ImplementsTermLeaders == TermLeadership!Spec
=============================================================================
