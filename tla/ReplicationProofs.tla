------------------------- MODULE ReplicationProofs -------------------------
(***************************************************************************)
(* A replica's blocks are the primary's, for any followers, transactions,  *)
(* crashes, restarts, lost calls and airdrops.  The invariant says what    *)
(* the pieces in flight are: the block a replica applies is a block of the *)
(* primary that the primary will never write again.                        *)
(***************************************************************************)
EXTENDS Replication, InductionLemmas

Shape ==
  /\ slot \in [Nodes -> Nat]
  /\ at = [n \in Nodes |-> at[n]]
  /\ blocks = [n \in Nodes |-> blocks[n]]
  /\ block = [n \in Nodes |-> block[n]]

\* The primary always sequences or is down, and the slot it executes has no block.
PrimaryInv ==
  /\ at[Primary] \in {"produce", "execute", "down"}
  /\ \A s \in DOMAIN blocks[Primary] : s \in Nat /\ s <= slot[Primary]
  /\ at[Primary] = "execute" => slot[Primary] \notin DOMAIN blocks[Primary]

Holds(f, s) ==
  /\ s \in DOMAIN blocks[f] /\ s \in DOMAIN blocks[Primary]
  /\ blocks[f][s] = blocks[Primary][s]

\* What a follower that never promoted has in hand.
FollowerInv(f) ==
  /\ ~Sequencing(f)
  /\ \A s \in 0 .. slot[f] : Holds(f, s)
  /\ Applying(f) => /\ slot[f] + 1 \in DOMAIN blocks[Primary]
                    /\ block[f] = blocks[Primary][slot[f] + 1]
  /\ at[f] = "saved" => Holds(f, slot[f] + 1)

ChainInv ==
  /\ Shape
  /\ PrimaryInv
  /\ \A f \in Followers \ promoted : FollowerInv(f)

-----------------------------------------------------------------------------
\* A step that leaves slots, blocks and the block in hand alone keeps the
\* invariant if it moves no task to where the invariant says more.
LEMMA TaskStep ==
  ASSUME ChainInv, ReplicationAssumption,
         UNCHANGED <<slot, blocks, block, promoted>>,
         at' = [n \in Nodes |-> at'[n]],
         \A n \in Nodes : at'[n] # at[n] =>
            /\ n = Primary => at'[n] \in {"produce", "down"}
            /\ n # Primary => at'[n] \in {"poll", "sync", "decide", "ask", "down"}
  PROVE  ChainInv'
<1>1. Shape' BY DEF ChainInv, Shape
<1>2. PrimaryInv'
  BY DEF ChainInv, PrimaryInv, Nodes
<1>3. ASSUME NEW f \in Followers \ promoted' PROVE FollowerInv(f)'
  <2>1. f # Primary /\ f \in Nodes /\ f \notin promoted
    BY <1>3 DEF ReplicationAssumption, Nodes
  <2>2. FollowerInv(f) BY <2>1 DEF ChainInv
  <2>3. at'[f] = at[f] \/ at'[f] \in {"poll", "sync", "decide", "ask", "down"}
    BY <2>1
  <2> QED BY <2>1, <2>2, <2>3 DEF FollowerInv, Holds, Sequencing, Applying
<1> QED BY <1>1, <1>2, <1>3 DEF ChainInv

\* Init establishes the invariant.
LEMMA ChainInit ==
  ASSUME Init, ReplicationAssumption PROVE ChainInv
<1>1. Shape BY DEF Init, Shape
<1>2. PrimaryInv BY DEF Init, PrimaryInv, Configured, Nodes
<1>3. \A f \in Followers : FollowerInv(f)
  <2> SUFFICES ASSUME NEW f \in Followers PROVE FollowerInv(f) OBVIOUS
  <2>1. f \in Nodes /\ Primary \in Nodes /\ f # Primary
    BY DEF Nodes, ReplicationAssumption
  <2>2. at[f] = "poll" BY <2>1 DEF Init, Configured
  <2>3. slot[f] = 0 BY <2>1 DEF Init
  <2>4. Holds(f, 0) BY <2>1 DEF Init, Holds
  <2>5. \A s \in 0 .. slot[f] : Holds(f, s) BY <2>3, <2>4
  <2> QED BY <2>2, <2>5 DEF FollowerInv, Sequencing, Applying
<1> QED BY <1>1, <1>2, <1>3 DEF ChainInv

\* A step of a sequencer keeps it: it writes only above every slot it has a
\* block for.
LEMMA ProduceStep ==
  ASSUME ChainInv, ReplicationAssumption, NEW n \in Nodes, Produce(n)
  PROVE  ChainInv'
<1>0. Primary \in Nodes /\ Primary \notin Followers BY DEF Nodes, ReplicationAssumption
<1>1. CASE StartBlock(n)
  <2>0. slot' \in [Nodes -> Nat]
    <3>1. slot[n] + 1 \in Nat /\ slot \in [Nodes -> Nat] BY DEF ChainInv, Shape
    <3>2. slot' = [slot EXCEPT ![n] = slot[n] + 1] BY <1>1 DEF StartBlock, history
    <3> QED BY <3>1, <3>2
  <2>1. Shape' BY <1>1, <2>0 DEF ChainInv, Shape, StartBlock, history
  <2>2. PrimaryInv'
    <3>1. CASE n = Primary
      BY <1>0, <1>1, <3>1 DEF ChainInv, Shape, PrimaryInv, StartBlock, history
    <3>2. CASE n # Primary
      BY <1>0, <1>1, <3>2 DEF ChainInv, Shape, PrimaryInv, StartBlock, history
    <3> QED BY <3>1, <3>2
  <2>3. ASSUME NEW f \in Followers \ promoted' PROVE FollowerInv(f)'
    <3>1. f \in Followers \ promoted /\ f \in Nodes BY <1>1, <2>3
      DEF StartBlock, Nodes, history
    <3>2. FollowerInv(f) BY <3>1 DEF ChainInv
    <3>3. f # n BY <1>1, <3>2 DEF FollowerInv, Sequencing, StartBlock, history
    <3>4. slot'[f] = slot[f] /\ at'[f] = at[f] BY <1>1, <3>1, <3>3
      DEF StartBlock, ChainInv, Shape, history
    <3> QED BY <1>1, <3>2, <3>4
      DEF FollowerInv, Holds, Sequencing, Applying, StartBlock, history
  <2> QED BY <2>1, <2>2, <2>3 DEF ChainInv
<1>2. CASE ExecuteTx(n)
  BY <1>2, TaskStep DEF ExecuteTx, ChainInv, Shape, history
<1>3. CASE SaveBlock(n)
  <2>1. Shape' BY <1>3 DEF ChainInv, Shape, SaveBlock, history
  <2>2. \A m \in Nodes : m # n => blocks'[m] = blocks[m] /\ at'[m] = at[m]
    BY <1>3 DEF SaveBlock, ChainInv, Shape, history
  <2>3. /\ DOMAIN blocks'[n] = DOMAIN blocks[n] \cup {slot[n]}
        /\ \A s \in DOMAIN blocks[n] : s # slot[n] => blocks'[n][s] = blocks[n][s]
        /\ at'[n] = "produce"
    BY <1>3 DEF SaveBlock, save_block, ChainInv, Shape, history
  <2>4. PrimaryInv'
    <3>1. CASE n = Primary
      BY <1>0, <1>3, <2>3, <3>1 DEF ChainInv, Shape, PrimaryInv, SaveBlock, history
    <3>2. CASE n # Primary
      BY <1>0, <1>3, <2>2, <3>2 DEF ChainInv, Shape, PrimaryInv, SaveBlock, history
    <3> QED BY <3>1, <3>2
  <2>5. \A s \in DOMAIN blocks[Primary] :
          s \in DOMAIN blocks'[Primary] /\ blocks'[Primary][s] = blocks[Primary][s]
    <3>1. CASE n = Primary
      BY <1>3, <2>3, <3>1 DEF ChainInv, PrimaryInv, SaveBlock, history
    <3>2. CASE n # Primary BY <1>0, <2>2, <3>2
    <3> QED BY <3>1, <3>2
  <2>6. ASSUME NEW f \in Followers \ promoted' PROVE FollowerInv(f)'
    <3>1. f \in Followers \ promoted /\ f \in Nodes BY <1>3, <2>6
      DEF SaveBlock, Nodes, history
    <3>2. FollowerInv(f) BY <3>1 DEF ChainInv
    <3>3. f # n BY <1>3, <3>2 DEF FollowerInv, Sequencing, SaveBlock, history
    <3>4. blocks'[f] = blocks[f] /\ at'[f] = at[f] BY <2>2, <3>1, <3>3
    <3> QED BY <1>3, <2>5, <3>2, <3>4
      DEF FollowerInv, Holds, Sequencing, Applying, SaveBlock, history
  <2> QED BY <2>1, <2>4, <2>6 DEF ChainInv
<1> QED BY <1>1, <1>2, <1>3 DEF Produce

\* A step of a follower's loop keeps it.
LEMMA FollowStep ==
  ASSUME ChainInv, ReplicationAssumption, NEW f \in Followers, Follow(f)
  PROVE  ChainInv'
<1>0. Primary \in Nodes /\ f \in Nodes /\ f # Primary BY DEF Nodes, ReplicationAssumption
<1>1. CASE GetSlot(f)
  BY <1>0, <1>1, TaskStep DEF GetSlot, db, ChainInv, Shape, history
<1>2. CASE CaughtUp(f)
  BY <1>0, <1>2, TaskStep DEF CaughtUp, Synced, db, ChainInv, Shape, history
<1>3. CASE BlockMissing(f)
  BY <1>0, <1>3, TaskStep DEF BlockMissing, Synced, db, ChainInv, Shape, history
<1>4. CASE RunInstr(f)
  BY <1>0, <1>4, TaskStep DEF RunInstr, db, ChainInv, Shape, history
<1>5. CASE InstrFails(f)
  BY <1>0, <1>5, TaskStep DEF InstrFails, Missed, db, ChainInv, Shape, history
<1>6. CASE SaveAccount(f)
  BY <1>0, <1>6, TaskStep DEF SaveAccount, ChainInv, Shape, history
<1>7. CASE Decide(f)
  BY <1>0, <1>7, TaskStep DEF Decide, db, ChainInv, Shape, history
<1>8. CASE \E p \in Followers : Defer(f, p)
  BY <1>0, <1>8, TaskStep DEF Defer, db, ChainInv, Shape, history
<1>9. CASE Promote(f)
  <2>1. Shape' BY <1>9 DEF ChainInv, Shape, Promote, db
  <2>2. PrimaryInv' BY <1>0, <1>9 DEF ChainInv, Shape, PrimaryInv, Promote, db
  <2>3. ASSUME NEW g \in Followers \ promoted' PROVE FollowerInv(g)'
    <3>1. g \in Followers \ promoted /\ g # f /\ g \in Nodes
      BY <1>9, <2>3 DEF Promote, Nodes
    <3>2. FollowerInv(g) BY <3>1 DEF ChainInv
    <3>3. at'[g] = at[g] BY <1>9, <3>1 DEF Promote, ChainInv, Shape
    <3> QED BY <1>9, <3>2, <3>3 DEF FollowerInv, Holds, Sequencing, Applying, Promote, db
  <2> QED BY <2>1, <2>2, <2>3 DEF ChainInv
<1>10. CASE FetchBlock(f)
  <2>1. Shape' BY <1>10 DEF ChainInv, Shape, FetchBlock, db, history
  <2>2. PrimaryInv' BY <1>0, <1>10
    DEF ChainInv, Shape, PrimaryInv, FetchBlock, db, history
  <2>3. ASSUME NEW g \in Followers \ promoted' PROVE FollowerInv(g)'
    <3>1. g \in Followers \ promoted /\ g \in Nodes
      BY <1>10, <2>3 DEF FetchBlock, Nodes, history
    <3>2. FollowerInv(g) BY <3>1 DEF ChainInv
    <3>3. CASE g = f
      BY <1>0, <1>10, <3>2, <3>3
      DEF FollowerInv, Holds, Sequencing, Applying, FetchBlock, db, ChainInv, Shape, history
    <3>4. CASE g # f
      <4>1. at'[g] = at[g] /\ block'[g] = block[g]
        BY <1>10, <3>1, <3>4 DEF FetchBlock, ChainInv, Shape, history
      <4> QED BY <1>10, <3>2, <4>1
              DEF FollowerInv, Holds, Sequencing, Applying, FetchBlock, db, history
    <3> QED BY <3>3, <3>4
  <2> QED BY <2>1, <2>2, <2>3 DEF ChainInv
<1>11. CASE FinishBlock(f)
  <2>1. Shape' BY <1>11 DEF ChainInv, Shape, FinishBlock, history
  <2>2. \A m \in Nodes : m # f => blocks'[m] = blocks[m] /\ at'[m] = at[m]
    BY <1>11 DEF FinishBlock, ChainInv, Shape, history
  <2>3. PrimaryInv' BY <1>0, <1>11, <2>2
    DEF ChainInv, Shape, PrimaryInv, FinishBlock, history
  <2>4. ASSUME NEW g \in Followers \ promoted' PROVE FollowerInv(g)'
    <3>1. g \in Followers \ promoted /\ g \in Nodes
      BY <1>11, <2>4 DEF FinishBlock, Nodes, history
    <3>2. FollowerInv(g) BY <3>1 DEF ChainInv
    <3>3. CASE g = f
      <4>1. /\ DOMAIN blocks'[f] = DOMAIN blocks[f] \cup {slot[f] + 1}
            /\ blocks'[f][slot[f] + 1] = block[f]
            /\ \A s \in DOMAIN blocks[f] : s # slot[f] + 1 => blocks'[f][s] = blocks[f][s]
            /\ at'[f] = "saved"
        BY <1>0, <1>11 DEF FinishBlock, save_block, ChainInv, Shape, history
      <4>2. blocks'[Primary] = blocks[Primary] BY <1>0, <2>2
      <4>3. slot[f] \in Nat BY <1>0 DEF ChainInv, Shape
      <4>4. \A s \in 0 .. slot[f] : s # slot[f] + 1 BY <4>3
      <4>5. slot' = slot /\ block' = block /\ at[f] = "apply"
        BY <1>11 DEF FinishBlock
      <4>6. Holds(f, slot[f] + 1)'
        BY <3>2, <3>3, <4>1, <4>2, <4>5 DEF FollowerInv, Holds, Applying
      <4>7. \A s \in 0 .. slot[f] : Holds(f, s)'
        BY <3>2, <3>3, <4>1, <4>2, <4>4 DEF FollowerInv, Holds
      <4> QED BY <3>2, <3>3, <4>1, <4>2, <4>5, <4>6, <4>7
              DEF FollowerInv, Sequencing, Applying
    <3>4. CASE g # f
      BY <1>0, <1>11, <2>2, <3>1, <3>2, <3>4
      DEF FollowerInv, Holds, Sequencing, Applying, FinishBlock, history
    <3> QED BY <3>3, <3>4
  <2> QED BY <2>1, <2>3, <2>4 DEF ChainInv
<1>12. CASE AdvanceSlot(f)
  <2>0. slot' \in [Nodes -> Nat]
    <3>1. slot[f] + 1 \in Nat /\ slot \in [Nodes -> Nat] BY <1>0 DEF ChainInv, Shape
    <3>2. slot' = [slot EXCEPT ![f] = slot[f] + 1] BY <1>12 DEF AdvanceSlot, history
    <3> QED BY <3>1, <3>2
  <2>1. Shape' BY <1>12, <2>0 DEF ChainInv, Shape, AdvanceSlot, history
  <2>2. PrimaryInv' BY <1>0, <1>12 DEF ChainInv, Shape, PrimaryInv, AdvanceSlot, history
  <2>3. ASSUME NEW g \in Followers \ promoted' PROVE FollowerInv(g)'
    <3>1. g \in Followers \ promoted /\ g \in Nodes
      BY <1>12, <2>3 DEF AdvanceSlot, Nodes, history
    <3>2. FollowerInv(g) BY <3>1 DEF ChainInv
    <3>3. CASE g = f
      <4>1. slot'[f] = slot[f] + 1 /\ at'[f] = "sync" /\ slot[f] \in Nat
        BY <1>0, <1>12 DEF AdvanceSlot, ChainInv, Shape, history
      <4>2. \A s \in 0 .. slot'[f] : s \in 0 .. slot[f] \/ s = slot[f] + 1
        BY <4>1
      <4>3. \A s \in 0 .. slot'[f] : Holds(f, s)
        BY <1>12, <3>2, <3>3, <4>2 DEF FollowerInv, AdvanceSlot, history
      <4> QED BY <1>12, <3>3, <4>1, <4>3
              DEF FollowerInv, Holds, Sequencing, Applying, AdvanceSlot, history
    <3>4. CASE g # f
      <4>1. at'[g] = at[g] /\ slot'[g] = slot[g]
        BY <1>12, <3>1, <3>4 DEF AdvanceSlot, ChainInv, Shape, history
      <4> QED BY <1>12, <3>2, <4>1
              DEF FollowerInv, Holds, Sequencing, Applying, AdvanceSlot, history
    <3> QED BY <3>3, <3>4
  <2> QED BY <2>1, <2>2, <2>3 DEF ChainInv
<1> QED
  BY <1>1, <1>2, <1>3, <1>4, <1>5, <1>6, <1>7, <1>8, <1>9, <1>10, <1>11, <1>12 DEF Follow

\* Faults keep it.
LEMMA FaultStep ==
  ASSUME ChainInv, ReplicationAssumption,
         \/ \E n \in Nodes : Crash(n) \/ Restart(n)
         \/ \E n \in Nodes, a \in Accounts : Airdrop(n, a)
         \/ \E f \in Followers : CallFails(f) \/ \E p \in Followers : NoAnswer(f, p)
  PROVE  ChainInv'
<1>0. Primary \in Nodes /\ Followers \subseteq Nodes /\ Primary \notin Followers
  BY DEF Nodes, ReplicationAssumption
<1>1. ASSUME NEW n \in Nodes, Crash(n) PROVE ChainInv'
  BY <1>0, <1>1, TaskStep DEF Crash, db, ChainInv, Shape
<1>2. ASSUME NEW n \in Nodes, Restart(n) PROVE ChainInv'
  BY <1>0, <1>2, TaskStep DEF Restart, Configured, db, ChainInv, Shape
<1>3. ASSUME NEW n \in Nodes, NEW a \in Accounts, Airdrop(n, a) PROVE ChainInv'
  BY <1>3, TaskStep DEF Airdrop, task, ChainInv, Shape
<1>4. ASSUME NEW f \in Followers, CallFails(f) PROVE ChainInv'
  BY <1>0, <1>4, TaskStep DEF CallFails, Missed, db, ChainInv, Shape
<1>5. ASSUME NEW f \in Followers, NEW p \in Followers, NoAnswer(f, p) PROVE ChainInv'
  BY <1>5, TaskStep DEF NoAnswer, db, ChainInv, Shape
<1> QED BY <1>1, <1>2, <1>3, <1>4, <1>5

\* The invariant is more than the property.
LEMMA ChainInvSuffices ==
  ASSUME ChainInv, ReplicationAssumption PROVE ReplicaHoldsPrimaryChain
<1> SUFFICES ASSUME NEW f \in Followers \ promoted
    PROVE /\ slot[f] <= slot[Primary]
          /\ \A s \in 0 .. slot[f] : Holds(f, s)
  BY DEF ReplicaHoldsPrimaryChain, Holds
<1>1. f \in Nodes /\ Primary \in Nodes BY DEF Nodes
<1>2. slot[f] \in Nat /\ slot[Primary] \in Nat BY <1>1 DEF ChainInv, Shape
<1>3. \A s \in 0 .. slot[f] : Holds(f, s) BY DEF ChainInv, FollowerInv
<1>4. Holds(f, slot[f]) BY <1>2, <1>3
<1>5. slot[f] <= slot[Primary] BY <1>4 DEF ChainInv, PrimaryInv, Holds
<1> QED BY <1>3, <1>5

LEMMA ChainStep == ChainInv /\ [Next]_vars => ChainInv'
<1> USE ReplicationAssumption
<1> SUFFICES ASSUME ChainInv, [Next]_vars PROVE ChainInv' OBVIOUS
<1>1. CASE UNCHANGED vars
  BY <1>1, TaskStep DEF vars, db, task, ChainInv, Shape, history
<1>2. ASSUME NEW n \in Nodes, Produce(n) PROVE ChainInv' BY <1>2, ProduceStep
<1>3. ASSUME NEW f \in Followers, Follow(f) PROVE ChainInv' BY <1>3, FollowStep
<1> QED BY <1>1, <1>2, <1>3, FaultStep DEF Next

\* The blocks a replica holds up to its slot are the primary's, without a hole,
\* whatever crashes, is lost or is dropped on the way (follower.rs sync_once and
\* apply_block against block_producer.rs run).
THEOREM ReplicaChain == Spec => []ReplicaHoldsPrimaryChain
<1>1. Init => ChainInv BY ChainInit, ReplicationAssumption
<1>2. ChainInv => ReplicaHoldsPrimaryChain BY ChainInvSuffices, ReplicationAssumption
<1> QED BY <1>1, <1>2, ChainStep, PTL DEF Spec

-----------------------------------------------------------------------------
(***************************************************************************)
(* Running instructions.  Reaches says that they all run from b and lead   *)
(* to e: q passes through the accounts between them.                       *)
(***************************************************************************)
Passes(q, b, is, e) ==
  /\ q[0] = b /\ q[Len(is)] = e
  /\ \A k \in 1 .. Len(is) : CanRun(q[k - 1], is[k]) /\ q[k] = Effect(q[k - 1], is[k])

Reaches(b, is, e) == \E q : Passes(q, b, is, e)

\* The recursion Apply is defined by, up to n instructions.
Overlay(h, b, is, n) ==
  h = [k \in 0 .. n |->
        IF k = 0 THEN [ok |-> TRUE, bal |-> b]
        ELSE IF h[k - 1].ok /\ CanRun(h[k - 1].bal, is[k])
        THEN [ok |-> TRUE, bal |-> Effect(h[k - 1].bal, is[k])]
        ELSE [ok |-> FALSE, bal |-> h[k - 1].bal]]

LEMMA OverlayExists ==
  ASSUME NEW b, NEW is, NEW n \in Nat
  PROVE  \E h : Overlay(h, b, is, n)
<1> DEFINE V(r, i) == IF r.ok /\ CanRun(r.bal, i)
                      THEN [ok |-> TRUE, bal |-> Effect(r.bal, i)]
                      ELSE [ok |-> FALSE, bal |-> r.bal]
           R(h, m) == h = [k \in 0 .. m |-> IF k = 0 THEN [ok |-> TRUE, bal |-> b]
                                            ELSE V(h[k - 1], is[k])]
           P == {k \in Nat : \E h : R(h, k)}
<1>0. \A h, m : R(h, m) <=> Overlay(h, b, is, m)
  BY DEF Overlay
<1> HIDE DEF V
<1>1. ASSUME NEW k \in Nat, \A j \in 0 .. k - 1 : j \in P
      PROVE  k \in P
  <2>1. CASE k = 0
    <3>1. R([i \in 0 .. k |-> [ok |-> TRUE, bal |-> b]], k)
      BY <2>1
    <3> QED BY <3>1
  <2>2. CASE k # 0
    <3>1. PICK g : R(g, k - 1)
      <4>1. k - 1 \in 0 .. k - 1
        BY <2>2
      <4> QED BY <1>1, <4>1
    <3> DEFINE h == [i \in 0 .. k |-> IF i = 0 THEN [ok |-> TRUE, bal |-> b]
                                      ELSE IF i < k THEN g[i] ELSE V(g[i - 1], is[i])]
    <3>2. ASSUME NEW i \in 0 .. k
          PROVE  h[i] = IF i = 0 THEN [ok |-> TRUE, bal |-> b] ELSE V(h[i - 1], is[i])
      <4>1. \A j \in 0 .. k - 1 : g[j] = IF j = 0 THEN [ok |-> TRUE, bal |-> b]
                                         ELSE V(g[j - 1], is[j])
        BY <3>1
      <4>2. i # 0 => i - 1 \in 0 .. k /\ i - 1 \in 0 .. k - 1 /\ i - 1 < k
        OBVIOUS
      <4>3. i # 0 => h[i - 1] = g[i - 1]
        BY <4>1, <4>2
      <4>4. i < k => i \in 0 .. k - 1
        OBVIOUS
      <4> QED BY <4>1, <4>3, <4>4
    <3>3. h = [i \in 0 .. k |-> h[i]]
      OBVIOUS
    <3> HIDE DEF h
    <3>4. R(h, k)
      BY <3>2, <3>3, Zenon
    <3> QED BY <3>4
  <2> QED BY <2>1, <2>2
<1> HIDE DEF P
<1>2. Nat \subseteq P
  BY <1>1, NatInductionSet
<1>3. \E h : R(h, n)
  BY <1>2 DEF P
<1> QED BY <1>0, <1>3

\* A transaction that succeeds has run all its instructions.
LEMMA ApplyReaches ==
  ASSUME NEW b, NEW is \in Seq(Instruction), Apply(b, is).ok
  PROVE  Reaches(b, is, Apply(b, is).bal)
<1> DEFINE n == Len(is)
           h == CHOOSE g : Overlay(g, b, is, n)
           q == [k \in 0 .. n |-> h[k].bal]
<1>0. n \in Nat
  OBVIOUS
<1>1. Overlay(h, b, is, n)
  BY <1>0, OverlayExists
<1>2. Apply(b, is) = h[n]
  BY DEF Apply, Overlay
<1> HIDE DEF h
<1>3. h[0] = [ok |-> TRUE, bal |-> b]
  BY <1>0, <1>1 DEF Overlay
<1>4. ASSUME NEW k \in 1 .. n, h[k].ok
      PROVE  h[k - 1].ok /\ CanRun(h[k - 1].bal, is[k]) /\ h[k].bal = Effect(h[k - 1].bal, is[k])
  <2>1. k \in 0 .. n /\ k # 0
    BY <1>0
  <2>2. h[k] = IF h[k - 1].ok /\ CanRun(h[k - 1].bal, is[k])
               THEN [ok |-> TRUE, bal |-> Effect(h[k - 1].bal, is[k])]
               ELSE [ok |-> FALSE, bal |-> h[k - 1].bal]
    BY <1>1, <2>1 DEF Overlay
  <2> QED BY <1>4, <2>2
<1>5. \A k \in 0 .. n : h[k].ok
  <2> DEFINE P == {j \in Nat : j \in 0 .. n => h[n - j].ok}
  <2>1. ASSUME NEW j \in Nat, \A i \in 0 .. j - 1 : i \in P PROVE j \in P
    <3> SUFFICES ASSUME j \in 0 .. n PROVE h[n - j].ok
      OBVIOUS
    <3>1. CASE j = 0
      <4>1. n - j = n
        BY <1>0, <3>1
      <4> QED BY <1>2, <4>1
    <3>2. CASE j # 0
      <4>1. j - 1 \in 0 .. j - 1 /\ j - 1 \in 0 .. n /\ n - (j - 1) \in 1 .. n
            /\ (n - (j - 1)) - 1 = n - j
        BY <1>0, <3>2
      <4>2. h[n - (j - 1)].ok
        BY <2>1, <4>1
      <4> QED BY <1>4, <4>1, <4>2
    <3> QED BY <3>1, <3>2
  <2> HIDE DEF P
  <2>2. Nat \subseteq P
    BY <2>1, NatInductionSet
  <2> SUFFICES ASSUME NEW k \in 0 .. n PROVE h[k].ok
    OBVIOUS
  <2>3. n - k \in Nat /\ n - k \in 0 .. n /\ n - (n - k) = k
    BY <1>0
  <2> QED BY <2>2, <2>3 DEF P
<1>6. q[0] = b /\ q[n] = Apply(b, is).bal
  BY <1>0, <1>2, <1>3
<1>7. ASSUME NEW k \in 1 .. n
      PROVE  CanRun(q[k - 1], is[k]) /\ q[k] = Effect(q[k - 1], is[k])
  <2>1. k \in 0 .. n /\ k - 1 \in 0 .. n
    BY <1>0
  <2>2. q[k] = h[k].bal /\ q[k - 1] = h[k - 1].bal
    BY <2>1
  <2> QED BY <1>4, <1>5, <2>1, <2>2
<1> HIDE DEF q
<1>8. Passes(q, b, is, Apply(b, is).bal)
  BY <1>6, <1>7 DEF Passes
<1> QED BY <1>8 DEF Reaches

\* Nothing to run leads nowhere else.
LEMMA ReachesNothing == \A b, e : Reaches(b, << >>, e) <=> b = e
<1> SUFFICES ASSUME NEW b, NEW e PROVE Reaches(b, << >>, e) <=> b = e
  OBVIOUS
<1>1. ASSUME b = e PROVE Reaches(b, << >>, e)
  <2>1. Passes([k \in {0} |-> b], b, << >>, e)
    BY <1>1 DEF Passes
  <2> QED BY <2>1 DEF Reaches
<1>2. ASSUME Reaches(b, << >>, e) PROVE b = e
  BY <1>2 DEF Reaches, Passes
<1> QED BY <1>1, <1>2

\* The first instruction runs, and the others from where it leads.
LEMMA ReachesFirst ==
  ASSUME NEW b, NEW is \in Seq(Instruction), is # << >>, NEW e, Reaches(b, is, e)
  PROVE  CanRun(b, Head(is)) /\ Reaches(Effect(b, Head(is)), Tail(is), e)
<1> DEFINE n == Len(is)
           t == Tail(is)
<1>1. /\ n \in Nat /\ n # 0 /\ Head(is) = is[1] /\ Len(t) = n - 1
      /\ \A k \in 1 .. n - 1 : t[k] = is[k + 1]
  OBVIOUS
<1>2. PICK q : Passes(q, b, is, e)
  BY DEF Reaches
<1> DEFINE r == [k \in 0 .. n - 1 |-> q[k + 1]]
<1> HIDE DEF n, t
<1>3. /\ q[0] = b /\ q[n] = e
      /\ \A k \in 1 .. n : CanRun(q[k - 1], is[k]) /\ q[k] = Effect(q[k - 1], is[k])
  BY <1>2 DEF Passes, n
<1>4. CanRun(b, is[1]) /\ q[1] = Effect(b, is[1])
  <2>1. 1 \in 1 .. n /\ 1 - 1 = 0
    BY <1>1
  <2> QED BY <1>3, <2>1
<1>5. r[0] = Effect(b, is[1]) /\ r[n - 1] = e
  <2>1. 0 \in 0 .. n - 1 /\ n - 1 \in 0 .. n - 1 /\ (n - 1) + 1 = n /\ 0 + 1 = 1
    BY <1>1
  <2> QED BY <1>3, <1>4, <2>1
<1>6. ASSUME NEW k \in 1 .. n - 1
      PROVE  CanRun(r[k - 1], t[k]) /\ r[k] = Effect(r[k - 1], t[k])
  <2>1. k - 1 \in 0 .. n - 1 /\ k \in 0 .. n - 1 /\ k + 1 \in 1 .. n /\ (k - 1) + 1 = k
        /\ (k + 1) - 1 = k
    BY <1>1
  <2>2. r[k - 1] = q[k] /\ r[k] = q[k + 1] /\ t[k] = is[k + 1]
    BY <1>1, <2>1
  <2> QED BY <1>3, <2>1, <2>2
<1> HIDE DEF r
<1>7. Passes(r, Effect(b, is[1]), t, e)
  BY <1>1, <1>5, <1>6 DEF Passes
<1> QED BY <1>1, <1>4, <1>7 DEF Reaches, t

\* One run after the other.
LEMMA ReachesBoth ==
  ASSUME NEW b, NEW is \in Seq(Instruction), NEW c, NEW js \in Seq(Instruction), NEW e,
         Reaches(b, is, c), Reaches(c, js, e)
  PROVE  Reaches(b, is \o js, e)
<1> DEFINE n == Len(is)
           m == Len(js)
           w == is \o js
<1>1. /\ n \in Nat /\ m \in Nat /\ Len(w) = n + m
      /\ \A k \in 1 .. n : w[k] = is[k]
      /\ \A k \in 1 .. m : w[n + k] = js[k]
  OBVIOUS
<1>2. PICK q : Passes(q, b, is, c)
  BY DEF Reaches
<1>3. PICK r : Passes(r, c, js, e)
  BY DEF Reaches
<1> DEFINE p == [k \in 0 .. n + m |-> IF k <= n THEN q[k] ELSE r[k - n]]
<1> HIDE DEF n, m, w
<1>4. /\ q[0] = b /\ q[n] = c /\ r[0] = c /\ r[m] = e
      /\ \A k \in 1 .. n : CanRun(q[k - 1], is[k]) /\ q[k] = Effect(q[k - 1], is[k])
      /\ \A k \in 1 .. m : CanRun(r[k - 1], js[k]) /\ r[k] = Effect(r[k - 1], js[k])
  BY <1>2, <1>3 DEF Passes, n, m
<1>5. /\ \A k \in 0 .. n : p[k] = q[k]
      /\ \A k \in 0 .. m : p[n + k] = r[k]
  <2>1. ASSUME NEW k \in 0 .. n PROVE p[k] = q[k]
    BY <1>1
  <2>2. ASSUME NEW k \in 0 .. m PROVE p[n + k] = r[k]
    <3>1. n + k \in 0 .. n + m /\ (n + k <= n => k = 0) /\ (n + k) - n = k /\ n + 0 = n
      BY <1>1
    <3>2. p[n + k] = IF n + k <= n THEN q[n + k] ELSE r[(n + k) - n]
      BY <3>1
    <3>3. CASE k = 0
      BY <1>4, <3>1, <3>2, <3>3
    <3>4. CASE k # 0
      BY <3>1, <3>2, <3>4
    <3> QED BY <3>3, <3>4
  <2> QED BY <2>1, <2>2
<1>6. p[0] = b /\ p[n + m] = e
  <2>1. 0 \in 0 .. n /\ m \in 0 .. m
    BY <1>1
  <2> QED BY <1>4, <1>5, <2>1
<1>7. ASSUME NEW k \in 1 .. n + m
      PROVE  CanRun(p[k - 1], w[k]) /\ p[k] = Effect(p[k - 1], w[k])
  <2>1. CASE k <= n
    <3>1. k \in 1 .. n /\ k - 1 \in 0 .. n /\ k \in 0 .. n
      BY <1>1, <2>1
    <3> QED BY <1>1, <1>4, <1>5, <3>1
  <2>2. CASE n < k
    <3> DEFINE j == k - n
    <3>1. j \in 1 .. m /\ j - 1 \in 0 .. m /\ j \in 0 .. m /\ n + j = k /\ n + (j - 1) = k - 1
      BY <1>1, <2>2
    <3> HIDE DEF j
    <3>2. p[k] = r[j] /\ p[k - 1] = r[j - 1] /\ w[k] = js[j]
      BY <1>1, <1>5, <3>1
    <3> QED BY <1>4, <3>1, <3>2
  <2> QED BY <1>1, <2>1, <2>2
<1> HIDE DEF p
<1>8. Passes(p, b, w, e)
  BY <1>1, <1>6, <1>7 DEF Passes
<1> QED BY <1>8 DEF Reaches, w

\* An instruction that may run keeps the accounts well-typed: nothing is
\* overdrawn.
LEMMA EffectTyped ==
  ASSUME NEW b \in Balances, NEW i \in Instruction, CanRun(b, i)
  PROVE  Effect(b, i) \in Balances
<1>1. CASE i.op = "mint"
  <2>1. i.to \in Accounts /\ i.amount \in Nat
    BY <1>1 DEF Instruction
  <2> QED BY <1>1, <2>1 DEF Effect, Balances
<1>2. CASE i.op = "move"
  <2>1. i.from \in Accounts /\ i.to \in Accounts /\ i.amount \in Nat
    BY <1>2 DEF Instruction
  <2>2. b[i.from] - i.amount \in Nat /\ i.from # i.to
    BY <1>2, <2>1 DEF CanRun, Balances
  <2> QED BY <1>2, <2>1, <2>2 DEF Effect, Balances
<1> QED BY <1>1, <1>2 DEF Instruction

LEMMA ReachesTyped ==
  ASSUME NEW b \in Balances, NEW is \in Seq(Instruction), NEW e, Reaches(b, is, e)
  PROVE  e \in Balances
<1>1. PICK q : Passes(q, b, is, e)
  BY DEF Reaches
<1> DEFINE n == Len(is)
           P == {k \in Nat : k \in 0 .. n => q[k] \in Balances}
<1>2. n \in Nat /\ \A k \in 1 .. n : is[k] \in Instruction
  OBVIOUS
<1>3. ASSUME NEW k \in Nat, \A j \in 0 .. k - 1 : j \in P PROVE k \in P
  <2> SUFFICES ASSUME k \in 0 .. n PROVE q[k] \in Balances
    OBVIOUS
  <2>1. CASE k = 0
    BY <1>1, <2>1 DEF Passes
  <2>2. CASE k # 0
    <3>1. k \in 1 .. n /\ k - 1 \in 0 .. k - 1 /\ k - 1 \in 0 .. n
      BY <1>2, <2>2
    <3>2. q[k - 1] \in Balances
      BY <1>3, <3>1
    <3>3. CanRun(q[k - 1], is[k]) /\ q[k] = Effect(q[k - 1], is[k]) /\ is[k] \in Instruction
      BY <1>1, <1>2, <3>1 DEF Passes
    <3> QED BY <3>2, <3>3, EffectTyped
  <2> QED BY <2>1, <2>2
<1> HIDE DEF P
<1>4. Nat \subseteq P
  BY <1>3, NatInductionSet
<1> QED BY <1>1, <1>2, <1>4 DEF P, Passes

\* What is left of an instruction's saves, done to the accounts.
After(b, ws) ==
  IF ws = << >> THEN b
  ELSE IF Len(ws) = 1 THEN Save(b, ws[1]) ELSE Save(Save(b, ws[1]), ws[2])

\* Saving the accounts an instruction changed one by one does what it does as a
\* whole.
LEMMA SavesAreEffect ==
  ASSUME NEW b \in Balances, NEW i \in Instruction, CanRun(b, i)
  PROVE  /\ Updated(b, i) \in Seq(Accounts \X Nat) /\ Len(Updated(b, i)) <= 2
         /\ After(b, Updated(b, i)) = Effect(b, i)
<1>1. CASE i.op = "mint"
  <2>1. i.to \in Accounts /\ i.amount \in Nat /\ b[i.to] \in Nat
    BY <1>1 DEF Instruction, Balances
  <2>2. Updated(b, i) = << <<i.to, b[i.to] + i.amount>> >>
    BY <1>1 DEF Updated
  <2> QED BY <1>1, <2>1, <2>2 DEF After, Save, Effect, Balances
<1>2. CASE i.op = "move"
  <2>1. /\ i.from \in Accounts /\ i.to \in Accounts /\ i.amount \in Nat
        /\ b[i.from] - i.amount \in Nat /\ i.from # i.to /\ b[i.to] + i.amount \in Nat
    BY <1>2 DEF Instruction, CanRun, Balances
  <2>2. Updated(b, i) = << <<i.from, b[i.from] - i.amount>>, <<i.to, b[i.to] + i.amount>> >>
    BY <1>2 DEF Updated
  <2>3. Updated(b, i) \in Seq(Accounts \X Nat) /\ Len(Updated(b, i)) = 2
    BY <2>1, <2>2
  <2>4. After(b, Updated(b, i)) = [[b EXCEPT ![i.from] = b[i.from] - i.amount]
                                     EXCEPT ![i.to] = b[i.to] + i.amount]
    BY <2>2, <2>3 DEF After, Save
  <2>5. Effect(b, i) = [[b EXCEPT ![i.from] = b[i.from] - i.amount]
                                     EXCEPT ![i.to] = b[i.to] + i.amount]
    BY <1>2, <2>1 DEF Effect, Balances
  <2> QED BY <2>3, <2>4, <2>5
<1> QED BY <1>1, <1>2 DEF Instruction

LEMMA SaveFirst ==
  ASSUME NEW D, NEW b, NEW ws \in Seq(D), ws # << >>, Len(ws) <= 2
  PROVE  /\ After(Save(b, Head(ws)), Tail(ws)) = After(b, ws)
         /\ Len(Tail(ws)) <= 2 /\ Tail(ws) \in Seq(D)
<1> DEFINE n == Len(ws)
           t == Tail(ws)
<1>1. /\ n \in Nat /\ n # 0 /\ Head(ws) = ws[1] /\ t \in Seq(D) /\ Len(t) = n - 1
      /\ \A k \in 1 .. n - 1 : t[k] = ws[k + 1]
  OBVIOUS
<1>2. n <= 2
  OBVIOUS
<1>3. \A x \in Seq(D) : x = << >> <=> Len(x) = 0
  OBVIOUS
<1> HIDE DEF n, t
<1>4. CASE n = 1
  <2>1. t = << >>
    BY <1>1, <1>3, <1>4
  <2>2. After(Save(b, Head(ws)), t) = Save(b, ws[1]) /\ After(b, ws) = Save(b, ws[1])
    BY <1>1, <1>4, <2>1 DEF After, n
  <2> QED BY <1>1, <1>4, <2>2 DEF t
<1>5. CASE n = 2
  <2>0. 1 \in 1 .. n - 1 /\ 1 + 1 = 2 /\ n - 1 = 1
    BY <1>5
  <2>1. t # << >> /\ Len(t) = 1 /\ t[1] = ws[2]
    BY <1>1, <1>3, <2>0
  <2>2. /\ After(Save(b, Head(ws)), t) = Save(Save(b, ws[1]), ws[2])
        /\ After(b, ws) = Save(Save(b, ws[1]), ws[2])
    BY <1>1, <1>5, <2>1 DEF After, n
  <2> QED BY <1>1, <1>5, <2>1, <2>2 DEF t
<1> QED BY <1>1, <1>2, <1>4, <1>5

\* The instructions of a block's transactions.
Code(ts) == FlattenSeq([k \in DOMAIN ts |-> Instrs[ts[k]]])

LEMMA CodeFacts ==
  ASSUME NEW ts \in Seq(Txs)
  PROVE  /\ Code(ts) \in Seq(Instruction) /\ Code(<< >>) = << >>
         /\ \A t \in Txs : Code(Append(ts, t)) = Code(ts) \o Instrs[t]
                           /\ Instrs[t] \in Seq(Instruction)
<1>0. Instrs \in [Txs -> Seq(Instruction)]
  BY ReplicationAssumption
<1>1. Code(<< >>) = << >>
  BY DEF Code, FlattenSeq
<1>2. ASSUME NEW t \in Txs
      PROVE  /\ Code(ts) \in Seq(Instruction) /\ Code(Append(ts, t)) = Code(ts) \o Instrs[t]
             /\ Instrs[t] \in Seq(Instruction)
  <2> DEFINE n == Len(ts)
             T == [k \in DOMAIN ts |-> Instrs[ts[k]]]
             S == [k \in DOMAIN Append(ts, t) |-> Instrs[Append(ts, t)[k]]]
  <2>1. /\ n \in Nat /\ DOMAIN ts = 1 .. n /\ DOMAIN Append(ts, t) = 1 .. n + 1
        /\ \A k \in 1 .. n : ts[k] \in Txs /\ Append(ts, t)[k] = ts[k]
        /\ Append(ts, t)[n + 1] = t
    OBVIOUS
  <2>2. \A k \in 1 .. n + 1 : Append(ts, t)[k] \in Txs
    BY <2>1
  <2>3. /\ T \in [1 .. n -> Seq(Instruction)]
        /\ S \in [1 .. n + 1 -> Seq(Instruction)]
    BY <1>0, <2>1, <2>2
  <2>4. Prefix(T, S, n) /\ S[n + 1] = Instrs[t]
    BY <2>1 DEF Prefix
  <2> HIDE DEF n, T, S
  <2>5. FlattenSeq(S) = FlattenSeq(T) \o S[n + 1] /\ FlattenSeq(T) \in Seq(Instruction)
    BY <2>1, <2>3, <2>4, FlattenLast
  <2> QED BY <1>0, <2>4, <2>5 DEF Code, S, T
<1>3. Code(ts) \in Seq(Instruction)
  <2>1. CASE Txs = {}
    <3>1. ts = << >>
      BY <2>1
    <3>2. << >> \in Seq(Instruction)
      OBVIOUS
    <3> QED BY <1>1, <3>1, <3>2, Zenon
  <2>2. CASE Txs # {}
    BY <1>2, <2>2
  <2> QED BY <2>1, <2>2
<1> QED BY <1>1, <1>2, <1>3

-----------------------------------------------------------------------------
(***************************************************************************)
(* Types.                                                                  *)
(***************************************************************************)
LEMMA FaultTyped ==
  ASSUME TypeOK, NEW k, Fault(k)
  PROVE  /\ faults' \in [Kinds -> Nat] /\ Total' <= MaxFaults /\ k \in Kinds
         /\ \A j \in Kinds : faults'[j] = IF j = k THEN faults[j] + 1 ELSE faults[j]
<1>1. k \in Kinds /\ faults \in [Kinds -> Nat] /\ Total < MaxFaults /\ MaxFaults \in Nat
  BY ReplicationAssumption DEF Fault, TypeOK
<1>2. \A j \in Kinds : faults'[j] = IF j = k THEN faults[j] + 1 ELSE faults[j]
  BY <1>1 DEF Fault
<1>3. faults' \in [Kinds -> Nat]
  BY <1>1 DEF Fault
<1>4. Total' = Total + 1
  BY <1>1, <1>2 DEF Kinds, Total
<1> QED BY <1>1, <1>2, <1>3, <1>4 DEF Total, Kinds

\* The parts of TypeOK.
DbTyped ==
  /\ slot \in [Nodes -> Nat]
  /\ \A n \in Nodes : \A s \in DOMAIN blocks[n] : s \in Nat /\ blocks[n][s] \in Block
  /\ bal \in [Nodes -> Balances]

TaskTyped ==
  /\ at \in [Nodes -> {"poll", "sync", "apply", "saved", "decide", "ask",
                       "produce", "execute", "down"}]
  /\ batch \in [Nodes -> Seq(Txs)] /\ included \in [Nodes -> Seq(Txs)]
  /\ misses \in [Nodes -> 0 .. MaxMisses]
  /\ target \in [Nodes -> Nat]
  /\ block \in [Nodes -> Block]
  /\ todo \in [Nodes -> Seq(Instruction)]
  /\ writes \in [Nodes -> Seq(Accounts \X Nat)]
  /\ ask \in [Nodes -> SUBSET Followers]

HistoryTyped ==
  /\ promoted \subseteq Followers
  /\ faults \in [Kinds -> Nat] /\ Total <= MaxFaults
  /\ reruns \in 0 .. MaxReruns

LEMMA TypeParts == TypeOK <=> DbTyped /\ TaskTyped /\ HistoryTyped
BY DEF TypeOK, DbTyped, TaskTyped, HistoryTyped

LEMMA DbTypeStays ==
  ASSUME DbTyped, UNCHANGED db PROVE DbTyped'
BY DEF DbTyped, db

LEMMA HistoryTypeStays ==
  ASSUME HistoryTyped, UNCHANGED history PROVE HistoryTyped'
BY DEF HistoryTyped, history, Total

LEMMA MissesTyped ==
  ASSUME TaskTyped, NEW f \in Nodes, Missed(f) \/ Synced(f)
  PROVE  misses' \in [Nodes -> 0 .. MaxMisses]
<1>1. MaxMisses \in Nat /\ misses \in [Nodes -> 0 .. MaxMisses]
  BY ReplicationAssumption DEF TaskTyped
<1>2. PICK k \in 0 .. MaxMisses : misses' = [misses EXCEPT ![f] = k]
  <2>1. CASE Synced(f)
    <3>1. 0 \in 0 .. MaxMisses /\ misses' = [misses EXCEPT ![f] = 0]
      BY <1>1, <2>1 DEF Synced
    <3> QED BY <3>1
  <2>2. CASE Missed(f)
    <3>1. (IF misses[f] < MaxMisses THEN misses[f] + 1 ELSE misses[f]) \in 0 .. MaxMisses
      BY <1>1
    <3> QED BY <2>2, <3>1 DEF Missed
  <2> QED BY <2>1, <2>2
<1> QED BY <1>1, <1>2

LEMMA ProduceTypes ==
  ASSUME TypeOK, ChainInv, NEW n \in Nodes, Produce(n)
  PROVE  TypeOK'
<1>0. DbTyped /\ TaskTyped /\ HistoryTyped /\ Shape
  BY TypeParts DEF ChainInv
<1>1. CASE StartBlock(n)
  <2>1. HistoryTyped'
    BY <1>0, <1>1, HistoryTypeStays DEF StartBlock
  <2>2. DbTyped'
    BY <1>0, <1>1 DEF StartBlock, DbTyped
  <2>3. batch' \in [Nodes -> Seq(Txs)]
    <3>1. PICK b \in Batches(n) : batch' = [batch EXCEPT ![n] = b]
      BY <1>1 DEF StartBlock
    <3>2. b \in Seq(Txs)
      BY <3>1 DEF Batches, SeqOf
    <3> QED BY <1>0, <3>1, <3>2 DEF TaskTyped
  <2>4. TaskTyped'
    BY <1>0, <1>1, <2>3 DEF StartBlock, TaskTyped
  <2> QED BY <2>1, <2>2, <2>4, TypeParts, PTL
<1>2. CASE ExecuteTx(n)
  <2>1. HistoryTyped'
    BY <1>0, <1>2, HistoryTypeStays DEF ExecuteTx
  <2>2. /\ Head(batch[n]) \in Txs /\ Tail(batch[n]) \in Seq(Txs)
        /\ Instrs[Head(batch[n])] \in Seq(Instruction)
    <3>1. batch[n] \in Seq(Txs) /\ batch[n] # << >>
      BY <1>0, <1>2 DEF ExecuteTx, TaskTyped
    <3>2. Head(batch[n]) \in Txs /\ Tail(batch[n]) \in Seq(Txs)
      BY <3>1
    <3> QED BY <3>2, ReplicationAssumption
  <2> DEFINE r == Apply(bal[n], Instrs[Head(batch[n])])
  <2>3. r.ok => r.bal \in Balances
    <3>1. bal[n] \in Balances
      BY <1>0 DEF DbTyped
    <3> QED BY <2>2, <3>1, ApplyReaches, ReachesTyped
  <2>4. /\ bal' = IF r.ok THEN [bal EXCEPT ![n] = r.bal] ELSE bal
        /\ included' = IF r.ok THEN [included EXCEPT ![n] = Append(@, Head(batch[n]))]
                       ELSE included
        /\ batch' = [batch EXCEPT ![n] = Tail(@)]
        /\ UNCHANGED <<slot, blocks, at, misses, target, block, todo, writes, ask, history>>
    BY <1>2 DEF ExecuteTx
  <2> HIDE DEF r
  <2>5. DbTyped'
    BY <1>0, <2>3, <2>4 DEF DbTyped
  <2>6. batch' \in [Nodes -> Seq(Txs)] /\ included' \in [Nodes -> Seq(Txs)]
    BY <1>0, <2>2, <2>4 DEF TaskTyped
  <2>7. TaskTyped'
    BY <1>0, <2>4, <2>6 DEF TaskTyped
  <2> QED BY <2>1, <2>5, <2>7, TypeParts, PTL
<1>3. CASE SaveBlock(n)
  <2>1. HistoryTyped'
    BY <1>0, <1>3, HistoryTypeStays DEF SaveBlock
  <2>2. [txs |-> included[n], root |-> bal[n]] \in Block
    BY <1>0 DEF TaskTyped, DbTyped, Block
  <2>3. DbTyped'
    BY <1>0, <1>3, <2>2 DEF SaveBlock, save_block, DbTyped, Shape
  <2>4. TaskTyped'
    BY <1>0, <1>3 DEF SaveBlock, TaskTyped
  <2> QED BY <2>1, <2>3, <2>4, TypeParts, PTL
<1> QED BY <1>1, <1>2, <1>3 DEF Produce

LEMMA FollowTypes ==
  ASSUME TypeOK, ChainInv, NEW f \in Followers, Follow(f)
  PROVE  TypeOK'
<1>0. DbTyped /\ TaskTyped /\ HistoryTyped /\ Shape /\ MaxMisses \in Nat
  BY TypeParts, ReplicationAssumption DEF ChainInv
<1>n. f \in Nodes /\ Primary \in Nodes
  BY DEF Nodes
<1>1. CASE GetSlot(f)
  <2>1. DbTyped' /\ HistoryTyped'
    BY <1>0, <1>1, DbTypeStays, HistoryTypeStays DEF GetSlot
  <2>2. TaskTyped'
    BY <1>0, <1>n, <1>1 DEF GetSlot, TaskTyped, DbTyped
  <2> QED BY <2>1, <2>2, TypeParts, PTL
<1>2. CASE CaughtUp(f) \/ BlockMissing(f)
  <2>1. DbTyped' /\ HistoryTyped'
    BY <1>0, <1>2, DbTypeStays, HistoryTypeStays DEF CaughtUp, BlockMissing
  <2>2. TaskTyped'
    <3>1. misses' \in [Nodes -> 0 .. MaxMisses]
      BY <1>0, <1>n, <1>2, MissesTyped DEF CaughtUp, BlockMissing
    <3> QED BY <1>0, <1>2, <3>1 DEF CaughtUp, BlockMissing, Synced, TaskTyped
  <2> QED BY <2>1, <2>2, TypeParts, PTL
<1>3. CASE FetchBlock(f)
  <2>1. DbTyped' /\ HistoryTyped'
    BY <1>0, <1>3, DbTypeStays, HistoryTypeStays DEF FetchBlock
  <2> DEFINE b == blocks[Primary][slot[f] + 1]
  <2>2. b \in Block
    BY <1>0, <1>n, <1>3 DEF FetchBlock, DbTyped
  <2>3. /\ block' = [block EXCEPT ![f] = b] /\ todo' = [todo EXCEPT ![f] = Code(b.txs)]
        /\ writes' = [writes EXCEPT ![f] = << >>] /\ at' = [at EXCEPT ![f] = "apply"]
        /\ UNCHANGED <<batch, included, misses, target, ask>>
    BY <1>3 DEF FetchBlock, Code
  <2> HIDE DEF b
  <2>4. Code(b.txs) \in Seq(Instruction)
    BY <2>2, CodeFacts DEF Block
  <2>5. << >> \in Seq(Accounts \X Nat)
    OBVIOUS
  <2>6. TaskTyped'
    BY <1>0, <1>n, <2>2, <2>3, <2>4, <2>5 DEF TaskTyped
  <2> QED BY <2>1, <2>6, TypeParts, PTL
<1>4. CASE RunInstr(f)
  <2>1. DbTyped' /\ HistoryTyped'
    BY <1>0, <1>4, DbTypeStays, HistoryTypeStays DEF RunInstr
  <2>2. todo[f] \in Seq(Instruction) /\ todo[f] # << >> /\ bal[f] \in Balances
    BY <1>0, <1>n, <1>4 DEF RunInstr, TaskTyped, DbTyped
  <2>3. Head(todo[f]) \in Instruction /\ Tail(todo[f]) \in Seq(Instruction)
    BY <2>2
  <2>4. Updated(bal[f], Head(todo[f])) \in Seq(Accounts \X Nat)
    BY <1>4, <2>2, <2>3, SavesAreEffect DEF RunInstr
  <2>5. TaskTyped'
    BY <1>0, <1>n, <1>4, <2>3, <2>4 DEF RunInstr, TaskTyped
  <2> QED BY <2>1, <2>5, TypeParts, PTL
<1>5. CASE InstrFails(f)
  <2>1. DbTyped'
    BY <1>0, <1>5, DbTypeStays DEF InstrFails
  <2>2. HistoryTyped'
    BY <1>0, <1>5, ReplicationAssumption DEF InstrFails, HistoryTyped, Total
  <2>3. TaskTyped'
    <3>1. misses' \in [Nodes -> 0 .. MaxMisses]
      BY <1>0, <1>n, <1>5, MissesTyped DEF InstrFails
    <3> QED BY <1>0, <1>5, <3>1 DEF InstrFails, Missed, TaskTyped
  <2> QED BY <2>1, <2>2, <2>3, TypeParts, PTL
<1>6. CASE SaveAccount(f)
  <2>1. HistoryTyped'
    BY <1>0, <1>6, HistoryTypeStays DEF SaveAccount
  <2> DEFINE D == Accounts \X Nat
  <2>2. writes[f] \in Seq(D) /\ writes[f] # << >>
    BY <1>0, <1>n, <1>6 DEF SaveAccount, TaskTyped
  <2> HIDE DEF D
  <2>3. Head(writes[f]) \in D /\ Tail(writes[f]) \in Seq(D)
    BY <2>2
  <2> USE DEF D
  <2>4. Save(bal[f], Head(writes[f])) \in Balances
    BY <1>0, <1>n, <2>3 DEF Save, Balances, DbTyped
  <2>5. DbTyped'
    BY <1>0, <1>6, <2>4 DEF SaveAccount, DbTyped
  <2>6. TaskTyped'
    BY <1>0, <1>n, <1>6, <2>3 DEF SaveAccount, TaskTyped
  <2> QED BY <2>1, <2>5, <2>6, TypeParts, PTL
<1>7. CASE FinishBlock(f)
  <2>1. HistoryTyped'
    BY <1>0, <1>7, HistoryTypeStays DEF FinishBlock
  <2>2. block[f] \in Block /\ slot[f] + 1 \in Nat
    BY <1>0, <1>n DEF TaskTyped, DbTyped
  <2>3. DbTyped'
    BY <1>0, <1>n, <1>7, <2>2 DEF FinishBlock, save_block, DbTyped, Shape
  <2>4. TaskTyped'
    BY <1>0, <1>7 DEF FinishBlock, TaskTyped
  <2> QED BY <2>1, <2>3, <2>4, TypeParts, PTL
<1>8. CASE AdvanceSlot(f)
  <2>1. HistoryTyped'
    BY <1>0, <1>8, HistoryTypeStays DEF AdvanceSlot
  <2>2. DbTyped'
    BY <1>0, <1>n, <1>8 DEF AdvanceSlot, DbTyped
  <2>3. TaskTyped'
    BY <1>0, <1>8 DEF AdvanceSlot, TaskTyped
  <2> QED BY <2>1, <2>2, <2>3, TypeParts, PTL
<1>9. CASE Decide(f)
  <2>1. DbTyped' /\ HistoryTyped'
    BY <1>0, <1>9, DbTypeStays, HistoryTypeStays DEF Decide
  <2>2. TaskTyped'
    BY <1>0, <1>9, ReplicationAssumption DEF Decide, TaskTyped
  <2> QED BY <2>1, <2>2, TypeParts, PTL
<1>10. ASSUME NEW p \in Followers, Defer(f, p) PROVE TypeOK'
  <2>1. DbTyped' /\ HistoryTyped'
    BY <1>0, <1>10, DbTypeStays, HistoryTypeStays DEF Defer
  <2>2. TaskTyped'
    BY <1>0, <1>10 DEF Defer, TaskTyped
  <2> QED BY <2>1, <2>2, TypeParts, PTL
<1>11. CASE Promote(f)
  <2>1. DbTyped'
    BY <1>0, <1>11, DbTypeStays DEF Promote
  <2>2. HistoryTyped'
    BY <1>0, <1>11 DEF Promote, HistoryTyped, Total
  <2>3. TaskTyped'
    BY <1>0, <1>11 DEF Promote, TaskTyped
  <2> QED BY <2>1, <2>2, <2>3, TypeParts, PTL
<1> QED BY <1>1, <1>2, <1>3, <1>4, <1>5, <1>6, <1>7, <1>8, <1>9, <1>10, <1>11 DEF Follow

LEMMA FaultTypes ==
  ASSUME TypeOK, ChainInv,
         \/ \E n \in Nodes : Crash(n) \/ Restart(n)
         \/ \E n \in Nodes, a \in Accounts : Airdrop(n, a)
         \/ \E f \in Followers : CallFails(f) \/ \E p \in Followers : NoAnswer(f, p)
  PROVE  TypeOK'
<1>0. DbTyped /\ TaskTyped /\ HistoryTyped /\ Shape /\ MaxMisses \in Nat
  BY TypeParts, ReplicationAssumption DEF ChainInv
<1>f. ASSUME NEW k, Fault(k), UNCHANGED <<promoted, reruns>> PROVE HistoryTyped'
  BY <1>0, <1>f, FaultTyped DEF HistoryTyped
<1>1. ASSUME NEW n \in Nodes, Crash(n) PROVE TypeOK'
  <2>1. DbTyped' /\ HistoryTyped'
    BY <1>0, <1>1, <1>f, DbTypeStays DEF Crash
  <2>2. TaskTyped'
    BY <1>0, <1>1 DEF Crash, TaskTyped
  <2> QED BY <2>1, <2>2, TypeParts, PTL
<1>2. ASSUME NEW n \in Nodes, Restart(n) PROVE TypeOK'
  <2>1. DbTyped' /\ HistoryTyped'
    BY <1>0, <1>2, <1>f, DbTypeStays DEF Restart
  <2>2. misses' \in [Nodes -> 0 .. MaxMisses]
    <3>1. 0 \in 0 .. MaxMisses
      BY <1>0
    <3> QED BY <1>0, <1>2, <3>1 DEF Restart, TaskTyped
  <2>3. TaskTyped'
    BY <1>0, <1>2, <2>2 DEF Restart, Configured, TaskTyped
  <2> QED BY <2>1, <2>3, TypeParts, PTL
<1>3. ASSUME NEW n \in Nodes, NEW a \in Accounts, Airdrop(n, a) PROVE TypeOK'
  <2>1. HistoryTyped' /\ TaskTyped'
    BY <1>0, <1>3, <1>f DEF Airdrop, task, TaskTyped
  <2>2. [bal[n] EXCEPT ![a] = @ + 1] \in Balances
    BY <1>0 DEF DbTyped, Balances
  <2>3. DbTyped'
    BY <1>0, <1>3, <2>2 DEF Airdrop, DbTyped
  <2> QED BY <2>1, <2>3, TypeParts, PTL
<1>4. ASSUME NEW f \in Followers, CallFails(f) PROVE TypeOK'
  <2>0. f \in Nodes
    BY DEF Nodes
  <2>1. DbTyped'
    BY <1>0, <1>4, DbTypeStays DEF CallFails
  <2>2. HistoryTyped'
    <3>1. CASE UNCHANGED faults
      BY <1>0, <1>4, <3>1 DEF CallFails, HistoryTyped, Total
    <3>2. CASE Fault("drop")
      BY <1>4, <1>f, <3>2 DEF CallFails
    <3> QED BY <1>4, <3>1, <3>2 DEF CallFails
  <2>3. TaskTyped'
    <3>1. misses' \in [Nodes -> 0 .. MaxMisses]
      BY <1>0, <1>4, <2>0, MissesTyped DEF CallFails
    <3> QED BY <1>0, <1>4, <3>1 DEF CallFails, Missed, TaskTyped
  <2> QED BY <2>1, <2>2, <2>3, TypeParts, PTL
<1>5. ASSUME NEW f \in Followers, NEW p \in Followers, NoAnswer(f, p) PROVE TypeOK'
  <2>1. DbTyped'
    BY <1>0, <1>5, DbTypeStays DEF NoAnswer
  <2>2. HistoryTyped'
    <3>1. CASE UNCHANGED faults
      BY <1>0, <1>5, <3>1 DEF NoAnswer, HistoryTyped, Total
    <3>2. CASE Fault("drop")
      BY <1>5, <1>f, <3>2 DEF NoAnswer
    <3> QED BY <1>5, <3>1, <3>2 DEF NoAnswer
  <2>3. TaskTyped'
    BY <1>0, <1>5 DEF NoAnswer, TaskTyped
  <2> QED BY <2>1, <2>2, <2>3, TypeParts, PTL
<1> QED BY <1>1, <1>2, <1>3, <1>4, <1>5

LEMMA TypeInit == Init => TypeOK
<1> SUFFICES ASSUME Init PROVE TypeOK
  OBVIOUS
<1> USE ReplicationAssumption
<1>1. Genesis \in Block /\ Genesis.root \in Balances
  BY DEF Genesis, Block, Balances
<1>2. DbTyped
  BY <1>1 DEF Init, DbTyped
<1>3. << >> \in Seq(Txs) /\ << >> \in Seq(Instruction) /\ << >> \in Seq(Accounts \X Nat)
      /\ 0 \in 0 .. MaxMisses
  OBVIOUS
<1>4. TaskTyped
  BY <1>1, <1>3 DEF Init, TaskTyped, Configured
<1>5. HistoryTyped
  BY DEF Init, HistoryTyped, Total, Kinds
<1> QED BY <1>2, <1>4, <1>5, TypeParts

LEMMA CoreStep == TypeOK /\ ChainInv /\ [Next]_vars => TypeOK' /\ ChainInv'
<1> SUFFICES ASSUME TypeOK, ChainInv, [Next]_vars PROVE TypeOK'
  BY ChainStep
<1>1. CASE UNCHANGED vars
  BY <1>1 DEF vars, db, task, history, TypeOK, Total
<1> QED BY <1>1, ProduceTypes, FollowTypes, FaultTypes DEF Next

LEMMA CoreHolds == Spec => [](TypeOK /\ ChainInv)
<1>1. Init => ChainInv BY ChainInit, ReplicationAssumption
<1> QED BY <1>1, TypeInit, CoreStep, PTL DEF Spec

\* The databases and tasks stay well-typed through every fault: no account is ever
\* overdrawn, by the primary's batches or by a replica re-running its blocks.
THEOREM ReplicaTypes == Spec => []TypeOK
BY CoreHolds, PTL

-----------------------------------------------------------------------------
(***************************************************************************)
(* The accounts follow the blocks.  Every block of the primary leads from  *)
(* the root before it to its own; a replica stands at a root or on the way *)
(* to the root of the block it applies.  This holds of a node that died    *)
(* within a block as long as it stays dead, and says nothing once accounts *)
(* changed outside blocks.                                                 *)
(***************************************************************************)
Sound == faults.airdrop = 0 /\ (faults.torn = 0 \/ faults.restart = 0)

Whole(n) == Up(n) \/ faults.torn = 0

RootsFollow ==
  \A s \in DOMAIN blocks[Primary] : s # 0 =>
    /\ s - 1 \in DOMAIN blocks[Primary]
    /\ Reaches(blocks[Primary][s - 1].root, Code(blocks[Primary][s].txs), blocks[Primary][s].root)

LastSaved == IF at[Primary] = "execute" THEN slot[Primary] - 1 ELSE slot[Primary]

PrimaryRuns ==
  /\ LastSaved \in DOMAIN blocks[Primary]
  /\ at[Primary] # "execute" => bal[Primary] = blocks[Primary][LastSaved].root
  /\ at[Primary] = "execute" =>
       Reaches(blocks[Primary][LastSaved].root, Code(included[Primary]), bal[Primary])

FollowerRuns(f) ==
  /\ ~Applying(f) => bal[f] = blocks[f][slot[f]].root
  /\ at[f] = "apply" =>
       Len(writes[f]) <= 2 /\ Reaches(After(bal[f], writes[f]), todo[f], block[f].root)
  /\ at[f] = "saved" => bal[f] = block[f].root

PrimaryPart == RootsFollow /\ (Whole(Primary) => PrimaryRuns)

RootInv ==
  Sound => PrimaryPart /\ \A f \in Followers \ promoted : Whole(f) => FollowerRuns(f)

\* What a step leaves of node n.
Same(n) ==
  /\ at'[n] = at[n] /\ slot'[n] = slot[n] /\ blocks'[n] = blocks[n] /\ bal'[n] = bal[n]
  /\ included'[n] = included[n] /\ block'[n] = block[n] /\ todo'[n] = todo[n]
  /\ writes'[n] = writes[n] /\ misses'[n] = misses[n] /\ ask'[n] = ask[n]

ActsOn(n) ==
  \/ n \in Nodes /\ (Produce(n) \/ Crash(n) \/ Restart(n) \/ \E a \in Accounts : Airdrop(n, a))
  \/ n \in Followers /\ (Follow(n) \/ CallFails(n) \/ \E p \in Followers : NoAnswer(n, p))

\* Every step is a step of one node and leaves the others as they were.
LEMMA OneActs ==
  ASSUME TypeOK, ChainInv, NEW n, ActsOn(n), NEW m \in Nodes, m # n
  PROVE  Same(m)
<1>0. /\ slot \in [Nodes -> Nat] /\ bal \in [Nodes -> Balances]
      /\ at \in [Nodes -> {"poll", "sync", "apply", "saved", "decide", "ask",
                           "produce", "execute", "down"}]
      /\ batch \in [Nodes -> Seq(Txs)] /\ included \in [Nodes -> Seq(Txs)]
      /\ misses \in [Nodes -> 0 .. MaxMisses]
      /\ target \in [Nodes -> Nat] /\ block \in [Nodes -> Block]
      /\ todo \in [Nodes -> Seq(Instruction)]
      /\ writes \in [Nodes -> Seq(Accounts \X Nat)]
      /\ ask \in [Nodes -> SUBSET Followers]
      /\ blocks = [k \in Nodes |-> blocks[k]]
  BY DEF TypeOK, ChainInv, Shape
<1>1. ASSUME Produce(n) PROVE Same(m)
  BY <1>0, <1>1 DEF Produce, StartBlock, ExecuteTx, SaveBlock, Same
<1>2. ASSUME Crash(n) \/ Restart(n) \/ \E a \in Accounts : Airdrop(n, a) PROVE Same(m)
  BY <1>0, <1>2 DEF Crash, Restart, Airdrop, Same, db, task
<1>3. ASSUME Follow(n) PROVE Same(m)
  BY <1>0, <1>3
     DEF Follow, GetSlot, CaughtUp, FetchBlock, BlockMissing, RunInstr, InstrFails,
         SaveAccount, FinishBlock, AdvanceSlot, Decide, Promote, Defer, Synced, Missed, Same, db
<1>4. ASSUME CallFails(n) \/ \E p \in Followers : NoAnswer(n, p) PROVE Same(m)
  BY <1>0, <1>4 DEF CallFails, NoAnswer, Missed, Same, db
<1> QED BY <1>1, <1>2, <1>3, <1>4 DEF ActsOn

\* Faults are counted and promotions never taken back.
LEMMA FaultsGrow ==
  ASSUME TypeOK, NEW n, ActsOn(n)
  PROVE  /\ \A k \in Kinds : faults[k] \in Nat /\ faults'[k] \in Nat /\ faults[k] <= faults'[k]
         /\ promoted \subseteq promoted' /\ promoted' \subseteq promoted \cup {n}
<1>0. \A k \in Kinds : faults[k] \in Nat
  BY DEF TypeOK
<1>1. promoted \subseteq promoted' /\ promoted' \subseteq promoted \cup {n}
  BY DEF ActsOn, Produce, StartBlock, ExecuteTx, SaveBlock, Crash, Restart, Airdrop, Follow,
         GetSlot, CaughtUp, FetchBlock, BlockMissing, RunInstr, InstrFails, SaveAccount,
         FinishBlock, AdvanceSlot, Decide, Promote, Defer, CallFails, NoAnswer, history
<1>2. faults' = faults \/ \E k : Fault(k)
  BY DEF ActsOn, Produce, StartBlock, ExecuteTx, SaveBlock, Crash, Restart, Airdrop, Follow,
         GetSlot, CaughtUp, FetchBlock, BlockMissing, RunInstr, InstrFails, SaveAccount,
         FinishBlock, AdvanceSlot, Decide, Promote, Defer, CallFails, NoAnswer, history
<1>3. ASSUME NEW k, Fault(k)
      PROVE  \A j \in Kinds : faults'[j] \in Nat /\ faults[j] <= faults'[j]
  BY <1>0, <1>3, FaultTyped
<1> QED BY <1>0, <1>1, <1>2, <1>3

\* A node that is whole after a sound step was whole before it.
LEMMA SoundBefore ==
  ASSUME TypeOK, ChainInv, NEW n, ActsOn(n), Sound'
  PROVE  Sound /\ \A m \in Nodes : Whole(m)' => Whole(m)
<1>1. /\ faults.airdrop \in Nat /\ faults'.airdrop \in Nat /\ faults.airdrop <= faults'.airdrop
      /\ faults.torn \in Nat /\ faults'.torn \in Nat /\ faults.torn <= faults'.torn
      /\ faults.restart \in Nat /\ faults'.restart \in Nat /\ faults.restart <= faults'.restart
  BY FaultsGrow DEF Kinds
<1>2. Sound
  BY <1>1 DEF Sound
<1>3. ASSUME NEW m \in Nodes, Whole(m)' PROVE Whole(m)
  <2>1. CASE faults'.torn = 0
    BY <1>1, <2>1 DEF Whole
  <2>2. CASE faults'.torn # 0
    <3>1. Up(m)' /\ faults'.restart = 0
      BY <1>1, <1>3, <2>2 DEF Whole, Sound
    <3>2. m # n => Up(m)
      BY <3>1, OneActs DEF Same, Up
    <3>3. ~Restart(n)
      BY <1>1, <3>1, FaultTyped DEF Restart, Kinds
    <3>4. m = n => Up(m)
      BY <3>3 DEF ActsOn, Produce, StartBlock, ExecuteTx, SaveBlock, Crash, Airdrop, Follow,
         GetSlot, CaughtUp, FetchBlock, BlockMissing, RunInstr, InstrFails, SaveAccount,
         FinishBlock, AdvanceSlot, Decide, Promote, Defer, CallFails, NoAnswer, Up
    <3> QED BY <3>2, <3>4 DEF Whole
  <2> QED BY <2>1, <2>2
<1> QED BY <1>2, <1>3

\* The primary's own steps.
LEMMA PrimaryRoots ==
  ASSUME TypeOK, ChainInv, Sound, Sound', PrimaryPart, ActsOn(Primary),
         Whole(Primary)' => Whole(Primary)
  PROVE  PrimaryPart'
<1>0. Primary \in Nodes /\ Primary \notin Followers
  BY ReplicationAssumption DEF Nodes
<1>t. /\ slot \in [Nodes -> Nat] /\ bal \in [Nodes -> Balances] /\ included \in [Nodes -> Seq(Txs)]
      /\ at = [n \in Nodes |-> at[n]] /\ blocks = [n \in Nodes |-> blocks[n]]
      /\ slot[Primary] \in Nat
      /\ \A s \in DOMAIN blocks[Primary] : s \in Nat /\ s <= slot[Primary]
      /\ included[Primary] \in Seq(Txs)
  BY <1>0 DEF TypeOK, ChainInv, Shape, PrimaryInv
<1>1. CASE StartBlock(Primary)
  <2>1. /\ at[Primary] = "produce" /\ at'[Primary] = "execute" /\ slot'[Primary] = slot[Primary] + 1
        /\ included'[Primary] = << >> /\ blocks' = blocks /\ bal' = bal
    BY <1>0, <1>1, <1>t DEF StartBlock
  <2>2. PrimaryRuns
    BY <2>1 DEF PrimaryPart, Whole, Up
  <2>3. LastSaved' = LastSaved /\ LastSaved = slot[Primary]
    BY <1>t, <2>1 DEF LastSaved
  <2>4. Reaches(blocks[Primary][LastSaved].root, Code(<< >>), bal[Primary])
    BY <1>t, <2>1, <2>2, CodeFacts, ReachesNothing DEF PrimaryRuns
  <2>5. PrimaryRuns'
    BY <2>1, <2>2, <2>3, <2>4 DEF PrimaryRuns
  <2>6. RootsFollow'
    BY <2>1 DEF PrimaryPart, RootsFollow
  <2> QED BY <2>5, <2>6 DEF PrimaryPart
<1>2. CASE ExecuteTx(Primary)
  <2> DEFINE t == Head(batch[Primary])
             r == Apply(bal[Primary], Instrs[t])
  <2>1. /\ at[Primary] = "execute" /\ at' = at /\ slot' = slot /\ blocks' = blocks
        /\ bal'[Primary] = IF r.ok THEN r.bal ELSE bal[Primary]
        /\ included'[Primary] = IF r.ok THEN Append(included[Primary], t) ELSE included[Primary]
    BY <1>0, <1>2, <1>t DEF ExecuteTx
  <2>2. t \in Txs
    <3>1. batch[Primary] \in Seq(Txs) /\ batch[Primary] # << >>
      BY <1>0, <1>2 DEF ExecuteTx, TypeOK
    <3> QED BY <3>1
  <2>3. PrimaryRuns
    BY <2>1 DEF PrimaryPart, Whole, Up
  <2>4. LastSaved' = LastSaved
    BY <2>1 DEF LastSaved
  <2>5. Reaches(blocks[Primary][LastSaved].root, Code(included[Primary]), bal[Primary])
    BY <2>1, <2>3 DEF PrimaryRuns
  <2>6. ASSUME r.ok
        PROVE  Reaches(blocks[Primary][LastSaved].root, Code(Append(included[Primary], t)), r.bal)
    <3>1. /\ Instrs[t] \in Seq(Instruction) /\ Code(included[Primary]) \in Seq(Instruction)
          /\ Code(Append(included[Primary], t)) = Code(included[Primary]) \o Instrs[t]
      BY <1>t, <2>2, CodeFacts
    <3>2. Reaches(bal[Primary], Instrs[t], r.bal)
      BY <2>6, <3>1, ApplyReaches
    <3>3. Reaches(blocks[Primary][LastSaved].root, Code(included[Primary]) \o Instrs[t], r.bal)
      <4> HIDE DEF r, t
      <4> QED BY <2>5, <3>1, <3>2, ReachesBoth
    <3> QED BY <3>1, <3>3
  <2> HIDE DEF r, t
  <2>7. PrimaryRuns'
    BY <2>1, <2>3, <2>4, <2>5, <2>6 DEF PrimaryRuns
  <2>8. RootsFollow'
    BY <2>1 DEF PrimaryPart, RootsFollow
  <2> QED BY <2>7, <2>8 DEF PrimaryPart
<1>3. CASE SaveBlock(Primary)
  <2> DEFINE k == slot[Primary]
             b == [txs |-> included[Primary], root |-> bal[Primary]]
  <2>1. /\ at[Primary] = "execute" /\ at'[Primary] = "produce" /\ slot' = slot /\ bal' = bal
        /\ DOMAIN blocks'[Primary] = DOMAIN blocks[Primary] \cup {k}
        /\ blocks'[Primary][k] = b
        /\ \A s \in DOMAIN blocks[Primary] : s # k => blocks'[Primary][s] = blocks[Primary][s]
    BY <1>0, <1>3, <1>t DEF SaveBlock, save_block
  <2>2. k \notin DOMAIN blocks[Primary]
    BY <2>1 DEF ChainInv, PrimaryInv
  <2>3. /\ k - 1 \in DOMAIN blocks[Primary] /\ k # 0
        /\ Reaches(blocks[Primary][k - 1].root, Code(included[Primary]), bal[Primary])
    <3>1. PrimaryRuns /\ LastSaved = k - 1
      BY <2>1 DEF PrimaryPart, Whole, Up, LastSaved
    <3>2. /\ k - 1 \in DOMAIN blocks[Primary]
          /\ Reaches(blocks[Primary][k - 1].root, Code(included[Primary]), bal[Primary])
      BY <2>1, <3>1 DEF PrimaryRuns
    <3>3. k - 1 \in Nat
      BY <1>t, <3>2
    <3> QED BY <3>2, <3>3
  <2>4. LastSaved' = k
    BY <2>1 DEF LastSaved
  <2>5. b.txs = included[Primary] /\ b.root = bal[Primary]
    OBVIOUS
  <2> HIDE DEF b, k
  <2>6. PrimaryRuns'
    BY <2>1, <2>4, <2>5 DEF PrimaryRuns
  <2>7. ASSUME NEW s \in DOMAIN blocks'[Primary], s # 0
        PROVE  /\ s - 1 \in DOMAIN blocks'[Primary]
               /\ Reaches(blocks'[Primary][s - 1].root, Code(blocks'[Primary][s].txs),
                          blocks'[Primary][s].root)
    <3>1. CASE s = k
      <4>1. blocks'[Primary][s - 1] = blocks[Primary][s - 1]
        BY <2>1, <2>2, <2>3, <3>1
      <4>2. blocks'[Primary][s] = b
        BY <2>1, <3>1
      <4> QED BY <2>1, <2>3, <2>5, <3>1, <4>1, <4>2
    <3>2. CASE s # k
      <4>1. s \in DOMAIN blocks[Primary] /\ blocks'[Primary][s] = blocks[Primary][s]
        BY <2>1, <2>7, <3>2
      <4>2. /\ s - 1 \in DOMAIN blocks[Primary]
            /\ Reaches(blocks[Primary][s - 1].root, Code(blocks[Primary][s].txs),
                       blocks[Primary][s].root)
        BY <2>7, <4>1 DEF PrimaryPart, RootsFollow
      <4>3. blocks'[Primary][s - 1] = blocks[Primary][s - 1]
        BY <2>1, <2>2, <4>2
      <4> QED BY <2>1, <4>1, <4>2, <4>3
    <3> QED BY <3>1, <3>2
  <2>8. RootsFollow'
    BY <2>7 DEF RootsFollow
  <2> QED BY <2>6, <2>8 DEF PrimaryPart
<1>4. CASE Crash(Primary)
  <2>1. at'[Primary] = "down" /\ UNCHANGED <<slot, blocks, bal, included>>
    BY <1>0, <1>4, <1>t DEF Crash, db
  <2>2. RootsFollow'
    BY <2>1 DEF PrimaryPart, RootsFollow
  <2>3. CASE at[Primary] = "execute"
    <3>1. faults'.torn # 0
      BY <1>4, <2>3, FaultTyped DEF Crash, TypeOK, Kinds
    <3> QED BY <2>1, <2>2, <3>1 DEF PrimaryPart, Whole, Up
  <2>4. CASE at[Primary] # "execute"
    <3>1. PrimaryRuns
      BY <1>4 DEF PrimaryPart, Whole, Crash
    <3>2. PrimaryRuns'
      BY <2>1, <2>4, <3>1 DEF PrimaryRuns, LastSaved
    <3> QED BY <2>2, <3>2 DEF PrimaryPart
  <2> QED BY <2>3, <2>4
<1>5. CASE Restart(Primary)
  <2>1. at[Primary] = "down" /\ at'[Primary] = "produce" /\ UNCHANGED <<slot, blocks, bal, included>>
    BY <1>0, <1>5, <1>t DEF Restart, Configured, db
  <2>2. RootsFollow'
    BY <2>1 DEF PrimaryPart, RootsFollow
  <2>3. PrimaryRuns
    BY <2>1 DEF PrimaryPart, Whole, Up
  <2>4. PrimaryRuns'
    BY <2>1, <2>3 DEF PrimaryRuns, LastSaved
  <2> QED BY <2>2, <2>4 DEF PrimaryPart
<1>6. ASSUME NEW a \in Accounts PROVE ~Airdrop(Primary, a)
  BY FaultTyped DEF Airdrop, Sound, TypeOK, Kinds
<1> QED BY <1>0, <1>1, <1>2, <1>3, <1>4, <1>5, <1>6 DEF ActsOn, Produce

\* The steps of a follower that never promoted.
LEMMA FollowerRoots ==
  ASSUME TypeOK, ChainInv, Sound, Sound', PrimaryPart, NEW f \in Followers, f \notin promoted',
         f \notin promoted, ActsOn(f), Whole(f) => FollowerRuns(f), Whole(f)', Whole(f)
  PROVE  FollowerRuns(f)'
<1>0. Primary \in Nodes /\ f \in Nodes /\ f # Primary /\ FollowerInv(f) /\ FollowerRuns(f)
  BY ReplicationAssumption DEF Nodes, ChainInv
<1>t. /\ slot \in [Nodes -> Nat] /\ bal \in [Nodes -> Balances]
      /\ at = [n \in Nodes |-> at[n]] /\ blocks = [n \in Nodes |-> blocks[n]]
      /\ block = [n \in Nodes |-> block[n]]
      /\ todo \in [Nodes -> Seq(Instruction)] /\ writes \in [Nodes -> Seq(Accounts \X Nat)]
      /\ slot[f] \in Nat /\ bal[f] \in Balances /\ todo[f] \in Seq(Instruction)
  BY <1>0 DEF TypeOK, ChainInv, Shape
<1>1. ~Produce(f) /\ ~Promote(f) /\ ~\E a \in Accounts : Airdrop(f, a)
  <2>1. ~Produce(f)
    BY <1>0 DEF FollowerInv, Sequencing, Produce, StartBlock, ExecuteTx, SaveBlock
  <2>2. ~Promote(f)
    BY DEF Promote
  <2>3. ~\E a \in Accounts : Airdrop(f, a)
    BY FaultTyped DEF Airdrop, Sound, TypeOK, Kinds
  <2> QED BY <2>1, <2>2, <2>3
<1>2. ASSUME ~Applying(f), at'[f] \notin {"apply", "saved"}, UNCHANGED db
      PROVE  FollowerRuns(f)'
  BY <1>0, <1>2 DEF FollowerRuns, Applying, db
<1>3. CASE GetSlot(f) \/ CaughtUp(f) \/ BlockMissing(f) \/ Decide(f)
           \/ (\E p \in Followers : Defer(f, p) \/ NoAnswer(f, p)) \/ CallFails(f) \/ Restart(f)
  BY <1>0, <1>2, <1>3, <1>t
     DEF GetSlot, CaughtUp, BlockMissing, Decide, Defer, NoAnswer, CallFails, Restart, Synced,
         Missed, Configured, Applying, db
<1>4. CASE Crash(f)
  <2>1. CASE Applying(f)
    <3>1. faults'.torn # 0 /\ at'[f] = "down"
      <4>1. Fault("torn") /\ at' = [at EXCEPT ![f] = "down"]
        BY <1>4, <2>1 DEF Crash
      <4>2. faults'.torn = faults.torn + 1 /\ faults.torn \in Nat
        BY <4>1, FaultTyped DEF TypeOK, Kinds
      <4> QED BY <1>0, <1>t, <4>1, <4>2
    <3> QED BY <3>1 DEF Whole, Up
  <2>2. CASE ~Applying(f)
    BY <1>0, <1>2, <1>4, <1>t, <2>2 DEF Crash
  <2> QED BY <2>1, <2>2
<1>5. CASE FetchBlock(f)
  <2> DEFINE k == slot[f]
             b == blocks[Primary][k + 1]
  <2>1. /\ at[f] = "sync" /\ at'[f] = "apply" /\ bal' = bal /\ writes'[f] = << >>
        /\ todo'[f] = Code(b.txs) /\ block'[f] = b /\ k + 1 \in DOMAIN blocks[Primary]
    BY <1>0, <1>5, <1>t DEF FetchBlock, db, Code
  <2>2. bal[f] = blocks[Primary][k].root
    <3>1. Holds(f, k)
      BY <1>0, <1>t DEF FollowerInv
    <3>2. bal[f] = blocks[f][k].root
      BY <1>0, <2>1 DEF FollowerRuns, Applying
    <3> QED BY <3>1, <3>2 DEF Holds
  <2>3. Reaches(blocks[Primary][k].root, Code(b.txs), b.root)
    <3>1. k + 1 # 0 /\ (k + 1) - 1 = k
      BY <1>t
    <3> QED BY <2>1, <3>1 DEF PrimaryPart, RootsFollow
  <2>4. After(bal[f], << >>) = bal[f] /\ Len(<< >>) <= 2
    BY DEF After
  <2> HIDE DEF b, k
  <2> QED BY <2>1, <2>2, <2>3, <2>4 DEF FollowerRuns, Applying
<1>6. ASSUME at[f] = "apply", writes[f] = << >>, todo[f] # << >>
      PROVE  /\ CanRun(bal[f], Head(todo[f]))
             /\ Reaches(Effect(bal[f], Head(todo[f])), Tail(todo[f]), block[f].root)
  <2>1. Reaches(bal[f], todo[f], block[f].root)
    BY <1>0, <1>6 DEF FollowerRuns, After
  <2> QED BY <1>6, <1>t, <2>1, ReachesFirst
<1>7. CASE RunInstr(f)
  <2> DEFINE u == Updated(bal[f], Head(todo[f]))
  <2>1. /\ at[f] = "apply" /\ at'[f] = "apply" /\ writes'[f] = u /\ todo'[f] = Tail(todo[f])
        /\ bal' = bal /\ block' = block /\ writes[f] = << >> /\ todo[f] # << >>
    BY <1>0, <1>7, <1>t DEF RunInstr, db
  <2>2. Head(todo[f]) \in Instruction
    BY <1>t, <2>1
  <2>3. Len(u) <= 2 /\ After(bal[f], u) = Effect(bal[f], Head(todo[f]))
    <3> DEFINE b == bal[f]
               i == Head(todo[f])
    <3>1. b \in Balances /\ i \in Instruction /\ CanRun(b, i)
      BY <1>6, <1>t, <2>1, <2>2
    <3> HIDE DEF b, i
    <3>2. Len(Updated(b, i)) <= 2 /\ After(b, Updated(b, i)) = Effect(b, i)
      BY <3>1, SavesAreEffect, Zenon
    <3> QED BY <3>2, Zenon DEF b, i
  <2> HIDE DEF u
  <2> QED BY <1>6, <2>1, <2>3 DEF FollowerRuns, Applying
<1>8. ~InstrFails(f)
  BY <1>6 DEF InstrFails
<1>9. CASE SaveAccount(f)
  <2> DEFINE w == writes[f]
  <2>1. /\ at[f] = "apply" /\ at'[f] = "apply" /\ bal'[f] = Save(bal[f], Head(w))
        /\ writes'[f] = Tail(w) /\ todo' = todo /\ block' = block /\ w # << >>
    BY <1>0, <1>9, <1>t DEF SaveAccount
  <2>2. w \in Seq(Accounts \X Nat) /\ Len(w) <= 2
        /\ Reaches(After(bal[f], w), todo[f], block[f].root)
    BY <1>0, <1>t, <2>1 DEF FollowerRuns
  <2> HIDE DEF w
  <2>3. After(Save(bal[f], Head(w)), Tail(w)) = After(bal[f], w) /\ Len(Tail(w)) <= 2
    BY <2>1, <2>2, SaveFirst
  <2> QED BY <2>1, <2>2, <2>3 DEF FollowerRuns, Applying
<1>10. CASE FinishBlock(f)
  <2>1. /\ at[f] = "apply" /\ at'[f] = "saved" /\ bal' = bal /\ block' = block
        /\ writes[f] = << >> /\ todo[f] = << >>
    BY <1>0, <1>10, <1>t DEF FinishBlock
  <2>2. Reaches(bal[f], << >>, block[f].root)
    BY <1>0, <2>1 DEF FollowerRuns, After
  <2>3. bal[f] = block[f].root
    BY <2>2, ReachesNothing
  <2> QED BY <2>1, <2>3 DEF FollowerRuns, Applying
<1>11. CASE AdvanceSlot(f)
  <2>1. /\ at[f] = "saved" /\ at'[f] = "sync" /\ bal' = bal /\ blocks' = blocks
        /\ slot'[f] = slot[f] + 1
    BY <1>0, <1>11, <1>t DEF AdvanceSlot
  <2>2. bal[f] = block[f].root /\ blocks[f][slot[f] + 1] = block[f]
    BY <1>0, <2>1 DEF FollowerRuns, FollowerInv, Applying, Holds
  <2> QED BY <2>1, <2>2 DEF FollowerRuns, Applying
<1> QED BY <1>1, <1>3, <1>4, <1>5, <1>7, <1>8, <1>9, <1>10, <1>11 DEF ActsOn, Follow

LEMMA RootStep == TypeOK /\ ChainInv /\ RootInv /\ [Next]_vars => RootInv'
<1> SUFFICES ASSUME TypeOK, ChainInv, RootInv, [Next]_vars PROVE RootInv'
  OBVIOUS
<1>1. CASE UNCHANGED vars
  BY <1>1 DEF vars, db, task, history, RootInv, Sound, PrimaryPart, RootsFollow, Whole, Up,
              PrimaryRuns, LastSaved, FollowerRuns, Applying
<1>2. ASSUME NEW n, ActsOn(n), Sound' PROVE PrimaryPart' /\ \A f \in Followers \ promoted' :
                                                            Whole(f)' => FollowerRuns(f)'
  <2>0. /\ Sound /\ PrimaryPart /\ \A m \in Nodes : Whole(m)' => Whole(m)
        /\ Primary \in Nodes /\ Followers \subseteq Nodes /\ promoted \subseteq promoted'
        /\ \A f \in Followers \ promoted : Whole(f) => FollowerRuns(f)
    BY <1>2, SoundBefore, FaultsGrow DEF RootInv, Nodes
  <2>1. CASE n = Primary
    <3>1. PrimaryPart'
      BY <1>2, <2>0, <2>1, PrimaryRoots
    <3>2. ASSUME NEW f \in Followers \ promoted', Whole(f)' PROVE FollowerRuns(f)'
      <4>1. FollowerRuns(f)
        BY <2>0, <3>2
      <4>2. Same(f)
        BY <1>2, <2>0, <2>1, OneActs, ReplicationAssumption
      <4> QED BY <4>1, <4>2 DEF FollowerRuns, Applying, Same
    <3> QED BY <3>1, <3>2
  <2>2. CASE n # Primary
    <3>1. PrimaryPart'
      <4>1. Same(Primary)
        BY <1>2, <2>0, <2>2, OneActs
      <4>2. Whole(Primary)' => Whole(Primary)
        BY <2>0
      <4> QED BY <2>0, <4>1, <4>2 DEF PrimaryPart, RootsFollow, PrimaryRuns, LastSaved, Same
    <3>2. ASSUME NEW f \in Followers \ promoted', Whole(f)' PROVE FollowerRuns(f)'
      <4>1. FollowerRuns(f) /\ Whole(f) /\ f \in Nodes /\ f \notin promoted
        BY <2>0, <3>2
      <4>2. CASE f = n
        BY <1>2, <2>0, <3>2, <4>1, <4>2, FollowerRoots
      <4>3. CASE f # n
        <5>1. Same(f)
          BY <1>2, <4>1, <4>3, OneActs
        <5> QED BY <4>1, <5>1 DEF FollowerRuns, Applying, Same
      <4> QED BY <4>2, <4>3
    <3> QED BY <3>1, <3>2
  <2> QED BY <2>1, <2>2
<1>3. Next => \E n : ActsOn(n)
  BY DEF Next, ActsOn
<1> QED BY <1>1, <1>2, <1>3 DEF RootInv

LEMMA RootInit == Init => RootInv
<1> SUFFICES ASSUME Init PROVE PrimaryPart /\ \A f \in Followers : FollowerRuns(f)
  BY DEF RootInv
<1>1. Primary \in Nodes /\ Primary \notin Followers /\ Followers \subseteq Nodes
  BY ReplicationAssumption DEF Nodes
<1>2. PrimaryPart
  BY <1>1 DEF Init, PrimaryPart, RootsFollow, PrimaryRuns, LastSaved, Configured
<1>3. \A f \in Followers : FollowerRuns(f)
  BY <1>1 DEF Init, FollowerRuns, Configured, Applying
<1> QED BY <1>2, <1>3

LEMMA RootHolds == Spec => []RootInv
BY RootInit, RootStep, CoreHolds, PTL DEF Spec

\* Between two blocks a replica's accounts are those the state root of its last
\* block commits to, for any instructions, however often polls fail and nodes die
\* between blocks: saving account by account what the primary saved as a whole
\* arrives at the same root, and no instruction of a block ever fails.
THEOREM ReplicaRoots == Spec => []ReplicaMatchesRoot
<1>1. TypeOK /\ RootInv => ReplicaMatchesRoot
  <2> SUFFICES ASSUME TypeOK, RootInv, faults.airdrop + faults.torn = 0,
                      NEW f \in Followers \ promoted, Up(f), ~Applying(f)
               PROVE  bal[f] = blocks[f][slot[f]].root
    BY DEF ReplicaMatchesRoot
  <2>1. faults.airdrop \in Nat /\ faults.torn \in Nat
    BY DEF TypeOK, Kinds
  <2>2. Sound /\ Whole(f)
    BY <2>1 DEF Sound, Whole
  <2> QED BY <2>2 DEF RootInv, FollowerRuns
<1> QED BY <1>1, RootHolds, CoreHolds, PTL

-----------------------------------------------------------------------------
(***************************************************************************)
(* Priority failover.  As long as the dead stay dead and no call between   *)
(* live nodes is lost, a miss means that the primary is dead, a standby    *)
(* that was asked and did not answer is dead, and both for ever.           *)
(***************************************************************************)

\* follower.rs, wins_election: "With each standby configured to defer to all
\* higher-priority peers".
AllRanked == \A f, g \in Followers : f # g => f \in Higher[g] \/ g \in Higher[f]

Quiet == faults.restart + faults.drop + faults.airdrop = 0

StandbyInv(f) ==
  /\ f \in promoted => at[f] \in {"produce", "execute", "down"}
  /\ Up(f) /\ (misses[f] > 0 \/ at[f] = "ask" \/ f \in promoted) => ~Up(Primary)
  /\ at[f] = "ask" => \A p \in Higher[f] \ ask[f] : ~Up(p)
  /\ f \in promoted => \A p \in Higher[f] : ~Up(p)

FailoverInv == Quiet => \A f \in Followers : StandbyInv(f)

\* The dead stay dead.
LEMMA QuietStep ==
  ASSUME TypeOK, ChainInv, NEW n, ActsOn(n), Quiet'
  PROVE  /\ Quiet /\ Sound /\ ~Restart(n) /\ ~Fault("drop")
         /\ \A m \in Nodes : ~Up(m) => ~Up(m)'
<1>1. \A k \in {"restart", "drop", "airdrop"} :
        faults[k] \in Nat /\ faults'[k] \in Nat /\ faults[k] <= faults'[k]
  BY FaultsGrow DEF Kinds
<1>2. \A k \in {"restart", "drop", "airdrop"} : faults'[k] = 0 /\ faults[k] = 0
  BY <1>1 DEF Quiet
<1>3. \A k \in {"restart", "drop", "airdrop"} : ~Fault(k)
  BY <1>2, FaultTyped DEF Kinds
<1>4. ~Restart(n)
  BY <1>3 DEF Restart
<1>5. Quiet /\ Sound
  BY <1>2 DEF Quiet, Sound
<1>6. ASSUME NEW m \in Nodes, ~Up(m) PROVE ~Up(m)'
  <2>1. CASE m # n
    BY <1>6, <2>1, OneActs DEF Same, Up
  <2>2. CASE m = n
    <3>1. \E a \in Accounts : Airdrop(n, a)
      BY <1>4, <1>6, <2>2
         DEF ActsOn, Produce, StartBlock, ExecuteTx, SaveBlock, Crash, Follow,
             GetSlot, CaughtUp, FetchBlock, BlockMissing, RunInstr, InstrFails, SaveAccount,
             FinishBlock, AdvanceSlot, Decide, Promote, Defer, CallFails, NoAnswer, Up
    <3> QED BY <1>3, <3>1 DEF Airdrop
  <2> QED BY <2>1, <2>2
<1> QED BY <1>3, <1>4, <1>5, <1>6

LEMMA StandbyStep ==
  ASSUME TypeOK, ChainInv, RootInv, NEW n, ActsOn(n), Quiet', NEW f \in Followers, StandbyInv(f)
  PROVE  StandbyInv(f)'
<1>0. /\ f \in Nodes /\ Primary \in Nodes /\ f # Primary /\ Higher[f] \subseteq Nodes
      /\ Higher[f] \subseteq Followers /\ MaxMisses \in Nat \ {0}
  BY ReplicationAssumption DEF Nodes
<1>q. /\ Quiet /\ Sound /\ ~Restart(n) /\ ~Fault("drop")
      /\ \A m \in Nodes : ~Up(m) => ~Up(m)'
  BY QuietStep
<1>t. /\ at = [k \in Nodes |-> at[k]] /\ misses \in [Nodes -> 0 .. MaxMisses]
      /\ ask \in [Nodes -> SUBSET Followers] /\ misses[f] \in Nat
  BY <1>0 DEF ChainInv, Shape, TypeOK
<1>p. promoted \subseteq promoted' /\ promoted' \subseteq promoted \cup {n}
  BY FaultsGrow
<1>1. CASE n # f
  <2>1. at'[f] = at[f] /\ misses'[f] = misses[f] /\ ask'[f] = ask[f]
    BY <1>0, <1>1, OneActs DEF Same
  <2>2. f \in promoted' <=> f \in promoted
    BY <1>1, <1>p
  <2> QED BY <1>0, <1>q, <2>1, <2>2 DEF StandbyInv, Up
<1>2. CASE n = f
  <2>1. ASSUME f \notin promoted, f \notin promoted', at'[f] # "ask",
               misses'[f] = misses[f] \/ misses'[f] = 0 \/ ~Up(Primary) \/ at'[f] = "down",
               at[f] # "down"
        PROVE  StandbyInv(f)'
    BY <1>0, <1>q, <1>t, <2>1 DEF StandbyInv, Up
  <2>2. CASE Produce(f)
    <3>1. /\ f \in promoted /\ f \in promoted' /\ at[f] # "down"
          /\ at'[f] \in {"produce", "execute"}
      <4>1. f \in promoted
        BY <2>2 DEF ChainInv, FollowerInv, Sequencing, Produce, StartBlock, ExecuteTx, SaveBlock
      <4>2. at[f] # "down" /\ at'[f] \in {"produce", "execute"}
        BY <1>0, <1>t, <2>2 DEF Produce, StartBlock, ExecuteTx, SaveBlock
      <4> QED BY <1>p, <4>1, <4>2
    <3> QED BY <1>0, <1>q, <3>1 DEF StandbyInv, Up
  <2>3. CASE Crash(f)
    <3>1. at'[f] = "down" /\ promoted' = promoted
      BY <1>0, <1>t, <2>3 DEF Crash
    <3> QED BY <1>0, <1>q, <3>1 DEF StandbyInv, Up
  <2>4. ~\E a \in Accounts : Airdrop(f, a)
    <3>1. ~Fault("airdrop")
      <4>1. \A k \in {"restart", "drop", "airdrop"} : faults'[k] \in Nat /\ faults[k] \in Nat
        BY <1>2, FaultsGrow DEF Kinds
      <4>2. faults'.airdrop = 0
        BY <4>1 DEF Quiet
      <4> QED BY <4>1, <4>2, FaultTyped DEF Kinds
    <3> QED BY <3>1 DEF Airdrop
  <2>5. CASE Promote(f)
    <3>1. at[f] = "ask" /\ ask[f] = {} /\ at'[f] = "produce" /\ f \in promoted'
      BY <1>0, <1>t, <2>5 DEF Promote
    <3>2. ~Up(Primary) /\ \A p \in Higher[f] : ~Up(p)
      BY <3>1 DEF StandbyInv, Up
    <3> QED BY <1>0, <1>q, <3>1, <3>2 DEF StandbyInv, Up
  <2>u. ASSUME at[f] \notin {"produce", "execute", "down"} PROVE f \notin promoted
    BY <2>u DEF StandbyInv
  <2>6. CASE GetSlot(f) \/ CaughtUp(f) \/ BlockMissing(f) \/ FetchBlock(f) \/ RunInstr(f)
             \/ SaveAccount(f) \/ FinishBlock(f) \/ AdvanceSlot(f)
             \/ \E p \in Followers : Defer(f, p)
    <3>1. /\ at[f] \notin {"produce", "execute", "down"} /\ at'[f] # "ask"
          /\ (misses'[f] = misses[f] \/ misses'[f] = 0) /\ promoted' = promoted
      BY <1>0, <1>t, <2>6
         DEF GetSlot, CaughtUp, BlockMissing, FetchBlock, RunInstr, SaveAccount, FinishBlock,
             AdvanceSlot, Defer, Synced, history
    <3> QED BY <1>p, <2>1, <2>6, <2>u, <3>1
            DEF GetSlot, CaughtUp, BlockMissing, FetchBlock, RunInstr, SaveAccount, FinishBlock,
                AdvanceSlot, Defer, Synced, history
  <2>7. CASE CallFails(f)
    <3>1. ~Up(Primary)
      BY <1>q, <2>7 DEF CallFails
    <3>2. at[f] \notin {"produce", "execute", "down"} /\ at'[f] = "decide" /\ promoted' = promoted
      BY <1>0, <1>t, <2>7 DEF CallFails, Missed
    <3> QED BY <2>1, <2>u, <3>1, <3>2
  <2>8. ~InstrFails(f)
    <3> SUFFICES ASSUME InstrFails(f) PROVE FALSE
      OBVIOUS
    <3>1. /\ at[f] = "apply" /\ writes[f] = << >> /\ todo[f] # << >>
          /\ ~CanRun(bal[f], Head(todo[f]))
      BY DEF InstrFails
    <3>2. FollowerRuns(f) /\ todo[f] \in Seq(Instruction)
      BY <1>0, <1>q, <2>u, <3>1 DEF RootInv, Whole, Up, TypeOK
    <3>3. Reaches(bal[f], todo[f], block[f].root)
      BY <3>1, <3>2 DEF FollowerRuns, After
    <3> QED BY <3>1, <3>2, <3>3, ReachesFirst
  <2>9. CASE Decide(f)
    <3>1. /\ at[f] = "decide" /\ misses' = misses /\ promoted' = promoted
          /\ at'[f] = IF should_promote(f) THEN "ask" ELSE "poll"
          /\ ask'[f] = Higher[f]
      BY <1>0, <1>t, <2>9 DEF Decide, history
    <3>2. should_promote(f) => misses[f] > 0
      BY <1>0, <1>t DEF should_promote
    <3>3. f \notin promoted
      BY <2>u, <3>1
    <3> QED BY <1>0, <1>q, <3>1, <3>2, <3>3 DEF StandbyInv, Up
  <2>10. ASSUME NEW p \in Followers, NoAnswer(f, p) PROVE StandbyInv(f)'
    <3>1. /\ at[f] = "ask" /\ at'[f] = "ask" /\ ask'[f] = ask[f] \ {p} /\ ~Up(p)
          /\ promoted' = promoted /\ misses' = misses
      BY <1>0, <1>q, <1>t, <2>10 DEF NoAnswer
    <3>2. f \notin promoted
      BY <2>u, <3>1
    <3> QED BY <1>0, <1>q, <3>1, <3>2 DEF StandbyInv, Up
  <2> QED BY <1>q, <1>2, <2>2, <2>3, <2>4, <2>5, <2>6, <2>7, <2>8, <2>9, <2>10 DEF ActsOn, Follow
<1> QED BY <1>1, <1>2

LEMMA FailoverStep ==
  TypeOK /\ ChainInv /\ RootInv /\ FailoverInv /\ [Next]_vars => FailoverInv'
<1> SUFFICES ASSUME TypeOK, ChainInv, RootInv, FailoverInv, [Next]_vars PROVE FailoverInv'
  OBVIOUS
<1>1. CASE UNCHANGED vars
  BY <1>1 DEF vars, db, task, history, FailoverInv, Quiet, StandbyInv, Up
<1>2. ASSUME NEW n, ActsOn(n), Quiet', NEW f \in Followers PROVE StandbyInv(f)'
  <2>1. Quiet
    BY <1>2, QuietStep
  <2>2. StandbyInv(f)
    BY <2>1 DEF FailoverInv
  <2> QED BY <1>2, <2>2, StandbyStep
<1>3. Next => \E n : ActsOn(n)
  BY DEF Next, ActsOn
<1> QED BY <1>1, <1>2, <1>3 DEF FailoverInv

LEMMA FailoverInit == Init => FailoverInv
<1> SUFFICES ASSUME Init, NEW f \in Followers PROVE StandbyInv(f)
  BY DEF FailoverInv
<1>1. f \in Nodes /\ f # Primary
  BY ReplicationAssumption DEF Nodes
<1> QED BY <1>1 DEF Init, StandbyInv, Configured

\* Whatever nodes die at whatever moment, no two nodes sequence, as long as the
\* dead stay dead, no call between live nodes is lost and no account changes
\* outside blocks: for any number of standbys, any two of which are ranked.
THEOREM FailoverSafe == AllRanked /\ Spec => []CrashesLeaveOneSequencer
<1>1. AllRanked /\ TypeOK /\ ChainInv /\ FailoverInv => CrashesLeaveOneSequencer
  <2> SUFFICES ASSUME AllRanked, TypeOK, ChainInv, FailoverInv, Quiet PROVE OneSequencer
    BY DEF CrashesLeaveOneSequencer, Quiet
  <2>1. \A f \in Followers : StandbyInv(f)
    BY DEF FailoverInv
  <2>2. ASSUME NEW f \in Followers, Sequencing(f)
        PROVE  ~Up(Primary) /\ \A p \in Higher[f] : ~Up(p)
    <3>1. f \in promoted
      BY <2>2 DEF ChainInv, FollowerInv
    <3> QED BY <2>1, <2>2, <3>1 DEF StandbyInv, Sequencing, Up
  <2> DEFINE S == {n \in Nodes : Sequencing(n)}
  <2>3. ASSUME NEW m \in S, NEW n \in S PROVE m = n
    <3>0. Up(m) /\ Up(n)
      BY DEF Sequencing, Up
    <3>1. CASE m = Primary \/ n = Primary
      BY <2>2, <3>0, <3>1 DEF Nodes
    <3>2. CASE m \in Followers /\ n \in Followers
      BY <2>2, <3>0, <3>2 DEF AllRanked
    <3> QED BY <3>1, <3>2 DEF Nodes
  <2> HIDE DEF S
  <2>4. Cardinality(S) <= 1
    <3>1. CASE S = {}
      BY <3>1, FS_EmptySet
    <3>2. CASE S # {}
      <4>1. PICK n : S = {n}
        BY <2>3, <3>2
      <4>2. Cardinality(S) = 1
        BY <4>1, FS_Singleton, Zenon
      <4> QED BY <4>2
    <3> QED BY <3>1, <3>2
  <2> QED BY <2>4 DEF OneSequencer, S
<1>2. Spec => []FailoverInv
  BY FailoverInit, FailoverStep, RootHolds, CoreHolds, PTL DEF Spec
<1>3. ASSUME AllRanked PROVE Spec => []CrashesLeaveOneSequencer
  <2>1. TypeOK /\ ChainInv /\ FailoverInv => CrashesLeaveOneSequencer
    BY <1>1, <1>3
  <2> QED BY <1>2, <2>1, CoreHolds, PTL
<1> QED BY <1>3
=============================================================================
