-------------------------- MODULE InductionLemmas --------------------------
(***************************************************************************)
(* Induction in a form the provers can use, and what it says of the sums   *)
(* the other modules are about and of flattened sequences.                 *)
(*                                                                         *)
(* The library states induction for a predicate P(_), which no prover here *)
(* instantiates.  With a set P in its place the principle is first-order:  *)
(* it follows from the library's facts on well-founded relations, and it   *)
(* serves for every predicate, as P == {x \in S : ...}.                    *)
(***************************************************************************)
EXTENDS Integers, FiniteSets, Functions, SequencesExt, FiniteSetTheorems, TLAPS

\* A set of natural numbers that contains every number whose predecessors it
\* contains is all of them.
LEMMA NatInductionSet ==
  ASSUME NEW P, \A n \in Nat : (\A k \in 0 .. n - 1 : k \in P) => n \in P
  PROVE  Nat \subseteq P
<1> DEFINE U == Nat \ P
<1> SUFFICES ASSUME U # {} PROVE FALSE
  OBVIOUS
<1>1. \E x \in U : \A y \in U : <<y, x>> \notin OpToRel(<, Nat)
  <2>1. U \subseteq Nat
    OBVIOUS
  <2> HIDE DEF U
  <2> QED BY <2>1, WFMin, NatLessThanWellFounded
<1>2. PICK x \in U : \A y \in U : <<y, x>> \notin OpToRel(<, Nat)
  BY <1>1
<1>3. \A y \in U : ~ (y < x)
  BY <1>2 DEF OpToRel
<1>4. \A k \in 0 .. x - 1 : k \in P
  BY <1>3
<1> QED BY <1>4

\* A set that contains every subset of the finite set S whose proper subsets it
\* contains, contains all subsets of S.
LEMMA SubsetInduction ==
  ASSUME NEW S, IsFiniteSet(S), NEW P,
         \A A \in SUBSET S : (\A B \in SUBSET A : B # A => B \in P) => A \in P
  PROVE  SUBSET S \subseteq P
<1> DEFINE U == (SUBSET S) \ P
<1> SUFFICES ASSUME U # {} PROVE FALSE
  OBVIOUS
<1>1. \E A \in U : \A B \in U : <<B, A>> \notin StrictSubsetOrdering(S)
  <2>1. U \subseteq FiniteSubsetsOf(S)
    BY FS_FiniteSubsetsOfFinite
  <2> HIDE DEF U
  <2> QED BY <2>1, WFMin, FS_StrictSubsetOrderingWellFounded
<1>2. PICK A \in U : \A B \in U : <<B, A>> \notin StrictSubsetOrdering(S)
  BY <1>1
<1>3. \A B \in SUBSET A : B # A => B \in P
  BY <1>2 DEF StrictSubsetOrdering
<1> QED BY <1>3

-----------------------------------------------------------------------------
(***************************************************************************)
(* SumFunctionOnSet is a recursion over the subsets of a set that takes    *)
(* out a chosen element at a time.  That such a recursion has a solution   *)
(* is proved first; TLA+ only says that it is one if there is any.         *)
(***************************************************************************)
Chosen(s) == CHOOSE x \in s : TRUE

\* h[A] is the sum of f over A, for every subset A of S.
SumsUp(h, f, S) ==
  h = [A \in SUBSET S |-> IF A = {} THEN 0 ELSE f[Chosen(A)] + h[A \ {Chosen(A)}]]

LEMMA ChosenIn == \A s : s # {} => Chosen(s) \in s
BY DEF Chosen

\* Two solutions agree where both are defined.
LEMMA SumsAgree ==
  ASSUME NEW f, NEW S, NEW T, IsFiniteSet(S), NEW g, NEW h,
         SumsUp(g, f, S), SumsUp(h, f, T), NEW C, C \subseteq S, C \subseteq T
  PROVE  g[C] = h[C]
<1> DEFINE P == {A \in SUBSET S : A \subseteq T => g[A] = h[A]}
<1>1. ASSUME NEW A \in SUBSET S, \A B \in SUBSET A : B # A => B \in P
      PROVE  A \in P
  <2> SUFFICES ASSUME A \subseteq T PROVE g[A] = h[A]
    OBVIOUS
  <2>1. CASE A = {}
    BY <2>1 DEF SumsUp
  <2>2. CASE A # {}
    <3>1. g[A \ {Chosen(A)}] = h[A \ {Chosen(A)}]
      BY <1>1, <2>2, ChosenIn
    <3>2. /\ g[A] = f[Chosen(A)] + g[A \ {Chosen(A)}]
          /\ h[A] = f[Chosen(A)] + h[A \ {Chosen(A)}]
      BY <2>2 DEF SumsUp
    <3> QED BY <3>1, <3>2
  <2> QED BY <2>1, <2>2
<1>2. SUBSET S \subseteq P
  <2> HIDE DEF P
  <2> QED BY <1>1, SubsetInduction
<1> QED BY <1>2

LEMMA SumsExist ==
  ASSUME NEW f, NEW S, IsFiniteSet(S)
  PROVE  \E h : SumsUp(h, f, S)
<1> DEFINE P == {A \in SUBSET S : \E h : SumsUp(h, f, A)}
<1>1. ASSUME NEW A \in SUBSET S, \A B \in SUBSET A : B # A => B \in P
      PROVE  A \in P
  <2> DEFINE H(B) == CHOOSE h : SumsUp(h, f, B)
             V(B) == IF B = {} THEN 0
                     ELSE f[Chosen(B)] + H(B \ {Chosen(B)})[B \ {Chosen(B)}]
             g == [B \in SUBSET A |-> V(B)]
  <2>1. \A B \in SUBSET A : B # A => SumsUp(H(B), f, B)
    BY <1>1
  <2>2. ASSUME NEW B \in SUBSET A, B # A PROVE g[B] = H(B)[B]
    <3>1. SumsUp(H(B), f, B)
      BY <2>1, <2>2
    <3> HIDE DEF H
    <3>2. CASE B = {}
      BY <3>1, <3>2 DEF SumsUp
    <3>3. CASE B # {}
      <4> DEFINE C == B \ {Chosen(B)}
      <4>1. C \subseteq B /\ C # A
        BY <2>2
      <4>2. SumsUp(H(C), f, C)
        BY <2>1, <4>1
      <4>3. IsFiniteSet(B)
        BY FS_Subset
      <4>4. H(B)[C] = H(C)[C]
        BY <3>1, <4>1, <4>2, <4>3, SumsAgree
      <4>5. H(B)[B] = f[Chosen(B)] + H(B)[C]
        BY <3>1, <3>3 DEF SumsUp
      <4> QED BY <3>3, <4>4, <4>5
    <3> QED BY <3>2, <3>3
  <2>3. \A B \in SUBSET A : B # {} => B \ {Chosen(B)} \in SUBSET A /\ B \ {Chosen(B)} # A
    BY ChosenIn
  <2> HIDE DEF H
  <2>4. \A B \in SUBSET A : V(B) = IF B = {} THEN 0 ELSE f[Chosen(B)] + g[B \ {Chosen(B)}]
    BY <2>2, <2>3
  <2>5. SumsUp(g, f, A)
    BY <2>4 DEF SumsUp
  <2> QED BY <2>5
<1>2. SUBSET S \subseteq P
  <2> HIDE DEF P
  <2> QED BY <1>1, SubsetInduction
<1> QED BY <1>2

LEMMA SumEquation ==
  ASSUME NEW f, NEW S, IsFiniteSet(S)
  PROVE  SumFunctionOnSet(f, S) =
           IF S = {} THEN 0
           ELSE f[Chosen(S)] + SumFunctionOnSet(f, S \ {Chosen(S)})
<1> DEFINE H(T) == CHOOSE h : SumsUp(h, f, T)
           C == S \ {Chosen(S)}
<1>1. \A T : IsFiniteSet(T) => SumsUp(H(T), f, T) /\ SumFunctionOnSet(f, T) = H(T)[T]
  <2> TAKE T
  <2>1. IsFiniteSet(T) => SumsUp(H(T), f, T)
    BY SumsExist
  <2>2. SumFunctionOnSet(f, T) = H(T)[T]
    BY DEF SumFunctionOnSet, FoldFunctionOnSet, MapThenFoldSet, SumsUp, Chosen
  <2> QED BY <2>1, <2>2
<1> HIDE DEF H
<1>2. CASE S = {}
  BY <1>1, <1>2 DEF SumsUp
<1>3. CASE S # {}
  <2>1. IsFiniteSet(C)
    BY FS_RemoveElement
  <2>2. H(S)[C] = H(C)[C]
    BY <1>1, <2>1, SumsAgree
  <2>3. H(S)[S] = f[Chosen(S)] + H(S)[C]
    BY <1>1, <1>3 DEF SumsUp
  <2> QED BY <1>1, <1>3, <2>1, <2>2, <2>3
<1> QED BY <1>2, <1>3

LEMMA SumEmpty == \A f : SumFunctionOnSet(f, {}) = 0
BY SumEquation, FS_EmptySet

LEMMA SumIsInt ==
  ASSUME NEW S, IsFiniteSet(S), NEW f, \A x \in S : f[x] \in Int
  PROVE  SumFunctionOnSet(f, S) \in Int
<1> DEFINE P == {A \in SUBSET S : SumFunctionOnSet(f, A) \in Int}
<1>1. ASSUME NEW A \in SUBSET S, \A B \in SUBSET A : B # A => B \in P
      PROVE  A \in P
  <2>1. CASE A = {}
    BY <2>1, SumEmpty
  <2>2. CASE A # {}
    <3>1. Chosen(A) \in A /\ IsFiniteSet(A)
      BY <2>2, ChosenIn, FS_Subset
    <3>2. SumFunctionOnSet(f, A \ {Chosen(A)}) \in Int /\ f[Chosen(A)] \in Int
      BY <1>1, <3>1
    <3> QED BY <2>2, <3>1, <3>2, SumEquation
  <2> QED BY <2>1, <2>2
<1>2. SUBSET S \subseteq P
  <2> HIDE DEF P
  <2> QED BY <1>1, SubsetInduction
<1> QED BY <1>2

\* A sum depends on the values that are added and on nothing else.
LEMMA SumSame ==
  ASSUME NEW S, IsFiniteSet(S), NEW f, NEW g, \A x \in S : f[x] = g[x]
  PROVE  SumFunctionOnSet(f, S) = SumFunctionOnSet(g, S)
<1> DEFINE P == {A \in SUBSET S : SumFunctionOnSet(f, A) = SumFunctionOnSet(g, A)}
<1>1. ASSUME NEW A \in SUBSET S, \A B \in SUBSET A : B # A => B \in P
      PROVE  A \in P
  <2>1. CASE A = {}
    BY <2>1, SumEmpty
  <2>2. CASE A # {}
    <3>1. Chosen(A) \in A /\ IsFiniteSet(A)
      BY <2>2, ChosenIn, FS_Subset
    <3>2. /\ SumFunctionOnSet(f, A \ {Chosen(A)}) = SumFunctionOnSet(g, A \ {Chosen(A)})
          /\ f[Chosen(A)] = g[Chosen(A)]
      BY <1>1, <3>1
    <3> QED BY <2>2, <3>1, <3>2, SumEquation
  <2> QED BY <2>1, <2>2
<1>2. SUBSET S \subseteq P
  <2> HIDE DEF P
  <2> QED BY <1>1, SubsetInduction
<1> QED BY <1>2

\* The order does not matter: any element can be the one taken out first.
LEMMA SumTakeOut ==
  ASSUME NEW S, IsFiniteSet(S), NEW f, \A y \in S : f[y] \in Int, NEW x \in S
  PROVE  SumFunctionOnSet(f, S) = f[x] + SumFunctionOnSet(f, S \ {x})
<1> DEFINE Sum(A) == SumFunctionOnSet(f, A)
           P == {A \in SUBSET S : \A z \in A : Sum(A) = f[z] + Sum(A \ {z})}
<1>0. \A A \in SUBSET S : IsFiniteSet(A) /\ Sum(A) \in Int
  <2> TAKE A \in SUBSET S
  <2>1. IsFiniteSet(A)
    BY FS_Subset
  <2> QED BY <2>1, SumIsInt
<1>1. ASSUME NEW A \in SUBSET S, \A B \in SUBSET A : B # A => B \in P
      PROVE  A \in P
  <2> SUFFICES ASSUME NEW z \in A PROVE Sum(A) = f[z] + Sum(A \ {z})
    OBVIOUS
  <2> DEFINE c == Chosen(A)
             C == A \ {c, z}
  <2>1. c \in A
    BY ChosenIn
  <2>2. Sum(A) = f[c] + Sum(A \ {c})
    BY <1>0, SumEquation
  <2>3. CASE c = z
    BY <2>2, <2>3
  <2>4. CASE c # z
    <3>1. Sum(A \ {c}) = f[z] + Sum((A \ {c}) \ {z})
      BY <1>1, <2>1, <2>4
    <3>2. Sum(A \ {z}) = f[c] + Sum((A \ {z}) \ {c})
      BY <1>1, <2>1, <2>4
    <3>3. (A \ {c}) \ {z} = C /\ (A \ {z}) \ {c} = C /\ C \in SUBSET S
      OBVIOUS
    <3>4. f[c] \in Int /\ f[z] \in Int /\ Sum(C) \in Int
      BY <1>0, <2>1
    <3> HIDE DEF Sum, c, C
    <3> QED BY <2>2, <3>1, <3>2, <3>3, <3>4
  <2> QED BY <2>3, <2>4
<1>2. SUBSET S \subseteq P
  <2> HIDE DEF P
  <2> QED BY <1>1, SubsetInduction
<1> QED BY <1>2

\* Changing one value changes the sum by as much.
LEMMA SumUpdate ==
  ASSUME NEW S, IsFiniteSet(S), NEW f \in [S -> Int], NEW x \in S, NEW v \in Int
  PROVE  SumFunction([f EXCEPT ![x] = v]) = SumFunction(f) - f[x] + v
<1> DEFINE g == [f EXCEPT ![x] = v]
<1>1. g \in [S -> Int] /\ g[x] = v /\ \A y \in S \ {x} : g[y] = f[y]
  OBVIOUS
<1> HIDE DEF g
<1>2. IsFiniteSet(S \ {x})
  BY FS_RemoveElement
<1>3. SumFunctionOnSet(g, S \ {x}) = SumFunctionOnSet(f, S \ {x})
  BY <1>1, <1>2, SumSame
<1>4. SumFunctionOnSet(f, S) = f[x] + SumFunctionOnSet(f, S \ {x})
  BY SumTakeOut
<1>5. SumFunctionOnSet(g, S) = v + SumFunctionOnSet(g, S \ {x})
  BY <1>1, SumTakeOut
<1>6. SumFunctionOnSet(f, S \ {x}) \in Int
  BY <1>2, SumIsInt
<1>7. SumFunction(f) = SumFunctionOnSet(f, S) /\ SumFunction(g) = SumFunctionOnSet(g, S)
  BY <1>1 DEF SumFunction
<1>8. SumFunction(g) = SumFunction(f) - f[x] + v
  BY <1>3, <1>4, <1>5, <1>6, <1>7
<1> QED BY <1>8 DEF g

\* A sum of natural numbers is one, and none of them exceeds it.
LEMMA SumOfNats ==
  ASSUME NEW S, IsFiniteSet(S), NEW f \in [S -> Nat]
  PROVE  /\ SumFunction(f) \in Nat
         /\ \A x \in S : f[x] <= SumFunction(f)
<1> DEFINE P == {A \in SUBSET S : SumFunctionOnSet(f, A) \in Nat}
<1>1. ASSUME NEW A \in SUBSET S, \A B \in SUBSET A : B # A => B \in P
      PROVE  A \in P
  <2>1. CASE A = {}
    BY <2>1, SumEmpty
  <2>2. CASE A # {}
    <3>1. Chosen(A) \in A /\ IsFiniteSet(A)
      BY <2>2, ChosenIn, FS_Subset
    <3>2. SumFunctionOnSet(f, A \ {Chosen(A)}) \in Nat /\ f[Chosen(A)] \in Nat
      BY <1>1, <3>1
    <3> QED BY <2>2, <3>1, <3>2, SumEquation
  <2> QED BY <2>1, <2>2
<1>2. \A A \in SUBSET S : SumFunctionOnSet(f, A) \in Nat
  <2>1. SUBSET S \subseteq P
    <3> HIDE DEF P
    <3> QED BY <1>1, SubsetInduction
  <2> QED BY <2>1
<1>3. SumFunction(f) = SumFunctionOnSet(f, S)
  BY DEF SumFunction
<1>4. ASSUME NEW x \in S PROVE f[x] <= SumFunction(f)
  <2>1. SumFunctionOnSet(f, S) = f[x] + SumFunctionOnSet(f, S \ {x})
    BY SumTakeOut
  <2>2. SumFunctionOnSet(f, S \ {x}) \in Nat /\ f[x] \in Nat
    BY <1>2
  <2> QED BY <1>3, <2>1, <2>2
<1> QED BY <1>2, <1>3, <1>4

LEMMA SumOfZeros ==
  ASSUME NEW S, IsFiniteSet(S), NEW f, DOMAIN f = S, \A x \in S : f[x] = 0
  PROVE  SumFunction(f) = 0
<1> DEFINE P == {A \in SUBSET S : SumFunctionOnSet(f, A) = 0}
<1>1. ASSUME NEW A \in SUBSET S, \A B \in SUBSET A : B # A => B \in P
      PROVE  A \in P
  <2>1. CASE A = {}
    BY <2>1, SumEmpty
  <2>2. CASE A # {}
    <3>1. Chosen(A) \in A /\ IsFiniteSet(A)
      BY <2>2, ChosenIn, FS_Subset
    <3>2. SumFunctionOnSet(f, A \ {Chosen(A)}) = 0 /\ f[Chosen(A)] = 0
      BY <1>1, <3>1
    <3> QED BY <2>2, <3>1, <3>2, SumEquation
  <2> QED BY <2>1, <2>2
<1>2. SUBSET S \subseteq P
  <2> HIDE DEF P
  <2> QED BY <1>1, SubsetInduction
<1> QED BY <1>2 DEF SumFunction

\* The sums of two functions that differ in one place, and in two.
LEMMA SumOneChange ==
  ASSUME NEW S, IsFiniteSet(S), NEW f \in [S -> Int], NEW g \in [S -> Int], NEW x \in S,
         \A z \in S \ {x} : g[z] = f[z]
  PROVE  SumFunction(g) = SumFunction(f) - f[x] + g[x]
<1>1. g = [f EXCEPT ![x] = g[x]]
  OBVIOUS
<1>2. g[x] \in Int
  OBVIOUS
<1> QED BY <1>1, <1>2, SumUpdate

LEMMA SumTwoChanges ==
  ASSUME NEW S, IsFiniteSet(S), NEW f \in [S -> Int], NEW g \in [S -> Int],
         NEW x \in S, NEW y \in S, x # y,
         \A z \in S \ {x, y} : g[z] = f[z]
  PROVE  SumFunction(g) = SumFunction(f) - f[x] - f[y] + g[x] + g[y]
<1> DEFINE h == [f EXCEPT ![x] = g[x]]
<1>1. h \in [S -> Int] /\ h[x] = g[x] /\ \A z \in S \ {x} : h[z] = f[z]
  OBVIOUS
<1> HIDE DEF h
<1>2. SumFunction(h) = SumFunction(f) - f[x] + h[x]
  BY <1>1, SumOneChange
<1>3. SumFunction(g) = SumFunction(h) - h[y] + g[y]
  BY <1>1, SumOneChange
<1>4. SumFunction(f) \in Int
  BY SumIsInt DEF SumFunction
<1>5. h[y] = f[y] /\ f[x] \in Int /\ f[y] \in Int /\ g[x] \in Int /\ g[y] \in Int
  BY <1>1
<1> QED BY <1>1, <1>2, <1>3, <1>4, <1>5

\* Two values together do not exceed the sum either.
LEMMA SumOfNatsTwo ==
  ASSUME NEW S, IsFiniteSet(S), NEW f \in [S -> Nat], NEW x \in S, NEW y \in S, x # y
  PROVE  f[x] + f[y] <= SumFunction(f)
<1> DEFINE h == [f EXCEPT ![x] = 0]
<1>1. /\ h \in [S -> Nat] /\ h \in [S -> Int] /\ f \in [S -> Int]
      /\ h[x] = 0 /\ \A z \in S \ {x} : h[z] = f[z]
  OBVIOUS
<1> HIDE DEF h
<1>2. SumFunction(h) = SumFunction(f) - f[x] + h[x]
  BY <1>1, SumOneChange
<1>3. h[y] <= SumFunction(h)
  BY <1>1, SumOfNats
<1>4. SumFunction(f) \in Nat /\ SumFunction(h) \in Nat
  BY <1>1, SumOfNats
<1>5. f[x] \in Nat /\ f[y] \in Nat
  OBVIOUS
<1> QED BY <1>1, <1>2, <1>3, <1>4, <1>5

-----------------------------------------------------------------------------
(***************************************************************************)
(* Division rounds down.                                                   *)
(***************************************************************************)
LEMMA DivBounds ==
  ASSUME NEW a \in Nat, NEW b \in Nat \ {0}
  PROVE  /\ a \div b \in Nat
         /\ b * (a \div b) <= a /\ a < b * (a \div b) + b
OBVIOUS

-----------------------------------------------------------------------------
(***************************************************************************)
(* FlattenSeq, by induction on the number of sequences.                    *)
(***************************************************************************)
Flattens(h, S, n) == h = [i \in 1 .. n |-> IF i = 1 THEN S[i] ELSE h[i - 1] \o S[i]]

LEMMA FlattensExists ==
  ASSUME NEW S, NEW n \in Nat
  PROVE  \E h : Flattens(h, S, n)
<1> DEFINE P == {k \in Nat : \E h : Flattens(h, S, k)}
<1>1. ASSUME NEW k \in Nat, \A j \in 0 .. k - 1 : j \in P
      PROVE  k \in P
  <2>1. CASE k = 0
    <3>1. Flattens([i \in 1 .. k |-> S[i]], S, k)
      BY <2>1 DEF Flattens
    <3> QED BY <3>1
  <2>2. CASE k # 0
    <3>1. PICK g : Flattens(g, S, k - 1)
      <4>1. k - 1 \in 0 .. k - 1
        BY <2>2
      <4> QED BY <1>1, <4>1
    <3> DEFINE h == [i \in 1 .. k |-> IF i = 1 THEN S[i]
                                      ELSE IF i < k THEN g[i] ELSE g[i - 1] \o S[i]]
    <3>2. ASSUME NEW i \in 1 .. k
          PROVE  h[i] = IF i = 1 THEN S[i] ELSE h[i - 1] \o S[i]
      <4>1. \A j \in 1 .. k - 1 : g[j] = IF j = 1 THEN S[j] ELSE g[j - 1] \o S[j]
        BY <3>1 DEF Flattens
      <4>2. i # 1 => i - 1 \in 1 .. k /\ i - 1 \in 1 .. k - 1 /\ i - 1 < k
        OBVIOUS
      <4>3. i # 1 => h[i - 1] = g[i - 1]
        BY <4>1, <4>2
      <4>4. i < k => i \in 1 .. k - 1
        OBVIOUS
      <4> QED BY <4>1, <4>3, <4>4
    <3>3. h = [i \in 1 .. k |-> h[i]]
      OBVIOUS
    <3> HIDE DEF h
    <3>4. Flattens(h, S, k)
      BY <3>2, <3>3, Zenon DEF Flattens
    <3> QED BY <3>4
  <2> QED BY <2>1, <2>2
<1> HIDE DEF P
<1>2. Nat \subseteq P
  BY <1>1, NatInductionSet
<1> QED BY <1>2 DEF P

Prefix(S, T, n) == \A i \in 1 .. n : S[i] = T[i]

LEMMA FlattensAgree ==
  ASSUME NEW S, NEW T, NEW n \in Nat, NEW k \in Nat, NEW g, NEW h, n <= k,
         Flattens(g, S, n), Flattens(h, T, k), Prefix(S, T, n), n # 0
  PROVE  g[n] = h[n]
<1> USE DEF Prefix
<1> DEFINE P == {i \in Nat : i \in 1 .. n => g[i] = h[i]}
<1>1. ASSUME NEW i \in Nat, \A j \in 0 .. i - 1 : j \in P
      PROVE  i \in P
  <2> SUFFICES ASSUME i \in 1 .. n PROVE g[i] = h[i]
    OBVIOUS
  <2>1. /\ g[i] = IF i = 1 THEN S[i] ELSE g[i - 1] \o S[i]
        /\ h[i] = IF i = 1 THEN T[i] ELSE h[i - 1] \o T[i]
    <3>1. i \in 1 .. k
      OBVIOUS
    <3> QED BY <3>1 DEF Flattens
  <2>2. i # 1 => i - 1 \in 0 .. i - 1 /\ i - 1 \in 1 .. n
    OBVIOUS
  <2> QED BY <1>1, <2>1, <2>2
<1> HIDE DEF P
<1>2. Nat \subseteq P
  BY <1>1, NatInductionSet
<1> QED BY <1>2 DEF P

LEMMA FlattensTyped ==
  ASSUME NEW D, NEW n \in Nat, NEW S, \A i \in 1 .. n : S[i] \in Seq(D),
         NEW h, Flattens(h, S, n)
  PROVE  \A i \in 1 .. n : h[i] \in Seq(D)
<1> DEFINE P == {i \in Nat : i \in 1 .. n => h[i] \in Seq(D)}
<1>1. ASSUME NEW i \in Nat, \A j \in 0 .. i - 1 : j \in P
      PROVE  i \in P
  <2> SUFFICES ASSUME i \in 1 .. n PROVE h[i] \in Seq(D)
    OBVIOUS
  <2>1. h[i] = IF i = 1 THEN S[i] ELSE h[i - 1] \o S[i]
    BY DEF Flattens
  <2>2. i # 1 => h[i - 1] \in Seq(D)
    <3>1. i # 1 => i - 1 \in 0 .. i - 1 /\ i - 1 \in 1 .. n
      OBVIOUS
    <3> QED BY <1>1, <3>1
  <2> QED BY <2>1, <2>2
<1> HIDE DEF P
<1>2. Nat \subseteq P
  BY <1>1, NatInductionSet
<1> QED BY <1>2 DEF P

\* Flattening one sequence more appends it.
LEMMA FlattenLast ==
  ASSUME NEW D, NEW n \in Nat, NEW T \in [1 .. n -> Seq(D)],
         NEW S \in [1 .. n + 1 -> Seq(D)], Prefix(T, S, n)
  PROVE  FlattenSeq(S) = FlattenSeq(T) \o S[n + 1] /\ FlattenSeq(T) \in Seq(D)
<1>0. /\ Len(S) = n + 1 /\ Len(T) = n /\ (n = 0 => T = << >>)
      /\ \A i \in 1 .. n + 1 : S[i] \in Seq(D)
      /\ \A i \in 1 .. n : T[i] \in Seq(D)
  OBVIOUS
<1> DEFINE G(X, k) == CHOOSE h : Flattens(h, X, k)
<1>1. \A X, k : k \in Nat => Flattens(G(X, k), X, k)
  BY FlattensExists
<1>2. \A X : Len(X) # 0 => FlattenSeq(X) = G(X, Len(X))[Len(X)]
  BY DEF FlattenSeq, Flattens
<1> HIDE DEF G
<1>3. FlattenSeq(S) = G(S, n + 1)[n + 1] /\ Flattens(G(S, n + 1), S, n + 1)
  <2>1. Len(S) = n + 1 /\ Len(S) # 0 /\ n + 1 \in Nat
    BY <1>0
  <2>2. FlattenSeq(S) = G(S, Len(S))[Len(S)]
    BY <1>2, <2>1, Zenon
  <2>3. Flattens(G(S, n + 1), S, n + 1)
    BY <1>1, <2>1, Zenon
  <2> QED BY <2>1, <2>2, <2>3, Zenon
<1>4. G(S, n + 1)[n + 1] = IF n = 0 THEN S[n + 1] ELSE G(S, n + 1)[n] \o S[n + 1]
  <2>1. n + 1 \in 1 .. n + 1 /\ (n + 1 = 1 <=> n = 0) /\ (n + 1) - 1 = n
    OBVIOUS
  <2> QED BY <1>3, <2>1 DEF Flattens
<1>5. CASE n = 0
  <2>1. FlattenSeq(T) = << >>
    BY <1>0, <1>5 DEF FlattenSeq
  <2>2. S[n + 1] \in Seq(D)
    BY <1>0
  <2> QED BY <1>3, <1>4, <1>5, <2>1, <2>2
<1>6. CASE n # 0
  <2>1. FlattenSeq(T) = G(T, n)[n] /\ Flattens(G(T, n), T, n) /\ n \in 1 .. n
    <3>1. Len(T) = n /\ Len(T) # 0 /\ n \in 1 .. n
      BY <1>0, <1>6
    <3>2. FlattenSeq(T) = G(T, Len(T))[Len(T)]
      BY <1>2, <3>1, Zenon
    <3>3. Flattens(G(T, n), T, n)
      BY <1>1, Zenon
    <3> QED BY <3>1, <3>2, <3>3, Zenon
  <2>2. G(T, n)[n] = G(S, n + 1)[n]
    <3> DEFINE g == G(T, n)
               h == G(S, n + 1)
               k == n + 1
    <3>2. Flattens(g, T, n) /\ Flattens(h, S, k) /\ k \in Nat /\ n <= k
      BY <1>3, <2>1
    <3> HIDE DEF g, h, k
    <3>3. g[n] = h[n]
      BY <1>6, <3>2, FlattensAgree
    <3> QED BY <3>3 DEF g, h
  <2>3. G(T, n)[n] \in Seq(D)
    BY <1>0, <2>1, FlattensTyped
  <2> QED BY <1>3, <1>4, <1>6, <2>1, <2>2, <2>3
<1> QED BY <1>5, <1>6
=============================================================================
