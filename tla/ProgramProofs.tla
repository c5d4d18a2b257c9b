--------------------------- MODULE ProgramProofs ---------------------------
(***************************************************************************)
(* Proofs about the programs that keep to their own accounts:              *)
(*   - the constant-product pool, for any users, amounts, fee, locked      *)
(*     amount and integer width;                                           *)
(*   - the price feed, for any publishers, prices, times and limits;       *)
(*   - runes and metadata, for any accounts, amounts, terms and records.   *)
(***************************************************************************)
EXTENDS Swap, Oracle, Assets, InductionLemmas

-----------------------------------------------------------------------------
(***************************************************************************)
(* The square root.  A run of integer_sqrt goes down from n; the invariant *)
(* of its loop is that the root lies below the next number.                *)
(***************************************************************************)
Newton(n, x) == (x + n \div x) \div 2
RootTable(h, n, k) ==
  h = [x \in 1 .. k |-> IF Newton(n, x) < x THEN h[Newton(n, x)] ELSE x]
IsRoot(r, n) == r \in Nat /\ r * r <= n /\ n < (r + 1) * (r + 1)

\* A step of Newton's method stays positive and never falls below the root.
LEMMA NewtonStep ==
  ASSUME NEW n \in Nat, NEW x \in 1 .. n
  PROVE  /\ Newton(n, x) \in Nat \ {0}
         /\ n < (Newton(n, x) + 1) * (Newton(n, x) + 1)
         /\ Newton(n, x) >= x => x * x <= n
<1> DEFINE q == n \div x
           y == (x + q) \div 2
<1>1. q \in Nat /\ x * q <= n /\ n < x * q + x /\ q >= 1
  OBVIOUS
<1> HIDE DEF q
<1>2. y \in Nat /\ 2 * y <= x + q /\ x + q <= 2 * y + 1 /\ y >= 1
  BY <1>1
<1> HIDE DEF y
<1>3. n < (y + 1) * (y + 1)
  <2> DEFINE d == q + 1
             s == x + d
             z == y + 1
  <2>1. d \in Nat /\ s \in Nat /\ z \in Nat /\ s <= 2 * z /\ n < x * d
    BY <1>1, <1>2
  <2>2. 4 * (x * d) <= s * s
    <3>1. s * s - 4 * (x * d) = (x - d) * (x - d)
      BY <2>1
    <3>2. (x - d) * (x - d) >= 0
      BY <2>1
    <3>3. s * s \in Nat /\ x * d \in Nat
      BY <2>1
    <3> HIDE DEF s, d
    <3> QED BY <3>1, <3>2, <3>3
  <2> HIDE DEF s, d
  <2>3. s * s <= (2 * z) * (2 * z)
    BY <2>1
  <2>4. (2 * z) * (2 * z) = 4 * (z * z) /\ z * z \in Nat /\ x * d \in Nat /\ s * s \in Nat
    BY <2>1
  <2>5. x * d <= z * z
    BY <2>2, <2>3, <2>4
  <2> QED BY <2>1, <2>4, <2>5
<1>4. y >= x => x * x <= n
  <2> SUFFICES ASSUME y >= x PROVE x * x <= n
    OBVIOUS
  <2>1. q >= x
    BY <1>1, <1>2
  <2>2. x * x <= x * q
    BY <1>1, <2>1
  <2> QED BY <1>1, <2>2
<1> QED BY <1>2, <1>3, <1>4 DEF Newton, y, q

\* The recursive definition has a solution.
LEMMA RootTableExists ==
  ASSUME NEW n \in Nat
  PROVE  \E h : RootTable(h, n, n)
<1> DEFINE P == {k \in Nat : k <= n => \E h : RootTable(h, n, k)}
<1>1. ASSUME NEW k \in Nat, \A j \in 0 .. k - 1 : j \in P
      PROVE  k \in P
  <2> SUFFICES ASSUME k <= n PROVE \E h : RootTable(h, n, k)
    OBVIOUS
  <2>1. CASE k = 0
    <3>1. 1 .. k = {}
      BY <2>1
    <3>2. RootTable([x \in 1 .. k |-> x], n, k)
      BY <3>1 DEF RootTable
    <3> QED BY <3>2
  <2>2. CASE k # 0
    <3>1. PICK g : RootTable(g, n, k - 1)
      <4>1. k - 1 \in 0 .. k - 1 /\ k - 1 <= n
        BY <2>2
      <4> QED BY <1>1, <4>1
    <3> DEFINE h == [x \in 1 .. k |-> IF x < k THEN g[x]
                                      ELSE IF Newton(n, x) < x THEN g[Newton(n, x)] ELSE x]
    <3>2. \A x \in 1 .. k : Newton(n, x) \in Nat \ {0}
      BY NewtonStep
    <3>3. ASSUME NEW x \in 1 .. k
          PROVE  h[x] = IF Newton(n, x) < x THEN h[Newton(n, x)] ELSE x
      <4>1. Newton(n, x) < x => Newton(n, x) \in 1 .. k - 1 /\ Newton(n, x) < k
        BY <3>2
      <4>2. Newton(n, x) < x => h[Newton(n, x)] = g[Newton(n, x)]
        BY <4>1
      <4>3. x < k => g[x] = IF Newton(n, x) < x THEN g[Newton(n, x)] ELSE x
        BY <3>1 DEF RootTable
      <4> QED BY <4>2, <4>3
    <3>4. h = [x \in 1 .. k |-> IF Newton(n, x) < x THEN h[Newton(n, x)] ELSE x]
      <4>1. h = [x \in 1 .. k |-> h[x]]
        OBVIOUS
      <4> HIDE DEF h
      <4> QED BY <3>3, <4>1, Zenon
    <3> QED BY <3>4 DEF RootTable
  <2> QED BY <2>1, <2>2
<1> HIDE DEF P
<1>2. Nat \subseteq P
  BY <1>1, NatInductionSet
<1> QED BY <1>2 DEF P

\* Every start above the root ends at it.
LEMMA RootTableRoots ==
  ASSUME NEW n \in Nat, NEW h, RootTable(h, n, n)
  PROVE  \A x \in 1 .. n : n < (x + 1) * (x + 1) => IsRoot(h[x], n)
<1> DEFINE P == {x \in Nat : x \in 1 .. n /\ n < (x + 1) * (x + 1) => IsRoot(h[x], n)}
<1>1. ASSUME NEW x \in Nat, \A j \in 0 .. x - 1 : j \in P
      PROVE  x \in P
  <2> SUFFICES ASSUME x \in 1 .. n, n < (x + 1) * (x + 1) PROVE IsRoot(h[x], n)
    OBVIOUS
  <2> DEFINE y == Newton(n, x)
  <2>1. y \in Nat \ {0} /\ n < (y + 1) * (y + 1) /\ (y >= x => x * x <= n)
    BY NewtonStep
  <2>2. h[x] = IF y < x THEN h[y] ELSE x
    BY DEF RootTable
  <2> HIDE DEF y
  <2>3. CASE y < x
    <3>1. y \in 0 .. x - 1 /\ y \in 1 .. n
      BY <2>1, <2>3
    <3> QED BY <1>1, <2>1, <2>2, <2>3, <3>1
  <2>4. CASE ~(y < x)
    <3>1. h[x] = x /\ y >= x
      BY <2>1, <2>2, <2>4
    <3> QED BY <2>1, <3>1 DEF IsRoot
  <2> QED BY <2>3, <2>4
<1> HIDE DEF P
<1>2. Nat \subseteq P
  BY <1>1, NatInductionSet
<1> QED BY <1>2 DEF P

\* integer_sqrt computes the integer square root of every natural number.
THEOREM SqrtIsRoot == \A n \in Nat : IsRoot(integer_sqrt(n), n)
<1> TAKE n \in Nat
<1>1. CASE n = 0
  BY <1>1 DEF integer_sqrt, IsRoot
<1>2. CASE n # 0
  <2> DEFINE h == CHOOSE h : RootTable(h, n, n)
  <2>1. RootTable(h, n, n)
    BY RootTableExists
  <2>2. integer_sqrt(n) = h[n]
    BY <1>2 DEF integer_sqrt, RootTable, Newton
  <2> HIDE DEF h
  <2>3. n \in 1 .. n /\ n < (n + 1) * (n + 1)
    BY <1>2
  <2> QED BY <2>1, <2>2, <2>3, RootTableRoots
<1> QED BY <1>1, <1>2

-----------------------------------------------------------------------------
(***************************************************************************)
(* The pool.  The locked amount stays because a pool without liquidity has *)
(* no liquidity tokens outside either.                                     *)
(***************************************************************************)
Outside == SumFunction(lp)
NoneBefore == pool.lp_supply = 0 => Outside = 0
SwapInv == TypeOK /\ LockedForever /\ NoneBefore /\ NeverDrained

LEMMA SwapInitInv == Init => SwapInv
<1> SUFFICES ASSUME Init PROVE SwapInv
  OBVIOUS
<1>1. TypeOK
  BY DEF Init, TypeOK, PoolState
<1>2. Outside = 0
  BY SumOfZeros, SwapAssumption DEF Init, Outside
<1> QED BY <1>1, <1>2 DEF Init, SwapInv, LockedForever, NoneBefore, NeverDrained

LEMMA SwapFacts ==
  ASSUME SwapInv
  PROVE  /\ pool \in PoolState /\ pool.lp_supply \in Nat /\ balance \in [Sides -> Nat]
         /\ lp \in [Users -> Nat] /\ Outside \in Nat
         /\ \A u \in Users : lp[u] \in Nat /\ lp[u] <= Outside
         /\ pool.lp_supply = 0 => Outside = 0
         /\ pool.lp_supply # 0 => pool.lp_supply >= Outside + MINIMUM_LIQUIDITY
         /\ pool.lp_supply # 0 => \A x \in Sides : balance[x] \in Nat \ {0}
         /\ MINIMUM_LIQUIDITY \in Nat \ {0} /\ Amounts \subseteq Nat
<1>1. /\ pool \in PoolState /\ pool.lp_supply \in Nat /\ balance \in [Sides -> Nat]
      /\ lp \in [Users -> Nat]
  BY DEF SwapInv, TypeOK, PoolState
<1>2. Outside \in Nat /\ \A u \in Users : lp[u] \in Nat /\ lp[u] <= Outside
  BY <1>1, SumOfNats, SwapAssumption DEF Outside
<1>3. /\ pool.lp_supply = 0 => Outside = 0
      /\ pool.lp_supply # 0 => pool.lp_supply >= Outside + MINIMUM_LIQUIDITY
  BY DEF SwapInv, NoneBefore, LockedForever, Outside
<1>4. pool.lp_supply # 0 => \A x \in Sides : balance[x] \in Nat \ {0}
  BY <1>1 DEF SwapInv, NeverDrained
<1> QED BY <1>1, <1>2, <1>3, <1>4, SwapAssumption

\* Minting d liquidity tokens to u, or burning them when d is negative.
LEMMA LpChange ==
  ASSUME SwapInv, NEW u \in Users, NEW d \in Int, lp[u] + d \in Nat,
         lp' = [lp EXCEPT ![u] = lp[u] + d]
  PROVE  lp' \in [Users -> Nat] /\ Outside' = Outside + d
<1> DEFINE x == lp[u] + d
<1>1. /\ lp \in [Users -> Nat] /\ lp \in [Users -> Int] /\ lp[u] \in Nat
      /\ IsFiniteSet(Users) /\ Outside \in Nat /\ x \in Int
  BY SwapFacts, SwapAssumption
<1>2. SumFunction([lp EXCEPT ![u] = x]) = SumFunction(lp) - lp[u] + x
  <2> HIDE DEF x
  <2> QED BY <1>1, SumUpdate
<1>3. Outside' = Outside - lp[u] + (lp[u] + d)
  BY <1>2 DEF Outside
<1> QED BY <1>1, <1>3

\* What a redemption of n of s tokens leaves of a reserve.
LEMMA RedeemLeaves ==
  ASSUME NEW b \in Nat, NEW n \in Nat, NEW s \in Nat \ {0}, n <= s,
         NEW c, c = b - (b * n) \div s
  PROVE  c \in Nat /\ b * (s - n) <= s * c
<1> DEFINE q == (b * n) \div s
<1>1. b * n \in Nat /\ b * n <= s * b
  OBVIOUS
<1>2. q \in Nat /\ s * q <= b * n
  BY <1>1, DivBounds
<1> HIDE DEF q
<1>3. s * q <= s * b
  BY <1>1, <1>2
<1>4. q <= b
  BY <1>2, <1>3
<1>5. c = b - q
  BY DEF q
<1>6. s * c = s * b - s * q /\ b * (s - n) = s * b - b * n
  BY <1>2, <1>5
<1> QED BY <1>1, <1>2, <1>4, <1>5, <1>6

\* A swap pays less than the reserve holds and does not lower the product.
LEMMA SwapPays ==
  ASSUME NEW from \in Nat \ {0}, NEW to \in Nat \ {0}, NEW n \in Nat, fee_amount(n) <= n,
         NEW out, out = amount_out(from, to, n)
  PROVE  out \in Nat /\ out < to /\ from * to <= (from + n) * (to - out)
<1> DEFINE net == n - fee_amount(n)
           d == from + net
<1>1. net \in Nat /\ net <= n
  <2>1. n * fee_numerator \in Nat /\ fee_denominator \in Nat \ {0}
    BY SwapAssumption
  <2>2. fee_amount(n) \in Nat
    BY <2>1, DivBounds DEF fee_amount
  <2> QED BY <2>2
<1>2. out = (to * net) \div d
  BY DEF amount_out
<1> HIDE DEF net
<1>3. d \in Nat \ {0} /\ to * net \in Nat /\ d <= from + n /\ net < d
  BY <1>1
<1>4. d * (to - out) = d * to - d * out /\ d * to = from * to + to * net /\ to * net < d * to
      /\ out \in Nat /\ d * out <= to * net
  <2>1. out \in Nat /\ d * out <= to * net
    <3> HIDE DEF d
    <3> QED BY <1>2, <1>3, DivBounds
  <2> QED BY <1>1, <1>3, <2>1
<1> HIDE DEF d
<1>5. d * out < d * to
  BY <1>3, <1>4
<1>6. out < to
  BY <1>3, <1>4, <1>5
<1>7. d * (to - out) <= (from + n) * (to - out)
  BY <1>3, <1>4, <1>6
<1>8. from * to \in Nat /\ d * to \in Nat /\ d * out \in Nat /\ (from + n) * (to - out) \in Int
  BY <1>3, <1>4
<1> QED BY <1>3, <1>4, <1>6, <1>7, <1>8

\* ProvidersKeepValue and BootstrapIsRoot, as steps.
KeepStep ==
  pool.lp_supply # 0 /\ pool'.lp_supply <= pool.lp_supply =>
    Product * pool'.lp_supply * pool'.lp_supply <= Product' * pool.lp_supply * pool.lp_supply
RootStep ==
  pool.lp_supply = 0 /\ pool'.lp_supply # 0 =>
    LET r == pool'.lp_supply
        paid == (balance'["a"] - balance["a"]) * (balance'["b"] - balance["b"])
    IN r * r <= paid /\ paid < (r + 1) * (r + 1)

\* A step that leaves the liquidity as it is and does not lower the product.
LEMMA SameSupply ==
  ASSUME SwapInv, balance' \in [Sides -> Nat], pool'.lp_supply = pool.lp_supply,
         pool.lp_supply # 0 => Product <= Product'
  PROVE  KeepStep /\ RootStep
<1> DEFINE S == pool.lp_supply
           x == balance["a"] * balance["b"]
           y == balance'["a"] * balance'["b"]
<1>1. S \in Nat /\ x \in Nat /\ y \in Nat /\ (S # 0 => x <= y)
  BY SwapFacts DEF Product, Sides
<1>2. x * S * S <= y * S * S
  <2> HIDE DEF S, x, y
  <2>1. CASE S = 0
    BY <1>1, <2>1
  <2>2. CASE S # 0
    <3>1. x * (S * S) <= y * (S * S)
      BY <1>1, <2>2
    <3>2. x * (S * S) = x * S * S /\ y * (S * S) = y * S * S
      BY <1>1
    <3> QED BY <3>1, <3>2
  <2> QED BY <2>1, <2>2
<1> QED BY <1>2 DEF KeepStep, RootStep, Product

LEMMA SwapSteps ==
  ASSUME SwapInv, [Next]_vars
  PROVE  SwapInv' /\ KeepStep /\ RootStep
<1> DEFINE S == pool.lp_supply
<1>0. /\ pool \in PoolState /\ S \in Nat /\ balance \in [Sides -> Nat]
      /\ lp \in [Users -> Nat] /\ Outside \in Nat
      /\ \A u \in Users : lp[u] \in Nat /\ lp[u] <= Outside
      /\ S = 0 => Outside = 0
      /\ S # 0 => S >= Outside + MINIMUM_LIQUIDITY
      /\ S # 0 => \A x \in Sides : balance[x] \in Nat \ {0}
      /\ MINIMUM_LIQUIDITY \in Nat \ {0} /\ Amounts \subseteq Nat
      /\ balance["a"] \in Nat /\ balance["b"] \in Nat
  BY SwapFacts DEF Sides
<1>1. ASSUME pool' \in PoolState, balance' \in [Sides -> Nat], lp' \in [Users -> Nat],
             NEW T, T = pool'.lp_supply,
             T = 0 => Outside' = 0,
             T # 0 => T >= Outside' + MINIMUM_LIQUIDITY,
             T # 0 => \A x \in Sides : balance'[x] > 0
      PROVE  SwapInv'
  BY <1>1 DEF SwapInv, TypeOK, LockedForever, NoneBefore, NeverDrained, Outside
<1>2. CASE UNCHANGED vars
  <2>1. pool' = pool /\ balance' = balance /\ lp' = lp
    BY <1>2 DEF vars
  <2>2. SwapInv'
    BY <2>1 DEF SwapInv, TypeOK, LockedForever, NoneBefore, NeverDrained, Outside
  <2>3. Product <= Product'
    BY <1>0, <2>1 DEF Product
  <2> QED BY <1>0, <2>1, <2>2, <2>3, SameSupply
<1>3. ASSUME NEW i \in Sides, NEW o \in Sides, NEW n \in Amounts, SwapTokens(i, o, n)
      PROVE  SwapInv' /\ KeepStep /\ RootStep
  <2> DEFINE out == amount_out(balance[i], balance[o], n)
  <2>1. /\ i # o /\ balance[i] # 0 /\ balance[o] # 0 /\ fee_amount(n) <= n /\ lp' = lp
        /\ balance' = [balance EXCEPT ![i] = balance[i] + n, ![o] = balance[o] - out]
        /\ pool' = [pool EXCEPT !.reserve = balance']
    BY <1>0, <1>3 DEF SwapTokens, synced
  <2>2. /\ balance[i] \in Nat \ {0} /\ balance[o] \in Nat \ {0} /\ n \in Nat
        /\ balance[i] + n \in Nat \ {0}
    BY <1>0, <2>1
  <2>3. /\ out \in Nat /\ out < balance[o]
        /\ balance[i] * balance[o] <= (balance[i] + n) * (balance[o] - out)
    BY <2>1, <2>2, SwapPays
  <2> HIDE DEF out
  <2>4. balance[o] - out \in Nat \ {0}
    BY <2>2, <2>3
  <2>5. /\ balance' \in [Sides -> Nat] /\ \A x \in Sides : x = i \/ x = o
        /\ balance'[i] = balance[i] + n /\ balance'[o] = balance[o] - out
    BY <1>0, <2>1, <2>2, <2>4 DEF Sides
  <2>6. \A x \in Sides : balance'[x] > 0
    BY <2>2, <2>4, <2>5
  <2>7. pool' \in PoolState /\ pool'.lp_supply = S
    BY <1>0, <2>1, <2>5 DEF PoolState
  <2>8. Product <= Product'
    <3>1. Product = balance[i] * balance[o] /\ Product' = balance'[i] * balance'[o]
      <4>1. CASE i = "a"
        <5>1. o = "b"
          BY <2>1, <4>1 DEF Sides
        <5> QED BY <4>1, <5>1 DEF Product
      <4>2. CASE i # "a"
        <5>1. i = "b" /\ o = "a"
          BY <2>1, <4>2 DEF Sides
        <5>2. balance["a"] * balance["b"] = balance["b"] * balance["a"]
          BY <1>0
        <5>3. balance'["a"] * balance'["b"] = balance'["b"] * balance'["a"]
          BY <2>5 DEF Sides
        <5> QED BY <5>1, <5>2, <5>3 DEF Product
      <4> QED BY <4>1, <4>2
    <3> QED BY <2>3, <2>5, <3>1
  <2>9. SwapInv'
    BY <1>0, <1>1, <2>1, <2>5, <2>6, <2>7 DEF Outside
  <2> QED BY <2>5, <2>7, <2>8, <2>9, SameSupply
<1>4. ASSUME NEW x \in Sides, NEW n \in Amounts, SendToReserve(x, n)
      PROVE  SwapInv' /\ KeepStep /\ RootStep
  <2>1. balance' = [balance EXCEPT ![x] = balance[x] + n] /\ pool' = pool /\ lp' = lp
    BY <1>4 DEF SendToReserve
  <2>2. /\ balance' \in [Sides -> Nat] /\ \A y \in Sides : balance[y] <= balance'[y]
        /\ balance["a"] <= balance'["a"] /\ balance["b"] <= balance'["b"]
        /\ balance'["a"] \in Nat /\ balance'["b"] \in Nat
    BY <1>0, <2>1 DEF Sides
  <2>3. Product <= Product'
    BY <1>0, <2>2 DEF Product
  <2>4. SwapInv'
    BY <1>0, <1>1, <2>1, <2>2 DEF Outside
  <2> QED BY <2>1, <2>2, <2>3, <2>4, SameSupply
<1>5. ASSUME NEW u \in Users, NEW n \in Amounts, BurnLp(u, n)
      PROVE  SwapInv' /\ KeepStep /\ RootStep
  <2>1. /\ n <= lp[u] /\ lp' = [lp EXCEPT ![u] = lp[u] - n]
        /\ balance' = balance /\ pool' = pool /\ n \in Nat
    BY <1>0, <1>5 DEF BurnLp
  <2>2. -n \in Int /\ lp[u] + (-n) = lp[u] - n /\ lp[u] - n \in Nat
    BY <1>0, <2>1
  <2>3. lp' \in [Users -> Nat] /\ Outside' = Outside + (-n)
    BY <2>1, <2>2, LpChange
  <2>4. SwapInv'
    <3>1. lp'[u] \in Nat /\ Outside' \in Nat /\ Outside' <= Outside
      BY <1>0, <2>1, <2>3
    <3> QED BY <1>0, <1>1, <2>1, <2>3, <3>1
  <2>5. Product <= Product'
    BY <1>0, <2>1 DEF Product
  <2> QED BY <1>0, <2>1, <2>4, <2>5, SameSupply
<1>6. ASSUME NEW u \in Users, NEW n \in Amounts, Withdraw(u, n)
      PROVE  SwapInv' /\ KeepStep /\ RootStep
  <2> DEFINE Left(x) == balance[x] - (balance[x] * n) \div S
             T == S - n
  <2>1. /\ S # 0 /\ n <= lp[u] /\ n \in Nat /\ lp' = [lp EXCEPT ![u] = lp[u] - n]
        /\ balance' = [x \in Sides |-> Left(x)]
        /\ pool' = [[pool EXCEPT !.reserve = balance'] EXCEPT !.lp_supply = S - n]
    BY <1>0, <1>6 DEF Withdraw, synced
  <2>2. T \in Nat \ {0} /\ n <= S /\ S \in Nat \ {0}
    <3>1. n < S
      <4>1. /\ n \in Nat /\ lp[u] \in Nat /\ S \in Nat /\ Outside \in Nat
            /\ n <= lp[u] /\ lp[u] <= Outside /\ Outside + MINIMUM_LIQUIDITY <= S
            /\ MINIMUM_LIQUIDITY \in Nat \ {0}
        BY <1>0, <2>1
      <4> HIDE DEF S
      <4> QED BY <4>1
    <3> HIDE DEF S
    <3> QED BY <1>0, <2>1, <3>1
  <2>3. \A x \in Sides : Left(x) \in Nat /\ balance[x] * T <= S * Left(x)
    <3> TAKE x \in Sides
    <3>1. balance[x] \in Nat
      BY <1>0
    <3> HIDE DEF S
    <3> QED BY <2>1, <2>2, <3>1, RedeemLeaves
  <2> HIDE DEF Left
  <2>4. balance' \in [Sides -> Nat] /\ \A x \in Sides : balance'[x] = Left(x)
    BY <2>1, <2>3
  <2>5. \A x \in Sides : balance'[x] > 0
    <3> TAKE x \in Sides
    <3>1. balance[x] \in Nat \ {0} /\ Left(x) \in Nat /\ balance[x] * T <= S * Left(x)
      BY <1>0, <2>1, <2>3
    <3>2. balance[x] * T > 0
      <4> HIDE DEF T
      <4> QED BY <2>2, <3>1
    <3> HIDE DEF S, T
    <3>3. Left(x) # 0
      BY <2>2, <3>1, <3>2
    <3> QED BY <2>4, <3>1, <3>3
  <2>6. pool' \in PoolState /\ pool'.lp_supply = T
    <3> HIDE DEF T
    <3>1. pool' = [[pool EXCEPT !.reserve = balance'] EXCEPT !.lp_supply = T]
      BY <2>1 DEF T
    <3> QED BY <1>0, <2>2, <2>4, <3>1 DEF PoolState
  <2>7. lp' \in [Users -> Nat] /\ Outside' = Outside - n
    <3>1. -n \in Int /\ lp[u] + (-n) = lp[u] - n /\ lp[u] - n \in Nat
          /\ Outside + (-n) = Outside - n
      BY <1>0, <2>1
    <3>2. lp' \in [Users -> Nat] /\ Outside' = Outside + (-n)
      BY <2>1, <3>1, LpChange
    <3> QED BY <3>1, <3>2
  <2>8. SwapInv'
    <3>1. T # 0 /\ T >= Outside' + MINIMUM_LIQUIDITY
      BY <1>0, <2>1, <2>2, <2>7
    <3> HIDE DEF T
    <3> QED BY <1>1, <2>4, <2>5, <2>6, <2>7, <3>1
  <2>9. KeepStep
    <3> DEFINE a == balance["a"]
               b == balance["b"]
               c == Left("a")
               d == Left("b")
    <3>1. /\ a \in Nat /\ b \in Nat /\ c \in Nat /\ d \in Nat /\ S \in Nat /\ T \in Nat
          /\ a * T <= S * c /\ b * T <= S * d
      BY <1>0, <2>2, <2>3 DEF Sides
    <3>2. Product = a * b /\ Product' = c * d
      BY <2>4 DEF Product, Sides
    <3> HIDE DEF a, b, c, d, S, T
    <3>3. (a * T) * (b * T) <= (S * c) * (S * d)
      <4>1. (a * T) * (b * T) <= (S * c) * (b * T)
        BY <3>1
      <4>2. (S * c) * (b * T) <= (S * c) * (S * d)
        BY <3>1
      <4>3. /\ (a * T) * (b * T) \in Nat /\ (S * c) * (b * T) \in Nat
            /\ (S * c) * (S * d) \in Nat
        BY <3>1
      <4> QED BY <4>1, <4>2, <4>3
    <3>4. a * b * T * T = (a * T) * (b * T) /\ c * d * S * S = (S * c) * (S * d)
      BY <3>1
    <3> QED BY <2>6, <3>2, <3>3, <3>4 DEF KeepStep, S
  <2> QED BY <2>1, <2>8, <2>9 DEF RootStep
<1>7. ASSUME NEW u \in Users, NEW n \in Amounts, NEW k \in Amounts, Deposit(u, n, k)
      PROVE  SwapInv' /\ KeepStep /\ RootStep
  <2> DEFINE Shares(max, x) == (max * S) \div AtLeastOne(balance[x])
             g == Least(Shares(n, "a"), Shares(k, "b"))
             Pays(x) == (g * balance[x]) \div S
  <2>1. /\ S # 0 /\ lp' = [lp EXCEPT ![u] = lp[u] + g] /\ n \in Nat /\ k \in Nat
        /\ balance' = [x \in Sides |-> balance[x] + Pays(x)]
        /\ pool' = [[pool EXCEPT !.reserve = balance'] EXCEPT !.lp_supply = S + g]
    BY <1>0, <1>7 DEF Deposit, synced
  <2>2. g \in Nat
    <3>1. n * S \in Nat /\ k * S \in Nat
      BY <1>0, <2>1
    <3>2. \A x \in Sides : AtLeastOne(balance[x]) \in Nat \ {0}
      BY <1>0 DEF AtLeastOne
    <3>3. Shares(n, "a") \in Nat /\ Shares(k, "b") \in Nat
      BY <3>1, <3>2, DivBounds DEF Sides
    <3> QED BY <3>3 DEF Least
  <2> HIDE DEF g
  <2>3. \A x \in Sides : Pays(x) \in Nat /\ (g = 0 => Pays(x) = 0)
    <3> TAKE x \in Sides
    <3>1. g * balance[x] \in Nat
      BY <1>0, <2>2
    <3> HIDE DEF S
    <3>2. g = 0 => g * balance[x] = 0
      BY <1>0
    <3> QED BY <1>0, <2>1, <3>1, <3>2, DivBounds
  <2> HIDE DEF Pays
  <2>4. /\ balance' \in [Sides -> Nat]
        /\ \A x \in Sides : balance'[x] = balance[x] + Pays(x) /\ balance'[x] > 0
    BY <1>0, <2>1, <2>3
  <2>5. S + g \in Nat \ {0} /\ pool' \in PoolState /\ pool'.lp_supply = S + g
    <3> DEFINE T == S + g
    <3>1. T \in Nat \ {0}
      BY <1>0, <2>1, <2>2
    <3>2. pool' = [[pool EXCEPT !.reserve = balance'] EXCEPT !.lp_supply = T]
      BY <2>1
    <3> HIDE DEF T
    <3>3. pool' \in PoolState /\ pool'.lp_supply = T
      BY <1>0, <2>4, <3>1, <3>2 DEF PoolState
    <3> QED BY <3>1, <3>3 DEF T
  <2>6. lp' \in [Users -> Nat] /\ Outside' = Outside + g
    <3>1. g \in Int /\ lp[u] + g \in Nat
      BY <1>0, <2>2
    <3> QED BY <2>1, <3>1, LpChange
  <2>7. SwapInv'
    <3>1. S + g >= Outside' + MINIMUM_LIQUIDITY /\ S + g # 0
      BY <1>0, <2>1, <2>2, <2>6
    <3> DEFINE T == S + g
    <3>2. T >= Outside' + MINIMUM_LIQUIDITY /\ T # 0 /\ T = pool'.lp_supply
      BY <2>5, <3>1
    <3> HIDE DEF T
    <3> QED BY <1>1, <2>4, <2>5, <2>6, <3>2
  <2>8. CASE g = 0
    <3>1. /\ balance'["a"] = balance["a"] /\ balance'["b"] = balance["b"]
          /\ pool'.lp_supply = pool.lp_supply
      BY <1>0, <2>3, <2>4, <2>5, <2>8 DEF Sides
    <3>2. Product <= Product'
      BY <1>0, <3>1 DEF Product
    <3> QED BY <2>4, <2>7, <3>1, <3>2, SameSupply
  <2>9. CASE g # 0
    <3>1. ~(pool'.lp_supply <= pool.lp_supply)
      BY <1>0, <2>2, <2>5, <2>9
    <3> QED BY <2>1, <2>7, <3>1 DEF KeepStep, RootStep
  <2> QED BY <2>8, <2>9
<1>8. ASSUME NEW u \in Users, NEW n \in Amounts, NEW k \in Amounts, Bootstrap(u, n, k)
      PROVE  SwapInv' /\ KeepStep /\ RootStep
  <2> DEFINE r == integer_sqrt(n * k)
             d == r - MINIMUM_LIQUIDITY
  <2>1. /\ S = 0 /\ r >= MINIMUM_LIQUIDITY /\ n \in Nat /\ k \in Nat
        /\ lp' = [lp EXCEPT ![u] = lp[u] + r - MINIMUM_LIQUIDITY]
        /\ balance' = [a |-> balance["a"] + n, b |-> balance["b"] + k]
        /\ pool' = [[pool EXCEPT !.reserve = balance'] EXCEPT !.lp_supply = r]
    BY <1>0, <1>8 DEF Bootstrap, synced
  <2>2. r \in Nat /\ r * r <= n * k /\ n * k < (r + 1) * (r + 1)
    <3>1. n * k \in Nat
      BY <2>1
    <3> QED BY <3>1, SqrtIsRoot DEF IsRoot
  <2> HIDE DEF r
  <2>3. r # 0 /\ n # 0 /\ k # 0
    <3>1. r \in Nat \ {0}
      BY <1>0, <2>1, <2>2
    <3>2. r * r > 0
      BY <3>1
    <3> QED BY <2>1, <2>2, <3>1, <3>2
  <2>4. /\ balance' \in [Sides -> Nat]
        /\ balance'["a"] = balance["a"] + n /\ balance'["b"] = balance["b"] + k
    BY <1>0, <2>1 DEF Sides
  <2>5. \A x \in Sides : balance'[x] > 0
    BY <1>0, <2>1, <2>3, <2>4 DEF Sides
  <2>6. pool' \in PoolState /\ pool'.lp_supply = r
    BY <1>0, <2>1, <2>2, <2>4 DEF PoolState
  <2>7. lp' \in [Users -> Nat] /\ Outside' = d
    <3>1. d \in Int /\ lp[u] + d \in Nat /\ lp[u] + d = lp[u] + r - MINIMUM_LIQUIDITY
      BY <1>0, <2>1, <2>2
    <3>2. lp' = [lp EXCEPT ![u] = lp[u] + d]
      BY <2>1, <3>1
    <3> HIDE DEF d
    <3>3. lp' \in [Users -> Nat] /\ Outside' = Outside + d
      BY <3>1, <3>2, LpChange
    <3> QED BY <1>0, <2>1, <3>1, <3>3
  <2>8. SwapInv'
    <3>1. r >= Outside' + MINIMUM_LIQUIDITY
      BY <1>0, <2>2, <2>7
    <3> HIDE DEF d
    <3> QED BY <1>1, <2>3, <2>4, <2>5, <2>6, <2>7, <3>1
  <2>9. RootStep
    <3>1. balance'["a"] - balance["a"] = n /\ balance'["b"] - balance["b"] = k
      BY <1>0, <2>1, <2>4
    <3> QED BY <2>2, <2>6, <3>1 DEF RootStep
  <2> QED BY <2>1, <2>8, <2>9 DEF KeepStep
<1> QED BY <1>2, <1>3, <1>4, <1>5, <1>6, <1>7, <1>8 DEF Next

-----------------------------------------------------------------------------
(***************************************************************************)
(* The theorems.                                                           *)
(***************************************************************************)

LEMMA SwapInvariant == Spec => []SwapInv
<1>1. SwapInv /\ [Next]_vars => SwapInv'
  BY SwapSteps
<1> QED BY <1>1, SwapInitInv, PTL DEF Spec

\* Whatever is burned behind the pool's back, its count of liquidity tokens
\* covers the ones outside and the amount locked at the first deposit.
THEOREM LockedAmountStays == Spec => []LockedForever
<1>1. SwapInv => LockedForever
  BY DEF SwapInv
<1> QED BY <1>1, SwapInvariant, PTL

\* No sequence of swaps, deposits, redemptions and donations empties a reserve
\* of a pool with liquidity.
THEOREM PoolNeverDrained == Spec => []NeverDrained
<1>1. SwapInv => NeverDrained
  BY DEF SwapInv
<1> QED BY <1>1, SwapInvariant, PTL

\* Neither a swap, whatever the fee, nor a redemption lowers the product of the
\* reserves per squared liquidity token.
THEOREM ProvidersValueKept == Spec => ProvidersKeepValue
<1>1. SwapInv /\ [Next]_vars => [KeepStep]_vars
  BY SwapSteps
<1>2. Spec => [][KeepStep]_vars
  BY <1>1, SwapInvariant, PTL DEF Spec
<1> QED BY <1>2 DEF ProvidersKeepValue, KeepStep

\* The first deposit is credited the integer square root of the product of what
\* it pays in.
THEOREM FirstDepositIsRoot == Spec => BootstrapIsRoot
<1>1. SwapInv /\ [Next]_vars => [RootStep]_vars
  BY SwapSteps
<1>2. Spec => [][RootStep]_vars
  BY <1>1, SwapInvariant, PTL DEF Spec
<1> QED BY <1>2 DEF BootstrapIsRoot, RootStep

-----------------------------------------------------------------------------
(***************************************************************************)
(* The price feed.  That the median exists is shown by picking, twice, the *)
(* least of a set of numbers; then a counting argument.                    *)
(***************************************************************************)
LEMMA LeastOf ==
  ASSUME NEW S, S \subseteq Nat, S # {}
  PROVE  \E x \in S : \A y \in S : x <= y
<1> SUFFICES ASSUME \A x \in S : \E y \in S : y < x PROVE FALSE
  OBVIOUS
<1> DEFINE P == Nat \ S
<1>1. ASSUME NEW n \in Nat, \A k \in 0 .. n - 1 : k \in P PROVE n \in P
  <2>1. \A y \in S : ~(y < n)
    BY <1>1
  <2> QED BY <2>1
<1>2. Nat \subseteq P
  <2> HIDE DEF P
  <2> QED BY <1>1, NatInductionSet
<1> QED BY <1>2

\* Who of F posted below x, and who up to x, if price says what each posted.
BelowIn(F, price, x) == {p \in F : price[p] < x}
UpToIn(F, price, x) == {p \in F : price[p] <= x}

LEMMA CountBounds ==
  ASSUME NEW F, IsFiniteSet(F), NEW price, NEW x
  PROVE  /\ IsFiniteSet(BelowIn(F, price, x)) /\ IsFiniteSet(UpToIn(F, price, x))
         /\ Cardinality(BelowIn(F, price, x)) \in Nat /\ Cardinality(UpToIn(F, price, x)) \in Nat
         /\ Cardinality(BelowIn(F, price, x)) <= Cardinality(F)
         /\ Cardinality(UpToIn(F, price, x)) <= Cardinality(F)
<1>1. BelowIn(F, price, x) \in SUBSET F /\ UpToIn(F, price, x) \in SUBSET F
  BY DEF BelowIn, UpToIn
<1> HIDE DEF BelowIn, UpToIn
<1> QED BY <1>1, FS_Subset, FS_CardinalityType

LEMMA MedianExists ==
  ASSUME NEW F, IsFiniteSet(F), NEW price \in [F -> Nat], NEW mid \in Nat, mid < Cardinality(F)
  PROVE  \E p \in F : /\ Cardinality(BelowIn(F, price, price[p])) <= mid
                      /\ mid < Cardinality(UpToIn(F, price, price[p]))
<1> DEFINE U(x) == UpToIn(F, price, x)
           B(x) == BelowIn(F, price, x)
           High == {p \in F : mid < Cardinality(U(price[p]))}
<1>0. /\ Cardinality(F) \in Nat
      /\ \A x : /\ IsFiniteSet(U(x)) /\ Cardinality(U(x)) \in Nat /\ Cardinality(U(x)) <= Cardinality(F)
                /\ Cardinality(B(x)) \in Nat
  BY CountBounds, FS_CardinalityType
<1>1. High # {}
  \* Somebody's post is not below anybody's.
  <2> DEFINE Rest == {Cardinality(F) - Cardinality(U(price[p])) : p \in F}
  <2>1. F # {}
    BY FS_EmptySet
  <2>2. Rest \subseteq Nat /\ Rest # {}
    BY <1>0, <2>1
  <2>3. PICK p \in F : \A q \in F : Cardinality(F) - Cardinality(U(price[p]))
                                      <= Cardinality(F) - Cardinality(U(price[q]))
    <3>1. PICK x \in Rest : \A y \in Rest : x <= y
      <4> HIDE DEF Rest
      <4> QED BY <2>2, LeastOf
    <3> QED BY <3>1
  <2>4. \A q \in F : Cardinality(U(price[q])) <= Cardinality(U(price[p]))
    BY <1>0, <2>3
  <2>5. U(price[p]) = F
    <3> SUFFICES ASSUME NEW q \in F, q \notin U(price[p]) PROVE FALSE
      BY DEF UpToIn
    <3>1. price[p] < price[q] /\ price[p] \in Nat /\ price[q] \in Nat
      BY DEF UpToIn
    <3>2. U(price[p]) \subseteq U(price[q]) /\ q \in U(price[q])
      BY <3>1 DEF UpToIn
    <3>3. U(price[p]) \in SUBSET U(price[q]) /\ U(price[p]) # U(price[q])
      BY <3>2
    <3> DEFINE a == U(price[p])
               b == U(price[q])
    <3>4. a \in SUBSET b /\ a # b /\ IsFiniteSet(b) /\ Cardinality(b) <= Cardinality(a)
          /\ Cardinality(a) \in Nat /\ Cardinality(b) \in Nat
      BY <1>0, <2>4, <3>3
    <3> HIDE DEF a, b
    <3> QED BY <3>4, FS_Subset
  <2> QED BY <2>5
<1>2. PICK p \in High : \A q \in High : price[p] <= price[q]
  <2> DEFINE S == {price[q] : q \in High}
  <2>1. S \subseteq Nat /\ S # {}
    BY <1>1
  <2>2. PICK x \in S : \A y \in S : x <= y
    <3> HIDE DEF S
    <3> QED BY <2>1, LeastOf
  <2> QED BY <2>2
<1>3. Cardinality(B(price[p])) <= mid
  <2> SUFFICES ASSUME mid < Cardinality(B(price[p])) PROVE FALSE
    BY <1>0
  <2> DEFINE Gaps == {price[p] - price[q] : q \in B(price[p])}
  <2>1. B(price[p]) # {}
    BY FS_EmptySet
  <2>2. Gaps \subseteq Nat /\ Gaps # {}
    BY <2>1 DEF BelowIn
  <2>3. PICK q \in B(price[p]) : \A r \in B(price[p]) : price[p] - price[q] <= price[p] - price[r]
    <3>1. PICK x \in Gaps : \A y \in Gaps : x <= y
      <4> HIDE DEF Gaps
      <4> QED BY <2>2, LeastOf
    <3> QED BY <3>1
  <2>4. q \in F /\ price[q] < price[p] /\ \A r \in B(price[p]) : price[r] <= price[q]
    BY <2>3 DEF BelowIn
  <2>5. B(price[p]) = U(price[q])
    BY <2>4 DEF BelowIn, UpToIn
  <2>6. q \in High
    BY <2>4, <2>5
  <2> QED BY <1>2, <2>4, <2>6
<1> QED BY <1>2, <1>3

\* The posts that subs holds are from finitely many publishers.
Posts(subs) == DOMAIN subs \in SUBSET Publishers /\ subs \in [DOMAIN subs -> Submission]

LEMMA FreshFinite ==
  ASSUME NEW subs, Posts(subs), NEW now
  PROVE  /\ IsFiniteSet(Fresh(subs, now)) /\ fresh_count(subs, now) \in Nat
         /\ Fresh(subs, now) \subseteq DOMAIN subs
         /\ \A p \in Fresh(subs, now) : subs[p].price \in Nat \ {0}
<1>1. Fresh(subs, now) \in SUBSET Publishers
  BY DEF Fresh, Posts
<1>2. IsFiniteSet(Fresh(subs, now))
  BY <1>1, OracleAssumption, FS_Subset
<1>3. \A p \in Fresh(subs, now) : p \in DOMAIN subs /\ subs[p].price \in Nat \ {0}
  BY DEF Fresh, submission_fresh, Posts, Submission
<1> QED BY <1>2, <1>3, FS_CardinalityType DEF fresh_count

Middle(F, subs, mid, x) ==
  /\ Cardinality({q \in F : subs[q].price < x}) <= mid
  /\ mid < Cardinality({q \in F : subs[q].price <= x})

\* What fresh_median returns: somebody's fresh price, with at most mid fresh ones
\* below it and more than mid up to it.
LEMMA MedianIs ==
  ASSUME NEW subs, Posts(subs), NEW now, fresh_count(subs, now) >= 1,
         NEW F, F = Fresh(subs, now), NEW n, n = fresh_count(subs, now)
  PROVE  \E p \in F : /\ fresh_median(subs, now) = subs[p].price
                      /\ Middle(F, subs, (n - 1) \div 2, subs[p].price)
<1>0. IsFiniteSet(F) /\ n \in Nat /\ n = Cardinality(F) /\ \A p \in F : subs[p].price \in Nat
  BY FreshFinite DEF fresh_count
<1> DEFINE mid == (n - 1) \div 2
           price == [p \in F |-> subs[p].price]
<1>1. mid \in Nat /\ mid < Cardinality(F) /\ price \in [F -> Nat]
  BY <1>0
<1>2. \A x : /\ BelowIn(F, price, x) = {q \in F : subs[q].price < x}
             /\ UpToIn(F, price, x) = {q \in F : subs[q].price <= x}
  BY DEF BelowIn, UpToIn
<1>3. \E p \in F : Middle(F, subs, mid, subs[p].price)
  <2>1. \E p \in F : /\ Cardinality(BelowIn(F, price, price[p])) <= mid
                     /\ mid < Cardinality(UpToIn(F, price, price[p]))
    <3> HIDE DEF mid, price
    <3> QED BY <1>0, <1>1, MedianExists
  <2>2. PICK p \in F : /\ Cardinality(BelowIn(F, price, price[p])) <= mid
                       /\ mid < Cardinality(UpToIn(F, price, price[p]))
    BY <2>1
  <2>3. price[p] = subs[p].price
    OBVIOUS
  <2> HIDE DEF mid, price
  <2> QED BY <1>2, <2>2, <2>3 DEF Middle
<1>4. fresh_median(subs, now) = CHOOSE x \in {subs[p].price : p \in F} : Middle(F, subs, mid, x)
  BY DEF fresh_median, Middle
<1> HIDE DEF mid
<1>5. fresh_median(subs, now) \in {subs[p].price : p \in F} /\ Middle(F, subs, mid, fresh_median(subs, now))
  BY <1>3, <1>4
<1>6. PICK p \in F : fresh_median(subs, now) = subs[p].price
  BY <1>5
<1> QED BY <1>5, <1>6 DEF mid

-----------------------------------------------------------------------------
LEMMA OracleStarts == OracleInit => OracleTypeOK
<1> SUFFICES ASSUME OracleInit PROVE OracleTypeOK
  OBVIOUS
<1>1. feed \in [price : Nat, publish_ts : Nat, max_deviation_bps : Deviations,
                max_submission_age : Ages]
  BY DEF OracleInit
<1>2. /\ {authority} \in SUBSET Publishers /\ authority \in {authority}
      /\ Cardinality({authority}) <= MAX_PUBLISHERS
      /\ submissions \in [{authority} -> Submission]
  BY OracleAssumption, FS_Singleton DEF OracleInit, NoSubmission, Submission
<1>3. truth \in Prices /\ changes \in 0 .. MaxChanges
  BY OracleAssumption DEF OracleInit
<1> QED BY <1>1, <1>2, <1>3 DEF OracleTypeOK

LEMMA PostsTyped == OracleTypeOK => Posts(submissions) /\ IsFiniteSet(DOMAIN submissions)
                                    /\ authority \in DOMAIN submissions
                                    /\ Cardinality(DOMAIN submissions) <= MAX_PUBLISHERS
BY OracleAssumption, FS_Subset DEF OracleTypeOK, Posts

\* What a post does: it is recorded, and the aggregate stays or becomes the median.
LEMMA UpdateIs ==
  ASSUME OracleTypeOK, NEW p \in Publishers, NEW price \in Prices, NEW now \in Times,
         UpdatePrice(p, price, now)
  PROVE  /\ DOMAIN submissions' = DOMAIN submissions /\ Posts(submissions')
         /\ \/ feed' = feed
            \/ /\ feed'.price = fresh_median(submissions', now) /\ feed'.publish_ts = now
               /\ fresh_count(submissions', now) >= 1
               /\ feed' = [feed EXCEPT !.price = fresh_median(submissions', now), !.publish_ts = now]
<1>1. Posts(submissions) /\ price \in Nat /\ now \in Nat
  BY PostsTyped, OracleAssumption
<1>2. submissions' = [submissions EXCEPT ![p] = [price |-> price, publish_ts |-> now]]
  BY DEF UpdatePrice
<1>3. DOMAIN submissions' = DOMAIN submissions /\ Posts(submissions')
  BY <1>1, <1>2 DEF Posts, Submission
<1>4. PICK subs : subs = submissions'
  OBVIOUS
<1>5. \/ feed' = feed
      \/ /\ fresh_count(subs, now) >= fresh_quorum(subs)
         /\ feed' = [feed EXCEPT !.price = fresh_median(subs, now), !.publish_ts = now]
  BY <1>2, <1>4 DEF UpdatePrice
<1>6. fresh_count(subs, now) \in Nat
  BY <1>3, <1>4, FreshFinite
<1>7. fresh_quorum(subs) \in {1, 2}
  BY DEF fresh_quorum
<1>8. CASE feed' = feed
  BY <1>3, <1>8
<1>9. CASE feed' # feed
  <2>1. fresh_count(subs, now) >= 1
    BY <1>5, <1>6, <1>7, <1>9
  <2>2. feed' = [feed EXCEPT !.price = fresh_median(subs, now), !.publish_ts = now]
    BY <1>5, <1>9
  <2>3. feed'.price = fresh_median(subs, now) /\ feed'.publish_ts = now
    BY <2>2 DEF OracleTypeOK
  <2> QED BY <1>3, <1>4, <2>1, <2>2, <2>3
<1> QED BY <1>8, <1>9

LEMMA OracleSteps == OracleTypeOK /\ [OracleNext]_oracleVars => OracleTypeOK'
<1> SUFFICES ASSUME OracleTypeOK, [OracleNext]_oracleVars PROVE OracleTypeOK'
  OBVIOUS
<1>0. /\ Posts(submissions) /\ IsFiniteSet(DOMAIN submissions) /\ authority \in DOMAIN submissions
      /\ Cardinality(DOMAIN submissions) <= MAX_PUBLISHERS
      /\ Cardinality(DOMAIN submissions) \in Nat
  BY PostsTyped, FS_CardinalityType
<1>1. ASSUME NEW p \in Publishers, NEW price \in Prices, NEW now \in Times, UpdatePrice(p, price, now)
      PROVE  OracleTypeOK'
  <2>1. /\ DOMAIN submissions' = DOMAIN submissions /\ Posts(submissions')
        /\ truth' = truth /\ changes' = changes
    BY <1>1, UpdateIs DEF UpdatePrice
  <2>2. feed' \in [price : Nat, publish_ts : Nat, max_deviation_bps : Deviations,
                   max_submission_age : Ages]
    <3>1. CASE feed' = feed
      BY <3>1 DEF OracleTypeOK
    <3>2. CASE feed' # feed
      <4>1. PICK subs : subs = submissions'
        OBVIOUS
      <4>2. /\ feed' = [feed EXCEPT !.price = fresh_median(subs, now), !.publish_ts = now]
            /\ fresh_count(subs, now) >= 1
        BY <1>1, <3>2, <4>1, UpdateIs
      <4>3. \E q \in Fresh(subs, now) : fresh_median(subs, now) = subs[q].price
        BY <2>1, <4>1, <4>2, MedianIs
      <4>4. fresh_median(subs, now) \in Nat
        BY <2>1, <4>1, <4>3, FreshFinite
      <4> QED BY <4>2, <4>4, OracleAssumption DEF OracleTypeOK
    <3> QED BY <3>1, <3>2
  <2>3. /\ DOMAIN submissions \in SUBSET Publishers
        /\ submissions' \in [DOMAIN submissions -> Submission]
    BY <1>0, <2>1 DEF Posts
  <2> QED BY <1>0, <2>1, <2>2, <2>3 DEF OracleTypeOK
<1>2. ASSUME NEW p \in Publishers, AddPublisher(p) PROVE OracleTypeOK'
  <2> DEFINE D == DOMAIN submissions \union {p}
  <2>1. D \in SUBSET Publishers /\ authority \in D /\ submissions' \in [D -> Submission]
    BY <1>0, <1>2, OracleAssumption DEF AddPublisher, Posts, Submission, NoSubmission
  <2>2. Cardinality(D) <= MAX_PUBLISHERS
    <3>1. Cardinality(D) = Cardinality(DOMAIN submissions) + 1
      BY <1>0, <1>2, FS_AddElement DEF AddPublisher
    <3> QED BY <1>0, <1>2, <3>1, OracleAssumption DEF AddPublisher
  <2>3. changes' \in 0 .. MaxChanges
    BY <1>2, OracleAssumption DEF OracleTypeOK, AddPublisher
  <2>4. feed' = feed /\ truth' = truth
    BY <1>2 DEF AddPublisher
  <2> HIDE DEF D
  <2> QED BY <2>1, <2>2, <2>3, <2>4 DEF OracleTypeOK
<1>3. ASSUME NEW p \in Publishers, RemovePublisher(p) PROVE OracleTypeOK'
  <2> DEFINE D == DOMAIN submissions \ {p}
  <2>1. D \in SUBSET Publishers /\ authority \in D /\ submissions' \in [D -> Submission]
    BY <1>0, <1>3 DEF RemovePublisher, Posts
  <2>2. Cardinality(D) <= MAX_PUBLISHERS
    <3>1. D \in SUBSET DOMAIN submissions
      OBVIOUS
    <3>2. Cardinality(D) <= Cardinality(DOMAIN submissions) /\ Cardinality(D) \in Nat
      <4> HIDE DEF D
      <4> QED BY <1>0, <3>1, FS_Subset, FS_CardinalityType
    <3> QED BY <1>0, <3>2, OracleAssumption
  <2>3. changes' \in 0 .. MaxChanges
    BY <1>3, OracleAssumption DEF OracleTypeOK, RemovePublisher
  <2>4. feed' = feed /\ truth' = truth
    BY <1>3 DEF RemovePublisher
  <2> HIDE DEF D
  <2> QED BY <2>1, <2>2, <2>3, <2>4 DEF OracleTypeOK
<1>4. CASE TruthMoves
  BY <1>4, OracleAssumption DEF TruthMoves, OracleTypeOK
<1>5. CASE UNCHANGED oracleVars
  BY <1>5 DEF oracleVars, OracleTypeOK
<1>6. CASE \E p \in Honest : HonestUpdate(p)
  BY <1>1, <1>6, OracleAssumption DEF HonestUpdate, OracleTypeOK
<1> QED BY <1>1, <1>2, <1>3, <1>4, <1>5, <1>6 DEF OracleNext

\* OracleTypeOK: the aggregate, the posts and the limits keep their types, and no
\* more publishers are registered than the feed has room for.
THEOREM OracleTypes == OracleSpec => []OracleTypeOK
BY OracleStarts, OracleSteps, PTL DEF OracleSpec

\* Of two publishers one is honest.
LEMMA OneHonest ==
  ASSUME Cardinality(Publishers \ Honest) <= 1, NEW S, S \subseteq Publishers, Cardinality(S) >= 2
  PROVE  S \cap Honest # {}
<1> SUFFICES ASSUME S \cap Honest = {} PROVE FALSE
  OBVIOUS
<1>1. S \in SUBSET (Publishers \ Honest) /\ Publishers \ Honest \in SUBSET Publishers
  OBVIOUS
<1>2. IsFiniteSet(Publishers \ Honest)
  BY <1>1, OracleAssumption, FS_Subset
<1>3. Cardinality(S) <= Cardinality(Publishers \ Honest) /\ IsFiniteSet(S)
  BY <1>1, <1>2, FS_Subset
<1> QED BY <1>2, <1>3, FS_CardinalityType

\* Among three fresh posts at least two are up to the median and two from it on.
LEMMA MedianAmongHonest ==
  ASSUME Cardinality(Publishers \ Honest) <= 1, NEW subs, Posts(subs), NEW now,
         fresh_count(subs, now) >= 3
  PROVE  \E lo, hi \in Honest \cap DOMAIN subs :
           /\ subs[lo].price <= fresh_median(subs, now) /\ fresh_median(subs, now) <= subs[hi].price
           /\ subs[lo].price # 0 /\ subs[hi].price # 0
<1> DEFINE F == Fresh(subs, now)
           n == fresh_count(subs, now)
<1>0. /\ IsFiniteSet(F) /\ n \in Nat /\ n = Cardinality(F) /\ F \subseteq DOMAIN subs
      /\ \A p \in F : subs[p].price \in Nat \ {0}
      /\ F \subseteq Publishers
  BY FreshFinite DEF fresh_count, Posts
<1>1. n >= 3 /\ (n - 1) \div 2 >= 1 /\ n - (n - 1) \div 2 >= 2 /\ (n - 1) \div 2 \in Nat
  <2>1. n >= 3
    OBVIOUS
  <2> HIDE DEF n
  <2> QED BY <1>0, <2>1
<1>2. \E p \in F : /\ fresh_median(subs, now) = subs[p].price
                   /\ Middle(F, subs, (n - 1) \div 2, subs[p].price)
  <2>1. fresh_count(subs, now) >= 1 /\ F = Fresh(subs, now) /\ n = fresh_count(subs, now)
    BY <1>0
  <2> HIDE DEF F, n
  <2> QED BY <2>1, MedianIs
<1> HIDE DEF F, n
<1>3. PICK p \in F : /\ fresh_median(subs, now) = subs[p].price
                     /\ Cardinality({q \in F : subs[q].price < subs[p].price}) <= (n - 1) \div 2
                     /\ (n - 1) \div 2 < Cardinality({q \in F : subs[q].price <= subs[p].price})
  BY <1>2 DEF Middle
<1> DEFINE x == subs[p].price
           Low == {q \in F : subs[q].price < x}
           UpTo == {q \in F : subs[q].price <= x}
           From == F \ Low
<1>4. /\ Low \in SUBSET F /\ UpTo \in SUBSET F /\ From \in SUBSET F
      /\ \A q \in From : x <= subs[q].price
      /\ \A q \in UpTo : subs[q].price <= x
  BY <1>0
<1>5. Cardinality(Low) <= (n - 1) \div 2 /\ (n - 1) \div 2 < Cardinality(UpTo)
      /\ fresh_median(subs, now) = x
  BY <1>3
<1> HIDE DEF x, Low, UpTo
<1>6. /\ IsFiniteSet(Low) /\ Cardinality(Low) \in Nat /\ Cardinality(UpTo) \in Nat
      /\ Cardinality(From) = Cardinality(F) - Cardinality(Low)
  <2>1. IsFiniteSet(Low) /\ IsFiniteSet(UpTo)
    BY <1>0, <1>4, FS_Subset
  <2>2. F \cap Low = Low
    BY <1>4
  <2>3. Cardinality(From) = Cardinality(F) - Cardinality(F \cap Low)
    BY <1>0, <2>1, FS_Difference
  <2> QED BY <2>1, <2>2, <2>3, FS_CardinalityType
<1> HIDE DEF From
<1>7. Cardinality(From) >= 2 /\ Cardinality(UpTo) >= 2
  BY <1>0, <1>1, <1>5, <1>6
<1>8. From \cap Honest # {} /\ UpTo \cap Honest # {}
  <2>1. From \subseteq Publishers /\ UpTo \subseteq Publishers
    BY <1>0, <1>4
  <2> QED BY <1>7, <2>1, OneHonest
<1>9. PICK lo \in UpTo \cap Honest, hi \in From \cap Honest : TRUE
  BY <1>8
<1> QED BY <1>0, <1>4, <1>5, <1>9

\* FreshGlitchContained: with at most one publisher that is not honest, a median of
\* three or more fresh posts lies between posts of honest ones.
THEOREM GlitchContained ==
  ASSUME Cardinality(Publishers \ Honest) <= 1
  PROVE  OracleSpec => FreshGlitchContained
<1>1. ASSUME OracleTypeOK, [OracleNext]_oracleVars
      PROVE  [feed' # feed /\ fresh_count(submissions', feed'.publish_ts) >= 3
                => Between(feed'.price, HonestPrices')]_oracleVars
  <2> SUFFICES ASSUME feed' # feed, fresh_count(submissions', feed'.publish_ts) >= 3
               PROVE  Between(feed'.price, HonestPrices')
    OBVIOUS
  <2>1. PICK p \in Publishers, price \in Prices, now \in Times : UpdatePrice(p, price, now)
    BY <1>1, OracleAssumption DEF OracleNext, oracleVars, HonestUpdate, AddPublisher,
       RemovePublisher, TruthMoves, OracleTypeOK
  <2>2. PICK subs : subs = submissions'
    OBVIOUS
  <2>3. Posts(subs) /\ feed'.price = fresh_median(subs, now) /\ feed'.publish_ts = now
    BY <1>1, <2>1, <2>2, UpdateIs
  <2>4. fresh_count(subs, now) >= 3
    BY <2>2, <2>3
  <2>5. PICK lo \in Honest \cap DOMAIN subs, hi \in Honest \cap DOMAIN subs :
           /\ subs[lo].price <= feed'.price /\ feed'.price <= subs[hi].price
           /\ subs[lo].price # 0 /\ subs[hi].price # 0
    BY <2>3, <2>4, MedianAmongHonest
  <2>6. subs[lo].price \in HonestPrices' /\ subs[hi].price \in HonestPrices'
    BY <2>2, <2>5 DEF HonestPrices
  <2> QED BY <2>5, <2>6 DEF Between
<1> QED BY <1>1, OracleTypes, PTL DEF OracleSpec, FreshGlitchContained

-----------------------------------------------------------------------------
(***************************************************************************)
(* Runes.  The sums of SupplyIsHeld as sums of functions of the accounts   *)
(* h, so that a step is a change of these functions in one or two places.  *)
(***************************************************************************)
CircOf(h) == [k \in RuneKeys |-> IF h[k].kind = "etching" THEN h[k].minted - h[k].burned ELSE 0]
AmountsOf(h) == [k \in RuneKeys |-> IF h[k].kind = "balance" THEN h[k].amount ELSE 0]
RuneOf(h, r) ==
  [k \in RuneKeys |-> IF h[k].kind = "balance" /\ h[k].rune = r THEN h[k].amount ELSE 0]

\* What an account can hold.
EtchingOK(e) ==
  /\ DOMAIN e = {"kind", "terms", "short", "mints", "minted", "burned"} /\ e.kind = "etching"
  /\ e.terms \in Terms \cup {NoTerms}
  /\ e.mints \in Nat /\ e.minted \in Nat /\ e.burned \in Nat
BalanceOK(b) == b = RuneBalance(b.rune, b.amount) /\ b.amount \in Nat
HeldOK(h) ==
  /\ DOMAIN h = RuneKeys
  /\ \A k \in RuneKeys : h[k] = Nothing \/ EtchingOK(h[k]) \/ BalanceOK(h[k])

Balanced(h) == SumFunction(CircOf(h)) = SumFunction(AmountsOf(h))
\* Each rune's balances hold what it has in circulation, and no balance holds a rune
\* that was not etched: what an etching finds of its rune is nothing.
RunesApart(h) ==
  /\ \A r \in RuneKeys : h[r].kind = "etching" => CircOf(h)[r] = SumFunction(RuneOf(h, r))
  /\ \A b \in RuneKeys : h[b].kind = "balance" /\ h[b].amount > 0
                           => h[b].rune \in RuneKeys /\ h[h[b].rune].kind = "etching"

LEMMA Kinds ==
  /\ Nothing.kind = "nothing"
  /\ \A e : EtchingOK(e) => e.kind = "etching"
  /\ \A b : BalanceOK(b) => b.kind = "balance"
BY DEF Nothing, EtchingOK, BalanceOK, RuneEtching, RuneBalance

LEMMA SumsTyped ==
  ASSUME NEW h, HeldOK(h)
  PROVE  /\ CircOf(h) \in [RuneKeys -> Int] /\ AmountsOf(h) \in [RuneKeys -> Int]
         /\ \A r : RuneOf(h, r) \in [RuneKeys -> Int]
         /\ SumFunction(CircOf(h)) \in Int /\ SumFunction(AmountsOf(h)) \in Int
         /\ \A r : SumFunction(RuneOf(h, r)) \in Int
<1>1. \A k \in RuneKeys : /\ h[k].kind = "etching" => h[k].minted \in Nat /\ h[k].burned \in Nat
                          /\ h[k].kind = "balance" => h[k].amount \in Nat
  BY Kinds DEF HeldOK, EtchingOK, BalanceOK
<1>2. /\ CircOf(h) \in [RuneKeys -> Int] /\ AmountsOf(h) \in [RuneKeys -> Int]
      /\ \A r : RuneOf(h, r) \in [RuneKeys -> Int]
  BY <1>1 DEF CircOf, AmountsOf, RuneOf
<1>3. \A f \in [RuneKeys -> Int] : SumFunction(f) \in Int
  BY RunesAssumption, SumIsInt DEF SumFunction
<1> QED BY <1>2, <1>3

\* A change at a, and at a and b.
LEMMA OneSlot ==
  ASSUME NEW h, NEW g, HeldOK(h), HeldOK(g), NEW a \in RuneKeys,
         \A k \in RuneKeys \ {a} : g[k] = h[k]
  PROVE  /\ SumFunction(CircOf(g)) = SumFunction(CircOf(h)) - CircOf(h)[a] + CircOf(g)[a]
         /\ SumFunction(AmountsOf(g)) = SumFunction(AmountsOf(h)) - AmountsOf(h)[a] + AmountsOf(g)[a]
         /\ \A r : SumFunction(RuneOf(g, r)) = SumFunction(RuneOf(h, r)) - RuneOf(h, r)[a] + RuneOf(g, r)[a]
<1>1. \A k \in RuneKeys \ {a} : /\ CircOf(g)[k] = CircOf(h)[k] /\ AmountsOf(g)[k] = AmountsOf(h)[k]
                                /\ \A r : RuneOf(g, r)[k] = RuneOf(h, r)[k]
  BY DEF CircOf, AmountsOf, RuneOf
<1>2. \A f, e \in [RuneKeys -> Int] : (\A k \in RuneKeys \ {a} : e[k] = f[k])
        => SumFunction(e) = SumFunction(f) - f[a] + e[a]
  BY RunesAssumption, SumOneChange
<1>3. SumFunction(CircOf(g)) = SumFunction(CircOf(h)) - CircOf(h)[a] + CircOf(g)[a]
  BY <1>1, <1>2, SumsTyped
<1>4. SumFunction(AmountsOf(g)) = SumFunction(AmountsOf(h)) - AmountsOf(h)[a] + AmountsOf(g)[a]
  BY <1>1, <1>2, SumsTyped
<1>5. ASSUME NEW r
      PROVE  SumFunction(RuneOf(g, r)) = SumFunction(RuneOf(h, r)) - RuneOf(h, r)[a] + RuneOf(g, r)[a]
  BY <1>1, <1>2, SumsTyped
<1> QED BY <1>3, <1>4, <1>5

LEMMA TwoSlots ==
  ASSUME NEW h, NEW g, HeldOK(h), HeldOK(g), NEW a \in RuneKeys, NEW b \in RuneKeys, a # b,
         \A k \in RuneKeys \ {a, b} : g[k] = h[k]
  PROVE  /\ SumFunction(CircOf(g)) = SumFunction(CircOf(h)) - CircOf(h)[a] - CircOf(h)[b]
                                       + CircOf(g)[a] + CircOf(g)[b]
         /\ SumFunction(AmountsOf(g)) = SumFunction(AmountsOf(h)) - AmountsOf(h)[a] - AmountsOf(h)[b]
                                          + AmountsOf(g)[a] + AmountsOf(g)[b]
         /\ \A r : SumFunction(RuneOf(g, r)) = SumFunction(RuneOf(h, r)) - RuneOf(h, r)[a] - RuneOf(h, r)[b]
                                                 + RuneOf(g, r)[a] + RuneOf(g, r)[b]
<1>1. \A k \in RuneKeys \ {a, b} : /\ CircOf(g)[k] = CircOf(h)[k] /\ AmountsOf(g)[k] = AmountsOf(h)[k]
                                   /\ \A r : RuneOf(g, r)[k] = RuneOf(h, r)[k]
  BY DEF CircOf, AmountsOf, RuneOf
<1>2. \A f, e \in [RuneKeys -> Int] : (\A k \in RuneKeys \ {a, b} : e[k] = f[k])
        => SumFunction(e) = SumFunction(f) - f[a] - f[b] + e[a] + e[b]
  BY RunesAssumption, SumTwoChanges
<1>3. SumFunction(CircOf(g)) = SumFunction(CircOf(h)) - CircOf(h)[a] - CircOf(h)[b]
                                 + CircOf(g)[a] + CircOf(g)[b]
  BY <1>1, <1>2, SumsTyped
<1>4. SumFunction(AmountsOf(g)) = SumFunction(AmountsOf(h)) - AmountsOf(h)[a] - AmountsOf(h)[b]
                                    + AmountsOf(g)[a] + AmountsOf(g)[b]
  BY <1>1, <1>2, SumsTyped
<1>5. ASSUME NEW r
      PROVE  SumFunction(RuneOf(g, r)) = SumFunction(RuneOf(h, r)) - RuneOf(h, r)[a] - RuneOf(h, r)[b]
                                           + RuneOf(g, r)[a] + RuneOf(g, r)[b]
  BY <1>1, <1>2, SumsTyped
<1> QED BY <1>3, <1>4, <1>5

-----------------------------------------------------------------------------
\* Of a rune that is not etched there is nothing.
LEMMA NobodyHolds ==
  ASSUME NEW h, HeldOK(h), RunesApart(h), NEW a \in RuneKeys, h[a].kind # "etching"
  PROVE  SumFunction(RuneOf(h, a)) = 0
<1>1. \A k \in RuneKeys : RuneOf(h, a)[k] = 0
  BY Kinds DEF RuneOf, RunesApart, HeldOK, BalanceOK
<1>2. DOMAIN RuneOf(h, a) = RuneKeys
  BY DEF RuneOf
<1> QED BY <1>1, <1>2, RunesAssumption, SumOfZeros

\* An account without a kind becomes an etching or a balance of nothing.
LEMMA NewSlotKeeps ==
  ASSUME NEW h, NEW g, HeldOK(h), HeldOK(g), NEW a \in RuneKeys,
         \A k \in RuneKeys \ {a} : g[k] = h[k], h[a] = Nothing,
         \/ g[a].kind = "etching" /\ g[a].minted = 0 /\ g[a].burned = 0
         \/ g[a].kind = "balance" /\ g[a].amount = 0
  PROVE  /\ Balanced(h) => Balanced(g)
         /\ RunesApart(h) => RunesApart(g)
<1>1. /\ CircOf(h)[a] = 0 /\ AmountsOf(h)[a] = 0 /\ \A r : RuneOf(h, r)[a] = 0
      /\ CircOf(g)[a] = 0 /\ AmountsOf(g)[a] = 0 /\ \A r : RuneOf(g, r)[a] = 0
  BY Kinds DEF CircOf, AmountsOf, RuneOf
<1>2. /\ SumFunction(CircOf(g)) = SumFunction(CircOf(h))
      /\ SumFunction(AmountsOf(g)) = SumFunction(AmountsOf(h))
      /\ \A r : SumFunction(RuneOf(g, r)) = SumFunction(RuneOf(h, r))
  BY <1>1, OneSlot, SumsTyped
<1>3. ASSUME RunesApart(h) PROVE RunesApart(g)
  <2>1. ASSUME NEW r \in RuneKeys, g[r].kind = "etching" PROVE CircOf(g)[r] = SumFunction(RuneOf(g, r))
    <3>1. CASE r # a
      <4>1. CircOf(g)[r] = CircOf(h)[r] /\ h[r].kind = "etching"
        BY <2>1, <3>1 DEF CircOf
      <4> QED BY <1>2, <1>3, <4>1 DEF RunesApart
    <3>2. CASE r = a
      <4>1. SumFunction(RuneOf(h, a)) = 0
        BY <1>3, Kinds, NobodyHolds
      <4> QED BY <1>1, <1>2, <3>2, <4>1
    <3> QED BY <3>1, <3>2
  <2>2. ASSUME NEW b \in RuneKeys, g[b].kind = "balance", g[b].amount > 0
        PROVE  g[b].rune \in RuneKeys /\ g[g[b].rune].kind = "etching"
    <3>1. b # a /\ g[b] = h[b]
      BY <2>2
    <3>2. h[b].rune \in RuneKeys /\ h[h[b].rune].kind = "etching" /\ h[b].rune # a
      BY <1>3, <2>2, <3>1, Kinds DEF RunesApart
    <3> QED BY <3>1, <3>2
  <2> QED BY <2>1, <2>2 DEF RunesApart
<1> QED BY <1>2, <1>3 DEF Balanced

\* Etchings stay etchings: what a balance not changed names is still etched.
LEMMA NamesKept ==
  ASSUME NEW h, NEW g, RunesApart(h), NEW b \in RuneKeys, g[b] = h[b],
         \A r \in RuneKeys : h[r].kind = "etching" => g[r].kind = "etching",
         g[b].kind = "balance", g[b].amount > 0
  PROVE  g[b].rune \in RuneKeys /\ g[g[b].rune].kind = "etching"
BY DEF RunesApart

\* An etching at a puts n into circulation, into the balance at b.
LEMMA CreditKeeps ==
  ASSUME NEW h, NEW g, HeldOK(h), HeldOK(g), NEW a \in RuneKeys, NEW b \in RuneKeys, a # b,
         \A k \in RuneKeys \ {a, b} : g[k] = h[k], NEW n \in Nat,
         h[a] = Nothing \/ h[a].kind = "etching",
         g[a].kind = "etching", CircOf(g)[a] = CircOf(h)[a] + n,
         h[b] = Nothing \/ h[b].kind = "balance",
         g[b].kind = "balance", g[b].rune = a, g[b].amount = AmountsOf(h)[b] + n
  PROVE  /\ Balanced(h) => Balanced(g)
         /\ RunesApart(h) /\ ~(h[b].kind = "balance" /\ h[b].rune # a /\ h[b].amount > 0)
              => RunesApart(g)
<1>0. /\ CircOf(h)[a] \in Int /\ AmountsOf(h)[b] \in Nat
      /\ (h[b].kind = "balance" => AmountsOf(h)[b] = h[b].amount /\ h[b].amount \in Nat)
      /\ h[b].kind # "etching" /\ h[a].kind # "balance" /\ (h[b].kind = "balance" \/ h[b].kind = "nothing")
  BY Kinds, SumsTyped DEF AmountsOf, HeldOK, BalanceOK
<1>1. /\ CircOf(h)[b] = 0 /\ CircOf(g)[b] = 0 /\ AmountsOf(h)[a] = 0 /\ AmountsOf(g)[a] = 0
      /\ AmountsOf(g)[b] = AmountsOf(h)[b] + n
      /\ \A r : RuneOf(h, r)[a] = 0 /\ RuneOf(g, r)[a] = 0
  BY <1>0 DEF CircOf, AmountsOf, RuneOf
<1>2. ASSUME Balanced(h) PROVE Balanced(g)
  BY <1>0, <1>1, <1>2, TwoSlots, SumsTyped DEF Balanced
<1>3. ASSUME RunesApart(h), ~(h[b].kind = "balance" /\ h[b].rune # a /\ h[b].amount > 0)
      PROVE  RunesApart(g)
  <2>1. /\ RuneOf(h, a)[b] = AmountsOf(h)[b] /\ RuneOf(g, a)[b] = AmountsOf(h)[b] + n
        /\ \A r \in RuneKeys \ {a} : RuneOf(h, r)[b] = 0 /\ RuneOf(g, r)[b] = 0
    BY <1>0, <1>3 DEF RuneOf, AmountsOf
  <2>2. /\ SumFunction(RuneOf(g, a)) = SumFunction(RuneOf(h, a)) + n
        /\ \A r \in RuneKeys \ {a} : SumFunction(RuneOf(g, r)) = SumFunction(RuneOf(h, r))
    <3>1. \A r : /\ SumFunction(RuneOf(g, r)) = SumFunction(RuneOf(h, r)) - RuneOf(h, r)[a] - RuneOf(h, r)[b]
                                                 + RuneOf(g, r)[a] + RuneOf(g, r)[b]
                 /\ SumFunction(RuneOf(h, r)) \in Int
      BY TwoSlots, SumsTyped
    <3> QED BY <1>0, <1>1, <2>1, <3>1
  <2>3. SumFunction(RuneOf(h, a)) = CircOf(h)[a]
    <3>1. CASE h[a].kind = "etching"
      BY <1>3, <3>1 DEF RunesApart
    <3>2. CASE h[a].kind # "etching"
      BY <1>3, <3>2, NobodyHolds DEF CircOf
    <3> QED BY <3>1, <3>2
  <2>4. ASSUME NEW r \in RuneKeys, g[r].kind = "etching" PROVE CircOf(g)[r] = SumFunction(RuneOf(g, r))
    <3>1. CASE r = a
      BY <2>2, <2>3, <3>1
    <3>2. CASE r # a
      <4>1. r # b /\ g[r] = h[r]
        BY <2>4, <3>2
      <4>2. CircOf(g)[r] = CircOf(h)[r] /\ h[r].kind = "etching"
        BY <2>4, <4>1 DEF CircOf
      <4> QED BY <1>3, <2>2, <3>2, <4>2 DEF RunesApart
    <3> QED BY <3>1, <3>2
  <2>5. \A r \in RuneKeys : h[r].kind = "etching" => g[r].kind = "etching"
    BY <1>0
  <2>6. ASSUME NEW k \in RuneKeys, g[k].kind = "balance", g[k].amount > 0
        PROVE  g[k].rune \in RuneKeys /\ g[g[k].rune].kind = "etching"
    <3>1. CASE k = b
      BY <3>1
    <3>2. CASE k # b
      <4>1. g[k] = h[k]
        BY <2>6, <3>2
      <4> QED BY <1>3, <2>5, <2>6, <4>1, NamesKept
    <3> QED BY <3>1, <3>2
  <2> QED BY <2>4, <2>6 DEF RunesApart
<1> QED BY <1>2, <1>3

\* n goes from the balance at a to one at b of the same rune or to a new one.
LEMMA TransferKeeps ==
  ASSUME NEW h, NEW g, HeldOK(h), HeldOK(g), NEW a \in RuneKeys, NEW b \in RuneKeys, a # b,
         \A k \in RuneKeys \ {a, b} : g[k] = h[k], NEW n \in Nat,
         h[a].kind = "balance", g[a].kind = "balance", g[a].rune = h[a].rune,
         g[a].amount = h[a].amount - n,
         h[b] = Nothing \/ (h[b].kind = "balance" /\ h[b].rune = h[a].rune),
         g[b].kind = "balance", g[b].rune = h[a].rune, g[b].amount = AmountsOf(h)[b] + n
  PROVE  /\ Balanced(h) => Balanced(g)
         /\ RunesApart(h) => RunesApart(g)
<1>0. /\ h[a].amount \in Nat /\ AmountsOf(h)[b] \in Nat /\ g[a].amount \in Nat
      /\ (h[b].kind = "balance" => AmountsOf(h)[b] = h[b].amount /\ h[b].amount \in Nat)
      /\ h[b].kind # "etching"
      /\ (h[b].kind # "balance" => AmountsOf(h)[b] = 0)
  BY Kinds, SumsTyped DEF AmountsOf, HeldOK, BalanceOK
<1>1. /\ CircOf(h)[a] = 0 /\ CircOf(g)[a] = 0 /\ CircOf(h)[b] = 0 /\ CircOf(g)[b] = 0
      /\ AmountsOf(h)[a] = h[a].amount /\ AmountsOf(g)[a] = h[a].amount - n
      /\ AmountsOf(g)[b] = AmountsOf(h)[b] + n
  BY <1>0 DEF CircOf, AmountsOf
<1>2. ASSUME Balanced(h) PROVE Balanced(g)
  BY <1>0, <1>1, <1>2, TwoSlots, SumsTyped DEF Balanced
<1>3. ASSUME NEW r PROVE SumFunction(RuneOf(g, r)) = SumFunction(RuneOf(h, r))
  <2>1. /\ SumFunction(RuneOf(g, r)) = SumFunction(RuneOf(h, r)) - RuneOf(h, r)[a] - RuneOf(h, r)[b]
                                         + RuneOf(g, r)[a] + RuneOf(g, r)[b]
        /\ SumFunction(RuneOf(h, r)) \in Int
    BY TwoSlots, SumsTyped
  <2>2. CASE h[a].rune = r
    <3>1. /\ RuneOf(h, r)[a] = h[a].amount /\ RuneOf(g, r)[a] = h[a].amount - n
          /\ RuneOf(h, r)[b] = AmountsOf(h)[b] /\ RuneOf(g, r)[b] = AmountsOf(h)[b] + n
      BY <1>0, <2>2, Kinds DEF RuneOf
    <3> QED BY <1>0, <2>1, <3>1
  <2>3. CASE h[a].rune # r
    <3>1. /\ RuneOf(h, r)[a] = 0 /\ RuneOf(g, r)[a] = 0
          /\ RuneOf(h, r)[b] = 0 /\ RuneOf(g, r)[b] = 0
      BY <1>0, <2>3, Kinds DEF RuneOf
    <3> QED BY <2>1, <3>1
  <2> QED BY <2>2, <2>3
<1>4. ASSUME RunesApart(h) PROVE RunesApart(g)
  <2>1. ASSUME NEW r \in RuneKeys, g[r].kind = "etching" PROVE CircOf(g)[r] = SumFunction(RuneOf(g, r))
    <3>1. r # a /\ r # b /\ g[r] = h[r]
      BY <2>1
    <3>2. CircOf(g)[r] = CircOf(h)[r] /\ h[r].kind = "etching"
      BY <2>1, <3>1 DEF CircOf
    <3> QED BY <1>3, <1>4, <3>2 DEF RunesApart
  <2>2. \A r \in RuneKeys : h[r].kind = "etching" => g[r].kind = "etching"
    BY <1>0
  <2>3. ASSUME NEW k \in RuneKeys, g[k].kind = "balance", g[k].amount > 0
        PROVE  g[k].rune \in RuneKeys /\ g[g[k].rune].kind = "etching"
    <3>1. CASE k \notin {a, b}
      <4>1. g[k] = h[k]
        BY <3>1
      <4> QED BY <1>4, <2>2, <2>3, <4>1, NamesKept
    <3>2. CASE k \in {a, b}
      \* Something was there to transfer, or is there still.
      <4>1. g[k].rune = h[a].rune
        BY <3>2
      <4>2. h[a].amount > 0 \/ (k = b /\ h[b].kind = "balance" /\ h[b].amount > 0)
        BY <1>0, <2>3, <3>2
      <4>3. h[a].rune \in RuneKeys /\ h[h[a].rune].kind = "etching"
        BY <1>4, <4>2, Kinds DEF RunesApart
      <4> QED BY <2>2, <4>1, <4>3
    <3> QED BY <3>1, <3>2
  <2> QED BY <2>1, <2>3 DEF RunesApart
<1> QED BY <1>2, <1>4

\* The balance at b loses n and the etching at a burns n.
LEMMA BurnKeeps ==
  ASSUME NEW h, NEW g, HeldOK(h), HeldOK(g), NEW a \in RuneKeys, NEW b \in RuneKeys, a # b,
         \A k \in RuneKeys \ {a, b} : g[k] = h[k], NEW n \in Nat,
         h[a].kind = "etching", g[a].kind = "etching", CircOf(g)[a] = CircOf(h)[a] - n,
         h[b].kind = "balance", g[b].kind = "balance", g[b].rune = h[b].rune,
         g[b].amount = h[b].amount - n
  PROVE  /\ Balanced(h) => Balanced(g)
         /\ RunesApart(h) /\ h[b].rune = a => RunesApart(g)
<1>0. /\ CircOf(h)[a] \in Int /\ h[b].amount \in Nat /\ g[b].amount \in Nat
  BY Kinds, SumsTyped DEF HeldOK, BalanceOK
<1>1. /\ CircOf(h)[b] = 0 /\ CircOf(g)[b] = 0 /\ AmountsOf(h)[a] = 0 /\ AmountsOf(g)[a] = 0
      /\ AmountsOf(h)[b] = h[b].amount /\ AmountsOf(g)[b] = h[b].amount - n
      /\ \A r : RuneOf(h, r)[a] = 0 /\ RuneOf(g, r)[a] = 0
  BY <1>0 DEF CircOf, AmountsOf, RuneOf
<1>2. ASSUME Balanced(h) PROVE Balanced(g)
  BY <1>0, <1>1, <1>2, TwoSlots, SumsTyped DEF Balanced
<1>3. ASSUME RunesApart(h), h[b].rune = a PROVE RunesApart(g)
  <2>1. /\ RuneOf(h, a)[b] = h[b].amount /\ RuneOf(g, a)[b] = h[b].amount - n
        /\ \A r \in RuneKeys \ {a} : RuneOf(h, r)[b] = 0 /\ RuneOf(g, r)[b] = 0
    BY <1>3 DEF RuneOf
  <2>2. /\ SumFunction(RuneOf(g, a)) = SumFunction(RuneOf(h, a)) - n
        /\ \A r \in RuneKeys \ {a} : SumFunction(RuneOf(g, r)) = SumFunction(RuneOf(h, r))
    <3>1. \A r : /\ SumFunction(RuneOf(g, r)) = SumFunction(RuneOf(h, r)) - RuneOf(h, r)[a] - RuneOf(h, r)[b]
                                                 + RuneOf(g, r)[a] + RuneOf(g, r)[b]
                 /\ SumFunction(RuneOf(h, r)) \in Int
      BY TwoSlots, SumsTyped
    <3> QED BY <1>0, <1>1, <2>1, <3>1
  <2>3. ASSUME NEW r \in RuneKeys, g[r].kind = "etching" PROVE CircOf(g)[r] = SumFunction(RuneOf(g, r))
    <3>1. CASE r = a
      BY <1>3, <2>2, <3>1 DEF RunesApart
    <3>2. CASE r # a
      <4>1. r # b /\ g[r] = h[r]
        BY <2>3, <3>2
      <4>2. CircOf(g)[r] = CircOf(h)[r] /\ h[r].kind = "etching"
        BY <2>3, <4>1 DEF CircOf
      <4> QED BY <1>3, <2>2, <3>2, <4>2 DEF RunesApart
    <3> QED BY <3>1, <3>2
  <2>4. \A r \in RuneKeys : h[r].kind = "etching" => g[r].kind = "etching"
    OBVIOUS
  <2>5. ASSUME NEW k \in RuneKeys, g[k].kind = "balance", g[k].amount > 0
        PROVE  g[k].rune \in RuneKeys /\ g[g[k].rune].kind = "etching"
    <3>1. CASE k = b
      BY <1>3, <3>1
    <3>2. CASE k # b
      <4>1. g[k] = h[k]
        BY <2>5, <3>2
      <4> QED BY <1>3, <2>4, <2>5, <4>1, NamesKept
    <3> QED BY <3>1, <3>2
  <2> QED BY <2>3, <2>5 DEF RunesApart
<1> QED BY <1>2, <1>3

-----------------------------------------------------------------------------
RunesInv ==
  /\ HeldOK(held) /\ {recast, hidden, relabelled} \subseteq BOOLEAN
  /\ ~recast /\ ~hidden => Balanced(held) /\ (~relabelled => RunesApart(held))

SlotOK(x) == x = Nothing \/ EtchingOK(x) \/ BalanceOK(x)

\* What Write does, and does if it loses nothing and turns no account's kind.
LEMMA WriteIs ==
  ASSUME HeldOK(held), NEW change, NEW signer, Write(change, signer),
         {recast, hidden} \subseteq BOOLEAN, \A k \in DOMAIN change : SlotOK(change[k])
  PROVE  /\ HeldOK(held') /\ recast' \in BOOLEAN /\ hidden' \in BOOLEAN
         /\ ~recast' /\ ~hidden' =>
              /\ ~recast /\ ~hidden
              /\ \A k \in RuneKeys : /\ k \in DOMAIN change => held'[k] = change[k]
                                     /\ k \notin DOMAIN change => held'[k] = held[k]
                                     /\ held[k] # Nothing => held'[k].kind = held[k].kind
<1>1. DOMAIN held' = RuneKeys
  BY DEF Write
<1>2. \A k \in RuneKeys : held'[k] = IF k \in DOMAIN change /\ k # signer THEN change[k] ELSE held[k]
  BY DEF Write
<1>3. HeldOK(held')
  BY <1>1, <1>2 DEF HeldOK, SlotOK
<1>4. /\ recast' = (recast \/ \E k \in RuneKeys : held[k] # Nothing /\ held'[k].kind # held[k].kind)
      /\ hidden' = (hidden \/ signer \in DOMAIN change)
  BY DEF Write
<1>5. recast' \in BOOLEAN /\ hidden' \in BOOLEAN
  BY <1>4, Zenon
<1>6. ASSUME ~recast', ~hidden'
      PROVE  /\ ~recast /\ ~hidden /\ signer \notin DOMAIN change
             /\ \A k \in RuneKeys : held[k] # Nothing => held'[k].kind = held[k].kind
  BY <1>4, <1>6, Zenon
<1> QED BY <1>2, <1>3, <1>5, <1>6

LEMMA ReadOK ==
  ASSUME HeldOK(held), NEW k \in RuneKeys
  PROVE  /\ ReadsAsBalance(k) => BalanceOK(Balance(k))
         /\ BalanceOK(BalanceOrNew(k))
         /\ held[k].kind = "balance" => Balance(k) = held[k] /\ BalanceOrNew(k) = held[k]
         /\ held[k] = Nothing => BalanceOrNew(k) = RuneBalance(NoRune, 0)
<1>1. \A r, n : n \in Nat => BalanceOK(RuneBalance(r, n))
  BY DEF BalanceOK, RuneBalance
<1>2. ReadsAsBalance(k) => BalanceOK(Balance(k))
  BY <1>1, Kinds DEF ReadsAsBalance, IsEtching, Balance, HeldOK, EtchingOK
<1> QED BY <1>1, <1>2, Kinds DEF ReadsAsBalance, IsEtching, Balance, BalanceOrNew

\* The account that is read as a balance for a credit, if its kind stays.
LEMMA CreditReads ==
  ASSUME HeldOK(held), NEW b \in RuneKeys, held[b] # Nothing => held[b].kind = "balance"
  PROVE  /\ held[b] = Nothing \/ held[b].kind = "balance"
         /\ BalanceOrNew(b).amount = AmountsOf(held)[b]
BY ReadOK, Kinds DEF AmountsOf, RuneBalance

LEMMA RuneRecords ==
  /\ \A t, s, m, n, u : LET e == RuneEtching(t, s, m, n, u)
                        IN /\ e.kind = "etching" /\ e.terms = t /\ e.mints = m
                           /\ e.minted = n /\ e.burned = u
  /\ \A r, n : LET b == RuneBalance(r, n)
               IN b.kind = "balance" /\ b.rune = r /\ b.amount = n
BY DEF RuneEtching, RuneBalance

LEMMA NewRecordsOK ==
  /\ \A s : \A t \in Terms \cup {NoTerms}, m, n, u \in Nat : EtchingOK(RuneEtching(t, s, m, n, u))
  /\ \A r, n : n \in Nat => BalanceOK(RuneBalance(r, n))
BY DEF RuneEtching, RuneBalance, EtchingOK, BalanceOK

LEMMA EtchKeeps ==
  ASSUME RunesInv, NEW r \in RuneKeys, NEW b \in RuneKeys, NEW signer,
         NEW premine \in Nat, NEW terms \in Terms \cup {NoTerms}, NEW short,
         Etch(r, b, signer, premine, terms, short)
  PROVE  RunesInv'
<1> DEFINE etching == RuneEtching(terms, short, 0, premine, 0)
           bal == BalanceOrNew(b)
<1>0. /\ HeldOK(held) /\ r # b /\ held[r].kind # "etching" /\ BalanceOK(bal) /\ bal.amount \in Nat
      /\ {recast, hidden} \subseteq BOOLEAN /\ relabelled \in BOOLEAN
      /\ EtchingOK(etching) /\ etching.kind = "etching" /\ etching.minted = premine /\ etching.burned = 0
  <2>1. EtchingOK(etching)
    BY NewRecordsOK
  <2> QED BY <2>1, ReadOK, RuneRecords DEF RunesInv, Etch, IsEtching, BalanceOK
<1>1. CASE premine = 0
  <2>1. PICK change : change = [k \in {r} |-> etching]
    OBVIOUS
  <2>2. Write(change, signer) /\ relabelled' = relabelled
    BY <1>1, <2>1 DEF Etch
  <2>3. DOMAIN change = {r} /\ change[r] = etching /\ \A k \in DOMAIN change : SlotOK(change[k])
    BY <1>0, <2>1 DEF SlotOK
  <2> HIDE DEF etching
  <2>4. /\ HeldOK(held') /\ recast' \in BOOLEAN /\ hidden' \in BOOLEAN
        /\ ~recast' /\ ~hidden' =>
              /\ ~recast /\ ~hidden
              /\ held'[r] = etching /\ \A k \in RuneKeys \ {r} : held'[k] = held[k]
              /\ held[r] # Nothing => held'[r].kind = held[r].kind
    BY <1>0, <2>2, <2>3, WriteIs
  <2>5. ASSUME ~recast', ~hidden'
        PROVE  Balanced(held') /\ (~relabelled' => RunesApart(held'))
    <3>1. held[r] = Nothing
      BY <1>0, <2>4, <2>5
    <3>2. PICK h, g : h = held /\ g = held'
      OBVIOUS
    <3>3. (Balanced(h) => Balanced(g)) /\ (RunesApart(h) => RunesApart(g))
      BY <1>0, <1>1, <2>4, <2>5, <3>1, <3>2, NewSlotKeeps
    <3> QED BY <2>2, <2>4, <2>5, <3>2, <3>3 DEF RunesInv
  <2> QED BY <1>0, <2>2, <2>4, <2>5 DEF RunesInv
<1>2. CASE premine # 0
  <2> DEFINE new == RuneBalance(r, bal.amount + premine)
  <2>1. PICK change : change = Pair(r, etching, b, new)
    OBVIOUS
  <2>2. /\ Write(change, signer)
        /\ relabelled' = (relabelled \/ (ReadsAsBalance(b) /\ Mixes(b, r)))
    BY <1>2, <2>1 DEF Etch
  <2>3. /\ BalanceOK(new) /\ new.kind = "balance" /\ new.rune = r /\ new.amount = bal.amount + premine
    BY <1>0, NewRecordsOK, RuneRecords
  <2>4. /\ DOMAIN change = {r, b} /\ change[r] = etching /\ change[b] = new
        /\ \A k \in DOMAIN change : SlotOK(change[k])
    BY <1>0, <2>1, <2>3 DEF Pair, SlotOK
  <2> HIDE DEF etching, new
  <2>5. /\ HeldOK(held') /\ recast' \in BOOLEAN /\ hidden' \in BOOLEAN
        /\ ~recast' /\ ~hidden' =>
              /\ ~recast /\ ~hidden
              /\ held'[r] = etching /\ held'[b] = new /\ \A k \in RuneKeys \ {r, b} : held'[k] = held[k]
              /\ held[r] # Nothing => held'[r].kind = held[r].kind
              /\ held[b] # Nothing => held'[b].kind = held[b].kind
    BY <1>0, <2>2, <2>4, WriteIs
  <2>6. ASSUME ~recast', ~hidden'
        PROVE  Balanced(held') /\ (~relabelled' => RunesApart(held'))
    <3>1. held[r] = Nothing /\ (held[b] # Nothing => held[b].kind = "balance")
      BY <1>0, <2>3, <2>5, <2>6
    <3>2. (held[b] = Nothing \/ held[b].kind = "balance") /\ bal.amount = AmountsOf(held)[b]
      BY <1>0, <3>1, CreditReads
    <3>3. CircOf(held')[r] = CircOf(held)[r] + premine
      BY <1>0, <2>5, <2>6, <3>1, Kinds DEF CircOf
    <3>4. PICK h, g : h = held /\ g = held'
      OBVIOUS
    <3>5. /\ Balanced(h) => Balanced(g)
          /\ RunesApart(h) /\ ~(h[b].kind = "balance" /\ h[b].rune # r /\ h[b].amount > 0)
               => RunesApart(g)
      <4>1. /\ HeldOK(h) /\ HeldOK(g) /\ \A k \in RuneKeys \ {r, b} : g[k] = h[k]
            /\ h[r] = Nothing /\ g[r].kind = "etching" /\ CircOf(g)[r] = CircOf(h)[r] + premine
            /\ h[b] = Nothing \/ h[b].kind = "balance"
            /\ g[b].kind = "balance" /\ g[b].rune = r /\ g[b].amount = AmountsOf(h)[b] + premine
        BY <1>0, <2>3, <2>5, <2>6, <3>1, <3>2, <3>3, <3>4
      <4> QED BY <1>0, <4>1, CreditKeeps
    <3>6. ~relabelled' => ~relabelled /\ ~(held[b].kind = "balance" /\ held[b].rune # r /\ held[b].amount > 0)
      BY <1>0, <2>2, ReadOK DEF Mixes, ReadsAsBalance
    <3> QED BY <2>5, <2>6, <3>4, <3>5, <3>6 DEF RunesInv
  <2>7. relabelled' \in BOOLEAN
    BY <2>2, Zenon
  <2> QED BY <2>5, <2>6, <2>7 DEF RunesInv
<1> QED BY <1>1, <1>2

LEMMA MintedIs ==
  ASSUME NEW e, EtchingOK(e), NEW n \in Nat, NEW x, x = [e EXCEPT !.mints = @ + 1, !.minted = @ + n]
  PROVE  /\ EtchingOK(x) /\ x.kind = "etching" /\ x.minted = e.minted + n /\ x.burned = e.burned
<1>1. /\ DOMAIN x = DOMAIN e /\ x.kind = e.kind /\ x.terms = e.terms /\ x.burned = e.burned
      /\ x.mints = e.mints + 1 /\ x.minted = e.minted + n
  BY DEF EtchingOK
<1> QED BY <1>1 DEF EtchingOK

LEMMA MintKeeps ==
  ASSUME RunesInv, NEW r \in RuneKeys, NEW b \in RuneKeys, NEW signer, NEW now, Mint(r, b, signer, now)
  PROVE  RunesInv'
<1> DEFINE e == held[r]
           bal == BalanceOrNew(b)
           n == e.terms.amount
           minted == [e EXCEPT !.mints = @ + 1, !.minted = @ + n]
           new == RuneBalance(r, bal.amount + n)
<1>0. /\ HeldOK(held) /\ r # b /\ e.kind = "etching" /\ EtchingOK(e)
      /\ BalanceOK(bal) /\ bal.amount \in Nat
      /\ {recast, hidden} \subseteq BOOLEAN /\ relabelled \in BOOLEAN
  BY ReadOK, Kinds DEF RunesInv, Mint, IsEtching, BalanceOK, HeldOK
<1>1. n \in Nat
  BY <1>0, RunesAssumption DEF EtchingOK, NoTerms
<1>2. PICK change : change = Pair(r, minted, b, new)
  OBVIOUS
<1>3. /\ Write(change, signer)
      /\ relabelled' = (relabelled \/ (ReadsAsBalance(b) /\ Mixes(b, r)))
  BY <1>2 DEF Mint
<1>4. e.minted \in Nat /\ e.burned \in Nat
  BY <1>0 DEF EtchingOK
<1>5. /\ EtchingOK(minted) /\ minted.kind = "etching" /\ minted.minted = e.minted + n
      /\ minted.burned = e.burned
  <2> HIDE DEF e, n
  <2>1. minted = [e EXCEPT !.mints = @ + 1, !.minted = @ + n]
    OBVIOUS
  <2> HIDE DEF minted
  <2> QED BY <1>0, <1>1, <2>1, MintedIs
<1>6. BalanceOK(new) /\ new.kind = "balance" /\ new.rune = r /\ new.amount = bal.amount + n
  BY <1>0, <1>1, NewRecordsOK, RuneRecords
<1>7. /\ DOMAIN change = {r, b} /\ change[r] = minted /\ change[b] = new
      /\ \A k \in DOMAIN change : SlotOK(change[k])
  BY <1>0, <1>2, <1>5, <1>6 DEF Pair, SlotOK
<1> HIDE DEF minted, new
<1>8. /\ HeldOK(held') /\ recast' \in BOOLEAN /\ hidden' \in BOOLEAN
      /\ ~recast' /\ ~hidden' =>
            /\ ~recast /\ ~hidden
            /\ held'[r] = minted /\ held'[b] = new /\ \A k \in RuneKeys \ {r, b} : held'[k] = held[k]
            /\ held[b] # Nothing => held'[b].kind = held[b].kind
  BY <1>0, <1>3, <1>7, WriteIs
<1>9. ASSUME ~recast', ~hidden'
      PROVE  Balanced(held') /\ (~relabelled' => RunesApart(held'))
  <2>1. held[b] # Nothing => held[b].kind = "balance"
    BY <1>6, <1>8, <1>9
  <2>2. (held[b] = Nothing \/ held[b].kind = "balance") /\ bal.amount = AmountsOf(held)[b]
    BY <1>0, <2>1, CreditReads
  <2>3. CircOf(held')[r] = CircOf(held)[r] + n
    BY <1>0, <1>1, <1>4, <1>5, <1>8, <1>9 DEF CircOf
  <2>4. PICK h, g : h = held /\ g = held'
    OBVIOUS
  <2>5. PICK m \in Nat : m = n
    BY <1>1
  <2>6. /\ HeldOK(h) /\ HeldOK(g) /\ \A k \in RuneKeys \ {r, b} : g[k] = h[k]
        /\ h[r].kind = "etching" /\ g[r].kind = "etching" /\ CircOf(g)[r] = CircOf(h)[r] + m
        /\ h[b] = Nothing \/ h[b].kind = "balance"
        /\ g[b].kind = "balance" /\ g[b].rune = r /\ g[b].amount = AmountsOf(h)[b] + m
    BY <1>0, <1>5, <1>6, <1>8, <1>9, <2>2, <2>3, <2>4, <2>5
  <2>7. /\ Balanced(h) => Balanced(g)
        /\ RunesApart(h) /\ ~(h[b].kind = "balance" /\ h[b].rune # r /\ h[b].amount > 0)
             => RunesApart(g)
    BY <1>0, <2>6, CreditKeeps
  <2>8. ~relabelled' => ~relabelled /\ ~(held[b].kind = "balance" /\ held[b].rune # r /\ held[b].amount > 0)
    BY <1>0, <1>3, ReadOK DEF Mixes, ReadsAsBalance
  <2> QED BY <1>8, <1>9, <2>4, <2>7, <2>8 DEF RunesInv
<1>10. relabelled' \in BOOLEAN
  BY <1>3, Zenon
<1> QED BY <1>8, <1>9, <1>10 DEF RunesInv

LEMMA TransferSteps ==
  ASSUME RunesInv, NEW a \in RuneKeys, NEW b \in RuneKeys, NEW signer, NEW n \in Nat,
         Transfer(a, b, signer, n)
  PROVE  RunesInv'
<1> DEFINE src == Balance(a)
           dst == BalanceOrNew(b)
           less == RuneBalance(src.rune, src.amount - n)
           more == RuneBalance(src.rune, dst.amount + n)
<1>0. /\ HeldOK(held) /\ a # b /\ BalanceOK(src) /\ src.amount \in Nat /\ n <= src.amount
      /\ BalanceOK(dst) /\ dst.amount \in Nat
      /\ ReadsAsBalance(b) => dst.rune = src.rune
      /\ {recast, hidden} \subseteq BOOLEAN /\ relabelled \in BOOLEAN
  BY ReadOK DEF RunesInv, Transfer, BalanceOK
<1>1. PICK change : change = Pair(a, less, b, more)
  OBVIOUS
<1>2. Write(change, signer) /\ relabelled' = relabelled
  BY <1>1 DEF Transfer
<1>3. /\ BalanceOK(less) /\ less.kind = "balance" /\ less.rune = src.rune /\ less.amount = src.amount - n
      /\ BalanceOK(more) /\ more.kind = "balance" /\ more.rune = src.rune /\ more.amount = dst.amount + n
  BY <1>0, NewRecordsOK, RuneRecords
<1>4. /\ DOMAIN change = {a, b} /\ change[a] = less /\ change[b] = more
      /\ \A k \in DOMAIN change : SlotOK(change[k])
  BY <1>0, <1>1, <1>3 DEF Pair, SlotOK
<1> HIDE DEF less, more
<1>5. /\ HeldOK(held') /\ recast' \in BOOLEAN /\ hidden' \in BOOLEAN
      /\ ~recast' /\ ~hidden' =>
            /\ ~recast /\ ~hidden
            /\ held'[a] = less /\ held'[b] = more /\ \A k \in RuneKeys \ {a, b} : held'[k] = held[k]
            /\ held[a] # Nothing => held'[a].kind = held[a].kind
            /\ held[b] # Nothing => held'[b].kind = held[b].kind
  BY <1>0, <1>2, <1>4, WriteIs
<1>6. ASSUME ~recast', ~hidden'
      PROVE  Balanced(held') /\ (~relabelled' => RunesApart(held'))
  <2>1. /\ held[b] # Nothing => held[b].kind = "balance"
        /\ held[a].kind = "balance" /\ src = held[a]
    <3>1. held[a] # Nothing
      BY Kinds DEF Transfer, ReadsAsBalance, IsEtching
    <3> QED BY <1>0, <1>3, <1>5, <1>6, <3>1, ReadOK
  <2>2. (held[b] = Nothing \/ held[b].kind = "balance") /\ dst.amount = AmountsOf(held)[b]
    BY <1>0, <2>1, CreditReads
  <2>3. held[b].kind = "balance" => held[b].rune = held[a].rune
    BY <1>0, <2>1, ReadOK DEF ReadsAsBalance
  <2>4. PICK h, g : h = held /\ g = held'
    OBVIOUS
  <2>5. /\ HeldOK(h) /\ HeldOK(g) /\ \A k \in RuneKeys \ {a, b} : g[k] = h[k]
        /\ h[a].kind = "balance" /\ g[a].kind = "balance" /\ g[a].rune = h[a].rune
        /\ g[a].amount = h[a].amount - n
        /\ h[b] = Nothing \/ (h[b].kind = "balance" /\ h[b].rune = h[a].rune)
        /\ g[b].kind = "balance" /\ g[b].rune = h[a].rune /\ g[b].amount = AmountsOf(h)[b] + n
    BY <1>0, <1>3, <1>5, <1>6, <2>1, <2>2, <2>3, <2>4
  <2>6. (Balanced(h) => Balanced(g)) /\ (RunesApart(h) => RunesApart(g))
    BY <1>0, <2>5, TransferKeeps
  <2> QED BY <1>2, <1>5, <1>6, <2>4, <2>6 DEF RunesInv
<1> QED BY <1>0, <1>2, <1>5, <1>6 DEF RunesInv

LEMMA BurnSteps ==
  ASSUME RunesInv, NEW r \in RuneKeys, NEW b \in RuneKeys, NEW signer, NEW n \in Nat,
         Burn(r, b, signer, n)
  PROVE  RunesInv'
<1> DEFINE e == held[r]
           src == Balance(b)
           burnt == [e EXCEPT !.burned = @ + n]
           less == RuneBalance(src.rune, src.amount - n)
<1>0. /\ HeldOK(held) /\ r # b /\ BalanceOK(src) /\ src.amount \in Nat /\ n <= src.amount
      /\ e.kind = "etching" /\ EtchingOK(e)
      /\ {recast, hidden} \subseteq BOOLEAN /\ relabelled \in BOOLEAN
  BY ReadOK, Kinds DEF RunesInv, Burn, IsEtching, BalanceOK, HeldOK
<1>1. PICK change : change = Pair(r, burnt, b, less)
  OBVIOUS
<1>2. Write(change, signer) /\ relabelled' = (relabelled \/ src.rune # r)
  BY <1>1 DEF Burn
<1>3. e.minted \in Nat /\ e.burned \in Nat
  BY <1>0 DEF EtchingOK
<1>4. /\ EtchingOK(burnt) /\ burnt.kind = "etching" /\ burnt.minted = e.minted
      /\ burnt.burned = e.burned + n
  BY <1>0 DEF EtchingOK
<1>5. BalanceOK(less) /\ less.kind = "balance" /\ less.rune = src.rune /\ less.amount = src.amount - n
  BY <1>0, NewRecordsOK, RuneRecords
<1>6. /\ DOMAIN change = {r, b} /\ change[r] = burnt /\ change[b] = less
      /\ \A k \in DOMAIN change : SlotOK(change[k])
  BY <1>0, <1>1, <1>4, <1>5 DEF Pair, SlotOK
<1> HIDE DEF burnt, less
<1>7. /\ HeldOK(held') /\ recast' \in BOOLEAN /\ hidden' \in BOOLEAN
      /\ ~recast' /\ ~hidden' =>
            /\ ~recast /\ ~hidden
            /\ held'[r] = burnt /\ held'[b] = less /\ \A k \in RuneKeys \ {r, b} : held'[k] = held[k]
            /\ held[b] # Nothing => held'[b].kind = held[b].kind
  BY <1>0, <1>2, <1>6, WriteIs
<1>8. ASSUME ~recast', ~hidden'
      PROVE  Balanced(held') /\ (~relabelled' => RunesApart(held'))
  <2>1. held[b].kind = "balance" /\ src = held[b]
    <3>1. held[b] # Nothing
      BY Kinds DEF Burn, ReadsAsBalance, IsEtching
    <3> QED BY <1>0, <1>5, <1>7, <1>8, <3>1, ReadOK
  <2>2. CircOf(held')[r] = CircOf(held)[r] - n
    BY <1>0, <1>3, <1>4, <1>7, <1>8 DEF CircOf
  <2>3. PICK h, g : h = held /\ g = held'
    OBVIOUS
  <2>4. /\ HeldOK(h) /\ HeldOK(g) /\ \A k \in RuneKeys \ {r, b} : g[k] = h[k]
        /\ h[r].kind = "etching" /\ g[r].kind = "etching" /\ CircOf(g)[r] = CircOf(h)[r] - n
        /\ h[b].kind = "balance" /\ g[b].kind = "balance" /\ g[b].rune = h[b].rune
        /\ g[b].amount = h[b].amount - n
    BY <1>0, <1>4, <1>5, <1>7, <1>8, <2>1, <2>2, <2>3
  <2>5. (Balanced(h) => Balanced(g)) /\ (RunesApart(h) /\ h[b].rune = r => RunesApart(g))
    BY <1>0, <2>4, BurnKeeps
  <2>6. ~relabelled' => ~relabelled /\ held[b].rune = r
    BY <1>2, <2>1
  <2> QED BY <1>7, <1>8, <2>3, <2>5, <2>6 DEF RunesInv
<1>9. relabelled' \in BOOLEAN
  BY <1>2, Zenon
<1> QED BY <1>7, <1>8, <1>9 DEF RunesInv

LEMMA InitBalanceKeeps ==
  ASSUME RunesInv, NEW b \in RuneKeys, NEW owner, InitBalance(b, owner)
  PROVE  RunesInv'
<1> DEFINE new == RuneBalance(NoRune, 0)
<1>0. /\ HeldOK(held) /\ held[b].kind # "balance"
      /\ {recast, hidden} \subseteq BOOLEAN /\ relabelled \in BOOLEAN
      /\ BalanceOK(new) /\ new.kind = "balance" /\ new.amount = 0
  BY NewRecordsOK, RuneRecords DEF RunesInv, InitBalance, ReadsAsBalance
<1>1. PICK change : change = [k \in {b} |-> new]
  OBVIOUS
<1>2. Write(change, owner) /\ relabelled' = relabelled
  BY <1>1 DEF InitBalance
<1>3. DOMAIN change = {b} /\ change[b] = new /\ \A k \in DOMAIN change : SlotOK(change[k])
  BY <1>0, <1>1 DEF SlotOK
<1> HIDE DEF new
<1>4. /\ HeldOK(held') /\ recast' \in BOOLEAN /\ hidden' \in BOOLEAN
      /\ ~recast' /\ ~hidden' =>
            /\ ~recast /\ ~hidden
            /\ held'[b] = new /\ \A k \in RuneKeys \ {b} : held'[k] = held[k]
            /\ held[b] # Nothing => held'[b].kind = held[b].kind
  BY <1>0, <1>2, <1>3, WriteIs
<1>5. ASSUME ~recast', ~hidden'
      PROVE  Balanced(held') /\ (~relabelled' => RunesApart(held'))
  <2>1. held[b] = Nothing
    BY <1>0, <1>4, <1>5
  <2>2. PICK h, g : h = held /\ g = held'
    OBVIOUS
  <2>3. (Balanced(h) => Balanced(g)) /\ (RunesApart(h) => RunesApart(g))
    BY <1>0, <1>4, <1>5, <2>1, <2>2, NewSlotKeeps
  <2> QED BY <1>2, <1>4, <1>5, <2>2, <2>3 DEF RunesInv
<1> QED BY <1>0, <1>2, <1>4, <1>5 DEF RunesInv

LEMMA RunesStarts == RunesInit => RunesInv
<1> SUFFICES ASSUME RunesInit PROVE RunesInv
  OBVIOUS
<1>1. HeldOK(held) /\ \A k \in RuneKeys : held[k].kind = "nothing"
  BY DEF RunesInit, HeldOK, Nothing
<1>2. /\ DOMAIN CircOf(held) = RuneKeys /\ DOMAIN AmountsOf(held) = RuneKeys
      /\ \A k \in RuneKeys : CircOf(held)[k] = 0 /\ AmountsOf(held)[k] = 0
  BY <1>1 DEF CircOf, AmountsOf
<1>3. PICK f, g : f = CircOf(held) /\ g = AmountsOf(held)
  OBVIOUS
<1>4. SumFunction(f) = 0 /\ SumFunction(g) = 0
  BY <1>2, <1>3, RunesAssumption, SumOfZeros
<1>5. Balanced(held) /\ RunesApart(held)
  BY <1>1, <1>3, <1>4 DEF Balanced, RunesApart
<1> QED BY <1>1, <1>5 DEF RunesInv, RunesInit

LEMMA RunesSteps == RunesInv /\ [AssetsNext]_assetsVars => RunesInv'
<1> SUFFICES ASSUME RunesInv, [AssetsNext]_assetsVars PROVE RunesInv'
  OBVIOUS
<1>1. CASE RunesNext
  <2>1. PICK a \in RuneKeys, b \in RuneKeys, s \in RuneKeys \cup Wallets :
          \/ \E n \in RuneAmounts \cup {0}, terms \in Terms \cup {NoTerms}, short \in BOOLEAN :
               Etch(a, b, s, n, terms, short)
          \/ \E now \in MintTimes : Mint(a, b, s, now)
          \/ \E n \in RuneAmounts : Transfer(a, b, s, n) \/ Burn(a, b, s, n)
          \/ InitBalance(a, s)
    BY <1>1 DEF RunesNext
  <2>2. RuneAmounts \cup {0} \subseteq Nat
    BY RunesAssumption
  <2>3. CASE \E n \in RuneAmounts \cup {0}, terms \in Terms \cup {NoTerms}, short \in BOOLEAN :
               Etch(a, b, s, n, terms, short)
    BY <2>2, <2>3, EtchKeeps
  <2>4. CASE \E now \in MintTimes : Mint(a, b, s, now)
    BY <2>4, MintKeeps
  <2>5. CASE \E n \in RuneAmounts : Transfer(a, b, s, n) \/ Burn(a, b, s, n)
    BY <2>2, <2>5, TransferSteps, BurnSteps
  <2>6. CASE InitBalance(a, s)
    BY <2>6, InitBalanceKeeps
  <2> QED BY <2>1, <2>3, <2>4, <2>5, <2>6
<1>2. CASE UNCHANGED runeVars \/ UNCHANGED assetsVars
  <2>1. held' = held /\ recast' = recast /\ hidden' = hidden /\ relabelled' = relabelled
    BY <1>2 DEF runeVars, assetsVars
  <2> QED BY <2>1 DEF RunesInv
<1> QED BY <1>1, <1>2 DEF AssetsNext

\* SupplyIsHeld: for any accounts, amounts and mint terms, what the etchings have in
\* circulation is what the balances hold, together and, until runes are mixed, rune
\* by rune, as long as no account is recast and no write is hidden.
THEOREM RunesSupply == AssetsSpec => []SupplyIsHeld
<1>1. AssetsInit => RunesInv
  BY RunesStarts DEF AssetsInit
<1>2. RunesInv => SupplyIsHeld
  <2> SUFFICES ASSUME RunesInv, ~recast, ~hidden
               PROVE  /\ Circulating = AllHeld
                      /\ relabelled \/ \A r \in RuneKeys : IsEtching(r) => circulating(r) = HeldOf(r)
    BY Zenon DEF SupplyIsHeld
  <2>1. Balanced(held) /\ (~relabelled => RunesApart(held))
    BY DEF RunesInv
  <2>2. /\ Circulating = SumFunction(CircOf(held)) /\ AllHeld = SumFunction(AmountsOf(held))
        /\ \A r : HeldOf(r) = SumFunction(RuneOf(held, r))
    BY DEF Circulating, AllHeld, HeldOf, CircOf, AmountsOf, RuneOf, circulating, Amount, AmountOf, IsEtching
  <2>3. \A r \in RuneKeys : circulating(r) = CircOf(held)[r]
    BY DEF circulating, CircOf, IsEtching
  <2> QED BY <2>1, <2>2, <2>3 DEF Balanced, RunesApart, IsEtching
<1> QED BY <1>1, <1>2, RunesSteps, PTL DEF AssetsSpec

-----------------------------------------------------------------------------
\* A record has its fields, or was not made.
MetaOK(m) ==
  \/ m = NoMetadata
  \/ /\ m = [made |-> m.made, update_authority |-> m.update_authority, name |-> m.name,
             creators |-> m.creators, verified |-> m.verified, is_mutable |-> m.is_mutable]
     /\ m.made /\ m.is_mutable \in BOOLEAN

MetadataInv == DOMAIN meta = MetaKeys /\ \A k \in MetaKeys : MetaOK(meta[k])

\* One step of the metadata program, at one key.
LEMMA MetadataStep ==
  ASSUME MetadataInv, MetadataNext
  PROVE  /\ MetadataInv'
         /\ \A k \in MetaKeys :
              meta[k].made /\ ~meta[k].is_mutable /\ meta[k].name # EmptyName
                => meta'[k] = [meta[k] EXCEPT !.verified = meta'[k].verified]
<1>0. \A m : MetaOK(m) /\ m.made => m # NoMetadata
  BY DEF NoMetadata
<1>1. PICK k \in MetaKeys, a \in Authorities :
        \/ \E name \in Names, creators \in SUBSET Creators : CreateMetadata(k, a, name, creators)
        \/ \E name \in Names : UpdateMetadata(k, a, name)
        \/ MakeImmutable(k, a)
        \/ \E c \in Creators : VerifyCreator(k, c)
  BY DEF MetadataNext
<1>2. ASSUME NEW x, meta' = [meta EXCEPT ![k] = x], MetaOK(x),
             meta[k].made /\ ~meta[k].is_mutable /\ meta[k].name # EmptyName
               => x = [meta[k] EXCEPT !.verified = x.verified]
      PROVE  /\ MetadataInv'
             /\ \A j \in MetaKeys :
                  meta[j].made /\ ~meta[j].is_mutable /\ meta[j].name # EmptyName
                    => meta'[j] = [meta[j] EXCEPT !.verified = meta'[j].verified]
  <2>1. DOMAIN meta' = MetaKeys /\ meta'[k] = x /\ \A j \in MetaKeys \ {k} : meta'[j] = meta[j]
    BY <1>2 DEF MetadataInv
  <2>2. MetadataInv'
    BY <1>2, <2>1 DEF MetadataInv
  <2>3. ASSUME NEW j \in MetaKeys \ {k}, meta[j].made
        PROVE  meta'[j] = [meta[j] EXCEPT !.verified = meta'[j].verified]
    <3>1. meta[j] = [made |-> meta[j].made, update_authority |-> meta[j].update_authority,
                     name |-> meta[j].name, creators |-> meta[j].creators,
                     verified |-> meta[j].verified, is_mutable |-> meta[j].is_mutable]
      BY <1>0, <2>3 DEF MetadataInv, MetaOK, NoMetadata
    <3> QED BY <2>1, <3>1
  <2> QED BY <1>2, <2>1, <2>2, <2>3
<1>3. ASSUME NEW name, NEW creators, CreateMetadata(k, a, name, creators)
      PROVE  \E x : /\ meta' = [meta EXCEPT ![k] = x] /\ MetaOK(x)
                    /\ meta[k].made /\ ~meta[k].is_mutable /\ meta[k].name # EmptyName
                         => x = [meta[k] EXCEPT !.verified = x.verified]
  BY <1>3 DEF CreateMetadata, MetaOK, MetadataRecord
<1>4. ASSUME NEW name, UpdateMetadata(k, a, name)
      PROVE  \E x : /\ meta' = [meta EXCEPT ![k] = x] /\ MetaOK(x)
                    /\ meta[k].made /\ ~meta[k].is_mutable /\ meta[k].name # EmptyName
                         => x = [meta[k] EXCEPT !.verified = x.verified]
  <2> DEFINE x == [meta[k] EXCEPT !.name = name]
  <2>1. meta' = [meta EXCEPT ![k] = x]
    BY <1>4 DEF UpdateMetadata
  <2>2. PICK m : m = meta[k]
    OBVIOUS
  <2>3. m.made /\ MetaOK(m) /\ m.is_mutable
    BY <1>4, <2>2 DEF UpdateMetadata, MetadataInv
  <2>4. /\ m = [made |-> m.made, update_authority |-> m.update_authority, name |-> m.name,
                creators |-> m.creators, verified |-> m.verified, is_mutable |-> m.is_mutable]
        /\ m.is_mutable \in BOOLEAN
    BY <1>0, <2>3 DEF MetaOK
  <2>5. MetaOK(x)
    <3>1. x.made /\ x.is_mutable \in BOOLEAN
      BY <2>2, <2>3, <2>4
    <3>2. x = [made |-> x.made, update_authority |-> x.update_authority, name |-> x.name,
               creators |-> x.creators, verified |-> x.verified, is_mutable |-> x.is_mutable]
      BY <2>2, <2>4
    <3> HIDE DEF x
    <3> QED BY <3>1, <3>2 DEF MetaOK
  <2>6. ~m.is_mutable => x = [m EXCEPT !.verified = x.verified]
    BY <2>2, <2>3, <2>4
  <2> HIDE DEF x
  <2> QED BY <2>1, <2>2, <2>5, <2>6
<1>5. ASSUME MakeImmutable(k, a)
      PROVE  \E x : /\ meta' = [meta EXCEPT ![k] = x] /\ MetaOK(x)
                    /\ meta[k].made /\ ~meta[k].is_mutable /\ meta[k].name # EmptyName
                         => x = [meta[k] EXCEPT !.verified = x.verified]
  <2>0. PICK w \in BOOLEAN : w = FALSE
    OBVIOUS
  <2> DEFINE x == [meta[k] EXCEPT !.is_mutable = w]
  <2>1. meta' = [meta EXCEPT ![k] = x]
    BY <1>5, <2>0 DEF MakeImmutable
  <2>2. PICK m : m = meta[k]
    OBVIOUS
  <2>3. m.made /\ MetaOK(m)
    BY <1>5, <2>2 DEF MakeImmutable, MetadataInv
  <2>4. /\ m = [made |-> m.made, update_authority |-> m.update_authority, name |-> m.name,
                creators |-> m.creators, verified |-> m.verified, is_mutable |-> m.is_mutable]
        /\ m.is_mutable \in BOOLEAN
    BY <1>0, <2>3 DEF MetaOK
  <2>5. MetaOK(x)
    <3>1. x.made /\ x.is_mutable \in BOOLEAN
      BY <2>2, <2>3, <2>4
    <3>2. x = [made |-> x.made, update_authority |-> x.update_authority, name |-> x.name,
               creators |-> x.creators, verified |-> x.verified, is_mutable |-> x.is_mutable]
      BY <2>2, <2>4
    <3> HIDE DEF x
    <3> QED BY <3>1, <3>2 DEF MetaOK
  <2>6. ~m.is_mutable => x = [m EXCEPT !.verified = x.verified]
    BY <2>0, <2>2, <2>3, <2>4
  <2> HIDE DEF x
  <2> QED BY <2>1, <2>2, <2>5, <2>6
<1>6. ASSUME NEW c, VerifyCreator(k, c)
      PROVE  \E x : /\ meta' = [meta EXCEPT ![k] = x] /\ MetaOK(x)
                    /\ meta[k].made /\ ~meta[k].is_mutable /\ meta[k].name # EmptyName
                         => x = [meta[k] EXCEPT !.verified = x.verified]
  <2> DEFINE x == [meta[k] EXCEPT !.verified = @ \cup ({c} \cap meta[k].creators)]
  <2>1. meta' = [meta EXCEPT ![k] = x]
    BY <1>6 DEF VerifyCreator
  <2>2. PICK m : m = meta[k]
    OBVIOUS
  <2>3. m.made /\ MetaOK(m)
    BY <1>6, <2>2 DEF VerifyCreator, MetadataInv
  <2>4. /\ m = [made |-> m.made, update_authority |-> m.update_authority, name |-> m.name,
                creators |-> m.creators, verified |-> m.verified, is_mutable |-> m.is_mutable]
        /\ m.is_mutable \in BOOLEAN
    BY <1>0, <2>3 DEF MetaOK
  <2>5. MetaOK(x)
    <3>1. x.made /\ x.is_mutable \in BOOLEAN
      BY <2>2, <2>3, <2>4
    <3>2. x = [made |-> x.made, update_authority |-> x.update_authority, name |-> x.name,
               creators |-> x.creators, verified |-> x.verified, is_mutable |-> x.is_mutable]
      BY <2>2, <2>4
    <3> HIDE DEF x
    <3> QED BY <3>1, <3>2 DEF MetaOK
  <2>6. ~m.is_mutable => x = [m EXCEPT !.verified = x.verified]
    BY <2>2, <2>3, <2>4
  <2> HIDE DEF x
  <2> QED BY <2>1, <2>2, <2>5, <2>6
<1> QED BY <1>1, <1>2, <1>3, <1>4, <1>5, <1>6

\* FrozenStays: no step of either program changes a frozen record with a name, but
\* for the verification of its creators.
THEOREM FrozenForGood == AssetsSpec => FrozenStays
<1>1. AssetsInit => MetadataInv
  BY DEF AssetsInit, MetadataInit, MetadataInv, MetaOK
<1>2. MetadataInv /\ [AssetsNext]_assetsVars => MetadataInv'
  <2> SUFFICES ASSUME MetadataInv, [AssetsNext]_assetsVars PROVE MetadataInv'
    OBVIOUS
  <2>1. CASE MetadataNext
    BY <2>1, MetadataStep
  <2>2. CASE meta' = meta
    BY <2>2 DEF MetadataInv
  <2> QED BY <2>1, <2>2 DEF AssetsNext, assetsVars
<1>3. MetadataInv /\ [AssetsNext]_assetsVars =>
        [\A k \in MetaKeys :
           meta[k].made /\ ~meta[k].is_mutable /\ meta[k].name # EmptyName
             => meta'[k] = [meta[k] EXCEPT !.verified = meta'[k].verified]]_meta
  BY MetadataStep DEF AssetsNext, assetsVars
<1> QED BY <1>1, <1>2, <1>3, PTL DEF AssetsSpec, FrozenStays
=============================================================================
