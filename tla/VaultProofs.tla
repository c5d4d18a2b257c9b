---------------------------- MODULE VaultProofs ----------------------------
(***************************************************************************)
(* Proofs about the money market and the vault that lends to it, for any   *)
(* users, amounts, prices, times, scales and rates.                        *)
(***************************************************************************)
EXTENDS Vault, InductionLemmas

-----------------------------------------------------------------------------
(***************************************************************************)
(* Rounding.                                                               *)
(***************************************************************************)

\* Multiplying by a fraction that is at least one loses nothing to rounding.
LEMMA ScaleUp ==
  ASSUME NEW a \in Nat, NEW n \in Nat, NEW d \in Nat \ {0}, d <= n
  PROVE  (a * n) \div d \in Nat /\ a <= (a * n) \div d
<1>1. a * n \in Nat /\ a * d <= a * n
  OBVIOUS
<1> QED BY <1>1

LEMMA CeilBounds ==
  ASSUME NEW a \in Nat, NEW b \in Nat \ {0}
  PROVE  div_ceil(a, b) \in Nat /\ a <= b * div_ceil(a, b)
<1> DEFINE c == a + b - 1
<1>1. c \in Nat
  OBVIOUS
<1>2. c \div b \in Nat /\ c < b * (c \div b) + b
  BY <1>1, DivBounds
<1> QED BY <1>2 DEF div_ceil

-----------------------------------------------------------------------------
(***************************************************************************)
(* Interest.                                                               *)
(***************************************************************************)

LEMMA RateIsNat ==
  ASSUME NEW k \in MarketState
  PROVE  borrow_rate(k) \in Nat
<1> USE MarketAssumption
<1>0. BPS \in Nat \ {0}
  OBVIOUS
<1>1. utilization(k) \in Nat
  <2>1. k.total_borrows * BPS \in Nat /\ k.total_borrows + k.total_cash \in Nat
    BY <1>0 DEF MarketState
  <2> QED BY <2>1, DivBounds DEF utilization
<1>2. \A x, y \in Nat : (x * y) \div BPS \in Nat
  <2> TAKE x, y \in Nat
  <2>1. x * y \in Nat
    OBVIOUS
  <2> QED BY <1>0, <2>1, DivBounds
<1>3. utilization(k) > kink_utilization => utilization(k) - kink_utilization \in Nat
  BY <1>0, <1>1
<1> QED BY <1>1, <1>2, <1>3 DEF borrow_rate

\* Accruing interest moves the borrows and the index up and nothing else.
LEMMA AccrueMarket ==
  ASSUME NEW k \in MarketState, NEW now \in Nat, NEW j, j = accrue_market(k, now)
  PROVE  /\ j \in MarketState
         /\ j.total_cash = k.total_cash /\ j.total_collateral = k.total_collateral
         /\ j.total_lender_shares = k.total_lender_shares
         /\ k.total_borrows <= j.total_borrows /\ k.borrow_index <= j.borrow_index
<1>1. CASE now <= k.last_accrual_ts
  BY <1>1 DEF accrue_market, MarketState
<1>2. CASE now > k.last_accrual_ts
  <2> DEFINE den == BPS * SECONDS_PER_YEAR
             num == den + borrow_rate(k) * (now - k.last_accrual_ts)
             Grown(x) == (x * num) \div den
  <2>1. den \in Nat \ {0}
    BY MarketAssumption
  <2>2. num \in Nat /\ den <= num
    <3>1. now - k.last_accrual_ts \in Nat
      BY <1>2 DEF MarketState
    <3>2. borrow_rate(k) * (now - k.last_accrual_ts) \in Nat
      BY <3>1, RateIsNat
    <3> QED BY <2>1, <3>2
  <2>3. ~(now <= k.last_accrual_ts)
    BY <1>2 DEF MarketState
  <2>4. j = [k EXCEPT !.last_accrual_ts = now,
               !.borrow_index = IF k.total_borrows # 0 THEN Grown(@) ELSE @,
               !.total_borrows = IF k.total_borrows # 0 THEN Grown(@) ELSE @]
    BY <2>3 DEF accrue_market
  <2> HIDE DEF den, num
  <2>5. \A x \in Nat : Grown(x) \in Nat /\ x <= Grown(x)
    BY <2>1, <2>2, ScaleUp
  <2>6. k.total_borrows \in Nat /\ k.borrow_index \in Nat
    BY DEF MarketState
  <2>7. \E i, b \in Nat :
          /\ k.borrow_index <= i /\ k.total_borrows <= b
          /\ j = [k EXCEPT !.last_accrual_ts = now, !.borrow_index = i, !.total_borrows = b]
    <3>1. CASE k.total_borrows # 0
      BY <2>4, <2>5, <2>6, <3>1
    <3>2. CASE k.total_borrows = 0
      <4>1. j = [k EXCEPT !.last_accrual_ts = now, !.borrow_index = k.borrow_index,
                          !.total_borrows = k.total_borrows]
        BY <2>4, <3>2
      <4>2. k.borrow_index <= k.borrow_index /\ k.total_borrows <= k.total_borrows
        BY <2>6
      <4> QED BY <2>6, <4>1, <4>2, Zenon
    <3> QED BY <3>1, <3>2
  <2> QED BY <2>7 DEF MarketState
<1> QED BY <1>1, <1>2 DEF MarketState

\* Bringing a position up to date keeps its collateral and gives it the debt it
\* has at the market's index.
LEMMA AccruePosition ==
  ASSUME NEW p \in Position, NEW index \in Nat \ {0}, p.borrow_index_snapshot <= index,
         NEW q, q = accrue_position(p, index)
  PROVE  /\ q \in Position
         /\ q.collateral = p.collateral /\ q.borrow_index_snapshot = index
         /\ p.borrow_index_snapshot # 0 =>
              q.debt = (p.debt * index) \div p.borrow_index_snapshot
<1> DEFINE s == p.borrow_index_snapshot
<1>1. p.debt \in Nat /\ s \in Nat /\ p.debt * index \in Nat
  BY DEF Position
<1>2. s # 0 => (p.debt * index) \div s \in Nat
  BY <1>1, DivBounds
<1>3. s # 0 /\ s = index => (p.debt * index) \div s = p.debt
  BY <1>1
<1>4. q = [p EXCEPT !.borrow_index_snapshot = index,
             !.debt = IF s # 0 /\ index > s THEN (@ * index) \div s ELSE @]
  BY DEF accrue_position
<1>5. PICK d \in Nat : /\ q = [p EXCEPT !.borrow_index_snapshot = index, !.debt = d]
                       /\ s # 0 => d = (p.debt * index) \div s
  <2>1. CASE s # 0 /\ index > s
    <3>1. q = [p EXCEPT !.borrow_index_snapshot = index, !.debt = (p.debt * index) \div s]
      BY <1>4, <2>1
    <3> QED BY <1>2, <2>1, <3>1
  <2>2. CASE ~(s # 0 /\ index > s)
    <3>1. q = [p EXCEPT !.borrow_index_snapshot = index, !.debt = p.debt]
      BY <1>4, <2>2
    <3>2. s # 0 => s = index
      BY <1>1, <2>2
    <3> QED BY <1>1, <1>3, <3>1, <3>2
  <2> QED BY <2>1, <2>2
<1> QED BY <1>5 DEF Position

-----------------------------------------------------------------------------
(***************************************************************************)
(* The market.  Besides the books the invariant keeps every position's     *)
(* index at or below the market's, which only grows.                       *)
(***************************************************************************)
IndexInv ==
  /\ m.borrow_index >= 1
  /\ \A u \in Users : pos[u].borrow_index_snapshot <= m.borrow_index

MarketInv == TypeOK /\ BooksMatch /\ IndexInv

\* A step of the market for any amount and time: the vault calls it with amounts
\* of its own.
LenderCall(u, a, now) == AddLiquidity(u, a, now) \/ RemoveLiquidity(u, a, now)
BorrowerCall(u, a, now) ==
  \/ Supply(u, a, now) \/ Withdraw(u, a, now)
  \/ Borrow(u, a, now) \/ Repay(u, a, now) \/ Liquidate(u, a, now)
Called ==
  \/ SyncPrice
  \/ \E u \in Users, a \in Nat, now \in Nat : LenderCall(u, a, now) \/ BorrowerCall(u, a, now)

\* The collateral of the positions.
Collateral == [u \in Users |-> pos[u].collateral]

LEMMA MarketInit == Init => MarketInv
<1> SUFFICES ASSUME Init PROVE MarketInv
  OBVIOUS
<1> USE MarketAssumption
<1>1. PICK p \in Prices :
       m = [price |-> p, price_updated_at |-> 0, total_collateral |-> 0,
            total_borrows |-> 0, total_cash |-> 0, total_lender_shares |-> 0,
            borrow_index |-> INDEX_SCALE, last_accrual_ts |-> 0]
  BY DEF Init
<1>2. TypeOK
  BY <1>1 DEF Init, TypeOK, MarketState, Position
<1>3. SumFunction(Collateral) = 0 /\ SumFunction(shares) = 0
  BY SumOfZeros DEF Init, Collateral
<1>4. BooksMatch
  BY <1>1, <1>3 DEF Init, BooksMatch, Collateral
<1>5. IndexInv
  BY <1>1 DEF Init, IndexInv
<1> QED BY <1>2, <1>4, <1>5 DEF MarketInv

\* What a lender's call does, whatever its direction: the cash, the vault's
\* balance and the shares move together and a share loses no value.
LEMMA LenderCalls ==
  ASSUME MarketInv, NEW u \in Users, NEW a \in Nat, NEW now \in Nat, LenderCall(u, a, now)
  PROVE  /\ MarketInv'
         /\ m.total_lender_shares > 0 =>
              pool_value(m) * m'.total_lender_shares <= pool_value(m') * m.total_lender_shares
         /\ pos' = pos /\ m.borrow_index <= m'.borrow_index
<1> DEFINE k == accrue_market(m, now)
           L == m.total_lender_shares
           V == pool_value(k)
<1>0. m \in MarketState /\ shares \in [Users -> Nat] /\ shares[u] \in Nat
  BY DEF MarketInv, TypeOK
<1>1. /\ k \in MarketState
      /\ k.total_cash = m.total_cash /\ k.total_collateral = m.total_collateral
      /\ k.total_lender_shares = L
      /\ m.total_borrows <= k.total_borrows /\ m.borrow_index <= k.borrow_index
  BY <1>0, AccrueMarket
<1> HIDE DEF k
<1>2. V \in Nat /\ pool_value(m) \in Nat /\ pool_value(m) <= V /\ L \in Nat
  BY <1>0, <1>1 DEF pool_value, MarketState
<1>3. SumFunction(shares) = L /\ shares[u] <= L
  BY <1>0, <1>2, SumOfNats, MarketAssumption DEF MarketInv, BooksMatch
<1>4. \A s \in Nat : SumFunction([shares EXCEPT ![u] = s]) = L - shares[u] + s
  <2> TAKE s \in Nat
  <2>1. shares \in [Users -> Int] /\ IsFiniteSet(Users) /\ s \in Int
    BY <1>0, MarketAssumption
  <2>2. SumFunction([shares EXCEPT ![u] = s]) = SumFunction(shares) - shares[u] + s
    BY <2>1, SumUpdate
  <2> QED BY <1>3, <2>2
<1>5. CASE AddLiquidity(u, a, now)
  <2> DEFINE s == shares_for_deposit(k, a)
  <2>1. /\ m' = [k EXCEPT !.total_cash = @ + a, !.total_lender_shares = @ + s]
        /\ shares' = [shares EXCEPT ![u] = shares[u] + s]
        /\ vault' = [vault EXCEPT !.borrow = @ + a] /\ pos' = pos
    BY <1>5 DEF AddLiquidity, k
  <2>2. s \in Nat /\ (L # 0 /\ V # 0 => V * s <= a * L)
    <3>1. a * L \in Nat
      BY <1>2
    <3>2. L # 0 /\ V # 0 => s = (a * L) \div V
      BY <1>1 DEF shares_for_deposit
    <3>3. ~(L # 0 /\ V # 0) => s = a
      BY <1>1 DEF shares_for_deposit
    <3> HIDE DEF s, V, L
    <3> QED BY <1>2, <3>1, <3>2, <3>3, DivBounds
  <2> HIDE DEF s
  <2>3. SumFunction(shares') = L + s
    <3>1. shares[u] + s \in Nat
      BY <1>0, <2>2
    <3>2. SumFunction(shares') = L - shares[u] + (shares[u] + s)
      BY <1>4, <2>1, <3>1
    <3> QED BY <1>0, <1>2, <2>2, <3>2
  <2>4. /\ m' \in MarketState
        /\ m'.total_cash = m.total_cash + a /\ m'.total_lender_shares = L + s
        /\ m'.total_collateral = m.total_collateral /\ m'.borrow_index = k.borrow_index
        /\ pool_value(m') = V + a
    <3>1. k.total_cash + a \in Nat /\ L + s \in Nat
      BY <1>1, <1>2, <2>2 DEF MarketState
    <3>2. m' = [k EXCEPT !.total_cash = k.total_cash + a, !.total_lender_shares = L + s]
      BY <1>1, <2>1
    <3> HIDE DEF L
    <3>3. /\ m' \in MarketState
          /\ m'.total_cash = m.total_cash + a /\ m'.total_lender_shares = L + s
          /\ m'.total_collateral = m.total_collateral /\ m'.borrow_index = k.borrow_index
          /\ m'.total_borrows = k.total_borrows
      BY <1>1, <3>1, <3>2 DEF MarketState
    <3> QED BY <1>1, <3>3 DEF MarketState, pool_value
  <2>5. TypeOK'
    BY <1>0, <2>1, <2>2, <2>4 DEF MarketInv, TypeOK
  <2>6. BooksMatch'
    BY <2>1, <2>3, <2>4 DEF MarketInv, TypeOK, BooksMatch
  <2>7. IndexInv'
    BY <1>0, <1>1, <2>1, <2>4 DEF MarketInv, TypeOK, IndexInv, MarketState, Position
  <2>8. L > 0 => pool_value(m) * (L + s) <= (V + a) * L
    <3> SUFFICES ASSUME L > 0 PROVE pool_value(m) * (L + s) <= (V + a) * L
      OBVIOUS
    <3>1. pool_value(m) * (L + s) <= V * (L + s)
      BY <1>2, <2>2
    <3>2. V * (L + s) = V * L + V * s /\ (V + a) * L = V * L + a * L
      BY <1>2, <2>2
    <3>3. V * s <= a * L
      BY <1>2, <2>2
    <3> QED BY <1>2, <2>2, <3>1, <3>2, <3>3
  <2> QED BY <1>1, <2>1, <2>4, <2>5, <2>6, <2>7, <2>8 DEF MarketInv
<1>6. CASE RemoveLiquidity(u, a, now)
  <2> DEFINE s == shares_for_withdraw(k, a)
  <2>1. /\ m' = [k EXCEPT !.total_cash = @ - a, !.total_lender_shares = @ - s]
        /\ shares' = [shares EXCEPT ![u] = shares[u] - s]
        /\ vault' = [vault EXCEPT !.borrow = @ - a] /\ pos' = pos
        /\ s <= shares[u] /\ a <= k.total_cash /\ a <= vault.borrow
    BY <1>6 DEF RemoveLiquidity, k
  <2>2. s \in Nat /\ (V # 0 => a * L <= V * s)
    BY <1>1, <1>2, CeilBounds DEF shares_for_withdraw
  <2> HIDE DEF s
  <2>3. shares[u] - s \in Nat /\ L - s \in Nat /\ SumFunction(shares') = L - s
    <3>1. shares[u] - s \in Nat /\ L - s \in Nat
      BY <1>0, <1>2, <1>3, <2>1, <2>2
    <3>2. SumFunction(shares') = L - shares[u] + (shares[u] - s)
      BY <1>4, <2>1, <3>1
    <3> QED BY <1>0, <1>2, <2>2, <3>1, <3>2
  <2>4. /\ m' \in MarketState
        /\ m'.total_cash = m.total_cash - a /\ m'.total_lender_shares = L - s
        /\ m'.total_collateral = m.total_collateral /\ m'.borrow_index = k.borrow_index
        /\ pool_value(m') = V - a
    <3>1. k.total_cash - a \in Nat /\ L - s \in Nat
      BY <1>1, <2>1, <2>3 DEF MarketState
    <3>2. m' = [k EXCEPT !.total_cash = k.total_cash - a, !.total_lender_shares = L - s]
      BY <1>1, <2>1
    <3> HIDE DEF L
    <3>3. /\ m' \in MarketState
          /\ m'.total_cash = m.total_cash - a /\ m'.total_lender_shares = L - s
          /\ m'.total_collateral = m.total_collateral /\ m'.borrow_index = k.borrow_index
          /\ m'.total_borrows = k.total_borrows
      BY <1>1, <3>1, <3>2 DEF MarketState
    <3> QED BY <1>1, <3>3 DEF MarketState, pool_value
  <2>5. TypeOK'
    BY <1>0, <2>1, <2>3, <2>4 DEF MarketInv, TypeOK
  <2>6. BooksMatch'
    BY <2>1, <2>3, <2>4 DEF MarketInv, TypeOK, BooksMatch
  <2>7. IndexInv'
    BY <1>0, <1>1, <2>1, <2>4 DEF MarketInv, TypeOK, IndexInv, MarketState, Position
  <2>8. pool_value(m) * (L - s) <= (V - a) * L
    <3>1. a <= V
      BY <1>1, <1>2, <2>1 DEF pool_value, MarketState
    <3>2. pool_value(m) * (L - s) <= V * (L - s)
      BY <1>2, <2>3
    <3>3. V * (L - s) = V * L - V * s /\ (V - a) * L = V * L - a * L
      BY <1>2, <2>2
    <3>4. a * L <= V * s
      BY <1>2, <2>2, <3>1
    <3> QED BY <1>2, <2>2, <2>3, <3>1, <3>2, <3>3, <3>4
  <2> QED BY <1>1, <2>1, <2>4, <2>5, <2>6, <2>7, <2>8 DEF MarketInv
<1> QED BY <1>5, <1>6 DEF LenderCall

\* What a borrower's call does, fieldwise: q is u's new position.
BorrowerEffect(u, now, q) ==
  LET k == accrue_market(m, now)
      p == accrue_position(pos[u], k.borrow_index)
  IN /\ q \in Position /\ pos' = [pos EXCEPT ![u] = q] /\ shares' = shares
     /\ q.borrow_index_snapshot = k.borrow_index
     /\ m' \in MarketState /\ m'.borrow_index = k.borrow_index
     /\ m'.total_lender_shares = m.total_lender_shares
     /\ pool_value(m) <= pool_value(m')
     /\ vault' \in [collateral : Nat, borrow : Nat]
     /\ vault'.borrow - vault.borrow = m'.total_cash - m.total_cash
     /\ vault'.collateral - vault.collateral = m'.total_collateral - m.total_collateral
     /\ q.collateral - pos[u].collateral = m'.total_collateral - m.total_collateral
     /\ p.debt <= q.debt \/ p.debt - q.debt <= vault'.borrow - vault.borrow

LEMMA BorrowerEffects ==
  ASSUME MarketInv, NEW u \in Users, NEW a \in Nat, NEW now \in Nat, BorrowerCall(u, a, now)
  PROVE  \E q : BorrowerEffect(u, now, q)
<1> DEFINE k == accrue_market(m, now)
           p == accrue_position(pos[u], k.borrow_index)
<1>0. /\ m \in MarketState /\ pos \in [Users -> Position] /\ pos[u] \in Position
      /\ vault \in [collateral : Nat, borrow : Nat]
      /\ m.total_cash = vault.borrow /\ m.total_collateral = vault.collateral
  BY DEF MarketInv, TypeOK, BooksMatch
<1>1. /\ k \in MarketState
      /\ k.total_cash = m.total_cash /\ k.total_collateral = m.total_collateral
      /\ k.total_lender_shares = m.total_lender_shares
      /\ m.total_borrows <= k.total_borrows /\ m.borrow_index <= k.borrow_index
  BY <1>0, AccrueMarket
<1>2. k.borrow_index \in Nat \ {0} /\ pos[u].borrow_index_snapshot <= k.borrow_index
  BY <1>0, <1>1 DEF MarketInv, IndexInv, MarketState, Position
<1>3. /\ p \in Position /\ p.collateral = pos[u].collateral
      /\ p.borrow_index_snapshot = k.borrow_index
  BY <1>0, <1>2, AccruePosition
<1>4. pos[u].collateral <= m.total_collateral
  <2>1. Collateral \in [Users -> Nat] /\ Collateral[u] = pos[u].collateral
    BY <1>0 DEF Collateral, Position
  <2>2. SumFunction(Collateral) = m.total_collateral
    BY DEF MarketInv, BooksMatch, Collateral
  <2> QED BY <2>1, <2>2, SumOfNats, MarketAssumption
<1>5. /\ k.total_cash \in Nat /\ k.total_borrows \in Nat /\ k.total_collateral \in Nat
      /\ p.debt \in Nat /\ p.collateral \in Nat
      /\ m.total_borrows \in Nat /\ m.total_lender_shares \in Nat
      /\ vault.collateral \in Nat /\ vault.borrow \in Nat
  BY <1>0, <1>1, <1>3 DEF MarketState, Position
<1> HIDE DEF k, p
<1>6. ASSUME NEW q \in Position, NEW x \in Nat, NEW y \in Nat, NEW z \in Nat,
             pos' = [pos EXCEPT ![u] = q], shares' = shares,
             m' = [k EXCEPT !.total_cash = x, !.total_borrows = y, !.total_collateral = z],
             vault' = [collateral |-> z, borrow |-> x],
             q.borrow_index_snapshot = k.borrow_index,
             k.total_cash + k.total_borrows <= x + y,
             q.collateral - p.collateral = z - k.total_collateral,
             p.debt <= q.debt \/ p.debt - q.debt <= x - k.total_cash
      PROVE  \E r : BorrowerEffect(u, now, r)
  <2>1. /\ m' \in MarketState /\ m'.borrow_index = k.borrow_index
        /\ m'.total_lender_shares = m.total_lender_shares
        /\ m'.total_cash = x /\ m'.total_borrows = y /\ m'.total_collateral = z
    BY <1>1, <1>6 DEF MarketState
  <2>2. pool_value(m) <= pool_value(m')
    BY <1>1, <1>5, <1>6, <2>1 DEF pool_value
  <2>3. /\ vault' \in [collateral : Nat, borrow : Nat]
        /\ vault'.borrow = x /\ vault'.collateral = z
    BY <1>6
  <2>4. BorrowerEffect(u, now, q)
    BY <1>0, <1>1, <1>3, <1>6, <2>1, <2>2, <2>3 DEF BorrowerEffect, k, p
  <2> QED BY <2>4, Zenon
<1>7. CASE Supply(u, a, now)
  <2> DEFINE q == [p EXCEPT !.collateral = p.collateral + a]
             z == k.total_collateral + a
  <2>1. /\ vault' = [vault EXCEPT !.collateral = @ + a]
        /\ pos' = [pos EXCEPT ![u] = q] /\ shares' = shares
        /\ m' = [k EXCEPT !.total_collateral = z]
    BY <1>7 DEF Supply, k, p
  <2>2. /\ q \in Position /\ z \in Nat /\ q.debt = p.debt /\ q.collateral = p.collateral + a
        /\ q.borrow_index_snapshot = k.borrow_index
    BY <1>3, <1>5 DEF Position
  <2>3. /\ m' = [k EXCEPT !.total_cash = k.total_cash, !.total_borrows = k.total_borrows,
                          !.total_collateral = z]
        /\ vault' = [collateral |-> z, borrow |-> k.total_cash]
    BY <1>0, <1>1, <2>1 DEF MarketState
  <2>4. /\ q.collateral - p.collateral = z - k.total_collateral /\ p.debt <= q.debt
        /\ k.total_cash + k.total_borrows <= k.total_cash + k.total_borrows
    BY <1>5, <2>2
  <2> HIDE DEF q, z
  <2> QED BY <1>5, <1>6, <2>1, <2>2, <2>3, <2>4, Zenon
<1>8. CASE Withdraw(u, a, now)
  <2> DEFINE q == [p EXCEPT !.collateral = p.collateral - a]
             z == k.total_collateral - a
  <2>1. /\ vault' = [vault EXCEPT !.collateral = @ - a]
        /\ pos' = [pos EXCEPT ![u] = q] /\ shares' = shares
        /\ m' = [k EXCEPT !.total_collateral = z]
        /\ a <= p.collateral /\ a <= vault.collateral
    BY <1>8 DEF Withdraw, k, p
  <2>2. /\ q \in Position /\ z \in Nat /\ q.debt = p.debt /\ q.collateral = p.collateral - a
        /\ q.borrow_index_snapshot = k.borrow_index
    BY <1>0, <1>1, <1>3, <1>5, <2>1 DEF Position
  <2>3. /\ m' = [k EXCEPT !.total_cash = k.total_cash, !.total_borrows = k.total_borrows,
                          !.total_collateral = z]
        /\ vault' = [collateral |-> z, borrow |-> k.total_cash]
    BY <1>0, <1>1, <2>1 DEF MarketState
  <2>4. /\ q.collateral - p.collateral = z - k.total_collateral /\ p.debt <= q.debt
        /\ k.total_cash + k.total_borrows <= k.total_cash + k.total_borrows
    BY <1>5, <2>2
  <2> HIDE DEF q, z
  <2> QED BY <1>5, <1>6, <2>1, <2>2, <2>3, <2>4, Zenon
<1>9. CASE Borrow(u, a, now)
  <2> DEFINE q == [p EXCEPT !.debt = p.debt + a]
             x == k.total_cash - a
             y == k.total_borrows + a
  <2>1. /\ vault' = [vault EXCEPT !.borrow = @ - a]
        /\ pos' = [pos EXCEPT ![u] = q] /\ shares' = shares
        /\ m' = [k EXCEPT !.total_cash = x, !.total_borrows = y]
        /\ a <= k.total_cash
    BY <1>9 DEF Borrow, k, p
  <2>2. /\ q \in Position /\ x \in Nat /\ y \in Nat /\ q.debt = p.debt + a
        /\ q.collateral = p.collateral /\ q.borrow_index_snapshot = k.borrow_index
    BY <1>3, <1>5, <2>1 DEF Position
  <2>3. k.total_cash + k.total_borrows <= x + y /\ p.debt <= q.debt
    BY <1>5, <2>2
  <2>4. /\ m' = [k EXCEPT !.total_cash = x, !.total_borrows = y,
                          !.total_collateral = k.total_collateral]
        /\ vault' = [collateral |-> k.total_collateral, borrow |-> x]
    BY <1>0, <1>1, <2>1 DEF MarketState
  <2>5. q.collateral - p.collateral = k.total_collateral - k.total_collateral
    BY <1>5, <2>2
  <2> HIDE DEF q, x, y
  <2> QED BY <1>5, <1>6, <2>1, <2>2, <2>3, <2>4, <2>5
<1>10. CASE Repay(u, a, now)
  <2> DEFINE r == Least(a, p.debt)
             q == [p EXCEPT !.debt = p.debt - r]
             x == k.total_cash + r
             y == SatSub(k.total_borrows, r)
  <2>1. /\ vault' = [vault EXCEPT !.borrow = @ + r]
        /\ pos' = [pos EXCEPT ![u] = q] /\ shares' = shares
        /\ m' = [k EXCEPT !.total_cash = x, !.total_borrows = y]
    BY <1>10 DEF Repay, k, p
  <2>2. r \in Nat /\ r <= p.debt
    BY <1>5 DEF Least
  <2>3. y \in Nat /\ k.total_borrows <= y + r
    BY <1>5, <2>2 DEF SatSub
  <2> HIDE DEF r, y
  <2>4. /\ q \in Position /\ x \in Nat /\ q.debt = p.debt - r
        /\ q.collateral = p.collateral /\ q.borrow_index_snapshot = k.borrow_index
    BY <1>3, <1>5, <2>2 DEF Position
  <2>5. k.total_cash + k.total_borrows <= x + y /\ p.debt - q.debt <= x - k.total_cash
    BY <1>5, <2>2, <2>3, <2>4
  <2>6. /\ m' = [k EXCEPT !.total_cash = x, !.total_borrows = y,
                          !.total_collateral = k.total_collateral]
        /\ vault' = [collateral |-> k.total_collateral, borrow |-> x]
    BY <1>0, <1>1, <2>1 DEF MarketState
  <2>7. q.collateral - p.collateral = k.total_collateral - k.total_collateral
    BY <1>5, <2>4
  <2> HIDE DEF q, x
  <2> QED BY <1>5, <1>6, <2>1, <2>3, <2>4, <2>5, <2>6, <2>7
<1>11. CASE Liquidate(u, a, now)
  <2> DEFINE r == Least(a, max_liquidation_repay(p.debt))
             c == Least(seize_collateral(k, r), p.collateral)
             q == [p EXCEPT !.debt = p.debt - r, !.collateral = p.collateral - c]
             x == k.total_cash + r
             y == SatSub(k.total_borrows, r)
             z == SatSub(k.total_collateral, c)
  <2>1. /\ vault' = [collateral |-> vault.collateral - c, borrow |-> vault.borrow + r]
        /\ pos' = [pos EXCEPT ![u] = q] /\ shares' = shares
        /\ m' = [k EXCEPT !.total_borrows = y, !.total_cash = x, !.total_collateral = z]
        /\ fresh_price(k, now) /\ is_liquidatable(k, p.collateral, p.debt)
    BY <1>11 DEF Liquidate, k, p
  <2>2. /\ BPS \in Nat \ {0} /\ PRICE_SCALE \in Nat \ {0} /\ liquidation_bonus \in Nat
        /\ liquidation_threshold \in Nat /\ close_factor \in Nat /\ k.price \in Nat \ {0}
    BY <1>1, <2>1, MarketAssumption DEF fresh_price, MarketState
  <2>3. p.debt >= 1
    <3>1. p.collateral * k.price \in Nat
      BY <1>5, <2>2
    <3>2. CollateralValue(k, p.collateral) \in Nat
      BY <2>2, <3>1, DivBounds DEF CollateralValue
    <3>3. CollateralValue(k, p.collateral) * liquidation_threshold \in Nat
      BY <2>2, <3>2
    <3>4. (CollateralValue(k, p.collateral) * liquidation_threshold) \div BPS \in Nat
      BY <2>2, <3>3, DivBounds
    <3> QED BY <1>5, <2>1, <3>4 DEF is_liquidatable
  <2>4. r \in Nat /\ r <= p.debt
    <3>1. p.debt * close_factor \in Nat
      BY <1>5, <2>2
    <3>2. div_ceil(p.debt * close_factor, BPS) \in Nat
      BY <2>2, <3>1, CeilBounds
    <3>3. max_liquidation_repay(p.debt) \in Nat /\ max_liquidation_repay(p.debt) <= p.debt
      BY <1>5, <2>3, <3>2 DEF max_liquidation_repay, Least
    <3> QED BY <1>5, <3>3 DEF Least
  <2> HIDE DEF r
  <2>5. c \in Nat /\ c <= p.collateral
    <3>1. r * PRICE_SCALE \in Nat
      BY <2>2, <2>4
    <3>2. (r * PRICE_SCALE) \div k.price \in Nat
      BY <2>2, <3>1, DivBounds
    <3>3. ((r * PRICE_SCALE) \div k.price) * (BPS + liquidation_bonus) \in Nat
      BY <2>2, <3>2
    <3>4. seize_collateral(k, r) \in Nat
      BY <2>2, <3>3, DivBounds DEF seize_collateral
    <3> QED BY <1>5, <3>4 DEF Least
  <2> HIDE DEF c
  <2>6. /\ y \in Nat /\ k.total_borrows <= y + r
        /\ z = k.total_collateral - c /\ z \in Nat
    BY <1>0, <1>1, <1>3, <1>4, <1>5, <2>4, <2>5 DEF SatSub
  <2> HIDE DEF y, z
  <2>7. /\ q \in Position /\ x \in Nat /\ q.debt = p.debt - r
        /\ q.collateral = p.collateral - c /\ q.borrow_index_snapshot = k.borrow_index
    <3> DEFINE d == p.debt - r
               e == p.collateral - c
    <3>1. d \in Nat /\ e \in Nat /\ x \in Nat
      BY <1>5, <2>4, <2>5
    <3>2. q = [p EXCEPT !.debt = d, !.collateral = e]
      OBVIOUS
    <3> HIDE DEF d, e, q
    <3>3. /\ q \in Position /\ q.debt = d /\ q.collateral = e
          /\ q.borrow_index_snapshot = k.borrow_index
      BY <1>3, <3>1, <3>2 DEF Position
    <3> QED BY <3>1, <3>3 DEF d, e
  <2>8. k.total_cash + k.total_borrows <= x + y /\ p.debt - q.debt <= x - k.total_cash
    BY <1>5, <2>4, <2>6, <2>7
  <2>9. /\ m' = [k EXCEPT !.total_cash = x, !.total_borrows = y, !.total_collateral = z]
        /\ vault' = [collateral |-> z, borrow |-> x]
    BY <1>0, <1>1, <2>1, <2>6 DEF MarketState
  <2>10. q.collateral - p.collateral = z - k.total_collateral
    BY <1>5, <2>5, <2>6, <2>7
  <2> HIDE DEF q, x
  <2> QED BY <1>6, <2>1, <2>6, <2>7, <2>8, <2>9, <2>10
<1> QED BY <1>7, <1>8, <1>9, <1>10, <1>11 DEF BorrowerCall

\* A borrower's call keeps the books: only u's position changes, by what the
\* vaults and the totals change by.
LEMMA BorrowerCalls ==
  ASSUME MarketInv, NEW u \in Users, NEW now \in Nat, NEW q, BorrowerEffect(u, now, q)
  PROVE  /\ MarketInv'
         /\ m'.total_lender_shares = m.total_lender_shares
         /\ pool_value(m) <= pool_value(m')
         /\ m.borrow_index <= m'.borrow_index
<1> DEFINE k == accrue_market(m, now)
<1>0. /\ m \in MarketState /\ pos \in [Users -> Position] /\ pos[u] \in Position
      /\ vault \in [collateral : Nat, borrow : Nat] /\ shares \in [Users -> Nat]
      /\ m.total_cash = vault.borrow /\ m.total_collateral = vault.collateral
  BY DEF MarketInv, TypeOK, BooksMatch
<1>1. m.borrow_index <= k.borrow_index
  BY <1>0, AccrueMarket
<1>2. /\ q \in Position /\ pos' = [pos EXCEPT ![u] = q] /\ shares' = shares
      /\ q.borrow_index_snapshot = m'.borrow_index
      /\ m' \in MarketState /\ m'.borrow_index = k.borrow_index
      /\ m'.total_lender_shares = m.total_lender_shares
      /\ pool_value(m) <= pool_value(m')
      /\ vault' \in [collateral : Nat, borrow : Nat]
      /\ vault'.borrow - vault.borrow = m'.total_cash - m.total_cash
      /\ vault'.collateral - vault.collateral = m'.total_collateral - m.total_collateral
      /\ q.collateral - pos[u].collateral = m'.total_collateral - m.total_collateral
  BY DEF BorrowerEffect
<1> HIDE DEF k
<1>3. /\ m.total_collateral \in Nat /\ m'.total_collateral \in Nat
      /\ m.total_cash \in Nat /\ m'.total_cash \in Nat
      /\ q.collateral \in Nat /\ pos[u].collateral \in Nat
      /\ vault'.borrow \in Nat /\ vault'.collateral \in Nat
  BY <1>0, <1>2 DEF MarketState, Position
<1>4. TypeOK'
  BY <1>0, <1>2 DEF TypeOK
<1>5. SumFunction(Collateral') = m'.total_collateral
  <2>1. /\ Collateral \in [Users -> Int] /\ Collateral[u] = pos[u].collateral
        /\ IsFiniteSet(Users) /\ q.collateral \in Int
    BY <1>0, <1>3, MarketAssumption DEF Collateral, Position
  <2>2. Collateral' = [Collateral EXCEPT ![u] = q.collateral]
    BY <1>0, <1>2 DEF Collateral
  <2>3. SumFunction([Collateral EXCEPT ![u] = q.collateral])
          = SumFunction(Collateral) - Collateral[u] + q.collateral
    BY <2>1, SumUpdate
  <2>4. SumFunction(Collateral) = m.total_collateral
    BY DEF MarketInv, BooksMatch, Collateral
  <2>5. SumFunction(Collateral') = m.total_collateral - pos[u].collateral + q.collateral
    BY <2>1, <2>2, <2>3, <2>4
  <2> QED BY <1>2, <1>3, <2>5
<1>6. BooksMatch'
  <2>1. m'.total_cash = vault'.borrow /\ m'.total_collateral = vault'.collateral
    BY <1>0, <1>2, <1>3
  <2> QED BY <1>2, <1>5, <2>1 DEF MarketInv, BooksMatch, Collateral
<1>7. IndexInv'
  <2>1. /\ m.borrow_index \in Nat /\ m'.borrow_index \in Nat
        /\ m.borrow_index >= 1 /\ m.borrow_index <= m'.borrow_index
    BY <1>0, <1>1, <1>2 DEF MarketInv, IndexInv, MarketState
  <2>2. ASSUME NEW w \in Users PROVE pos'[w].borrow_index_snapshot <= m'.borrow_index
    <3>1. pos[w].borrow_index_snapshot <= m.borrow_index /\ pos[w] \in Position
      BY <1>0 DEF MarketInv, IndexInv
    <3>2. CASE w = u
      BY <1>0, <1>2, <2>1, <3>2
    <3>3. CASE w # u
      BY <1>0, <1>2, <2>1, <3>1, <3>3 DEF Position
    <3> QED BY <3>2, <3>3
  <2> QED BY <2>1, <2>2 DEF IndexInv
<1> QED BY <1>1, <1>2, <1>4, <1>6, <1>7 DEF MarketInv

\* A user whose position is left alone owes no less at a higher index.
LEMMA DebtGrows ==
  ASSUME MarketInv, MarketInv', NEW w \in Users, pos'[w] = pos[w],
         m.borrow_index <= m'.borrow_index
  PROVE  Debt(w) \in Nat /\ Debt(w)' \in Nat /\ Debt(w) <= Debt(w)'
<1> DEFINE s == pos[w].borrow_index_snapshot
           d == pos[w].debt
           i == m.borrow_index
           j == m'.borrow_index
<1>1. s \in Nat /\ d \in Nat /\ i \in Nat /\ j \in Nat
  BY DEF MarketInv, TypeOK, MarketState, Position
<1>2. d * i \in Nat /\ d * j \in Nat /\ d * i <= d * j
  BY <1>1
<1>3. s # 0 => (d * i) \div s \in Nat /\ (d * j) \div s \in Nat
                  /\ (d * i) \div s <= (d * j) \div s
  BY <1>1, <1>2
<1> QED BY <1>3 DEF Debt

\* The debt of the user the call is about falls only by what the vault receives.
LEMMA CallerDebt ==
  ASSUME MarketInv, MarketInv', NEW u \in Users, NEW now \in Nat, NEW q,
         BorrowerEffect(u, now, q), Debt(u) - Debt(u)' > 0
  PROVE  vault'.borrow - vault.borrow >= Debt(u) - Debt(u)'
<1> DEFINE k == accrue_market(m, now)
           p == accrue_position(pos[u], k.borrow_index)
           s == pos[u].borrow_index_snapshot
<1>0. /\ m \in MarketState /\ pos \in [Users -> Position] /\ pos[u] \in Position
      /\ vault.borrow \in Nat
  BY DEF MarketInv, TypeOK
<1>1. k \in MarketState /\ m.borrow_index <= k.borrow_index
  BY <1>0, AccrueMarket
<1>2. /\ k.borrow_index \in Nat \ {0} /\ s <= k.borrow_index /\ s \in Nat
      /\ m.borrow_index \in Nat /\ pos[u].debt \in Nat
  BY <1>0, <1>1 DEF MarketInv, IndexInv, MarketState, Position
<1>3. p.debt \in Nat /\ (s # 0 => p.debt = (pos[u].debt * k.borrow_index) \div s)
  <2>1. p \in Position /\ (s # 0 => p.debt = (pos[u].debt * k.borrow_index) \div s)
    BY <1>0, <1>2, AccruePosition
  <2> QED BY <2>1 DEF Position
<1>4. /\ q \in Position /\ pos' = [pos EXCEPT ![u] = q]
      /\ q.borrow_index_snapshot = k.borrow_index /\ m'.borrow_index = k.borrow_index
      /\ vault' \in [collateral : Nat, borrow : Nat]
      /\ p.debt <= q.debt \/ p.debt - q.debt <= vault'.borrow - vault.borrow
  BY DEF BorrowerEffect
<1> HIDE DEF k, p
<1>5. Debt(u) \in Nat /\ Debt(u) <= p.debt
  <2>1. CASE s = 0
    BY <1>3, <2>1 DEF Debt
  <2>2. CASE s # 0
    <3>1. /\ pos[u].debt * m.borrow_index \in Nat /\ pos[u].debt * k.borrow_index \in Nat
          /\ pos[u].debt * m.borrow_index <= pos[u].debt * k.borrow_index
      BY <1>1, <1>2
    <3>2. Debt(u) = (pos[u].debt * m.borrow_index) \div s
      BY <2>2 DEF Debt
    <3> QED BY <1>2, <1>3, <2>2, <3>1, <3>2
  <2> QED BY <2>1, <2>2
<1>6. Debt(u)' = q.debt /\ q.debt \in Nat
  <2>1. q.debt \in Nat /\ (q.debt * k.borrow_index) \div k.borrow_index = q.debt
    BY <1>2, <1>4 DEF Position
  <2>2. pos'[u] = q
    BY <1>0, <1>4
  <2> QED BY <1>2, <1>4, <2>1, <2>2 DEF Debt
<1> QED BY <1>0, <1>3, <1>4, <1>5, <1>6

-----------------------------------------------------------------------------
(***************************************************************************)
(* The market's properties, as what every call of it does.                 *)
(***************************************************************************)
ShareStep ==
  m.total_lender_shares > 0 /\ m'.total_lender_shares > 0 =>
    pool_value(m) * m'.total_lender_shares <= pool_value(m') * m.total_lender_shares
DebtStep ==
  \A u \in Users :
    Debt(u) - Debt(u)' > 0 => vault'.borrow - vault.borrow >= Debt(u) - Debt(u)'

LEMMA DebtsGrow ==
  ASSUME MarketInv, MarketInv', pos' = pos, m.borrow_index <= m'.borrow_index
  PROVE  DebtStep
<1> SUFFICES ASSUME NEW u \in Users, Debt(u) - Debt(u)' > 0 PROVE FALSE
  BY DEF DebtStep
<1>1. Debt(u) \in Nat /\ Debt(u)' \in Nat /\ Debt(u) <= Debt(u)'
  BY DebtGrows
<1> QED BY <1>1

LEMMA MarketSteps ==
  ASSUME MarketInv, [Called]_vars
  PROVE  MarketInv' /\ ShareStep /\ DebtStep
<1>0. /\ m \in MarketState /\ pool_value(m) \in Nat /\ m.total_lender_shares \in Nat
      /\ m.borrow_index \in Nat
  BY DEF MarketInv, TypeOK, MarketState, pool_value
<1>1. CASE UNCHANGED vars
  <2>1. m' = m /\ pos' = pos /\ shares' = shares /\ vault' = vault
    BY <1>1 DEF vars
  <2>2. MarketInv'
    BY <2>1 DEF MarketInv, TypeOK, BooksMatch, IndexInv
  <2>3. ShareStep
    BY <1>0, <2>1 DEF ShareStep
  <2> QED BY <1>0, <2>1, <2>2, <2>3, DebtsGrow
<1>2. CASE SyncPrice
  <2>1. PICK p \in Nat, ts \in Nat : m' = [m EXCEPT !.price = p, !.price_updated_at = ts]
    BY <1>2, MarketAssumption DEF SyncPrice
  <2>2. pos' = pos /\ shares' = shares /\ vault' = vault
    BY <1>2 DEF SyncPrice
  <2>3. /\ m' \in MarketState /\ m'.total_cash = m.total_cash
        /\ m'.total_collateral = m.total_collateral /\ m'.total_borrows = m.total_borrows
        /\ m'.total_lender_shares = m.total_lender_shares
        /\ m'.borrow_index = m.borrow_index
    BY <1>0, <2>1 DEF MarketState
  <2>4. MarketInv'
    BY <2>2, <2>3 DEF MarketInv, TypeOK, BooksMatch, IndexInv
  <2>5. ShareStep
    BY <1>0, <2>3 DEF ShareStep, pool_value
  <2> QED BY <1>0, <2>2, <2>3, <2>4, <2>5, DebtsGrow
<1>3. ASSUME NEW u \in Users, NEW a \in Nat, NEW now \in Nat, LenderCall(u, a, now)
      PROVE  MarketInv' /\ ShareStep /\ DebtStep
  <2>1. /\ MarketInv' /\ pos' = pos /\ m.borrow_index <= m'.borrow_index
        /\ m.total_lender_shares > 0 =>
             pool_value(m) * m'.total_lender_shares <= pool_value(m') * m.total_lender_shares
    BY <1>3, LenderCalls
  <2> QED BY <2>1, DebtsGrow DEF ShareStep
<1>4. ASSUME NEW u \in Users, NEW a \in Nat, NEW now \in Nat, BorrowerCall(u, a, now)
      PROVE  MarketInv' /\ ShareStep /\ DebtStep
  <2>1. PICK q : BorrowerEffect(u, now, q)
    BY <1>4, BorrowerEffects
  <2>2. /\ MarketInv' /\ m'.total_lender_shares = m.total_lender_shares
        /\ pool_value(m) <= pool_value(m') /\ m.borrow_index <= m'.borrow_index
    BY <2>1, BorrowerCalls
  <2>3. ShareStep
    <3>1. pool_value(m') \in Nat
      BY <2>2 DEF MarketInv, TypeOK, MarketState, pool_value
    <3> QED BY <1>0, <2>2, <3>1 DEF ShareStep
  <2>4. DebtStep
    <3> SUFFICES ASSUME NEW w \in Users, Debt(w) - Debt(w)' > 0
                 PROVE  vault'.borrow - vault.borrow >= Debt(w) - Debt(w)'
      BY DEF DebtStep
    <3>1. CASE w = u
      BY <2>1, <2>2, <3>1, CallerDebt
    <3>2. CASE w # u
      <4>1. pos'[w] = pos[w]
        BY <2>1, <3>2 DEF BorrowerEffect, MarketInv, TypeOK
      <4>2. Debt(w) \in Nat /\ Debt(w)' \in Nat /\ Debt(w) <= Debt(w)'
        BY <2>2, <4>1, DebtGrows
      <4> QED BY <4>2
    <3> QED BY <3>1, <3>2
  <2> QED BY <2>2, <2>3, <2>4
<1> QED BY <1>1, <1>2, <1>3, <1>4 DEF Called

\* A step of the market's own specification is such a call.
LEMMA NextIsCalled == [Next]_vars => [Called]_vars
<1>1. Amounts \subseteq Nat /\ Times \subseteq Nat
  BY MarketAssumption
<1> QED BY <1>1, Zenon DEF Next, Called, LenderCall, BorrowerCall

-----------------------------------------------------------------------------
(***************************************************************************)
(* The vault.  The market's invariant holds in it because the amounts the  *)
(* vault passes to the market are naturals, which rests on the ledgers.    *)
(***************************************************************************)
VaultInv == MarketInv /\ VaultTypeOK /\ LedgersAgree

Supplied == SumFunction(held)

LEMMA VaultInitInv == VaultInit => VaultInv
<1> SUFFICES ASSUME VaultInit PROVE VaultInv
  OBVIOUS
<1>1. MarketInv
  BY MarketInit DEF VaultInit
<1>2. VaultTypeOK
  BY <1>1 DEF VaultInit, MarketInv, VaultTypeOK, VaultState
<1>3. SumFunction(held) = 0
  BY SumOfZeros, VaultAssumption DEF VaultInit
<1>4. shares[vault_key] = 0
  BY VaultAssumption DEF VaultInit, Init
<1> QED BY <1>1, <1>2, <1>3, <1>4 DEF VaultInit, VaultInv, LedgersAgree

\* What the vault's own figures are made of.
LEMMA VaultFacts ==
  ASSUME VaultInv
  PROVE  /\ v \in VaultState /\ held \in [Holders -> Nat] /\ idle \in Nat
         /\ v.total_assets \in Nat /\ v.lender_shares \in Nat /\ v.total_shares \in Nat
         /\ m \in MarketState /\ shares \in [Users -> Nat]
         /\ m.total_lender_shares \in Nat /\ pool_value(m) \in Nat
         /\ v.lender_shares = shares[vault_key]
         /\ v.lender_shares <= m.total_lender_shares
         /\ lender_share_value(m, v.lender_shares) \in Nat /\ NAV \in Nat
         /\ \A with : live_nav(with) \in Nat
         /\ Supplied \in Nat /\ \A h \in Holders : held[h] <= Supplied
         /\ v.total_shares = 0 => Supplied = 0
         /\ v.total_shares # 0 => v.total_shares = Supplied + MIN_SHARES
<1>1. /\ v \in VaultState /\ held \in [Holders -> Nat] /\ idle \in Nat
      /\ v.total_assets \in Nat /\ v.lender_shares \in Nat /\ v.total_shares \in Nat
  BY DEF VaultInv, VaultTypeOK, VaultState
<1>2. /\ m \in MarketState /\ shares \in [Users -> Nat]
      /\ m.total_lender_shares \in Nat /\ pool_value(m) \in Nat
  BY DEF VaultInv, MarketInv, TypeOK, MarketState, pool_value
<1>3. v.lender_shares = shares[vault_key] /\ v.lender_shares <= m.total_lender_shares
  BY <1>2, SumOfNats, MarketAssumption, VaultAssumption
     DEF VaultInv, MarketInv, BooksMatch, LedgersAgree
<1>4. lender_share_value(m, v.lender_shares) \in Nat
  <2>1. v.lender_shares * pool_value(m) \in Nat
    BY <1>1, <1>2
  <2> QED BY <1>2, <2>1, DivBounds DEF lender_share_value
<1>5. NAV \in Nat
  BY <1>1, <1>4 DEF NAV
<1>6. \A with : live_nav(with) \in Nat
  BY <1>1, <1>5 DEF live_nav
<1>7. Supplied \in Nat /\ \A h \in Holders : held[h] <= Supplied
  BY <1>1, SumOfNats, VaultAssumption DEF Supplied
<1>8. /\ v.total_shares = 0 => Supplied = 0
      /\ v.total_shares # 0 => v.total_shares = Supplied + MIN_SHARES
  BY DEF VaultInv, LedgersAgree, Supplied
<1> QED BY <1>1, <1>2, <1>3, <1>4, <1>5, <1>6, <1>7, <1>8

\* A redemption pays at most the basis it is priced on.
LEMMA RedemptionBounds ==
  ASSUME VaultInv, NEW h \in Holders, NEW s \in Nat, NEW nav \in Nat,
         v.total_shares # 0, s <= held[h],
         NEW out, out = (s * nav) \div v.total_shares
  PROVE  out \in Nat /\ out <= nav /\ s <= v.total_shares /\ v.total_shares * out <= s * nav
<1>1. s <= v.total_shares /\ v.total_shares \in Nat \ {0}
  BY VaultFacts, VaultAssumption
<1>2. s * nav \in Nat /\ s * nav <= v.total_shares * nav
  BY <1>1
<1>3. out \in Nat /\ v.total_shares * out <= s * nav
  BY <1>1, <1>2, DivBounds
<1> QED BY <1>1, <1>2, <1>3

LEMMA VaultNextIsCalled == VaultInv /\ [VaultNext]_vvars => [Called]_vars
<1> SUFFICES ASSUME VaultInv, [VaultNext]_vvars PROVE [Called]_vars
  OBVIOUS
<1>0. Amounts \subseteq Nat /\ Times \subseteq Nat /\ vault_key \in Users
  BY MarketAssumption, VaultAssumption
<1>1. CASE UNCHANGED marketVars
  BY <1>1 DEF marketVars, vars
<1>2. CASE MarketStep
  BY <1>0, <1>2, Zenon DEF MarketStep, Called, LenderCall, BorrowerCall
<1>3. ASSUME NEW a \in Amounts, NEW now \in Times, Deploy(a, now) \/ Undeploy(a, now)
      PROVE  [Called]_vars
  BY <1>0, <1>3, Zenon DEF Deploy, Undeploy, Called, LenderCall
<1>4. ASSUME NEW h \in Holders, NEW s \in Amounts, NEW with \in Passed, NEW now \in Times,
             WithdrawShares(h, s, with, now)
      PROVE  [Called]_vars
  <2> DEFINE out == (s * live_nav(with)) \div v.total_shares
  <2>1. /\ v.total_shares # 0 /\ s <= held[h]
        /\ \/ idle < out /\ RemoveLiquidity(vault_key, out - idle, now)
           \/ UNCHANGED marketVars
    BY <1>4 DEF WithdrawShares
  <2>2. out \in Nat /\ idle \in Nat
    <3>1. s \in Nat /\ live_nav(with) \in Nat /\ idle \in Nat
      BY <1>0, VaultFacts
    <3> QED BY <2>1, <3>1, RedemptionBounds
  <2> HIDE DEF out
  <2>3. CASE idle < out /\ RemoveLiquidity(vault_key, out - idle, now)
    <3>1. out - idle \in Nat
      BY <2>2, <2>3
    <3> QED BY <1>0, <2>3, <3>1, Zenon DEF Called, LenderCall
  <2> QED BY <1>1, <2>1, <2>3
<1>5. CASE UNCHANGED vvars
  BY <1>1, <1>5 DEF vvars
<1>6. CASE Report \/ \E a \in Yields : SendYield(a)
  BY <1>1, <1>6 DEF Report, SendYield
<1>7. ASSUME NEW h \in Holders, NEW a \in Amounts, NEW with \in Passed, Deposit(h, a, with)
      PROVE  [Called]_vars
  BY <1>1, <1>7 DEF Deposit
<1> QED BY <1>2, <1>3, <1>4, <1>5, <1>6, <1>7 DEF VaultNext

\* The vault's shares in the market change only in its own calls.
LEMMA OthersKeepVaultShares ==
  ASSUME VaultInv, MarketStep
  PROVE  shares'[vault_key] = shares[vault_key]
<1>1. shares \in [Users -> Nat] /\ vault_key \in Users
  BY VaultFacts, VaultAssumption
<1>2. CASE SyncPrice
  BY <1>2 DEF SyncPrice
<1>3. ASSUME NEW u \in Users \ {vault_key}, NEW a, NEW now,
             LenderCall(u, a, now) \/ BorrowerCall(u, a, now)
      PROVE  shares'[vault_key] = shares[vault_key]
  BY <1>1, <1>3 DEF LenderCall, BorrowerCall, AddLiquidity, RemoveLiquidity, Supply, Withdraw,
                    Borrow, Repay, Liquidate
<1> QED BY <1>2, <1>3 DEF MarketStep, LenderCall, BorrowerCall

\* Minting d shares to h, or burning them when d is negative.
LEMMA SupplyChange ==
  ASSUME VaultInv, NEW h \in Holders, NEW d \in Int, held[h] + d \in Nat,
         held' = [held EXCEPT ![h] = held[h] + d]
  PROVE  held' \in [Holders -> Nat] /\ Supplied' = Supplied + d
<1> DEFINE x == held[h] + d
<1>1. /\ held \in [Holders -> Nat] /\ held \in [Holders -> Int] /\ held[h] \in Nat
      /\ IsFiniteSet(Holders) /\ Supplied \in Nat /\ x \in Int
  BY VaultFacts, VaultAssumption
<1>2. SumFunction([held EXCEPT ![h] = x]) = SumFunction(held) - held[h] + x
  <2> HIDE DEF x
  <2> QED BY <1>1, SumUpdate
<1>3. Supplied' = Supplied - held[h] + (held[h] + d)
  BY <1>2 DEF Supplied
<1> QED BY <1>1, <1>3

LEMMA LedgerParts ==
  ASSUME v'.lender_shares = shares'[vault_key], v'.total_shares \in Nat,
         \/ v'.total_shares = 0 /\ Supplied' = 0
         \/ v'.total_shares # 0 /\ v'.total_shares = Supplied' + MIN_SHARES
  PROVE  LedgersAgree'
BY DEF LedgersAgree, Supplied

LEMMA FeeShares ==
  ASSUME VaultInv
  PROVE  /\ fee_shares(NAV) \in Nat
         /\ v.total_shares = 0 => fee_shares(NAV) = 0
         /\ v.total_shares <= v.total_assets /\ v.total_assets <= NAV
              => v.total_shares + fee_shares(NAV) <= NAV
<1> DEFINE gain == SatSub(NAV, v.total_assets)
           fee == (gain * performance_fee) \div BPS
           ts == v.total_shares
           fs == (fee * ts) \div (NAV - fee)
<1>1. /\ NAV \in Nat /\ v.total_assets \in Nat /\ ts \in Nat
      /\ BPS \in Nat \ {0} /\ performance_fee \in Nat /\ performance_fee <= BPS
  BY VaultFacts, MarketAssumption, VaultAssumption
<1>2. /\ gain \in Nat
      /\ v.total_assets <= NAV => gain = NAV - v.total_assets
  BY <1>1 DEF SatSub
<1> HIDE DEF gain
<1>3. gain * performance_fee \in Nat /\ gain * performance_fee <= gain * BPS
  BY <1>1, <1>2
<1>4. fee \in Nat /\ fee <= gain
  <2>1. fee \in Nat /\ BPS * fee <= gain * performance_fee
    BY <1>1, <1>3, DivBounds
  <2> HIDE DEF fee
  <2> QED BY <1>1, <1>2, <1>3, <2>1
<1>5. fee_shares(NAV) = IF ts > 0 /\ fee > 0 /\ NAV > fee THEN fs ELSE 0
  BY DEF fee_shares, gain
<1> HIDE DEF fee
<1>6. NAV > fee => fs \in Nat /\ (NAV - fee) * fs <= fee * ts
  <2>1. fee * ts \in Nat
    BY <1>1, <1>4
  <2>2. NAV > fee => NAV - fee \in Nat \ {0}
    BY <1>1, <1>4
  <2> QED BY <2>1, <2>2, DivBounds
<1> HIDE DEF fs
<1>7. ASSUME ts <= v.total_assets, v.total_assets <= NAV, NAV > fee
      PROVE  ts + fs <= NAV
  <2>1. ts <= NAV - fee /\ NAV - fee \in Nat \ {0}
    BY <1>1, <1>2, <1>4, <1>7
  <2>2. fee * ts <= fee * (NAV - fee)
    BY <1>1, <1>4, <2>1
  <2>3. (NAV - fee) * fs <= (NAV - fee) * fee
    BY <1>1, <1>4, <1>6, <1>7, <2>1, <2>2
  <2>4. fs <= fee
    BY <1>1, <1>4, <1>6, <1>7, <2>1, <2>3
  <2> QED BY <1>1, <1>4, <1>6, <1>7, <2>1, <2>4
<1> HIDE DEF ts
<1>8. ASSUME ts <= v.total_assets, v.total_assets <= NAV PROVE ts + fee_shares(NAV) <= NAV
  BY <1>1, <1>5, <1>7, <1>8
<1> QED BY <1>1, <1>5, <1>6, <1>8 DEF ts

\* New shares are priced on the basis, which is taken to be at least one.
LEMMA MintedShares ==
  ASSUME VaultInv, NEW a \in Nat, NEW with,
         NEW s, s = (a * v.total_shares) \div AtLeastOne(live_nav(with))
  PROVE  /\ s \in Nat
         /\ v.total_shares <= live_nav(with) => s <= a
<1> DEFINE n == AtLeastOne(live_nav(with))
           ts == v.total_shares
<1>1. /\ n \in Nat \ {0} /\ ts \in Nat
      /\ ts <= live_nav(with) => ts <= n
  <2>1. live_nav(with) \in Nat /\ v.total_shares \in Nat
    BY VaultFacts
  <2> QED BY <2>1 DEF AtLeastOne
<1> HIDE DEF n
<1>2. a * ts \in Nat /\ (ts <= n => a * ts <= n * a)
  BY <1>1
<1>3. s \in Nat /\ n * s <= a * ts
  BY <1>1, <1>2, DivBounds DEF n
<1> QED BY <1>1, <1>2, <1>3

LEMMA VaultSteps ==
  ASSUME VaultInv, [VaultNext]_vvars
  PROVE  VaultInv'
<1>0. MarketInv'
  BY VaultNextIsCalled, MarketSteps DEF VaultInv
<1>1. /\ v \in VaultState /\ held \in [Holders -> Nat] /\ idle \in Nat
      /\ v.total_assets \in Nat /\ v.lender_shares \in Nat /\ v.total_shares \in Nat
      /\ v.lender_shares = shares[vault_key]
      /\ Supplied \in Nat /\ \A h \in Holders : held[h] \in Nat /\ held[h] <= Supplied
      /\ NAV \in Nat /\ \A with : live_nav(with) \in Nat
      /\ shares'[vault_key] \in Nat /\ vault_key \in Users
      /\ MIN_SHARES \in Nat \ {0} /\ Amounts \subseteq Nat /\ Yields \subseteq Nat
  <2>1. shares'[vault_key] \in Nat
    BY <1>0, VaultAssumption DEF MarketInv, TypeOK
  <2> QED BY <2>1, VaultFacts, VaultAssumption, MarketAssumption
<1>2. /\ v.total_shares = 0 => Supplied = 0
      /\ v.total_shares # 0 => v.total_shares = Supplied + MIN_SHARES
  BY VaultFacts
<1> SUFFICES v' \in VaultState /\ idle' \in Nat /\ held' \in [Holders -> Nat] /\ LedgersAgree'
  BY <1>0 DEF VaultInv, VaultTypeOK, MarketInv
<1>3. ASSUME v' = v, held' = held, shares'[vault_key] = shares[vault_key]
      PROVE  LedgersAgree'
  BY <1>1, <1>2, <1>3, LedgerParts DEF Supplied
<1>4. CASE UNCHANGED vvars
  BY <1>1, <1>3, <1>4 DEF vvars, marketVars
<1>5. CASE MarketStep
  BY <1>1, <1>3, <1>5, OthersKeepVaultShares DEF MarketStep
<1>6. ASSUME NEW a \in Yields, SendYield(a)
      PROVE  v' \in VaultState /\ idle' \in Nat /\ held' \in [Holders -> Nat] /\ LedgersAgree'
  BY <1>1, <1>3, <1>6 DEF SendYield, marketVars
<1>7. CASE Report
  <2> DEFINE f == fee_shares(NAV)
             t == v.total_shares + f
  <2>1. /\ v' = [v EXCEPT !.total_assets = NAV, !.total_shares = t]
        /\ held' = [held EXCEPT ![manager] = held[manager] + f]
        /\ idle' = idle /\ shares' = shares
    BY <1>7 DEF Report, marketVars
  <2>2. /\ f \in Nat
        /\ v.total_shares = 0 => f = 0
        /\ manager \in Holders
    BY FeeShares, VaultAssumption
  <2> HIDE DEF f
  <2>3. held' \in [Holders -> Nat] /\ Supplied' = Supplied + f
    <3>1. f \in Int /\ held[manager] + f \in Nat
      BY <1>1, <2>2
    <3> QED BY <2>1, <2>2, <3>1, SupplyChange
  <2>4. t \in Nat
    BY <1>1, <2>2
  <2>5. v' \in VaultState /\ v'.lender_shares = v.lender_shares /\ v'.total_shares = t
    <3> HIDE DEF t
    <3> QED BY <1>1, <2>1, <2>4 DEF VaultState
  <2>6. LedgersAgree'
    <3>1. \/ t = 0 /\ Supplied' = 0
          \/ t # 0 /\ t = Supplied' + MIN_SHARES
      BY <1>1, <1>2, <2>2, <2>3
    <3> QED BY <1>1, <2>1, <2>4, <2>5, <3>1, LedgerParts
  <2> QED BY <1>1, <2>1, <2>3, <2>5, <2>6
<1>8. ASSUME NEW a \in Amounts, NEW now \in Times, Deploy(a, now) \/ Undeploy(a, now)
      PROVE  v' \in VaultState /\ idle' \in Nat /\ held' \in [Holders -> Nat] /\ LedgersAgree'
  <2>1. /\ v' = [v EXCEPT !.lender_shares = shares'[vault_key]] /\ held' = held
        /\ idle' \in Nat
    BY <1>1, <1>8 DEF Deploy, Undeploy
  <2>2. /\ v' \in VaultState /\ v'.lender_shares = shares'[vault_key]
        /\ v'.total_shares = v.total_shares
    BY <1>1, <2>1 DEF VaultState
  <2> QED BY <1>1, <1>2, <2>1, <2>2, LedgerParts DEF Supplied
<1>9. ASSUME NEW h \in Holders, NEW a \in Amounts, NEW with \in Passed, Deposit(h, a, with)
      PROVE  v' \in VaultState /\ idle' \in Nat /\ held' \in [Holders -> Nat] /\ LedgersAgree'
  <2>1. PICK s \in Nat, n \in Nat :
          /\ held' = [held EXCEPT ![h] = held[h] + s]
          /\ v' = [v EXCEPT !.total_assets = @ + a, !.total_shares = @ + n]
          /\ v.total_shares = 0 => n = s + MIN_SHARES
          /\ v.total_shares # 0 => n = s
    <3>1. CASE v.total_shares = 0
      <4>1. /\ a - MIN_SHARES \in Nat /\ a \in Nat /\ a = (a - MIN_SHARES) + MIN_SHARES
            /\ held' = [held EXCEPT ![h] = held[h] + (a - MIN_SHARES)]
            /\ v' = [v EXCEPT !.total_assets = @ + a, !.total_shares = @ + a]
        BY <1>1, <1>9, <3>1 DEF Deposit
      <4> QED BY <3>1, <4>1
    <3>2. CASE v.total_shares # 0
      <4> DEFINE s == (a * v.total_shares) \div AtLeastOne(live_nav(with))
      <4>1. /\ held' = [held EXCEPT ![h] = held[h] + s]
            /\ v' = [v EXCEPT !.total_assets = @ + a, !.total_shares = @ + s]
        BY <1>9, <3>2 DEF Deposit
      <4>2. s \in Nat
        BY <1>1, MintedShares
      <4> QED BY <3>2, <4>1, <4>2
    <3> QED BY <3>1, <3>2
  <2>2. idle' \in Nat /\ shares' = shares /\ a \in Nat
    BY <1>1, <1>9 DEF Deposit, marketVars
  <2>3. held' \in [Holders -> Nat] /\ Supplied' = Supplied + s
    <3>1. s \in Int /\ held[h] + s \in Nat
      BY <1>1
    <3> QED BY <2>1, <3>1, SupplyChange
  <2>4. /\ v' \in VaultState /\ v'.lender_shares = v.lender_shares
        /\ v'.total_shares = v.total_shares + n
    <3> DEFINE x == v.total_assets + a
               y == v.total_shares + n
    <3>1. x \in Nat /\ y \in Nat /\ v' = [v EXCEPT !.total_assets = x, !.total_shares = y]
      BY <1>1, <2>1, <2>2
    <3> HIDE DEF x, y
    <3>2. v' \in VaultState /\ v'.lender_shares = v.lender_shares /\ v'.total_shares = y
      BY <1>1, <3>1 DEF VaultState
    <3> QED BY <3>2 DEF y
  <2>5. v'.total_shares \in Nat /\ v'.total_shares # 0
        /\ v'.total_shares = Supplied' + MIN_SHARES
    BY <1>1, <1>2, <2>1, <2>3, <2>4
  <2> QED BY <1>1, <2>2, <2>3, <2>4, <2>5, LedgerParts
<1>10. ASSUME NEW h \in Holders, NEW s \in Amounts, NEW with \in Passed, NEW now \in Times,
              WithdrawShares(h, s, with, now)
       PROVE  v' \in VaultState /\ idle' \in Nat /\ held' \in [Holders -> Nat] /\ LedgersAgree'
  <2> DEFINE nav == live_nav(with)
             out == (s * nav) \div v.total_shares
             x == nav - out
             y == v.total_shares - s
  <2>1. /\ v.total_shares # 0 /\ s <= held[h]
        /\ held' = [held EXCEPT ![h] = held[h] - s]
        /\ idle' = IF idle < out THEN 0 ELSE idle - out
    BY <1>10 DEF WithdrawShares
  <2>2. /\ out \in Nat /\ out <= nav /\ s <= v.total_shares /\ nav \in Nat /\ s \in Nat
    <3>1. nav \in Nat /\ s \in Nat
      BY <1>1
    <3> HIDE DEF nav
    <3> QED BY <2>1, <3>1, RedemptionBounds
  <2>3. \E z \in Nat :
          /\ z = shares'[vault_key]
          /\ v' = [v EXCEPT !.total_assets = x, !.lender_shares = z, !.total_shares = y]
    <3>1. CASE idle < out
      BY <1>1, <1>10, <3>1 DEF WithdrawShares
    <3>2. CASE ~(idle < out)
      BY <1>1, <1>10, <3>2 DEF WithdrawShares, marketVars
    <3> QED BY <3>1, <3>2
  <2> HIDE DEF out, nav
  <2>4. x \in Nat /\ y \in Nat /\ idle' \in Nat
    BY <1>1, <2>1, <2>2
  <2>5. held' \in [Holders -> Nat] /\ Supplied' = Supplied - s
    <3>1. -s \in Int /\ held[h] + (-s) = held[h] - s /\ held[h] - s \in Nat
          /\ Supplied + (-s) = Supplied - s
      BY <1>1, <2>1, <2>2
    <3>2. held' \in [Holders -> Nat] /\ Supplied' = Supplied + (-s)
      <4> HIDE DEF y
      <4> QED BY <2>1, <3>1, SupplyChange
    <3> QED BY <3>1, <3>2
  <2>6. /\ v' \in VaultState /\ v'.lender_shares = shares'[vault_key]
        /\ v'.total_shares = y
    <3> HIDE DEF x, y
    <3> QED BY <1>1, <2>3, <2>4 DEF VaultState
  <2>7. y # 0 /\ y = Supplied' + MIN_SHARES
    BY <1>1, <1>2, <2>1, <2>2, <2>5
  <2> QED BY <2>4, <2>5, <2>6, <2>7, LedgerParts
<1> QED BY <1>4, <1>5, <1>6, <1>7, <1>8, <1>9, <1>10 DEF VaultNext

\* A lender share is worth at least the unit of the asset it was first sold for.
PoolCovers == m.total_lender_shares <= pool_value(m)

LEMMA PoolStillCovers ==
  ASSUME MarketInv, PoolCovers, [Called]_vars
  PROVE  PoolCovers'
<1> DEFINE L == m.total_lender_shares
           P == pool_value(m)
           Lp == m'.total_lender_shares
           Pp == pool_value(m')
<1>1. MarketInv' /\ ShareStep
  BY MarketSteps
<1>2. L \in Nat /\ P \in Nat /\ Lp \in Nat /\ Pp \in Nat /\ L <= P
  BY <1>1 DEF MarketInv, TypeOK, MarketState, pool_value, PoolCovers
<1>3. CASE L > 0
  <2>1. CASE Lp > 0
    <3>1. P * Lp <= Pp * L
      BY <1>1, <1>3, <2>1 DEF ShareStep
    <3>2. Pp * L <= P * Pp
      BY <1>2
    <3>3. P * Lp <= P * Pp
      BY <1>2, <3>1, <3>2
    <3>4. Lp <= Pp
      <4> HIDE DEF L, P, Lp, Pp
      <4> QED BY <1>2, <1>3, <3>3
    <3> QED BY <3>4 DEF PoolCovers
  <2>2. CASE Lp = 0
    BY <1>2, <2>2 DEF PoolCovers
  <2> QED BY <1>2, <2>1, <2>2
<1>4. CASE L = 0
  <2>1. CASE SyncPrice \/ UNCHANGED vars
    <3>1. Lp = L
      BY <2>1 DEF SyncPrice, vars, MarketInv, TypeOK, MarketState
    <3> QED BY <1>2, <1>4, <3>1 DEF PoolCovers
  <2>2. ASSUME NEW u \in Users, NEW a \in Nat, NEW now \in Nat, BorrowerCall(u, a, now)
        PROVE  PoolCovers'
    <3>1. Lp = L
      BY <2>2, BorrowerEffects DEF BorrowerEffect
    <3> QED BY <1>2, <1>4, <3>1 DEF PoolCovers
  <2>3. ASSUME NEW u \in Users, NEW a \in Nat, NEW now \in Nat, LenderCall(u, a, now)
        PROVE  PoolCovers'
    <3> DEFINE k == accrue_market(m, now)
    <3>1. /\ k \in MarketState /\ k.total_lender_shares = 0
          /\ k.total_cash \in Nat /\ k.total_borrows \in Nat
      <4>1. k \in MarketState /\ k.total_lender_shares = 0
        BY <1>4, AccrueMarket DEF MarketInv, TypeOK
      <4> QED BY <4>1 DEF MarketState
    <3> HIDE DEF k
    <3>2. CASE AddLiquidity(u, a, now)
      <4>1. m' = [k EXCEPT !.total_cash = @ + a, !.total_lender_shares = @ + a]
        BY <3>1, <3>2 DEF AddLiquidity, shares_for_deposit, k
      <4>2. Lp = a /\ m'.total_cash = k.total_cash + a /\ m'.total_borrows = k.total_borrows
        BY <3>1, <4>1 DEF MarketState
      <4> QED BY <3>1, <4>2 DEF PoolCovers, pool_value
    <3>3. CASE RemoveLiquidity(u, a, now)
      <4>1. shares_for_withdraw(k, a) \in Nat
        <5>1. pool_value(k) \in Nat /\ a * k.total_lender_shares \in Nat
          BY <3>1 DEF pool_value
        <5> QED BY <5>1, CeilBounds DEF shares_for_withdraw
      <4>2. Lp = 0 - shares_for_withdraw(k, a)
        BY <3>1, <3>3 DEF RemoveLiquidity, MarketState, k
      <4> QED BY <1>2, <4>1, <4>2 DEF PoolCovers
    <3> QED BY <2>3, <3>2, <3>3 DEF LenderCall
  <2> QED BY <2>1, <2>2, <2>3 DEF Called
<1> QED BY <1>2, <1>3, <1>4

\* Accruing again at the time of the last accrual adds nothing.
LEMMA AccrueAgain ==
  ASSUME NEW k \in MarketState, NEW now \in Nat
  PROVE  pool_value(accrue_market(k, accrue_market(k, now).last_accrual_ts))
           = pool_value(accrue_market(k, now))
<1>1. CASE now <= k.last_accrual_ts
  <2>1. accrue_market(k, now).last_accrual_ts = k.last_accrual_ts
    BY <1>1 DEF accrue_market, MarketState
  <2>2. \A t : t <= k.last_accrual_ts =>
          /\ accrue_market(k, t).total_cash = k.total_cash
          /\ accrue_market(k, t).total_borrows = k.total_borrows
    BY DEF accrue_market, MarketState
  <2>3. k.last_accrual_ts <= k.last_accrual_ts
    BY DEF MarketState
  <2> QED BY <1>1, <2>1, <2>2, <2>3 DEF pool_value
<1>2. CASE now > k.last_accrual_ts
  <2>1. ~(now <= k.last_accrual_ts)
    BY <1>2 DEF MarketState
  <2>2. accrue_market(k, now).last_accrual_ts = now
    BY <2>1 DEF accrue_market, MarketState
  <2> QED BY <2>2
<1> QED BY <1>1, <1>2 DEF MarketState

\* A price of L for V per share that no step lowers bounds n shares from below.
LEMMA CrossMultiply ==
  ASSUME NEW L \in Nat \ {0}, NEW M \in Nat, NEW V \in Nat, NEW W \in Nat, NEW n \in Nat,
         NEW Z \in Int, L * Z <= V * n, V * M <= W * L
  PROVE  M * Z <= n * W
<1>1. M * (L * Z) <= M * (V * n)
  OBVIOUS
<1>2. M * (V * n) = (V * M) * n /\ (V * M) * n <= (W * L) * n
  OBVIOUS
<1>3. M * (L * Z) = L * (M * Z) /\ (W * L) * n = L * (n * W)
  OBVIOUS
<1>4. L * (M * Z) <= L * (n * W)
  BY <1>1, <1>2, <1>3
<1> DEFINE x == M * Z
           y == n * W
<1>5. x \in Int /\ y \in Int /\ L * x <= L * y
  BY <1>4
<1> HIDE DEF x, y
<1>6. x <= y
  BY <1>5
<1> QED BY <1>6 DEF x, y

LEMMA FloorAtLeast ==
  ASSUME NEW x \in Nat, NEW y \in Nat \ {0}, NEW z \in Int, y * z <= x
  PROVE  z <= x \div y
<1> DEFINE q == x \div y
<1>1. q \in Nat /\ x < y * q + y
  BY DivBounds
<1> HIDE DEF q
<1>2. y * z < y * (q + 1)
  BY <1>1
<1>3. z < q + 1
  BY <1>1, <1>2
<1>4. z <= q
  BY <1>1, <1>3
<1> QED BY <1>4 DEF q

\* What the vault's shares of the market are worth.
Lent == lender_share_value(m, shares[vault_key])

\* The rounding a call of the market may cost: at most one lender share, rounded
\* up.  Here L, V and c are the shares, the pool and that price at the call.
LEMMA OneShare ==
  ASSUME MarketInv, PoolCovers, NEW now \in Nat, NEW k, k = accrue_market(m, now),
         m'.last_accrual_ts = k.last_accrual_ts, m.total_lender_shares > 0
  PROVE  /\ LenderShare(m'.last_accrual_ts) \in Nat
         /\ pool_value(k) <= m.total_lender_shares * LenderShare(m'.last_accrual_ts)
         /\ pool_value(k) \in Nat \ {0} /\ pool_value(m) <= pool_value(k)
<1>1. m \in MarketState /\ m.total_lender_shares \in Nat \ {0} /\ pool_value(m) \in Nat \ {0}
  BY DEF MarketInv, TypeOK, MarketState, PoolCovers, pool_value
<1>2. /\ k \in MarketState /\ m.total_borrows <= k.total_borrows
      /\ k.total_cash = m.total_cash
  BY <1>1, AccrueMarket
<1>3. pool_value(k) \in Nat \ {0} /\ pool_value(m) <= pool_value(k)
  BY <1>1, <1>2 DEF pool_value, MarketState
<1>4. pool_value(accrue_market(m, m'.last_accrual_ts)) = pool_value(k)
  BY <1>1, AccrueAgain
<1>5. LenderShare(m'.last_accrual_ts) = div_ceil(pool_value(k), m.total_lender_shares)
  BY <1>1, <1>4 DEF LenderShare
<1> QED BY <1>1, <1>3, <1>5, CeilBounds

LEMMA VaultLends ==
  ASSUME VaultInv, PoolCovers, NEW a \in Nat, a > 0, NEW now \in Nat,
         AddLiquidity(vault_key, a, now)
  PROVE  /\ m' # m
         /\ Lent + a <= Lent' + LenderShare(m'.last_accrual_ts)
<1> DEFINE k == accrue_market(m, now)
           L == m.total_lender_shares
           V == pool_value(k)
           s == shares_for_deposit(k, a)
           sh == shares[vault_key]
           c == LenderShare(m'.last_accrual_ts)
<1>0. /\ m \in MarketState /\ L \in Nat /\ pool_value(m) \in Nat /\ sh \in Nat /\ sh <= L
      /\ Lent \in Nat /\ vault_key \in Users /\ shares \in [Users -> Nat]
      /\ m.total_cash \in Nat /\ MarketInv
  <2>1. m \in MarketState /\ Lent \in Nat
    BY VaultFacts DEF Lent
  <2> QED BY <2>1, VaultFacts, VaultAssumption DEF MarketState, VaultInv
<1>1. k \in MarketState /\ k.total_lender_shares = L /\ k.total_cash = m.total_cash
  BY <1>0, AccrueMarket
<1>2. /\ m' = [k EXCEPT !.total_cash = @ + a, !.total_lender_shares = @ + s]
      /\ shares' = [shares EXCEPT ![vault_key] = sh + s]
  BY DEF AddLiquidity
<1> HIDE DEF k
<1>3. /\ m'.total_lender_shares = L + s /\ pool_value(m') = V + a /\ V \in Nat
      /\ m'.last_accrual_ts = k.last_accrual_ts /\ m'.total_cash = m.total_cash + a
      /\ shares'[vault_key] = sh + s
  BY <1>0, <1>1, <1>2 DEF MarketState, pool_value
<1>4. m' # m
  BY <1>0, <1>3
<1>5. Lent' = IF L + s = 0 THEN 0 ELSE ((sh + s) * (V + a)) \div (L + s)
  BY <1>3 DEF Lent, lender_share_value
<1>6. CASE L = 0
  <2>1. s = a /\ sh = 0
    BY <1>0, <1>1, <1>6 DEF shares_for_deposit
  <2>2. Lent = 0 /\ c = 0
    BY <1>6 DEF Lent, lender_share_value, LenderShare
  <2>3. L + s = a /\ sh + s = a
    BY <1>6, <2>1
  <2>4. Lent' = (a * (V + a)) \div a
    BY <1>5, <2>3
  <2>5. (a * (V + a)) \div a = V + a
    BY <1>3
  <2> QED BY <1>3, <1>4, <2>2, <2>4, <2>5
<1>7. CASE L > 0
  <2>1. c \in Nat /\ V <= L * c /\ V \in Nat \ {0} /\ pool_value(m) <= V
    BY <1>0, <1>3, <1>7, OneShare DEF k
  <2> HIDE DEF c, V
  <2>2. s = (a * L) \div V
    BY <1>1, <1>7, <2>1 DEF shares_for_deposit, V
  <2>3. a * L \in Nat
    BY <1>0
  <2>4. s \in Nat /\ V * s <= a * L /\ a * L < V * s + V
    BY <2>1, <2>2, <2>3, DivBounds
  <2> HIDE DEF s
  <2>5. L * Lent <= sh * V
    <3>1. sh * pool_value(m) \in Nat /\ sh * pool_value(m) <= sh * V
      BY <1>0, <2>1
    <3>2. Lent = (sh * pool_value(m)) \div L
      BY <1>7 DEF Lent, lender_share_value
    <3>3. L * Lent <= sh * pool_value(m)
      <4> HIDE DEF L
      <4> QED BY <1>0, <1>7, <3>1, <3>2, DivBounds
    <3> QED BY <1>0, <2>1, <3>1, <3>3
  <2> DEFINE f == Lent
  <2>6. f \in Nat /\ L * f <= sh * V
    BY <1>0, <2>5
  <2> HIDE DEF f, sh, L
  <2>7. L * (f + a - c) <= V * (sh + s)
    <3>1. L * (f + a - c) = L * f + a * L - L * c /\ V * (sh + s) = sh * V + V * s
      BY <1>0, <2>1, <2>4, <2>6
    <3> QED BY <1>0, <2>1, <2>4, <2>6, <3>1
  <2>8. V * (L + s) <= (V + a) * L
    <3>1. V * (L + s) = V * L + V * s /\ (V + a) * L = V * L + a * L
      BY <1>0, <2>1, <2>4
    <3> QED BY <1>0, <2>1, <2>3, <2>4, <3>1
  <2>9. /\ L + s \in Nat \ {0} /\ V + a \in Nat /\ sh + s \in Nat /\ f + a - c \in Int
        /\ L \in Nat \ {0}
    BY <1>0, <1>7, <2>1, <2>4, <2>6
  <2>10. (L + s) * (f + a - c) <= (sh + s) * (V + a)
    BY <2>1, <2>7, <2>8, <2>9, CrossMultiply
  <2>11. (sh + s) * (V + a) \in Nat
    BY <2>9
  <2>12. f + a - c <= ((sh + s) * (V + a)) \div (L + s)
    BY <2>9, <2>10, <2>11, FloorAtLeast
  <2>13. Lent' = ((sh + s) * (V + a)) \div (L + s) /\ Lent' \in Nat
    <3>1. Lent' = ((sh + s) * (V + a)) \div (L + s)
      BY <1>5, <2>9
    <3> QED BY <2>9, <2>11, <3>1, DivBounds
  <2>14. f + a <= Lent' + c
    BY <2>1, <2>6, <2>12, <2>13
  <2> QED BY <1>4, <2>14 DEF f, c
<1> QED BY <1>0, <1>6, <1>7

LEMMA VaultRedeems ==
  ASSUME VaultInv, PoolCovers, NEW a \in Nat, a > 0, NEW now \in Nat,
         RemoveLiquidity(vault_key, a, now)
  PROVE  /\ m' # m
         /\ m.total_lender_shares > 0 => shares'[vault_key] # shares[vault_key]
         /\ Lent <= Lent' + a + LenderShare(m'.last_accrual_ts)
<1> DEFINE k == accrue_market(m, now)
           L == m.total_lender_shares
           V == pool_value(k)
           s == shares_for_withdraw(k, a)
           sh == shares[vault_key]
           c == LenderShare(m'.last_accrual_ts)
<1>0. /\ m \in MarketState /\ L \in Nat /\ pool_value(m) \in Nat /\ sh \in Nat /\ sh <= L
      /\ Lent \in Nat /\ vault_key \in Users /\ shares \in [Users -> Nat]
      /\ m.total_cash \in Nat /\ MarketInv
  <2>1. m \in MarketState /\ Lent \in Nat
    BY VaultFacts DEF Lent
  <2> QED BY <2>1, VaultFacts, VaultAssumption DEF MarketState, VaultInv
<1>1. k \in MarketState /\ k.total_lender_shares = L /\ k.total_cash = m.total_cash
  BY <1>0, AccrueMarket
<1>2. /\ m' = [k EXCEPT !.total_cash = @ - a, !.total_lender_shares = @ - s]
      /\ shares' = [shares EXCEPT ![vault_key] = sh - s]
      /\ s <= sh /\ a <= k.total_cash
  BY DEF RemoveLiquidity
<1> HIDE DEF k
<1>3. /\ m'.total_lender_shares = L - s /\ pool_value(m') = V - a /\ V \in Nat /\ a <= V
      /\ m'.last_accrual_ts = k.last_accrual_ts /\ m'.total_cash = m.total_cash - a
      /\ shares'[vault_key] = sh - s
  BY <1>0, <1>1, <1>2 DEF MarketState, pool_value
<1>4. m' # m
  BY <1>0, <1>3
<1>5. Lent' = IF L - s = 0 THEN 0 ELSE ((sh - s) * (V - a)) \div (L - s)
  BY <1>3 DEF Lent, lender_share_value
<1>6. s \in Nat /\ V * s < a * L + V
  <2>1. s = div_ceil(a * L, V) /\ V \in Nat \ {0}
    BY <1>1, <1>3 DEF shares_for_withdraw
  <2> HIDE DEF V, s, L
  <2>2. a * L \in Nat /\ a * L + V - 1 \in Nat
    <3>1. a * L \in Nat
      BY <1>0
    <3> QED BY <2>1, <3>1
  <2>3. s = (a * L + V - 1) \div V
    BY <2>1 DEF div_ceil
  <2>4. s \in Nat /\ V * s <= a * L + V - 1
    BY <2>1, <2>2, <2>3, DivBounds
  <2> QED BY <2>1, <2>2, <2>4
<1>7. Lent' \in Nat
  <2> HIDE DEF s, V, L, sh
  <2>1. L - s \in Nat /\ (sh - s) * (V - a) \in Nat
    BY <1>0, <1>2, <1>3, <1>6
  <2> QED BY <1>5, <2>1, DivBounds
<1>8. CASE L = 0
  <2>1. Lent = 0 /\ c = 0
    BY <1>8 DEF Lent, lender_share_value, LenderShare
  <2> DEFINE g == Lent'
  <2>2. g \in Nat
    BY <1>7
  <2> HIDE DEF g
  <2>3. 0 <= g + a + 0
    BY <2>2
  <2>4. Lent <= Lent' + a + c
    BY <2>1, <2>3 DEF g
  <2> QED BY <1>4, <1>8, <2>4
<1>9. CASE L > 0
  <2>1. c \in Nat /\ V <= L * c /\ V \in Nat \ {0} /\ pool_value(m) <= V
    BY <1>0, <1>3, <1>9, OneShare DEF k
  <2>2. a * L <= V * s
    <3>1. s = div_ceil(a * L, V)
      BY <1>1, <2>1 DEF shares_for_withdraw
    <3>2. a * L \in Nat
      BY <1>0
    <3> HIDE DEF V
    <3> QED BY <2>1, <3>1, <3>2, CeilBounds
  <2> DEFINE f == Lent
  <2>3. f \in Nat /\ L * f <= sh * V
    <3>1. sh * pool_value(m) \in Nat /\ sh * pool_value(m) <= sh * V
      BY <1>0, <2>1
    <3>2. Lent = (sh * pool_value(m)) \div L
      BY <1>9 DEF Lent, lender_share_value
    <3>3. L * Lent <= sh * pool_value(m)
      <4> HIDE DEF L
      <4> QED BY <1>0, <1>9, <3>1, <3>2, DivBounds
    <3> QED BY <1>0, <2>1, <3>1, <3>3
  <2> HIDE DEF s, V, L, sh, c, f
  <2>4. s # 0
    <3>1. a * L > 0
      BY <1>0, <1>9
    <3> QED BY <1>0, <1>6, <2>1, <2>2, <3>1
  <2>5. L * (f - a - c) <= V * (sh - s)
    <3>1. L * (f - a - c) = L * f - a * L - L * c /\ V * (sh - s) = sh * V - V * s
      BY <1>0, <1>6, <2>1, <2>3
    <3>2. a * L \in Nat /\ V * s \in Nat
      BY <1>0, <1>6, <2>1
    <3> QED BY <1>0, <1>6, <2>1, <2>3, <3>1, <3>2
  <2> DEFINE g == Lent'
  <2>6. f <= g + a + c
    <3>0. g \in Nat /\ c \in Nat /\ f \in Nat
      BY <1>7, <2>1, <2>3
    <3> HIDE DEF g
    <3>1. CASE L - s = 0
      <4>1. sh - s = 0
        BY <1>0, <1>2, <1>6, <3>1
      <4>2. L * (f - a - c) <= 0
        BY <2>1, <2>5, <4>1
      <4>3. f - a - c <= 0
        BY <1>0, <1>9, <2>1, <2>3, <4>2
      <4> QED BY <3>0, <4>3
    <3>2. CASE L - s # 0
      <4>1. V * (L - s) <= (V - a) * L
        <5>1. V * (L - s) = V * L - V * s /\ (V - a) * L = V * L - a * L
          BY <1>0, <1>6, <2>1
        <5>2. V * L \in Nat /\ a * L \in Nat /\ V * s \in Nat
          BY <1>0, <1>6, <2>1
        <5> QED BY <2>2, <5>1, <5>2
      <4>2. /\ L - s \in Nat \ {0} /\ V - a \in Nat /\ sh - s \in Nat /\ f - a - c \in Int
            /\ L \in Nat \ {0}
        BY <1>0, <1>2, <1>3, <1>6, <1>9, <2>1, <2>3, <3>2
      <4>3. (L - s) * (f - a - c) <= (sh - s) * (V - a)
        BY <2>1, <2>5, <4>1, <4>2, CrossMultiply
      <4>4. (sh - s) * (V - a) \in Nat
        BY <4>2
      <4>5. f - a - c <= ((sh - s) * (V - a)) \div (L - s)
        BY <4>2, <4>3, <4>4, FloorAtLeast
      <4>6. f - a - c <= g
        BY <1>5, <3>2, <4>5 DEF g
      <4> QED BY <3>0, <4>6
    <3> QED BY <3>1, <3>2
  <2>7. sh - s # sh
    BY <1>0, <1>6, <2>4
  <2> QED BY <1>3, <1>4, <2>6, <2>7 DEF f, c, sh
<1> QED BY <1>0, <1>8, <1>9

LentBounds ==
  /\ m.total_lender_shares \in Nat /\ pool_value(m) \in Nat /\ shares[vault_key] \in Nat
  /\ shares[vault_key] <= m.total_lender_shares /\ Lent \in Nat /\ NAV = idle + Lent
  /\ idle \in Nat

LEMMA LentFacts == VaultInv => LentBounds
BY VaultFacts DEF LentBounds, Lent, NAV

\* What the other users do never lowers what the vault's shares are worth.
LEMMA OthersKeepLent ==
  ASSUME VaultInv, VaultInv', ShareStep, shares'[vault_key] = shares[vault_key]
  PROVE  Lent <= Lent'
<1> DEFINE L == m.total_lender_shares
           P == pool_value(m)
           Lp == m'.total_lender_shares
           Pp == pool_value(m')
           sh == shares[vault_key]
           f == Lent
           g == Lent'
<1>1. /\ L \in Nat /\ P \in Nat /\ sh \in Nat /\ sh <= L /\ f \in Nat
      /\ Lp \in Nat /\ Pp \in Nat /\ sh <= Lp /\ g \in Nat
  <2>1. LentBounds /\ LentBounds'
    BY LentFacts, PTL
  <2> QED BY <2>1 DEF LentBounds, pool_value
<1>2. CASE sh = 0
  <2>1. f = 0
    <3>1. sh * P = 0
      BY <1>1, <1>2
    <3>2. L # 0 => 0 \div L = 0
      BY <1>1
    <3> QED BY <3>1, <3>2 DEF Lent, lender_share_value
  <2> HIDE DEF f, g
  <2>2. f <= g
    BY <1>1, <2>1
  <2> QED BY <2>2 DEF f, g
<1>3. CASE sh # 0
  <2>1. L \in Nat \ {0} /\ Lp \in Nat \ {0} /\ P * Lp <= Pp * L
    BY <1>1, <1>3 DEF ShareStep
  <2>2. f = (sh * P) \div L /\ g = (sh * Pp) \div Lp
    BY <2>1 DEF Lent, lender_share_value
  <2> HIDE DEF L, P, Lp, Pp, sh, f, g
  <2>3. sh * P \in Nat /\ sh * Pp \in Nat /\ sh * P = P * sh
    BY <1>1
  <2>4. L * f <= P * sh
    BY <2>1, <2>2, <2>3, DivBounds
  <2>5. Lp * f <= sh * Pp
    BY <1>1, <2>1, <2>4, CrossMultiply
  <2>6. f <= g
    BY <1>1, <2>1, <2>2, <2>3, <2>5, FloorAtLeast
  <2> QED BY <2>6 DEF f, g
<1> QED BY <1>2, <1>3

\* SharesWorthDeposit, as a step.
Rounding ==
  IF m' # m /\ <<idle, shares[vault_key]>>' # <<idle, shares[vault_key]>>
  THEN LenderShare(m'.last_accrual_ts) ELSE 0
Sound == v.total_shares <= v.total_assets /\ v.total_assets <= NAV
WorthStep == Sound => v'.total_shares <= Least(v'.total_assets, NAV' + Rounding)

LEMMA RoundingIsNat ==
  ASSUME VaultInv, VaultInv'
  PROVE  Rounding \in Nat
<1>1. m \in MarketState /\ m'.last_accrual_ts \in Nat
  BY DEF VaultInv, MarketInv, TypeOK, MarketState
<1>2. accrue_market(m, m'.last_accrual_ts) \in MarketState
  BY <1>1, AccrueMarket
<1>3. pool_value(accrue_market(m, m'.last_accrual_ts)) \in Nat /\ m.total_lender_shares \in Nat
  BY <1>1, <1>2 DEF pool_value, MarketState
<1> QED BY <1>3, CeilBounds DEF Rounding, LenderShare

\* The two halves of WorthStep, with the figures it is about named.
LEMMA WorthParts ==
  ASSUME VaultInv, VaultInv', NEW t \in Nat, NEW x \in Nat,
         v'.total_shares = t, v'.total_assets = x, t <= x, t <= idle' + Lent' + Rounding
  PROVE  WorthStep
<1>1. NAV' = idle' + Lent'
  <2>1. LentBounds'
    BY LentFacts, PTL
  <2> QED BY <2>1 DEF LentBounds
<1> QED BY <1>1 DEF WorthStep, Least

LEMMA WorthSteps ==
  ASSUME VaultInv, PoolCovers, [VaultNext]_vvars
  PROVE  WorthStep
<1> SUFFICES ASSUME Sound PROVE WorthStep
  BY DEF WorthStep
<1> DEFINE f == Lent
           g == Lent'
           ts == v.total_shares
           ta == v.total_assets
           R == Rounding
<1>0. VaultInv'
  BY VaultSteps
<1>1. /\ f \in Nat /\ idle \in Nat /\ NAV = idle + f /\ m.total_lender_shares \in Nat
      /\ shares[vault_key] \in Nat /\ g \in Nat /\ idle' \in Nat
  <2>1. LentBounds /\ LentBounds'
    BY <1>0, LentFacts, PTL
  <2> QED BY <2>1 DEF LentBounds
<1>2. /\ ts \in Nat /\ ta \in Nat /\ R \in Nat /\ ts <= ta /\ ta <= idle + f
      /\ v \in VaultState /\ held \in [Holders -> Nat]
  BY <1>0, <1>1, RoundingIsNat, VaultFacts DEF Sound
<1>3. ASSUME v' = v, idle + f <= idle' + g + R
      PROVE  WorthStep
  <2>1. ts <= idle' + g + R
    <3> DEFINE z == idle' + g + R
               y == idle + f
    <3>1. y \in Nat /\ z \in Nat /\ ta <= y /\ y <= z
      <4> HIDE DEF f, g, R
      <4> DEFINE j == idle'
      <4>1. j \in Nat /\ idle + f <= j + g + R
        BY <1>1, <1>3
      <4> HIDE DEF j
      <4>2. y \in Nat /\ j + g + R \in Nat /\ ta <= y /\ y <= j + g + R
        BY <1>1, <1>2, <4>1
      <4> QED BY <4>2 DEF j
    <3> HIDE DEF y, z, ts, ta
    <3>2. ts <= z
      BY <1>2, <3>1
    <3> QED BY <3>2 DEF z
  <2> QED BY <1>0, <1>2, <1>3, <2>1, WorthParts DEF g, R
<1>4. m' = m /\ shares' = shares => g = f
  BY DEF Lent
<1>5. CASE UNCHANGED vvars
  <2>1. v' = v /\ idle' = idle /\ g = f
    BY <1>4, <1>5 DEF vvars, marketVars
  <2> HIDE DEF f, g, R
  <2>2. idle + f <= idle' + g + R
    BY <1>1, <1>2, <2>1
  <2> QED BY <1>3, <2>1, <2>2
<1>6. CASE MarketStep
  <2>1. v' = v /\ idle' = idle /\ f <= g
    BY <1>0, <1>6, OthersKeepVaultShares, OthersKeepLent, VaultNextIsCalled, MarketSteps
       DEF MarketStep, VaultInv
  <2> HIDE DEF f, g, R
  <2>2. idle + f <= idle' + g + R
    BY <1>1, <1>2, <2>1
  <2> QED BY <1>3, <2>1, <2>2
<1>7. ASSUME NEW a \in Yields, SendYield(a) PROVE WorthStep
  <2>1. v' = v /\ idle' = idle + a /\ g = f /\ a \in Nat
    BY <1>4, <1>7, VaultAssumption DEF SendYield, marketVars
  <2> HIDE DEF f, g, R
  <2>2. idle + f <= idle' + g + R
    BY <1>1, <1>2, <2>1
  <2> QED BY <1>3, <2>1, <2>2
<1>8. CASE Report
  <2> DEFINE t == ts + fee_shares(NAV)
  <2>1. v' = [v EXCEPT !.total_assets = NAV, !.total_shares = t] /\ idle' = idle /\ g = f
    BY <1>4, <1>8 DEF Report, marketVars
  <2>2. fee_shares(NAV) \in Nat /\ t <= NAV
    BY FeeShares DEF Sound
  <2>3. t \in Nat /\ NAV \in Nat /\ v'.total_shares = t /\ v'.total_assets = NAV
    BY <1>1, <1>2, <2>1, <2>2 DEF VaultState
  <2> HIDE DEF t, f, g, R
  <2>4. t <= idle' + g + R
    BY <1>1, <1>2, <2>1, <2>2, <2>3
  <2> QED BY <1>0, <2>2, <2>3, <2>4, WorthParts DEF g, R
<1>9. ASSUME NEW h \in Holders, NEW a \in Amounts, NEW with \in Passed, Deposit(h, a, with)
      PROVE  WorthStep
  <2>1. PICK n \in Nat :
          /\ n <= a
          /\ v' = [v EXCEPT !.total_assets = ta + a, !.total_shares = ts + n]
    <3>1. CASE ts = 0
      <4>1. a \in Nat /\ a <= a
        BY MarketAssumption
      <4>2. v' = [v EXCEPT !.total_assets = ta + a, !.total_shares = ts + a]
        BY <1>9, <3>1 DEF Deposit
      <4> QED BY <4>1, <4>2
    <3>2. CASE ts # 0
      <4> DEFINE s == (a * ts) \div AtLeastOne(live_nav(with))
      <4>1. v' = [v EXCEPT !.total_assets = ta + a, !.total_shares = ts + s]
        BY <1>9, <3>2 DEF Deposit
      <4>2. ts <= live_nav(with)
        BY <1>1, <1>2, VaultFacts DEF Sound, live_nav
      <4>3. s \in Nat /\ s <= a
        BY <4>2, MintedShares, MarketAssumption
      <4> QED BY <4>1, <4>3
    <3> QED BY <3>1, <3>2
  <2>2. a \in Nat /\ idle' = idle + a /\ g = f
    BY <1>4, <1>9, MarketAssumption DEF Deposit, marketVars
  <2> DEFINE x == ta + a
             t == ts + n
  <2>3. x \in Nat /\ t \in Nat /\ t <= x
    BY <1>2, <2>1, <2>2
  <2>4. v'.total_shares = t /\ v'.total_assets = x
    <3> HIDE DEF x, t
    <3>1. v' = [v EXCEPT !.total_assets = x, !.total_shares = t]
      BY <2>1 DEF x, t
    <3> QED BY <1>2, <3>1 DEF VaultState
  <2> HIDE DEF f, g, R
  <2>5. t <= idle' + g + R
    BY <1>1, <1>2, <2>1, <2>2
  <2> HIDE DEF x, t
  <2> QED BY <1>0, <2>3, <2>4, <2>5, WorthParts DEF g, R
<1>10. ASSUME NEW a \in Amounts, NEW now \in Times, Deploy(a, now) PROVE WorthStep
  <2>1. /\ a \in Nat /\ a > 0 /\ now \in Nat /\ AddLiquidity(vault_key, a, now)
        /\ idle' = idle - a /\ v' = [v EXCEPT !.lender_shares = shares'[vault_key]]
    BY <1>10, MarketAssumption DEF Deploy
  <2>2. m' # m /\ f + a <= g + LenderShare(m'.last_accrual_ts)
    BY <2>1, VaultLends
  <2>3. idle' # idle
    BY <1>1, <2>1
  <2>4. R = LenderShare(m'.last_accrual_ts)
    BY <2>2, <2>3 DEF Rounding
  <2>5. v'.total_shares = ts /\ v'.total_assets = ta
    BY <1>2, <2>1 DEF VaultState
  <2> HIDE DEF f, g, R
  <2>6. ts <= idle' + g + R
    BY <1>1, <1>2, <2>1, <2>2, <2>4
  <2> QED BY <1>0, <1>2, <2>5, <2>6, WorthParts DEF g, R
<1>11. ASSUME NEW a \in Amounts, NEW now \in Times, Undeploy(a, now) PROVE WorthStep
  <2>1. /\ a \in Nat /\ a > 0 /\ now \in Nat /\ RemoveLiquidity(vault_key, a, now)
        /\ idle' = idle + a /\ v' = [v EXCEPT !.lender_shares = shares'[vault_key]]
    BY <1>11, MarketAssumption DEF Undeploy
  <2>2. m' # m /\ f <= g + a + LenderShare(m'.last_accrual_ts)
    BY <2>1, VaultRedeems
  <2>3. idle' # idle
    BY <1>1, <2>1
  <2>4. R = LenderShare(m'.last_accrual_ts)
    BY <2>2, <2>3 DEF Rounding
  <2>5. v'.total_shares = ts /\ v'.total_assets = ta
    BY <1>2, <2>1 DEF VaultState
  <2> HIDE DEF f, g, R
  <2>6. ts <= idle' + g + R
    BY <1>1, <1>2, <2>1, <2>2, <2>4
  <2> QED BY <1>0, <1>2, <2>5, <2>6, WorthParts DEF g, R
<1>12. ASSUME NEW h \in Holders, NEW s \in Amounts, NEW with \in Passed, NEW now \in Times,
              WithdrawShares(h, s, with, now)
       PROVE  WorthStep
  <2> DEFINE nav == live_nav(with)
             out == (s * nav) \div ts
             x == nav - out
             t == ts - s
  <2>1. /\ ts # 0 /\ s <= held[h] /\ s \in Nat /\ now \in Nat
        /\ \/ idle < out /\ RemoveLiquidity(vault_key, out - idle, now)
           \/ ~(idle < out) /\ UNCHANGED marketVars
        /\ idle' = IF idle < out THEN 0 ELSE idle - out
    BY <1>12, MarketAssumption DEF WithdrawShares
  <2>2. v' = [v EXCEPT !.total_assets = x,
                       !.lender_shares = IF idle < out THEN shares'[vault_key] ELSE @,
                       !.total_shares = t]
    BY <1>12 DEF WithdrawShares
  <2>3. nav \in Nat /\ ts <= nav /\ nav <= idle + f
    BY <1>1, <1>2, VaultFacts DEF Sound, live_nav
  <2> HIDE DEF nav
  <2>4. out \in Nat /\ out <= nav /\ s <= ts /\ ts * out <= s * nav
    BY <2>1, <2>3, RedemptionBounds
  <2>5. v'.total_shares = t /\ v'.total_assets = x
    <3> HIDE DEF t, x
    <3> QED BY <1>2, <2>2 DEF VaultState
  <2> HIDE DEF out, f, g, R, ts
  <2>6. t \in Nat /\ x \in Nat /\ t <= x
    <3>1. t \in Nat /\ x \in Nat
      BY <1>2, <2>1, <2>3, <2>4
    <3>2. ts * (nav - out) = ts * nav - ts * out /\ nav * (ts - s) = ts * nav - s * nav
      BY <1>2, <2>1, <2>3, <2>4
    <3>3. ts * (ts - s) <= nav * (ts - s)
      BY <1>2, <2>1, <2>3, <2>4, <3>1
    <3>4. ts * nav \in Nat /\ ts * out \in Nat /\ s * nav \in Nat
      BY <1>2, <2>1, <2>3, <2>4
    <3>5. ts * (ts - s) <= ts * (nav - out)
      <4>1. ts * nav - s * nav <= ts * nav - ts * out
        BY <2>4, <3>4
      <4>2. nav * (ts - s) <= ts * (nav - out)
        BY <3>2, <4>1
      <4>3. ts * (ts - s) \in Int /\ nav * (ts - s) \in Int /\ ts * (nav - out) \in Int
        BY <1>2, <2>1, <2>3, <2>4
      <4> QED BY <3>3, <4>2, <4>3
    <3>6. ts * t <= ts * x
      BY <3>5
    <3> HIDE DEF t, x
    <3> QED BY <1>2, <2>1, <3>1, <3>6
  <2>7. x <= idle' + g + R
    <3>1. CASE ~(idle < out)
      <4>1. g = f /\ idle' = idle - out
        BY <1>4, <2>1, <3>1 DEF marketVars
      <4> QED BY <1>1, <1>2, <2>3, <2>4, <3>1, <4>1
    <3>2. CASE idle < out
      <4>1. out - idle \in Nat /\ out - idle > 0
        BY <1>1, <2>4, <3>2
      <4>2. /\ m' # m /\ f <= g + (out - idle) + LenderShare(m'.last_accrual_ts)
            /\ m.total_lender_shares > 0 => shares'[vault_key] # shares[vault_key]
        BY <2>1, <3>2, <4>1, VaultRedeems DEF f, g
      <4>3. m.total_lender_shares > 0
        <5>1. m.total_lender_shares = 0 => f = 0
          BY DEF f, Lent, lender_share_value
        <5> QED BY <1>1, <2>3, <2>4, <3>2, <5>1
      <4>4. R = LenderShare(m'.last_accrual_ts)
        BY <4>2, <4>3 DEF R, Rounding
      <4>5. idle' = 0
        BY <2>1, <3>2
      <4> QED BY <1>1, <1>2, <2>3, <2>4, <4>2, <4>4, <4>5
    <3> QED BY <3>1, <3>2
  <2>8. t <= idle' + g + R
    <3> DEFINE z == idle' + g + R
    <3>1. z \in Nat /\ x <= z
      <4> DEFINE j == idle'
      <4>1. j \in Nat
        BY <1>1
      <4> HIDE DEF j
      <4>2. j + g + R \in Nat
        BY <1>1, <1>2, <4>1
      <4> QED BY <2>7, <4>2 DEF j
    <3> HIDE DEF t, x, z
    <3>2. t <= z
      BY <2>6, <3>1
    <3> QED BY <3>2 DEF z
  <2> HIDE DEF t, x
  <2> QED BY <1>0, <2>5, <2>6, <2>8, WorthParts DEF g, R
<1> QED BY <1>5, <1>6, <1>7, <1>8, <1>9, <1>10, <1>11, <1>12 DEF VaultNext

-----------------------------------------------------------------------------
(***************************************************************************)
(* The theorems.                                                           *)
(***************************************************************************)

LEMMA VaultInvariant == VaultSpec => [](VaultInv /\ PoolCovers)
<1>1. VaultInit => VaultInv /\ PoolCovers
  <2> SUFFICES ASSUME VaultInit PROVE PoolCovers
    BY VaultInitInv
  <2> QED BY DEF VaultInit, Init, PoolCovers, pool_value
<1>2. VaultInv /\ PoolCovers /\ [VaultNext]_vvars => (VaultInv /\ PoolCovers)'
  BY VaultSteps, VaultNextIsCalled, PoolStillCovers DEF VaultInv
<1> QED BY <1>1, <1>2, PTL DEF VaultSpec

\* The market's books agree with its token accounts and with the positions of
\* its users, with the vault among the lenders.
THEOREM VaultBooksMatch == VaultSpec => []BooksMatch
<1>1. VaultInv => BooksMatch
  BY DEF VaultInv, MarketInv
<1> QED BY <1>1, VaultInvariant, PTL

\* The same for the market on its own, whoever calls it.
THEOREM MarketBooksMatch == Spec => []BooksMatch
<1>1. MarketInv /\ [Next]_vars => MarketInv'
  BY NextIsCalled, MarketSteps
<1>2. MarketInv => BooksMatch
  BY DEF MarketInv
<1> QED BY <1>1, <1>2, MarketInit, PTL DEF Spec

\* No call of the market lowers what a lender share is worth.
THEOREM VaultShareValue == VaultSpec => ShareValueNeverFalls
<1>1. VaultInv /\ [VaultNext]_vvars => [ShareStep]_vars
  BY VaultNextIsCalled, MarketSteps DEF VaultInv
<1>2. VaultSpec => [][ShareStep]_vars
  BY <1>1, VaultInvariant, PTL DEF VaultSpec
<1> QED BY <1>2 DEF ShareValueNeverFalls, ShareStep

\* A debt, taken at the market's current index, falls only by what is paid into
\* the market's vault.
THEOREM VaultDebts == VaultSpec => DebtFallsOnlyByPaying
<1>1. VaultInv /\ [VaultNext]_vvars => [DebtStep]_vars
  BY VaultNextIsCalled, MarketSteps DEF VaultInv
<1>2. VaultSpec => [][DebtStep]_vars
  BY <1>1, VaultInvariant, PTL DEF VaultSpec
<1> QED BY <1>2 DEF DebtFallsOnlyByPaying, DebtStep

\* The vault's copies of its market position and of its share supply are right.
THEOREM VaultLedgers == VaultSpec => []LedgersAgree
<1>1. VaultInv => LedgersAgree
  BY DEF VaultInv
<1> QED BY <1>1, VaultInvariant, PTL

\* While the cache does not overstate the assets, a vault share stays worth a
\* token, in the cache and in fact but for the rounding of a call of the market.
THEOREM VaultWorth == VaultSpec => SharesWorthDeposit
<1>1. VaultInv /\ PoolCovers /\ [VaultNext]_vvars => [WorthStep]_vvars
  BY WorthSteps
<1>2. VaultSpec => [][WorthStep]_vvars
  BY <1>1, VaultInvariant, PTL DEF VaultSpec
<1> QED BY <1>2 DEF SharesWorthDeposit, WorthStep, Rounding, Sound
=============================================================================
