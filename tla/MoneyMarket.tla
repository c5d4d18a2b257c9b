---------------------------- MODULE MoneyMarket ----------------------------
(***************************************************************************)
(* The money market program (himsha-programs/money-market): lenders add    *)
(* the borrow asset for shares, borrowers draw it against collateral and   *)
(* owe interest, liquidators repay what is under water.                    *)
(*                                                                         *)
(* Every instruction is one atomic step: the VM drops its accounts when it *)
(* fails.  The accounts passed in are the market's own, the wallets hold   *)
(* enough for what their owners send, and sums stay below 2^64.  The fixed *)
(* point scales are parameters so that rounding shows at small amounts.    *)
(* Timestamps are chosen by the submitters, in any order.                  *)
(***************************************************************************)
EXTENDS Integers, FiniteSets, Functions

CONSTANTS Users, Amounts, Times, Prices,
          PRICE_SCALE, BPS, INDEX_SCALE, SECONDS_PER_YEAR,
          collateral_factor, liquidation_threshold, liquidation_bonus, close_factor,
          base_rate, slope, kink_utilization, jump_slope, max_price_staleness,
          MaxPool,        \* bound: borrow asset supplied
          MaxCollateral   \* bound: collateral supplied

ASSUME MarketAssumption ==
  /\ IsFiniteSet(Users)
  /\ Amounts \subseteq Nat /\ Times \subseteq Nat /\ Prices \subseteq Nat \ {0}
  /\ {PRICE_SCALE, BPS, INDEX_SCALE, SECONDS_PER_YEAR} \subseteq Nat \ {0}
  /\ collateral_factor \in 0 .. liquidation_threshold
  /\ liquidation_threshold \in 0 .. BPS
  /\ kink_utilization \in 0 .. BPS /\ close_factor \in 0 .. BPS
  /\ {liquidation_bonus, base_rate, slope, jump_slope, max_price_staleness,
      MaxPool, MaxCollateral} \subseteq Nat

VARIABLES m,        \* MarketState
          pos,      \* pos[u]: u's borrowing Position
          shares,   \* shares[u]: u's LenderPosition
          vault     \* the token balances of the two vaults

vars == <<m, pos, shares, vault>>

MarketState ==
  [price : Nat, price_updated_at : Nat, total_collateral : Nat, total_borrows : Nat,
   total_cash : Nat, total_lender_shares : Nat, borrow_index : Nat,
   last_accrual_ts : Nat]
Position == [collateral : Nat, debt : Nat, borrow_index_snapshot : Nat]

TypeOK ==
  /\ m \in MarketState
  /\ pos \in [Users -> Position]
  /\ shares \in [Users -> Nat]
  /\ vault \in [collateral : Nat, borrow : Nat]

\* InitMarket has been executed, at time 0.
Init ==
  /\ \E p \in Prices :
       m = [price |-> p, price_updated_at |-> 0, total_collateral |-> 0,
            total_borrows |-> 0, total_cash |-> 0, total_lender_shares |-> 0,
            borrow_index |-> INDEX_SCALE, last_accrual_ts |-> 0]
  /\ pos = [u \in Users |-> [collateral |-> 0, debt |-> 0, borrow_index_snapshot |-> 0]]
  /\ shares = [u \in Users |-> 0]
  /\ vault = [collateral |-> 0, borrow |-> 0]

-----------------------------------------------------------------------------
(***************************************************************************)
(* Valuation and interest.                                                 *)
(***************************************************************************)

Least(a, b)    == IF a <= b THEN a ELSE b
SatSub(a, b)   == IF a >= b THEN a - b ELSE 0
div_ceil(a, b) == (a + b - 1) \div b

CollateralValue(k, c) == (c * k.price) \div PRICE_SCALE
max_borrow(k, c)      == (CollateralValue(k, c) * collateral_factor) \div BPS
is_healthy(k, c, d)   == d <= max_borrow(k, c)
is_liquidatable(k, c, d) ==
  d > (CollateralValue(k, c) * liquidation_threshold) \div BPS

seize_collateral(k, r) ==
  (((r * PRICE_SCALE) \div k.price) * (BPS + liquidation_bonus)) \div BPS

max_liquidation_repay(d) ==
  IF close_factor = 0 \/ close_factor >= BPS THEN d
  ELSE LET capped == div_ceil(d * close_factor, BPS)
       IN IF capped < 1 THEN 1 ELSE Least(capped, d)

fresh_price(k, now) ==
  k.price # 0 /\ SatSub(now, k.price_updated_at) <= max_price_staleness

utilization(k) ==
  LET pool == k.total_borrows + k.total_cash
  IN IF pool = 0 THEN 0 ELSE (k.total_borrows * BPS) \div pool

borrow_rate(k) ==
  LET util == utilization(k)
  IN base_rate + (slope * util) \div BPS
     + (IF kink_utilization # 0 /\ util > kink_utilization
        THEN (jump_slope * (util - kink_utilization)) \div BPS ELSE 0)

\* accrue_market; a time that is not later than the last one changes nothing.
accrue_market(k, now) ==
  IF now <= k.last_accrual_ts
  THEN [k EXCEPT !.last_accrual_ts = IF @ = 0 THEN now ELSE @]
  ELSE LET den == BPS * SECONDS_PER_YEAR
           num == den + borrow_rate(k) * (now - k.last_accrual_ts)
           due == k.total_borrows # 0
       IN [k EXCEPT !.last_accrual_ts = now,
                    !.borrow_index = IF due THEN (@ * num) \div den ELSE @,
                    !.total_borrows = IF due THEN (@ * num) \div den ELSE @]

accrue_position_Mutant(p, index) == [p EXCEPT !.borrow_index_snapshot = index]

accrue_position(p, index) ==
  [p EXCEPT !.borrow_index_snapshot = index,
            !.debt = IF p.borrow_index_snapshot # 0 /\ index > p.borrow_index_snapshot
                     THEN (@ * index) \div p.borrow_index_snapshot ELSE @]

pool_value(k) == k.total_cash + k.total_borrows

lender_share_value(k, s) ==
  IF k.total_lender_shares = 0 THEN 0
  ELSE (s * pool_value(k)) \div k.total_lender_shares

shares_for_deposit(k, a) ==
  IF k.total_lender_shares = 0 \/ pool_value(k) = 0 THEN a
  ELSE (a * k.total_lender_shares) \div pool_value(k)

shares_for_withdraw_Mutant(k, a) ==
  IF pool_value(k) = 0 THEN 0
  ELSE (a * k.total_lender_shares) \div pool_value(k)

\* Rounded up.
shares_for_withdraw(k, a) ==
  IF pool_value(k) = 0 THEN 0 ELSE div_ceil(a * k.total_lender_shares, pool_value(k))

-----------------------------------------------------------------------------
(***************************************************************************)
(* The instructions, with an amount a and the message's timestamp now.     *)
(***************************************************************************)

\* The market takes over the feed's price and its time; the feed is external.
SyncPrice ==
  \E p \in Prices, ts \in Times :
    /\ m' = [m EXCEPT !.price = p, !.price_updated_at = ts]
    /\ UNCHANGED <<pos, shares, vault>>

AddLiquidity(u, a, now) ==
  LET k == accrue_market(m, now)
      s == shares_for_deposit(k, a)
  IN /\ a > 0 /\ pool_value(m) + a <= MaxPool
     /\ vault' = [vault EXCEPT !.borrow = @ + a]
     /\ m' = [k EXCEPT !.total_cash = @ + a, !.total_lender_shares = @ + s]
     /\ shares' = [shares EXCEPT ![u] = @ + s]
     /\ UNCHANGED pos

RemoveLiquidity(u, a, now) ==
  LET k == accrue_market(m, now)
      burn == shares_for_withdraw(k, a)
  IN /\ a > 0 /\ burn <= shares[u] /\ a <= k.total_cash /\ a <= vault.borrow
     /\ vault' = [vault EXCEPT !.borrow = @ - a]
     /\ m' = [k EXCEPT !.total_cash = @ - a, !.total_lender_shares = @ - burn]
     /\ shares' = [shares EXCEPT ![u] = @ - burn]
     /\ UNCHANGED pos

Supply(u, a, now) ==
  LET k == accrue_market(m, now)
      p == accrue_position(pos[u], k.borrow_index)
  IN /\ m.total_collateral + a <= MaxCollateral
     /\ vault' = [vault EXCEPT !.collateral = @ + a]
     /\ pos' = [pos EXCEPT ![u] = [p EXCEPT !.collateral = @ + a]]
     /\ m' = [k EXCEPT !.total_collateral = @ + a]
     /\ UNCHANGED shares

Withdraw(u, a, now) ==
  LET k == accrue_market(m, now)
      p == accrue_position(pos[u], k.borrow_index)
  IN /\ fresh_price(k, now)
     /\ a <= p.collateral /\ is_healthy(k, p.collateral - a, p.debt)
     /\ a <= vault.collateral
     /\ vault' = [vault EXCEPT !.collateral = @ - a]
     /\ pos' = [pos EXCEPT ![u] = [p EXCEPT !.collateral = @ - a]]
     /\ m' = [k EXCEPT !.total_collateral = @ - a]
     /\ UNCHANGED shares

Borrow(u, a, now) ==
  LET k == accrue_market(m, now)
      p == accrue_position(pos[u], k.borrow_index)
  IN /\ fresh_price(k, now)
     /\ is_healthy(k, p.collateral, p.debt + a)
     /\ a <= k.total_cash /\ a <= vault.borrow
     /\ vault' = [vault EXCEPT !.borrow = @ - a]
     /\ pos' = [pos EXCEPT ![u] = [p EXCEPT !.debt = @ + a]]
     /\ m' = [k EXCEPT !.total_cash = @ - a, !.total_borrows = @ + a]
     /\ UNCHANGED shares

Repay_Mutant(u, a, now) ==
  LET k == accrue_market(m, now)
      p == accrue_position(pos[u], k.borrow_index)
      r == Least(a, p.debt)
  IN /\ vault' = [vault EXCEPT !.borrow = @ + r]
     /\ pos' = [pos EXCEPT ![u] = [p EXCEPT !.debt = @ - r]]
     /\ m' = [k EXCEPT !.total_cash = @ + a, !.total_borrows = SatSub(@, a)]
     /\ UNCHANGED shares

Repay(u, a, now) ==
  LET k == accrue_market(m, now)
      p == accrue_position(pos[u], k.borrow_index)
      r == Least(a, p.debt)
  IN /\ vault' = [vault EXCEPT !.borrow = @ + r]
     /\ pos' = [pos EXCEPT ![u] = [p EXCEPT !.debt = @ - r]]
     /\ m' = [k EXCEPT !.total_cash = @ + r, !.total_borrows = SatSub(@, r)]
     /\ UNCHANGED shares

\* Anybody repays up to the close factor of u's debt and takes collateral for it.
Liquidate(u, a, now) ==
  LET k == accrue_market(m, now)
      p == accrue_position(pos[u], k.borrow_index)
      repaid == Least(a, max_liquidation_repay(p.debt))
      seized == Least(seize_collateral(k, repaid), p.collateral)
  IN /\ pos[u].borrow_index_snapshot # 0
     /\ fresh_price(k, now) /\ is_liquidatable(k, p.collateral, p.debt)
     /\ repaid # 0 /\ seized <= vault.collateral
     /\ vault' = [collateral |-> vault.collateral - seized, borrow |-> vault.borrow + repaid]
     /\ pos' = [pos EXCEPT ![u] = [p EXCEPT !.debt = @ - repaid, !.collateral = @ - seized]]
     /\ m' = [k EXCEPT !.total_borrows = SatSub(@, repaid), !.total_cash = @ + repaid,
                       !.total_collateral = SatSub(@, seized)]
     /\ UNCHANGED shares

Next ==
  \/ SyncPrice
  \/ \E u \in Users, a \in Amounts, now \in Times :
       \/ AddLiquidity(u, a, now)
       \/ RemoveLiquidity(u, a, now)
       \/ Supply(u, a, now)
       \/ Withdraw(u, a, now)
       \/ Borrow(u, a, now)
       \/ Repay(u, a, now)
       \/ Liquidate(u, a, now)

Spec == Init /\ [][Next]_vars

-----------------------------------------------------------------------------
(***************************************************************************)
(* Properties.                                                             *)
(***************************************************************************)

\* The market's books agree with the vaults and with the positions: no mix of
\* saturating and checked arithmetic loses a token or a share.
BooksMatch ==
  /\ m.total_cash = vault.borrow
  /\ m.total_collateral = vault.collateral
  /\ m.total_collateral = SumFunction([u \in Users |-> pos[u].collateral])
  /\ m.total_lender_shares = SumFunction(shares)

\* A lender share is never worth less than before, whatever anybody deposits,
\* redeems, borrows, repays or liquidates ("rounded up so a withdrawal never
\* redeems more value than the shares burned represent").
ShareValueNeverFalls ==
  [][m.total_lender_shares > 0 /\ m'.total_lender_shares > 0 =>
       pool_value(m) * m'.total_lender_shares <= pool_value(m') * m.total_lender_shares]_vars

\* What u owes at the market's current index.
Debt(u) ==
  IF pos[u].borrow_index_snapshot = 0 THEN 0
  ELSE (pos[u].debt * m.borrow_index) \div pos[u].borrow_index_snapshot

\* Interest is never forgiven: a step leaves u's debt, taken at the current
\* index, no smaller, unless somebody paid at least the difference into the vault.
DebtFallsOnlyByPaying ==
  [][\A u \in Users :
       Debt(u) - Debt(u)' > 0 => vault'.borrow - vault.borrow >= Debt(u) - Debt(u)']_vars
=============================================================================
