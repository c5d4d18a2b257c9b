-------------------------------- MODULE Swap --------------------------------
(***************************************************************************)
(* The constant-product pool (himsha-programs/swap).                       *)
(*                                                                         *)
(* The balances of the two reserve accounts are the truth; the pool keeps  *)
(* a copy of them and its own count of liquidity tokens, which includes an *)
(* amount locked at the first deposit.  Anybody can send tokens to the     *)
(* reserves or burn liquidity tokens through the token program, without    *)
(* the pool taking part.  An instruction is one atomic step.  Slippage     *)
(* limits only let a caller refuse a result and are left out; the accounts *)
(* are the pool's own and wallets hold enough.                             *)
(***************************************************************************)
EXTENDS Integers, FiniteSets, Functions

CONSTANTS Users, Amounts,
          MINIMUM_LIQUIDITY, fee_numerator, fee_denominator,
          U64_MAX,       \* largest value of the code's integers
          MaxReserve     \* bound: a reserve before tokens come in

ASSUME SwapAssumption ==
  /\ IsFiniteSet(Users) /\ Amounts \subseteq Nat
  /\ {MINIMUM_LIQUIDITY, fee_denominator} \subseteq Nat \ {0}
  /\ {fee_numerator, U64_MAX, MaxReserve} \subseteq Nat

Sides == {"a", "b"}

VARIABLES pool,     \* PoolState: the cached reserves and lp_supply
          balance,  \* balance[x]: the reserve token account of side x
          lp        \* lp[u]: liquidity tokens of u; their sum is the mint's supply

vars == <<pool, balance, lp>>

PoolState == [reserve : [Sides -> Nat], lp_supply : Nat]

TypeOK ==
  /\ pool \in PoolState
  /\ balance \in [Sides -> Nat]
  /\ lp \in [Users -> Nat]

\* Initialize has been executed.
Init ==
  /\ pool = [reserve |-> [x \in Sides |-> 0], lp_supply |-> 0]
  /\ balance = [x \in Sides |-> 0]
  /\ lp = [u \in Users |-> 0]

-----------------------------------------------------------------------------
Least(a, b)   == IF a <= b THEN a ELSE b
AtLeastOne(n) == IF n < 1 THEN 1 ELSE n
Fits(n)       == n <= U64_MAX

integer_sqrt_Mutant(n) ==
  LET step[x \in 1 .. n] ==
        LET y == (x + n \div x) \div 2
        IN IF y < x /\ x > 2 THEN step[y] ELSE x
  IN IF n = 0 THEN 0 ELSE step[n]

\* Newton's method, downwards from n.
integer_sqrt(n) ==
  LET step[x \in 1 .. n] ==
        LET y == (x + n \div x) \div 2
        IN IF y < x THEN step[y] ELSE x
  IN IF n = 0 THEN 0 ELSE step[n]

\* What a swap of amount_in pays; sides are the balances of the reserves.
fee_amount(amount_in) == (amount_in * fee_numerator) \div fee_denominator

amount_out_Mutant(from, to, amount_in) ==
  (to * (amount_in + 1 - fee_amount(amount_in)))
    \div (from + amount_in - fee_amount(amount_in))

amount_out(from, to, amount_in) ==
  LET net == amount_in - fee_amount(amount_in)
  IN (to * net) \div (from + net)

\* Both pairs of sync functions end here.
synced(p, b) == [p EXCEPT !.reserve = b]

SwapTokens(in, out, amount) ==
  /\ in # out /\ balance[in] <= MaxReserve
  /\ balance[in] # 0 /\ balance[out] # 0
  /\ Fits(amount * fee_numerator) /\ fee_amount(amount) <= amount
  /\ Fits(balance[in] + amount)
  /\ balance' = [balance EXCEPT
       ![in] = @ + amount,
       ![out] = @ - amount_out(balance[in], balance[out], amount)]
  /\ pool' = synced(pool, balance')
  /\ UNCHANGED lp

\* The first deposit: the geometric mean of the two amounts, some of it locked.
Bootstrap_Mutant(u, max_a, max_b) ==
  LET minted == integer_sqrt(max_a * max_b)
  IN /\ pool.lp_supply = 0
     /\ Fits(max_a * max_b) /\ minted >= MINIMUM_LIQUIDITY
     /\ balance' = [a |-> balance["a"] + max_a, b |-> balance["b"] + max_b]
     /\ lp' = [lp EXCEPT ![u] = @ + minted]
     /\ pool' = [synced(pool, balance') EXCEPT !.lp_supply = minted]

Bootstrap(u, max_a, max_b) ==
  LET minted == integer_sqrt(max_a * max_b)
  IN /\ pool.lp_supply = 0
     /\ Fits(max_a * max_b) /\ minted >= MINIMUM_LIQUIDITY
     /\ balance' = [a |-> balance["a"] + max_a, b |-> balance["b"] + max_b]
     /\ lp' = [lp EXCEPT ![u] = @ + minted - MINIMUM_LIQUIDITY]
     /\ pool' = [synced(pool, balance') EXCEPT !.lp_supply = minted]

\* Later deposits follow the ratio of the reserves.
Deposit(u, max_a, max_b) ==
  LET Shares(max, x) == (max * pool.lp_supply) \div AtLeastOne(balance[x])
      lp_out == Least(Shares(max_a, "a"), Shares(max_b, "b"))
      Pays(x) == (lp_out * balance[x]) \div pool.lp_supply
  IN /\ pool.lp_supply # 0
     /\ Fits(max_a * pool.lp_supply) /\ Fits(max_b * pool.lp_supply)
     /\ \A x \in Sides : Fits(lp_out * balance[x]) /\ balance[x] <= MaxReserve
     /\ balance' = [x \in Sides |-> balance[x] + Pays(x)]
     /\ lp' = [lp EXCEPT ![u] = @ + lp_out]
     /\ pool' = [synced(pool, balance') EXCEPT !.lp_supply = @ + lp_out]

Withdraw_Mutant(u, amount) ==
  /\ pool.lp_supply # 0 /\ amount <= lp[u]
  /\ balance' = [x \in Sides |-> balance[x] - (balance[x] * amount + pool.lp_supply - 1) \div pool.lp_supply]
  /\ lp' = [lp EXCEPT ![u] = @ - amount]
  /\ pool' = [synced(pool, balance') EXCEPT !.lp_supply = @ - amount]

Withdraw(u, amount) ==
  /\ pool.lp_supply # 0 /\ amount <= lp[u]
  /\ balance' = [x \in Sides |-> balance[x] - (balance[x] * amount) \div pool.lp_supply]
  /\ lp' = [lp EXCEPT ![u] = @ - amount]
  /\ pool' = [synced(pool, balance') EXCEPT !.lp_supply = @ - amount]

\* The token program's Transfer to a reserve and Burn of liquidity tokens.
SendToReserve(x, amount) ==
  /\ balance[x] + amount <= MaxReserve
  /\ balance' = [balance EXCEPT ![x] = @ + amount]
  /\ UNCHANGED <<pool, lp>>

BurnLp(u, amount) ==
  /\ amount <= lp[u]
  /\ lp' = [lp EXCEPT ![u] = @ - amount]
  /\ UNCHANGED <<pool, balance>>

Next ==
  \/ \E x, y \in Sides, n \in Amounts : SwapTokens(x, y, n)
  \/ \E u \in Users, n, k \in Amounts : Bootstrap(u, n, k) \/ Deposit(u, n, k)
  \/ \E u \in Users, n \in Amounts : Withdraw(u, n) \/ BurnLp(u, n)
  \/ \E x \in Sides, n \in Amounts : SendToReserve(x, n)

Spec == Init /\ [][Next]_vars

-----------------------------------------------------------------------------
(***************************************************************************)
(* Properties.                                                             *)
(***************************************************************************)

Product == balance["a"] * balance["b"]

\* Every liquidity token can be redeemed and the locked amount stays, whatever
\* is burned behind the pool's back (the code's comment claims equality).
LockedForever ==
  pool.lp_supply # 0 =>
    pool.lp_supply >= SumFunction(lp) + MINIMUM_LIQUIDITY

\* "The pool can never be fully drained": once there is liquidity, no sequence
\* of swaps and redemptions empties a side, so swaps cannot end in PoolEmpty.
NeverDrained == pool.lp_supply # 0 => \A x \in Sides : balance[x] > 0

\* Swaps in either direction and redemptions never cost the remaining liquidity
\* providers: the product per squared liquidity token does not fall.
ProvidersKeepValue ==
  [][pool.lp_supply # 0 /\ pool'.lp_supply <= pool.lp_supply =>
       Product * pool'.lp_supply * pool'.lp_supply
         <= Product' * pool.lp_supply * pool.lp_supply]_vars

\* The first deposit is credited the integer square root of what it pays.
BootstrapIsRoot ==
  [][pool.lp_supply = 0 /\ pool'.lp_supply # 0 =>
       LET r == pool'.lp_supply
           paid == (balance'["a"] - balance["a"]) * (balance'["b"] - balance["b"])
       IN r * r <= paid /\ paid < (r + 1) * (r + 1)]_vars
=============================================================================
