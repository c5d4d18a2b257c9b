------------------------------- MODULE Vault -------------------------------
(***************************************************************************)
(* The yield vault program (himsha-programs/vault) composed with the money *)
(* market it lends to.  Depositors hold share tokens of the vault, the     *)
(* vault holds idle assets and, as one of the market's lenders, lender     *)
(* shares; Deploy, Undeploy and Withdraw call the market's instructions    *)
(* and a failing call fails the whole instruction.                         *)
(*                                                                         *)
(* The caller decides which optional accounts to pass: none, the market    *)
(* alone, or all that a redemption from the market needs.  The slippage    *)
(* limits min_shares and min_assets only let a caller refuse a result, so  *)
(* they are left out.  As in MoneyMarket the accounts are the right ones,  *)
(* wallets hold enough and sums stay below 2^64.                           *)
(***************************************************************************)
EXTENDS MoneyMarket

CONSTANTS Holders,          \* owners of vault share accounts
          manager,          \* one of them, paid the performance fee
          vault_key,        \* the vault as a lender of the market
          MIN_SHARES, performance_fee,
          Passed,           \* which optional accounts callers pass
          Yields,           \* amounts a keeper sends to the vault
          MaxAssets         \* bound: idle and cached assets, shares

ASSUME VaultAssumption ==
  /\ IsFiniteSet(Holders) /\ manager \in Holders /\ vault_key \in Users
  /\ MIN_SHARES \in Nat \ {0} /\ performance_fee \in 0 .. BPS
  /\ Passed \subseteq {"none", "market", "redeem"}
  /\ Yields \subseteq Nat /\ MaxAssets \in Nat

VARIABLES v,      \* VaultState
          idle,   \* the balance of asset_vault
          held    \* held[h]: share tokens of h; their sum is the mint's supply

marketVars == <<m, pos, shares, vault>>
vvars == <<v, idle, held, marketVars>>

VaultState == [total_assets : Nat, lender_shares : Nat, total_shares : Nat]

VaultTypeOK ==
  /\ TypeOK
  /\ v \in VaultState
  /\ idle \in Nat
  /\ held \in [Holders -> Nat]

\* InitVault and InitMarket have been executed.
VaultInit ==
  /\ Init
  /\ v = [total_assets |-> 0, lender_shares |-> 0, total_shares |-> 0]
  /\ idle = 0
  /\ held = [h \in Holders |-> 0]

-----------------------------------------------------------------------------
AtLeastOne(n) == IF n < 1 THEN 1 ELSE n

\* What the vault's assets are worth now.
NAV == idle + lender_share_value(m, v.lender_shares)

\* The basis for pricing shares: the cache, unless the vault lends and the
\* caller passed the market.
live_nav(with) ==
  IF v.lender_shares > 0 /\ with # "none" THEN NAV ELSE v.total_assets

\* The bound of the instance.
Within == idle <= MaxAssets /\ v.total_assets <= MaxAssets /\ v.total_shares <= MaxAssets

\* The first deposit locks MIN_SHARES of its shares for good.
Deposit(h, a, with) ==
  LET first == v.total_shares = 0
      s == IF first THEN a - MIN_SHARES
           ELSE (a * v.total_shares) \div AtLeastOne(live_nav(with))
  IN /\ a > 0 /\ (first => a >= MIN_SHARES)
     /\ idle' = idle + a
     /\ held' = [held EXCEPT ![h] = @ + s]
     /\ v' = [v EXCEPT !.total_assets = @ + a,
                       !.total_shares = @ + (IF first THEN a ELSE s)]
     /\ UNCHANGED marketVars
     /\ Within'

WithdrawShares_Mutant(h, s, with, now) ==
  LET nav == live_nav(with)
      out == (s * nav) \div v.total_shares
      short == idle < out
  IN /\ v.total_shares # 0 /\ s <= held[h]
     /\ \/ short /\ with = "redeem" /\ RemoveLiquidity(vault_key, out - idle, now)
        \/ ~short /\ UNCHANGED marketVars
     /\ idle' = IF short THEN 0 ELSE idle - out
     /\ held' = [held EXCEPT ![h] = @ - s]
     /\ v' = [v EXCEPT !.total_assets = nav - out, !.total_shares = @ - s]

\* The shortfall of a redemption comes out of the market if the caller passed
\* its accounts; otherwise the transfer of the assets fails.
WithdrawShares(h, s, with, now) ==
  LET nav == live_nav(with)
      out == (s * nav) \div v.total_shares
      short == idle < out
  IN /\ v.total_shares # 0 /\ s <= held[h]
     /\ \/ short /\ with = "redeem" /\ RemoveLiquidity(vault_key, out - idle, now)
        \/ ~short /\ UNCHANGED marketVars
     /\ idle' = IF short THEN 0 ELSE idle - out
     /\ held' = [held EXCEPT ![h] = @ - s]
     /\ v' = [v EXCEPT !.total_assets = nav - out,
                       !.lender_shares = IF short THEN shares'[vault_key] ELSE @,
                       !.total_shares = @ - s]

fee_shares_Mutant(nav) ==
  LET fee == (nav * performance_fee) \div BPS
  IN IF v.total_shares > 0 /\ fee > 0 /\ nav > fee
     THEN (fee * v.total_shares) \div (nav - fee) ELSE 0

\* The shares minted to the manager for the profit since the last report.
fee_shares(nav) ==
  LET fee == (SatSub(nav, v.total_assets) * performance_fee) \div BPS
  IN IF v.total_shares > 0 /\ fee > 0 /\ nav > fee
     THEN (fee * v.total_shares) \div (nav - fee) ELSE 0

Report ==
  /\ v' = [v EXCEPT !.total_assets = NAV, !.total_shares = @ + fee_shares(NAV)]
  /\ held' = [held EXCEPT ![manager] = @ + fee_shares(NAV)]
  /\ UNCHANGED <<idle, marketVars>>
  /\ Within'

Deploy(a, now) ==
  /\ a > 0 /\ a <= idle
  /\ AddLiquidity(vault_key, a, now)
  /\ idle' = idle - a
  /\ v' = [v EXCEPT !.lender_shares = shares'[vault_key]]
  /\ UNCHANGED held

Undeploy(a, now) ==
  /\ a > 0
  /\ RemoveLiquidity(vault_key, a, now)
  /\ idle' = idle + a
  /\ v' = [v EXCEPT !.lender_shares = shares'[vault_key]]
  /\ UNCHANGED held
  /\ Within'

\* A keeper sends earned tokens to asset_vault: a transfer the vault does not see.
SendYield(a) ==
  /\ idle' = idle + a
  /\ UNCHANGED <<v, held, marketVars>>
  /\ Within'

\* What the other users of the market do.
MarketStep ==
  /\ \/ SyncPrice
     \/ \E u \in Users \ {vault_key}, a \in Amounts, now \in Times :
          \/ AddLiquidity(u, a, now)
          \/ RemoveLiquidity(u, a, now)
          \/ Supply(u, a, now)
          \/ Withdraw(u, a, now)
          \/ Borrow(u, a, now)
          \/ Repay(u, a, now)
          \/ Liquidate(u, a, now)
  /\ UNCHANGED <<v, idle, held>>

VaultNext ==
  \/ MarketStep
  \/ Report
  \/ \E a \in Yields : SendYield(a)
  \/ \E a \in Amounts, now \in Times : Deploy(a, now) \/ Undeploy(a, now)
  \/ \E h \in Holders, a \in Amounts, with \in Passed :
       \/ Deposit(h, a, with)
       \/ \E now \in Times : WithdrawShares(h, a, with, now)

VaultSpec == VaultInit /\ [][VaultNext]_vvars

-----------------------------------------------------------------------------
(***************************************************************************)
(* Properties.                                                             *)
(***************************************************************************)

\* The vault's copies of what other programs keep are right: its lender shares
\* those of its position in the market, its total the share mint's supply and
\* the MIN_SHARES that nobody owns.
LedgersAgree ==
  /\ v.lender_shares = shares[vault_key]
  /\ LET supply == SumFunction(held)
     IN v.total_shares = IF v.total_shares = 0 THEN supply ELSE supply + MIN_SHARES

\* What a lender share of the market is worth at time ts, rounded up.
LenderShare(ts) ==
  IF m.total_lender_shares = 0 THEN 0
  ELSE div_ceil(pool_value(accrue_market(m, ts)), m.total_lender_shares)

\* While the cache does not overstate the assets, a share stays worth the token
\* it was first sold for, in the cache and in fact, through deposits at stale
\* prices, redemptions, fees and interest; a call of the market costs at most
\* the rounding of one lender share.
SharesWorthDeposit ==
  [][LET Called == m' # m /\ <<idle, shares[vault_key]>>' # <<idle, shares[vault_key]>>
         Rounding == IF Called THEN LenderShare(m'.last_accrual_ts) ELSE 0
     IN v.total_shares <= v.total_assets /\ v.total_assets <= NAV =>
          v'.total_shares <= Least(v'.total_assets, NAV' + Rounding)]_vvars
=============================================================================
