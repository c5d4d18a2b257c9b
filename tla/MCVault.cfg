SPECIFICATION VaultSpec
CONSTANTS
  borrower = borrower
  lender = lender
  keeper = keeper
  Users = {borrower, lender}
  vault_key = lender
  Holders = {keeper}
  manager = keeper
  MIN_SHARES = 1
  performance_fee = 5
  Amounts = {1, 3}
  Times = {0, 2}
  Prices = {1, 2}
  MaxPool = 4
  MaxCollateral = 3
  Passed = {"none", "market", "redeem"}
  MaxAssets = 6
  Yields = {1}
  PRICE_SCALE = 2
  BPS = 10
  INDEX_SCALE = 100
  SECONDS_PER_YEAR = 1
  collateral_factor = 6
  liquidation_threshold = 6
  liquidation_bonus = 1
  close_factor = 5
  base_rate = 2
  slope = 2
  kink_utilization = 5
  jump_slope = 5
  max_price_staleness = 1
 
 
PROPERTY ShareValueNeverFalls
 
 
CHECK_DEADLOCK FALSE
