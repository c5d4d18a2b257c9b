SPECIFICATION Spec
CONSTANTS
  alice = alice
  Users = {alice}
  Amounts = {1, 2, 5}
  MINIMUM_LIQUIDITY = 2
  fee_numerator = 1
  fee_denominator = 3
  U64_MAX = 30
  MaxReserve = 6
 
 
 
PROPERTY BootstrapIsRoot
CHECK_DEADLOCK FALSE
