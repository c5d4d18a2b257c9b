SPECIFICATION InvocationSpec
CONSTANTS
  MAX_CPI_DEPTH = 4
  COMPUTE_BUDGET = 5500
  CPI_BASE_COST = 1000
  PER_ACCOUNT_COST = 100
  Residue = {0, 5400}
  Strangers = {"guest", "token"}
  MaxDeviations = 2
INVARIANT BuiltInstructionsRun
INVARIANT OnlyOwnersWrite
INVARIANT SignaturesStayScoped
CHECK_DEADLOCK FALSE
