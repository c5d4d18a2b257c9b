SPECIFICATION FairSpec
CONSTANTS
  f1 = f1
  f2 = f2
  x = x
  y = y
  t1 = t1
  t2 = t2
  t3 = t3
  p = p
  Followers = {f1}
  Primary = p
  Higher <- MCHigher
  Accounts = {x, y}
  Txs = {t1, t2, t3}
  Instrs <- MCInstrs
  Failover = TRUE
  MaxMisses = 2
  Mortal = {p, f1}
  MaxSlot = 2
  MaxBatch = 1
  Faults = {"crash", "torn", "restart", "drop", "airdrop"}
  MaxFaults = 2
  MaxReruns = 2
PROPERTY ReplicaCatchesUp
CHECK_DEADLOCK FALSE
