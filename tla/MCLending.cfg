SPECIFICATION Spec
CONSTANTS
  u1 = u1
  u2 = u2
  i1 = i1
  Utxos = {u1, u2}
  Inscriptions = {i1}
  Offers <- MCOffers
  Rate = 5000
  Period = 1
  Amounts = {0, 1, 2}
  Times = {0, 1, 2}
  MaxTxs = 4
  MaxInstrs = 2
  MaxAborts = 1
  MaxSendFails = 1
INVARIANT SendsWhatWasCommitted
INVARIANT EverythingSettled
INVARIANT ReplicaAgrees
CHECK_DEADLOCK FALSE
