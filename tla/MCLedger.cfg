SPECIFICATION Spec
CONSTANTS
  gold = gold
  t1 = t1
  t2 = t2
  alice = alice
  Keys = {gold, t1, t2, alice}
  Mints = {gold}
  Accounts = {t1, t2}
  Signers = {alice}
  Amounts = {1}
  U64_MAX = 2
  Associated <- MCAssociated
  Flags <- MCFlags
  Spaces <- MCSpaces
  Owners = {"token"}
  Funded = {t1, t2, alice}
  MaxGrants = 1
 
INVARIANT LamportsConserved
INVARIANT TokenOwnsItsData
CHECK_DEADLOCK FALSE
CONSTRAINT Regular
