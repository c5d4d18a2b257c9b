SPECIFICATION AssetsSpec
CONSTANTS
  r1 = r1
  r2 = r2
  r3 = r3
  RuneKeys = {r1, r2, r3}
  Wallets = {"wallet"}
  RuneAmounts = {1}
  RUNE_MAX = 3
  Terms <- MCTerms
  MintTimes = {0, 1, 3}
  MetaKeys = {"m1"}
  Authorities = {"artist", "buyer"}
  Creators = {"artist"}
  Names = {"", "frog"}
 
PROPERTY FrozenStays
CONSTRAINT Regular
CHECK_DEADLOCK FALSE
SYMMETRY Symmetry
