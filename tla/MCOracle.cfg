SPECIFICATION OracleFairSpec
CONSTANTS
  p1 = p1
  p2 = p2
  p3 = p3
  Publishers = {p1, p2, p3}
  authority = p1
  Honest = {p1, p2}
  Prices = {2, 3, 5}
  Times = {0, 1, 2}
  BPS = 10
  Deviations = {0, 5}
  Ages = {0, 1}
  MAX_PUBLISHERS = 3
  MaxChanges = 4
PROPERTY FreshGlitchContained
PROPERTY PriceFollows
CHECK_DEADLOCK FALSE
