SPECIFICATION BitcoinSpec
CONSTANTS
  Others = {1}
  MaxHeight = 3
  Total = 3
  THRESHOLD = 2
  Outputs = {1}
  MaxBoots = 2
  Online <- MCOnline
 
INVARIANT RobustSigning
PROPERTY EventsTellTheFate
CONSTRAINT NotSigned
CHECK_DEADLOCK FALSE
