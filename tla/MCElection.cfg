SPECIFICATION Spec
CONSTANTS
  a = a
  b = b
  p = p
  None = None
  Nodes = {p, a, b}
  Members = {p, a, b}
  Primary = p
  MaxTerm = 2
  MaxUpsets = 1
INVARIANT OneWinnerUnlessVoteForgotten
INVARIANT TermsBackedByPreVote
INVARIANT NamedLeaderSequences
PROPERTY TermsAndVotesOnlyMoveForward
 
SYMMETRY MCSymmetry
CHECK_DEADLOCK FALSE
