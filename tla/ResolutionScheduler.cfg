SPECIFICATION FairSpec
CONSTANTS
  a = a  b = b  c = c  d = d
  Tasks = {a, b, c, d}
  Nothing = Nothing
  Forests <- SmallForests
  Limit = 2
  MaxWaits = 2
INVARIANTS PermitsMatchLeases RunnableHoldsPermit AncestorsSuspended
PROPERTY EveryTaskEnds
