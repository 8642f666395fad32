SPECIFICATION FairSpec
CONSTANTS
  A = A  B = B  T = T  U = U
  Binds = {b1, b2}
  Locations = {A, B}
  Types = {T, U}
  Owners = 1
  Systems <- CyclicSystems
  ProviderResults = {"found", "error"}
  MaxClears = 0
PROPERTY EveryBindEnds
CHECK_DEADLOCK FALSE
