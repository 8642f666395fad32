SPECIFICATION FairSpec
CONSTANTS
  A = A  B = B  T = T  U = U
  Binds = {b1, b2}
  Locations = {A, B}
  Types = {T, U}
  Owners = 2
  Systems <- SafeSystems
  ProviderResults = {"found", "missing", "owned", "error", "panic"}
  MaxClears = 1
INVARIANTS OneFlight ChildStaysEmpty
PROPERTIES CachedValueStays EveryBindEnds
