SPECIFICATION FairSpec
CONSTANTS
  Members = {m1, m2}
  Nobody = Nobody
  Nested = {}
  EnterResults = {"ok"}
  ProviderResults = {"found", "missing"}
  WriteResults = {"ok"}
  ObserverResults = {"ok", "panic"}
  ObserveResults = {"ok"}
  CloseResults = {"ok"}
PROPERTY Returns
CHECK_DEADLOCK FALSE
