SPECIFICATION FairSpec
CONSTANTS
  Members = {m1, m2, m3}
  Nobody = Nobody
  Nested = {m1, m2}
  EnterResults = {"ok", "denied"}
  ProviderResults = {"found", "missing", "panic", "unreadable"}
  WriteResults = {"ok", "field", "marker"}
  ObserverResults = {"ok", "error"}
  ObserveResults = {"ok", "error"}
  CloseResults = {"ok", "error"}
INVARIANTS CopiesCoherent ClosedAfterJoin SuccessIsPublished
PROPERTY Returns
