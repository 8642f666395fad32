SPECIFICATION FairSpec
CONSTANTS
  N = 3
  Limit = 2
  Plans <- ShapedPlans
  EnterResults = {"ok", "denied"}
  ProviderResults = {"found", "missing"}
  WriteResults <- Writes
  ObserverResults = {"ok", "error"}
  ObserveResults = {"ok", "error"}
  CloseResults = {"ok"}
  CallerMayCancel = TRUE
INVARIANTS PermitsAccounted PrerequisitesPublished
  ClosedAfterJoin NilMeansAllBound FaultyPublicationReported
PROPERTIES NoAdmissionAfterFatal ImplementsContract Returns
