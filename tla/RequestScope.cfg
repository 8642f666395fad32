SPECIFICATION FairSpec
CONSTANTS
  Constructions <- DocumentedConstructions
  Callers = {c1, c2, c3}
  ReadResults = {"ok", "read"}
  ParseResults = {"ok", "parse"}
  BodyResults = {"ok", "body"}
INVARIANTS NothingSpilledAfterClose CallerFilesKept SnapshotWhole SourceRestsOnSnapshot
PROPERTY EveryCallEnds
