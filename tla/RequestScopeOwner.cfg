SPECIFICATION Spec
CONSTANTS
  Constructions <- ParsedBeforeNew
  Callers = {c1}
  ReadResults = {"ok"}
  ParseResults = {"ok"}
  BodyResults = {"ok"}
INVARIANT CallerFilesKept
