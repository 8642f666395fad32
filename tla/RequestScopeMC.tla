---------------------------- MODULE RequestScopeMC ----------------------------
(* Three concurrent users of one request scope. *)
EXTENDS RequestScope

From(constructor, parsed) == [constructor |-> constructor, callerForm |-> parsed]

\* New is given requests nobody has parsed; NewDeferred any.
DocumentedConstructions ==
  {From("New", FALSE), From("NewDeferred", FALSE), From("NewDeferred", TRUE)}

\* New is given a request whose multipart form the caller has parsed.
ParsedBeforeNew == {From("New", TRUE)}
=============================================================================
