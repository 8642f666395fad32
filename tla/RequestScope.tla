---------------------------- MODULE RequestScope ----------------------------
(***************************************************************************)
(* A request scope and its concurrent users.  request.New reads the stream *)
(* and parses the form at once.  request.NewDeferred leaves bytes, form    *)
(* values and the body source to the first caller that wants them.  Close  *)
(* removes what the parser spilled.                                        *)
(*                                                                         *)
(* deferredRequest.mu makes bytes, formValues and close one action each.   *)
(* The body source initializes under its own sync.Once, which calls bytes  *)
(* and formValues one after the other.  A context may be canceled at any   *)
(* time, also while the stream is read or the form is parsed.  A handler   *)
(* that is given the raw request reads its Body.                           *)
(***************************************************************************)
EXTENDS Naturals, FiniteSets

CONSTANTS
  Constructions,  \* records: constructor and callerForm, see Init
  Callers,       \* concurrent users of the scope, one call each
  ReadResults,   \* how reading the stream may end: "ok", "read"
  ParseResults,  \* how parsing the form may end: "ok", "parse"
  BodyResults    \* how body.New may end: "ok", "body"

ASSUME ConstructionsAssumption ==
  Constructions \subseteq [constructor : {"New", "NewDeferred"}, callerForm : BOOLEAN]
ASSUME ResultsAssumption ==
  /\ ReadResults \subseteq {"ok", "read"}
  /\ ParseResults \subseteq {"ok", "parse"}
  /\ BodyResults \subseteq {"ok", "body"}

Answers == {"ok", "canceled", "closed", "read", "parse", "body"}

VARIABLES
  eager,       \* the scope comes from New, not from NewDeferred
  scope,       \* "none" before the constructor returns, then "open" or "failed"
  multipart,   \* the media type is multipart/form-data
  callerForm,  \* the caller had parsed a multipart form with spill files before
  formOption, bodyOption,  \* WithForm and WithBodySource were given
  pc,          \* where each caller is
  cancelled,   \* callers whose context is canceled
  answer,      \* what each call returned
  stream,      \* request.Body: "fresh", "rewound" onto the snapshot, or "drained"
  snapshot,    \* the bytes read from it: "none", "whole" or "short"
  rawReady, rawErr, formReady, formErr,  \* the fields of deferredRequest
  cleanup,     \* whose spill files the form registered for removal holds
  closed,
  files,       \* the spill files that exist: "ours", "caller"
  once, sourceErr  \* the sync.Once of the body source and the error it keeps

requestVars == <<eager, multipart, callerForm, formOption, bodyOption>>
rawVars == <<stream, snapshot, rawReady, rawErr>>
formVars == <<formReady, formErr, cleanup, files>>
callVars == <<pc, cancelled, answer>>
sourceVars == <<once, sourceErr>>
vars == <<requestVars, scope, callVars, rawVars, formVars, closed, sourceVars>>

Init ==
  /\ \E k \in Constructions :
       eager = (k.constructor = "New") /\ callerForm = k.callerForm
  /\ multipart \in {callerForm, TRUE}
  /\ formOption \in BOOLEAN /\ bodyOption \in BOOLEAN
  /\ scope = "none"
  /\ pc = [c \in Callers |-> "idle"]
  /\ cancelled = {}
  /\ answer = [c \in Callers |-> "none"]
  /\ stream = "fresh" /\ snapshot = "none" /\ rawReady = FALSE /\ rawErr = "ok"
  /\ formReady = FALSE /\ formErr = "ok"
  /\ cleanup = {} /\ closed = FALSE
  /\ files = IF callerForm THEN {"caller"} ELSE {}
  /\ once = "new" /\ sourceErr = "ok"

Goto(c, p) == pc' = [pc EXCEPT ![c] = p]
End(c, a) == Goto(c, "done") /\ answer' = [answer EXCEPT ![c] = a]

\* c's context may become canceled during a step; late tells whether the check
\* at the step's end sees that.
CanceledBy(c, late) ==
  /\ c \in cancelled => late
  /\ cancelled' = IF late THEN cancelled \cup {c} ELSE cancelled

-----------------------------------------------------------------------------
(* The stream and the form.                                                *)

\* io.ReadAll ends with r; the request's Body is rewound onto what was read.
ReadAll(r) ==
  /\ snapshot' = IF r = "ok" /\ stream = "fresh" THEN "whole" ELSE "short"
  /\ stream' = "rewound"
  /\ rawReady' = TRUE

RawKept == rawReady

\* readLocked on behalf of c, returning e.
Raw(c, e, late) ==
  \/ closed /\ e = "closed" /\ UNCHANGED rawVars
  \/ ~closed /\ RawKept /\ e = rawErr /\ UNCHANGED rawVars
  \/ ~closed /\ ~RawKept /\ c \in cancelled /\ e = "canceled" /\ UNCHANGED rawVars
  \/ /\ ~closed /\ ~RawKept /\ c \notin cancelled
     /\ \E r \in ReadResults : ReadAll(r) /\ e = IF r = "ok" /\ late THEN "canceled" ELSE r
     /\ rawErr' = e

\* Whose spill files the clone's form may name once it is parsed.  The form the
\* caller had parsed is kept, and a clone of it names the caller's files.  The
\* parser may leave files of ours, also when it fails.
Forms ==
  IF callerForm THEN {{"caller"}} ELSE IF multipart THEN {{}, {"ours"}} ELSE {{}}

\* MUTANT of SharesForm: the clone keeps its own copy of the caller's form.
SharesFormNever == FALSE

\* NewDeferred gives the clone the request's own parsed form again.
SharesForm == callerForm

\* MUTANT of Registered: only the form of a successful parse is registered.
RegisteredOnSuccess(form, r) == IF r = "ok" /\ ~SharesForm THEN form ELSE {}

\* A form that is not the request's own is registered before the parse error is
\* looked at.
Registered(form, r) == IF SharesForm THEN {} ELSE form

Parse(e, late) ==
  /\ formReady' = TRUE
  /\ \E r \in ParseResults, form \in Forms :
       /\ files' = files \cup (form \ {"caller"})
       /\ cleanup' = Registered(form, r)
       /\ e = IF r = "ok" /\ late THEN "canceled" ELSE r
  /\ formErr' = e

\* formValues on behalf of c, returning e.
FormValues(c, e, late) ==
  \/ closed /\ e = "closed" /\ UNCHANGED <<rawVars, formVars>>
  \/ ~closed /\ formReady /\ e = formErr /\ UNCHANGED <<rawVars, formVars>>
  \/ /\ ~closed /\ ~formReady
     /\ \E f \in Answers, readLate \in BOOLEAN :
          /\ readLate => late
          /\ c \in cancelled => readLate
          /\ Raw(c, f, readLate)
          /\ IF f = "ok" THEN Parse(e, late) ELSE e = f /\ UNCHANGED formVars

-----------------------------------------------------------------------------
(* The constructors.                                                       *)

\* The parse of New: an error ends it before anything is registered.
NewParsesForm(p, form) ==
  /\ formReady' = TRUE /\ formErr' = p
  /\ cleanup' = IF p = "ok" THEN form ELSE {}

\* A scope whose body source cannot be made is closed.
AfterBody(ok, form) ==
  /\ scope' = IF ok THEN "open" ELSE "failed"
  /\ closed' = ~ok
  /\ files' = IF ok THEN files \cup form ELSE (files \cup form) \ cleanup'

\* A read error ends New with the stream used up and nothing kept.
NewReadFails ==
  /\ \E r \in ReadResults : r # "ok"
  /\ scope' = "failed" /\ stream' = "drained"
  /\ UNCHANGED <<snapshot, rawReady, rawErr, formVars, closed>>

\* New: read and rewind the stream, parse, register the clone's form, which never
\* is the request's own, and construct the body source.
New ==
  /\ scope = "none" /\ eager
  /\ \/ NewReadFails
     \/ /\ "ok" \in ReadResults /\ ReadAll("ok") /\ rawErr' = "ok"
        /\ \E p \in ParseResults, form \in Forms, b \in BodyResults :
             /\ NewParsesForm(p, form)
             /\ IF p = "ok" THEN AfterBody(bodyOption \/ b = "ok", form)
                ELSE scope' = "failed" /\ files' = files \cup form /\ UNCHANGED closed
  /\ UNCHANGED <<requestVars, callVars, sourceVars>>

NewDeferred ==
  /\ scope = "none" /\ ~eager
  /\ scope' = "open"
  /\ UNCHANGED <<requestVars, callVars, rawVars, formVars, closed, sourceVars>>

-----------------------------------------------------------------------------
(* The providers.                                                          *)

\* New has the answer; an overlay replaces the form or the body source.
Immediate(op) ==
  \/ eager
  \/ op = "form" /\ formOption
  \/ op = "body" /\ bodyOption

\* MUTANT of HandOver: the request is handed over whatever the read returned.
HandOverAlways(c, e) == Goto(c, "handler") /\ UNCHANGED answer

\* The raw request is handed to a handler only with its Body rewound.
HandOver(c, e) ==
  IF e = "ok" THEN Goto(c, "handler") /\ UNCHANGED answer ELSE End(c, e)

\* A lookup of the raw request, the form or the body, or a Close; a deferred
\* initialization first checks the context.
Call(c) ==
  /\ scope = "open" /\ pc[c] = "idle"
  /\ \/ \E op \in {"request", "form", "body"} :
          \/ Immediate(op) /\ op = "request" /\ HandOver(c, "ok")
          \/ Immediate(op) /\ op # "request" /\ End(c, "ok")
          \/ ~Immediate(op) /\ c \notin cancelled /\ Goto(c, op) /\ UNCHANGED answer
          \/ ~Immediate(op) /\ c \in cancelled /\ End(c, "canceled")
     \/ Goto(c, "close") /\ UNCHANGED answer
  /\ UNCHANGED <<requestVars, scope, cancelled, rawVars, formVars, closed, sourceVars>>

Request(c) ==
  /\ pc[c] = "request"
  /\ \E e \in Answers, late \in BOOLEAN :
       CanceledBy(c, late) /\ Raw(c, e, late) /\ HandOver(c, e)
  /\ UNCHANGED <<requestVars, scope, formVars, closed, sourceVars>>

\* The handler reads the Body of the request it was given.
HandlerReads(c) ==
  /\ pc[c] = "handler"
  /\ stream' = "drained"
  /\ End(c, "ok")
  /\ UNCHANGED <<requestVars, scope, cancelled, snapshot, rawReady, rawErr, formVars,
                 closed, sourceVars>>

Form(c) ==
  /\ pc[c] = "form"
  /\ \E e \in Answers, late \in BOOLEAN :
       CanceledBy(c, late) /\ FormValues(c, e, late) /\ End(c, e)
  /\ UNCHANGED <<requestVars, scope, closed, sourceVars>>

\* The first caller runs the loader, the others wait for it.
EnterOnce(c) ==
  /\ pc[c] = "body"
  /\ once = "new"
  /\ once' = "running"
  /\ Goto(c, IF c \in cancelled THEN "keep" ELSE "load bytes")
  /\ sourceErr' = IF c \in cancelled THEN "canceled" ELSE sourceErr
  /\ UNCHANGED <<requestVars, scope, cancelled, answer, rawVars, formVars, closed>>

\* MUTANT of Loaded: an error ends the wait of the others with nothing kept.
LoadedUnkept(c, e, next) == sourceErr' = "ok" /\ Goto(c, IF e = "ok" THEN next ELSE "keep")

Loaded(c, e, next) == sourceErr' = e /\ Goto(c, IF e = "ok" THEN next ELSE "keep")

LoadBytes(c) ==
  /\ pc[c] = "load bytes"
  /\ \E e \in Answers, late \in BOOLEAN :
       /\ CanceledBy(c, late)
       /\ Raw(c, e, late)
       /\ Loaded(c, e, IF multipart THEN "check" ELSE "load")
  /\ UNCHANGED <<requestVars, scope, answer, formVars, closed, once>>

\* formValues checks the context before it waits for the mutex.
CheckForm(c) ==
  /\ pc[c] = "check"
  /\ Loaded(c, IF c \in cancelled THEN "canceled" ELSE "ok", "load form")
  /\ UNCHANGED <<requestVars, scope, cancelled, answer, rawVars, formVars, closed, once>>

LoadForm(c) ==
  /\ pc[c] = "load form"
  /\ \E e \in Answers, late \in BOOLEAN :
       CanceledBy(c, late) /\ FormValues(c, e, late) /\ Loaded(c, e, "load")
  /\ UNCHANGED <<requestVars, scope, answer, closed, once>>

LoadSource(c) ==
  /\ pc[c] = "load"
  /\ \E e \in BodyResults : Loaded(c, e, "keep")
  /\ UNCHANGED <<requestVars, scope, cancelled, answer, rawVars, formVars, closed, once>>

\* MUTANT of AfterLoad: a failed initialization leaves the once unfinished.
AfterLoadUnlessFailed == IF sourceErr = "ok" THEN "done" ELSE once

AfterLoad == "done"

LeaveOnce(c) ==
  /\ pc[c] = "keep"
  /\ once' = AfterLoad
  /\ End(c, sourceErr)
  /\ UNCHANGED <<requestVars, scope, cancelled, rawVars, formVars, closed, sourceErr>>

UseSource(c) ==
  /\ pc[c] = "body"
  /\ once = "done"
  /\ End(c, sourceErr)
  /\ UNCHANGED <<requestVars, scope, cancelled, rawVars, formVars, closed, sourceVars>>

\* Only the first Close removes what is registered.
Close(c) ==
  /\ pc[c] = "close"
  /\ closed' = TRUE
  /\ files' = IF closed THEN files ELSE files \ cleanup
  /\ End(c, "ok")
  /\ UNCHANGED <<requestVars, scope, cancelled, rawVars, formReady, formErr, cleanup,
                 sourceVars>>

Cancel(c) ==
  /\ c \notin cancelled /\ pc[c] # "done"
  /\ cancelled' = cancelled \cup {c}
  /\ UNCHANGED <<requestVars, scope, pc, answer, rawVars, formVars, closed, sourceVars>>

-----------------------------------------------------------------------------
Step(c) ==
  \/ Call(c) \/ Request(c) \/ HandlerReads(c) \/ Form(c)
  \/ EnterOnce(c) \/ LoadBytes(c) \/ CheckForm(c) \/ LoadForm(c) \/ LoadSource(c)
  \/ LeaveOnce(c) \/ UseSource(c)
  \/ Close(c)

Ended == (scope = "failed" \/ \A c \in Callers : pc[c] = "done") /\ UNCHANGED vars

Next == New \/ NewDeferred \/ (\E c \in Callers : Step(c) \/ Cancel(c)) \/ Ended

Spec == Init /\ [][Next]_vars

\* The stream, the parser and the handlers return; nobody is obliged to cancel.
FairSpec ==
  Spec /\ WF_vars(New \/ NewDeferred) /\ \A c \in Callers : WF_vars(Step(c))

-----------------------------------------------------------------------------
(* Properties.                                                             *)

\* After a Close no spill file of ours exists, and none appears later, although
\* the form may be parsed by the form provider or by the body source, may fail
\* after it spilled, and Close may come between the two; New closes what it
\* registered when the body source cannot be made.
NothingSpilledAfterClose == closed => "ours" \notin files

\* The spill files of a form the caller had parsed stay: the scope removes only
\* what its own parsing wrote.
CallerFilesKept == callerForm => "caller" \in files

\* Bytes that were read without error are all of the request's Body, although
\* the request itself is handed to handlers that drain it, calls are canceled
\* during the read, and a failed read has used up the stream.
SnapshotWhole == rawReady /\ rawErr = "ok" => snapshot = "whole"

\* A body source that serves its callers rests on a snapshot that was read
\* without error and, for multipart, on a form that was parsed without error;
\* whatever else happened is kept as its error for every later caller.
SourceRestsOnSnapshot ==
  once = "done" /\ sourceErr = "ok" =>
    rawReady /\ rawErr = "ok" /\ (multipart => formReady /\ formErr = "ok")

\* Every call returns unless the constructor failed: the once and the mutex are
\* never waited for in a circle.
EveryCallEnds == <>(scope = "failed" \/ \A c \in Callers : pc[c] = "done")
=============================================================================
