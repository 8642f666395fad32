------------------------- MODULE RequestScopeProofs -------------------------
(***************************************************************************)
(* What a request scope guarantees for any number of callers and every     *)
(* outcome of the stream, the parser and the body constructor.             *)
(***************************************************************************)
EXTENDS RequestScope, TLAPS

Phases == {"idle", "request", "handler", "form", "body", "load bytes", "load form", "check",
           "load", "keep", "close", "done"}

\* The types the other facts need.
Loose ==
  /\ eager \in BOOLEAN /\ multipart \in BOOLEAN /\ callerForm \in BOOLEAN
  /\ scope \in {"none", "open", "failed"}
  /\ pc \in [Callers -> Phases]
  /\ rawReady \in BOOLEAN /\ formReady \in BOOLEAN
  /\ closed \in BOOLEAN

\* Nothing happens before the constructor returned a scope.
NotStarted ==
  /\ scope # "open" => once = "new" /\ \A c \in Callers : pc[c] = "idle"
  /\ scope = "none" => ~rawReady /\ ~closed /\ "ours" \notin files

\* Our files are registered while the scope is open, and gone after a Close.
FilesRegistered ==
  /\ scope = "open" /\ "ours" \in files => formReady /\ "ours" \in cleanup
  /\ closed => "ours" \notin files

\* The stream is untouched until it is read; a handler has the request later.
StreamKept ==
  /\ scope # "failed" /\ ~rawReady => stream = "fresh"
  /\ eager /\ scope = "open" => rawReady
  /\ \A c \in Callers : pc[c] = "handler" => rawReady
  /\ SnapshotWhole

\* The caller's files are never registered for removal.
CallerSafe ==
  /\ ~(eager /\ callerForm)
  /\ "caller" \notin cleanup
  /\ CallerFilesKept

LoadPhases == {"load bytes", "check", "load form", "load", "keep"}
Loading(c) == pc[c] \in LoadPhases

\* The caller that runs the loader is the only one, while the once runs.
OneLoader ==
  /\ \A c \in Callers : Loading(c) => once = "running"
  /\ \A c, d \in Callers : Loading(c) /\ Loading(d) => c = d

Snapshot == rawReady /\ rawErr = "ok"
ParsedForm == multipart => formReady /\ formErr = "ok"

\* What the loader has obtained where it stands.
LoaderProgress ==
  \A c \in Callers :
    /\ pc[c] \in {"check", "load form", "load"} => Snapshot
    /\ pc[c] = "load" => ParsedForm
    /\ pc[c] = "keep" /\ sourceErr = "ok" => Snapshot /\ ParsedForm

IInv ==
  /\ Loose
  /\ NotStarted
  /\ FilesRegistered
  /\ StreamKept
  /\ OneLoader
  /\ LoaderProgress
  /\ SourceRestsOnSnapshot

-----------------------------------------------------------------------------
\* A snapshot is never lost and never replaced, and it is read only once.
LEMMA RawFacts ==
  ASSUME Loose, NEW c \in Callers, NEW e, NEW late \in BOOLEAN, Raw(c, e, late)
  PROVE  /\ rawReady' \in BOOLEAN
         /\ Snapshot => Snapshot'
         /\ e = "ok" => Snapshot'
         /\ \/ UNCHANGED rawVars
            \/ /\ ~rawReady /\ rawReady'
               /\ rawErr' = "ok" => snapshot' = IF stream = "fresh" THEN "whole" ELSE "short"
<1>1. CASE UNCHANGED rawVars /\ rawReady /\ e = rawErr
  BY <1>1 DEF Loose, rawVars, Snapshot
<1>2. CASE UNCHANGED rawVars /\ e \in {"closed", "canceled"}
  BY <1>2 DEF Loose, rawVars, Snapshot
<1>3. CASE /\ ~rawReady
           /\ \E r \in ReadResults : ReadAll(r) /\ e = IF r = "ok" /\ late THEN "canceled" ELSE r
           /\ rawErr' = e
  BY <1>3 DEF Snapshot, ReadAll
<1>q. QED
  BY <1>1, <1>2, <1>3, Zenon DEF Raw, RawKept

\* What the mutex section of formValues leaves behind, whoever runs it.
LEMMA FormValuesFacts ==
  ASSUME Loose, NEW c \in Callers, NEW e, NEW late \in BOOLEAN, FormValues(c, e, late)
  PROVE  /\ rawReady' \in BOOLEAN /\ formReady' \in BOOLEAN
         /\ Snapshot => Snapshot'
         /\ formReady /\ formErr = "ok" => formReady' /\ formErr' = "ok"
         /\ e = "ok" => formReady' /\ formErr' = "ok"
         /\ UNCHANGED rawVars \/ \E f \in Answers, l \in BOOLEAN : Raw(c, f, l)
         /\ \/ UNCHANGED formVars
            \/ /\ ~closed /\ ~formReady /\ formReady'
               /\ \E form \in Forms : /\ files' = files \cup (form \ {"caller"})
                                      /\ cleanup' = IF callerForm THEN {} ELSE form
<1> USE DEF Loose, rawVars, formVars, Snapshot
<1>1. CASE closed /\ e = "closed" /\ UNCHANGED <<rawVars, formVars>>
  BY <1>1
<1>2. CASE ~closed /\ formReady /\ e = formErr /\ UNCHANGED <<rawVars, formVars>>
  BY <1>2
<1>3. CASE /\ ~closed /\ ~formReady
           /\ \E f \in Answers, readLate \in BOOLEAN :
                /\ readLate => late
                /\ c \in cancelled => readLate
                /\ Raw(c, f, readLate)
                /\ IF f = "ok" THEN Parse(e, late) ELSE e = f /\ UNCHANGED formVars
  <2>1. PICK f \in Answers, readLate \in BOOLEAN :
               /\ Raw(c, f, readLate)
               /\ IF f = "ok" THEN Parse(e, late) ELSE e = f /\ UNCHANGED formVars
    BY <1>3
  <2>2. rawReady' \in BOOLEAN /\ (Snapshot => Snapshot')
    BY <2>1, RawFacts
  <2>3. \E g \in Answers, l \in BOOLEAN : Raw(c, g, l)
    BY <2>1
  <2>4. CASE f = "ok"
    <3>1. /\ formReady' = TRUE /\ formErr' = e
          /\ \E form \in Forms : /\ files' = files \cup (form \ {"caller"})
                                 /\ cleanup' = IF callerForm THEN {} ELSE form
      BY <2>1, <2>4 DEF Parse, Registered, SharesForm
    <3>2. ~closed /\ ~formReady
      BY <1>3
    <3>q. QED
      BY <3>1, <3>2, <2>2, <2>3
  <2>5. CASE f # "ok"
    BY <1>3, <2>1, <2>2, <2>3, <2>5
  <2>q. QED
    BY <2>4, <2>5
<1>q. QED
  BY <1>1, <1>2, <1>3 DEF FormValues

-----------------------------------------------------------------------------
\* What a step of a caller may do to the request's data.
Effect(c) ==
  \/ UNCHANGED <<rawVars, formVars, closed>>
  \/ pc[c] = "handler" /\ UNCHANGED <<snapshot, rawReady, rawErr, formVars, closed>>
  \/ /\ \E e \in Answers, late \in BOOLEAN : Raw(c, e, late)
     /\ UNCHANGED <<formVars, closed>>
  \/ /\ \E e \in Answers, late \in BOOLEAN : FormValues(c, e, late)
     /\ UNCHANGED closed
  \/ /\ closed' = TRUE /\ files' = IF closed THEN files ELSE files \ cleanup
     /\ UNCHANGED <<rawVars, formReady, formErr, cleanup>>

LEMMA EffectOfStep ==
  ASSUME NEW c \in Callers, Step(c) \/ Cancel(c)
  PROVE  Effect(c) /\ UNCHANGED <<requestVars, scope>>
<1> USE DEF Effect
<1>1. CASE Call(c)
  BY <1>1 DEF Call
<1>2. CASE Request(c)
  BY <1>2 DEF Request
<1>3. CASE HandlerReads(c)
  BY <1>3 DEF HandlerReads
<1>4. CASE Form(c)
  BY <1>4 DEF Form
<1>5. CASE EnterOnce(c)
  BY <1>5 DEF EnterOnce
<1>6. CASE LoadBytes(c)
  BY <1>6 DEF LoadBytes
<1>7. CASE CheckForm(c)
  BY <1>7 DEF CheckForm
<1>8. CASE LoadForm(c)
  BY <1>8 DEF LoadForm
<1>9. CASE LoadSource(c)
  BY <1>9 DEF LoadSource
<1>10. CASE LeaveOnce(c)
  BY <1>10 DEF LeaveOnce
<1>11. CASE UseSource(c)
  BY <1>11 DEF UseSource
<1>12. CASE Close(c)
  BY <1>12 DEF Close
<1>13. CASE Cancel(c)
  BY <1>13 DEF Cancel
<1>q. QED
  BY <1>1, <1>2, <1>3, <1>4, <1>5, <1>6, <1>7, <1>8, <1>9, <1>10, <1>11, <1>12, <1>13 DEF Step

\* Where a step may take a caller, and who may act at all.
LEMMA PhaseStep ==
  ASSUME Loose, NotStarted, NEW c \in Callers, Step(c) \/ Cancel(c)
  PROVE  /\ pc' \in [Callers -> Phases]
         /\ \A d \in Callers : d # c => pc'[d] = pc[d]
         /\ scope = "open" \/ UNCHANGED <<pc, once, rawVars, formVars, closed>>
         /\ pc'[c] = "handler" => pc[c] = "handler" \/ eager \/ Snapshot'
<1> USE DEF Loose, NotStarted, Phases, End, Goto
<1>1. CASE Call(c)
  BY <1>1 DEF Call, HandOver, Immediate
<1>2. CASE Request(c)
  <2>1. PICK e \in Answers, late \in BOOLEAN : Raw(c, e, late) /\ HandOver(c, e)
    BY <1>2 DEF Request
  <2>q. QED
    BY <1>2, <2>1, RawFacts DEF Request, HandOver
<1>3. CASE HandlerReads(c)
  BY <1>3 DEF HandlerReads
<1>4. CASE Form(c)
  BY <1>4 DEF Form
<1>5. CASE EnterOnce(c)
  BY <1>5 DEF EnterOnce
<1>6. CASE LoadBytes(c)
  BY <1>6 DEF LoadBytes, Loaded
<1>7. CASE CheckForm(c)
  BY <1>7 DEF CheckForm, Loaded
<1>8. CASE LoadForm(c)
  BY <1>8 DEF LoadForm, Loaded
<1>9. CASE LoadSource(c)
  BY <1>9 DEF LoadSource, Loaded
<1>10. CASE LeaveOnce(c)
  BY <1>10 DEF LeaveOnce
<1>11. CASE UseSource(c)
  BY <1>11 DEF UseSource
<1>12. CASE Close(c)
  BY <1>12 DEF Close
<1>13. CASE Cancel(c)
  BY <1>13 DEF Cancel, sourceVars
<1>q. QED
  BY <1>1, <1>2, <1>3, <1>4, <1>5, <1>6, <1>7, <1>8, <1>9, <1>10, <1>11, <1>12, <1>13 DEF Step

\* The types are preserved, and a scope that is not open stays untouched.
LEMMA LooseStep ==
  ASSUME Loose, NotStarted, NEW c \in Callers, Step(c) \/ Cancel(c)
  PROVE  Loose' /\ NotStarted'
<1>1. Effect(c) /\ UNCHANGED <<requestVars, scope>>
  BY EffectOfStep
<1>2. rawReady' \in BOOLEAN /\ formReady' \in BOOLEAN /\ closed' \in BOOLEAN
  <2>1. CASE UNCHANGED <<rawVars, formVars, closed>>
    BY <2>1 DEF Loose, rawVars, formVars
  <2>2. CASE UNCHANGED <<snapshot, rawReady, rawErr, formVars, closed>>
    BY <2>2 DEF Loose, formVars
  <2>3. CASE (\E e \in Answers, late \in BOOLEAN : Raw(c, e, late)) /\ UNCHANGED <<formVars, closed>>
    BY <2>3, RawFacts DEF Loose, formVars
  <2>4. CASE (\E e \in Answers, late \in BOOLEAN : FormValues(c, e, late)) /\ UNCHANGED closed
    BY <2>4, FormValuesFacts DEF Loose
  <2>5. CASE closed' = TRUE /\ UNCHANGED <<rawVars, formReady, formErr, cleanup>>
    BY <2>5 DEF Loose, rawVars
  <2>q. QED
    BY <1>1, <2>1, <2>2, <2>3, <2>4, <2>5 DEF Effect
<1>3. Loose'
  BY <1>1, <1>2, PhaseStep DEF Loose, requestVars
<1>4. NotStarted'
  BY <1>1, PhaseStep DEF NotStarted, rawVars, formVars
<1>q. QED
  BY <1>3, <1>4

\* Files are registered in the step that creates them and removed by the first
\* Close; nothing parses afterwards.
LEMMA FilesStep ==
  ASSUME Loose, FilesRegistered, NEW c \in Callers, scope = "open", Step(c) \/ Cancel(c)
  PROVE  FilesRegistered'
<1> USE DEF Loose, FilesRegistered
<1>1. Effect(c) /\ UNCHANGED <<requestVars, scope>>
  BY EffectOfStep
<1>2. CASE UNCHANGED <<formVars, closed>>
  BY <1>1, <1>2 DEF formVars
<1>3. CASE (\E e \in Answers, late \in BOOLEAN : FormValues(c, e, late)) /\ UNCHANGED closed
  <2>1. CASE UNCHANGED formVars
    BY <1>1, <1>3, <2>1 DEF formVars
  <2>2. CASE /\ ~closed /\ ~formReady /\ formReady'
             /\ \E form \in Forms : /\ files' = files \cup (form \ {"caller"})
                                    /\ cleanup' = IF callerForm THEN {} ELSE form
    <3>1. PICK form \in Forms : /\ files' = files \cup (form \ {"caller"})
                                /\ cleanup' = IF callerForm THEN {} ELSE form
      BY <2>2
    <3>2. callerForm => "ours" \notin form
      BY DEF Forms
    <3>q. QED
      BY <1>1, <1>3, <2>2, <3>1, <3>2
  <2>q. QED
    BY <1>3, <2>1, <2>2, FormValuesFacts
<1>4. CASE /\ closed' = TRUE /\ files' = IF closed THEN files ELSE files \ cleanup
           /\ UNCHANGED <<rawVars, formReady, formErr, cleanup>>
  BY <1>4
<1>q. QED
  BY <1>1, <1>2, <1>3, <1>4 DEF Effect, rawVars

\* The stream is read before a handler has the request.
LEMMA StreamStep ==
  ASSUME Loose, NotStarted, StreamKept, NEW c \in Callers, Step(c) \/ Cancel(c)
  PROVE  StreamKept'
<1> USE DEF Loose, StreamKept, SnapshotWhole
<1>1. Effect(c) /\ UNCHANGED <<requestVars, scope>>
  BY EffectOfStep
<1>2. /\ rawReady => rawReady'
      /\ scope' # "failed" /\ ~rawReady' => stream' = "fresh"
      /\ rawReady' /\ rawErr' = "ok" => snapshot' = "whole"
  <2>f. CASE scope = "failed"
    BY <1>1, <2>f, PhaseStep DEF rawVars
  <2>1. CASE UNCHANGED rawVars
    BY <1>1, <2>1 DEF rawVars
  <2>2. CASE pc[c] = "handler" /\ UNCHANGED <<snapshot, rawReady, rawErr>>
    BY <2>2
  <2>3. CASE scope # "failed" /\ \E e \in Answers, late \in BOOLEAN : Raw(c, e, late)
    BY <1>1, <2>3, RawFacts DEF rawVars
  <2>q. QED
    BY <1>1, <2>f, <2>1, <2>2, <2>3, FormValuesFacts DEF Effect
<1>3. \A d \in Callers : pc'[d] = "handler" => rawReady'
  <2>1. pc'[c] = "handler" => pc[c] = "handler" \/ (eager /\ scope = "open") \/ Snapshot'
    <3>1. CASE scope = "open"
      BY PhaseStep
    <3>2. CASE scope # "open"
      BY <3>2, PhaseStep
    <3>q. QED
      BY <3>1, <3>2
  <2>q. QED
    BY <1>2, <2>1, PhaseStep DEF Snapshot
<1>q. QED
  BY <1>1, <1>2, <1>3 DEF requestVars

\* What is registered is never the caller's, unless New was given their form.
LEMMA CallerStep ==
  ASSUME Loose, CallerSafe, NEW c \in Callers, Step(c) \/ Cancel(c)
  PROVE  CallerSafe'
<1> USE DEF CallerSafe, CallerFilesKept
<1>1. Effect(c) /\ UNCHANGED <<requestVars, scope>>
  BY EffectOfStep
<1>2. CASE UNCHANGED formVars
  BY <1>1, <1>2 DEF formVars, requestVars
<1>3. CASE \E e \in Answers, late \in BOOLEAN : FormValues(c, e, late)
  <2>1. CASE \E form \in Forms : /\ files' = files \cup (form \ {"caller"})
                                 /\ cleanup' = IF callerForm THEN {} ELSE form
    BY <1>1, <2>1 DEF Forms, requestVars
  <2>q. QED
    BY <1>2, <1>3, <2>1, FormValuesFacts
<1>4. CASE files' = (IF closed THEN files ELSE files \ cleanup) /\ UNCHANGED cleanup
  BY <1>1, <1>4 DEF requestVars
<1>q. QED
  BY <1>1, <1>2, <1>3, <1>4 DEF Effect

\* A snapshot and a parsed form are kept once they are there.
LEMMA KeptStep ==
  ASSUME Loose, NEW c \in Callers, Step(c) \/ Cancel(c)
  PROVE  /\ Snapshot => Snapshot'
         /\ ParsedForm => ParsedForm'
<1> USE DEF Snapshot, ParsedForm
<1>1. Effect(c) /\ UNCHANGED multipart
  BY EffectOfStep DEF requestVars
<1>2. CASE UNCHANGED <<rawReady, rawErr, formReady, formErr>>
  BY <1>1, <1>2
<1>3. CASE (\E e \in Answers, late \in BOOLEAN : Raw(c, e, late)) /\ UNCHANGED formVars
  BY <1>1, <1>3, RawFacts DEF formVars
<1>4. CASE \E e \in Answers, late \in BOOLEAN : FormValues(c, e, late)
  BY <1>1, <1>4, FormValuesFacts
<1>q. QED
  BY <1>1, <1>2, <1>3, <1>4 DEF Effect, rawVars, formVars

\* Only a new once is entered, so a second loader never starts.
LEMMA LoaderStep ==
  ASSUME Loose, OneLoader, NEW c \in Callers, Step(c) \/ Cancel(c)
  PROVE  OneLoader'
<1> USE DEF Loose, Phases, OneLoader, Loading, LoadPhases, sourceVars
<1>1. CASE Call(c)
  BY <1>1, ZenonT(40) DEF Call, HandOver, End, Goto
<1>2. CASE Request(c)
  BY <1>2 DEF Request, HandOver, End, Goto
<1>0. CASE HandlerReads(c)
  BY <1>0 DEF HandlerReads, End, Goto
<1>3. CASE Form(c)
  BY <1>3 DEF Form, End, Goto
<1>4. CASE EnterOnce(c)
  BY <1>4 DEF EnterOnce, Goto
<1>5. CASE LoadBytes(c)
  BY <1>5 DEF LoadBytes, Loaded, Goto
<1>6. CASE CheckForm(c)
  BY <1>6 DEF CheckForm, Loaded, Goto
<1>7. CASE LoadForm(c)
  BY <1>7 DEF LoadForm, Loaded, Goto
<1>8. CASE LoadSource(c)
  BY <1>8 DEF LoadSource, Loaded, Goto
<1>9. CASE LeaveOnce(c)
  BY <1>9 DEF LeaveOnce, AfterLoad, End, Goto
<1>10. CASE UseSource(c)
  BY <1>10 DEF UseSource, End, Goto
<1>11. CASE Close(c)
  BY <1>11 DEF Close, End, Goto
<1>12. CASE Cancel(c)
  BY <1>12 DEF Cancel
<1>q. QED
  BY <1>0, <1>1, <1>2, <1>3, <1>4, <1>5, <1>6, <1>7, <1>8, <1>9, <1>10, <1>11, <1>12 DEF Step

LEMMA ProgressStep ==
  ASSUME Loose, OneLoader, LoaderProgress, SourceRestsOnSnapshot,
         NEW c \in Callers, Step(c) \/ Cancel(c)
  PROVE  LoaderProgress' /\ SourceRestsOnSnapshot'
<1> USE DEF Loose, Phases, OneLoader, Loading, LoadPhases, LoaderProgress,
            SourceRestsOnSnapshot
<1>k. (Snapshot => Snapshot') /\ (ParsedForm => ParsedForm')
  BY KeptStep
<1>1. CASE Call(c)
  BY <1>1, <1>k DEF Call, HandOver, End, Goto, sourceVars, Snapshot, ParsedForm
<1>2. CASE Request(c)
  BY <1>2, <1>k DEF Request, HandOver, End, Goto, sourceVars, Snapshot, ParsedForm
<1>0. CASE HandlerReads(c)
  BY <1>0, <1>k DEF HandlerReads, End, Goto, sourceVars, Snapshot, ParsedForm
<1>3. CASE Form(c)
  <2>1. PICK e \in Answers, late \in BOOLEAN : FormValues(c, e, late) /\ End(c, e)
    BY <1>3 DEF Form
  <2>q. QED
    BY <1>3, <2>1, FormValuesFacts, <1>k DEF Form, End, Goto, sourceVars, Snapshot, ParsedForm
<1>4. CASE EnterOnce(c)
  BY <1>4, <1>k DEF EnterOnce, Goto, sourceVars, Snapshot, ParsedForm
<1>5. CASE LoadBytes(c)
  <2>1. PICK e \in Answers, late \in BOOLEAN :
               Raw(c, e, late) /\ Loaded(c, e, IF multipart THEN "check" ELSE "load")
    BY <1>5 DEF LoadBytes
  <2>2. e = "ok" => Snapshot'
    BY <2>1, RawFacts
  <2>3. /\ pc' = [pc EXCEPT ![c] = IF e # "ok" THEN "keep" ELSE IF multipart THEN "check" ELSE "load"]
        /\ sourceErr' = e /\ UNCHANGED <<multipart, once>>
    BY <1>5, <2>1 DEF LoadBytes, Loaded, Goto, requestVars
  <2>4. ~multipart => ParsedForm'
    BY <2>3 DEF ParsedForm
  <2>5. LoaderProgress'
    BY <1>5, <1>k, <2>2, <2>3, <2>4 DEF LoadBytes
  <2>q. QED
    BY <1>k, <1>5, <2>3, <2>5 DEF LoadBytes, Snapshot, ParsedForm
<1>6. CASE CheckForm(c)
  BY <1>6, <1>k DEF CheckForm, Loaded, Goto, sourceVars, Snapshot, ParsedForm
<1>7. CASE LoadForm(c)
  <2>1. PICK e \in Answers, late \in BOOLEAN : FormValues(c, e, late) /\ Loaded(c, e, "load")
    BY <1>7 DEF LoadForm
  <2>q. QED
    BY <1>7, <2>1, FormValuesFacts, <1>k, ZenonT(40) DEF LoadForm, Loaded, Goto, Snapshot, ParsedForm
<1>8. CASE LoadSource(c)
  BY <1>8, <1>k DEF LoadSource, Loaded, Goto, sourceVars, Snapshot, ParsedForm
<1>9. CASE LeaveOnce(c)
  BY <1>9, <1>k DEF LeaveOnce, AfterLoad, End, Goto, sourceVars, Snapshot, ParsedForm
<1>10. CASE UseSource(c)
  BY <1>10, <1>k DEF UseSource, End, Goto, sourceVars, Snapshot, ParsedForm
<1>11. CASE Close(c)
  BY <1>11, <1>k DEF Close, End, Goto, sourceVars, Snapshot, ParsedForm
<1>12. CASE Cancel(c)
  BY <1>12, <1>k DEF Cancel, sourceVars, Snapshot, ParsedForm
<1>q. QED
  BY <1>0, <1>1, <1>2, <1>3, <1>4, <1>5, <1>6, <1>7, <1>8, <1>9, <1>10, <1>11, <1>12 DEF Step


-----------------------------------------------------------------------------
\* The constructors.
LEMMA NewStep ==
  ASSUME IInv, New
  PROVE  IInv'
<1> USE DEF IInv, Loose, NotStarted, FilesRegistered, StreamKept, New, callVars, sourceVars,
            requestVars, formVars
<1>1. scope = "none" /\ stream = "fresh" /\ ~rawReady /\ ~closed /\ "ours" \notin files
  OBVIOUS
<1>2. UNCHANGED <<requestVars, callVars, sourceVars>> /\ \A c \in Callers : pc[c] = "idle"
  BY <1>1
<1>3. /\ rawReady' \in BOOLEAN /\ (rawReady' /\ rawErr' = "ok" => snapshot' = "whole")
      /\ rawReady' \/ scope' = "failed"
      /\ scope' \in {"open", "failed"} /\ formReady' \in BOOLEAN /\ closed' \in BOOLEAN
      /\ FilesRegistered'
  <2>1. CASE NewReadFails
    BY <1>1, <2>1 DEF NewReadFails
  <2>2. CASE ReadAll("ok") /\ rawErr' = "ok"
             /\ \E p \in ParseResults, form \in Forms, b \in BodyResults :
                  /\ NewParsesForm(p, form)
                  /\ IF p = "ok" THEN AfterBody(bodyOption \/ b = "ok", form)
                     ELSE scope' = "failed" /\ files' = files \cup form /\ UNCHANGED closed
    <3>1. PICK p \in ParseResults, form \in Forms, b \in BodyResults :
            /\ NewParsesForm(p, form)
            /\ IF p = "ok" THEN AfterBody(bodyOption \/ b = "ok", form)
               ELSE scope' = "failed" /\ files' = files \cup form /\ UNCHANGED closed
      BY <2>2
    <3>2. rawReady' = TRUE /\ snapshot' = "whole"
      BY <1>1, <2>2 DEF ReadAll
    <3>3. CASE p = "ok"
      BY <1>1, <3>1, <3>2, <3>3 DEF NewParsesForm, AfterBody
    <3>4. CASE p # "ok"
      BY <1>1, <3>1, <3>2, <3>4 DEF NewParsesForm
    <3>q. QED
      BY <3>3, <3>4
  <2>q. QED
    BY <2>1, <2>2
<1>4. Loose'
  BY <1>2, <1>3 DEF Phases
<1>5. NotStarted' /\ StreamKept'
  BY <1>2, <1>3 DEF SnapshotWhole
<1>6. OneLoader' /\ LoaderProgress' /\ SourceRestsOnSnapshot'
  BY <1>1, <1>2 DEF OneLoader, Loading, LoadPhases, LoaderProgress, SourceRestsOnSnapshot
<1>q. QED
  BY <1>3, <1>4, <1>5, <1>6

LEMMA NewDeferredStep ==
  ASSUME IInv, NewDeferred
  PROVE  IInv'
  BY DEF IInv, Loose, NotStarted, FilesRegistered, StreamKept, SnapshotWhole, NewDeferred,
         requestVars, callVars, rawVars, formVars, sourceVars, OneLoader, Loading,
         LoaderProgress, Snapshot, ParsedForm, SourceRestsOnSnapshot

LEMMA IInvInit == Init => IInv
<1> SUFFICES ASSUME Init PROVE IInv
  OBVIOUS
<1>1. eager \in BOOLEAN /\ callerForm \in BOOLEAN /\ multipart \in BOOLEAN
  BY ConstructionsAssumption DEF Init
<1>2. "ours" \notin files
  BY DEF Init
<1>q. QED
  BY <1>1, <1>2 DEF Init, IInv, Loose, Phases, NotStarted, FilesRegistered, StreamKept,
     SnapshotWhole, OneLoader, Loading, LoadPhases, LoaderProgress, SourceRestsOnSnapshot

LEMMA IInvNext == IInv /\ [Next]_vars => IInv'
<1> SUFFICES ASSUME IInv, [Next]_vars PROVE IInv'
  OBVIOUS
<1>1. CASE \E c \in Callers : Step(c) \/ Cancel(c)
  <2>1. PICK c \in Callers : Step(c) \/ Cancel(c)
    BY <1>1
  <2>2. /\ Loose /\ NotStarted /\ FilesRegistered /\ StreamKept /\ OneLoader
        /\ LoaderProgress /\ SourceRestsOnSnapshot
    BY DEF IInv
  <2>3. FilesRegistered'
    <3>1. CASE scope = "open"
      BY <2>1, <2>2, <3>1, FilesStep
    <3>2. CASE scope # "open"
      <4>1. UNCHANGED <<scope, formVars, closed>>
        BY <2>1, <2>2, <3>2, EffectOfStep, PhaseStep
      <4>q. QED
        BY <2>2, <4>1 DEF FilesRegistered, formVars
    <3>q. QED
      BY <3>1, <3>2
  <2>q. QED
    BY <2>1, <2>2, <2>3, LooseStep, StreamStep, LoaderStep, ProgressStep DEF IInv
<1>2. CASE UNCHANGED vars
  BY <1>2 DEF vars, requestVars, callVars, rawVars, formVars, sourceVars, IInv, Loose,
     NotStarted, FilesRegistered, StreamKept, SnapshotWhole, OneLoader, Loading,
     LoaderProgress, Snapshot, ParsedForm, SourceRestsOnSnapshot
<1>q. QED
  BY <1>1, <1>2, NewStep, NewDeferredStep DEF Next, Ended

\* The inductive invariant holds in every reachable state.
THEOREM Invariance == Spec => []IInv
  BY IInvInit, IInvNext, PTL DEF Spec

\* No spill file survives a Close or appears after it.
THEOREM NoLeak == Spec => []NothingSpilledAfterClose
<1>1. IInv => NothingSpilledAfterClose
  BY DEF IInv, FilesRegistered, NothingSpilledAfterClose
<1>q. QED
  BY <1>1, Invariance, PTL

\* Bytes read without error are the whole Body.
THEOREM WholeSnapshot == Spec => []SnapshotWhole
<1>1. IInv => SnapshotWhole
  BY DEF IInv, StreamKept
<1>q. QED
  BY <1>1, Invariance, PTL

\* A body source without error rests on a clean snapshot and a clean form.
THEOREM CleanSource == Spec => []SourceRestsOnSnapshot
<1>1. IInv => SourceRestsOnSnapshot
  BY DEF IInv
<1>q. QED
  BY <1>1, Invariance, PTL

\* The caller's spill files stay, unless New is given a parsed form.
THEOREM CallerOwnership ==
  ASSUME \A k \in Constructions : k.constructor = "New" => ~k.callerForm
  PROVE  Spec => []CallerFilesKept
<1>1. Init => CallerSafe
  BY ConstructionsAssumption DEF Init, CallerSafe, CallerFilesKept
<1>2. IInv /\ CallerSafe /\ [Next]_vars => CallerSafe'
  <2> SUFFICES ASSUME IInv, CallerSafe, [Next]_vars PROVE CallerSafe'
    OBVIOUS
  <2>1. CASE \E c \in Callers : Step(c) \/ Cancel(c)
    BY <2>1, CallerStep DEF IInv
  <2>2. CASE New
    <3>1. ~callerForm /\ Forms \subseteq SUBSET {"ours"}
      BY <2>2 DEF New, CallerSafe, Forms
    <3>2. "caller" \notin cleanup'
      BY <2>2, <3>1 DEF New, NewReadFails, NewParsesForm, CallerSafe, formVars
    <3>q. QED
      BY <2>2, <3>1, <3>2 DEF New, NewReadFails, CallerSafe, CallerFilesKept, requestVars, formVars
  <2>3. CASE NewDeferred
    BY <2>3 DEF NewDeferred, CallerSafe, CallerFilesKept, requestVars, formVars
  <2>4. CASE UNCHANGED vars
    BY <2>4 DEF vars, CallerSafe, CallerFilesKept, requestVars, formVars
  <2>q. QED
    BY <2>1, <2>2, <2>3, <2>4 DEF Next, Ended
<1>3. CallerSafe => CallerFilesKept
  BY DEF CallerSafe
<1>q. QED
  BY <1>1, <1>2, <1>3, Invariance, PTL DEF Spec
=============================================================================
