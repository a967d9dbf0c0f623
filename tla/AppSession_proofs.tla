-------------------------- MODULE AppSession_proofs --------------------------
(***************************************************************************)
(* Theorems about AppSession for all inputs, examples and settings and any *)
(* number of live pushes in flight.                                        *)
(***************************************************************************)
EXTENDS AppSession, TLAPS

\* -------------------------- inductive invariant ------------------------

Shown == [of : Inputs, change : STRING \cup {Nothing}]

Outcomes == [of : Inputs, change : STRING \cup {Nothing}]

Calls == [system : SystemNames, of : Inputs, change : STRING \cup {Nothing},
          held : BOOLEAN, ofRun : BOOLEAN]

\* The places of a callback where the inputs may be newer than the result.
Callback == {"change", "terraform", "k8s", "pop_result", "pop_status"}

Runs == [at : {"idle", "top", "services", "store_change", "drop_status", "results", "sending", "end"}
              \cup Callback \cup SystemNames,
         click : {"run", Nothing} \cup SystemNames,
         example : Inputs \cup {Nothing},
         drawn : SUBSET SystemNames,
         shows : Shown \cup {Nothing}]

\* Types of the session, of the run and of the calls.
TypeOK ==
    /\ inputs \in Inputs
    /\ result \in Inputs \cup {Nothing}
    /\ changeDoc \in STRING \cup {Nothing}
    /\ statuses \in [SystemNames -> Outcomes \cup {Nothing}]
    /\ tick \in [SystemNames -> BOOLEAN]
    /\ page \subseteq SystemNames /\ offered \subseteq SystemNames
    /\ run \in Runs
    /\ calls \in [1..MaxCalls -> Calls \cup {Nothing}]
    /\ torn \in Nat

\* What a record of a result and of a change document says is of the inputs.
Current(x) == x.of = inputs /\ x.change = inputs.change

\* What the run itself has done by each place of an update, whatever was
\* stopped before it.
Updated ==
    /\ run.at \in EditorNames => run.example \in Inputs
    /\ run.at = "pop_status" => result = Nothing
    /\ run.at \in {"store_change", "drop_status"} => result = inputs
    /\ run.at = "drop_status" => changeDoc = inputs.change

\* Whatever is kept outside a callback is of the inputs on the page.
KeptIsCurrent ==
    torn = 0 =>
        /\ run.at \notin Callback =>
               /\ result \in {inputs, Nothing}
               /\ \A s \in SystemNames : statuses[s] # Nothing => Current(statuses[s])
        /\ run.at \notin Updating /\ result # Nothing => changeDoc = inputs.change

\* A call that may still record its outcome where it is read, was made for the
\* inputs on the page.
HeldIsCurrent ==
    torn = 0 /\ run.at \notin Callback =>
        \A c \in 1..MaxCalls : calls[c] # Nothing /\ calls[c].held => Current(calls[c])

\* A run waits for one call, and only where it sends.
OneAwaited ==
    /\ \A c \in 1..MaxCalls : calls[c] # Nothing /\ calls[c].ofRun => run.at = "sending"
    /\ \A c, d \in 1..MaxCalls :
           calls[c] # Nothing /\ calls[d] # Nothing /\ calls[c].ofRun /\ calls[d].ofRun => c = d

\* From the first control on, a run shows a result, and that of the inputs.
ShownIsCurrent ==
    run.at \in SystemNames \cup {"sending"} =>
        run.shows \in Shown /\ (torn = 0 => Current(run.shows))

IInv == TypeOK /\ Updated /\ KeptIsCurrent /\ HeldIsCurrent /\ OneAwaited /\ ShownIsCurrent

\* The places, apart from those of the two controls.
LEMMA Places ==
    /\ Updating = Callback \cup {"store_change", "drop_status"}
    /\ {"top", "results", "end", "idle", "sending", "services", "servicenow", "jira"}
           \cap Updating = {}
    /\ Callback \cap {"store_change", "drop_status"} = {}
    /\ SystemNames = {"servicenow", "jira"}
    /\ EditorNames \cap SystemNames = {}
BY DEF Updating, Callback, SystemNames, EditorNames

\* ------------------------------- the calls -----------------------------

\* What an event makes of a call in flight: it may lose its run and its
\* dictionary, nothing else.
LEMMA OrphanedCall ==
    ASSUME NEW c \in Calls \cup {Nothing}
    PROVE  /\ Orphaned(c) \in Calls \cup {Nothing}
           /\ c = Nothing => Orphaned(c) = Nothing
           /\ c # Nothing => /\ Orphaned(c) \in Calls
                             /\ ~Orphaned(c).ofRun
                             /\ Orphaned(c).held = c.held
                             /\ Orphaned(c).of = c.of
                             /\ Orphaned(c).change = c.change
BY DEF Orphaned, Calls

LEMMA DetachedCall ==
    ASSUME NEW c \in Calls \cup {Nothing}
    PROVE  /\ Detached(c) \in Calls \cup {Nothing}
           /\ c = Nothing => Detached(c) = Nothing
           /\ c # Nothing => /\ Detached(c) \in Calls
                             /\ ~Detached(c).held
                             /\ Detached(c).ofRun = c.ofRun
BY DEF Detached, Calls

LEMMA StartedType ==
    ASSUME NEW place \in {"services", "top", "pop_result"},
           NEW click \in {"run", Nothing} \cup SystemNames,
           NEW example \in Inputs \cup {Nothing}
    PROVE  /\ Started(place, click, example) \in Runs
           /\ Started(place, click, example).at = place
           /\ Started(place, click, example).example = example
BY DEF Started, Runs, Callback

LEMMA InitHolds == Init => IInv
<1> SUFFICES ASSUME Init PROVE IInv
  OBVIOUS
<1>1. run.at = "idle" /\ run \in Runs
  BY DEF Init, Idle, Started, Runs
<1>2. TypeOK
  BY <1>1, InputsAssumption DEF Init, TypeOK, NoOutcome
<1>3. KeptIsCurrent /\ HeldIsCurrent /\ OneAwaited
  BY DEF Init, KeptIsCurrent, NoOutcome, HeldIsCurrent, OneAwaited
<1>4. ShownIsCurrent /\ Updated
  BY <1>1 DEF ShownIsCurrent, SystemNames, Updated, EditorNames
<1>5. QED
  BY <1>2, <1>3, <1>4 DEF IInv

\* ------------------------------- events --------------------------------

\* A run that begins orphans every call.  If it stops an update half-way, the
\* session counts as torn; if it does not, what is kept stays current, unless
\* the event is a new text: then the run begins inside a callback.
LEMMA BeginKeeps ==
    ASSUME IInv, NEW place \in {"services", "top", "pop_result"},
           NEW click \in {"run", Nothing} \cup SystemNames,
           NEW example \in Inputs \cup {Nothing},
           place = "services" => example \in Inputs,
           Begin(place, click, example), inputs' \in Inputs,
           place # "pop_result" => inputs' = inputs,
           tick' \in [SystemNames -> BOOLEAN]
    PROVE  IInv'
<1>1. /\ run' \in Runs /\ run'.at = place /\ run'.example = example
      /\ torn' \in Nat
      /\ torn' = 0 => torn = 0 /\ run.at \notin Updating
      /\ UNCHANGED <<env, result, changeDoc, statuses, page, offered>>
  BY StartedType DEF Begin, IInv, TypeOK
<1>2. DOMAIN calls = 1..MaxCalls /\ \A c \in 1..MaxCalls : calls[c] \in Calls \cup {Nothing}
  BY DEF IInv, TypeOK
<1>3. \A c \in 1..MaxCalls :
        /\ calls'[c] = Orphaned(calls[c])
        /\ calls'[c] \in Calls \cup {Nothing}
        /\ calls'[c] # Nothing => /\ calls[c] # Nothing
                                  /\ ~calls'[c].ofRun
                                  /\ calls'[c].held = calls[c].held
                                  /\ calls'[c].of = calls[c].of
                                  /\ calls'[c].change = calls[c].change
  BY <1>2, OrphanedCall DEF Begin
<1>4. calls' \in [1..MaxCalls -> Calls \cup {Nothing}]
  BY <1>2, <1>3 DEF Begin
<1>5. TypeOK'
  BY <1>1, <1>4 DEF IInv, TypeOK
<1>6. KeptIsCurrent'
  BY <1>1, Places DEF IInv, KeptIsCurrent, Current, Callback
<1>7. HeldIsCurrent'
  BY <1>1, <1>3, Places DEF IInv, HeldIsCurrent, Current, Callback
<1>8. OneAwaited'
  BY <1>3 DEF OneAwaited
<1>9. ShownIsCurrent'
  BY <1>1 DEF ShownIsCurrent, SystemNames
<1>10. Updated'
  BY <1>1 DEF Updated, EditorNames
<1>11. QED
  BY <1>5, <1>6, <1>7, <1>8, <1>9, <1>10 DEF IInv

LEMMA RerunKeeps ==
    ASSUME IInv, NEW click \in {"run", Nothing} \cup SystemNames, Rerun(click),
           tick' \in [SystemNames -> BOOLEAN]
    PROVE  IInv'
<1>1. Begin("top", click, Nothing) /\ inputs' = inputs /\ inputs' \in Inputs
  BY DEF Rerun, IInv, TypeOK
<1>2. QED
  BY <1>1, BeginKeeps

LEMMA EventKeeps ==
    ASSUME IInv, Event
    PROVE  IInv'
<1>1. CASE EditInput
  <2>1. PICK field \in DOMAIN Edits :
            \E text \in Edits[field] \ {inputs[field]} :
                inputs' = [inputs EXCEPT ![field] = text]
    BY <1>1 DEF EditInput
  <2>2. PICK text \in Edits[field] \ {inputs[field]} : inputs' = [inputs EXCEPT ![field] = text]
    BY <2>1
  <2>3. field \in EditorNames /\ text \in STRING
    BY <2>1, <2>2, InputsAssumption
  <2>4. inputs' \in Inputs
    BY <2>2, <2>3 DEF IInv, TypeOK, Inputs
  <2>5. Begin("pop_result", Nothing, Nothing) /\ tick' \in [SystemNames -> BOOLEAN]
    BY <1>1 DEF EditInput, IInv, TypeOK
  <2>6. QED
    BY <2>4, <2>5, BeginKeeps
<1>2. CASE LoadExample
  <2>1. PICK example \in Examples : Begin(Editors[1], Nothing, example)
    BY <1>2 DEF LoadExample
  <2>2. example \in Inputs /\ Editors[1] = "services"
    BY InputsAssumption DEF Editors
  <2>3. inputs' = inputs /\ inputs' \in Inputs /\ tick' \in [SystemNames -> BOOLEAN]
    BY <1>2 DEF LoadExample, IInv, TypeOK
  <2>4. QED
    BY <2>1, <2>2, <2>3, BeginKeeps
<1>3. CASE ClickRun
  BY <1>3, RerunKeeps DEF ClickRun, IInv, TypeOK
<1>4. CASE ClickSend
  <2>1. PICK s \in offered : Rerun(s) /\ UNCHANGED tick
    BY <1>4 DEF ClickSend
  <2>2. s \in SystemNames
    BY DEF IInv, TypeOK
  <2>3. QED
    BY <2>1, <2>2, RerunKeeps DEF IInv, TypeOK
<1>5. CASE ClickOther
  BY <1>5, RerunKeeps DEF ClickOther, IInv, TypeOK
<1>6. CASE Toggle
  <2>1. PICK s \in page : tick' = [tick EXCEPT ![s] = ~ @] /\ Rerun(Nothing)
    BY <1>6 DEF Toggle
  <2>2. tick' \in [SystemNames -> BOOLEAN]
    BY <2>1, Zenon DEF IInv, TypeOK
  <2>3. QED
    BY <2>1, <2>2, RerunKeeps
<1>7. QED
  BY <1>1, <1>2, <1>3, <1>4, <1>5, <1>6 DEF Event

\* ----------------------------- callbacks -------------------------------

LEMMA FollowingType ==
    \A place \in EditorNames : Following(place) \in Callback \ {"pop_status"}
BY DEF Following, EditorNames, Callback

LEMMA FillInKeeps ==
    ASSUME IInv, FillIn
    PROVE  IInv'
<1>1. run.at \in EditorNames /\ run.example \in Inputs
  BY DEF FillIn, IInv, Updated
<1>2. inputs' \in Inputs
  BY <1>1 DEF FillIn, IInv, TypeOK, Inputs
<1>3. /\ run' \in Runs /\ run'.at \in Callback \ {"pop_status"} /\ run'.example = run.example
      /\ run.at # "sending"
  BY <1>1, FollowingType DEF FillIn, IInv, TypeOK, Runs, EditorNames
<1>4. TypeOK'
  BY <1>2, <1>3 DEF FillIn, IInv, TypeOK
<1>5. Updated'
  BY <1>1, <1>3, Places DEF Updated
<1>6. KeptIsCurrent' /\ HeldIsCurrent'
  BY <1>3, Places DEF KeptIsCurrent, HeldIsCurrent
<1>7. OneAwaited'
  BY <1>3 DEF FillIn, IInv, OneAwaited
<1>8. ShownIsCurrent'
  BY <1>3 DEF ShownIsCurrent, SystemNames, Callback
<1>9. QED
  BY <1>4, <1>5, <1>6, <1>7, <1>8 DEF IInv

LEMMA PopResultKeeps ==
    ASSUME IInv, PopResult
    PROVE  IInv'
<1>1. run' \in Runs /\ run'.at = "pop_status" /\ run.at # "sending"
  BY DEF PopResult, IInv, TypeOK, Runs, Callback
<1>2. TypeOK'
  BY <1>1 DEF PopResult, IInv, TypeOK
<1>3. Updated'
  BY <1>1 DEF PopResult, Updated, EditorNames
<1>4. KeptIsCurrent' /\ HeldIsCurrent'
  BY <1>1, Places DEF KeptIsCurrent, HeldIsCurrent, Callback
<1>5. OneAwaited'
  BY <1>1 DEF PopResult, IInv, OneAwaited
<1>6. ShownIsCurrent'
  BY <1>1 DEF ShownIsCurrent, SystemNames
<1>7. QED
  BY <1>2, <1>3, <1>4, <1>5, <1>6 DEF IInv

\* The last access of an update leaves nothing of other inputs behind.
LEMMA PopStatusKeeps ==
    ASSUME IInv, PopStatus
    PROVE  IInv'
<1>1. /\ run' \in Runs /\ run'.at \in {"top", "results"} /\ run.at # "sending"
      /\ result \in {inputs, Nothing}
      /\ result # Nothing => changeDoc = inputs.change
  <2>1. CASE run.at = "pop_status"
    BY <2>1 DEF PopStatus, IInv, TypeOK, Updated, Runs
  <2>2. CASE run.at = "drop_status"
    BY <2>2 DEF PopStatus, IInv, TypeOK, Updated, Runs
  <2>3. QED
    BY <2>1, <2>2 DEF PopStatus
<1>2. DOMAIN calls = 1..MaxCalls /\ \A c \in 1..MaxCalls : calls[c] \in Calls \cup {Nothing}
  BY DEF IInv, TypeOK
<1>3. \A c \in 1..MaxCalls :
        /\ calls'[c] \in Calls \cup {Nothing}
        /\ calls'[c] # Nothing => /\ calls[c] # Nothing /\ ~calls'[c].held
                                  /\ calls'[c].ofRun = calls[c].ofRun
  BY <1>2, DetachedCall DEF PopStatus
<1>4. calls' \in [1..MaxCalls -> Calls \cup {Nothing}]
  BY <1>2, <1>3 DEF PopStatus
<1>5. TypeOK'
  BY <1>1, <1>4 DEF PopStatus, IInv, TypeOK, NoOutcome
<1>6. KeptIsCurrent'
  BY <1>1 DEF PopStatus, KeptIsCurrent, NoOutcome
<1>7. HeldIsCurrent'
  BY <1>3 DEF HeldIsCurrent
<1>8. OneAwaited'
  BY <1>1, <1>3 DEF IInv, OneAwaited
<1>9. ShownIsCurrent' /\ Updated'
  BY <1>1 DEF ShownIsCurrent, SystemNames, Updated, EditorNames
<1>10. QED
  BY <1>5, <1>6, <1>7, <1>8, <1>9 DEF IInv

\* ------------------------------ one run --------------------------------

\* A step of the script that leaves the calls and what is kept alone, and
\* starts at none of the places that wait for a call, or update.
LEMMA CallsUntouched ==
    ASSUME IInv, UNCHANGED <<inputs, calls, torn>>, run.at \notin Callback, run.at # "sending"
    PROVE  HeldIsCurrent' /\ OneAwaited'
BY DEF IInv, HeldIsCurrent, OneAwaited, Current

LEMMA SessionUntouched ==
    ASSUME IInv, UNCHANGED <<Session, calls, torn>>, run.at \notin Updating, run.at # "sending",
           run'.at \notin Updating \cup EditorNames
    PROVE  HeldIsCurrent' /\ OneAwaited' /\ KeptIsCurrent' /\ Updated'
<1>1. HeldIsCurrent' /\ OneAwaited'
  BY CallsUntouched, Places DEF Session
<1>2. KeptIsCurrent'
  BY Places DEF IInv, KeptIsCurrent, Session, Current
<1>3. Updated'
  BY Places DEF Updated, Callback
<1>4. QED
  BY <1>1, <1>2, <1>3

LEMMA RunAssessmentKeeps ==
    ASSUME IInv, RunAssessment
    PROVE  IInv'
<1>1. result' \in {inputs, Nothing}
  BY DEF RunAssessment, Assess
<1>2. /\ run'.at = IF result' = Nothing THEN "results" ELSE "store_change"
      /\ run' \in Runs
      /\ run.at = "top"
  BY DEF RunAssessment, IInv, TypeOK, Runs
<1>3. TypeOK'
  BY <1>1, <1>2 DEF RunAssessment, IInv, TypeOK
<1>4. KeptIsCurrent'
  BY <1>1, <1>2, Places DEF RunAssessment, IInv, KeptIsCurrent, Current, Callback
<1>5. HeldIsCurrent' /\ OneAwaited'
  BY <1>2, CallsUntouched, Places DEF RunAssessment
<1>6. ShownIsCurrent' /\ Updated'
  BY <1>1, <1>2 DEF RunAssessment, ShownIsCurrent, SystemNames, Updated, EditorNames
<1>7. QED
  BY <1>3, <1>4, <1>5, <1>6 DEF IInv

LEMMA StoreChangeKeeps ==
    ASSUME IInv, StoreChange
    PROVE  IInv'
<1>1. run' \in Runs /\ run'.at = "drop_status" /\ run.at = "store_change"
  BY DEF StoreChange, IInv, TypeOK, Runs
<1>2. inputs.change \in STRING /\ result = inputs
  BY <1>1 DEF IInv, TypeOK, Inputs, EditorNames, Updated
<1>3. TypeOK'
  BY <1>1, <1>2 DEF StoreChange, IInv, TypeOK
<1>4. KeptIsCurrent'
  BY <1>1, <1>2, Places DEF StoreChange, IInv, KeptIsCurrent, Current
<1>5. HeldIsCurrent' /\ OneAwaited'
  BY <1>1, CallsUntouched, Places DEF StoreChange
<1>6. ShownIsCurrent' /\ Updated'
  BY <1>1, <1>2 DEF StoreChange, ShownIsCurrent, SystemNames, Updated, EditorNames
<1>7. QED
  BY <1>3, <1>4, <1>5, <1>6 DEF IInv

LEMMA NoAssessmentKeeps ==
    ASSUME IInv, NoAssessment
    PROVE  IInv'
<1>1. run' \in Runs /\ run'.at = "results" /\ run.at = "top"
  BY DEF NoAssessment, IInv, TypeOK, Runs
<1>2. TypeOK'
  BY <1>1 DEF NoAssessment, Session, IInv, TypeOK
<1>3. HeldIsCurrent' /\ OneAwaited' /\ KeptIsCurrent' /\ Updated'
  BY <1>1, SessionUntouched, Places DEF NoAssessment, EditorNames
<1>4. ShownIsCurrent'
  BY <1>1 DEF ShownIsCurrent, SystemNames
<1>5. QED
  BY <1>2, <1>3, <1>4 DEF IInv

\* The first control is reached with a result, and that is of the inputs.
LEMMA RenderResultsKeeps ==
    ASSUME IInv, RenderResults
    PROVE  IInv'
<1>1. Systems[1] = "servicenow" /\ run.at = "results" /\ UNCHANGED <<Session, calls, torn>>
  BY DEF Systems, RenderResults
<1>2. /\ run' \in Runs
      /\ ShownIsCurrent'
      /\ run'.at \in {"end", "servicenow"}
  <2>1. CASE result = Nothing
    BY <1>1, <2>1 DEF RenderResults, IInv, TypeOK, Runs, ShownIsCurrent, SystemNames
  <2>2. CASE result # Nothing
    <3>1. /\ result \in Inputs /\ changeDoc \in STRING \cup {Nothing}
          /\ torn = 0 => result = inputs /\ changeDoc = inputs.change
      BY <1>1, <2>2, Places DEF IInv, TypeOK, KeptIsCurrent
    <3>2. [of |-> result, change |-> changeDoc] \in Shown
      BY <3>1 DEF Shown
    <3>3. run' = [run EXCEPT !.at = IF Configured = {} THEN "end" ELSE "servicenow",
                             !.shows = [of |-> result, change |-> changeDoc]]
      BY <1>1, <2>2 DEF RenderResults
    <3>4. /\ run' \in Runs /\ run'.shows = [of |-> result, change |-> changeDoc]
          /\ run'.at \in {"end", "servicenow"}
      BY <3>2, <3>3 DEF IInv, TypeOK, Runs, SystemNames
    <3>5. QED
      BY <1>1, <3>1, <3>2, <3>4 DEF ShownIsCurrent, Session, Current
  <2>3. QED
    BY <2>1, <2>2
<1>3. TypeOK'
  BY <1>2 DEF RenderResults, Session, IInv, TypeOK
<1>4. HeldIsCurrent' /\ OneAwaited' /\ KeptIsCurrent' /\ Updated'
  BY <1>1, <1>2, SessionUntouched, Places DEF EditorNames
<1>5. QED
  BY <1>2, <1>3, <1>4 DEF IInv

LEMMA AfterType == \A s \in SystemNames : After(s) \in {"jira", "end"}
BY DEF After, Systems, SystemNames

LEMMA ConfiguredType == Configured \subseteq SystemNames
BY DEF Configured

LEMMA UnconfiguredKeeps ==
    ASSUME IInv, Unconfigured
    PROVE  IInv'
<1>1. run.at \in SystemNames /\ run.at \notin Updating /\ run.at # "sending"
  BY ConfiguredType, Places DEF Unconfigured, SystemNames
<1>2. /\ run' \in Runs
      /\ run'.shows = run.shows
      /\ run'.at \in {"jira", "end"}
  BY <1>1, AfterType DEF Unconfigured, IInv, TypeOK, Runs, SystemNames
<1>3. TypeOK'
  BY <1>2 DEF Unconfigured, Session, IInv, TypeOK
<1>4. HeldIsCurrent' /\ OneAwaited' /\ KeptIsCurrent' /\ Updated'
  BY <1>1, <1>2, SessionUntouched, Places DEF Unconfigured, EditorNames
<1>5. ShownIsCurrent'
  BY <1>1, <1>2 DEF Unconfigured, Session, IInv, ShownIsCurrent, Current
<1>6. QED
  BY <1>2, <1>3, <1>4, <1>5 DEF IInv

\* Drawing a control keeps the types of the page.
LEMMA DrawnType ==
    ASSUME IInv, NEW s \in SystemNames, Drawn(s)
    PROVE  page' \subseteq SystemNames /\ offered' \subseteq SystemNames
BY DEF Drawn, IInv, TypeOK

LEMMA RenderPushControlKeeps ==
    ASSUME IInv, RenderPushControl
    PROVE  IInv'
<1>1. run.at \in SystemNames /\ run.at \notin Updating /\ run.at # "sending"
  BY ConfiguredType, Places DEF RenderPushControl, SystemNames
<1>2. /\ run' \in Runs
      /\ run'.shows = run.shows
      /\ run'.at \in {"jira", "end"}
  BY <1>1, AfterType DEF RenderPushControl, IInv, TypeOK, Runs, SystemNames
<1>3. TypeOK'
  BY <1>1, <1>2, DrawnType DEF RenderPushControl, Session, IInv, TypeOK
<1>4. HeldIsCurrent' /\ OneAwaited' /\ KeptIsCurrent' /\ Updated'
  BY <1>1, <1>2, SessionUntouched, Places DEF RenderPushControl, EditorNames
<1>5. ShownIsCurrent'
  BY <1>1, <1>2 DEF RenderPushControl, Session, IInv, ShownIsCurrent, Current
<1>6. QED
  BY <1>2, <1>3, <1>4, <1>5 DEF IInv

\* An outcome is of what the run shows.
LEMMA OutcomeType ==
    ASSUME NEW shows, shows.of \in Inputs, shows.change \in STRING \cup {Nothing}
    PROVE  /\ Outcome(shows) \in Outcomes
           /\ Outcome(shows).of = shows.of /\ Outcome(shows).change = shows.change
BY DEF Outcome, Outcomes

LEMMA RemindToConfirmKeeps ==
    ASSUME IInv, RemindToConfirm
    PROVE  IInv'
<1>1. run.at \in SystemNames /\ run.at \notin Updating /\ run.at # "sending"
  BY ConfiguredType, Places DEF RemindToConfirm, SystemNames
<1>2. run.shows \in Shown /\ (torn = 0 => Current(run.shows))
  BY <1>1 DEF IInv, ShownIsCurrent
<1>3. Outcome(run.shows) \in Outcomes /\ (torn = 0 => Current(Outcome(run.shows)))
  BY <1>2, OutcomeType DEF Shown, Current
<1>4. /\ run' \in Runs
      /\ run'.shows = run.shows
      /\ run'.at \in {"jira", "end"}
  BY <1>1, AfterType DEF RemindToConfirm, IInv, TypeOK, Runs, SystemNames
<1>5. statuses' \in [SystemNames -> Outcomes \cup {Nothing}]
  BY <1>1, <1>3 DEF RemindToConfirm, IInv, TypeOK
<1>6. TypeOK'
  BY <1>1, <1>4, <1>5, DrawnType DEF RemindToConfirm, IInv, TypeOK
<1>7. KeptIsCurrent'
  BY <1>1, <1>3, <1>4, Places DEF RemindToConfirm, IInv, TypeOK, KeptIsCurrent, Current
<1>8. HeldIsCurrent' /\ OneAwaited'
  BY <1>1, CallsUntouched, Places DEF RemindToConfirm
<1>9. ShownIsCurrent' /\ Updated'
  BY <1>2, <1>4 DEF RemindToConfirm, ShownIsCurrent, Current, Updated, EditorNames
<1>10. QED
  BY <1>6, <1>7, <1>8, <1>9 DEF IInv

\* The call is made for the inputs, and the run waits for it alone.
LEMMA HandlePushKeeps ==
    ASSUME IInv, HandlePush
    PROVE  IInv'
<1>1. run.at \in SystemNames /\ run.at \notin Updating /\ run.at # "sending"
  BY ConfiguredType, Places DEF HandlePush, SystemNames
<1>2. run.shows \in Shown /\ (torn = 0 => Current(run.shows))
  BY <1>1 DEF IInv, ShownIsCurrent
<1>3. PICK new \in DOMAIN calls :
            /\ calls[new] = Nothing
            /\ calls' = [calls EXCEPT ![new] =
                   [system |-> run.at, of |-> run.shows.of, change |-> run.shows.change,
                    held |-> TRUE, ofRun |-> TRUE]]
  BY DEF HandlePush, Called
<1>4. [system |-> run.at, of |-> run.shows.of, change |-> run.shows.change,
       held |-> TRUE, ofRun |-> TRUE] \in Calls
  BY <1>1, <1>2 DEF Calls, Shown
<1>5. /\ run' \in Runs
      /\ run'.shows = run.shows
      /\ run'.at = "sending"
  BY <1>1 DEF HandlePush, IInv, TypeOK, Runs, SystemNames
<1>6. /\ calls' \in [1..MaxCalls -> Calls \cup {Nothing}]
      /\ new \in 1..MaxCalls
      /\ torn = 0 => Current(calls'[new])
      /\ \A c \in 1..MaxCalls : c # new => calls'[c] = calls[c]
  BY <1>2, <1>3, <1>4 DEF IInv, TypeOK, Current
<1>7. TypeOK'
  BY <1>1, <1>5, <1>6, DrawnType DEF HandlePush, Session, IInv, TypeOK
<1>8. KeptIsCurrent'
  BY <1>1, Places DEF HandlePush, Session, IInv, KeptIsCurrent, Current
<1>9. HeldIsCurrent'
  BY <1>1, <1>6, Places DEF HandlePush, Session, IInv, HeldIsCurrent, Current
<1>10. OneAwaited'
  BY <1>1, <1>5, <1>6 DEF IInv, OneAwaited
<1>11. ShownIsCurrent' /\ Updated'
  BY <1>2, <1>5 DEF HandlePush, Session, ShownIsCurrent, Current, Updated, EditorNames
<1>12. QED
  BY <1>7, <1>8, <1>9, <1>10, <1>11 DEF IInv

LEMMA FinishKeeps ==
    ASSUME IInv, Finish
    PROVE  IInv'
<1>1. run' \in Runs /\ run'.at = "idle" /\ run.at = "end"
  BY DEF Finish, Idle, Started, Runs
<1>2. /\ run.drawn \subseteq SystemNames
      /\ tick' \in [SystemNames -> BOOLEAN]
  BY DEF Finish, IInv, TypeOK, Runs
<1>3. TypeOK'
  BY <1>1, <1>2 DEF Finish, Session, IInv, TypeOK
<1>4. HeldIsCurrent' /\ OneAwaited' /\ KeptIsCurrent' /\ Updated'
  BY <1>1, SessionUntouched, Places DEF Finish, EditorNames
<1>5. ShownIsCurrent'
  BY <1>1 DEF ShownIsCurrent, SystemNames
<1>6. QED
  BY <1>3, <1>4, <1>5 DEF IInv

\* ------------------------------- answers -------------------------------

\* A call records its outcome only in a dictionary it still holds, and its run
\* goes on with what it showed before.
LEMMA ReturnKeeps ==
    ASSUME IInv, Return
    PROVE  IInv'
<1>1. PICK done \in DOMAIN calls :
            /\ calls[done] # Nothing
            /\ statuses' = Recorded(calls[done])
            /\ calls' = [calls EXCEPT ![done] = Nothing]
            /\ run' = IF calls[done].ofRun THEN [run EXCEPT !.at = After(calls[done].system)]
                      ELSE run
            /\ UNCHANGED <<env, inputs, result, changeDoc, tick, page, offered, torn>>
  BY DEF Return
<1>2. done \in 1..MaxCalls /\ calls[done] \in Calls
  BY <1>1 DEF IInv, TypeOK
<1>3. /\ Outcome(calls[done]) \in Outcomes
      /\ Current(calls[done]) => Current(Outcome(calls[done]))
  BY <1>2, OutcomeType DEF Calls, Current
<1>4. /\ run' \in Runs
      /\ run'.shows = run.shows
      /\ ~calls[done].ofRun => run' = run
      /\ calls[done].ofRun => run.at = "sending" /\ run'.at \in {"jira", "end"}
  <2>1. CASE calls[done].ofRun
    <3>1. run.at = "sending"
      BY <1>1, <1>2, <2>1 DEF IInv, OneAwaited
    <3>2. After(calls[done].system) \in {"jira", "end"}
      BY <1>2, AfterType DEF Calls
    <3>3. QED
      BY <1>1, <2>1, <3>1, <3>2 DEF IInv, TypeOK, Runs, SystemNames
  <2>2. CASE ~calls[done].ofRun
    BY <1>1, <2>2 DEF IInv, TypeOK
  <2>3. QED
    BY <2>1, <2>2
<1>5. run'.at \in Updating <=> run.at \in Updating
  BY <1>4, Places
<1>6. run'.at \in Callback <=> run.at \in Callback
  BY <1>4, Places
<1>7. /\ statuses' \in [SystemNames -> Outcomes \cup {Nothing}]
      /\ torn = 0 /\ run.at \notin Callback =>
            \A s \in SystemNames : statuses'[s] # Nothing => Current(statuses'[s])
  <2>1. CASE calls[done].held
    <3>1. calls[done].system \in SystemNames
      BY <1>2 DEF Calls
    <3>2. torn = 0 /\ run.at \notin Callback => Current(Outcome(calls[done]))
      BY <1>1, <1>2, <1>3, <2>1 DEF IInv, HeldIsCurrent
    <3>3. statuses' = [statuses EXCEPT ![calls[done].system] = Outcome(calls[done])]
      BY <1>1, <2>1 DEF Recorded
    <3>4. QED
      BY <1>3, <3>1, <3>2, <3>3 DEF IInv, TypeOK, KeptIsCurrent
  <2>2. CASE ~calls[done].held
    BY <1>1, <2>2 DEF Recorded, IInv, TypeOK, KeptIsCurrent
  <2>3. QED
    BY <2>1, <2>2
<1>8. /\ calls' \in [1..MaxCalls -> Calls \cup {Nothing}]
      /\ calls'[done] = Nothing
      /\ \A c \in 1..MaxCalls : c # done => calls'[c] = calls[c]
  BY <1>1, <1>2 DEF IInv, TypeOK
<1>9. TypeOK'
  BY <1>1, <1>4, <1>7, <1>8 DEF IInv, TypeOK
<1>10. KeptIsCurrent'
  BY <1>1, <1>5, <1>6, <1>7 DEF IInv, KeptIsCurrent, Current
<1>11. HeldIsCurrent'
  BY <1>1, <1>6, <1>8 DEF IInv, HeldIsCurrent, Current
<1>12. OneAwaited'
  BY <1>1, <1>2, <1>4, <1>8 DEF IInv, OneAwaited
<1>13. ShownIsCurrent'
  BY <1>1, <1>4, Places DEF IInv, ShownIsCurrent, Current
<1>14. Updated'
  BY <1>1, <1>4 DEF IInv, Updated, EditorNames
<1>15. QED
  BY <1>9, <1>10, <1>11, <1>12, <1>13, <1>14 DEF IInv

\* ------------------------------- theorems ------------------------------

LEMMA StepKeeps ==
    ASSUME IInv, [Next]_vars
    PROVE  IInv'
<1>1. CASE Event
  BY <1>1, EventKeeps
<1>2. CASE Script
  BY <1>2, FillInKeeps, PopResultKeeps, PopStatusKeeps, RunAssessmentKeeps, StoreChangeKeeps, NoAssessmentKeeps, RenderResultsKeeps,
     UnconfiguredKeeps, RenderPushControlKeeps, RemindToConfirmKeeps, HandlePushKeeps, FinishKeeps
     DEF Script
<1>3. CASE Return
  BY <1>3, ReturnKeeps
<1>4. CASE UNCHANGED vars
  BY <1>4 DEF vars, IInv, TypeOK, Updated, KeptIsCurrent, HeldIsCurrent, OneAwaited,
     ShownIsCurrent, Current
<1>5. QED
  BY <1>1, <1>2, <1>3, <1>4 DEF Next

\* The inductive invariant holds throughout every session of the page.
THEOREM Invariance == Spec => []IInv
<1>1. Init => IInv
  BY InitHolds
<1>2. IInv /\ [Next]_vars => IInv'
  BY StepKeeps
<1>3. QED
  BY <1>1, <1>2, PTL DEF Spec

\* Between two updates, the result on the page, its change document and the
\* outcomes shown under it are those of the inputs on the page: however runs
\* are stopped and pushes outlive them, and again once a callback or an
\* assessment has followed on one that was stopped half-way (_load_example,
\* _clear_result, _run_assessment, _handle_push).
THEOREM OutcomesBelong == Spec => []OutcomeIsOfResult
<1>1. IInv => OutcomeIsOfResult
  BY Places DEF IInv, KeptIsCurrent, OutcomeIsOfResult, Coherent, Current
<1>2. QED
  BY <1>1, Invariance, PTL

\* Only _handle_push, with the box ticked, makes a free slot a call.
LEMMA OnlyHandlePushCalls ==
    ASSUME IInv, [Next]_vars, NEW c \in DOMAIN calls, calls[c] = Nothing, calls'[c] # Nothing
    PROVE  HandlePush
<1>1. c \in 1..MaxCalls /\ DOMAIN calls = 1..MaxCalls
  BY DEF IInv, TypeOK
<1>2. Orphaned(Nothing) = Nothing /\ Detached(Nothing) = Nothing
  BY DEF Orphaned, Detached
<1>3. ~Event
  <2>1. ASSUME NEW place, NEW click, NEW example, Begin(place, click, example) PROVE FALSE
    BY <1>1, <1>2, <2>1 DEF Begin
  <2>2. QED
    BY <2>1 DEF Event, EditInput, LoadExample, Rerun, ClickRun, ClickSend, ClickOther, Toggle
<1>4. ~Return
  BY <1>1 DEF Return, IInv, TypeOK
<1>5. ~PopStatus
  BY <1>1, <1>2 DEF PopStatus
<1>6. calls' # calls
  OBVIOUS
<1>7. /\ ~FillIn /\ ~PopResult /\ ~RunAssessment /\ ~StoreChange /\ ~NoAssessment
      /\ ~RenderResults /\ ~Unconfigured /\ ~RenderPushControl /\ ~RemindToConfirm /\ ~Finish
      /\ ~UNCHANGED vars
  BY <1>6 DEF FillIn, PopResult, RunAssessment, StoreChange, NoAssessment, RenderResults,
     Unconfigured, RenderPushControl, RemindToConfirm, Finish, vars
<1>8. QED
  BY <1>3, <1>4, <1>5, <1>7 DEF Next, Script

\* No live call begins without the confirmation of its system in the run that
\* sends, however many callbacks and assessments were stopped half-way.  Unless
\* one was since the last that made all of its accesses, each call carries the
\* result and the change document of the inputs on the page, however many
\* pushes are in flight (_render_push_control, _handle_push).
THEOREM ConfirmedCallsOnly == Spec => NoUnconfirmedCall
<1>1. ASSUME IInv, [Next]_vars, NEW c \in DOMAIN calls, calls[c] = Nothing, calls'[c] # Nothing
      PROVE  /\ calls'[c].system \in Configured
             /\ tick[calls'[c].system]
             /\ torn = 0 => calls'[c].of = inputs /\ calls'[c].change = inputs.change
  <2>1. HandlePush
    BY <1>1, OnlyHandlePushCalls
  <2>2. run.at \in SystemNames /\ (torn = 0 => Current(run.shows))
    BY <1>1, <2>1, ConfiguredType DEF HandlePush, IInv, ShownIsCurrent
  <2>3. calls'[c] = [system |-> run.at, of |-> run.shows.of, change |-> run.shows.change,
                     held |-> TRUE, ofRun |-> TRUE]
    BY <1>1, <2>1 DEF HandlePush, Called, IInv, TypeOK
  <2>4. QED
    BY <2>1, <2>2, <2>3 DEF HandlePush, Current
<1>2. IInv /\ [Next]_vars =>
        [\A c \in DOMAIN calls :
             calls[c] = Nothing /\ calls'[c] # Nothing =>
                 /\ calls'[c].system \in Configured
                 /\ tick[calls'[c].system]
                 /\ torn = 0 => calls'[c].of = inputs /\ calls'[c].change = inputs.change]_vars
  BY <1>1
<1>3. QED
  BY <1>2, Invariance, PTL DEF Spec, NoUnconfirmedCall
===============================================================================
