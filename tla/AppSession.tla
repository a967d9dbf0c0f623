------------------------------ MODULE AppSession ------------------------------
(***************************************************************************)
(* One session of the web application (app.py): a script that runs from    *)
(* top to bottom after every event of the browser, on the state it keeps   *)
(* between two runs.                                                       *)
(*                                                                         *)
(* The script host (Streamlit) is external, and modelled as the script     *)
(* uses it: an event starts a new run at once, with the callback of the    *)
(* changed widget first; the run in progress is stopped at its next call   *)
(* into the host.  Every access to st.session_state is such a call, those  *)
(* of the callbacks included: an access is a step, and an event may come   *)
(* between two of them.  A live push makes no such call: the push of a     *)
(* stopped run goes on, and writes its outcome into the dictionary it took *)
(* before.  A widget that a whole run did not draw loses its state.        *)
(***************************************************************************)
EXTENDS Integers, FiniteSets, Sequences

CONSTANTS
    Environments,      \* the settings the process may be started with
    Defaults, Examples,\* the inputs of a new session, and those of the examples
    Edits,             \* [field -> the texts a user may enter]
    Broken,            \* the texts that are not YAML
    Unassessable,      \* the inputs assess_risk raises ValueError on
    MaxCalls,          \* live pushes in flight at a time
    MaxTorn,           \* updates stopped half-way, one after the other
    Nothing

\* The editors, in the order _load_example fills them in.
Editors == <<"services", "change", "terraform", "k8s">>
EditorNames == {"services", "change", "terraform", "k8s"}

Inputs == [EditorNames -> STRING]

ASSUME InputsAssumption ==
    /\ Defaults \in Inputs
    /\ Examples \subseteq Inputs
    /\ Edits \in [EditorNames -> SUBSET STRING]
    /\ MaxCalls \in Nat \ {0} /\ MaxTorn \in Nat

\* In the order their controls are drawn in.
Systems == <<"servicenow", "jira">>
SystemNames == {"servicenow", "jira"}

VARIABLES
    env,
    inputs, result, changeDoc, statuses,   \* st.session_state
    tick,        \* the confirmation checkbox of each system
    page,        \* the systems whose control is on the page
    offered,     \* those of them whose Send button is enabled on the page
    run,         \* the run in progress
    calls,       \* live pushes in flight
    torn         \* history: the callbacks and assessments that were stopped
                 \* half-way since one last made all of its accesses

vars == <<env, inputs, result, changeDoc, statuses, tick, page, offered, run, calls, torn>>

Session == <<inputs, result, changeDoc, statuses>>

(* ------------------------------- settings ------------------------------ *)

Missing(system) ==
    IF system = "servicenow"
    THEN ({"instance"} \ env) \cup (IF "token" \in env THEN {} ELSE {"user", "password"} \ env)
    ELSE {"base", "email", "api_token", "project"} \ env

Configured == {s \in SystemNames : Missing(s) = {}}

(* ------------------------------ assessment ----------------------------- *)

NoOutcome == [s \in SystemNames |-> Nothing]

\* The result is a function of the inputs: they stand for it.
Assess(i) ==
    IF i.services \in Broken \/ i.change \in Broken \/ i \in Unassessable
    THEN Nothing
    ELSE i

\* A run that begins at a place: of its callback, or at the top of main.
Started(place, click, example) ==
    [at |-> place, click |-> click, example |-> example, drawn |-> {}, shows |-> Nothing]

Idle == Started("idle", Nothing, Nothing)

\* The places between the first and the last of the accesses that belong
\* together: of a callback, and of a successful assessment.
Updating ==
    {"change", "terraform", "k8s", "pop_result", "pop_status"} \cup {"store_change", "drop_status"}

Init ==
    /\ env \in Environments
    /\ inputs = Defaults
    /\ result = Nothing /\ changeDoc = Nothing /\ statuses = NoOutcome
    /\ tick = [s \in SystemNames |-> FALSE]
    /\ page = {} /\ offered = {}
    /\ run = Idle
    /\ calls = [c \in 1..MaxCalls |-> Nothing]
    /\ torn = 0

(* -------------------------------- events ------------------------------- *)

\* The calls of the run that an event stops: their outcome stays with the
\* dictionary they hold, but the run does not go on when they return.
Orphaned(c) == IF c = Nothing THEN c ELSE [c EXCEPT !.ofRun = FALSE]

\* integration_status is popped: who holds the former dictionary writes into
\* one that nobody reads.
Detached(c) == IF c = Nothing THEN c ELSE [c EXCEPT !.held = FALSE]

\* A new run begins; the one in progress, if any, is stopped where it is.
Begin(place, click, example) ==
    /\ run' = Started(place, click, example)
    /\ calls' = [c \in DOMAIN calls |-> Orphaned(calls[c])]
    /\ torn' = IF run.at \in Updating THEN torn + 1 ELSE torn
    /\ torn' <= MaxTorn
    /\ UNCHANGED <<env, result, changeDoc, statuses, page, offered>>

\* The editor holds the new text when its callback begins.
EditInput ==
    \E field \in DOMAIN Edits : \E text \in Edits[field] \ {inputs[field]} :
        /\ inputs' = [inputs EXCEPT ![field] = text]
        /\ Begin("pop_result", Nothing, Nothing)
        /\ UNCHANGED tick

LoadExample ==
    \E example \in Examples :
        /\ Begin(Editors[1], Nothing, example)
        /\ UNCHANGED <<inputs, tick>>

\* Every other event: a button, or a widget that only makes the script run.
Rerun(click) == Begin("top", click, Nothing) /\ UNCHANGED inputs

ClickRun == Rerun("run") /\ UNCHANGED tick

\* The browser offers the button as it was last drawn, whatever the checkbox
\* has become since.
ClickSend == \E s \in offered : Rerun(s) /\ UNCHANGED tick

ClickOther == Rerun(Nothing) /\ UNCHANGED tick

Toggle ==
    \E s \in page :
        /\ tick' = [tick EXCEPT ![s] = ~ @]
        /\ Rerun(Nothing)

(* ------------------------------ callbacks ------------------------------ *)

Following(place) ==
    CASE place = "services"  -> "change"
      [] place = "change"    -> "terraform"
      [] place = "terraform" -> "k8s"
      [] place = "k8s"       -> "pop_result"

\* _load_example fills in one editor.
FillIn ==
    /\ run.at \in EditorNames
    /\ inputs' = [inputs EXCEPT ![run.at] = run.example[run.at]]
    /\ run' = [run EXCEPT !.at = Following(run.at)]
    /\ UNCHANGED <<env, result, changeDoc, statuses, tick, page, offered, calls, torn>>

\* _load_example and _clear_result end with the same two pops.
PopResult ==
    /\ run.at = "pop_result"
    /\ result' = Nothing
    /\ run' = [run EXCEPT !.at = "pop_status"]
    /\ UNCHANGED <<env, inputs, changeDoc, statuses, tick, page, offered, calls, torn>>

\* The pop of integration_status: the last access of a callback, and of a
\* successful assessment.
PopStatus ==
    /\ run.at \in {"pop_status", "drop_status"}
    /\ statuses' = NoOutcome
    /\ calls' = [c \in DOMAIN calls |-> Detached(calls[c])]
    /\ torn' = 0
    /\ run' = [run EXCEPT !.at = IF run.at = "pop_status" THEN "top" ELSE "results"]
    /\ UNCHANGED <<env, inputs, result, changeDoc, tick, page, offered>>

(* ------------------------------- one run ------------------------------- *)

\* main, until the results: the Run button assesses what the editors hold.
\* An error drops the result and leaves the outcome of the last push.
RunAssessment ==
    /\ run.at = "top"
    /\ run.click = "run"
    /\ result' = Assess(inputs)
    /\ run' = [run EXCEPT !.at = IF result' = Nothing THEN "results" ELSE "store_change"]
    /\ UNCHANGED <<env, inputs, changeDoc, statuses, tick, page, offered, calls, torn>>

\* A successful assessment goes on with the change document and PopStatus.
StoreChange ==
    /\ run.at = "store_change"
    /\ changeDoc' = inputs.change
    /\ run' = [run EXCEPT !.at = "drop_status"]
    /\ UNCHANGED <<env, inputs, result, statuses, tick, page, offered, calls, torn>>

NoAssessment ==
    /\ run.at = "top"
    /\ run.click # "run"
    /\ run' = [run EXCEPT !.at = "results"]
    /\ UNCHANGED <<env, Session, tick, page, offered, calls, torn>>

\* The results are drawn if there are any; nothing is offered to an
\* environment that configures neither system.
RenderResults ==
    /\ run.at = "results"
    /\ run' = [run EXCEPT
           !.at = IF result = Nothing \/ Configured = {} THEN "end" ELSE Systems[1],
           !.shows = IF result = Nothing THEN @ ELSE [of |-> result, change |-> changeDoc]]
    /\ UNCHANGED <<env, Session, tick, page, offered, calls, torn>>

After(system) == IF system = Systems[1] THEN Systems[2] ELSE "end"

Unconfigured ==
    /\ run.at \in SystemNames \ Configured
    /\ run' = [run EXCEPT !.at = After(run.at)]
    /\ UNCHANGED <<env, Session, tick, page, offered, calls, torn>>

\* The checkbox and the button of a configured system.
Drawn(system) ==
    /\ page' = page \cup {system}
    /\ offered' = IF tick[system] THEN offered \cup {system} ELSE offered \ {system}

RenderPushControl ==
    /\ run.at \in Configured
    /\ run.click # run.at
    /\ Drawn(run.at)
    /\ run' = [run EXCEPT !.at = After(run.at), !.drawn = @ \cup {run.at}]
    /\ UNCHANGED <<env, Session, tick, calls, torn>>

\* A reminder, a record or an error, for the result and the change document
\* that were sent or would have been: which of the three is not told apart.
Outcome(shows) == [of |-> shows.of, change |-> shows.change]

\* A click that finds the box unticked records a reminder.
RemindToConfirm ==
    /\ run.at \in Configured
    /\ run.click = run.at
    /\ ~ tick[run.at]
    /\ Drawn(run.at)
    /\ statuses' = [statuses EXCEPT ![run.at] = Outcome(run.shows)]
    /\ run' = [run EXCEPT !.at = After(run.at), !.drawn = @ \cup {run.at}]
    /\ UNCHANGED <<env, inputs, result, changeDoc, tick, calls, torn>>

\* The sender is called with what this run shows, in the first free slot.
Called(system) ==
    \E c \in DOMAIN calls :
        /\ calls[c] = Nothing
        /\ \A earlier \in 1..(c - 1) : calls[earlier] # Nothing
        /\ calls' = [calls EXCEPT ![c] =
               [system |-> system, of |-> run.shows.of, change |-> run.shows.change,
                held |-> TRUE, ofRun |-> TRUE]]

TrustingPush ==
    /\ run.at \in Configured
    /\ run.click = run.at
    /\ Drawn(run.at)
    /\ Called(run.at)
    /\ run' = [run EXCEPT !.at = "sending", !.drawn = @ \cup {run.at}]
    /\ UNCHANGED <<env, Session, tick, torn>>

\* _handle_push takes the dictionary of the outcomes and calls the sender.
HandlePush ==
    /\ run.at \in Configured
    /\ run.click = run.at
    /\ tick[run.at]
    /\ Drawn(run.at)
    /\ Called(run.at)
    /\ run' = [run EXCEPT !.at = "sending", !.drawn = @ \cup {run.at}]
    /\ UNCHANGED <<env, Session, tick, torn>>

RecordedAnywhere(call) == [statuses EXCEPT ![call.system] = Outcome(call)]

\* The outcome of a call, in the dictionary it holds.
Recorded(call) ==
    IF call.held THEN [statuses EXCEPT ![call.system] = Outcome(call)] ELSE statuses

\* The sender returns, or raises IntegrationError.
Return ==
    \E c \in DOMAIN calls :
        /\ calls[c] # Nothing
        /\ statuses' = Recorded(calls[c])
        /\ calls' = [calls EXCEPT ![c] = Nothing]
        /\ run' = IF calls[c].ofRun THEN [run EXCEPT !.at = After(calls[c].system)] ELSE run
        /\ UNCHANGED <<env, inputs, result, changeDoc, tick, page, offered, torn>>

\* The page holds what this run drew, and only drawn widgets keep a state.
Finish ==
    /\ run.at = "end"
    /\ page' = run.drawn
    /\ offered' = offered \cap run.drawn
    /\ tick' = [s \in SystemNames |-> tick[s] /\ s \in run.drawn]
    /\ run' = Idle
    /\ UNCHANGED <<env, Session, calls, torn>>

Event == EditInput \/ LoadExample \/ ClickRun \/ ClickSend \/ ClickOther \/ Toggle

Script ==
    \/ FillIn \/ PopResult \/ PopStatus
    \/ RunAssessment \/ StoreChange \/ NoAssessment \/ RenderResults
    \/ Unconfigured \/ RenderPushControl \/ RemindToConfirm \/ HandlePush
    \/ Finish

Next == Event \/ Script \/ Return

Spec == Init /\ [][Next]_vars

(* ------------------------------ properties ----------------------------- *)

\* The whole of what one assessment keeps: the result of the texts in the
\* editors, their change document, and outcomes of sending these very two.
Coherent ==
    result # Nothing =>
        /\ result = inputs
        /\ changeDoc = inputs.change
        /\ \A s \in SystemNames :
               statuses[s] # Nothing => statuses[s].of = result /\ statuses[s].change = changeDoc

\* Between two updates the session is coherent, and a push that outlives its
\* run never reports on the result of a later assessment: whatever runs are
\* stopped, and again after a callback or an assessment was stopped half-way,
\* as soon as the next of either has made its last access.
OutcomeIsOfResult == torn = 0 /\ run.at \notin Updating => Coherent

\* A live call begins only for a configured system whose box is ticked in the
\* very run that sends, whatever was stopped before: a button that is enabled
\* on the page but no longer confirmed makes no call.  It carries the result
\* and the change document of the inputs on the page, unless the session has
\* been incoherent since a callback or an assessment was stopped half-way.
NoUnconfirmedCall ==
    [][\A c \in DOMAIN calls :
           calls[c] = Nothing /\ calls'[c] # Nothing =>
               /\ calls'[c].system \in Configured
               /\ tick[calls'[c].system]
               /\ torn = 0 => calls'[c].of = inputs /\ calls'[c].change = inputs.change]_vars

=============================================================================
