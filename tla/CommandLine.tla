----------------------------- MODULE CommandLine -----------------------------
(***************************************************************************)
(* Runs of the command line (cli.py) for one change, one after another:    *)
(* the files they write, the records they push into ServiceNow and Jira    *)
(* (integrations.py), and the evidence signed from the files afterwards    *)
(* (evidence_cli).                                                         *)
(*                                                                         *)
(* A draft [id, title, level, disposition] is the content of the input     *)
(* files with what they are assessed to; RiskEngine and GovernedChange     *)
(* model the assessment.  Any write of a file, any request and any prompt  *)
(* may fail.  The push into ServiceNow is one step here; ServiceNowPush    *)
(* models it.                                                              *)
(***************************************************************************)
EXTENDS Integers, Sequences, FiniteSets, SequencesExt, EvidenceEnvelope

CONSTANTS
    Drafts,
    Options,      \* the argument lists: [replay, json, html, comment, ticket, servicenow, jira]
    MaxRuns, MaxTime, Ages, Skews,
    Policy, Commit, TrustedKey, OtherKey,
    NoId, Nothing

ASSUME InputsAssumption ==
    /\ \A d \in Drafts : d.disposition \in {"none", "continue_informative", "stop", "invalid"}
    /\ Options \subseteq [replay : BOOLEAN, json : BOOLEAN, html : BOOLEAN, comment : BOOLEAN,
                          ticket : BOOLEAN, servicenow : {"off", "dry", "live"}, jira : BOOLEAN]
    /\ Ages \subseteq Int \cup {NoAge}
    /\ Skews \subseteq Int /\ MaxSkew \in Int

ASSUME NamesAssumption == TrustedKey # OtherKey /\ Nothing \notin {0, 1}

Outputs == {"report", "json", "html", "comment", "ticket", "preview"}

VARIABLES
    clock, draft, runs,
    pc,           \* the run's next stage, "idle" between runs
    run,          \* the run: [options, draft, confirmed, done]
    exit,         \* exit code of the last run
    files,        \* which draft each output file describes
    servicenow,   \* what the change record holds
    issues,       \* the Jira issues: [label, content]
    signed,       \* the statement the trusted key signed last
    envelope      \* the evidence as it is stored

vars == <<clock, draft, runs, pc, run, exit, files, servicenow, issues, signed, envelope>>

inputs == <<clock, draft, runs>>
evidence == <<signed, envelope>>
records == <<servicenow, issues>>

\* correlation_id: the id of the change, or else its title.
Label(d) == IF d.id # NoId THEN <<"id", d.id>> ELSE <<"title", d.title>>

(* ------------------------------- the run ------------------------------- *)

Idle == [options |-> Nothing, draft |-> Nothing, confirmed |-> {}, done |-> {}]

Init ==
    /\ clock = 0 /\ draft \in Drafts /\ runs = 0
    /\ pc = "idle" /\ run = Idle /\ exit = Nothing
    /\ files = [o \in Outputs |-> Nothing]
    /\ servicenow = Nothing /\ issues = <<>>
    /\ signed = Nothing /\ envelope = Nothing

Goto(stage) == pc' = stage /\ UNCHANGED exit

Exit(code) == pc' = "idle" /\ exit' = code

\* The files are loaded once; whatever is edited later is not in this run.
\* Evidence is signed after the last run.
Start ==
    /\ pc = "idle" /\ runs < MaxRuns /\ envelope = Nothing
    /\ runs' = runs + 1
    /\ \E o \in Options : run' = [Idle EXCEPT !.options = o, !.draft = draft]
    /\ Goto("load")
    /\ UNCHANGED <<clock, draft, files, records, evidence>>

Live(o) == o.jira \/ o.servicenow = "live"

\* A replay with a live integration and an unusable input end the run here.
Load ==
    /\ pc = "load"
    /\ IF (run.options.replay /\ Live(run.options)) \/ run.draft.disposition = "invalid"
       THEN Exit(2) ELSE Goto("write")
    /\ UNCHANGED <<inputs, run, files, records, evidence>>

Requested(o) ==
    <<"report">> \o (IF o.json THEN <<"json">> ELSE <<>>)
                 \o (IF o.html THEN <<"html">> ELSE <<>>)
                 \o (IF o.comment THEN <<"comment">> ELSE <<>>)

\* The outputs are written one after another, and the first that fails ends the run.
Written(names, n) ==
    [o \in Outputs |-> IF o \in Range(SubSeq(names, 1, n)) THEN run.draft ELSE files[o]]

\* A file that cannot be written keeps what it had, or is truncated.
Unwritten(name, others) == files' \in {others, [others EXCEPT ![name] = Nothing]} /\ Exit(2)

Write ==
    /\ pc = "write"
    /\ LET names == Requested(run.options) IN
       \/ \E n \in 1..Len(names) : Unwritten(names[n], Written(names, n - 1))
       \/ files' = Written(names, Len(names)) /\ Goto("gate")
    /\ UNCHANGED <<inputs, run, records, evidence>>

MayContinueUnlessInvalid(d) == d.disposition # "invalid"

MayContinue(d) == d.disposition # "stop"

Gate ==
    /\ pc = "gate"
    /\ IF MayContinue(run.draft) THEN Goto("ticket") ELSE Exit(2)
    /\ UNCHANGED <<inputs, run, files, records, evidence>>

\* The template, the mapping and the ticket file may each be unusable.
Ticket ==
    /\ pc = "ticket"
    /\ \/ run.options.ticket /\ Unwritten("ticket", files)
       \/ (run.options.jira \/ run.options.servicenow # "off") /\ Exit(2) /\ UNCHANGED files
       \/ /\ files' = [files EXCEPT !["ticket"] = IF run.options.ticket THEN run.draft ELSE @]
          /\ Goto(IF run.options.servicenow = "dry" THEN "preview" ELSE "servicenow")
    /\ UNCHANGED <<inputs, run, records, evidence>>

Preview ==
    /\ pc = "preview"
    /\ \/ Unwritten("preview", files)
       \/ files' = [files EXCEPT !["preview"] = run.draft] /\ Goto("jira")
    /\ UNCHANGED <<inputs, run, records, evidence>>

\* _confirm_push: --yes or an answer at the terminal; without one the push is
\* skipped and the run goes on.
Confirm(system) == run' = [run EXCEPT !.confirmed = @ \cup {system}]

Done(system) == run' = [run EXCEPT !.done = @ \cup {system}]

AskServiceNow ==
    /\ pc = "servicenow"
    /\ \/ run.options.servicenow = "live" /\ Confirm("servicenow") /\ Goto("push")
       \/ Goto("jira") /\ UNCHANGED run
    /\ UNCHANGED <<inputs, files, records, evidence>>

\* push_to_servicenow succeeds, or raises before or after the record was written.
PushServiceNow ==
    /\ pc = "push"
    /\ \/ servicenow' = run.draft /\ Done("servicenow") /\ Goto("jira")
       \/ servicenow' \in {servicenow, run.draft} /\ Exit(2) /\ UNCHANGED run
    /\ UNCHANGED <<inputs, files, issues, evidence>>

AskJira ==
    /\ pc = "jira"
    /\ \/ run.options.jira /\ Confirm("jira") /\ Goto("search")
       \/ Goto("print") /\ UNCHANGED run
    /\ UNCHANGED <<inputs, files, records, evidence>>

(* ----------------------------- push_to_jira ---------------------------- *)

\* The search is by label and newest first.
Found(label) == SelectLastInSeq(issues, LAMBDA i : i.label = label)

Issue(d) == [label |-> Label(d), content |-> d]

SearchOrSkip ==
    /\ pc = "search"
    /\ \/ Goto("print")
       \/ Goto(IF Found(Label(run.draft)) # 0 THEN "put" ELSE "post")
    /\ UNCHANGED <<inputs, run, files, records, evidence>>

\* The search is not answered, or what it found decides between PUT and POST.
Search ==
    /\ pc = "search"
    /\ \/ Exit(2)
       \/ Goto(IF Found(Label(run.draft)) # 0 THEN "put" ELSE "post")
    /\ UNCHANGED <<inputs, run, files, records, evidence>>

\* _http_request: a PUT is repeated and a POST is sent once.
AttemptsAll(method) == 3

Attempts(method) == IF method = "POST" THEN 1 ELSE 3

\* The issues after n of the attempts were applied.
Created(n) == issues \o [i \in 1..n |-> Issue(run.draft)]

Post ==
    /\ pc = "post"
    /\ \E n \in 0..Attempts("POST") :
           /\ issues' = Created(n)
           /\ \/ n > 0 /\ Done("jira") /\ Goto("print")
              \/ Exit(2) /\ UNCHANGED run
    /\ UNCHANGED <<inputs, files, servicenow, evidence>>

Put ==
    /\ pc = "put"
    /\ LET updated == [issues EXCEPT ![Found(Label(run.draft))].content = run.draft] IN
       \/ issues' = updated /\ Done("jira") /\ Goto("print")
       \/ issues' \in {issues, updated} /\ Exit(2) /\ UNCHANGED run
    /\ UNCHANGED <<inputs, files, servicenow, evidence>>

ExitCode(d) == IF d.level = "CRITICAL" THEN 1 ELSE 0

Finish ==
    /\ pc = "print"
    /\ Exit(ExitCode(run.draft))
    /\ UNCHANGED <<inputs, run, files, records, evidence>>

(* ----------------------- the world around the runs --------------------- *)

Edit ==
    /\ draft' \in Drafts \ {draft}
    /\ UNCHANGED <<clock, runs, pc, run, exit, files, records, evidence>>

Tick ==
    /\ clock < MaxTime /\ clock' = clock + 1 /\ envelope # Nothing
    /\ UNCHANGED <<draft, runs, pc, run, exit, files, records, evidence>>

\* evidence generate: the report as it is on disk, bound to the inputs as they
\* are now, on a clock that may be ahead.
Generate ==
    /\ pc = "idle" /\ envelope = Nothing /\ files["json"] # Nothing
    /\ \E ahead \in Skews :
           LET statement == Statement(files["json"], [policy |-> Policy, commit |-> Commit],
                                      [change |-> draft], clock + ahead) IN
           /\ signed' = statement
           /\ envelope' = Sign(statement, TrustedKey)
    /\ UNCHANGED <<inputs, pc, run, exit, files, records>>

\* The stored envelope is altered: its assessment, with its digest or
\* without, an input, its time, or its key, and then signed by that key.
Alter ==
    /\ envelope # Nothing /\ envelope = Sign(signed, TrustedKey)
    /\ \/ \E d \in Drafts : envelope' \in
              {[envelope EXCEPT !.payload.assessment = d],
               [envelope EXCEPT !.payload.assessment = d, !.payload.digest = d],
               [envelope EXCEPT !.payload.inputs = [change |-> d]],
               Sign([signed EXCEPT !.assessment = d, !.digest = d], OtherKey)}
       \/ envelope' \in {[envelope EXCEPT !.keyid = OtherKey],
                         [envelope EXCEPT !.payload.generated = clock]}
    /\ UNCHANGED <<inputs, pc, run, exit, files, records, signed>>

Next ==
    \/ Start \/ Load \/ Write \/ Gate \/ Ticket \/ Preview \/ AskServiceNow \/ PushServiceNow
    \/ AskJira \/ Search \/ Post \/ Put \/ Finish
    \/ Edit \/ Tick \/ Generate \/ Alter

Spec == Init /\ [][Next]_vars

(* ------------------------------ properties ----------------------------- *)

\* Nothing reaches a change-management system unless the run that sends it was
\* told to do so live and was answered, is no replay, may continue under its
\* policy, and has all its reports of that very draft on disk (cli.py:541).
PushedOnlyWhenCleared ==
    [][records' # records =>
        /\ ~run.options.replay /\ run.draft.disposition \in {"none", "continue_informative"}
        /\ servicenow' # servicenow =>
               run.options.servicenow = "live" /\ "servicenow" \in run.confirmed
        /\ issues' # issues => run.options.jira /\ "jira" \in run.confirmed
        /\ \A o \in Range(Requested(run.options)) : files[o] = run.draft
        /\ run.options.ticket => files["ticket"] = run.draft]_vars

\* Exit code 0 or 1 means that all was done: every output asked for describes
\* the draft assessed, every push that was confirmed is stored, and the code is
\* that of the draft's level (cli.py:679).
ExitTellsAll ==
    exit \in {0, 1} /\ pc = "idle" =>
        /\ \A o \in Range(Requested(run.options)) : files[o] = run.draft
        /\ run.options.ticket => files["ticket"] = run.draft
        /\ run.options.servicenow = "dry" => files["preview"] = run.draft
        /\ "servicenow" \in run.confirmed => servicenow = run.draft
        /\ "jira" \in run.confirmed => \E i \in DOMAIN issues : issues[i].content = run.draft
        /\ exit = 1 <=> run.draft.level = "CRITICAL"

\* Any number of runs for one change, edited in between, with answers lost and
\* requests refused, leave at most one issue (integrations.py:309), as long as
\* the runs do not overlap and the search sees what was created.
OneIssue == \A i, j \in DOMAIN issues :
    issues[i].content.id # NoId /\ issues[i].content.id = issues[j].content.id => i = j

\* Evidence that a verifier accepts is what the trusted key signed, was made
\* from the inputs the verifier holds, and is no older than it allows; nothing
\* that was altered since is accepted, whatever is pinned (evidence.py:351).
Pins == [claims : {<<>>, [commit |-> Commit, policy |-> Policy]},
         inputs : {<<>>} \cup {[change |-> d] : d \in Drafts},
         age : Ages]

VerifiedIsAuthentic ==
    envelope # Nothing =>
        \A pins \in Pins :
            Verify(envelope, TrustedKey, pins, clock) =>
                /\ envelope.payload = signed
                /\ \A n \in DOMAIN pins.inputs : pins.inputs[n] = signed.inputs[n]
                /\ pins.age # NoAge => signed.generated \in (clock - pins.age)..(clock + MaxSkew)
=============================================================================
