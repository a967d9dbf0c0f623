-------------------------- MODULE CommandLine_proofs --------------------------
(***************************************************************************)
(* Theorems about CommandLine for all drafts, argument lists and clocks,   *)
(* and any number of runs.                                                 *)
(***************************************************************************)
EXTENDS CommandLine, SequenceTheorems, TLAPS

\* -------------------------- inductive invariant ------------------------

\* The stages from each point of the run on.
FromJira == {"jira", "search", "put", "post", "print"}
FromTicket == {"preview", "servicenow", "push"} \cup FromJira
FromGate == {"ticket"} \cup FromTicket
FromWrite == {"gate"} \cup FromGate
FromLoad == {"write"} \cup FromWrite

TypeOK ==
    /\ clock \in Int
    /\ draft \in Drafts
    /\ pc \in {"idle", "load"} \cup FromLoad
    /\ run \in [options : Options \cup {Nothing}, draft : Drafts \cup {Nothing},
                confirmed : SUBSET {"servicenow", "jira"}, done : SUBSET {"servicenow", "jira"}]
    /\ pc # "idle" => run.options \in Options /\ run.draft \in Drafts
    /\ exit \in {Nothing, 0, 1, 2}
    /\ files \in [Outputs -> Drafts \cup {Nothing}]
    /\ issues \in Seq([label : {Label(d) : d \in Drafts}, content : Drafts])

\* How far a run has got says what it has been allowed to.
Cleared ==
    /\ pc \in FromLoad =>
           ~(run.options.replay /\ Live(run.options)) /\ run.draft.disposition # "invalid"
    /\ pc \in FromGate => run.draft.disposition # "stop"

\* And what it has written.
Reported ==
    /\ pc \in FromWrite => \A o \in Range(Requested(run.options)) : files[o] = run.draft
    /\ pc \in FromTicket => (run.options.ticket => files["ticket"] = run.draft)
    /\ pc \in {"servicenow", "push"} => run.options.servicenow # "dry"
    /\ pc \in FromJira => (run.options.servicenow = "dry" => files["preview"] = run.draft)

\* And what it was told to push, and has pushed.
Pushed ==
    /\ pc \in {"load", "write", "gate", "ticket", "preview", "servicenow"} => run.confirmed = {}
    /\ pc = "push" => "servicenow" \in run.confirmed /\ run.options.servicenow = "live"
    /\ pc \in FromJira => ("servicenow" \in run.confirmed => servicenow = run.draft)
    /\ pc \in {"jira", "push"} => "jira" \notin run.confirmed
    /\ pc \in {"search", "put", "post"} => "jira" \in run.confirmed /\ run.options.jira
    /\ pc = "print" =>
           ("jira" \in run.confirmed => \E i \in DOMAIN issues : issues[i].content = run.draft)

\* A label names one issue, and none when one is about to be created.
Labelled ==
    /\ \A i \in DOMAIN issues : issues[i].label = Label(issues[i].content)
    /\ \A i, j \in DOMAIN issues : issues[i].label = issues[j].label => i = j
    /\ pc = "post" => \A i \in DOMAIN issues : issues[i].label # Label(run.draft)
    /\ pc = "put" => \E i \in DOMAIN issues : issues[i].label = Label(run.draft)

\* What is stored carries the trusted signature of what was signed, or names
\* another key.
Signed ==
    envelope # Nothing =>
        /\ envelope.signature = <<TrustedKey, signed>> \/ envelope.keyid = OtherKey
        /\ signed.generated \in Int

IInv == TypeOK /\ Cleared /\ Reported /\ Pushed /\ Labelled /\ Signed /\ ExitTellsAll

\* ------------------------------- outputs -------------------------------

\* The reports that are written one after another, before the gate.
Reports == {"report", "json", "html", "comment"}

\* The outputs asked for are reports, and all of them are written.
LEMMA RequestedOutputs ==
    ASSUME NEW o \in Options
    PROVE  /\ SubSeq(Requested(o), 1, Len(Requested(o))) = Requested(o)
           /\ Range(Requested(o)) \subseteq Reports
<1>1. Requested(o) \in Seq(Reports)
  <2>1. \A s, t \in Seq(Reports) : s \o t \in Seq(Reports)
    BY ConcatProperties
  <2>2. \A r \in Reports : <<r>> \in Seq(Reports)
    OBVIOUS
  <2>3. << >> \in Seq(Reports)
    OBVIOUS
  <2>4. /\ <<"report">> \in Seq(Reports) /\ <<"json">> \in Seq(Reports)
        /\ <<"html">> \in Seq(Reports) /\ <<"comment">> \in Seq(Reports)
    BY <2>2 DEF Reports
  <2>5. <<"report">> \o (IF o.json THEN <<"json">> ELSE <<>>) \in Seq(Reports)
    BY <2>1, <2>3, <2>4, Zenon
  <2>6. <<"report">> \o (IF o.json THEN <<"json">> ELSE <<>>)
                    \o (IF o.html THEN <<"html">> ELSE <<>>) \in Seq(Reports)
    BY <2>1, <2>3, <2>4, <2>5, Zenon
  <2>7. QED
    BY <2>1, <2>3, <2>4, <2>6, Zenon DEF Requested
<1>2. Range(Requested(o)) \subseteq Reports
  BY <1>1 DEF Range
<1>3. SubSeq(Requested(o), 1, Len(Requested(o))) = Requested(o)
  BY <1>1, SubSeqFull
<1>4. QED
  BY <1>2, <1>3

\* Writing the first n of the outputs leaves the rest.
LEMMA WrittenType ==
    ASSUME TypeOK, run.draft \in Drafts, NEW names, NEW n
    PROVE  Written(names, n) \in [Outputs -> Drafts \cup {Nothing}]
BY DEF TypeOK, Written

LEMMA UnwrittenType ==
    ASSUME NEW others \in [Outputs -> Drafts \cup {Nothing}], NEW name, Unwritten(name, others)
    PROVE  files' \in [Outputs -> Drafts \cup {Nothing}] /\ pc' = "idle" /\ exit' = 2
BY DEF Unwritten, Exit

\* ------------------------------- issues --------------------------------

\* Labels that name one issue each make the search exact.
LEMMA FoundIsExact ==
    ASSUME NEW label, issues \in Seq([label : {Label(d) : d \in Drafts}, content : Drafts]),
           \A i, j \in DOMAIN issues : issues[i].label = issues[j].label => i = j
    PROVE  /\ Found(label) = 0 => \A i \in DOMAIN issues : issues[i].label # label
           /\ Found(label) # 0 => Found(label) \in DOMAIN issues /\ issues[Found(label)].label = label
<1> DEFINE I == {i \in 1..Len(issues) : issues[i].label = label}
<1>1. Found(label) = IF I # {} THEN Max(I) ELSE 0
  BY DEF Found, SelectLastInSeq
<1>2. DOMAIN issues = 1..Len(issues)
  OBVIOUS
<1>3. CASE I = {}
  BY <1>1, <1>2, <1>3
<1>4. CASE I # {}
  <2>1. PICK i \in I : TRUE
    BY <1>4
  <2>2. I = {i}
    BY <1>2, <2>1
  <2>3. i \in 1..Len(issues) /\ i \in Nat /\ i # 0
    BY <2>1
  <2>4. Max(I) = i
    BY <2>2, <2>3 DEF Max
  <2>5. QED
    BY <1>1, <1>2, <1>4, <2>1, <2>3, <2>4
<1>5. QED
  BY <1>3, <1>4

\* What a POST leaves: nothing new, or one issue at the end.
LEMMA CreatedIssues ==
    ASSUME IInv, run.draft \in Drafts
    PROVE  /\ Created(0) = issues
           /\ Created(1) = Append(issues, Issue(run.draft))
BY DEF IInv, TypeOK, Created

\* What a POST leaves, applied or not.
LEMMA PostedIssues ==
    ASSUME IInv, Post
    PROVE  /\ issues' \in Seq([label : {Label(d) : d \in Drafts}, content : Drafts])
           /\ \A i \in DOMAIN issues' : issues'[i].label = Label(issues'[i].content)
           /\ \A i, j \in DOMAIN issues' : issues'[i].label = issues'[j].label => i = j
           /\ pc' # "idle" => \E i \in DOMAIN issues' : issues'[i].content = run.draft
<1> DEFINE S == [label : {Label(d) : d \in Drafts}, content : Drafts]
           new == Issue(run.draft)
<1>1. /\ pc = "post" /\ run.draft \in Drafts /\ issues \in Seq(S)
      /\ \A i \in DOMAIN issues : issues[i].label = Label(issues[i].content)
      /\ \A i, j \in DOMAIN issues : issues[i].label = issues[j].label => i = j
      /\ \A i \in DOMAIN issues : issues[i].label # Label(run.draft)
  BY DEF Post, IInv, TypeOK, Labelled
<1>2. new \in S /\ new.label = Label(run.draft) /\ new.content = run.draft
  BY <1>1 DEF Issue
<1>3. \/ issues' = issues /\ pc' = "idle"
      \/ issues' = Append(issues, new)
  <2>1. PICK n \in 0..1 : issues' = Created(n) /\ (n > 0 \/ pc' = "idle")
    BY DEF Post, Attempts, Exit
  <2>2. CASE n = 0
    BY <1>1, <2>1, <2>2, CreatedIssues
  <2>3. CASE n = 1
    BY <1>1, <2>1, <2>3, CreatedIssues
  <2>4. QED
    BY <2>1, <2>2, <2>3
<1> HIDE DEF S, new
<1>4. CASE issues' = Append(issues, new)
  <2>1. /\ issues' \in Seq(S) /\ Len(issues') = Len(issues) + 1
        /\ \A i \in 1..Len(issues) : issues'[i] = issues[i]
        /\ issues'[Len(issues) + 1] = new
    BY <1>1, <1>2, <1>4, AppendProperties
  <2>2. DOMAIN issues' = 1..(Len(issues) + 1) /\ DOMAIN issues = 1..Len(issues) /\ Len(issues) \in Nat
    BY <1>1, <2>1
  <2>3. \A i \in DOMAIN issues' : i \in DOMAIN issues \/ i = Len(issues) + 1
    BY <2>2
  <2>4. QED
    BY <1>1, <1>2, <2>1, <2>2, <2>3 DEF S
<1>5. QED
  BY <1>1, <1>3, <1>4 DEF S

\* What a PUT leaves: the issues, or the same with the content of one replaced.
LEMMA PutIssues ==
    ASSUME IInv, Put
    PROVE  /\ issues' \in Seq([label : {Label(d) : d \in Drafts}, content : Drafts])
           /\ \A i \in DOMAIN issues' : issues'[i].label = Label(issues'[i].content)
           /\ \A i, j \in DOMAIN issues' : issues'[i].label = issues'[j].label => i = j
           /\ pc' # "idle" => \E i \in DOMAIN issues' : issues'[i].content = run.draft
<1> DEFINE S == [label : {Label(d) : d \in Drafts}, content : Drafts]
           f == Found(Label(run.draft))
<1>1. /\ pc = "put" /\ run.draft \in Drafts /\ issues \in Seq(S)
      /\ \A i \in DOMAIN issues : issues[i].label = Label(issues[i].content)
      /\ \A i, j \in DOMAIN issues : issues[i].label = issues[j].label => i = j
      /\ \E i \in DOMAIN issues : issues[i].label = Label(run.draft)
  BY DEF Put, IInv, TypeOK, Labelled
<1>2. f \in DOMAIN issues /\ issues[f].label = Label(run.draft)
  BY <1>1, FoundIsExact
<1>3. \/ issues' = issues /\ pc' = "idle"
      \/ issues' = [issues EXCEPT ![f].content = run.draft]
  BY DEF Put, Exit
<1>4. \A s \in S : [s EXCEPT !.content = run.draft] \in S
  BY <1>1
<1> HIDE DEF f, S
<1>5. CASE issues' = [issues EXCEPT ![f].content = run.draft]
  <2>1. /\ DOMAIN issues' = DOMAIN issues
        /\ \A i \in DOMAIN issues : i # f => issues'[i] = issues[i]
        /\ issues'[f] = [issues[f] EXCEPT !.content = run.draft]
    BY <1>1, <1>2, <1>5
  <2>2. \A i \in DOMAIN issues : issues[i] \in S
    BY <1>1
  <2>3. issues'[f] \in S /\ issues'[f].label = Label(run.draft) /\ issues'[f].content = run.draft
    BY <1>4, <1>2, <2>1, <2>2 DEF S
  <2>4. \A i \in DOMAIN issues : issues'[i] \in S /\ issues'[i].label = issues[i].label
    BY <1>2, <2>1, <2>2, <2>3
  <2>5. issues' \in Seq(S)
    <3>1. Len(issues) \in Nat /\ DOMAIN issues = 1..Len(issues) /\ issues \in [1..Len(issues) -> S]
      BY <1>1
    <3>2. issues' \in [1..Len(issues) -> S]
      BY <1>5, <2>4, <3>1
    <3>3. QED
      BY <3>1, <3>2
  <2>6. \A i \in DOMAIN issues' : issues'[i].label = Label(issues'[i].content)
    BY <1>1, <2>1, <2>3
  <2>7. \A i, j \in DOMAIN issues' : issues'[i].label = issues'[j].label => i = j
    BY <1>1, <2>1, <2>4
  <2>8. \E i \in DOMAIN issues' : issues'[i].content = run.draft
    BY <1>2, <2>1, <2>3
  <2>9. QED
    BY <2>5, <2>6, <2>7, <2>8 DEF S
<1>6. QED
  BY <1>1, <1>3, <1>5 DEF S

\* -------------------------------- steps --------------------------------

\* A run that passes Load is no replay with a live push, and has usable inputs.
LEMMA LoadKeeps ==
    ASSUME IInv, Load
    PROVE  IInv'
<1>1. TypeOK'
  BY DEF IInv, Load, inputs, records, evidence, Goto, Exit, TypeOK, FromJira, FromTicket,
     FromGate, FromWrite, FromLoad
<1>2. Cleared'
  BY DEF IInv, Load, inputs, records, evidence, Goto, Exit, TypeOK, Cleared, Live, FromJira,
     FromTicket, FromGate, FromWrite, FromLoad
<1>3. Reported'
  BY DEF IInv, Load, inputs, records, evidence, Goto, Exit, TypeOK, Reported, FromJira,
     FromTicket, FromGate, FromWrite, FromLoad
<1>4. Pushed'
  BY DEF IInv, Load, inputs, records, evidence, Goto, Exit, TypeOK, Pushed, FromJira,
     FromTicket, FromGate, FromWrite, FromLoad
<1>5. Labelled'
  BY DEF IInv, Load, inputs, records, evidence, Goto, Exit, TypeOK, Labelled, FromJira,
     FromTicket, FromGate, FromWrite, FromLoad
<1>6. Signed'
  BY DEF IInv, Load, inputs, records, evidence, Goto, Exit, Signed
<1>7. ExitTellsAll'
  BY DEF IInv, Load, inputs, records, evidence, Goto, Exit, TypeOK, ExitTellsAll, FromJira,
     FromTicket, FromGate, FromWrite, FromLoad
<1>8. QED
  BY <1>1, <1>2, <1>3, <1>4, <1>5, <1>6, <1>7 DEF IInv

\* A run that passes the gate may continue under its policy.
LEMMA GateKeeps ==
    ASSUME IInv, Gate
    PROVE  IInv'
<1>1. TypeOK'
  BY DEF IInv, Gate, inputs, records, evidence, Goto, Exit, MayContinue, TypeOK, FromJira,
     FromTicket, FromGate, FromWrite, FromLoad
<1>2. Cleared'
  BY DEF IInv, Gate, inputs, records, evidence, Goto, Exit, MayContinue, TypeOK, Cleared, Live,
     FromJira, FromTicket, FromGate, FromWrite, FromLoad
<1>3. Reported'
  BY DEF IInv, Gate, inputs, records, evidence, Goto, Exit, MayContinue, TypeOK, Reported,
     FromJira, FromTicket, FromGate, FromWrite, FromLoad
<1>4. Pushed'
  BY DEF IInv, Gate, inputs, records, evidence, Goto, Exit, MayContinue, TypeOK, Pushed,
     FromJira, FromTicket, FromGate, FromWrite, FromLoad
<1>5. Labelled'
  BY DEF IInv, Gate, inputs, records, evidence, Goto, Exit, MayContinue, TypeOK, Labelled,
     FromJira, FromTicket, FromGate, FromWrite, FromLoad
<1>6. Signed'
  BY DEF IInv, Gate, inputs, records, evidence, Goto, Exit, MayContinue, Signed
<1>7. ExitTellsAll'
  BY DEF IInv, Gate, inputs, records, evidence, Goto, Exit, MayContinue, TypeOK, ExitTellsAll,
     FromJira, FromTicket, FromGate, FromWrite, FromLoad
<1>8. QED
  BY <1>1, <1>2, <1>3, <1>4, <1>5, <1>6, <1>7 DEF IInv

\* Only a live push is confirmed.
LEMMA AskServiceNowKeeps ==
    ASSUME IInv, AskServiceNow
    PROVE  IInv'
<1>1. TypeOK'
  BY DEF IInv, AskServiceNow, inputs, records, evidence, Goto, Exit, Confirm, TypeOK, FromJira,
     FromTicket, FromGate, FromWrite, FromLoad
<1>2. Cleared'
  BY DEF IInv, AskServiceNow, inputs, records, evidence, Goto, Exit, Confirm, TypeOK, Cleared,
     Live, FromJira, FromTicket, FromGate, FromWrite, FromLoad
<1>3. Reported'
  BY DEF IInv, AskServiceNow, inputs, records, evidence, Goto, Exit, Confirm, TypeOK, Reported,
     FromJira, FromTicket, FromGate, FromWrite, FromLoad
<1>4. Pushed'
  BY DEF IInv, AskServiceNow, inputs, records, evidence, Goto, Exit, Confirm, TypeOK, Pushed,
     FromJira, FromTicket, FromGate, FromWrite, FromLoad
<1>5. Labelled'
  BY DEF IInv, AskServiceNow, inputs, records, evidence, Goto, Exit, Confirm, TypeOK, Labelled,
     FromJira, FromTicket, FromGate, FromWrite, FromLoad
<1>6. Signed'
  BY DEF IInv, AskServiceNow, inputs, records, evidence, Goto, Exit, Confirm, Signed
<1>7. ExitTellsAll'
  BY DEF IInv, AskServiceNow, inputs, records, evidence, Goto, Exit, Confirm, TypeOK,
     ExitTellsAll, FromJira, FromTicket, FromGate, FromWrite, FromLoad
<1>8. QED
  BY <1>1, <1>2, <1>3, <1>4, <1>5, <1>6, <1>7 DEF IInv

\* Only a live push is confirmed.
LEMMA AskJiraKeeps ==
    ASSUME IInv, AskJira
    PROVE  IInv'
<1>1. TypeOK'
  BY DEF IInv, AskJira, inputs, records, evidence, Goto, Exit, Confirm, TypeOK, FromJira,
     FromTicket, FromGate, FromWrite, FromLoad
<1>2. Cleared'
  BY DEF IInv, AskJira, inputs, records, evidence, Goto, Exit, Confirm, TypeOK, Cleared, Live,
     FromJira, FromTicket, FromGate, FromWrite, FromLoad
<1>3. Reported'
  BY DEF IInv, AskJira, inputs, records, evidence, Goto, Exit, Confirm, TypeOK, Reported,
     FromJira, FromTicket, FromGate, FromWrite, FromLoad
<1>4. Pushed'
  BY DEF IInv, AskJira, inputs, records, evidence, Goto, Exit, Confirm, TypeOK, Pushed,
     FromJira, FromTicket, FromGate, FromWrite, FromLoad
<1>5. Labelled'
  BY DEF IInv, AskJira, inputs, records, evidence, Goto, Exit, Confirm, TypeOK, Labelled,
     FromJira, FromTicket, FromGate, FromWrite, FromLoad
<1>6. Signed'
  BY DEF IInv, AskJira, inputs, records, evidence, Goto, Exit, Confirm, Signed
<1>7. ExitTellsAll'
  BY DEF IInv, AskJira, inputs, records, evidence, Goto, Exit, Confirm, TypeOK, ExitTellsAll,
     FromJira, FromTicket, FromGate, FromWrite, FromLoad
<1>8. QED
  BY <1>1, <1>2, <1>3, <1>4, <1>5, <1>6, <1>7 DEF IInv

\* The preview is of the draft of the run.
LEMMA PreviewKeeps ==
    ASSUME IInv, Preview
    PROVE  IInv'
<1>1. TypeOK'
  BY DEF IInv, Preview, inputs, records, evidence, Goto, Exit, Unwritten, TypeOK, FromJira,
     FromTicket, FromGate, FromWrite, FromLoad
<1>2. Cleared'
  BY DEF IInv, Preview, inputs, records, evidence, Goto, Exit, Unwritten, TypeOK, Cleared, Live,
     FromJira, FromTicket, FromGate, FromWrite, FromLoad
<1>3. Reported'
    <2>1. CASE pc' = "idle"
    BY <2>1 DEF Reported, FromJira, FromTicket, FromGate, FromWrite
  <2>2. CASE pc' # "idle"
    <3>1. /\ pc = "preview" /\ run' = run /\ pc' = "jira"
          /\ files' = [files EXCEPT !["preview"] = run.draft]
      BY <2>2 DEF Preview, Unwritten, Goto, Exit
    <3>2. \A o \in Range(Requested(run.options)) : files'[o] = files[o]
      BY <3>1, RequestedOutputs DEF IInv, TypeOK, Reports
    <3>3. QED
      BY <3>1, <3>2 DEF IInv, TypeOK, Reported, Outputs, FromJira, FromTicket, FromGate, FromWrite
  <2>3. QED
    BY <2>1, <2>2
<1>4. Pushed'
  BY DEF IInv, Preview, inputs, records, evidence, Goto, Exit, Unwritten, TypeOK, Pushed,
     FromJira, FromTicket, FromGate, FromWrite, FromLoad
<1>5. Labelled'
  BY DEF IInv, Preview, inputs, records, evidence, Goto, Exit, Unwritten, TypeOK, Labelled,
     FromJira, FromTicket, FromGate, FromWrite, FromLoad
<1>6. Signed'
  BY DEF IInv, Preview, inputs, records, evidence, Goto, Exit, Unwritten, Signed
<1>7. ExitTellsAll'
  BY DEF IInv, Preview, inputs, records, evidence, Goto, Exit, Unwritten, TypeOK, ExitTellsAll,
     FromJira, FromTicket, FromGate, FromWrite, FromLoad
<1>8. QED
  BY <1>1, <1>2, <1>3, <1>4, <1>5, <1>6, <1>7 DEF IInv

\* The ticket is of the draft of the run.
LEMMA TicketKeeps ==
    ASSUME IInv, Ticket
    PROVE  IInv'
<1>1. TypeOK'
  BY DEF IInv, Ticket, inputs, records, evidence, Goto, Exit, Unwritten, TypeOK, FromJira,
     FromTicket, FromGate, FromWrite, FromLoad
<1>2. Cleared'
  BY DEF IInv, Ticket, inputs, records, evidence, Goto, Exit, Unwritten, TypeOK, Cleared, Live,
     FromJira, FromTicket, FromGate, FromWrite, FromLoad
<1>3. Reported'
    <2>1. CASE pc' = "idle"
    BY <2>1 DEF Reported, FromJira, FromTicket, FromGate, FromWrite
  <2>2. CASE pc' # "idle"
    <3>1. /\ pc = "ticket" /\ run' = run /\ pc' = (IF run.options.servicenow = "dry" THEN "preview" ELSE "servicenow")
          /\ files' = [files EXCEPT !["ticket"] = IF run.options.ticket THEN run.draft ELSE files["ticket"]]
      BY <2>2 DEF Ticket, Unwritten, Goto, Exit
    <3>2. \A o \in Range(Requested(run.options)) : files'[o] = files[o]
      BY <3>1, RequestedOutputs DEF IInv, TypeOK, Reports
    <3>3. QED
      BY <3>1, <3>2 DEF IInv, TypeOK, Reported, Outputs, FromJira, FromTicket, FromGate, FromWrite
  <2>3. QED
    BY <2>1, <2>2
<1>4. Pushed'
  BY DEF IInv, Ticket, inputs, records, evidence, Goto, Exit, Unwritten, TypeOK, Pushed,
     FromJira, FromTicket, FromGate, FromWrite, FromLoad
<1>5. Labelled'
  BY DEF IInv, Ticket, inputs, records, evidence, Goto, Exit, Unwritten, TypeOK, Labelled,
     FromJira, FromTicket, FromGate, FromWrite, FromLoad
<1>6. Signed'
  BY DEF IInv, Ticket, inputs, records, evidence, Goto, Exit, Unwritten, Signed
<1>7. ExitTellsAll'
  BY DEF IInv, Ticket, inputs, records, evidence, Goto, Exit, Unwritten, TypeOK, ExitTellsAll,
     FromJira, FromTicket, FromGate, FromWrite, FromLoad
<1>8. QED
  BY <1>1, <1>2, <1>3, <1>4, <1>5, <1>6, <1>7 DEF IInv

\* A run begins with nothing confirmed.
LEMMA StartKeeps ==
    ASSUME IInv, Start
    PROVE  IInv'
<1>1. TypeOK'
  BY DEF IInv, Start, inputs, records, evidence, Goto, Exit, Idle, TypeOK, FromJira, FromTicket,
     FromGate, FromWrite, FromLoad
<1>2. Cleared'
  BY DEF IInv, Start, inputs, records, evidence, Goto, Exit, Idle, TypeOK, Cleared, Live,
     FromJira, FromTicket, FromGate, FromWrite, FromLoad
<1>3. Reported'
  BY DEF IInv, Start, inputs, records, evidence, Goto, Exit, Idle, TypeOK, Reported, FromJira,
     FromTicket, FromGate, FromWrite, FromLoad
<1>4. Pushed'
  BY DEF IInv, Start, inputs, records, evidence, Goto, Exit, Idle, TypeOK, Pushed, FromJira,
     FromTicket, FromGate, FromWrite, FromLoad
<1>5. Labelled'
  BY DEF IInv, Start, inputs, records, evidence, Goto, Exit, Idle, TypeOK, Labelled, FromJira,
     FromTicket, FromGate, FromWrite, FromLoad
<1>6. Signed'
  BY DEF IInv, Start, inputs, records, evidence, Goto, Exit, Idle, Signed
<1>7. ExitTellsAll'
  BY DEF IInv, Start, inputs, records, evidence, Goto, Exit, Idle, TypeOK, ExitTellsAll,
     FromJira, FromTicket, FromGate, FromWrite, FromLoad
<1>8. QED
  BY <1>1, <1>2, <1>3, <1>4, <1>5, <1>6, <1>7 DEF IInv

\* The search tells whether there is an issue to update.
LEMMA SearchKeeps ==
    ASSUME IInv, Search
    PROVE  IInv'
<1>1. TypeOK'
  BY DEF IInv, Search, inputs, records, evidence, Goto, Exit, TypeOK, FromJira, FromTicket,
     FromGate, FromWrite, FromLoad
<1>2. Cleared'
  BY DEF IInv, Search, inputs, records, evidence, Goto, Exit, TypeOK, Cleared, Live, FromJira,
     FromTicket, FromGate, FromWrite, FromLoad
<1>3. Reported'
  BY DEF IInv, Search, inputs, records, evidence, Goto, Exit, TypeOK, Reported, FromJira,
     FromTicket, FromGate, FromWrite, FromLoad
<1>4. Pushed'
  BY DEF IInv, Search, inputs, records, evidence, Goto, Exit, TypeOK, Pushed, FromJira,
     FromTicket, FromGate, FromWrite, FromLoad
<1>5. Labelled'
  <2>1. pc = "search" /\ UNCHANGED <<issues, run>>
    BY DEF Search, records
  <2>2. pc' \in {"idle", "put", "post"}
    BY DEF Search, Goto, Exit
  <2>3. pc' = "put" => Found(Label(run.draft)) # 0
    BY DEF Search, Goto, Exit
  <2>4. pc' = "post" => Found(Label(run.draft)) = 0
    BY DEF Search, Goto, Exit
  <2>5. QED
    BY <2>1, <2>2, <2>3, <2>4, FoundIsExact DEF IInv, TypeOK, Labelled
<1>6. Signed'
  BY DEF IInv, Search, inputs, records, evidence, Goto, Exit, Signed
<1>7. ExitTellsAll'
  BY DEF IInv, Search, inputs, records, evidence, Goto, Exit, TypeOK, ExitTellsAll, FromJira,
     FromTicket, FromGate, FromWrite, FromLoad
<1>8. QED
  BY <1>1, <1>2, <1>3, <1>4, <1>5, <1>6, <1>7 DEF IInv

\* A push that succeeds stores the draft of the run.
LEMMA PushServiceNowKeeps ==
    ASSUME IInv, PushServiceNow
    PROVE  IInv'
<1>1. TypeOK'
  BY DEF IInv, PushServiceNow, inputs, records, evidence, Goto, Exit, Done, TypeOK, FromJira,
     FromTicket, FromGate, FromWrite, FromLoad
<1>2. Cleared'
  BY DEF IInv, PushServiceNow, inputs, records, evidence, Goto, Exit, Done, TypeOK, Cleared,
     Live, FromJira, FromTicket, FromGate, FromWrite, FromLoad
<1>3. Reported'
  BY DEF IInv, PushServiceNow, inputs, records, evidence, Goto, Exit, Done, TypeOK, Reported,
     FromJira, FromTicket, FromGate, FromWrite, FromLoad
<1>4. Pushed'
  BY DEF IInv, PushServiceNow, inputs, records, evidence, Goto, Exit, Done, TypeOK, Pushed,
     FromJira, FromTicket, FromGate, FromWrite, FromLoad
<1>5. Labelled'
  BY DEF IInv, PushServiceNow, inputs, records, evidence, Goto, Exit, Done, TypeOK, Labelled,
     FromJira, FromTicket, FromGate, FromWrite, FromLoad
<1>6. Signed'
  BY DEF IInv, PushServiceNow, inputs, records, evidence, Goto, Exit, Done, Signed
<1>7. ExitTellsAll'
  BY DEF IInv, PushServiceNow, inputs, records, evidence, Goto, Exit, Done, TypeOK,
     ExitTellsAll, FromJira, FromTicket, FromGate, FromWrite, FromLoad
<1>8. QED
  BY <1>1, <1>2, <1>3, <1>4, <1>5, <1>6, <1>7 DEF IInv

\* A run ends with the code of the level of its draft when all is done.
LEMMA FinishKeeps ==
    ASSUME IInv, Finish
    PROVE  IInv'
<1>1. TypeOK'
  BY DEF IInv, Finish, inputs, records, evidence, Goto, Exit, ExitCode, TypeOK, FromJira,
     FromTicket, FromGate, FromWrite, FromLoad
<1>2. Cleared'
  BY DEF IInv, Finish, inputs, records, evidence, Goto, Exit, ExitCode, TypeOK, Cleared, Live,
     FromJira, FromTicket, FromGate, FromWrite, FromLoad
<1>3. Reported'
  BY DEF IInv, Finish, inputs, records, evidence, Goto, Exit, ExitCode, TypeOK, Reported,
     FromJira, FromTicket, FromGate, FromWrite, FromLoad
<1>4. Pushed'
  BY DEF IInv, Finish, inputs, records, evidence, Goto, Exit, ExitCode, TypeOK, Pushed,
     FromJira, FromTicket, FromGate, FromWrite, FromLoad
<1>5. Labelled'
  BY DEF IInv, Finish, inputs, records, evidence, Goto, Exit, ExitCode, TypeOK, Labelled,
     FromJira, FromTicket, FromGate, FromWrite, FromLoad
<1>6. Signed'
  BY DEF IInv, Finish, inputs, records, evidence, Goto, Exit, ExitCode, Signed
<1>7. ExitTellsAll'
  <2>1. /\ pc = "print" /\ pc' = "idle" /\ exit' = IF run.draft.level = "CRITICAL" THEN 1 ELSE 0
        /\ UNCHANGED <<run, files, servicenow, issues>>
    BY DEF Finish, Exit, ExitCode, records
  <2>2. pc \in FromWrite /\ pc \in FromTicket /\ pc \in FromJira
    BY <2>1 DEF FromJira, FromTicket, FromGate, FromWrite
  <2>3. /\ \A o \in Range(Requested(run.options)) : files[o] = run.draft
        /\ run.options.ticket => files["ticket"] = run.draft
        /\ run.options.servicenow = "dry" => files["preview"] = run.draft
    BY <2>2 DEF IInv, Reported
  <2>4. /\ "servicenow" \in run.confirmed => servicenow = run.draft
        /\ "jira" \in run.confirmed => \E i \in DOMAIN issues : issues[i].content = run.draft
    BY <2>1, <2>2 DEF IInv, Pushed
  <2>5. exit' = 1 <=> run'.draft.level = "CRITICAL"
    BY <2>1
  <2>6. QED
    BY <2>1, <2>3, <2>4, <2>5 DEF ExitTellsAll
<1>8. QED
  BY <1>1, <1>2, <1>3, <1>4, <1>5, <1>6, <1>7 DEF IInv

\* What is edited or passes between runs is in no run.
LEMMA WorldKeeps ==
    ASSUME IInv, Edit \/ Tick
    PROVE  IInv'
<1>1. UNCHANGED <<runs, pc, run, exit, files, servicenow, issues, signed, envelope>>
  BY DEF Edit, Tick, records, evidence
<1>2. draft' \in Drafts /\ clock' \in Int
  BY DEF Edit, Tick, IInv, TypeOK
<1>3. TypeOK'
  BY <1>1, <1>2 DEF IInv, TypeOK
<1>4. Cleared' /\ Reported' /\ Pushed' /\ Labelled' /\ Signed' /\ ExitTellsAll'
  BY <1>1 DEF IInv, Cleared, Reported, Pushed, Labelled, Signed, ExitTellsAll
<1>5. QED
  BY <1>3, <1>4 DEF IInv

\* The reports asked for are of the draft of the run.
LEMMA WriteKeeps ==
    ASSUME IInv, Write
    PROVE  IInv'
<1>1. TypeOK'
  <2>1. pc = "write" /\ UNCHANGED <<inputs, run, records>> /\ run.draft \in Drafts
    BY DEF Write, IInv, TypeOK
  <2>2. \A names, n : Written(names, n) \in [Outputs -> Drafts \cup {Nothing}]
    BY <2>1, WrittenType DEF IInv
  <2>3. CASE \E n \in 1..Len(Requested(run.options)) :
               Unwritten(Requested(run.options)[n], Written(Requested(run.options), n - 1))
    <3>1. files' \in [Outputs -> Drafts \cup {Nothing}] /\ pc' = "idle" /\ exit' = 2
      BY <2>2, <2>3, UnwrittenType
    <3>2. QED
      BY <2>1, <3>1 DEF IInv, TypeOK, inputs, records
  <2>4. CASE /\ files' = Written(Requested(run.options), Len(Requested(run.options)))
             /\ Goto("gate")
    BY <2>1, <2>2, <2>4 DEF IInv, TypeOK, inputs, records, Goto, FromLoad, FromWrite
  <2>5. QED
    BY <2>3, <2>4 DEF Write
<1>2. Cleared'
  BY DEF IInv, Write, inputs, records, evidence, Goto, Exit, Unwritten, TypeOK, Cleared, Live,
     FromJira, FromTicket, FromGate, FromWrite, FromLoad
<1>3. Reported'
  <2>1. CASE pc' = "idle"
    BY <2>1 DEF Reported, FromJira, FromTicket, FromGate, FromWrite
  <2>2. CASE pc' # "idle"
    <3>1. /\ pc = "write" /\ pc' = "gate" /\ run' = run
          /\ files' = Written(Requested(run.options), Len(Requested(run.options)))
      BY <2>2 DEF Write, Unwritten, Goto, Exit
    <3>2. run.options \in Options
      BY <3>1 DEF IInv, TypeOK
    <3>3. \A o \in Outputs : o \in Range(Requested(run.options)) => files'[o] = run.draft
      BY <3>1, <3>2, RequestedOutputs DEF Written
    <3>4. \A o \in Range(Requested(run.options)) : files'[o] = run.draft
      BY <3>2, <3>3, RequestedOutputs DEF Outputs, Reports
    <3>5. QED
      BY <3>1, <3>4 DEF Reported, FromJira, FromTicket
  <2>3. QED
    BY <2>1, <2>2
<1>4. Pushed'
  BY DEF IInv, Write, inputs, records, evidence, Goto, Exit, Unwritten, TypeOK, Pushed,
     FromJira, FromTicket, FromGate, FromWrite, FromLoad
<1>5. Labelled'
  BY DEF IInv, Write, inputs, records, evidence, Goto, Exit, Unwritten, TypeOK, Labelled,
     FromJira, FromTicket, FromGate, FromWrite, FromLoad
<1>6. Signed'
  BY DEF IInv, Write, inputs, records, evidence, Goto, Exit, Unwritten, Signed
<1>7. ExitTellsAll'
  BY DEF IInv, Write, inputs, records, evidence, Goto, Exit, Unwritten, TypeOK, ExitTellsAll,
     FromJira, FromTicket, FromGate, FromWrite, FromLoad
<1>8. QED
  BY <1>1, <1>2, <1>3, <1>4, <1>5, <1>6, <1>7 DEF IInv

\* A POST is sent once, and only when the label is free.
LEMMA PostKeeps ==
    ASSUME IInv, Post
    PROVE  IInv'
<1>1. TypeOK'
  BY PostedIssues DEF IInv, Post, inputs, records, Goto, Exit, Done, TypeOK, FromJira,
     FromTicket, FromGate, FromWrite, FromLoad
<1>2. Cleared'
  BY DEF IInv, Post, inputs, records, evidence, Goto, Exit, Done, Attempts, TypeOK, Cleared,
     Live, FromJira, FromTicket, FromGate, FromWrite, FromLoad
<1>3. Reported'
  BY DEF IInv, Post, inputs, records, evidence, Goto, Exit, Done, Attempts, TypeOK, Reported,
     FromJira, FromTicket, FromGate, FromWrite, FromLoad
<1>4. Pushed'
  <2>1. CASE pc' = "idle"
    BY <2>1 DEF Pushed, FromJira
  <2>2. CASE pc' # "idle"
    <3>1. pc = "post" /\ pc' = "print" /\ run'.confirmed = run.confirmed /\ run'.draft = run.draft /\ servicenow' = servicenow
      BY <2>2 DEF Post, Goto, Exit, Done, IInv, TypeOK
    <3>2. \E i \in DOMAIN issues' : issues'[i].content = run'.draft
      BY <2>2, <3>1, PostedIssues
    <3>3. QED
      BY <3>1, <3>2 DEF IInv, Pushed, FromJira
  <2>3. QED
    BY <2>1, <2>2
<1>5. Labelled'
  <2>1. pc' \in {"idle", "print"}
    BY DEF Post, Goto, Exit
  <2>2. QED
    BY <2>1, PostedIssues DEF Labelled
<1>6. Signed'
  BY DEF IInv, Post, inputs, records, evidence, Goto, Exit, Done, Attempts, Signed
<1>7. ExitTellsAll'
  BY DEF IInv, Post, inputs, records, evidence, Goto, Exit, Done, Attempts, TypeOK,
     ExitTellsAll, FromJira, FromTicket, FromGate, FromWrite, FromLoad
<1>8. QED
  BY <1>1, <1>2, <1>3, <1>4, <1>5, <1>6, <1>7 DEF IInv

\* A PUT replaces the content of the issue of the label.
LEMMA PutKeeps ==
    ASSUME IInv, Put
    PROVE  IInv'
<1>1. TypeOK'
  BY PutIssues DEF IInv, Put, inputs, records, Goto, Exit, Done, TypeOK, FromJira, FromTicket,
     FromGate, FromWrite, FromLoad
<1>2. Cleared'
  BY DEF IInv, Put, inputs, records, evidence, Goto, Exit, Done, TypeOK, Cleared, Live,
     FromJira, FromTicket, FromGate, FromWrite, FromLoad
<1>3. Reported'
  BY DEF IInv, Put, inputs, records, evidence, Goto, Exit, Done, TypeOK, Reported, FromJira,
     FromTicket, FromGate, FromWrite, FromLoad
<1>4. Pushed'
  <2>1. CASE pc' = "idle"
    BY <2>1 DEF Pushed, FromJira
  <2>2. CASE pc' # "idle"
    <3>1. pc = "put" /\ pc' = "print" /\ run'.confirmed = run.confirmed /\ run'.draft = run.draft /\ servicenow' = servicenow
      BY <2>2 DEF Put, Goto, Exit, Done, IInv, TypeOK
    <3>2. \E i \in DOMAIN issues' : issues'[i].content = run'.draft
      BY <2>2, <3>1, PutIssues
    <3>3. QED
      BY <3>1, <3>2 DEF IInv, Pushed, FromJira
  <2>3. QED
    BY <2>1, <2>2
<1>5. Labelled'
  <2>1. pc' \in {"idle", "print"}
    BY DEF Put, Goto, Exit
  <2>2. QED
    BY <2>1, PutIssues DEF Labelled
<1>6. Signed'
  BY DEF IInv, Put, inputs, records, evidence, Goto, Exit, Done, Signed
<1>7. ExitTellsAll'
  BY DEF IInv, Put, inputs, records, evidence, Goto, Exit, Done, TypeOK, ExitTellsAll, FromJira,
     FromTicket, FromGate, FromWrite, FromLoad
<1>8. QED
  BY <1>1, <1>2, <1>3, <1>4, <1>5, <1>6, <1>7 DEF IInv

\* What is generated is signed by the trusted key.
LEMMA GenerateKeeps ==
    ASSUME IInv, Generate
    PROVE  IInv'
<1>1. TypeOK'
  BY DEF IInv, Generate, inputs, records, evidence, Goto, Exit, Sign, Statement, TypeOK,
     FromJira, FromTicket, FromGate, FromWrite, FromLoad
<1>2. Cleared'
  BY DEF IInv, Generate, inputs, records, evidence, Goto, Exit, Sign, Statement, TypeOK,
     Cleared, Live, FromJira, FromTicket, FromGate, FromWrite, FromLoad
<1>3. Reported'
  BY DEF IInv, Generate, inputs, records, evidence, Goto, Exit, Sign, Statement, TypeOK,
     Reported, FromJira, FromTicket, FromGate, FromWrite, FromLoad
<1>4. Pushed'
  BY DEF IInv, Generate, inputs, records, evidence, Goto, Exit, Sign, Statement, TypeOK, Pushed,
     FromJira, FromTicket, FromGate, FromWrite, FromLoad
<1>5. Labelled'
  BY DEF IInv, Generate, inputs, records, evidence, Goto, Exit, Sign, Statement, TypeOK,
     Labelled, FromJira, FromTicket, FromGate, FromWrite, FromLoad
<1>6. Signed'
  <2>1. PICK ahead \in Skews :
               LET statement == Statement(files["json"], [policy |-> Policy, commit |-> Commit],
                                          [change |-> draft], clock + ahead)
               IN  signed' = statement /\ envelope' = Sign(statement, TrustedKey)
    BY DEF Generate
  <2>2. signed'.generated = clock + ahead /\ envelope'.signature = <<TrustedKey, signed'>>
    BY <2>1 DEF Statement, Sign
  <2>3. clock + ahead \in Int
    BY InputsAssumption DEF IInv, TypeOK
  <2>4. QED
    BY <2>2, <2>3 DEF Signed
<1>7. ExitTellsAll'
  BY DEF IInv, Generate, inputs, records, evidence, Goto, Exit, Sign, Statement, TypeOK,
     ExitTellsAll, FromJira, FromTicket, FromGate, FromWrite, FromLoad
<1>8. QED
  BY <1>1, <1>2, <1>3, <1>4, <1>5, <1>6, <1>7 DEF IInv

\* What is altered keeps the signature it had, or names another key.
LEMMA AlterKeeps ==
    ASSUME IInv, Alter
    PROVE  IInv'
<1>1. TypeOK'
  BY DEF IInv, Alter, inputs, records, evidence, Goto, Exit, Sign, TypeOK, FromJira, FromTicket,
     FromGate, FromWrite, FromLoad
<1>2. Cleared'
  BY DEF IInv, Alter, inputs, records, evidence, Goto, Exit, Sign, TypeOK, Cleared, Live,
     FromJira, FromTicket, FromGate, FromWrite, FromLoad
<1>3. Reported'
  BY DEF IInv, Alter, inputs, records, evidence, Goto, Exit, Sign, TypeOK, Reported, FromJira,
     FromTicket, FromGate, FromWrite, FromLoad
<1>4. Pushed'
  BY DEF IInv, Alter, inputs, records, evidence, Goto, Exit, Sign, TypeOK, Pushed, FromJira,
     FromTicket, FromGate, FromWrite, FromLoad
<1>5. Labelled'
  BY DEF IInv, Alter, inputs, records, evidence, Goto, Exit, Sign, TypeOK, Labelled, FromJira,
     FromTicket, FromGate, FromWrite, FromLoad
<1>6. Signed'
  <2>1. envelope = Sign(signed, TrustedKey) /\ signed' = signed /\ envelope # Nothing
    BY DEF Alter
  <2>2. /\ envelope.signature = <<TrustedKey, signed>>
        /\ envelope = [payload |-> signed, keyid |-> TrustedKey, signature |-> <<TrustedKey, signed>>]
    BY <2>1 DEF Sign
  <2>3. envelope'.signature = <<TrustedKey, signed>> \/ envelope'.keyid = OtherKey
    <3>1. ASSUME NEW d \in Drafts,
                 envelope' \in
                     {[envelope EXCEPT !.payload.assessment = d],
                      [envelope EXCEPT !.payload.assessment = d, !.payload.digest = d],
                      [envelope EXCEPT !.payload.inputs = [change |-> d]],
                      Sign([signed EXCEPT !.assessment = d, !.digest = d], OtherKey)}
          PROVE  envelope'.signature = <<TrustedKey, signed>> \/ envelope'.keyid = OtherKey
      <4>1. CASE envelope' = [envelope EXCEPT !.payload.assessment = d]
        BY <2>2, <4>1
      <4>2. CASE envelope' = [envelope EXCEPT !.payload.assessment = d, !.payload.digest = d]
        BY <2>2, <4>2
      <4>3. CASE envelope' = [envelope EXCEPT !.payload.inputs = [change |-> d]]
        BY <2>2, <4>3
      <4>4. CASE envelope' = Sign([signed EXCEPT !.assessment = d, !.digest = d], OtherKey)
        BY <4>4 DEF Sign
      <4>5. QED
        BY <3>1, <4>1, <4>2, <4>3, <4>4
    <3>2. CASE envelope' \in {[envelope EXCEPT !.keyid = OtherKey],
                              [envelope EXCEPT !.payload.generated = clock]}
      BY <2>2, <3>2
    <3>3. QED
      BY <3>1, <3>2 DEF Alter
  <2>4. QED
    BY <2>1, <2>3 DEF IInv, Signed
<1>7. ExitTellsAll'
  BY DEF IInv, Alter, inputs, records, evidence, Goto, Exit, Sign, TypeOK, ExitTellsAll,
     FromJira, FromTicket, FromGate, FromWrite, FromLoad
<1>8. QED
  BY <1>1, <1>2, <1>3, <1>4, <1>5, <1>6, <1>7 DEF IInv

\* ------------------------------- theorems ------------------------------

LEMMA InitHolds == Init => IInv
<1> SUFFICES ASSUME Init PROVE IInv
  OBVIOUS
<1>1. TypeOK
  BY DEF Init, Idle, TypeOK
<1>2. Cleared /\ Reported /\ Pushed /\ Labelled
  BY DEF Init, Cleared, Reported, Pushed, Labelled, FromLoad, FromWrite, FromGate, FromTicket,
     FromJira
<1>3. Signed /\ ExitTellsAll
  BY NamesAssumption DEF Init, Signed, ExitTellsAll
<1>4. QED
  BY <1>1, <1>2, <1>3 DEF IInv

LEMMA StepKeeps ==
    ASSUME IInv, [Next]_vars
    PROVE  IInv'
<1>1. CASE Start \/ Load \/ Write \/ Gate \/ Ticket \/ Preview
  BY <1>1, StartKeeps, LoadKeeps, WriteKeeps, GateKeeps, TicketKeeps, PreviewKeeps
<1>2. CASE AskServiceNow \/ PushServiceNow \/ AskJira \/ Search \/ Post \/ Put \/ Finish
  BY <1>2, AskServiceNowKeeps, PushServiceNowKeeps, AskJiraKeeps, SearchKeeps, PostKeeps,
     PutKeeps, FinishKeeps
<1>3. CASE Edit \/ Tick \/ Generate \/ Alter
  BY <1>3, WorldKeeps, GenerateKeeps, AlterKeeps
<1>4. CASE UNCHANGED vars
  BY <1>4 DEF vars, IInv, TypeOK, Cleared, Reported, Pushed, Labelled, Signed, ExitTellsAll
<1>5. QED
  BY <1>1, <1>2, <1>3, <1>4 DEF Next

\* The inductive invariant holds throughout any number of runs.
THEOREM Invariance == Spec => []IInv
<1>1. Init => IInv
  BY InitHolds
<1>2. IInv /\ [Next]_vars => IInv'
  BY StepKeeps
<1>3. QED
  BY <1>1, <1>2, PTL DEF Spec

\* What reaches ServiceNow or Jira comes from a run that may send it: told to
\* do so live, confirmed, no replay, past the gate, its reports on disk (main).
THEOREM ClearedPushesOnly == Spec => PushedOnlyWhenCleared
<1>1. ASSUME IInv, [Next]_vars, records' # records
      PROVE  /\ ~run.options.replay /\ run.draft.disposition \in {"none", "continue_informative"}
             /\ servicenow' # servicenow =>
                    run.options.servicenow = "live" /\ "servicenow" \in run.confirmed
             /\ issues' # issues => run.options.jira /\ "jira" \in run.confirmed
             /\ \A o \in Range(Requested(run.options)) : files[o] = run.draft
             /\ run.options.ticket => files["ticket"] = run.draft
  <2>1. PushServiceNow \/ Post \/ Put
    BY <1>1 DEF Next, Start, Load, Write, Gate, Ticket, Preview, AskServiceNow, AskJira, Search,
       Finish, Edit, Tick, Generate, Alter, vars, records
  <2>2. /\ pc \in {"push", "post", "put"}
        /\ servicenow' # servicenow => pc = "push"
        /\ issues' # issues => pc \in {"post", "put"}
    BY <2>1 DEF PushServiceNow, Post, Put
  <2>3. pc \in FromLoad /\ pc \in FromWrite /\ pc \in FromGate /\ pc \in FromTicket
    BY <2>2 DEF FromLoad, FromWrite, FromGate, FromTicket, FromJira
  <2>4. run.options \in Options /\ run.draft \in Drafts
    BY <1>1, <2>2 DEF IInv, TypeOK
  <2>5. /\ pc = "push" => "servicenow" \in run.confirmed /\ run.options.servicenow = "live"
        /\ pc \in {"post", "put"} => "jira" \in run.confirmed /\ run.options.jira
    BY <1>1 DEF IInv, Pushed
  <2>6. Live(run.options)
    BY <2>2, <2>5 DEF Live
  <2>7. ~run.options.replay /\ run.draft.disposition \in {"none", "continue_informative"}
    BY <1>1, <2>3, <2>4, <2>6, InputsAssumption DEF IInv, Cleared
  <2>8. /\ \A o \in Range(Requested(run.options)) : files[o] = run.draft
        /\ run.options.ticket => files["ticket"] = run.draft
    BY <1>1, <2>3 DEF IInv, Reported
  <2>9. QED
    BY <2>2, <2>5, <2>7, <2>8
<1>2. IInv /\ [Next]_vars =>
        [records' # records =>
             /\ ~run.options.replay /\ run.draft.disposition \in {"none", "continue_informative"}
             /\ servicenow' # servicenow =>
                    run.options.servicenow = "live" /\ "servicenow" \in run.confirmed
             /\ issues' # issues => run.options.jira /\ "jira" \in run.confirmed
             /\ \A o \in Range(Requested(run.options)) : files[o] = run.draft
             /\ run.options.ticket => files["ticket"] = run.draft]_vars
  BY <1>1
<1>3. QED
  BY <1>2, Invariance, PTL DEF Spec, PushedOnlyWhenCleared

\* Exit code 0 or 1 tells that everything asked for was done (main).
THEOREM ExitIsTold == Spec => []ExitTellsAll
<1>1. IInv => ExitTellsAll
  BY DEF IInv
<1>2. QED
  BY <1>1, Invariance, PTL

\* Runs that do not overlap leave at most one issue of a change, however many
\* answers are lost (push_to_jira).
THEOREM AtMostOneIssue == Spec => []OneIssue
<1>1. ASSUME IInv, NEW i \in DOMAIN issues, NEW j \in DOMAIN issues,
             issues[i].content.id # NoId, issues[i].content.id = issues[j].content.id
      PROVE  i = j
  <2>1. issues[i].label = Label(issues[i].content) /\ issues[j].label = Label(issues[j].content)
    BY <1>1 DEF IInv, Labelled
  <2>2. Label(issues[i].content) = Label(issues[j].content)
    BY <1>1 DEF Label
  <2>3. QED
    BY <1>1, <2>1, <2>2 DEF IInv, Labelled
<1>2. IInv => OneIssue
  BY <1>1 DEF OneIssue
<1>3. QED
  BY <1>2, Invariance, PTL

\* Evidence that is accepted is what the trusted key signed, from the inputs
\* held, and within the age allowed (verify_evidence_v2).
THEOREM AcceptedIsAuthentic == Spec => []VerifiedIsAuthentic
<1>1. ASSUME IInv, envelope # Nothing, NEW pins \in Pins,
             Verify(envelope, TrustedKey, pins, clock)
      PROVE  /\ envelope.payload = signed
             /\ \A n \in DOMAIN pins.inputs : pins.inputs[n] = signed.inputs[n]
             /\ pins.age # NoAge => signed.generated \in (clock - pins.age)..(clock + MaxSkew)
  <2>1. envelope.keyid = TrustedKey /\ envelope.signature = <<TrustedKey, envelope.payload>>
    BY <1>1 DEF Verify, KeyIdentity, SignatureHolds
  <2>2. envelope.signature = <<TrustedKey, signed>> /\ signed.generated \in Int
    BY <1>1, <2>1, NamesAssumption DEF IInv, Signed
  <2>3. envelope.payload = signed
    BY <2>1, <2>2
  <2>4. \A n \in DOMAIN pins.inputs : pins.inputs[n] = signed.inputs[n]
    BY <1>1, <2>3 DEF Verify, InputsHold
  <2>5. ASSUME pins.age # NoAge
        PROVE  signed.generated \in (clock - pins.age)..(clock + MaxSkew)
    <3>1. pins.age \in Int /\ clock \in Int /\ MaxSkew \in Int
      BY <1>1, <2>5, InputsAssumption DEF Pins, IInv, TypeOK
    <3>2. -MaxSkew <= clock - signed.generated /\ clock - signed.generated <= pins.age
      BY <1>1, <2>3, <2>5 DEF Verify, Fresh
    <3>3. QED
      BY <2>2, <3>1, <3>2
  <2>6. QED
    BY <2>3, <2>4, <2>5
<1>2. IInv => VerifiedIsAuthentic
  BY <1>1 DEF VerifiedIsAuthentic
<1>3. QED
  BY <1>2, Invariance, PTL
===============================================================================
