--------------------------- MODULE ServiceNowPush ---------------------------
(***************************************************************************)
(* The v1 live push: push (preflightops/servicenow.py) over _http_request  *)
(* (preflightops/integrations.py) against the change_request table and its *)
(* attachments.                                                            *)
(*                                                                         *)
(* Every element of Pushes is one call of push.  Calls may overlap when    *)
(* Overlap holds; otherwise one starts after the other has ended.          *)
(*                                                                         *)
(* Covered: lookups by correlation id (with the former, title-based one)   *)
(* or by reference; creation, update, unchanged records; read-back; the    *)
(* second lookup; attachments; a write refused, answered by a proxy while  *)
(* it is still processed, applied but answered unreadably, timed out;      *)
(* retries; failing reads; dying processes; other editors; a rule of the   *)
(* instance that rewrites what is stored.                                  *)
(* Not covered: which fields a mapping fills (a payload is a model value)  *)
(* and how identities are computed from the manifest.                      *)
(***************************************************************************)
EXTENDS Integers, Sequences, FiniteSets

CONSTANTS
    Pushes,        \* calls of push
    CorrOf,        \* correlation_id of a push
    FormerOf,      \* legacy_correlation_id of a push
    ContentOf,     \* the payload of a push apart from its correlation id
    References,    \* change_references a push may be given; NoRecord is none
    AttachOf,      \* attach_evidence
    FileOf,        \* the evidence file name of a push: its semantic hash
    Correlations, Contents, Files,
    Overlap,       \* pushes may run at the same time
    Rewrites,      \* whether the instance rewrites stored contents
    Histories,     \* records and files the instance may hold before the first push
    Faults

NoRecord == 0
NoFile == 0
Nobody == "nobody"
Editor == "editor"
Edited == "edited"   \* contents no push asks for

FaultSpace == {"refused", "early", "broken", "read", "edit", "oversize"}

MaxAttempts == 3   \* _MAX_HTTP_ATTEMPTS

Record == [corr : Correlations, content : Contents \cup {Edited},
           by : Pushes \cup {Nobody, Editor},   \* who wrote it last
           creator : Pushes \cup {Nobody}]

ASSUME PushesAssumption ==
    /\ CorrOf \in [Pushes -> Correlations]
    /\ FormerOf \in [Pushes -> Correlations]
    /\ ContentOf \in [Pushes -> Contents]
    /\ References \subseteq Nat
    /\ AttachOf \in [Pushes -> BOOLEAN]
    /\ FileOf \in [Pushes -> Files]
    /\ Pushes \cap {Nobody, Editor} = {}
    /\ Edited \notin Contents

ASSUME InstanceAssumption ==
    /\ Overlap \in BOOLEAN
    /\ Rewrites \in SUBSET BOOLEAN
    /\ \A h \in Histories :
          /\ h.records \in Seq(Record)
          \* nothing of these pushes has been stored yet
          /\ \A i \in DOMAIN h.records :
                h.records[i].by \notin Pushes /\ h.records[i].creator = Nobody
          /\ h.files \in Seq([record : DOMAIN h.records, name : Files])
    /\ Faults \subseteq FaultSpace

VARIABLES
    records,    \* the change_request table: a sys_id is a position
    files,      \* the attachments: a sys_id is a position
    rewriting,  \* a rule of the instance changes what is stored
    wire,       \* writes sent and neither processed nor refused
    pc,
    ref,        \* change_reference
    target,     \* sys_id
    attempt,    \* attempt of the current write
    action,     \* created, updated or unchanged
    file        \* sys_id of the attachment

vars == <<records, files, rewriting, wire, pc, ref, target, attempt, action, file>>
table == <<records, files, rewriting>>

Ended == {"done", "failed"}
Waiting == {"posting", "patching", "uploading"}
Reading == {"lookup", "verify", "confirm", "find", "recheck"}
PCs == {"idle", "post", "patch", "upload"} \cup Reading \cup Waiting \cup Ended

Init ==
    /\ \E h \in Histories : records = h.records /\ files = h.files
    /\ rewriting \in Rewrites
    /\ wire = {}
    /\ pc = [p \in Pushes |-> "idle"]
    /\ ref = [p \in Pushes |-> NoRecord]
    /\ target = [p \in Pushes |-> NoRecord]
    /\ attempt = [p \in Pushes |-> 0]
    /\ action = [p \in Pushes |-> "none"]
    /\ file = [p \in Pushes |-> NoFile]

Move(p, label) == pc' = [pc EXCEPT ![p] = label]
Goto(p, label) == Move(p, label) /\ UNCHANGED ref
Local(p, label) == Goto(p, label) /\ UNCHANGED <<table, wire>>

-----------------------------------------------------------------------------
(* The instance *)

\* What a lookup selects: the record referred to, or those with either identity.
Matches(p) ==
    IF ref[p] # NoRecord THEN DOMAIN records \cap {ref[p]}
    ELSE {i \in DOMAIN records : records[i].corr \in {CorrOf[p], FormerOf[p]}}

Attached(p) ==
    {i \in DOMAIN files : files[i] = [record |-> target[p], name |-> FileOf[p]]}

Payload(p) == [corr |-> CorrOf[p], content |-> ContentOf[p]]

Holds(i, payload) ==
    records[i].corr = payload.corr /\ records[i].content = payload.content

\* What a write of push p stores in a record that creator has created.
Store(p, creator) ==
    [corr |-> Payload(p).corr, by |-> p, creator |-> creator,
     content |-> IF rewriting THEN Edited ELSE Payload(p).content]

Applied(m) ==
    /\ records' = CASE m.op = "posting"  -> Append(records, Store(m.push, m.push))
                    [] m.op = "patching" -> [records EXCEPT ![m.record] = Store(m.push, @.creator)]
                    [] OTHER             -> records
    /\ files' = IF m.op = "uploading"
                THEN Append(files, [record |-> m.record, name |-> FileOf[m.push]])
                ELSE files
    /\ wire' = wire \ {m}
    /\ UNCHANGED rewriting

Awaited(m) == pc[m.push] = m.op /\ attempt[m.push] = m.n

\* A write whose client has gone on or given up is processed after all.
LateWrite ==
    /\ \E m \in wire : ~Awaited(m) /\ Applied(m)
    /\ UNCHANGED <<pc, ref, target, attempt, action, file>>

Edit ==
    /\ "edit" \in Faults
    /\ \E i \in DOMAIN records :
          /\ records[i].content # Edited
          /\ records' = [records EXCEPT ![i].content = Edited, ![i].by = Editor]
    /\ UNCHANGED <<files, rewriting, wire, pc, ref, target, attempt, action, file>>

-----------------------------------------------------------------------------
(* The lookup and what it decides *)

Start(p) ==
    /\ pc[p] = "idle"
    /\ Overlap \/ \A q \in Pushes : pc[q] \in {"idle"} \cup Ended
    /\ \E i \in References : ref' = [ref EXCEPT ![p] = i]
    /\ Move(p, "lookup")
    /\ UNCHANGED <<table, wire>>
    /\ UNCHANGED <<target, attempt, action, file>>

LookupRefuses(p) ==
    /\ pc[p] = "lookup"
    /\ \/ Cardinality(Matches(p)) > 1
       \/ ref[p] # NoRecord /\ Matches(p) = {}
    /\ Local(p, "failed")
    /\ UNCHANGED <<target, attempt, action, file>>

\* _material_update_needed
LookupFinds(p) ==
    /\ pc[p] = "lookup"
    /\ \E i \in Matches(p) :
          /\ Matches(p) = {i}
          /\ target' = [target EXCEPT ![p] = i]
          /\ IF Holds(i, Payload(p))
             THEN Local(p, "verify") /\ action' = [action EXCEPT ![p] = "unchanged"]
             ELSE Local(p, "patch") /\ action' = [action EXCEPT ![p] = "updated"]
    /\ UNCHANGED <<attempt, file>>

LookupFindsNone(p) ==
    /\ pc[p] = "lookup"
    /\ ref[p] = NoRecord
    /\ Matches(p) = {}
    /\ Local(p, "post")
    /\ action' = [action EXCEPT ![p] = "created"]
    /\ UNCHANGED <<target, attempt, file>>

-----------------------------------------------------------------------------
(* Writes: _http_request *)

Wait(label) ==
    CASE label = "post" -> "posting" [] label = "patch" -> "patching" [] OTHER -> "uploading"

Send(p) ==
    /\ pc[p] \in {"post", "patch", "upload"}
    /\ attempt' = [attempt EXCEPT ![p] = @ + 1]
    /\ wire' = wire \cup {[push |-> p, op |-> Wait(pc[p]), record |-> target[p],
                           n |-> attempt[p] + 1]}
    /\ Goto(p, Wait(pc[p]))
    /\ UNCHANGED <<table, target, action, file>>

\* Bug: POST among the retryable methods.
MayRetryAny(p) == pc[p] \in Waiting /\ attempt[p] < MaxAttempts

\* Only an update is sent again: a POST creates.
MayRetry(p) == pc[p] = "patching" /\ attempt[p] < MaxAttempts

\* Bug: the attempts are counted from the start again.
RetryUncounted(p) ==
    IF pc[p] = "patching"
    THEN Goto(p, "patch") /\ attempt' = [attempt EXCEPT ![p] = 0]
    ELSE Goto(p, "failed") /\ attempt' = [attempt EXCEPT ![p] = 0]

Retry(p) ==
    IF MayRetry(p)
    THEN /\ Goto(p, CASE pc[p] = "patching" -> "patch" [] pc[p] = "posting" -> "post"
                      [] OTHER -> "upload")
         /\ UNCHANGED attempt
    ELSE Goto(p, "failed") /\ attempt' = [attempt EXCEPT ![p] = 0]

\* Answered with a record or an attachment.
Answered(p) ==
    /\ pc[p] \in Waiting
    /\ \E m \in wire : m.push = p /\ Awaited(m) /\ Applied(m)
    /\ CASE pc[p] = "posting"  -> /\ Goto(p, "verify")
                                  /\ target' = [target EXCEPT ![p] = Len(records')]
                                  /\ UNCHANGED file
         [] pc[p] = "patching" -> Goto(p, "verify") /\ UNCHANGED <<target, file>>
         [] OTHER              -> /\ Goto(p, "recheck")
                                  /\ file' = [file EXCEPT ![p] = Len(files')]
                                  /\ UNCHANGED target
    /\ attempt' = [attempt EXCEPT ![p] = 0]
    /\ UNCHANGED action

\* 429, 500, 502, 503, 504 or no connection.  After "early" the instance is
\* still processing the write that a proxy has given up on.
Refused(p) ==
    /\ pc[p] \in Waiting
    /\ \E m \in wire :
          /\ m.push = p /\ Awaited(m)
          /\ \/ "refused" \in Faults /\ wire' = wire \ {m}
             \/ "early" \in Faults /\ UNCHANGED wire
    /\ Retry(p)
    /\ UNCHANGED <<table, target, action, file>>

\* Any other status, an unreadable answer, a timeout of the answer, a dead
\* process: the push ends, with its write refused or not.
Broken(p) ==
    /\ "broken" \in Faults
    /\ pc[p] \in Waiting
    /\ \E m \in wire : m.push = p /\ Awaited(m) /\ wire' \in {wire, wire \ {m}}
    /\ Goto(p, "failed")
    /\ attempt' = [attempt EXCEPT ![p] = 0]
    /\ UNCHANGED <<table, target, action, file>>

-----------------------------------------------------------------------------
(* Read-back, second lookup, evidence *)

\* A read fails after its retries, its answer is invalid, or the process dies.
ReadFails(p) ==
    /\ "read" \in Faults
    /\ pc[p] \in Reading
    /\ Local(p, "failed")
    /\ UNCHANGED <<target, attempt, action, file>>

\* Bug: only the identity is compared.
VerifiedIdentity(p) == records[target[p]].corr = CorrOf[p]

\* _verify_record compares every field of the payload.
Verified(p) == Holds(target[p], Payload(p))

Verify(p) ==
    /\ pc[p] = "verify"
    /\ Local(p, IF Verified(p) THEN "confirm" ELSE "failed")
    /\ UNCHANGED <<target, attempt, action, file>>

\* Bug: any record of that identity will do.
UniqueAmong(p) == target[p] \in Matches(p)

Unique(p) == Matches(p) = {target[p]}

Confirm(p) ==
    /\ pc[p] = "confirm"
    /\ Local(p, IF ~Unique(p) THEN "failed" ELSE IF AttachOf[p] THEN "find" ELSE "done")
    /\ UNCHANGED <<target, attempt, action, file>>

FindFile(p) ==
    /\ pc[p] = "find"
    /\ \/ Attached(p) = {} /\ Local(p, "upload") /\ UNCHANGED file
       \/ \* more than 1 MiB of evidence
          /\ "oversize" \in Faults
          /\ Attached(p) = {} /\ Local(p, "failed") /\ UNCHANGED file
       \/ Cardinality(Attached(p)) > 1 /\ Local(p, "failed") /\ UNCHANGED file
       \/ \E i \in Attached(p) :
             /\ Attached(p) = {i}
             /\ Local(p, "done")
             /\ file' = [file EXCEPT ![p] = i]
    /\ UNCHANGED <<target, attempt, action>>

\* Bug: the upload's own answer is enough.
SoleFileTrusted(p) == file[p] \in Attached(p)

SoleFile(p) == Attached(p) = {file[p]}

Recheck(p) ==
    /\ pc[p] = "recheck"
    /\ Local(p, IF SoleFile(p) THEN "done" ELSE "failed")
    /\ UNCHANGED <<target, attempt, action, file>>

-----------------------------------------------------------------------------

Step(p) ==
    \/ LookupRefuses(p) \/ LookupFinds(p) \/ LookupFindsNone(p)
    \/ Send(p) \/ Answered(p) \/ Refused(p) \/ Broken(p) \/ ReadFails(p)
    \/ Verify(p) \/ Confirm(p) \/ FindFile(p) \/ Recheck(p)

Next == LateWrite \/ Edit \/ \E p \in Pushes : Start(p) \/ Step(p)

Spec == Init /\ [][Next]_vars

\* Every request has a timeout and every loop of the client is bounded.
FairSpec == Spec /\ \A p \in Pushes : WF_vars(Step(p))

-----------------------------------------------------------------------------
(* Properties *)

SameIdentity(p, q) == CorrOf[p] = CorrOf[q] /\ FormerOf[p] = FormerOf[q]

\* The read-back of push counts: a push that succeeded and made the last write
\* to its record finds its whole payload there.
SuccessIsStored ==
    \A p \in Pushes :
        pc[p] = "done" /\ records[target[p]].by = p => Holds(target[p], Payload(p))

\* The second lookup of push counts: whatever duplicates lost answers and
\* overlapping pushes leave in the table, all the pushes of one change that
\* succeed name the same record.
OneIdentity ==
    \A p, q \in Pushes :
        /\ pc[p] = "done" /\ pc[q] = "done"
        /\ ref[p] = NoRecord /\ ref[q] = NoRecord
        /\ SameIdentity(p, q)
        => target[p] = target[q]

\* The second attachment lookup counts: pushes that succeed with the same
\* evidence on the same record name the same attachment.
AttachedOnce ==
    \A p, q \in Pushes :
        /\ pc[p] = "done" /\ pc[q] = "done"
        /\ AttachOf[p] /\ AttachOf[q]
        /\ target[p] = target[q] /\ FileOf[p] = FileOf[q]
        => file[p] = file[q]

\* push, however often it is refused and retried and whatever is processed
\* late, creates at most one record.
CreatesAtMostOne ==
    \A i, j \in DOMAIN records :
        records[i].creator = records[j].creator /\ records[i].creator # Nobody => i = j

\* Every push that starts ends.
Termination == \A p \in Pushes : pc[p] # "idle" ~> pc[p] \in Ended

=============================================================================
