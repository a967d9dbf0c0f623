------------------------ MODULE ServiceNowDelivery ------------------------
(***************************************************************************)
(* ServiceNowEnterpriseAdapter.execute (preflightops/                      *)
(* servicenow_enterprise.py) against the Evidence Gateway and one Change.  *)
(*                                                                         *)
(* Every element of Runs is one call of execute.  Several runs may execute *)
(* one plan (an operator or a pipeline repeats it, or restarts after a     *)
(* crash), and several plans may share one delivery key: the key leaves    *)
(* expected_sys_mod_count out.  All enrich plans aim at the same Change.   *)
(*                                                                         *)
(* Covered: requests and replies lost, delayed past the client's timeout   *)
(* and processed late; refusals by a proxy; replies the adapter cannot     *)
(* read; DNS validation that fails before a send; other editors of the     *)
(* Change; a Change or model withdrawn; crashes; a raising event sink.     *)
(* Not covered: the contents of mapped fields and evidence (a plan is a    *)
(* model value), token contents, wall-clock time (the elapsed retry budget *)
(* may refuse any sleep).                                                  *)
(***************************************************************************)
EXTENDS Integers, Sequences, FiniteSets

CONSTANTS
    Runs,        \* calls of execute
    Plans,       \* canonical plans
    Keys,        \* delivery keys
    PlanOf,      \* the plan a run executes
    KeyOf,       \* the idempotency_key of a plan
    OpOf,        \* the operation of a plan
    Attempts,    \* RetryPolicy.attempts
    MaxCount,    \* bound: other editors stop at this sys_mod_count
    Modes,       \* request flags and runtime dependencies a run may have
    Faults,      \* the faults the environment may produce
    ReadErrors   \* the errors a read may end with

Operations == {"enrich_existing", "create_draft"}

WriteStates == {"NOT_ATTEMPTED", "NOT_APPLIED", "UNKNOWN", "none"}

Verified == {"UPDATED", "UNCHANGED", "CREATED_DRAFT"}

Outcomes == Verified \cup {"DRY_RUN", "READ_ONLY", "CONFLICT", "FAILED",
                           "PARTIAL_FAILURE_UNKNOWN", "none"}

Codes == {"none", "INVALID_MAPPING", "UNTRUSTED_DESTINATION", "RESPONSE_INVALID",
          "REPLAY_MISMATCH", "MODEL_NOT_ALLOWED", "AUTHORIZATION_DENIED",
          "AUTHENTICATION_FAILED", "CAPABILITY_MISSING", "CONCURRENCY_CONFLICT",
          "TARGET_NOT_FOUND", "TARGET_AMBIGUOUS", "TIMEOUT", "RATE_LIMITED",
          "REDIRECT_REJECTED", "PARTIAL_FAILURE_UNKNOWN"}

\* The flags of a request (write_enabled implies dry_run = FALSE and the
\* gateway profile, so three kinds of request are left), the caller's
\* confirm_write, and what the adapter was built with.
ModeSpace ==
    [ plan    : {"valid", "refused", "altered"},  \* local validation
      kind    : {"dry_run", "read_only", "write"},
      confirm : BOOLEAN,                          \* confirm_write
      deps    : BOOLEAN,                          \* transport and credentials
      draft   : BOOLEAN,                          \* draft_feature_enabled
      fits    : BOOLEAN ]                         \* body within 10 MiB

\* What _send_read, _raise_http_error and _json_object raise on a read.
ReadErrorSpace ==
    { [code |-> "TIMEOUT",               state |-> "NOT_APPLIED"],
      [code |-> "RATE_LIMITED",          state |-> "NOT_APPLIED"],
      [code |-> "AUTHENTICATION_FAILED", state |-> "NOT_APPLIED"],
      [code |-> "AUTHORIZATION_DENIED",  state |-> "NOT_APPLIED"],
      [code |-> "RESPONSE_INVALID",      state |-> "NOT_APPLIED"],
      [code |-> "RESPONSE_INVALID",      state |-> "NOT_ATTEMPTED"],
      [code |-> "TARGET_AMBIGUOUS",      state |-> "NOT_APPLIED"],
      [code |-> "REDIRECT_REJECTED",     state |-> "NOT_ATTEMPTED"],
      [code |-> "UNTRUSTED_DESTINATION", state |-> "NOT_ATTEMPTED"] }

FaultSpace == {"lost", "429", "redirect", "503", "error", "early", "garbled",
               "oversize", "transport", "resolve", "auth", "read", "edit",
               "withdraw", "sink", "crash"}

ASSUME PlansAssumption ==
    /\ PlanOf \in [Runs -> Plans]
    /\ KeyOf \in [Plans -> Keys]
    /\ OpOf \in [Plans -> Operations]
    \* the operation is part of the hashed identity
    /\ \A p, q \in Plans : KeyOf[p] = KeyOf[q] => OpOf[p] = OpOf[q]

\* RetryPolicy.__post_init__ and the mapping's limits admit 1 to 5 attempts.
ASSUME AttemptsAssumption == Attempts \in 1..5

ASSUME EnvironmentAssumption ==
    /\ MaxCount \in Nat
    /\ Modes \subseteq ModeSpace
    /\ Faults \subseteq FaultSpace
    /\ ReadErrors \subseteq ReadErrorSpace

NoMode == [plan |-> "valid", kind |-> "dry_run", confirm |-> FALSE,
           deps |-> FALSE, draft |-> FALSE, fits |-> TRUE]

Unset == -1   \* no plan built yet, or no target pinned yet

VARIABLES
    \* the Evidence Gateway and ServiceNow (external)
    gw,        \* the guarantees this gateway has: compare-and-set, unique keys
    open,      \* the target Change and draft model still accept evidence
    count,     \* sys_mod_count of the Change
    writes,    \* every write the gateway has applied: run, attempt, count before
    wire,      \* POSTs sent and not yet processed or lost
    \* the callers
    preview,   \* expected_sys_mod_count of each built plan, or Unset
    \* the runs
    pc, mode, attempt, tries, pinned, reply, result,
    guarded,   \* the result is being finished inside execute's try block
    events     \* outcomes handed to the event sink

external == <<gw, open, count, writes>>
progress == <<attempt, tries, pinned>>
vars == <<gw, open, count, writes, wire, preview, pc, mode, attempt, tries,
          pinned, reply, result, guarded, events>>

PCs == {"idle", "authorize", "lookup", "capability", "post", "waiting",
        "reconcile", "readback", "finish", "done", "raised", "crashed"}

Terminal == {"done", "raised", "crashed"}

Reading == {"lookup", "capability", "reconcile", "readback"}

Replies == {"none", "ok", "garbled", "oversize", "429", "redirect", "503",
            "error", "conflict", "withdrawn"}

Results == [outcome : Outcomes, verified : BOOLEAN, attempts : 0..5,
            code : Codes, state : WriteStates]

NoResult == [outcome |-> "none", verified |-> FALSE, attempts |-> 0,
             code |-> "none", state |-> "none"]

Key(r) == KeyOf[PlanOf[r]]
Enrich(r) == OpOf[PlanOf[r]] = "enrich_existing"
Expected(r) == preview[PlanOf[r]]
Delivered(k) == \E w \in writes : Key(w.run) = k
WroteBy(r) == \E w \in writes : w.run = r

-----------------------------------------------------------------------------

Init ==
    /\ gw \in [cas : BOOLEAN, unique : BOOLEAN]
    /\ open = TRUE
    /\ count = 0
    /\ writes = {}
    /\ wire = {}
    /\ preview = [p \in Plans |-> Unset]
    /\ pc = [r \in Runs |-> "idle"]
    /\ mode = [r \in Runs |-> NoMode]
    /\ attempt = [r \in Runs |-> 0]
    /\ tries = [r \in Runs |-> 0]
    /\ pinned = [r \in Runs |-> Unset]
    /\ reply = [r \in Runs |-> "none"]
    /\ result = [r \in Runs |-> NoResult]
    /\ guarded = [r \in Runs |-> FALSE]
    /\ events = [r \in Runs |-> <<>>]

Goto(r, label) == pc' = [pc EXCEPT ![r] = label]

\* A result built by _result or _failure inside the try block of execute.
Return(r, outcome, verified, n, code, state) ==
    /\ Goto(r, "finish")
    /\ guarded' = [guarded EXCEPT ![r] = TRUE]
    /\ result' = [result EXCEPT ![r] =
          [outcome |-> outcome, verified |-> verified, attempts |-> n,
           code |-> code, state |-> state]]

\* A ServiceNowV2Error that reaches execute's handler: zero attempts reported.
CaughtOutcome(code, state) ==
    IF state \in {"APPLIED", "UNKNOWN"} THEN "PARTIAL_FAILURE_UNKNOWN"
    ELSE IF code \in {"CONCURRENCY_CONFLICT", "REPLAY_MISMATCH"} THEN "CONFLICT"
    ELSE "FAILED"

Raise(r, code, state) ==
    /\ Goto(r, "finish")
    /\ guarded' = [guarded EXCEPT ![r] = FALSE]
    /\ result' = [result EXCEPT ![r] =
          [outcome |-> CaughtOutcome(code, state), verified |-> FALSE,
           attempts |-> 0, code |-> code, state |-> state]]

Unknown(r) ==
    Return(r, "PARTIAL_FAILURE_UNKNOWN", FALSE, attempt[r],
           "PARTIAL_FAILURE_UNKNOWN", "UNKNOWN")

-----------------------------------------------------------------------------
(* The caller *)

\* build_servicenow_plan_v2: the caller reads the Change and fixes the version
\* the plan expects.
BuildPlan(p) ==
    /\ preview[p] = Unset
    /\ preview' = [preview EXCEPT ![p] = count]
    /\ UNCHANGED <<external, wire, pc, mode, progress, reply, result, guarded, events>>

\* The local gates of execute, in the order of its early returns.
Gate(r, m) ==
    \/ /\ m.plan = "refused"
       /\ \E c \in {"RESPONSE_INVALID", "UNTRUSTED_DESTINATION", "INVALID_MAPPING"} :
             Raise(r, c, "NOT_ATTEMPTED")
    \/ /\ m.plan = "altered"
       /\ Raise(r, "REPLAY_MISMATCH", "NOT_ATTEMPTED")
    \/ /\ m.plan = "valid"
       /\ m.kind = "dry_run"
       /\ Return(r, "DRY_RUN", FALSE, 0, "none", "none")
    \/ /\ m.plan = "valid"
       /\ m.kind # "dry_run"
       /\ ~Enrich(r) /\ ~m.draft
       /\ Return(r, "FAILED", FALSE, 0, "MODEL_NOT_ALLOWED", "NOT_ATTEMPTED")
    \/ /\ m.plan = "valid"
       /\ m.kind = "read_only"
       /\ Enrich(r) \/ m.draft
       /\ ~m.deps \/ ~Enrich(r)
       /\ Return(r, "READ_ONLY", FALSE, 0, "none", "none")
    \/ /\ m.plan = "valid"
       /\ m.kind = "write"
       /\ Enrich(r) \/ m.draft
       /\ ~m.confirm
       /\ Return(r, "FAILED", FALSE, 0, "AUTHORIZATION_DENIED", "NOT_ATTEMPTED")
    \/ /\ m.plan = "valid"
       /\ m.kind = "write"
       /\ Enrich(r) \/ m.draft
       /\ m.confirm /\ ~m.deps
       /\ Return(r, "FAILED", FALSE, 0, "AUTHENTICATION_FAILED", "NOT_ATTEMPTED")

\* Past every gate: a confirmed live write, or a read-only look at the Change.
Admitted(r, m) ==
    /\ m.plan = "valid"
    /\ m.deps
    /\ \/ m.kind = "write" /\ m.confirm /\ (Enrich(r) \/ m.draft)
       \/ m.kind = "read_only" /\ Enrich(r)

Start(r) ==
    /\ pc[r] = "idle"
    /\ Expected(r) # Unset
    /\ \E m \in Modes :
          /\ mode' = [mode EXCEPT ![r] = m]
          /\ IF Admitted(r, m)
             THEN Goto(r, "authorize") /\ UNCHANGED <<result, guarded>>
             ELSE Gate(r, m)
    /\ UNCHANGED <<external, wire, preview, progress, reply, events>>

-----------------------------------------------------------------------------
(* The adapter: credentials and reads *)

\* Every reading pc is entered with the first of _send_read's own attempts.
Read(r, label) ==
    /\ Goto(r, label)
    /\ tries' = [tries EXCEPT ![r] = 1]

Authorize(r) ==
    /\ pc[r] = "authorize"
    /\ Read(r, IF Enrich(r) THEN "lookup" ELSE "capability")
    /\ UNCHANGED <<external, wire, preview, mode, attempt, pinned, reply, result,
                   guarded, events>>

AuthorizeFailed(r) ==
    /\ "auth" \in Faults
    /\ pc[r] = "authorize"
    /\ \E c \in {"AUTHENTICATION_FAILED", "UNTRUSTED_DESTINATION"} :
          Raise(r, c, "NOT_ATTEMPTED")
    /\ UNCHANGED <<external, wire, preview, mode, progress, reply, events>>

\* Bug: the read loop does not count.
ReadAgainUncounted(r) ==
    /\ "read" \in Faults
    /\ pc[r] \in Reading
    /\ tries[r] < Attempts
    /\ reply' = [reply EXCEPT ![r] = IF @ = "none" THEN "ok" ELSE "none"]
    /\ UNCHANGED <<external, wire, preview, pc, mode, progress, result, guarded, events>>

\* A read timed out, or got 429 or 502..504, and the retry fits the budget.
ReadAgain(r) ==
    /\ "read" \in Faults
    /\ pc[r] \in Reading
    /\ tries[r] < Attempts
    /\ tries' = [tries EXCEPT ![r] = @ + 1]
    /\ UNCHANGED <<external, wire, preview, pc, mode, attempt, pinned, reply,
                   result, guarded, events>>

ReadFailed(r) ==
    /\ "read" \in Faults
    /\ pc[r] \in {"lookup", "capability"}
    /\ \E e \in ReadErrors : Raise(r, e.code, e.state)
    /\ UNCHANGED <<external, wire, preview, mode, progress, reply, events>>

\* Bug: a write goes on with whatever version the lookup found.
LookupAnyVersion(r) ==
    /\ pc[r] = "lookup"
    /\ open
    /\ pinned' = [pinned EXCEPT ![r] = count]
    /\ \/ /\ mode[r].kind = "read_only"
          /\ Return(r, "READ_ONLY", TRUE, tries[r], "none", "none")
          /\ UNCHANGED tries
       \/ /\ mode[r].kind = "write"
          /\ Read(r, "capability")
          /\ UNCHANGED <<result, guarded>>
    /\ UNCHANGED <<external, wire, preview, mode, attempt, reply, events>>

\* _lookup_target pins the Change; a write then compares its version.
LookupTarget(r) ==
    /\ pc[r] = "lookup"
    /\ open
    /\ pinned' = [pinned EXCEPT ![r] = count]
    /\ \/ /\ mode[r].kind = "read_only"
          /\ Return(r, "READ_ONLY", TRUE, tries[r], "none", "none")
          /\ UNCHANGED tries
       \/ /\ mode[r].kind = "write"
          /\ count # Expected(r)
          /\ Return(r, "CONFLICT", FALSE, tries[r], "CONCURRENCY_CONFLICT", "NOT_APPLIED")
          /\ UNCHANGED tries
       \/ /\ mode[r].kind = "write"
          /\ count = Expected(r)
          /\ Read(r, "capability")
          /\ UNCHANGED <<result, guarded>>
    /\ UNCHANGED <<external, wire, preview, mode, attempt, reply, events>>

LookupMissing(r) ==
    /\ pc[r] = "lookup"
    /\ ~open
    /\ Raise(r, "TARGET_NOT_FOUND", "NOT_APPLIED")
    /\ UNCHANGED <<external, wire, preview, mode, progress, reply, events>>

\* Bugs: one of the two guarantees, or both, are not asked for.
AttestedWithoutCas == gw.unique
AttestedWithoutUnique == gw.cas
AttestedUnchecked == TRUE

\* _validate_capability: the attested guarantees of this gateway.
Attested == gw.cas /\ gw.unique

ValidateCapability(r) ==
    /\ pc[r] = "capability"
    /\ \/ /\ Attested
          /\ Enrich(r) \/ open
          /\ Goto(r, "post")
          /\ UNCHANGED <<result, guarded>>
       \/ /\ ~Attested
          /\ Raise(r, "CAPABILITY_MISSING", "NOT_ATTEMPTED")
       \/ /\ Attested
          /\ ~Enrich(r) /\ ~open
          /\ Raise(r, "MODEL_NOT_ALLOWED", "NOT_ATTEMPTED")
    /\ UNCHANGED <<external, wire, preview, mode, progress, reply, events>>

-----------------------------------------------------------------------------
(* The adapter: _write_gateway *)

RefuseBody(r) ==
    /\ pc[r] = "post"
    /\ ~mode[r].fits
    /\ Return(r, "FAILED", FALSE, 0, "INVALID_MAPPING", "NOT_ATTEMPTED")
    /\ UNCHANGED <<external, wire, preview, mode, progress, reply, events>>

SendPost(r) ==
    /\ pc[r] = "post"
    /\ mode[r].fits
    /\ attempt' = [attempt EXCEPT ![r] = @ + 1]
    /\ wire' = wire \cup {[run |-> r, attempt |-> attempt[r] + 1]}
    /\ reply' = [reply EXCEPT ![r] = "none"]
    /\ Goto(r, "waiting")
    /\ UNCHANGED <<external, preview, mode, tries, pinned, result, guarded, events>>

\* _send validates the resolution again before every send.
PostUnresolved(r) ==
    /\ "resolve" \in Faults
    /\ pc[r] = "post"
    /\ mode[r].fits
    /\ attempt' = [attempt EXCEPT ![r] = @ + 1]
    /\ Raise(r, "UNTRUSTED_DESTINATION", "NOT_ATTEMPTED")
    /\ UNCHANGED <<external, wire, preview, mode, tries, pinned, reply, events>>

\* TimeoutError: the POST may still be on its way, or processed with its
\* answer lost.
Timeout(r) ==
    /\ pc[r] = "waiting"
    /\ reply[r] = "none"
    /\ Read(r, "reconcile")
    /\ UNCHANGED <<external, wire, preview, mode, attempt, pinned, reply, result,
                   guarded, events>>

\* Bug: a failed POST is classified like a failed GET.
TransportFailedLikeGet(r) ==
    /\ "transport" \in Faults
    /\ pc[r] = "waiting"
    /\ reply[r] = "none"
    /\ Raise(r, "TIMEOUT", "NOT_APPLIED")
    /\ UNCHANGED <<external, wire, preview, mode, progress, reply, events>>

\* Any other transport exception becomes TIMEOUT/UNKNOWN in _send and leaves
\* _write_gateway without reconciliation.
TransportFailed(r) ==
    /\ "transport" \in Faults
    /\ pc[r] = "waiting"
    /\ reply[r] = "none"
    /\ Raise(r, "TIMEOUT", "UNKNOWN")
    /\ UNCHANGED <<external, wire, preview, mode, progress, reply, events>>

Receive(r, replies) == pc[r] = "waiting" /\ reply[r] \in replies

\* 502..504 reconcile like a timeout; a readable 2xx is read back.
Accepted(r) ==
    /\ \/ Receive(r, {"ok"}) /\ Read(r, "readback")
       \/ Receive(r, {"503"}) /\ Read(r, "reconcile")
    /\ UNCHANGED <<external, wire, preview, mode, attempt, pinned, reply, result,
                   guarded, events>>

RetryAfter(r) ==
    /\ Receive(r, {"429"})
    /\ attempt[r] < Attempts
    /\ Goto(r, "post")
    /\ UNCHANGED <<external, wire, preview, mode, progress, reply, result, guarded,
                   events>>

Refused(r) ==
    /\ \/ /\ Receive(r, {"429"})
          /\ Return(r, "FAILED", FALSE, attempt[r], "RATE_LIMITED", "NOT_APPLIED")
       \/ /\ Receive(r, {"redirect"})
          /\ Return(r, "PARTIAL_FAILURE_UNKNOWN", FALSE, attempt[r],
                    "REDIRECT_REJECTED", "UNKNOWN")
       \/ /\ Receive(r, {"conflict"})
          /\ Return(r, "CONFLICT", FALSE, attempt[r], "CONCURRENCY_CONFLICT", "NOT_APPLIED")
       \/ /\ Receive(r, {"withdrawn"})
          /\ Return(r, "CONFLICT", FALSE, attempt[r],
                    IF Enrich(r) THEN "TARGET_NOT_FOUND" ELSE "MODEL_NOT_ALLOWED",
                    "NOT_APPLIED")
       \* _raise_http_error: 400, 401, 403, 404, 500, ...
       \/ /\ Receive(r, {"error"})
          /\ Return(r, "FAILED", FALSE, attempt[r], "RESPONSE_INVALID", "UNKNOWN")
       \* _json_object on a 2xx body
       \/ /\ Receive(r, {"garbled"})
          /\ Return(r, "FAILED", FALSE, attempt[r], "RESPONSE_INVALID", "NOT_ATTEMPTED")
       \* UrllibTransport.send on a 2xx body over the limit
       \/ /\ Receive(r, {"oversize"})
          /\ Raise(r, "RESPONSE_INVALID", "NOT_ATTEMPTED")
    /\ UNCHANGED <<external, wire, preview, mode, progress, reply, events>>

RemoteOutcomes(r) ==
    {"UNCHANGED", IF Enrich(r) THEN "UPDATED" ELSE "CREATED_DRAFT"}

\* Bug: a 2xx is believed without the read-back.
ReconcileTrusting(r) ==
    /\ pc[r] \in {"reconcile", "readback"}
    /\ pc[r] = "readback" \/ Delivered(Key(r))
    /\ \E o \in RemoteOutcomes(r) : Return(r, o, TRUE, attempt[r], "none", "none")
    /\ UNCHANGED <<external, wire, preview, mode, progress, reply, events>>

\* _reconcile returned a delivery that matches the plan.
ReconcileFound(r) ==
    /\ pc[r] \in {"reconcile", "readback"}
    /\ Delivered(Key(r))
    /\ \E o \in RemoteOutcomes(r) : Return(r, o, TRUE, attempt[r], "none", "none")
    /\ UNCHANGED <<external, wire, preview, mode, progress, reply, events>>

\* 404 after a timeout or a 5xx, and the backoff fits the budget.
ReconcileAbsent(r) ==
    /\ pc[r] = "reconcile"
    /\ ~Delivered(Key(r))
    /\ attempt[r] < Attempts
    /\ Goto(r, "post")
    /\ UNCHANGED <<external, wire, preview, mode, progress, reply, result, guarded,
                   events>>

\* No proof either way, or 404 with no retry left.
ReconcileUnproven(r) ==
    /\ pc[r] \in {"reconcile", "readback"}
    /\ ~Delivered(Key(r)) \/ "read" \in Faults
    /\ Unknown(r)
    /\ UNCHANGED <<external, wire, preview, mode, progress, reply, events>>

-----------------------------------------------------------------------------
(* _finish, and the end of the process *)

Finish(r) ==
    /\ pc[r] = "finish"
    /\ events' = [events EXCEPT ![r] = Append(@, result[r].outcome)]
    /\ Goto(r, "done")
    /\ UNCHANGED <<external, wire, preview, mode, progress, reply, result, guarded>>

\* Bug: the replaced result is returned without an event of its own.
SinkRaisesSilently(r) ==
    /\ "sink" \in Faults
    /\ pc[r] = "finish"
    /\ events' = [events EXCEPT ![r] = Append(@, result[r].outcome)]
    /\ Goto(r, "done")
    /\ result' = [result EXCEPT ![r].outcome = "PARTIAL_FAILURE_UNKNOWN"]
    /\ UNCHANGED <<external, wire, preview, mode, progress, reply, guarded>>

\* The sink raises: inside the try block the result is replaced by an unknown
\* one and finished again, in a handler the exception leaves execute.
SinkRaises(r) ==
    /\ "sink" \in Faults
    /\ pc[r] = "finish"
    /\ events' = [events EXCEPT ![r] = Append(@, result[r].outcome)]
    /\ \/ /\ guarded[r]
          /\ Raise(r, "PARTIAL_FAILURE_UNKNOWN", "UNKNOWN")
       \/ /\ ~guarded[r]
          /\ Goto(r, "raised")
          /\ result' = [result EXCEPT ![r] = NoResult]
          /\ UNCHANGED guarded
    /\ UNCHANGED <<external, wire, preview, mode, progress, reply>>

Crash(r) ==
    /\ "crash" \in Faults
    /\ pc[r] \notin Terminal \cup {"idle"}
    /\ Goto(r, "crashed")
    /\ result' = [result EXCEPT ![r] = NoResult]
    /\ UNCHANGED <<external, wire, preview, mode, progress, reply, guarded, events>>

-----------------------------------------------------------------------------
(* The Evidence Gateway, the network and other editors (external) *)

\* s reaches the run if it still waits for this POST; "none" is a lost answer.
Answer(m, s) ==
    reply' = IF pc[m.run] = "waiting" /\ attempt[m.run] = m.attempt /\ reply[m.run] = "none"
             THEN [reply EXCEPT ![m.run] = s]
             ELSE reply

\* What may come back for a POST the gateway has processed.
Acknowledgements ==
    {"ok"} \cup ({"garbled", "oversize", "503", "error"} \cap Faults)
           \cup (IF "lost" \in Faults THEN {"none"} ELSE {})

Refusals == IF "lost" \in Faults THEN {"none"} ELSE {}

Stale(m) == gw.cas /\ Enrich(m.run) /\ count # Expected(m.run)
Replayed(m) == gw.unique /\ Delivered(Key(m.run))

GatewayReplay(m) ==
    /\ Replayed(m)
    /\ wire' = wire \ {m}
    /\ \E s \in Acknowledgements : Answer(m, s)
    /\ UNCHANGED <<external, preview, pc, mode, progress, result, guarded, events>>

GatewayReject(m) ==
    /\ ~Replayed(m)
    /\ wire' = wire \ {m}
    /\ \/ ~open /\ \E s \in Refusals \cup {"withdrawn"} : Answer(m, s)
       \/ open /\ Stale(m) /\ \E s \in Refusals \cup {"conflict"} : Answer(m, s)
    /\ UNCHANGED <<external, preview, pc, mode, progress, result, guarded, events>>

\* Compare, reserve the key and write in one transaction.
GatewayWrite(m) ==
    /\ ~Replayed(m)
    /\ open
    /\ ~Stale(m)
    /\ wire' = wire \ {m}
    /\ writes' = writes \cup {[run |-> m.run, attempt |-> m.attempt, base |-> count]}
    /\ count' = IF Enrich(m.run) THEN count + 1 ELSE count
    /\ \E s \in Acknowledgements : Answer(m, s)
    /\ UNCHANGED <<gw, open, preview, pc, mode, progress, result, guarded, events>>

\* A proxy answers first.  After 429 or a redirect the POST goes no further;
\* after another status it may still reach the gateway.  "early" is a 2xx for
\* a write that is only queued.
ProxyAnswer(m) ==
    /\ pc[m.run] = "waiting" /\ attempt[m.run] = m.attempt /\ reply[m.run] = "none"
    /\ \/ /\ \E s \in {"429", "redirect", "503", "error"} \cap Faults : Answer(m, s)
          /\ wire' = wire \ {m}
       \/ /\ \E s \in {"503", "error"} \cap Faults : Answer(m, s)
          /\ wire' = wire
       \/ /\ "early" \in Faults
          /\ Answer(m, "ok")
          /\ wire' \in {wire, wire \ {m}}
    /\ UNCHANGED <<external, preview, pc, mode, progress, result, guarded, events>>

LosePost(m) ==
    /\ "lost" \in Faults
    /\ wire' = wire \ {m}
    /\ UNCHANGED <<external, preview, pc, mode, progress, reply, result, guarded, events>>

OtherEdit ==
    /\ "edit" \in Faults
    /\ count < MaxCount
    /\ count' = count + 1
    /\ UNCHANGED <<gw, open, writes, wire, preview, pc, mode, progress, reply, result,
                   guarded, events>>

Withdraw ==
    /\ "withdraw" \in Faults
    /\ open
    /\ open' = FALSE
    /\ UNCHANGED <<gw, count, writes, wire, preview, pc, mode, progress, reply, result,
                   guarded, events>>

-----------------------------------------------------------------------------

\* What execute does by itself once it has been called.
RunStep(r) ==
    \/ Authorize(r) \/ AuthorizeFailed(r)
    \/ ReadAgain(r) \/ ReadFailed(r)
    \/ LookupTarget(r) \/ LookupMissing(r) \/ ValidateCapability(r)
    \/ RefuseBody(r) \/ SendPost(r) \/ PostUnresolved(r)
    \/ Timeout(r) \/ TransportFailed(r)
    \/ Accepted(r) \/ RetryAfter(r) \/ Refused(r)
    \/ ReconcileFound(r) \/ ReconcileAbsent(r) \/ ReconcileUnproven(r)
    \/ Finish(r) \/ SinkRaises(r)

Network(m) ==
    \/ GatewayReplay(m) \/ GatewayReject(m) \/ GatewayWrite(m)
    \/ ProxyAnswer(m) \/ LosePost(m)

Next ==
    \/ \E p \in Plans : BuildPlan(p)
    \/ \E r \in Runs : Start(r) \/ RunStep(r) \/ Crash(r)
    \/ \E m \in wire : Network(m)
    \/ OtherEdit
    \/ Withdraw

Spec == Init /\ [][Next]_vars

\* execute is a straight line of calls, each bounded by the transport's request
\* timeout: a started run keeps taking its own steps.
Fairness == \A r \in Runs : WF_vars(RunStep(r))

FairSpec == Spec /\ Fairness

-----------------------------------------------------------------------------
(* Properties *)

Posts == [run : Runs, attempt : 1..Attempts]

TypeOK ==
    /\ gw \in [cas : BOOLEAN, unique : BOOLEAN]
    /\ open \in BOOLEAN
    /\ count \in Nat
    /\ writes \subseteq [run : Runs, attempt : 1..Attempts, base : Nat]
    /\ wire \subseteq Posts
    /\ preview \in [Plans -> Nat \cup {Unset}]
    /\ pc \in [Runs -> PCs]
    /\ mode \in [Runs -> ModeSpace]
    /\ attempt \in [Runs -> 0..Attempts]
    /\ tries \in [Runs -> 0..Attempts]
    /\ pinned \in [Runs -> Nat \cup {Unset}]
    /\ reply \in [Runs -> Replies]
    /\ result \in [Runs -> Results]
    /\ guarded \in [Runs -> BOOLEAN]
    /\ events \in [Runs -> Seq(Outcomes)]

\* A result or an emitted event that claims a verified delivery is about a
\* delivery the gateway holds: whatever the proxy acknowledged, whichever
\* reply was lost, and also when the sink raised half-way (_reconcile before
\* _result_from_remote).
VerifiedIsDelivered ==
    \A r \in Runs :
        \/ result[r].outcome \in Verified
        \/ \E i \in DOMAIN events[r] : events[r][i] \in Verified
        => Delivered(Key(r))

\* One delivery key is written at most once, over every run that carries it
\* and every POST that arrives late - also behind a gateway that keeps no
\* unique index, because execute never posts to one (_validate_capability).
OneWritePerKey ==
    \A v, w \in writes : Key(v.run) = Key(w.run) => v = w

\* Evidence is only written onto the version of the Change the plan was
\* previewed against, also behind a gateway without compare-and-set.
NoStaleOverwrite ==
    \A w \in writes : Enrich(w.run) => w.base = Expected(w.run)

\* A run that answers CONFLICT has written nothing and never will: a POST of
\* it that is still on its way cannot be applied later (_conflict_response,
\* the version check after _lookup_target).
ConflictNeverWrites ==
    \A r \in Runs : result[r].outcome = "CONFLICT" => ~WroteBy(r)

\* As long as at most one POST was started and its body could be read, a
\* result that says NOT_ATTEMPTED or NOT_APPLIED is true, and stays true.
FirstPostStateHolds ==
    \A r \in Runs :
        /\ result[r].state \in {"NOT_ATTEMPTED", "NOT_APPLIED"}
        /\ attempt[r] <= 1
        /\ result[r].code # "RESPONSE_INVALID"
        => ~WroteBy(r)

\* A POST leaves execute only for a valid, confirmed live write whose drafts
\* are enabled, whose Change was pinned at the previewed version and whose
\* gateway attests compare-and-set and unique delivery.
PostOnlyWhenCleared ==
    \A r \in Runs : attempt[r] > 0 =>
        /\ mode[r].plan = "valid" /\ mode[r].kind = "write"
        /\ mode[r].confirm /\ mode[r].deps /\ mode[r].fits
        /\ Attested
        /\ IF Enrich(r) THEN pinned[r] = Expected(r) ELSE mode[r].draft

\* The last event a sink was handed is the result the caller gets, although a
\* raising sink makes execute build and emit a second one (_finish).
EventMatchesResult ==
    \A r \in Runs : pc[r] = "done" =>
        /\ Len(events[r]) \in 1..2
        /\ events[r][Len(events[r])] = result[r].outcome

\* Every execution ends: reads, POSTs and reconciliations are all bounded.
Termination ==
    \A r \in Runs : pc[r] # "idle" ~> pc[r] \in Terminal

-----------------------------------------------------------------------------
(* The inductive invariant behind the safety properties *)

\* Where a run is tells how far it got: no POST before the gates, the version
\* check and the attestation, and a result only at the end.
Phased ==
    \A r \in Runs :
        /\ pc[r] \in {"idle", "authorize", "lookup", "capability"} => attempt[r] = 0
        /\ pc[r] = "post" => attempt[r] < Attempts
        /\ pc[r] \in {"post", "waiting", "reconcile", "readback"} \/ attempt[r] > 0 => Attested
        /\ result[r].outcome # "none" => pc[r] \in {"finish", "done"}

\* POSTs and writes come from attempts that were made.
Accounted ==
    /\ \A m \in wire : m.attempt <= attempt[m.run]
    /\ \A w \in writes : w.attempt <= attempt[w.run]

\* sys_mod_count never goes back to a version a plan was built for.
PreviewedBefore == \A p \in Plans : preview[p] <= count

\* A run executes a plan that has been built.
PlannedFirst == \A r \in Runs : pc[r] # "idle" => Expected(r) # Unset

\* No POST of the run that is still on its way can be applied any more.
NothingPending(r) ==
    \A m \in wire : m.run = r => ~open \/ (Enrich(r) /\ count > Expected(r))

Rejected(r) ==
    \/ pc[r] = "waiting" /\ reply[r] \in {"conflict", "withdrawn"}
    \/ result[r].outcome = "CONFLICT"

RejectionsFinal == \A r \in Runs : Rejected(r) => ~WroteBy(r) /\ NothingPending(r)

\* What every reachable state satisfies and every step preserves.
IInv ==
    /\ TypeOK
    /\ Phased
    /\ Accounted
    /\ PreviewedBefore
    /\ PlannedFirst
    /\ OneWritePerKey
    /\ NoStaleOverwrite
    /\ VerifiedIsDelivered
    /\ RejectionsFinal

-----------------------------------------------------------------------------
(* Refinement *)

Claimed(r) ==
    IF pc[r] # "done" THEN "none"
    ELSE CASE result[r].outcome \in Verified -> "verified"
           [] result[r].outcome \in {"DRY_RUN", "READ_ONLY"} -> "quiet"
           [] result[r].outcome = "CONFLICT" -> "conflict"
           [] OTHER -> "failed"

Contract == INSTANCE DeliveryContract WITH
    Key <- Key,
    delivered <- {Key(w.run) : w \in writes},
    wrote <- {w.run : w \in writes},
    claim <- [r \in Runs |-> Claimed(r)]

\* execute implements the delivery contract: writes happen once per key and
\* never for a run that has claimed a conflict or a read-only outcome.
ContractHolds == Contract!Spec

-----------------------------------------------------------------------------
(* What a document says and the code does not do *)

\* openspec servicenow-enterprise-adapter-runtime: a write that ended in a 5xx
\* is reconciled, and without a verifiable state it is
\* PARTIAL_FAILURE_UNKNOWN: an applied write is never a plain FAILED.
AppliedIsNeverFailed ==
    \A r \in Runs : WroteBy(r) => result[r].outcome # "FAILED"

=============================================================================
