--------------------------- MODULE ProviderRunner ---------------------------
(***************************************************************************)
(* ProviderRunner.run (preflightops/provider_runtime.py) and the lifecycle *)
(* of the stateful provider it drives (preflightops/gcp_provider.py).      *)
(*                                                                         *)
(* Every element of Calls is one call of run.  A runner serialises its own *)
(* calls with its lock and keeps a bounded cache; nothing serialises the   *)
(* calls of different runners, which here share one provider: open, collect *)
(* and close of the provider load and store its fields one by one.         *)
(*                                                                         *)
(* Covered: the deadline and cancellation at every check of the runner,    *)
(* refused and failing opens, partial collections, evidence of the wrong   *)
(* control, duplicated, stale or from the future, failing closes, cache    *)
(* hits, expiry and eviction, a provider shared by two runners that tear   *)
(* each other's open, collect and close.                                   *)
(* Not covered: summaries, digests, confidence and the wording of errors.  *)
(***************************************************************************)
EXTENDS Integers, Sequences, FiniteSets, SequencesExt

CONSTANTS
    Runners,
    Calls,         \* calls of run
    RunnerOf,      \* the runner a call is made on
    Contexts,      \* approved context digests
    Controls,      \* controls the provider declares
    ContextOf,     \* context_digest of a call's request
    Asked,         \* controls of a call's request
    At,            \* evaluated_at of a call's request
    Timeout,       \* timeout_seconds, in ticks of the monotonic clock
    MaxTime,       \* bound: the monotonic clock stops here
    Capacity,      \* cache_capacity
    Observations,  \* status and validity of the evidence a provider may yield
    Failures,      \* what the provider and the environment may do wrong
    RaisedCodes    \* codes the provider may raise while it collects

Statuses == {"PASS", "FAIL", "NOT_APPLICABLE", "UNKNOWN", "ERROR"}

ExecutionCodes == {"TIMEOUT", "CANCELLED", "AUTH", "RATE_LIMIT", "UNAVAILABLE", "INTERNAL"}

ErrorCodes == ExecutionCodes \cup {"INVALID_RESPONSE", "MISSING", "STALE", "FUTURE", "none"}

None == "none"

FailureSpace == {"open", "provider", "foreign", "short", "close", "cancel"}

ASSUME CallsAssumption ==
    /\ RunnerOf \in [Calls -> Runners]
    /\ ContextOf \in [Calls -> Contexts]
    /\ Asked \in [Calls -> (SUBSET Controls) \ {{}}]
    /\ At \in [Calls -> Nat]
    /\ None \notin Calls

ASSUME BoundsAssumption ==
    /\ Timeout \in Nat \ {0}
    /\ MaxTime \in Nat
    /\ Capacity \in 0..1024
    /\ Failures \subseteq FailureSpace
    /\ RaisedCodes \subseteq ExecutionCodes

\* ProviderEvidence.__post_init__: the validity interval is positive.
ASSUME ObservationsAssumption ==
    \A o \in Observations : o.status \in Statuses /\ o.from \in Nat /\ o.until \in Nat
                            /\ o.from < o.until

VARIABLES
    now,        \* the monotonic clock
    cancelled,  \* calls whose cancellation event is set
    holder,     \* the call that holds a runner's lock
    cache,      \* a runner's OrderedDict, oldest entry first
    client,     \* _client, _context and _request of the provider: the call
    context,    \* that stored each of them, or None
    request,
    collected,  \* the provider has started to collect
    made,       \* opens that have made a client
    shut,       \* opens whose client has been closed
    mixed,      \* history: calls whose open and capture overlapped another's
    pc, deadline,
    using,      \* the client and the context that a collection captured
    bound,
    closing,    \* the client that a close has loaded
    got,        \* evidence accepted so far: the dict result
    error,
    out         \* what run returned

clock == <<now, cancelled>>
slots == <<client, context, request, collected>>
clients == <<made, shut, mixed>>
provider == <<slots, clients>>
captured == <<using, bound, closing>>
runner == <<holder, cache, deadline, out>>
vars == <<clock, provider, pc, captured, got, error, runner>>

\* From the check of open to the last store, and from there to the last load
\* of collect.
Opening == {"context", "client", "request", "flag"}
Looking == {"opened", "seeContext", "seeRequest", "seeFlag"}
Capturing == {"mark", "loadClient", "loadContext"}
Window == Opening \cup Looking \cup Capturing
Closing == {"close", "dropClient", "dropRequest", "dropContext", "shutClient"}

PCs == {"idle", "lookup", "open", "collect", "closed", "done"} \cup Window \cup Closing

Holding == PCs \ {"idle", "done"}

Key(c) == <<ContextOf[c], Asked[c]>>

\* ProviderRequest is a frozen dataclass: requests are equal when their fields are.
SameRequest(c, d) == Key(c) = Key(d) /\ At[c] = At[d]

Late(c) == now >= deadline[c] \/ c \in cancelled
LateCode(c) == IF c \in cancelled THEN "CANCELLED" ELSE "TIMEOUT"

Fresh(e, t) == e.from <= t /\ t < e.until

Conclusive(e) == e.status \notin {"UNKNOWN", "ERROR"}

\* Evidence the runner makes up for a control it has nothing for.
Failure(c, code) ==
    [status |-> IF code = "MISSING" THEN "UNKNOWN" ELSE "ERROR",
     from |-> At[c], until |-> At[c] + 1, by |-> c, client |-> None, context |-> None,
     code |-> code]

NoOutput == << >>

Init ==
    /\ now = 0
    /\ cancelled = {}
    /\ holder = [u \in Runners |-> None]
    /\ cache = [u \in Runners |-> << >>]
    /\ client = None /\ context = None /\ request = None
    /\ collected = FALSE
    /\ made = {} /\ shut = {} /\ mixed = {}
    /\ pc = [c \in Calls |-> "idle"]
    /\ deadline = [c \in Calls |-> 0]
    /\ using = [c \in Calls |-> None]
    /\ bound = [c \in Calls |-> None]
    /\ closing = [c \in Calls |-> None]
    /\ got = [c \in Calls |-> << >>]
    /\ error = [c \in Calls |-> "none"]
    /\ out = [c \in Calls |-> NoOutput]

Goto(c, label) == pc' = [pc EXCEPT ![c] = label]

Reply(c, answer) ==
    /\ Goto(c, "done")
    /\ out' = [out EXCEPT ![c] = answer]
    /\ holder' = [holder EXCEPT ![RunnerOf[c]] = None]
    \* the locals of _run are gone, its context may still be bound elsewhere
    /\ using' = [using EXCEPT ![c] = None]
    /\ bound' = [bound EXCEPT ![c] = None]
    /\ got' = [got EXCEPT ![c] = << >>]
    /\ UNCHANGED <<clock, provider, deadline, closing>>

-----------------------------------------------------------------------------
(* The runner before the provider is involved *)

Acquire(c) ==
    /\ pc[c] = "idle"
    /\ holder[RunnerOf[c]] = None
    /\ holder' = [holder EXCEPT ![RunnerOf[c]] = c]
    /\ deadline' = [deadline EXCEPT ![c] = now + Timeout]
    /\ Goto(c, "lookup")
    /\ UNCHANGED <<clock, provider, captured, got, error, cache, out>>

\* Bug: the early answer leaves the runner locked.
RefuseLocked(c) ==
    /\ pc[c] = "lookup"
    /\ Late(c)
    /\ Goto(c, "done")
    /\ out' = [out EXCEPT ![c] = [k \in Asked[c] |-> Failure(c, LateCode(c))]]
    /\ UNCHANGED <<clock, provider, captured, got, error, holder, cache, deadline>>

Refuse(c) ==
    /\ pc[c] = "lookup"
    /\ Late(c)
    /\ Reply(c, [k \in Asked[c] |-> Failure(c, LateCode(c))])
    /\ UNCHANGED <<error, cache>>

\* Where a runner's cache holds an answer for the key.
Entries(u, key) == {i \in DOMAIN cache[u] : cache[u][i].key = key}

Others(u, key) ==
    IF Entries(u, key) = {} THEN cache[u]
    ELSE RemoveAt(cache[u], CHOOSE i \in Entries(u, key) : TRUE)

\* Bug: a cached answer is reused whatever instant it is evaluated for.
UsableWithoutExpiry(c, entry) == TRUE

\* Every item of the entry is valid at the instant of this request.
Usable(c, entry) == \A k \in Asked[c] : Fresh(entry.output[k], At[c])

CacheHit(c) ==
    /\ pc[c] = "lookup"
    /\ ~Late(c)
    /\ \E i \in Entries(RunnerOf[c], Key(c)) :
          LET entry == cache[RunnerOf[c]][i]
          IN  /\ Usable(c, entry)
              /\ cache' = [cache EXCEPT ![RunnerOf[c]] = Append(RemoveAt(@, i), entry)]
              /\ Reply(c, entry.output)
    /\ UNCHANGED error

\* An expired entry has already been popped.
CacheMiss(c) ==
    /\ pc[c] = "lookup"
    /\ ~Late(c)
    /\ \A i \in Entries(RunnerOf[c], Key(c)) : ~Usable(c, cache[RunnerOf[c]][i])
    /\ cache' = [cache EXCEPT ![RunnerOf[c]] = Others(RunnerOf[c], Key(c))]
    /\ Goto(c, "open")
    /\ UNCHANGED <<clock, provider, captured, got, error, holder, deadline, out>>

-----------------------------------------------------------------------------
(* open: each access of the shared provider is a step *)

\* The except clauses of _run.  A contract error drops what was collected.
Fail(c, code) ==
    /\ Goto(c, "close")
    /\ error' = [error EXCEPT ![c] = code]
    /\ got' = [got EXCEPT ![c] = IF code = "INVALID_RESPONSE" THEN << >> ELSE @]
    /\ UNCHANGED <<clock, provider, captured, runner>>

\* The provider looks at its client first and stores one only after the
\* credential supplier has answered: two runners can both find it closed.
CheckOpen(c) ==
    /\ pc[c] = "open"
    /\ ~Late(c)
    /\ client = None
    /\ Goto(c, "context")
    /\ LET others == {d \in Calls \ {c} : pc[d] \in Window}
       IN  mixed' = IF others = {} THEN mixed ELSE mixed \cup others \cup {c}
    /\ UNCHANGED <<clock, slots, made, shut, captured, got, error, runner>>

OpenFails(c) ==
    \/ pc[c] \in {"open", "context"} /\ Late(c) /\ Fail(c, LateCode(c))
    \* another call has the provider open, or the configuration differs
    \/ pc[c] = "open" /\ ~Late(c) /\ (client # None \/ "open" \in Failures)
       /\ Fail(c, "INVALID_RESPONSE")
    \* the credential supplier fails
    \/ pc[c] = "context" /\ ~Late(c) /\ "open" \in Failures
       /\ \E code \in {"AUTH", "INTERNAL"} : Fail(c, code)

\* Bug: a context that is still there is kept.
KeepContext(c) ==
    /\ pc[c] = "context"
    /\ ~Late(c)
    /\ context' = IF context = None THEN c ELSE context
    /\ Goto(c, "client")
    /\ UNCHANGED <<clock, client, request, collected, clients, captured, got, error, runner>>

\* The credentials have been resolved in time.
StoreContext(c) ==
    /\ pc[c] = "context"
    /\ ~Late(c)
    /\ context' = c
    /\ Goto(c, "client")
    /\ UNCHANGED <<clock, client, request, collected, clients, captured, got, error, runner>>

\* Whatever client was there is overwritten.
StoreClient(c) ==
    /\ pc[c] = "client"
    /\ client' = c
    /\ made' = made \cup {c}
    /\ Goto(c, "request")
    /\ UNCHANGED <<clock, context, request, collected, shut, mixed, captured, got, error, runner>>

StoreRequest(c) ==
    /\ pc[c] = "request"
    /\ request' = c
    /\ Goto(c, "flag")
    /\ UNCHANGED <<clock, client, context, collected, clients, captured, got, error, runner>>

ClearCollected(c) ==
    /\ pc[c] = "flag"
    /\ collected' = FALSE
    /\ Goto(c, "opened")
    /\ UNCHANGED <<clock, client, context, request, clients, captured, got, error, runner>>

-----------------------------------------------------------------------------
(* collect *)

\* The operands of the lifecycle check, one load each.  The deadline is checked
\* before the first one.
Finds(c) ==
    \/ pc[c] = "opened" /\ ~Late(c) /\ client # None
    \/ pc[c] = "seeContext" /\ context # None
    \/ pc[c] = "seeRequest" /\ request # None /\ SameRequest(request, c)
    \/ pc[c] = "seeFlag" /\ ~collected

AfterLook ==
    [l \in Looking |-> CASE l = "opened" -> "seeContext" [] l = "seeContext" -> "seeRequest"
                         [] l = "seeRequest" -> "seeFlag" [] OTHER -> "mark"]

Look(c) ==
    /\ pc[c] \in Looking
    /\ Finds(c)
    /\ Goto(c, AfterLook[pc[c]])
    /\ UNCHANGED <<clock, provider, captured, got, error, runner>>

LookFails(c) ==
    /\ pc[c] \in Looking
    /\ IF pc[c] = "opened" /\ Late(c) THEN Fail(c, LateCode(c))
       ELSE ~Finds(c) /\ Fail(c, "INVALID_RESPONSE")

SetCollected(c) ==
    /\ pc[c] = "mark"
    /\ collected' = TRUE
    /\ Goto(c, "loadClient")
    /\ UNCHANGED <<clock, client, context, request, clients, captured, got, error, runner>>

LoadClient(c) ==
    /\ pc[c] = "loadClient"
    /\ using' = [using EXCEPT ![c] = client]
    /\ Goto(c, "loadContext")
    /\ UNCHANGED <<clock, provider, bound, closing, got, error, runner>>

LoadContext(c) ==
    /\ pc[c] = "loadContext"
    /\ bound' = [bound EXCEPT ![c] = context]
    /\ Goto(c, "collect")
    /\ UNCHANGED <<clock, provider, using, closing, got, error, runner>>

\* Both loads may find what a close of another runner has left.
CanRead(c) == using[c] # None /\ bound[c] # None

\* Every read checks the deadline and the cancellation of the captured context.
BoundLate(c) == bound[c] # None /\ Late(bound[c])

\* Evidence that is not valid at the requested instant keeps FAIL and ERROR.
Normalised(c, e) ==
    IF Fresh(e, At[c]) \/ e.status \in {"FAIL", "ERROR"} THEN e
    ELSE [e EXCEPT !.status = "UNKNOWN",
                   !.code = IF At[c] < e.from THEN "FUTURE" ELSE "STALE"]

\* The provider reads with the captured client: a closed one yields ERROR.
Evidence(c, o) ==
    LET shown == IF using[c] \in shut
                 THEN [status |-> "ERROR", from |-> At[c], until |-> At[c] + 1, code |-> "UNAVAILABLE"]
                 ELSE [status |-> o.status, from |-> o.from, until |-> o.until, code |-> "none"]
    IN  [status |-> shown.status, from |-> shown.from, until |-> shown.until, code |-> shown.code,
         by |-> c, client |-> using[c], context |-> bound[c]]

Yield(c) ==
    /\ pc[c] = "collect"
    /\ ~Late(c) /\ CanRead(c) /\ ~BoundLate(c)
    /\ \E k \in Asked[c] \ DOMAIN got[c], o \in Observations :
          got' = [got EXCEPT ![c] =
                     [j \in DOMAIN @ \cup {k} |->
                         IF j = k THEN Normalised(c, Evidence(c, o)) ELSE @[j]]]
    /\ UNCHANGED <<clock, provider, pc, captured, error, runner>>

CollectFails(c) ==
    /\ pc[c] = "collect"
    /\ \/ Late(c) /\ Fail(c, LateCode(c))
       \/ BoundLate(c) /\ Fail(c, LateCode(bound[c]))
       \/ ~CanRead(c) /\ Fail(c, "INTERNAL")
       \* evidence for a control that was not asked for or was already given
       \/ "foreign" \in Failures /\ ~Late(c) /\ Fail(c, "INVALID_RESPONSE")
       \/ "provider" \in Failures /\ \E code \in RaisedCodes : Fail(c, code)

EndCollect(c) ==
    /\ pc[c] = "collect"
    /\ ~Late(c) /\ CanRead(c)
    /\ DOMAIN got[c] = Asked[c] \/ "short" \in Failures
    /\ Goto(c, "close")
    /\ UNCHANGED <<clock, provider, captured, got, error, runner>>

-----------------------------------------------------------------------------
(* close, and the answer *)

\* Bug: a failed run does not close the provider.
CloseOnSuccess(c) ==
    /\ pc[c] = "close"
    /\ closing' = [closing EXCEPT ![c] = IF error[c] = "none" THEN client ELSE None]
    /\ Goto(c, IF error[c] = "none" THEN "dropClient" ELSE "closed")
    /\ UNCHANGED <<clock, provider, using, bound, got, error, runner>>

\* provider.close(), also after a refused open: it loads the current client,
\* whoever opened it.
BeginClose(c) ==
    /\ pc[c] = "close"
    /\ closing' = [closing EXCEPT ![c] = client]
    /\ Goto(c, "dropClient")
    /\ UNCHANGED <<clock, provider, using, bound, got, error, runner>>

DropClient(c) ==
    /\ pc[c] = "dropClient"
    /\ client' = None
    /\ Goto(c, "dropRequest")
    /\ UNCHANGED <<clock, context, request, collected, clients, captured, got, error, runner>>

DropRequest(c) ==
    /\ pc[c] = "dropRequest"
    /\ request' = None
    /\ Goto(c, "dropContext")
    /\ UNCHANGED <<clock, client, context, collected, clients, captured, got, error, runner>>

DropContext(c) ==
    /\ pc[c] = "dropContext"
    /\ context' = None
    /\ Goto(c, "shutClient")
    /\ UNCHANGED <<clock, client, request, collected, clients, captured, got, error, runner>>

ShutClient(c) ==
    /\ pc[c] = "shutClient"
    /\ shut' = shut \cup ({closing[c]} \ {None})
    /\ closing' = [closing EXCEPT ![c] = None]
    /\ Goto(c, "closed")
    /\ UNCHANGED <<clock, slots, made, mixed, using, bound, got, error, runner>>

\* The error, and the evidence left, once close has returned or raised.
CloseError(c, code) ==
    IF code = "INTERNAL" THEN code ELSE IF Late(c) THEN LateCode(c) ELSE error[c]

CloseCodes == {"none"} \cup (IF "close" \in Failures THEN {"INTERNAL"} ELSE {})

\* Bug: a timeout keeps what was collected before it, like any other failure.
KeptDespiteTimeout(c, err, closeFailed) ==
    IF closeFailed \/ (err # "none" /\ DOMAIN got[c] = Asked[c]) THEN << >> ELSE got[c]

\* A late or cancelled run keeps nothing, and a terminal failure must not hide
\* behind evidence for every control.
Kept(c, err, closeFailed) ==
    IF \/ err \in {"TIMEOUT", "CANCELLED"} \/ closeFailed
       \/ err # "none" /\ DOMAIN got[c] = Asked[c]
    THEN << >>
    ELSE got[c]

Answer(c, kept, err) ==
    [k \in Asked[c] |->
        IF k \in DOMAIN kept THEN kept[k]
        ELSE Failure(c, IF err = "none" THEN "MISSING" ELSE err)]

\* Bug: anything the run produced is cached.
CacheableAlways(answer, err) == Capacity > 0

Cacheable(answer, err) ==
    /\ err = "none"
    /\ \A k \in DOMAIN answer : Conclusive(answer[k])
    /\ Capacity > 0

\* The key was popped by CacheMiss; popitem(last=False) until the cache fits.
Stored(u, entry) ==
    LET entries == Append(cache[u], entry)
    IN  IF Len(entries) > Capacity
        THEN SubSeq(entries, Len(entries) - Capacity + 1, Len(entries))
        ELSE entries

Return(c) ==
    /\ pc[c] = "closed"
    /\ \E code \in CloseCodes :
          LET err == CloseError(c, code)
              answer == Answer(c, Kept(c, err, code = "INTERNAL"), err)
          IN  /\ error' = [error EXCEPT ![c] = err]
              /\ Reply(c, answer)
              /\ cache' = IF Cacheable(answer, err)
                          THEN [cache EXCEPT ![RunnerOf[c]] =
                                  Stored(RunnerOf[c], [key |-> Key(c), output |-> answer])]
                          ELSE cache

-----------------------------------------------------------------------------
(* The clock and the caller's cancellation event (external) *)

Tick ==
    /\ now < MaxTime
    /\ now' = now + 1
    /\ UNCHANGED <<cancelled, provider, pc, captured, got, error, runner>>

Cancel(c) ==
    /\ "cancel" \in Failures
    /\ c \notin cancelled
    /\ pc[c] # "done" \/ \E d \in Calls : bound[d] = c
    /\ cancelled' = cancelled \cup {c}
    /\ UNCHANGED <<now, provider, pc, captured, got, error, runner>>

Step(c) ==
    \/ Refuse(c) \/ CacheHit(c) \/ CacheMiss(c)
    \/ CheckOpen(c) \/ OpenFails(c)
    \/ StoreContext(c) \/ StoreClient(c) \/ StoreRequest(c) \/ ClearCollected(c)
    \/ Look(c) \/ LookFails(c) \/ SetCollected(c) \/ LoadClient(c) \/ LoadContext(c)
    \/ Yield(c) \/ CollectFails(c) \/ EndCollect(c)
    \/ BeginClose(c) \/ DropClient(c) \/ DropRequest(c) \/ DropContext(c) \/ ShutClient(c)
    \/ Return(c)

Next ==
    \/ \E c \in Calls : Acquire(c) \/ Step(c) \/ Cancel(c)
    \/ Tick

Spec == Init /\ [][Next]_vars

\* The provider checks context.remaining() around every blocking operation, and
\* a thread waiting for the runner's lock gets it when it is free.
Fairness == \A c \in Calls : WF_vars(Step(c)) /\ WF_vars(Acquire(c))

FairSpec == Spec /\ Fairness

-----------------------------------------------------------------------------
(* Properties *)

\* A positive answer is evidence that is valid at the instant the caller
\* evaluates, whether it was collected now or came from the cache.
PassIsCurrent ==
    \A c \in Calls : pc[c] = "done" =>
        \A k \in Asked[c] : out[c][k].status \in {"PASS", "NOT_APPLICABLE"} => Fresh(out[c][k], At[c])

\* The evidence of an answer was read by a call for the same context and
\* controls, and with the client and the credentials of that call's own open:
\* a provider that another runner closes, reopens or refuses to open in between
\* costs evidence but never lends it.  It takes two overlapping opens to mix
\* them.  A run that failed says so on at least one control, with its code,
\* however many controls had been yielded before.
AnswersTheRequest ==
    \A c \in Calls : pc[c] = "done" =>
        /\ \A k \in Asked[c] :
              LET e == out[c][k]
              IN  /\ Key(e.by) = Key(c)
                  /\ e.by \notin mixed => {e.client, e.context} \subseteq {e.by, None}
        /\ error[c] # "none" => \E k \in Asked[c] : out[c][k].code = error[c]

\* A runner's cache is bounded, holds one conclusive and complete answer per
\* key, and nothing a failed run collected.
CacheIsSound ==
    \A u \in Runners :
        /\ Len(cache[u]) <= Capacity
        /\ \A i, j \in DOMAIN cache[u] : cache[u][i].key = cache[u][j].key => i = j
        /\ \A entry \in ToSet(cache[u]) : \A k \in entry.key[2] :
              Conclusive(entry.output[k]) /\ entry.key = Key(entry.output[k].by)

\* Every client that an open made has been closed when its call answers, on
\* every way out of the call: checked and proved for a provider that one runner
\* drives.
NoLeakedClient == \A c \in made : pc[c] = "done" => c \in shut

\* A call that is past its deadline or cancelled while it holds the runner
\* answers nothing conclusive, whatever was collected in time.
LateNeverCounts ==
    [][\A c \in Calls : pc[c] \in Holding /\ Late(c) /\ pc'[c] = "done" =>
          \A k \in Asked[c] : ~Conclusive(out'[c][k])]_vars

\* Every call that waits for a runner is answered in the end.
Termination == \A c \in Calls : <>(pc[c] = "done")

=============================================================================
