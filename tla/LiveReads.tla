------------------------------ MODULE LiveReads ------------------------------
(***************************************************************************)
(* One collection of live evidence: the Zabbix provider (zabbix_client.py, *)
(* zabbix_provider.py) or the GCP provider (gcp_client.py,                 *)
(* gcp_provider.py) asks a monitoring system query after query and page    *)
(* after page, while that system changes, fails and answers late.          *)
(*                                                                         *)
(* Both clients are one loop: a query is repeated while it is refused for  *)
(* now, its answer either concludes the control or leads to the next       *)
(* query, and the deadline and the cancellation are looked at before every *)
(* attempt and after every answer.  The runner around it is ProviderRunner.*)
(***************************************************************************)
EXTENDS GcpObservations

CONSTANTS
    Worlds,       \* what the monitoring system may hold, of either provider
    Requests,     \* the sets of controls that are asked for, by provider
    Selected,     \* the asset that is expected
    Retries, PageSize, MaxPages, Ttl,
    Deadline,     \* of the collection, on the clock it starts on at EvaluatedAt
    EvaluatedAt,
    MaxEdits, MaxFaults

ASSUME BudgetAssumption ==
    /\ Retries \in Nat /\ PageSize \in Nat \ {0} /\ MaxPages \in Nat \ {0}
    /\ EvaluatedAt \in Nat /\ Deadline \in Nat /\ Deadline > EvaluatedAt
    /\ Ttl \in Nat \ {0} /\ MaxSampleAge \in Nat /\ Lookback \in Nat

ASSUME SpecialAssumption ==
    /\ Never \notin Int
    /\ NoObservation \notin [status : {"PASS", "FAIL", "UNKNOWN", "ERROR"},
                             code : Codes, expires : Int \cup {Never}]

\* What is asked of a provider: KINDS and the GCP controls by name.
Controls ==
    [zabbix |-> {"host", "triggers", "maintenance", "problems", "events", "freshness"},
     gcp |-> {"asset", "identity", "metric", "resource"}]

ASSUME RequestsAssumption ==
    \A p \in DOMAIN Controls : Requests[p] \subseteq SUBSET Controls[p]

\* Rows are named by positive numbers, which both providers follow in order, and
\* there are finitely many of them.
ASSUME WorldsAssumption ==
    \A w \in Worlds :
        /\ w.provider \in DOMAIN Controls
        /\ w.provider = "zabbix" =>
               /\ IsFiniteSet(w.events)
               /\ \A e \in w.events : e.id \in Nat \ {0}
               /\ \A e, f \in w.events : e.id = f.id => e = f
               /\ w.items \in Seq(Range(w.items))
               /\ \A i \in DOMAIN w.items : w.items[i] = Absent \/ w.items[i].clock \in Nat
        /\ w.provider = "gcp" =>
               /\ w.series \in Seq(SUBSET Nat)
               /\ IsFiniteSet(w.assets) /\ w.assets \subseteq Nat \ {0}
               /\ w.resource = Absent \/ w.resource.enabled \in {"on", "off", "unset"}

VARIABLES
    clock, world,
    edits, faults,     \* how often the world changed and failed, up to the bounds
    provider, todo,    \* the controls still to be observed
    got,               \* the answers to the control's queries so far
    pages,             \* those of its paged query
    attempt,           \* of the current query
    calls,             \* the queries answered or given up so far
    yielded,           \* the evidence the last step handed to the runner
    ended,             \* "none", "done", or the error collect raises
    during             \* the worlds since the control's first answer

vars == <<clock, world, edits, faults, provider, todo, got, pages,
          attempt, calls, yielded, ended, during>>

environment == <<clock, world, edits>>
(* ------------------------- controls and queries ------------------------ *)

\* The first query of a collection is a control of its own here, "discover",
\* which yields no evidence unless it fails.
Queries(control) ==
    CASE control = "discover" -> <<"discover">>
      [] control = "host" -> <<"host">>
      [] control = "triggers" -> <<"host", "triggers">>
      [] control = "maintenance" -> <<"host", "direct", "grouped">>
      [] control \in {"problems", "events"} -> <<"host", "triggers", control>>
      [] control = "freshness" -> <<"host", "items">>
      [] control = "identity" -> << >>
      [] OTHER -> <<control>>

Paged == {"problems", "events", "metric", "asset"}

\* The order they are taken in.
Rank == [discover |-> 0, host |-> 1, triggers |-> 2, maintenance |-> 3, problems |-> 4,
         events |-> 5, freshness |-> 6, asset |-> 7, identity |-> 8, metric |-> 9,
         resource |-> 10]

Control == CHOOSE c \in todo : \A d \in todo : Rank[c] <= Rank[d]
Query == Queries(Control)[Len(got) + 1]

\* The samples of a series in the interval, and the rows of a paged query.
Interval == (EvaluatedAt - Lookback)..EvaluatedAt
Sampled(w, i) == IF i \in DOMAIN w.series THEN w.series[i] \cap Interval ELSE {}
Rows(w, query) ==
    CASE query = "events" -> {e \in w.events : e.clock \in Interval}
      [] query = "problems" -> {e \in w.events : e.clock \in Interval /\ ~e.resolved}
      [] query = "metric" ->
             {[name |-> i, points |-> Sampled(w, i)] :
                  i \in {j \in DOMAIN w.series : Sampled(w, j) # {}}}
      [] query = "asset" -> w.assets

Key(query, row) == IF query \in {"events", "problems"} THEN row.id
                   ELSE IF query = "metric" THEN row.name ELSE row

\* The page after a row, eventid_from or the page token: the next rows in the
\* order of their keys.
PageAfter(query, key) ==
    LET rest == {r \in Rows(world, query) : Key(query, r) > key} IN
    {r \in rest :
        Cardinality({s \in rest : Key(query, s) <= Key(query, r)}) <= PageSize}

KeysOf(query, page) == {Key(query, r) : r \in page}

Cursor == IF pages = << >> THEN 0 ELSE Max(KeysOf(Query, pages[Len(pages)]))

\* A system that ignores the cursor answers with its first page again.
Page(stuck) == PageAfter(Query, IF stuck THEN 0 ELSE Cursor)

\* Zabbix ends with a short page; GCP names a next page only if there is one.
FinalPage(page) ==
    IF provider = "zabbix" THEN Cardinality(page) < PageSize
    ELSE page = {} \/ PageAfter(Query, Max(KeysOf(Query, page))) = {}

\* A row that is not after the cursor; a page token that was followed before.
NoProgress(page) ==
    /\ page # {}
    /\ IF provider = "zabbix" THEN \E k \in KeysOf(Query, page) : k <= Cursor
       ELSE /\ ~FinalPage(page)
            /\ \E n \in DOMAIN pages :
                   Max(KeysOf(Query, pages[n])) = Max(KeysOf(Query, page))

(* ---------------------- what an answer leads to ------------------------ *)

\* The observation a single answer leads to, NoObservation if another query
\* follows.
Conclude(answer) ==
    LET final == Len(got) + 1 = Len(Queries(Control)) IN
    CASE Query = "discover" ->
             IF provider = "gcp" THEN OfProject(answer)
             ELSE IF answer = "supported" THEN NoObservation ELSE Unobserved("UNAVAILABLE")
      [] Query = "host" ->
             IF Control = "host" THEN OfHost(answer)
             ELSE IF Control = "maintenance" THEN VisibleHost(answer) ELSE EnabledHost(answer)
      [] Query = "triggers" -> IF final THEN OfTriggers(answer) ELSE EvaluatedTriggers(answer)
      [] Query = "direct" -> NoObservation
      [] Query = "grouped" -> OfMaintenance(got[1], got[2], answer, EvaluatedAt)
      [] Query = "items" -> OfItems(answer, EvaluatedAt)
      [] Query = "resource" -> IF answer = Absent THEN Unknown("MISSING") ELSE OfPolicy(answer)

ConcludePages(all) ==
    CASE Query = "metric" -> OfMetric(all, EvaluatedAt)
      [] Query = "asset" -> OfAsset(all, Selected)
      [] OTHER -> OfRecords(Flat(all))

Answer(w, query) ==
    CASE query = "discover" -> w.discover
      [] query = "host" -> w.host
      [] query = "triggers" -> w.triggers
      [] query = "direct" -> Direct(w.windows)
      [] query = "grouped" -> Grouped(w.windows)
      [] query = "items" -> w.items
      [] query = "resource" -> w.resource

(* ------------------------------- actions ------------------------------- *)

Init ==
    /\ clock = EvaluatedAt /\ edits = 0 /\ faults = 0
    /\ world \in Worlds /\ provider = world.provider
    /\ \E controls \in Requests[provider] : todo = {"discover"} \cup controls
    /\ got = << >> /\ pages = << >> /\ attempt = 0 /\ calls = 0 /\ yielded = {}
    /\ ended = "none" /\ during = {world}

Expired == clock >= Deadline

Until(expires) ==
    IF expires = Never THEN EvaluatedAt + Ttl ELSE Min({expires, EvaluatedAt + Ttl})

Evidence(control, o) ==
    [control |-> control, status |-> o.status, code |-> o.code, until |-> Until(o.expires),
     during |-> during]

\* The control is concluded; a failed discovery concludes every control.
Yield(o) ==
    /\ IF Control = "discover"
       THEN yielded' = {Evidence(c, o) : c \in todo \ {Control}} /\ todo' = {}
       ELSE yielded' = {Evidence(Control, o)} /\ todo' = todo \ {Control}
    /\ got' = << >> /\ pages' = << >> /\ attempt' = 0 /\ during' = {world}
    /\ UNCHANGED ended

Raise(code) ==
    /\ ended' = code /\ yielded' = {}
    /\ UNCHANGED <<todo, got, pages, attempt, during>>

\* A timeout takes the whole collection with it, any other failure one control.
Fail(code) == IF code = "TIMEOUT" THEN Raise(code) ELSE Yield(Unobserved(code))

NextQuery(answer) ==
    /\ got' = Append(got, answer) /\ attempt' = 0
    /\ yielded' = {} /\ UNCHANGED <<todo, pages, ended, during>>

Proceed(answer) ==
    LET o == Conclude(answer) IN
    IF o # NoObservation THEN Yield(o)
    ELSE IF Control = "discover"
    THEN /\ todo' = todo \ {Control} /\ attempt' = 0 /\ during' = {world}
         /\ yielded' = {} /\ UNCHANGED <<got, pages, ended>>
    ELSE NextQuery(answer)

ExhaustedPartially(all) == ConcludePages(all)

\* A collection that does not end within the page budget is not returned.
Exhausted(all) == Unobserved("INVALID_RESPONSE")

NextPage(page) ==
    /\ pages' = Append(pages, page) /\ attempt' = 0
    /\ yielded' = {} /\ UNCHANGED <<todo, got, ended, during>>

NoPageLimit(n) == FALSE

LastAllowed(n) == n = MaxPages

Turn(page) ==
    LET all == Append(pages, page) IN
    IF NoProgress(page) THEN Fail("INVALID_RESPONSE")
    ELSE IF FinalPage(page) THEN Yield(ConcludePages(all))
    ELSE IF LastAllowed(Len(all)) THEN Yield(Exhausted(all))
    ELSE NextPage(page)

Asking == ended = "none" /\ todo # {} /\ Queries(Control) # << >>

\* An attempt begins only while there is time.
Asked == Asking /\ ~Expired /\ UNCHANGED <<environment, provider>>

Answered == Asked /\ calls' = calls + 1

AnswerOne ==
    Answered /\ Query \notin Paged /\ Proceed(Answer(world, Query)) /\ UNCHANGED faults

AnswerPage == Answered /\ Query \in Paged /\ Turn(Page(FALSE)) /\ UNCHANGED faults

Faulty == faults < MaxFaults /\ faults' = faults + 1

AnswerStuck == Answered /\ Query \in Paged /\ pages # << >> /\ Faulty /\ Turn(Page(TRUE))

\* 429 and 5xx are asked again, a bounded number of times.
Busy ==
    /\ Asked /\ UNCHANGED faults
    /\ IF attempt < Retries
       THEN /\ attempt' = attempt + 1 /\ yielded' = {}
            /\ UNCHANGED <<todo, got, pages, ended, during, calls>>
       ELSE /\ calls' = calls + 1
            /\ \E code \in {"RATE_LIMIT", "UNAVAILABLE"} : Fail(code)

\* Everything else a read may end with; only GCP tells a missing object apart.
Refused ==
    /\ Faulty /\ Answered
    /\ \/ \E code \in {"AUTH", "UNAVAILABLE", "INVALID_RESPONSE", "TIMEOUT"} : Fail(code)
       \/ provider = "gcp" /\ Fail("MISSING")

\* bind_adc: the injected credentials are refused, which GCP does not treat as
\* the failure of one read.
Unbound == provider = "gcp" /\ Faulty /\ Answered /\ Raise("AUTH")

\* The identity of the principal is never attested.
Identify ==
    /\ ended = "none" /\ todo # {} /\ Queries(Control) = << >> /\ ~Expired
    /\ Yield(Unknown("UNAVAILABLE"))
    /\ UNCHANGED <<environment, provider, faults, calls>>

\* context.remaining() raises: the time is up, or the caller has cancelled.
Expire ==
    /\ ended = "none" /\ todo # {}
    /\ \/ Expired /\ Raise("TIMEOUT")
       \/ Raise("CANCELLED")
    /\ UNCHANGED <<environment, provider, faults, calls>>

Finish ==
    /\ ended = "none" /\ todo = {} /\ ended' = "done" /\ yielded' = {}
    /\ UNCHANGED <<environment, provider, faults, calls, todo, got, pages, attempt, during>>

(* ---------------------- the monitoring system, time -------------------- *)

Samples(w) ==
    IF w.provider = "zabbix"
    THEN {w.items[i].clock : i \in {j \in DOMAIN w.items : w.items[j] # Absent}}
         \cup {e.clock : e \in w.events}
    ELSE UNION Range(w.series)

\* One object changes; what is stored is not of the future.
Edit ==
    /\ ended = "none" /\ edits < MaxEdits /\ edits' = edits + 1
    /\ world' \in {w \in Worlds : /\ w.provider = provider
                                 /\ Cardinality({f \in DOMAIN w : w[f] # world[f]}) = 1
                                 /\ \A t \in Samples(w) : t <= clock}
    /\ during' = IF got = << >> /\ pages = << >> THEN {world'} ELSE during \cup {world'}
    /\ UNCHANGED <<clock, faults, provider, todo, got, pages, attempt, calls, yielded, ended>>

Tick ==
    /\ ended = "none" /\ clock < Deadline /\ clock' = clock + 1
    /\ UNCHANGED <<world, edits, faults, provider, todo, got, pages, attempt,
                   calls, yielded, ended, during>>

Collect ==
    \/ AnswerOne \/ AnswerPage \/ AnswerStuck \/ Busy \/ Refused \/ Unbound
    \/ Identify \/ Expire \/ Finish

Next == Collect \/ Edit \/ Tick

Spec == Init /\ [][Next]_vars

(* ------------------------------ properties ----------------------------- *)

Throughout(worlds, S(_)) == {x \in UNION {S(w) : w \in worlds} : \A w \in worlds : x \in S(w)}

Monitored(worlds) == \E w \in worlds : w.host # Absent /\ ~w.host.disabled

Evaluated(worlds) ==
    \E w \in worlds : \A i \in DOMAIN w.triggers :
        w.triggers[i] # Absent /\ ~w.triggers[i].disabled /\ ~w.triggers[i].unknown

\* What favourable evidence says was so at some moment of the reads it rests
\* on, and nothing that was there at all of them contradicts it.
Witnessed(e) ==
    LET worlds == e.during IN
    CASE e.control = "host" -> Monitored(worlds)
      [] e.control = "triggers" ->
             Monitored(worlds) /\ Evaluated(worlds)
      [] e.control = "maintenance" ->
             /\ \E w \in worlds : w.host # Absent /\ ~w.host.maintained
             /\ \A m \in Throughout(worlds, LAMBDA w : w.windows) :
                    m.via \cap {"host", "group"} # {} => ~Overlaps(m, EvaluatedAt)
      [] e.control \in {"problems", "events"} ->
             /\ Monitored(worlds) /\ Evaluated(worlds)
             /\ \A r \in Throughout(worlds, LAMBDA w : w.events) :
                    r.clock \in Interval => e.control = "problems" /\ r.resolved
      [] e.control = "freshness" ->
             /\ Monitored(worlds)
             /\ \E w \in worlds : \A i \in DOMAIN w.items :
                    w.items[i] # Absent /\ e.until <= w.items[i].clock + MaxSampleAge
      [] e.control = "resource" ->
             \E w \in worlds : w.resource # Absent /\ w.resource.enabled = "on" /\ w.resource.valid
      [] e.control = "metric" ->
             \A i \in UNION {DOMAIN w.series : w \in worlds} :
                 (\A w \in worlds : Sampled(w, i) # {})
                 => \E w \in worlds : e.until <= Max(Sampled(w, i)) + MaxSampleAge
      [] e.control = "asset" -> \E w \in worlds : Selected \in w.assets

\* No control is favourable for want of looking: neither a page that was not
\* read, nor a host or trigger that is not monitored, nor an answer that was
\* repeated makes a PASS, and no PASS outlives the samples it was made from,
\* with the system changing between any two reads.
PassIsWitnessed == \A e \in yielded :
    e.status = "PASS" => EvaluatedAt < e.until /\ Witnessed(e)

\* docs/ZABBIX_PROVIDER_V1.md: with all the controls there are at most
\* 13 + 2 * max_pages logical calls, each of at most 1 + retries attempts.
CallBudget ==
    /\ attempt <= Retries
    /\ calls <= IF provider = "zabbix" THEN 13 + 2 * MaxPages ELSE 2 + 2 * MaxPages
=============================================================================
