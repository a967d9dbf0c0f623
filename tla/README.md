# PreflightOps in TLA+

A model of PreflightOps from the evidence it collects to the records it writes:
how live systems are read, how observations become an assessment, which policy
and waivers apply, what is published, and what is reported about it. The modules
are translated from `preflightops/` and `app.py`; TLC checks them on small
instances, and TLAPS proves the safety properties of the live reads and the evidence
runtime, of policies, assessments and their reports, of plans and their delivery,
the v1 push, the command line and the web page for every value of their constants.

## 1. The system

PreflightOps assesses a production change before it is deployed. A command line,
a Streamlit page and a GitHub Action take documents (services, the change,
Terraform or Kubernetes files), score them, collect evidence from external
providers, apply a policy, render reports and, if asked to, publish evidence to
ServiceNow or Jira. It persists nothing itself: what lasts is in the external
systems and in the artifacts it writes.

| Component | State | Operations | Talks to | Hard behaviour | Correct when |
|---|---|---|---|---|---|
| ServiceNow adapter v2, `servicenow_enterprise.py` `execute` | attempt counters, retry budget, the result being built; the Change and the delivery key live in the gateway | gates, authorization, Change lookup, capability check, POST with retries, reconciliation, result and event | Evidence Gateway over HTTP, token supplier, event sink | lost, late and false answers, other editors, concurrent and repeated executions, crashes, a raising sink | one write per key, never on a version that was not previewed, no claim the gateway does not bear out |
| ServiceNow adapter v2, plan | none; plans are dictionaries their holder can change | mapping, canonical hashes, validation of an altered plan | the caller, who previews the plan | what is and is not part of the delivery key, parts of several plans combined | a key is exactly a delivery, only what was built is delivered, only to instances that were named |
| ServiceNow adapter v2, network policy and transport | OAuth token and its expiry | URL and DNS validation, sockets, token refresh | the gateway | I/O | only allowed hosts are reached |
| Evidence provider runtime, `provider_runtime.py` | a lock, an LRU cache, a deadline per run | `run`: lookup, open, collect, close, store | a provider, a clock, a cancellation event | shared providers, timeouts during collection, late output, stale cache | a positive answer is current and belongs to the request, failures are visible |
| GCP provider, `gcp_*.py` | current client, request, "collected" flag | open, collect, close; paged and retried reads | GCP APIs, credential supplier | check-then-set of the client, page tokens, quota | a client is used by one request and closed |
| Zabbix provider, `zabbix_*.py` | captured client | open, collect, close; five controls, event pages, retries | Zabbix API | a system that changes between queries, repeated and full pages, the call budget | a PASS says what was so |
| Provider aggregation and contract, `provider_aggregation.py`, `provider_contract.py` | none | validate evidence, one observation per expected identity, effective status, cap of the confidence | runtime, Trust Kernel | order, duplicates, expiry | what is missing, stale or given twice never adds up to a PASS |
| Trust Kernel, `assessment.py` | none | freshness and status of each control, verdict, confidence, recommendation, validation of a contract | aggregation, risk engine, report | boundary instants, evidence from the future | a recommendation to proceed is earned |
| Policy governance, `policy_governance.py`, `governance_failure.py`, `governance_input.py`, `policy.py` | none; policy bundles and waivers are files | load, resolve overlays, diff, simulate, apply waivers, decide on failures | risk engine, command line | windows of bundles and waivers, order of overlays, replay at an earlier instant | mandatory controls keep their floor, waivers only annotate, a replay reproduces |
| Risk engine and semantic validation, `risk_engine.py`, `validators.py`, `semantic_validation.py` | none | rules, weights, score, level, evidence failures | policy, scanners, command line | combinations of rules and weights | what is found reaches the score under the policy in force |
| Scanners, `terraform_plan.py`, `kubernetes_manifest.py`, `scanners.py`, `monitoring.py`, `changed_files.py` | none; a page loop in `changed_files.py` | rules over documents, page limits | GitHub API (changed files) | limits, truncated lists | an incomplete list is not treated as complete |
| Authenticated evidence and auditable report, `evidence.py`, `auditable_report.py` | none | sign, verify, project | files | order of verification steps | nothing unverified is used |
| Live push v1, `servicenow.py`, `integrations.py` | none locally; `change_request` records and attachments | lookup, create or update, read-back, second lookup, attach; Jira search, create or update | ServiceNow Table API, Jira | no compare-and-set, no unique key, retries, late writes | a successful push names the one record that holds its payload |
| Command line, page, Action, `cli.py`, `app.py`, `action.yml` | page session state | order of outputs, confirmation, push, exit code | everything above | partial failure, stale confirmation | what was sent is reported |
| Reports and tickets, sample data, release scripts | none | formatting, build | | | |

The components call each other synchronously. Concurrency comes from outside:
several operators or pipelines execute the same plan, several runners share one
provider object, other people edit the Change, and servers go on processing
requests their client has given up on.

## 2. Modules

```
MCServiceNowDelivery -> ServiceNowDelivery -> DeliveryContract (refined)
MCServiceNowPlan     -> ServiceNowPlan
MCProviderRunner     -> ProviderRunner
MCServiceNowPush     -> ServiceNowPush
MCLiveReads          -> LiveReads -> GcpObservations -> ZabbixObservations
MCAssessedChange     -> AssessedChange -> ProviderAggregation
                                       -> AuditableReport -> TrustKernel
                                       -> RiskEngine -> PolicyGovernance, Scanners
MCGovernedChange     -> GovernedChange -> RiskEngine, ChangedFiles -> Scanners
MCCommandLine        -> CommandLine -> EvidenceEnvelope
MCAppSession         -> AppSession
```

Each `MC` module gives instances of one system; `X_proofs` holds the theorems
about `X`, and `ServiceNowDelivery_proofs` those about `ServiceNowPlan` too, whose
initial states, steps and specification are named for it so that both can be
extended together (`PlanInit`, `PlanNext`, `PlanSpec`). Modules without
VARIABLES are pure algorithms, translated as operators and composed by the
modules that have a state: `ProviderAggregation`, `TrustKernel`,
`AuditableReport`, `RiskEngine`, `PolicyGovernance`, `Scanners`, `ChangedFiles`,
`ZabbixObservations`, `GcpObservations` and `EvidenceEnvelope`.

### ServiceNowDelivery

A run is one call of `execute`; its program counter names the place in the code.

| Code | Model |
|---|---|
| request flags, confirmation, dependencies, drafts feature | `mode`; `Gate` has one disjunct per early return, `Admitted` is their common remainder |
| `build_servicenow_plan_v2` fixing `expected_sys_mod_count` | `BuildPlan`, `preview` |
| `_authorization`, `_lookup_target`, `_validate_capability` | `Authorize`, `LookupTarget`, `LookupMissing`, `ValidateCapability` |
| `_send_read`: its own attempts | `tries`, `ReadAgain`, `ReadFailed` |
| `_write_gateway`, one iteration | `SendPost`, then `Timeout`, `TransportFailed`, `Accepted`, `RetryAfter`, `Refused` |
| `_reconcile` after a timeout or 5xx, and the read-back after a 2xx | pc `reconcile` and `readback`; `ReconcileFound`, `ReconcileAbsent`, `ReconcileUnproven` |
| `_failure`, the `except` of `execute` | `Return` (inside the `try`), `Raise` with `CaughtOutcome` |
| `_finish` and the sink | `Finish`, `SinkRaises` |

The gateway is external. The model uses what the adapter requires it to attest:
the delivery key is resolved first, then the target, then the version; the
write, the key and the version are one transaction. `gw` says whether this
gateway really has those guarantees, and every property is checked with
gateways that do not. Requests stay in `wire` until they are processed or lost,
so a POST can be processed after its run has timed out, posted again, ended or
crashed. A plan is a model value: the digests bind the payload to the key, so a
key cannot come back with another payload and `REPLAY_MISMATCH` only arises
from an altered plan. HTTP statuses are grouped by what the adapter does with
them (`error` stands for the 4xx and 5xx that go to `_raise_http_error`).

`DeliveryContract` is the promise to the caller: one write per key, one final
claim per execution. `ContractHolds` is the refinement.

### ServiceNowPlan

`build_servicenow_plan_v2` as `PlanFor` under the checks `Buildable`, the mapping of
a report to fields as `MapReport`, and `validate_servicenow_plan_v2` as `Valid`,
which build calls last and `execute` first. A digest is the value it is of, so
keys are tuples and equal keys mean equal contents; hash collisions are left
out. Plans are dictionaries: `Alter` gives a field, `Exchange` a part of one
held plan to a copy of another. What the key covers is `SameDelivery`; the origin of
the instance is not part of it, in the code as in the model, so
`OnlyBuiltDeliveries` says of the origin only that some call of build has named it
(section 5). The key of a delivery is the link to
`ServiceNowDelivery`: `IdentitiesExact` proves the `PlansAssumption` made there,
that plans of one key have one operation.

### ProviderRunner

A call of `run` acquires its runner's lock, looks the cache up, opens the
provider, collects, closes, and answers. Several runners hold one provider, and
no lock protects its fields: `open` checks the client (`CheckOpen`) and stores
context, client, request and flag, `collect` checks the same four (`Look`), sets
the flag and loads client and context, `close` loads the client, drops three
fields and closes what it loaded, and each of these accesses is a step of its
own. The clock and the caller's cancellation are actions of the environment, so
the deadline can pass before every check. Evidence carries status, validity and,
as an observation, the call that read it and the calls whose client and
credentials it was read with. Two more history variables are `made`, the calls
that have made a client, and `mixed`, those whose open and capture overlapped
another's.

### LiveReads

What `collect` does with that client: one control after another, each a list of
queries, one of them paged. `Collect` is one logical call of the client with its
answer: served, refused for now and repeated, failed, or late. The queries of a
control and what each answer concludes are in `ZabbixObservations` and
`GcpObservations`. `Edit` changes the monitoring system between any two answers;
`during` records the worlds seen by a control, so that `PassIsWitnessed` can ask
whether what evidence says was ever so. A system is a record of the few objects
the controls look at; `MCLiveReads` takes healthy systems and all that differ
from one in a single field.

### AssessedChange

`assess_risk_with_provider_evidence`: the risk report (`RiskEngine`), the
aggregate of the observations (`ProviderAggregation`), the kernel over both
(`TrustKernel`) and the report projected from the contract
(`AuditableReport`). `Collect` appends an observation of any kind, `Tick` lets it
expire, `Assess` and `Refuse` are the two outcomes of a call. The validators of
contract and report are operators of their own, and `OwnOutputIsValid` says that
what is built passes them. Lists that the code sorts are sets.

### GovernedChange

A change under a governed policy. `Adopt` replaces the policy file, `Simulate` is
`policy simulate` with a candidate, `Assess` a run with `--policy`, `--waiver`,
`--governance-at` and `--changed-files`, `StartFetch`,
`FetchPage` and `FetchFails` the page loop over the pull request's files. The
policy is a function from fields to values, an overlay a function applied over
it. `Replay` runs the inputs of a report again, with `--governance-at` for the
instant its record holds; its outcome, a report or a refusal, is kept in `replay`,
and any other refusal (exit 2) changes nothing and is not a step. The instant is
handed to the policy and to the waivers apart (`PolicyInstant`, `WaiverInstant`),
and a report has the record of the decision as a part of its own, which
`ApplyWaivers` makes anew as the code does. Persons are compared as the code does,
by name without outer spaces and case: a person who goes by two names passes as
two. `Scanners` holds the rules of the plan and manifest scanners over records
that group resource types and attributes by the rule they meet;
`ChangedFiles` decides which changed files reach them, by kinds as they are
written (`spelled`), where the scanner folds their case; the files of a kind are a
set there, as what is found in them is sorted.

### CommandLine

`main` stage by stage: `Load`, `Write`, `Gate`, `Ticket`, `Preview`,
`AskServiceNow`, `PushServiceNow`, `AskJira`, then `push_to_jira` as `Search`,
`Put` or `Post`, and `Finish` with the exit code. Every write of a file, every
prompt and every request may fail, before or after its effect. The push into
ServiceNow is one step; its inside is `ServiceNowPush`. After the last run
`Generate` signs the report on disk, `Alter` changes the stored envelope in
every way that keeps its shape, and `Verify` of `EvidenceEnvelope` is applied to
every combination of what a verifier may pin.

### ServiceNowPush

A push looks its change up, sends a PATCH (up to three times) or a POST or
nothing, reads the record back, looks the identity up again, and attaches the
evidence with the same pattern. A record's `by` and `creator` are observations.
A proxy may answer 504 while the instance still processes the write
(`Refused` with the write kept in `wire`, applied by `LateWrite`). The retries
of reads are not counted: a read has no effect and only its last answer counts.
Every push chooses its reference when it starts.

### AppSession

The script of `app.py` from top to bottom, on the state it keeps. An event of
the browser (`EditInput`, `LoadExample`, `ClickRun`, `ClickSend`, `Toggle`,
`ClickOther`) stops the run in progress at its next call into the host and
starts another with the callback first. The callbacks are steps of the run:
`_load_example` fills in one editor after the other (`FillIn`), and both drop the
result (`PopResult`) and then the outcomes (`PopStatus`), as a successful
assessment stores its result, its change document and then drops the outcomes.
An event between two of these accesses leaves the update half done, which the
history variable `torn` remembers until an update has made its last access. A
live push makes no call into the host: it goes on (`calls`), and `Return` writes
its outcome into the dictionary its run took, which may have been replaced
(`held`).

The host is assumed to be able to stop the script at every access to
`st.session_state`, in callbacks too, and to begin the next run at once; whether
an installed version of it does so in a callback is outside of the repository.
If it does not, the states with `torn > 0` do not occur, and what the properties
say of the others stands.

## 3. Checks

`expect` is *pass* unless the table says otherwise.

| Run | Properties | Instance and what it shows |
|---|---|---|
| `rival_plans` | `FirstPostStateHolds`, `ConflictNeverWrites`, `OneWritePerKey`, `NoStaleOverwrite`, `ContractHolds` | one assessment previewed twice: two executions of two versions under one delivery key, two POSTs each, race for a Change that others edit or withdraw, with lost, late and false answers and crashes; the delivery refines its contract |
| `gates` | `PostOnlyWhenCleared`, `EventMatchesResult`, `Termination` | an enrich request or a draft, alone, with every request that differs from a confirmed write in one flag, a Change that is edited before or after the lookup, three attempts, every fault, a raising sink |
| `cached_answers` | `PassIsCurrent`, `CacheIsSound`, `NoLeakedClient`, `LateNeverCounts`, `Termination` | three calls at two instants on one runner, a cache of one entry, every failure but cancellation |
| `shared_provider` | `AnswersTheRequest` | three calls on two runners, one provider, cancellations, every order of their loads and stores |
| `live_reads` | `PassIsWitnessed`, `CallBudget` | one collection of all controls, Zabbix or GCP, from a system that changes twice and fails once |
| `assessed_change` | `ProceedIsEarned`, `ArrivalOrderIrrelevant`, `OwnOutputIsValid`, `NothingHidden`, `DecayIsMonotone` | four drafts, three observations of nine kinds in any order, three instants |
| `governed_change` | `FloorHolds`, `ResolvedByPriority`, `WaiversOnlyAnnotate`, `WeakeningIsDeclared`, `NothingUnseen`, `ReplayReproduces` | six bundles, five waivers, four pull requests on one to three pages, three instants |
| `command_line` | `ExitTellsAll`, `OneIssue`, `VerifiedIsAuthentic`, `PushedOnlyWhenCleared` | two runs with edits between and during them, then evidence |
| `same_change` | `OneIdentity`, `CreatesAtMostOne`, `SuccessIsStored`, `AttachedOnce`, `Termination` | two overlapping pushes of one change with evidence, by correlation id or reference, onto tables that already hold none, one or two records or attachments |
| `app_session` | `OutcomeIsOfResult`, `NoUnconfirmedCall` | edits, an example, three settings, callbacks and assessments stopped half-way, two live pushes that outlive their runs |
| `service_now_plan` | `IdentitiesAreExact`, `OnlyBuiltDeliveries` | seventeen calls of build that differ in one or two arguments, two allowed instances and one that is not, four plans held at a time, fields and parts exchanged |
| `error_not_reconciled` | *violation* of `AppliedIsNeverFailed` | the runtime specification against the code, section 5 |

PROJECT.json repeats this list, with the plausible bug each property catches
under its run ("mutants").

**Bounds.** `Attempts` is 2, so that a POST can overtake the one before it, and 3
where every loop has to end; the proofs cover 1 to 5. `MaxCount` is one foreign
edit: the version only has to differ once. `gates` has one execution at a time
(the state constraint `OnlyOne`), of either operation: what rivals do is the question of `rival_plans`.
Two executions suffice for every race
over one key. The provider runs have one cache entry, so a second key evicts;
two controls of one call, so one can be missing while the other is there; in
`cached_answers` a clock of one tick that may pass before any check, so each check
can be the first late one; in `shared_provider` no tick, cancellation takes its
place. Its three calls let one open, another refuse and close, and the third
reopen.
`live_reads` has pages of one row and two of them, so that a list can end at, on
and beyond the limit, and two changes of the world, one before and one after a
read. `assessed_change` has two expected identities and three arrivals, so that
one can arrive twice and the other late; the report limits are 1 and 2, so lists
are cut. `governed_change` has three overlays, two of one priority, any subset of
which may match, and pages of two files; a list read of one draft may be used in the
checkout of another, which lacks some of its files. `command_line` has two runs, so that
the second finds what the first left. Two pushes race in `same_change`; the
tables they start from stand for what earlier pushes left behind. `service_now_plan`
holds four plans, so one can be made of three, and its marker has two characters
against limits of one and three; the proof covers any number of alterations.
`app_session` has two slots for calls, so that one push can outlive two runs, and
`MaxTorn` lets one update be stopped half-way before the next completes; the
number of events is not bounded.

**Fairness.** `FairSpec` of the delivery assumes weak fairness of a run's own
steps: `execute` is a straight line of calls, each of which returns or raises
within the transport's timeout, so a run that can take a step takes one. No
answer is assumed to come: `Timeout` is a step of the run. The provider runner
assumes it for a call's steps and for taking a free lock; its deadline checks
are in the code, and a provider that blocks without looking at its context is
outside the contract. The push assumes the same of `_http_request`. Starting,
editing, ticking, cancelling and crashing are never fair, and the other
specifications assume no fairness: a user or a pipeline may stop at any time.

Deadlock is not checked where everything may end: executions, calls, pushes and
collections terminate.

## 4. Proofs

TLC evaluates every assumption in the runs that instantiate its module. Each
inductive invariant was first checked on the instance of the run named here.

**`ServiceNowDelivery_proofs`** (`rival_plans`) proves, for any sets of runs,
plans and keys, any faults, any number of foreign edits and 1 to 5 attempts:
`Invariance` (`IInv`), `TypeCorrect`, `DeliveredOnce` (`OneWritePerKey`),
`NeverStale` (`NoStaleOverwrite`), `VerifiedMeansDelivered`
(`VerifiedIsDelivered`) and `ConflictIsFinal` (`ConflictNeverWrites`). The
assumptions are `PlansAssumption` (equal keys have equal operations),
`AttemptsAssumption` and `EnvironmentAssumption`. None of the properties is
inductive alone. `IInv` adds what they rest on:

- `Phased`: a run that has posted is past the gates, so its gateway attests
  both guarantees. Without it a write could come through a gateway that keeps
  no unique key.
- `Accounted`: requests and writes carry attempts that were made, so a new POST
  is not confused with an old one.
- `PreviewedBefore`, `PlannedFirst`: the version of a plan exists and is never
  above the current one. A version that has moved on cannot come back, which is
  what makes a refusal final.
- `RejectionsFinal`: once a run has been refused or has claimed a conflict it has
  written nothing, and each of its POSTs still on its way is aimed at a closed
  target or an older version. It is why a CONFLICT stays true although an
  earlier POST may be late.

On top of `IInv` and under the same assumptions it proves `GatesHold`
(`PostOnlyWhenCleared`), `SinkAgrees` (`EventMatchesResult`) and
`UnwrittenIsUnwritten` (`FirstPostStateHolds`). The first two rest on
`ReportInv`: how far a run has got says what it was asked (`Asked`), and what the
sink has been handed goes with the result (`Told`). The third follows a run's
only POST through the wire (`Fate`): `IInv` alone does not say that a POST which
a proxy has turned away, or which has been written, is no longer on its way.

Its last theorem is `Refinement` (`ContractHolds`): the initial states map to
that of `DeliveryContract`, and every step to a write, a claim or a stutter. A
claim is a `Finish`, a write a `GatewayWrite`; that the latter is allowed to a
run follows from `IInv` for a conflict, from the unique key for a second
delivery, and from `QuietInv`, that a run which reports a mere look has not
posted.

The same module proves about plans (`service_now_plan`), for any calls, reports,
mappings and destinations and any number of alterations: `IdentitiesExact`
(`IdentitiesAreExact`), `NothingInvented` (`OnlyBuiltDeliveries`) and
`MappingIsKept` (`WithinMapping`: models and size limits that only build looks at
hold of what is executed).
It needs no assumption but that digests are ideal. Whatever is exchanged, keys and
origins are copied and never computed, so each that is held was built (`HeldInv`,
`FromBuilt`); a valid plan is what its key says (`KeyCovers`), so it is what some
call built. The instance it is sent to was named by a call too, but by which one
no identity says.

**`ProviderRunner_proofs`** (`cached_answers`, `shared_provider`) proves, for any
runners, calls, observations, failures, timeouts and capacities up to the code's
limit: `Invariance`, `PositiveIsCurrent` (`PassIsCurrent`), `AnswersOwnRequest`
(`AnswersTheRequest`), `CacheStaysSound` (`CacheIsSound`) and `LateIsInconclusive`
(`LateNeverCounts`, an action property). The assumptions are `CallsAssumption`,
`BoundsAssumption` and `ObservationsAssumption`. The properties are about answers;
the invariant follows what becomes an answer. What a call has collected it has
read for its own context and controls (`Own`); a call that is inside `run` holds
its runner (`Locked`); a key that was missed stays out of the cache until its call
ends (`Popped`), which is why storing makes no second entry. For what a call
captures of a shared provider: a call that is not `mixed` is alone between its
check and its capture (`Solo`), so others can only drop what it has stored
(`Lone`), and evidence keeps that on its way through the cache (`LentOnly`).
`ClientIsClosed` (`NoLeakedClient`) assumes one runner: then the client of a call
stays the current one until its own close has loaded it (`Tended`).

**`LiveReads_proofs`** (`live_reads`) proves, for any worlds that may follow each
other, requests, page sizes, limits, and any number of changes and failures:
`Invariance`, `PassesAreWitnessed` (`PassIsWitnessed`) and `CallsAreBounded`
(`CallBudget`). The assumptions are on the budget (`BudgetAssumption`: a retry
policy and page limits the configuration admits, a deadline after the instant
asked for), on the markers of absence (`SpecialAssumption`), on the requests and
on the worlds (`WorldsAssumption`: ids that are positive and unique, readings
with an instant). The invariant is about the control that is
being read. `Underway` says that its queries come in order and one of them is
due; `Affordable` that what has been called and what the rest may still call add
up to the budget, which a count alone does not say in the middle of a control;
`Supported` that each answer it relies on was so in a world of `during`;
`ReadRows` that the rows collected from the pages so far were each there when
their page was served; and `NoneSkipped` that an object which was there
throughout is among them or on a page still to come. Without the last, a
complete list of healthy rows would not contradict a failing one that moved.

**`AssessedChange_proofs`** (`assessed_change`) proves, for any drafts, expected
identities, observations, weights, limits, and any number of arrivals:
`Invariance`, `ProceedingIsEarned` (`ProceedIsEarned`), `OrderIsIrrelevant`
(`ArrivalOrderIrrelevant`), `OutputIsValid` (`OwnOutputIsValid`),
`NothingIsHidden` (`NothingHidden`) and `Decay` (`DecayIsMonotone`, an action
property). The assumptions are what the code checks before it gets here: a
positive validity, finitely many identities and permissions, limits from one on,
instants and offsets that are integers, and natural weights
(`policy.py:135`, `auditable_report.py:60`). `AssessedInv` is small: an assessment in hand is that of this draft
and of *all* that arrived, since nothing is collected after the first. The
rest is about what the operators compute. The aggregate has one entry for each
identity, and the entry depends on the set of what arrived, not on its order
(`AggregateIsEntries`), which gives `OrderIsIrrelevant`. An entry is either what
arrived, current or explicit, or UNKNOWN (`EntryIs`); a control made of it
passes only if it was a current PASS (`VouchedFinal`), which gives
`ProceedingIsEarned`. For `Decay`, each entry, then each control, then the set of
final statuses, the number of conclusive controls and the cap are compared at
two instants (`EntryAges`, `VouchedAges`, `VerdictAges`, `ConclusiveAges`,
`CapAges`). The reports follow from counting: ids are unique in what was
accepted (`IdsAreUnique`), so each set that is made of controls has as many
members as controls (`SameSize`), and listing and cutting it loses none without
counting it (`Listed`, `BoundedAccounts`). Findings are concatenated and scores
added by functions that recur along a sequence; that such a function exists is
`Recursion`, by induction over its places (`IntervalInduction`), which rests on the
well-foundedness of the natural numbers (`LeastNatural`).

**`GovernedChange_proofs`** (`governed_change`) proves, for any bundles with any
number of overlays, any drafts, waivers and scanner inputs, and any clock:
`Invariance`, `FloorsHold` (`FloorHolds`), `PriorityResolves`
(`ResolvedByPriority`), `AnnotationsOnly` (`WaiversOnlyAnnotate`),
`WeakeningsAreDeclared` (`WeakeningIsDeclared`), `ReplaysReproduce`
(`ReplayReproduces`), `DiscoveryInvariance` and
`NothingGoesUnseen` (`NothingUnseen`). The assumptions are what the shapes of
the documents say: `BundlesAssumption` (overlays are a list with integer
priorities and comparable ids, fields are pairs, thresholds and minima integers,
providers lists), `DraftsAssumption` (findings have a natural weight, bad
dashboards are counted), `FilesAssumption` (changes, objects and containers are
lists, and what they are sorted by is ordered), `PagesAssumption` (a page has
at least one file) and `TimeAssumption`. `GovernedInv` says only that a report is
of one bundle, one draft, waivers accepted at one instant of the clock, that a
replay is the same, and that a simulation is of two bundles that
can be compared. A replay is accepted because the record holds the instant at which
its inputs were (`InstantIsRecorded`, through `ApplyWaivers` too) and because both
instants of the replay are that one (`OutcomeIs`). What is hard is what the operators compute for any number of
overlays. A finite set of overlays has an order (`OrderExists`, by removing a
greatest one), the chosen one is such an order (`InOrderSorts`), and the fold
along it is a function on fields in closed form, the last overlay that sets a
field or the base (`Layered`, `ResolveIsLayered`). From that follow the value of
each field (`ResolvedField`) and, as each overlay was checked against the base,
the floors. For weakenings, a diff without a weakened, removed or added field
makes the candidate `Stricter`: no weight is lower, no threshold higher, no
monitoring requirement dropped (`NoWeakeningIsStricter`). Then each part of the
findings is a part of, or the same as, what the candidate finds, sums over parts
are monotone and additive (`SumGrows`, `SumJoins`), and so are score and level
(`FindingsGrow`, `LevelGrows`).

That nothing goes unseen needs a second invariant, `DiscoveryInv`: as long as all
pages were of one pull request, its files up to the last page are in the list
(`PagesKept`, whose step is `PageHolds`, that a page reaches up to the next one
and a short page up to the end); so a manifest that is complete has them all
(`FilesKept`); and what was given to an assessment is a draft with the findings
of what its manifest led to (`RunOn`). The rest is about what the operators
compute for lists of any length: concatenation keeps each part whole
(`FlattenedLists`), sorting is a permutation (`SortedKeeps`, from `OrderExists`),
a part of an accepted manifest is itself accepted and has no finding that the
whole has not (`PartIsScanned`: its objects stay different from one another), one
plan is loaded or the run warns (`DiscoveryKeeps`), a kind that discovery does not
know has no findings unless it is one of two (`UnknownKinds`), and each finding of the
scanners is a rule of the report (`ScanShows`, `ScannedIsReported`).

**`ServiceNowPush_proofs`** (`same_change`) proves, for any number of overlapping
pushes, identities, references, faults and earlier contents of the instance:
`Invariance`, `OneCreation` (`CreatesAtMostOne`), `StoredAsSent`
(`SuccessIsStored`) and `OneAttachment` (`AttachedOnce`). The assumptions are
`PushesAssumption` and `InstanceAssumption`, that nothing of these pushes is
stored at the start. `Sent` says that a push has one creation at most, stored or
on the wire, and that its updates go to its target; so what arrives late writes
the payload that was read back (`Seen`), and a record that others rewrote is no
longer its own. `Filed` keeps the attachment a push names where it found it. `OneRecord`
(`OneIdentity`) needs two hypotheses, because the property does not hold for all
identities: a push by reference, or one whose former identity is that of another
change, may give a record away, and then two pushes of one change name two
records (section 5). `Separate` says that two changes share no identity, and
`OwnReferences` that no push is referred to a record which carries an identity of
another change; both hold in the run, whose pushes are of one change. Then
the target of a push is what it was referred to, or carries an identity of the
push (`Named`), and pushes of one change that are past the second search
(`Confirmed`) have one target (`Agreed`).

**`CommandLine_proofs`** (`command_line`) proves, for any drafts, argument lists,
clocks and number of runs: `Invariance`, `ClearedPushesOnly`
(`PushedOnlyWhenCleared`), `ExitIsTold` (`ExitTellsAll`), `AtMostOneIssue`
(`OneIssue`) and `AcceptedIsAuthentic` (`VerifiedIsAuthentic`). The assumptions
are `InputsAssumption`, the ranges of options, dispositions and clocks, and
`NamesAssumption`, that the two keys differ. The invariant says, for every stage,
what a run that has come so far has been cleared for (`Cleared`), has written
(`Reported`) and has pushed (`Pushed`); that an issue's label is that of its
content and of no other issue, and is free when a POST is about to be sent
(`Labelled`); and that what is stored is signed by the trusted key over what it
signed, or names another key (`Signed`).

**`AppSession_proofs`** (`app_session`) proves, for any texts, examples and
settings and any number of calls in flight and of updates stopped half-way: `Invariance`, `OutcomesBelong`
(`OutcomeIsOfResult`) and `ConfirmedCallsOnly` (`NoUnconfirmedCall`). The
assumption is `InputsAssumption`. What makes it inductive is what a run itself has
done by each place of an update, whatever was stopped before it (`Updated`): that
is why a session is coherent again after the last access of an update. The other
parts hold while nothing was stopped half-way: a call which still holds the
dictionary on the page was made for the inputs on the page (`HeldIsCurrent`), and
what a run shows from its controls on is of the inputs (`ShownIsCurrent`). A run
waits for at most one call in any case (`OneAwaited`).

Every safety and action property of the passing runs is stated by a theorem. Out of the
prover's reach and left to TLC: liveness under fairness (the three `Termination`
properties) and `ENABLED`. What the theorems say is of the models: that the code
parses documents into what the models take is outside of both.

## 5. What the documents say and the code does not do

`error_not_reconciled` ends with a violation: a 500 on a POST is FAILED without
reconciliation (`servicenow_enterprise.py:1174`), where the runtime
specification says that a 5xx is reconciled.

Met while modelling, without a run of their own:

Evidence providers
- Two runners that open one GCP provider at the same time can leave the request of
  one with the client and the credentials of the other, and `collect`, which
  compares only the request, reads with them (`gcp_provider.py:66`, `:112`), where
  the class promises one principal per collection lifecycle (`:30`) and `open` says
  that the principal is never switched halfway (`:64`). `ProviderRunner` has these
  behaviours: they are the calls in `mixed`, and `AnswersTheRequest` says that no
  others read with a foreign client.
- Of two clients that such opens store, the first is overwritten and never closed
  (`gcp_provider.py:67`, `:71`), and a close that runs beside an open can drop a
  client it has not loaded. `NoLeakedClient` is stated for one runner.

ServiceNow adapter v2
- The identities of a plan cover the alias of its instance and not the origin
  (`servicenow_enterprise.py:643`, `:752`), and `execute` sends to the origin
  (`:829`, `:935`). A plan that has been given the origin of another one is executed
  there, where the test plan (`docs/SERVICENOW_TEST_PLAN_V2.md:49`) asks about a
  replay against another instance and the runtime specification (`spec.md:32`) says
  that an altered replay fails.
- A 429 is reported as NOT_APPLIED although an earlier POST of the execution may
  be applied (`servicenow_enterprise.py:1143`).
- Executing a delivered plan again is CONFLICT, because its own write raised the
  version, where the runtime specification says UNCHANGED (`:895`).
- Resolution that fails before a second POST is reported as NOT_ATTEMPTED
  (`PostUnresolved`), and so is an unreadable 2xx answer to an applied POST
  (`Refused`, `garbled`).
- Validation does not compare the verdict, levels, policy and commit of a request
  with the report attached to it, nor the evidence mode with the evidence
  (`servicenow_enterprise.py:773`), where its docstring says that every local
  invariant is recomputed (`:715`).
- The delivery key covers the mapped link, not `evidence_url`: two long links
  that are cut alike share a key (`:643`).
- A field limit below 12 characters, which the mapping schema admits, cannot
  hold the marker of a cut, and build refuses its own plan (`:1882`); so does a
  version given for a draft (`:654`).

Live push v1 and Jira
- A push by reference never looks for another carrier of its correlation id
  (`servicenow.py:438`), where the integration guide says that ambiguity is
  detected before and after a write.
- A creation answered 504 and stored late leaves a second record after the next
  run (`LateWrite`), and two changes with one title can both take over a record
  that carries the former, title-based identity (`LookupFinds`).
- Jira has no second lookup, so overlapping runs, or a search index that lags
  behind, can create two issues (`integrations.py:309`). `OneIssue` is stated for
  runs that do not overlap.

Assessment, report and policy
- Repeated findings of one rule become one control (`assessment.py:399`, `:684`;
  `docs/ASSESSMENT_CONTRACT_V1.md:118`).
- A FAIL observation from the future counts as an error and is no longer listed
  as a failure (`assessment.py:467`); the verdict becomes INDETERMINATE, which
  is never more favourable.
- `simulate` does not call a weight that a rule did not have before a weakening
  (`policy_governance.py:475`, `:560`; `docs/POLICY_GOVERNANCE_V2.md:64`); hence
  the condition of `WeakeningIsDeclared`.
- An overlay that sets one of the two monitoring fields is normalised to set
  both, so it resets the other to its default, or conflicts with an overlay of
  its priority that assigns it (`policy_governance.py:248`, `:430`), where
  `docs/POLICY_GOVERNANCE_V2.md:30` speaks of overlays that assign one field.
- The summary for pull requests is cut at its end when it exceeds its budget,
  and the next actions come last (`auditable_report.py:719`, `:779`), where
  `openspec/specs/auditable-assessment-reporting/spec.md:43` keeps decision,
  blockers and next actions.

Changed files
- `docs/GITHUB_ACTION.md:260` says that valid Kubernetes manifests are loaded
  automatically. Discovery does not recognise manifests of ReplicaSets or PodDisruptionBudgets alone, for which the
  scanner has rules, nor kinds that are written in another case, which the scanner
  folds (`changed_files.py:18`, `:87`, `kubernetes_manifest.py:681`). Such a file is
  listed in the report without the scanner; `NothingUnseen` shows that nothing else
  of a manifest is lost.
- A changed plan is loaded only under a name that is recognised as Terraform's
  (`changed_files.py:129`); another is listed without the scanner, as
  `NothingUnseen` says.
- A plan file that the change deletes silences the warning that no structured
  plan was found (`changed_files.py:175`).
- A push between two pages of the list can hide a file (`changed_files.py:256`).
- A plan given explicitly does not help when the one found among the changed
  files is unreadable.

Command line and page
- After a ServiceNow push a failing Jira push ends the run with 2, and what was
  sent is only in the messages (`cli.py:628`).
- `--servicenow-dry-run` together with `--jira` pushes to Jira live.
- `evidence generate` binds the report to the inputs as they are when it is run
  (`evidence.py:231`), not to those that were assessed.
- A PASS of the maintenance control is valid for its full lifetime although a
  maintenance may begin within it (`zabbix_provider.py:219`).
- The docstring of `_clear_result` (`app.py:106`) says that a previous result is
  dropped whenever an input changes, to avoid drift. An event that stops the callback before its first pop leaves
  the old result beside the new inputs, and it can be sent so once its box is
  ticked.
- A stop between the result and its document leaves the page with the document
  of an earlier change (`app.py:439`), and the two are sent together.
- On the page a confirmation is not tied to a result: an edit and a run that
  reach the host together leave it ticked (`app.py:644`, `:668`). The outcome of
  a push that outlives its run may be shown nowhere.

## 6. What is not modelled

- URL and DNS validation, sockets, TLS, OAuth, signatures and hashing: the models
  take what these may return or raise.
- Semantic validation: word rules over free text, whose verdict depends on the
  wording. Risk validation enters as what it makes of a document.
- The instance of a plan enters `ServiceNowPlan` as an alias and an origin;
  `ServiceNowDelivery` has one gateway, so it does not tell instances apart.
- The content of mappings, payloads, texts of findings, reports and tickets;
  Markdown and HTML, redaction and the byte budgets of the renderers.
- YAML, JSON and plan parsing: a document is one of a few bodies, or unreadable.
- Wall-clock backoff. The elapsed retry budget may refuse any retry.
- Policy signing and lint commands, the event filter of `governance_input.py`,
  `scan_kubernetes_legacy`, which no front end calls.
- Sample data, the Action's shell steps and the release scripts.

## 7. Plan

In this order, as far as the code allows:

1. A composition of `CommandLine` with the two pushes in full, for runs that
   overlap.
2. The redaction and the byte budgets of the renderers, if a property about
   content is wanted.
