---------------------------- MODULE GovernedChange ----------------------------
(***************************************************************************)
(* A change assessed again and again under a governed policy, while the    *)
(* policy's window, the waivers and the drafts of the change move on:      *)
(* the command line with --policy, --waiver, --governance-at and           *)
(* --changed-files, "policy simulate" before a candidate replaces the      *)
(* bundle, and the page-wise reading of the pull request's files.          *)
(*                                                                         *)
(* A draft has two more fields than the risk engine's: pull, the files the *)
(* pull request changes, in the order of the API, and tree, the checkout.  *)
(*                                                                         *)
(* A refusal (exit 2) changes nothing and is no step, but for a replay's.  *)
(***************************************************************************)
EXTENDS RiskEngine, ChangedFiles

CONSTANTS
    Bundles,       \* the policy files there are
    Drafts,        \* the drafts of the change
    Waivers,       \* the waivers there are
    PolicyKey, WaiverKey,
    MaxTime,       \* bound of the clock
    MaxWaivers,    \* bound of the waivers given to one run
    Explicit,      \* the scanner inputs a run may name: [text, plan, objects]
    PerPage, MaxPages,
    Refused,       \* a run that ended with an error
    Nothing

ASSUME TimeAssumption == MaxTime \in Nat

ASSUME PagesAssumption == PerPage \in Nat \ {0} /\ MaxPages \in Nat \ {0}

\* What the documents' shapes say of policies: fields are pairs, thresholds and
\* minima integers, and providers a list (policy_governance.py:236).
ASSUME BundlesAssumption ==
    \A b \in Bundles :
        /\ IsFiniteSet(b.overlays)
        /\ \A o \in b.overlays : o.id \in Int /\ o.priority \in Int
        /\ \A content \in {b.base} \cup {o.apply : o \in b.overlays} :
               \A f \in DOMAIN content :
                   /\ f = <<f[1], f[2]>>
                   /\ f[1] = "risk_level_thresholds" \/ f = Minimum => content[f] \in Int
                   /\ f = Providers => IsFiniteSet(content[f])

\* What the change documents say is listed and counted.
ASSUME DraftsAssumption ==
    \A d \in Drafts :
        /\ {"service", "change", "scanned", "inventory", "pull", "tree"} \subseteq DOMAIN d
        /\ d.scanned \in Seq([id : STRING, score : Nat])
        /\ d.change.monitorIds \in Seq(STRING)
        /\ d.change.badDashboards \in Nat

List(s) == s \in Seq(ToSet(s))

\* The lists of plans and manifests are lists, and what they are sorted by is
\* ordered.
PlanShape(plan) ==
    /\ plan # NoPlan
    /\ List(plan.changes)
    /\ \A r \in ToSet(plan.changes) : r.address \in Int /\ IsFiniteSet(r.after)

ObjectsShape(objects) ==
    /\ List(objects)
    /\ \A o \in ToSet(objects) : o.name \in Int /\ List(o.containers)

ASSUME FilesAssumption ==
    /\ \A d \in Drafts :
           /\ List(d.pull)
           /\ \A n \in DOMAIN d.tree :
                  /\ d.tree[n].type = "plan" => PlanShape(d.tree[n].plan)
                  /\ ObjectsShape(d.tree[n].objects)
    /\ \A e \in Explicit :
           /\ e.plan # NoPlan => PlanShape(e.plan)
           /\ ObjectsShape(e.objects)

Times == 0..MaxTime

VARIABLES
    clock,
    bundle,        \* the policy file in use
    draft,
    fetch,         \* the page loop: the next page, the files so far
    manifest,      \* the changed files a run is given
    \* The output of the last command, until the inputs are edited:
    given,         \* what an assessment was given
    report,        \* and what it reported
    replay,        \* what a replay of it reported
    simulation     \* what a simulation said of a candidate

vars == <<clock, bundle, draft, fetch, manifest, given, report, replay, simulation>>

discovery == <<fetch, manifest>>
output == <<given, report, replay, simulation>>

ClearOutput ==
    given' = Nothing /\ report' = Nothing /\ replay' = Nothing /\ simulation' = Nothing

(* ------------------------------ assessment ----------------------------- *)

WaiverContext(d) ==
    [service |-> d.service.name, environment |-> PolicyContext(d).environment,
     change_class |-> d.change.class, change_type |-> d.change.kind]

\* governance_time: the instant asked for, or now.
GovernanceTime(asked) == IF asked \in Times THEN asked ELSE clock

\* The instants a run hands to load_policy_pack and to validate_waiver.
PolicyInstant(asked) == GovernanceTime(asked)

WaiverInstantNow(asked) == clock

WaiverInstant(asked) == GovernanceTime(asked)

\* load_policy_pack, resolve_policy and validate_waiver all succeed.
Accepted(b, d, waivers, policyAt, waiverAt) ==
    /\ \A w \in waivers : ValidWaiver(w, WaiverKey, b.digest, WaiverContext(d), waiverAt)
    /\ ~Conflicting(b, PolicyContext(d))
    /\ DrivesAssessment(b, PolicyKey, policyAt)

Assessed(b, d, waivers, at) ==
    IF waivers = {} THEN AssessRisk(d, b, at) ELSE ApplyWaivers(AssessRisk(d, b, at), waivers)

\* A run of the command line for the instant asked, from the policy on.
Outcome(b, d, waivers, asked) ==
    IF Accepted(b, d, waivers, PolicyInstant(asked), WaiverInstant(asked))
    THEN Assessed(b, d, waivers, PolicyInstant(asked)) ELSE Refused

(* -------------------------------- steps -------------------------------- *)

Init ==
    /\ clock = 0
    /\ bundle \in Bundles /\ draft \in Drafts
    /\ fetch = Nothing /\ manifest = Nothing
    /\ given = Nothing /\ report = Nothing /\ replay = Nothing /\ simulation = Nothing

Tick ==
    /\ clock < MaxTime /\ clock' = clock + 1
    /\ UNCHANGED <<bundle, draft, discovery, output>>

Edit ==
    /\ draft' \in Drafts \ {draft}
    /\ ClearOutput
    /\ UNCHANGED <<clock, bundle, discovery>>

\* fetch_pull_request_files: page after page of what the pull request changes
\* at that moment.  `from` notes whether it was the same on every page.
StartFetch ==
    /\ fetch = Nothing
    /\ fetch' = [page |-> 1, files |-> <<>>, from |-> draft.pull]
    /\ manifest' = Nothing
    /\ ClearOutput
    /\ UNCHANGED <<clock, bundle, draft>>

Page(n) == SubSeq(draft.pull, (n - 1) * PerPage + 1, Min({n * PerPage, Len(draft.pull)}))

LastPageEarly(page) == Len(page) <= PerPage

LastPage(page) == Len(page) < PerPage

FetchPage ==
    /\ fetch # Nothing
    /\ LET page  == Page(fetch.page)
           files == fetch.files \o page
           from  == IF fetch.from = draft.pull THEN draft.pull ELSE Nothing IN
       IF LastPage(page)
       THEN /\ manifest' = [files |-> files, from |-> from]
            /\ fetch' = Nothing
       ELSE IF fetch.page = MaxPages
       THEN manifest' = Nothing /\ fetch' = Nothing
       ELSE /\ fetch' = [page |-> fetch.page + 1, files |-> files, from |-> from]
            /\ UNCHANGED manifest
    /\ UNCHANGED <<clock, bundle, draft, output>>

\* GitHub refuses or does not answer: the run goes on without the list.
FetchFails ==
    /\ fetch # Nothing
    /\ manifest' = Nothing /\ fetch' = Nothing
    /\ UNCHANGED <<clock, bundle, draft, output>>

\* What --changed-files finds in the checkout of this run.
Scope == IF manifest = Nothing THEN Nothing ELSE Classify(manifest.files, draft.tree)

Discovered == IF manifest = Nothing THEN NoAuto ELSE LoadAuto(Scope, draft.tree)

\* A run of the command line, for now or for an instant that is named.
Assess ==
    \E explicit \in Explicit :
        LET auto    == Discovered
            scanned == IF auto = ScanError THEN ScanError ELSE Scanned(auto, explicit)
            d       == [draft EXCEPT !.scanned = scanned] IN
        /\ scanned # ScanError
        /\ \E waivers \in {w \in SUBSET Waivers : Cardinality(w) <= MaxWaivers},
              asked \in Times \cup {Nothing} :
               LET outcome == Outcome(bundle, d, waivers, asked) IN
               /\ outcome # Refused
               /\ report' = outcome
               /\ given' = [bundle |-> bundle, draft |-> d, waivers |-> waivers,
                            at |-> PolicyInstant(asked), manifest |-> manifest, scope |-> Scope,
                            explicit |-> explicit, warned |-> auto.warned]
        /\ replay' = Nothing /\ simulation' = Nothing
        /\ UNCHANGED <<clock, bundle, draft, discovery>>

\* The inputs of a report that were kept are run again, with --governance-at for
\* the instant the report records.
Replay ==
    /\ given # Nothing /\ given.bundle.governed
    /\ replay' = Outcome(given.bundle, given.draft, given.waivers, report.record.evaluatedAt)
    /\ UNCHANGED <<clock, bundle, draft, discovery, given, report, simulation>>

\* policy simulate: neither bundle has to be in force, and no inventory is read.
Simulated(d, b) == AssessRisk([d EXCEPT !.inventory = NoInventory], b, 0)

Simulable(b) == WellFormed(b) /\ (b.status = "active" => SignedBy(b, PolicyKey))

Simulate ==
    \E candidate \in Bundles \ {bundle} :
        LET context == PolicyContext(draft)
            changes == PolicyDiff(bundle, candidate, context)
            before  == Simulated(draft, bundle)
            after   == Simulated(draft, candidate) IN
        /\ bundle.governed /\ candidate.governed
        /\ Simulable(bundle) /\ Simulable(candidate) /\ Comparable(bundle, candidate)
        /\ ~Conflicting(bundle, context) /\ ~Conflicting(candidate, context)
        /\ simulation' = [weakening |-> Weakening(changes),
                          added  |-> {c.field : c \in {x \in changes : x.direction = "added"}},
                          before |-> [score |-> before.score, level |-> before.level],
                          after  |-> [score |-> after.score, level |-> after.level]]
        /\ given' = Nothing /\ report' = Nothing /\ replay' = Nothing
        /\ UNCHANGED <<clock, bundle, draft, discovery>>

\* Another bundle is put in the place of the one in use.
Adopt ==
    /\ bundle' \in Bundles \ {bundle}
    /\ ClearOutput
    /\ UNCHANGED <<clock, draft, discovery>>

Next ==
    \/ Tick \/ Edit \/ Adopt
    \/ StartFetch \/ FetchPage \/ FetchFails
    \/ Assess \/ Replay \/ Simulate

Spec == Init /\ [][Next]_vars

(* ------------------------------ properties ----------------------------- *)

LevelRank == [LOW |-> 0, MEDIUM |-> 1, HIGH |-> 2, CRITICAL |-> 3]

\* Whatever overlays match the change, no finding of a mandatory control is
\* ever scored below the weight the base gives it, although the check is made
\* overlay by overlay when the bundle is loaded (policy_governance.py:371).
FloorHolds ==
    report # Nothing /\ given.bundle.governed =>
        \A i \in DOMAIN report.rules :
            report.rules[i].id \in given.bundle.mandatory =>
                report.rules[i].score >= given.bundle.base[Weight(report.rules[i].id)]

\* The fold over the overlays gives every field the value of the matching
\* overlay of the highest priority that sets it, and of the base where none
\* does: the order of the file, and the names of overlays of one priority,
\* make no difference (policy_governance.py:418).
ResolvedByPriority ==
    ~Conflicting(bundle, PolicyContext(draft)) =>
        LET resolved == Resolve(bundle, PolicyContext(draft))
            setting(f) == {o \in Matching(bundle, PolicyContext(draft)) : f \in DOMAIN NormalApply(o.apply)} IN
        \A f \in DOMAIN resolved :
            IF setting(f) = {} THEN resolved[f] = NormalBase(bundle.base)[f]
            ELSE \A o \in setting(f) :
                     (\A p \in setting(f) : p.priority <= o.priority) =>
                         resolved[f] = NormalApply(o.apply)[f]

\* Waivers annotate findings and nothing else, although the record of the
\* decision is made anew for them: against the run without them the report has
\* the same findings, score and level, and its record the same score, level and
\* instant, and it stops exactly where that run stops; a finding is annotated
\* by the waivers given that name its rule, and by no other
\* (policy_governance.py:673).
WaiversOnlyAnnotate ==
    report # Nothing =>
        LET plain == AssessRisk(given.draft, given.bundle, given.at) IN
        /\ \A f \in {"rules", "score", "level", "missing", "monitoring", "policy"} :
               report[f] = plain[f]
        /\ \A f \in {"score", "level", "disposition", "evaluatedAt"} :
               report.record[f] = plain.record[f]
        /\ \A i \in DOMAIN report.rules :
               report.waived[i] = {w.id : w \in {v \in given.waivers : report.rules[i].id \in v.rules}}

\* However much later it is made, a replay for the instant a report records is
\* not refused, neither by the window of its policy nor by that of its waivers,
\* and reports the same (cli.py:425, policy_governance.py:404).
ReplayReproduces == replay # Nothing => replay = report

\* A candidate under which the change scores lower, or reaches a lower level,
\* is called a weakening, unless it gives weights to rules that had none
\* (policy_governance.py:460).
Lowered(s) == s.after.score < s.before.score \/ LevelRank[s.after.level] < LevelRank[s.before.level]

WeakeningIsDeclared ==
    simulation # Nothing /\ simulation.added = {} /\ Lowered(simulation) => simulation.weakening

Shows(findings, rules) == {f.id : f \in ToSet(findings)} \subseteq {r.id : r \in ToSet(rules)}

\* The files of the checkout that a complete list names.
FilesListed ==
    IF report # Nothing /\ given.manifest # Nothing /\ given.manifest.from # Nothing
    THEN ToSet(given.manifest.from) \cap DOMAIN given.draft.tree ELSE {}

BodyOf(name) == given.draft.tree[name]

\* The report lists the file, but not for that scanner.
ListedWithout(name, scanner) ==
    name \in DOMAIN given.scope.categories /\ scanner \notin given.scope.categories[name]

PlanSeen(name) ==
    \/ given.explicit.plan # NoPlan
    \/ given.warned
    \/ ListedWithout(name, "terraform")
    \/ Shows(ScanTerraformJson(BodyOf(name).plan), report.rules)

\* Of a manifest that discovery leaves out, the scanner has nothing to say but
\* what it says of two kinds, or of kinds that are not written as they should.
NothingFound(objects) ==
    \A o \in ToSet(objects) :
        o.spelled /\ ObjectFindings(o) # <<>> => o.kind \in {"replicaset", "poddisruptionbudget"}

ManifestSeen(name) ==
    \/ given.explicit.objects # <<>>
    \/ ListedWithout(name, "kubernetes") /\ NothingFound(BodyOf(name).objects)
    \/ Shows(ScanKubernetes(BodyOf(name).objects), report.rules)

\* Nothing that a complete list names is lost between the page loop, the
\* classification, the join of the manifests and the scan.  A changed plan of
\* the checkout shows up with all its findings, unless the run was given
\* another, the report warns about the plans, or it lists the file as none of
\* Terraform.  So does a manifest of any kinds, unless the run was given
\* another, or the report lists the file as none of Kubernetes: then the kinds
\* that discovery knows and those the scanner has rules for differ by two
\* (changed_files.py:18, :193, kubernetes_manifest.py:633).
NothingUnseen ==
    \A name \in FilesListed :
        /\ BodyOf(name).type = "plan" /\ name.form \in {"plan", "json"} => PlanSeen(name)
        /\ BodyOf(name).type = "manifest" /\ Yaml(name) => ManifestSeen(name)

=============================================================================
