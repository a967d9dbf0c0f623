--------------------------- MODULE PolicyGovernance --------------------------
(***************************************************************************)
(* policy_governance.py, policy.py and governance_failure.py: policy       *)
(* bundles with overlays, their resolution for a context, the diff of two  *)
(* policies, waivers, and the disposition of failures.                     *)
(*                                                                         *)
(* The content of a policy is a function from fields to values, where a    *)
(* field is one of                                                         *)
(*   <<"risk_weights", rule>>, <<"risk_level_thresholds", level>>,         *)
(*   <<"monitoring", "minimum">>, <<"monitoring", "providers">>.           *)
(* A bundle is [digest, name, version, status, signer, effective, expires, *)
(* base, mandatory, overlays, evidence, governed]; an overlay is           *)
(* [id, priority, match, apply], match a function from context fields to   *)
(* sets of values.  A Policy Pack v1 is a bundle that is not governed: no  *)
(* overlays, no window, no signature.  Document shapes and text are left   *)
(* out, and a digest stands for the document without its signature.        *)
(***************************************************************************)
EXTENDS Integers, Sequences, FiniteSets, SequencesExt, FiniteSetsExt, Functions

CONSTANTS
    Never,       \* a bundle without expires_at
    NoSigner     \* a document without a signature

Weight(rule) == <<"risk_weights", rule>>
Threshold(level) == <<"risk_level_thresholds", level>>
Minimum == <<"monitoring", "minimum">>
Providers == <<"monitoring", "providers">>

(* --------------------------- reading a policy -------------------------- *)

Get(policy, field, default) == IF field \in DOMAIN policy THEN policy[field] ELSE default

RulesOf(policy) == {f[2] : f \in {g \in DOMAIN policy : g[1] = "risk_weights"}}

\* dict.update: f, and g where f says nothing.
Over(f, g) == [x \in DOMAIN f \cup DOMAIN g |-> IF x \in DOMAIN f THEN f[x] ELSE g[x]]

DefaultThresholds ==
    LET default == [low |-> 30, medium |-> 60, high |-> 80] IN
    [t \in {Threshold(l) : l \in DOMAIN default} |-> default[t[2]]]

\* _validate_monitoring fills in whatever the section does not say ...
DefaultMonitoring == [f \in {Minimum, Providers} |-> IF f = Minimum THEN 0 ELSE {}]

\* ... in the base always, in an overlay as soon as it has the section.
NormalBase(content) == Over(content, Over(DefaultThresholds, DefaultMonitoring))

NormalApply(content) ==
    IF {Minimum, Providers} \cap DOMAIN content = {} THEN content ELSE Over(content, DefaultMonitoring)

ValidWeights(content) == \A r \in RulesOf(content) : content[Weight(r)] \in 0..100

ValidThresholds(content) ==
    LET levels == {Threshold(l) : l \in {"low", "medium", "high"}} IN
    \/ levels \cap DOMAIN content = {}
    \/ /\ levels \subseteq DOMAIN content
       /\ 0 <= content[Threshold("low")]
       /\ content[Threshold("low")] < content[Threshold("medium")]
       /\ content[Threshold("medium")] < content[Threshold("high")]
       /\ content[Threshold("high")] < 100

ValidContent(content) ==
    ValidWeights(content) /\ ValidThresholds(content) /\ Get(content, Minimum, 0) >= 0

(* ------------------------- validate_policy_bundle ---------------------- *)

\* An overlay checked against the overlays' result instead of the base.
KeepsMandatoryIfLow(overlay, bundle) ==
    overlay.priority > 0 \/ \A r \in RulesOf(overlay.apply) \cap bundle.mandatory :
        overlay.apply[Weight(r)] >= bundle.base[Weight(r)]

\* No overlay may go below the base weight of a mandatory control.
KeepsMandatory(overlay, bundle) ==
    \A r \in RulesOf(overlay.apply) \cap bundle.mandatory :
        overlay.apply[Weight(r)] >= bundle.base[Weight(r)]

WellFormed(bundle) ==
    /\ bundle.status \in {"draft", "active", "retired"}
    /\ bundle.expires # Never => bundle.effective < bundle.expires
    /\ ValidContent(bundle.base)
    /\ bundle.mandatory \subseteq RulesOf(bundle.base)
    /\ \A o, p \in bundle.overlays : o.id = p.id => o = p
    /\ \A o \in bundle.overlays :
           /\ DOMAIN o.match # {} /\ \A f \in DOMAIN o.match : o.match[f] # {}
           /\ DOMAIN o.apply # {} /\ ValidContent(o.apply) /\ KeepsMandatory(o, bundle)

\* The window is closed at effective_from and open at expires_at.
InForce(bundle, at) ==
    bundle.effective <= at /\ (bundle.expires # Never => at < bundle.expires)

SignedBy(document, key) == document.signer = key

\* Only an active, signed bundle that is in force may drive an assessment.
DrivesAssessment(bundle, key, at) ==
    /\ WellFormed(bundle)
    /\ bundle.governed => bundle.status = "active" /\ InForce(bundle, at) /\ SignedBy(bundle, key)

(* ------------------------- resolve_policy_bundle ----------------------- *)

Matches(overlay, context) == \A f \in DOMAIN overlay.match : context[f] \in overlay.match[f]

Matching(bundle, context) == {o \in bundle.overlays : Matches(o, context)}

\* Two overlays of one priority may not give a field different values.
Conflicting(bundle, context) ==
    \E o, p \in Matching(bundle, context) :
        /\ o.priority = p.priority
        /\ \E f \in DOMAIN NormalApply(o.apply) \cap DOMAIN NormalApply(p.apply) :
               NormalApply(o.apply)[f] # NormalApply(p.apply)[f]

Before(o, p) == o.priority < p.priority \/ (o.priority = p.priority /\ o.id < p.id)

InOrder(bundle, context) ==
    LET matching == Matching(bundle, context) IN
    CHOOSE s \in [1..Cardinality(matching) -> matching] :
        IsInjective(s) /\ \A i, j \in DOMAIN s : i < j => ~Before(s[j], s[i])

ResolveFirstWins(bundle, context) ==
    FoldLeft(LAMBDA policy, o : Over(policy, NormalApply(o.apply)),
             NormalBase(bundle.base), InOrder(bundle, context))

\* Overlays applied in ascending priority; a section is updated field by field.
Resolve(bundle, context) ==
    FoldLeft(LAMBDA policy, o : Over(NormalApply(o.apply), policy),
             NormalBase(bundle.base), InOrder(bundle, context))

(* ------------------------------ policy_diff ---------------------------- *)

WeightDirection(before, after, r) ==
    IF Weight(r) \notin DOMAIN before THEN "added"
    ELSE IF Weight(r) \notin DOMAIN after THEN "removed"
    ELSE IF after[Weight(r)] > before[Weight(r)] THEN "strengthened" ELSE "weakened"

\* Set of [field, direction] of what differs between two resolved policies.
DiffWeights(before, after) ==
    {[field |-> Weight(r), direction |-> WeightDirection(before, after, r)] :
        r \in {s \in RulesOf(before) \cup RulesOf(after) :
                   Get(before, Weight(s), -1) # Get(after, Weight(s), -1)}}

Change(field, differs, weaker) ==
    IF differs THEN {[field |-> field, direction |-> IF weaker THEN "weakened" ELSE "strengthened"]} ELSE {}

DiffThresholds(before, after) ==
    UNION {Change(Threshold(l), before[Threshold(l)] # after[Threshold(l)],
                  after[Threshold(l)] > before[Threshold(l)]) : l \in {"low", "medium", "high"}}

DiffMonitoring(before, after) ==
    Change(Minimum, before[Minimum] # after[Minimum], after[Minimum] < before[Minimum])
        \cup UNION {Change(<<"monitoring", "providers", p>>, TRUE, p \notin after[Providers]) :
                p \in SymDiff(before[Providers], after[Providers])}

DiffGovernance(base, candidate) ==
    UNION {Change(<<"mandatory", r>>, TRUE, r \notin candidate.mandatory) :
              r \in SymDiff(base.mandatory, candidate.mandatory)}
        \cup Change(<<"evidence_unavailable">>, base.evidence # candidate.evidence,
                    candidate.evidence = "open")

\* Content that changed under one name and version is refused, not compared.
ContentOf(b) == <<b.base, b.mandatory, b.overlays, b.evidence, b.effective, b.expires>>

Comparable(base, candidate) ==
    base.name = candidate.name /\ base.version = candidate.version =>
        ContentOf(base) = ContentOf(candidate)

PolicyDiff(base, candidate, context) ==
    LET before == Resolve(base, context)
        after  == Resolve(candidate, context) IN
    DiffWeights(before, after) \cup DiffThresholds(before, after)
        \cup DiffMonitoring(before, after) \cup DiffGovernance(base, candidate)

WeakeningWeights(changes) == \E c \in changes : c.field[1] = "risk_weights" /\ c.direction = "weakened"

Weakening(changes) == \E c \in changes : c.direction \in {"weakened", "removed"}

(* -------------------------------- waivers ------------------------------ *)

\* A waiver is [id, issued, expires, requester, approver, policy, rules,
\* scope, signer]; a person is what the document says, as a pair <<name as
\* written, name without its outer spaces and in lower case>>.
\* Only the second is compared: one person under two names is two persons.
SamePerson(p, q) == p[2] = q[2]

AnyValue == "*"

InScope(waiver, context) ==
    \A f \in DOMAIN waiver.scope : waiver.scope[f] \in {AnyValue, context[f]}

ValidWaiver(waiver, key, digest, context, at) ==
    /\ waiver.issued < waiver.expires
    /\ waiver.issued <= at /\ at < waiver.expires
    /\ ~SamePerson(waiver.requester, waiver.approver)
    /\ waiver.policy = digest
    /\ waiver.rules # {}
    /\ InScope(waiver, context)
    /\ SignedBy(waiver, key)

\* The waivers that cover a finding.
WaiversOf(rule, waivers) == {w.id : w \in {v \in waivers : rule \in v.rules}}

(* --------------------------- failure handling -------------------------- *)

\* evaluate_failure_modes: whatever is not known is handled as closed.
FailureMode(evidence, failure) == IF failure = "evidence_unavailable" THEN evidence ELSE "closed"

Disposition(evidence, failures) ==
    IF \E f \in failures : FailureMode(evidence, f) = "closed" THEN "stop"
    ELSE IF failures # {} THEN "continue_informative" ELSE "none"
=============================================================================
