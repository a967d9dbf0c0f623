------------------------------ MODULE RiskEngine -----------------------------
(***************************************************************************)
(* assess_risk of risk_engine.py with the rules of validators.py and       *)
(* monitoring.py.                                                          *)
(*                                                                         *)
(* A change is [production, class, kind, rollback, monitoring, validation, *)
(* monitorIds, badDashboards] and a service [name, critical, owner,        *)
(* runbook, impact]: what the validators make of the documents' texts.     *)
(* The scanners' findings are an input.  A draft is all that is assessed   *)
(* together: [service, change, scanned, inventory].                        *)
(***************************************************************************)
EXTENDS PolicyGovernance, Scanners

CONSTANT NoInventory       \* no monitor inventory was given

(* ------------------------ service and change rules --------------------- *)

\* A production change needs a real rollback plan; two of the five fields
\* make a monitoring plan; one item makes a validation plan.
BadRollback(change) == change.production /\ change.rollback # "real"

IncompleteMonitoring(change) == change.monitoring < 2

KindRule == [database |-> Finding("database-change", 25), security |-> Finding("security-change", 25),
             network |-> Finding("network-change", 25),
             infrastructure |-> Finding("infrastructure-change", 20)]

ServiceRules(service, change) ==
    When(change.production, "production-change", 20)
    \o When(service.critical, "critical-service", 25)
    \o When(~service.owner, "missing-owner", 25)
    \o When(~service.runbook, "missing-runbook", 15)
    \o When(~service.impact, "missing-business-impact", 10)
    \o When(BadRollback(change), "missing-rollback-plan", 30)
    \o When(IncompleteMonitoring(change), "missing-monitoring-plan", 20)
    \o When(~change.validation, "missing-validation-plan", 15)
    \o (IF change.kind \in DOMAIN KindRule THEN << KindRule[change.kind] >> ELSE <<>>)

\* The rules that also name a missing control.
MissingRules == {"missing-owner", "missing-runbook", "missing-business-impact",
                 "missing-rollback-plan", "missing-monitoring-plan", "missing-validation-plan"}

(* ----------------------------- monitoring ------------------------------ *)

\* The inventory is a set of [id, provider, enabled].
Enabled(inventory) == IF inventory = NoInventory THEN {} ELSE {m \in inventory : m.enabled}

KnownIds(inventory) == IF inventory = NoInventory THEN {} ELSE {m.id : m \in inventory}

ValidationEnabled(change, inventory, policy) ==
    inventory # NoInventory \/ policy[Minimum] > 0 \/ policy[Providers] # {} \/ change.monitorIds # <<>>

ReferenceFindings(ids, inventory) ==
    LET enabledIds == {m.id : m \in Enabled(inventory)} IN
    FlattenSeq([i \in DOMAIN ids |->
        When(ids[i] \notin KnownIds(inventory), "monitoring-reference-not-found", 20)
        \o When(ids[i] \in KnownIds(inventory) \ enabledIds, "monitoring-reference-disabled", 20)])

\* One finding per bad dashboard, per reference, for the minimum, and per
\* provider that is required and has no enabled monitor.
MonitoringFindings(change, inventory, policy) ==
    LET absent == policy[Providers] \ {m.provider : m \in Enabled(inventory)} IN
    [i \in 1..(IF ValidationEnabled(change, inventory, policy) THEN change.badDashboards ELSE 0) |->
        Finding("monitoring-invalid-dashboard-url", 15)]
    \o ReferenceFindings(change.monitorIds, inventory)
    \o When(Cardinality(Enabled(inventory)) < policy[Minimum], "monitoring-insufficient-coverage", 25)
    \o [i \in 1..Cardinality(absent) |-> Finding("monitoring-required-provider-missing", 25)]

(* ----------------------------- the score ------------------------------- *)

Weighted(finding, policy) == Finding(finding.id, Get(policy, Weight(finding.id), finding.score))

Total(findings) ==
    LET sum[i \in 0..Len(findings)] == IF i = 0 THEN 0 ELSE sum[i - 1] + findings[i].score IN
    sum[Len(findings)]

Score(findings) == Min({100, Total(findings)})

\* Bounds are inclusive: a score equal to a threshold is still the level below.
Level(score, policy) ==
    IF score <= policy[Threshold("low")] THEN "LOW"
    ELSE IF score <= policy[Threshold("medium")] THEN "MEDIUM"
    ELSE IF score <= policy[Threshold("high")] THEN "HIGH" ELSE "CRITICAL"

(* ----------------------------- assess_risk ----------------------------- *)

Findings(service, change, scanned, inventory, policy) ==
    ServiceRules(service, change) \o scanned \o MonitoringFindings(change, inventory, policy)

\* A governed policy needs its inventory as soon as anything refers to it.
EvidenceFailures(change, inventory, policy) ==
    IF /\ inventory = NoInventory
       /\ policy[Minimum] > 0 \/ policy[Providers] # {} \/ change.monitorIds # <<>>
    THEN {"evidence_unavailable"} ELSE {}

\* What overlays are matched against.
PolicyContext(d) ==
    [environment |-> IF d.change.production THEN "production" ELSE "other",
     tier |-> IF d.service.critical THEN "critical" ELSE "other",
     change_class |-> d.change.class, change_type |-> d.change.kind]

FindingsOf(d, policy) == Findings(d.service, d.change, d.scanned, d.inventory, policy)

\* Under a governed policy, the disposition of failures and the instant.
Handling(d, bundle, policy) ==
    IF ~bundle.governed THEN "none"
    ELSE Disposition(bundle.evidence, EvidenceFailures(d.change, d.inventory, policy))

Instant(bundle, at) == IF bundle.governed THEN at ELSE Never

\* What is recorded for the decision: the score once more, the exceptions, and
\* those two.
DecisionRecord(score, level, exceptions, disposition, evaluatedAt) ==
    [score |-> score, level |-> level, exceptions |-> exceptions,
     disposition |-> disposition, evaluatedAt |-> evaluatedAt]

AssessRisk(d, bundle, at) ==
    LET policy == Resolve(bundle, PolicyContext(d))
        found  == FindingsOf(d, policy)
        rules  == [i \in DOMAIN found |-> Weighted(found[i], policy)]
        score  == Score(rules)
        level  == Level(score, policy) IN
    [rules       |-> rules,
     score       |-> score,
     level       |-> level,
     missing     |-> {rules[i].id : i \in DOMAIN rules} \cap MissingRules,
     monitoring  |-> IF MonitoringFindings(d.change, d.inventory, policy) = <<>> THEN "PASS" ELSE "FAIL",
     policy      |-> bundle.digest,
     waived      |-> [i \in DOMAIN rules |-> {}],
     record      |-> DecisionRecord(score, level, 0, Handling(d, bundle, policy), Instant(bundle, at))]

Annotations(rules, waivers) == [i \in DOMAIN rules |-> WaiversOf(rules[i].id, waivers)]

\* The record made anew, without what the first one said of failures.
ApplyWaiversForgetting(result, waivers) ==
    [result EXCEPT
        !.waived = Annotations(result.rules, waivers),
        !.record = DecisionRecord(result.score, result.level, Cardinality(waivers),
                                  "none", result.record.evaluatedAt)]

\* apply_verified_waivers: the findings are annotated and the record is made
\* anew from the result; the disposition and the instant are copied.
ApplyWaivers(result, waivers) ==
    [result EXCEPT
        !.waived = Annotations(result.rules, waivers),
        !.record = DecisionRecord(result.score, result.level, Cardinality(waivers),
                                  result.record.disposition, result.record.evaluatedAt)]
=============================================================================
