---------------------------- MODULE AssessedChange ----------------------------
(***************************************************************************)
(* A change assessed with the evidence of providers                        *)
(* (assess_risk_with_provider_evidence), and the report built from it.     *)
(*                                                                         *)
(* The caller collects observations while the clock runs, then assesses    *)
(* the change on them, as often as it likes.  Observations arrive in any   *)
(* order, late, twice, from a collector whose clock is ahead, or of an     *)
(* identity nobody asked for.                                              *)
(***************************************************************************)
EXTENDS ProviderAggregation, AuditableReport, RiskEngine

CONSTANTS
    Drafts,         \* the drafts [service, change, scanned, inventory] of the change
    Bundle,         \* the policy in force
    Offers,         \* the kinds [key, status, confidence, code, life, ahead] of observation
    ValidFor,       \* validity of what the adapter observes itself
    MaxTime,        \* bound of the clock
    MaxArrivals,    \* bound of the observations collected
    Nothing         \* no assessment

\* valid_for is positive, the expected identities are a finite list, and
\* AuditableReportConfig takes limits from one on.
ASSUME ValidForAssumption == ValidFor \in Nat \ {0}
ASSUME KeysAssumption == IsFiniteSet(Keys)
ASSUME NoLimitAssumption == NoLimit \notin Int
ASSUME LimitsAssumption == TopBlockersLimit \in Nat \ {0} /\ NextActionsLimit \in Nat \ {0}
ASSUME OffersAssumption == \A o \in Offers : o.ahead \in Int /\ o.life \in Int

\* What the scanners and the documents give, and the policy that holds for it:
\* a pack is refused unless its weights are natural numbers (policy.py:135).
ASSUME DraftsAssumption ==
    \A d \in Drafts :
        /\ d.scanned \in Seq([id : STRING, score : Nat])
        /\ d.change.monitorIds \in Seq(STRING)
        /\ d.change.badDashboards \in Nat
        /\ LET policy == Resolve(Bundle, PolicyContext(d)) IN
           /\ \A f \in DOMAIN policy : f[1] = "risk_weights" => policy[f] \in Nat
           /\ IsFiniteSet(policy[Providers])

VARIABLES
    clock,
    draft,
    arrived,        \* the observations, in the order they were collected
    assessment      \* the contract that the last call returned

vars == <<clock, draft, arrived, assessment>>

(* ---------------- assess_risk_with_provider_evidence ------------------- *)

Controls(d, aggregate, at) ==
    AdaptedControls(AssessRisk(d, Bundle, at),
                    ProviderControls(aggregate, at), at, ValidFor)

\* Either stage raises on what it cannot take, and nothing is returned then.
Accepted(d, evidence, at) ==
    Aggregable(evidence) /\ Evaluable(Controls(d, Aggregate(evidence, at), at))

Contract(d, evidence, at) ==
    LET aggregate == Aggregate(evidence, at)
        risk == AssessRisk(d, Bundle, at) IN
    Evaluate(Controls(d, aggregate, at), at, risk.score, risk.level,
             AdaptedCap(ConfidenceCap(aggregate, at)))

(* -------------------------------- steps -------------------------------- *)

Init ==
    /\ clock = 0
    /\ draft \in Drafts
    /\ arrived = <<>>
    /\ assessment = Nothing

Tick ==
    /\ clock < MaxTime
    /\ clock' = clock + 1
    /\ UNCHANGED <<draft, arrived, assessment>>

Observation(o) ==
    [key |-> o.key, status |-> o.status, collected |-> clock + o.ahead,
     until |-> clock + o.ahead + o.life, confidence |-> o.confidence, code |-> o.code]

\* The evidence is complete when it is first assessed.
Collect ==
    /\ assessment = Nothing
    /\ Len(arrived) < MaxArrivals
    /\ \E o \in Offers : arrived' = Append(arrived, Observation(o))
    /\ UNCHANGED <<clock, draft, assessment>>

Assess ==
    /\ Accepted(draft, arrived, clock)
    /\ assessment' = Contract(draft, arrived, clock)
    /\ UNCHANGED <<clock, draft, arrived>>

Refuse ==
    /\ ~Accepted(draft, arrived, clock)
    /\ assessment' = Nothing
    /\ UNCHANGED <<clock, draft, arrived>>

Next == Tick \/ Collect \/ Assess \/ Refuse

Spec == Init /\ [][Next]_vars

(* ------------------------------ properties ----------------------------- *)

Favour == [READY_FOR_HUMAN_REVIEW |-> 3, REVIEW_REQUIRED |-> 2, BLOCK |-> 1, INDETERMINATE |-> 0]

\* A recommendation to proceed is earned: every identity the caller expected
\* has an arrived PASS that is current, nothing was found against the change,
\* and the risk is low or medium.  Absence, staleness, a clock that is ahead
\* and NOT_APPLICABLE never add up to it (assessment.py:525, provider_aggregation.py:114).
ProceedIsEarned ==
    assessment # Nothing /\ assessment.action \in {"PROCEED", "PROCEED_WITH_CAUTION"} =>
        /\ \A k \in Keys : \E e \in ToSet(arrived) :
               e.key = k /\ e.status = "PASS" /\ e.collected <= assessment.at /\ assessment.at < e.until
        /\ assessment.level \in {"LOW", "MEDIUM"}
        /\ FindingsOf(draft, Resolve(Bundle, PolicyContext(draft))) = <<>>

\* Evidence only decays: assessing the change again on the same observations,
\* none of them from the future the first time, never gives a better verdict
\* nor more confidence.
DecayIsMonotone ==
    [][/\ assessment # Nothing /\ assessment' # Nothing
       /\ \A e \in ToSet(arrived) : e.collected <= assessment.at
       => /\ Favour[assessment'.verdict] <= Favour[assessment.verdict]
          /\ assessment'.confidence <= assessment.confidence]_vars

\* What an assessment says does not depend on the order in which the
\* observations arrived, and no order of them is refused while another is not.
ArrivalOrderIrrelevant ==
    assessment # Nothing =>
        \A p \in Bijection(DOMAIN arrived, DOMAIN arrived) :
            LET again == [i \in DOMAIN arrived |-> arrived[p[i]]] IN
            /\ Accepted(draft, again, assessment.at)
            /\ Contract(draft, again, assessment.at) = assessment

\* The kernel and the report pass their own validators, which the code runs
\* on every result and which would raise otherwise (assessment.py:600,
\* auditable_report.py:344).
OwnOutputIsValid ==
    assessment # Nothing => ValidAssessment(assessment) /\ ValidReport(BuildReport(assessment))

\* A report hides nothing: every expected identity is in a category, and all
\* controls that did not pass are counted among the blockers and the next
\* actions, also where the limits cut the lists.
NothingHidden ==
    assessment # Nothing =>
        LET report == BuildReport(assessment)
            open == report.counts["FAIL"] + report.counts["UNKNOWN"] + report.counts["ERROR"] IN
        /\ \A k \in Keys : \E s \in Statuses : <<"provider", k>> \in report.controls[s]
        /\ report.topBlockers.total = open
        /\ report.topBlockers.omitted = Max({0, open - TopBlockersLimit})
        /\ report.nextActions.total >= Max({1, open})
=============================================================================
