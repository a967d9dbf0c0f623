----------------------------- MODULE TrustKernel -----------------------------
(***************************************************************************)
(* The Trust Kernel of assessment.py: from control observations to a       *)
(* verdict, the validator of the contract, and the adapter of the legacy   *)
(* risk report.                                                            *)
(*                                                                         *)
(* An observation is [id, status, points, collected, until, pinned];       *)
(* pinned says that it carries a digest of its evidence.  Lists that the   *)
(* code sorts are sets here.  Texts, links, digests and the identity of    *)
(* the run do not enter a decision and are left out.                       *)
(***************************************************************************)
EXTENDS Integers, Sequences, FiniteSets, SequencesExt, FiniteSetsExt, Functions

CONSTANT NoLimit      \* valid_until is None

Statuses == {"PASS", "FAIL", "ERROR", "UNKNOWN"}
Levels == {"LOW", "MEDIUM", "HIGH", "CRITICAL"}

(* ----------------------------- one control ----------------------------- *)

Freshness(o, at) ==
    IF o.collected > at \/ o.until = NoLimit THEN "UNKNOWN"
    ELSE IF o.until < at THEN "STALE" ELSE "FRESH"

Sound(o, at) == o.pinned /\ Freshness(o, at) = "FRESH"

Downgraded(o, at) == o.status = "PASS" /\ ~Sound(o, at)

FromFuture(o, at) == o.collected > at

FinalStatus(o, at) ==
    IF FromFuture(o, at) THEN "ERROR"
    ELSE IF Downgraded(o, at) THEN "UNKNOWN" ELSE o.status

(* ---------------------------- the evaluation --------------------------- *)

\* TrustKernel.evaluate refuses an empty list, an id given twice and an
\* interval that ends before it starts.
Evaluable(observations) ==
    /\ observations # <<>>
    /\ \A i, j \in DOMAIN observations : observations[i].id = observations[j].id => i = j
    /\ \A o \in ToSet(observations) : o.until = NoLimit \/ o.collected <= o.until

Issue(code, o) == [code |-> code, control |-> o.id]

StatusCode == [FAIL |-> "CONTROL_FAILED", ERROR |-> "CONTROL_ERROR", UNKNOWN |-> "CONTROL_UNKNOWN"]

Blockers(os, at) ==
    {Issue(StatusCode[FinalStatus(o, at)], o) : o \in {p \in os : FinalStatus(p, at) # "PASS"}}

Warnings(os, at) ==
    {Issue("PASS_DOWNGRADED", o) : o \in {p \in os : Downgraded(p, at)}}
        \cup {Issue("CONTROL_UNKNOWN", o) : o \in {p \in os : FinalStatus(p, at) = "UNKNOWN"}}

Errors(os, at) ==
    {Issue("EVIDENCE_FROM_FUTURE", o) : o \in {p \in os : FromFuture(p, at)}}
        \cup {Issue("CONTROL_ERROR", o) : o \in {p \in os : FinalStatus(p, at) = "ERROR"}}

\* The whole percentage of controls that are conclusive on sound evidence.
Conclusive(o, at) == FinalStatus(o, at) \in {"PASS", "FAIL"} /\ Sound(o, at)

Confidence(os, at, cap) ==
    Min({cap, (100 * Cardinality({o \in os : Conclusive(o, at)})) \div Cardinality(os)})

VerdictFailFirst(statuses, level) ==
    IF level = "CRITICAL" THEN "BLOCK"
    ELSE IF "FAIL" \in statuses \/ level = "HIGH" THEN "REVIEW_REQUIRED"
    ELSE IF {"ERROR", "UNKNOWN"} \cap statuses # {} THEN "INDETERMINATE"
    ELSE "READY_FOR_HUMAN_REVIEW"

\* The verdict reads the set of final statuses and the level, in this order.
Verdict(statuses, level) ==
    IF {"ERROR", "UNKNOWN"} \cap statuses # {} THEN "INDETERMINATE"
    ELSE IF level = "CRITICAL" THEN "BLOCK"
    ELSE IF "FAIL" \in statuses \/ level = "HIGH" THEN "REVIEW_REQUIRED"
    ELSE "READY_FOR_HUMAN_REVIEW"

Action(verdict, level) ==
    IF verdict = "INDETERMINATE" THEN "DO_NOT_PROCEED"
    ELSE IF verdict = "BLOCK" THEN "BLOCK"
    ELSE IF verdict = "REVIEW_REQUIRED" THEN "REVIEW"
    ELSE IF level = "MEDIUM" THEN "PROCEED_WITH_CAUTION" ELSE "PROCEED"

StatusesOf(os, at) == {FinalStatus(o, at) : o \in os}

Evaluate(observations, at, score, level, cap) ==
    LET os == ToSet(observations)
        verdict == Verdict(StatusesOf(os, at), level) IN
    [at         |-> at,
     controls   |-> {[id |-> o.id, status |-> FinalStatus(o, at), points |-> o.points,
                      evidence |-> IF o.pinned THEN {o.id} ELSE {}] : o \in os},
     evidence   |-> {[control |-> o.id, collected |-> o.collected, until |-> o.until,
                      freshness |-> Freshness(o, at)] : o \in {p \in os : p.pinned}},
     score      |-> score,
     level      |-> level,
     confidence |-> Confidence(os, at, cap),
     verdict    |-> verdict,
     action     |-> Action(verdict, level),
     blockers   |-> Blockers(os, at),
     warnings   |-> Warnings(os, at),
     errors     |-> Errors(os, at),
     passed     |-> {o.id : o \in {p \in os : FinalStatus(p, at) = "PASS"}}]

(* ------------------------ validate_assessment_v1 ----------------------- *)

ControlIds(c) == {x.id : x \in c.controls}

ValidControls(c) ==
    /\ c.controls # {}
    /\ \A x, y \in c.controls : x.id = y.id => x = y
    /\ \A x \in c.controls : x.status \in Statuses /\ x.points >= 0

ValidEvidenceRecords(c) ==
    /\ \A e \in c.evidence : e.control \in ControlIds(c) /\ (e.until = NoLimit \/ e.collected <= e.until)
    /\ \A x \in c.controls : x.evidence \subseteq {e.control : e \in c.evidence}

ValidScores(c) ==
    /\ c.score \in 0..100 /\ c.confidence \in 0..100 /\ c.level \in Levels
    /\ c.verdict \in {"BLOCK", "INDETERMINATE", "READY_FOR_HUMAN_REVIEW", "REVIEW_REQUIRED"}
    /\ c.action \in {"BLOCK", "DO_NOT_PROCEED", "PROCEED", "PROCEED_WITH_CAUTION", "REVIEW"}

\* Passed is exactly the PASS controls, and nothing inconclusive goes unsaid.
ValidIssues(c) ==
    LET issues == {i.control : i \in c.blockers \cup c.warnings \cup c.errors} IN
    /\ issues \subseteq ControlIds(c)
    /\ c.passed = {x.id : x \in {y \in c.controls : y.status = "PASS"}}
    /\ {x.id : x \in {y \in c.controls : y.status \in {"ERROR", "UNKNOWN"}}} \subseteq issues

ValidAssessment(c) == ValidControls(c) /\ ValidEvidenceRecords(c) /\ ValidScores(c) /\ ValidIssues(c)

(* ----------------------- adapt_legacy_assessment ----------------------- *)

\* Everything the adapter itself observes is collected now and valid for valid_for.
SeenNow(id, status, points, at, validFor, pinned) ==
    [id |-> id, status |-> status, points |-> points, collected |-> at,
     until |-> at + validFor, pinned |-> pinned]

MonitoringStatus(status) == IF status \in {"PASS", "FAIL"} THEN status ELSE "UNKNOWN"

\* report is [rules (a sequence of [id, score]), missing, monitoring, score, level].
LegacyControls(report, at, validFor) ==
    LET See(id, status, points) == SeenNow(id, status, points, at, validFor, TRUE) IN
    [i \in DOMAIN report.rules |-> See(<<"rule", report.rules[i].id>>, "FAIL", report.rules[i].score)]
        \o SetToSeq({See(<<"missing", m>>, "FAIL", 0) : m \in report.missing})
        \o << See(<<"monitoring">>, MonitoringStatus(report.monitoring), 0) >>

AdaptedControls(report, additional, at, validFor) ==
    LegacyControls(report, at, validFor) \o SetToSeq(additional)

AdaptedCap(cap) == Min({80, cap})
=============================================================================
