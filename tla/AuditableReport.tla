--------------------------- MODULE AuditableReport ---------------------------
(***************************************************************************)
(* auditable_report.py: the report projected from Assessment Contract v1,  *)
(* and its validator.  Redaction, Markdown, links and the summaries cut    *)
(* from it are left out.                                                   *)
(***************************************************************************)
EXTENDS Integers, Sequences, FiniteSets, SequencesExt, FiniteSetsExt, TrustKernel

\* AuditableReportConfig: the two list limits.
CONSTANTS TopBlockersLimit, NextActionsLimit

Having(c, status) == {x.id : x \in {y \in c.controls : y.status = status}}

AtMost(s, n) == SubSeq(s, 1, Min({n, Len(s)}))

BoundedSilently(s, n) == [total |-> Len(AtMost(s, n)), items |-> AtMost(s, n), omitted |-> 0]

Bounded(s, n) == [total |-> Len(s), items |-> AtMost(s, n), omitted |-> Max({0, Len(s) - n})]

\* _derive_actions: errors before unknowns before failures, a critical risk
\* before all, and a human review only when there is nothing else to do.
ActionCode == [ERROR |-> "RESOLVE_TECHNICAL_ERROR", UNKNOWN |-> "COLLECT_TRUSTED_EVIDENCE",
               FAIL |-> "REMEDIATE_FAILED_CONTROL"]

DerivedActions(c) ==
    LET For(status) == SetToSeq({[code |-> ActionCode[status], control |-> id] : id \in Having(c, status)})
        remedies == (IF c.level = "CRITICAL"
                     THEN << [code |-> "KEEP_CHANGE_BLOCKED", control |-> "assessment:risk"] >> ELSE <<>>)
                        \o For("ERROR") \o For("UNKNOWN") \o For("FAIL") IN
    IF remedies # <<>> THEN remedies
    ELSE << [code |-> "REQUEST_AUTHORIZED_HUMAN_REVIEW", control |-> "assessment:decision"] >>

BuildReport(c) ==
    [verdict     |-> c.verdict,
     action      |-> c.action,
     counts      |-> [s \in Statuses |-> Cardinality(Having(c, s))],
     controls    |-> [s \in Statuses |-> Having(c, s)],
     topBlockers |-> Bounded(SetToSeq(c.blockers), TopBlockersLimit),
     freshness   |-> [f \in {"FRESH", "STALE", "UNKNOWN"} |->
                        Cardinality({e \in c.evidence : e.freshness = f})],
     provenance  |-> c.evidence,
     nextActions |-> Bounded(DerivedActions(c), NextActionsLimit)]

(* --------------------- validate_auditable_report_v1 -------------------- *)

ValidCategories(r) ==
    /\ \A s \in Statuses : r.counts[s] = Cardinality(r.controls[s])
    /\ \A s, t \in Statuses : s # t => r.controls[s] \cap r.controls[t] = {}
    /\ r.counts["ERROR"] + r.counts["UNKNOWN"] > 0 =>
           r.verdict = "INDETERMINATE" /\ r.action = "DO_NOT_PROCEED"

ValidCounts(r) ==
    /\ \A b \in {r.topBlockers, r.nextActions} : b.total = Len(b.items) + b.omitted
    /\ \A f \in DOMAIN r.freshness :
           r.freshness[f] = Cardinality({e \in r.provenance : e.freshness = f})

ValidReport(r) == ValidCategories(r) /\ ValidCounts(r)

=============================================================================
