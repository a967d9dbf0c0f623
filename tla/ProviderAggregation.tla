------------------------- MODULE ProviderAggregation -------------------------
(***************************************************************************)
(* Evidence Provider Contract v1 (provider_contract.py) and the            *)
(* aggregation of observations (provider_aggregation.py).                  *)
(*                                                                         *)
(* An observation is a record                                              *)
(*   [key, status, collected, until, confidence, code]                     *)
(* where key stands for the triple (provider, version, control) and the    *)
(* instants are whole seconds, as the canonical timestamps are.            *)
(***************************************************************************)
EXTENDS Integers, Sequences, FiniteSets, SequencesExt, FiniteSetsExt

\* Keys: the identities the caller expects, one observation each.
CONSTANTS Keys, NoCode

ProviderStatuses == {"PASS", "FAIL", "UNKNOWN", "ERROR", "NOT_APPLICABLE"}
ErrorCodes == {"TIMEOUT", "CANCELLED", "AUTH", "RATE_LIMIT", "UNAVAILABLE", "INVALID_RESPONSE",
               "INTERNAL", "MISSING", "STALE", "FUTURE"}

\* ProviderEvidence.__post_init__: a positive validity interval, and neither
\* an inconclusive nor a not-applicable observation carries confidence.
ValidEvidence(e) ==
    /\ e.status \in ProviderStatuses
    /\ e.collected < e.until
    /\ e.confidence \in 0..100
    /\ e.status \in {"ERROR", "UNKNOWN"} => e.confidence = 0 /\ e.code \in ErrorCodes
    /\ e.status \notin {"ERROR", "UNKNOWN"} => e.code = NoCode
    /\ e.status = "NOT_APPLICABLE" => e.confidence = 0

\* The validity window is closed on the left and open on the right.
Current(e, at) == e.collected <= at /\ at < e.until

EffectiveStatus(e, at) ==
    IF e.status \in {"ERROR", "UNKNOWN", "FAIL"} \/ Current(e, at) THEN e.status ELSE "UNKNOWN"

\* What the aggregate says of an expected identity without usable evidence.
Unavailable(key, at, code) ==
    [key |-> key, status |-> "UNKNOWN", collected |-> at, until |-> at + 1,
     confidence |-> 0, code |-> code]

AggregableLastWins(arrived) ==
    \A i \in DOMAIN arrived : ValidEvidence(arrived[i]) /\ arrived[i].key \in Keys

\* aggregate_provider_evidence refuses an identity it does not expect and a
\* second observation of one identity, whichever came first.
Aggregable(arrived) ==
    /\ \A i \in DOMAIN arrived : ValidEvidence(arrived[i]) /\ arrived[i].key \in Keys
    /\ \A i, j \in DOMAIN arrived : arrived[i].key = arrived[j].key => i = j

\* An explicit ERROR or FAIL outlives its window, everything else turns UNKNOWN.
Projected(e, at) ==
    IF Current(e, at) \/ e.status \in {"ERROR", "FAIL"} THEN e
    ELSE Unavailable(e.key, at, IF at < e.collected THEN "FUTURE" ELSE "STALE")

\* by_key: one observation of each identity.
Observed(arrived) ==
    {arrived[i] : i \in {j \in DOMAIN arrived :
        \A k \in DOMAIN arrived : arrived[k].key = arrived[j].key => k <= j}}

\* What has expired is left out like what was never asked for.
AggregateOfCurrent(arrived, at) ==
    LET observed == Observed(arrived) IN
    {e \in observed : Current(e, at)}
        \cup {Unavailable(k, at, "MISSING") : k \in Keys \ {e.key : e \in observed}}

Aggregate(arrived, at) ==
    LET observed == Observed(arrived) IN
    {Projected(e, at) : e \in observed}
        \cup {Unavailable(k, at, "MISSING") : k \in Keys \ {e.key : e \in observed}}

\* The cap is the weakest applicable confidence, zero when nothing applies.
ConfidenceCap(aggregate, at) ==
    LET applicable == {e \in aggregate : e.status # "NOT_APPLICABLE"} IN
    IF applicable = {} THEN 0
    ELSE Min({IF Current(e, at) THEN e.confidence ELSE 0 : e \in applicable})

\* Contract v1 has no state for not applicable: it is handed on as UNKNOWN.
ControlStatusAsIs(e, at) ==
    LET effective == EffectiveStatus(e, at) IN
    IF effective = "NOT_APPLICABLE" THEN "PASS" ELSE effective

ControlStatus(e, at) ==
    LET effective == EffectiveStatus(e, at) IN
    IF effective = "NOT_APPLICABLE" THEN "UNKNOWN" ELSE effective

ProviderControls(aggregate, at) ==
    {[id |-> <<"provider", e.key>>, status |-> ControlStatus(e, at), points |-> 0,
      collected |-> e.collected, until |-> e.until, pinned |-> TRUE] : e \in aggregate}
=============================================================================
