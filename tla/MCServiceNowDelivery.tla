----------------------- MODULE MCServiceNowDelivery -----------------------
(***************************************************************************)
(* Instances of ServiceNowDelivery for TLC: who executes which plan, under *)
(* which delivery key, with which request flags.                           *)
(***************************************************************************)
EXTENDS ServiceNowDelivery

CONSTANTS r1, r2, p1, p2, k1, k2

\* Every run repeats one plan.
OnePlan == [r \in Runs |-> p1]
\* The first run has a plan of its own.
TwoPlans == [r \in Runs |-> IF r = r1 THEN p1 ELSE p2]

TwoKeys == [p \in Plans |-> IF p = p1 THEN k1 ELSE k2]
OneKey == [p \in Plans |-> k1]

AllEnrich == [p \in Plans |-> "enrich_existing"]
EnrichAndDraft == [p \in Plans |-> IF p = p1 THEN "enrich_existing" ELSE "create_draft"]

\* A confirmed live write with every dependency.
Live == {[plan |-> "valid", kind |-> "write", confirm |-> TRUE, deps |-> TRUE,
          draft |-> TRUE, fits |-> TRUE]}
\* Every request that differs from Live in at most one flag.
NearLive == {m \in ModeSpace : Cardinality({f \in DOMAIN m : m[f] # (CHOOSE l \in Live : TRUE)[f]}) <= 1}

SomeReadErrors == {[code |-> "TIMEOUT", state |-> "NOT_APPLIED"]}
AllReadErrors == ReadErrorSpace

\* Either run, but not both: each operation on its own, without a rival.
OnlyOne == \A r, s \in Runs : pc[r] # "idle" /\ pc[s] # "idle" => r = s

=============================================================================
