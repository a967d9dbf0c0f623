--------------------------- MODULE MCAssessedChange ---------------------------
(***************************************************************************)
(* Instances of AssessedChange for TLC: two expected identities, a draft   *)
(* of each outcome, and one observation of each kind.                      *)
(***************************************************************************)
EXTENDS AssessedChange

CONSTANTS k1, k2, other

Service(critical) == [name |-> "payments", critical |-> critical, owner |-> TRUE, runbook |-> TRUE, impact |-> TRUE]

Plan(production, kind, rollback, monitorIds) ==
    [production |-> production, class |-> "normal", kind |-> kind, rollback |-> rollback, monitoring |-> 2,
     validation |-> TRUE, monitorIds |-> monitorIds, badDashboards |-> 0]

Draft(critical, change) ==
    [service |-> Service(critical), change |-> change, scanned |-> <<>>,
     inventory |-> {[id |-> "m", provider |-> "zabbix", enabled |-> TRUE]}]

\* Nothing found; one finding; a critical risk; and one monitor the inventory
\* does not have, and two of them.
AllDrafts ==
    {Draft(FALSE, Plan(FALSE, "application", "real", <<"m">>)),
     Draft(FALSE, Plan(FALSE, "database", "real", <<"m">>)),
     Draft(TRUE, Plan(TRUE, "database", "none", <<"m">>)),
     Draft(FALSE, Plan(FALSE, "application", "real", <<"absent", "gone">>))}

Pack ==
    [digest |-> "pack", governed |-> FALSE, base |-> Weight("production-change") :> 30,
     overlays |-> {}]

Offer(key, status, confidence, code, life, ahead) ==
    [key |-> key, status |-> status, confidence |-> confidence, code |-> code,
     life |-> life, ahead |-> ahead]

\* Of the first identity everything, of the second a short PASS and a FAIL
\* from a clock that is ahead, and one of an identity that is not expected.
AllOffers ==
    {Offer(k1, "PASS", 90, NoCode, 2, 0), Offer(k1, "PASS", 60, NoCode, 1, 1),
     Offer(k1, "FAIL", 70, NoCode, 1, 0), Offer(k1, "ERROR", 0, "TIMEOUT", 1, 0),
     Offer(k1, "UNKNOWN", 0, "MISSING", 1, 0), Offer(k1, "NOT_APPLICABLE", 0, NoCode, 2, 0),
     Offer(k2, "PASS", 50, NoCode, 1, 0), Offer(k2, "FAIL", 70, NoCode, 1, 1),
     Offer(other, "PASS", 90, NoCode, 2, 0)}
===============================================================================
