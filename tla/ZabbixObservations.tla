-------------------------- MODULE ZabbixObservations --------------------------
(***************************************************************************)
(* What the Zabbix provider concludes for a control from the rows of its   *)
(* queries (zabbix_provider.py).  An observation is [status, code,         *)
(* expires]; NoObservation lets the control go on to its next query.       *)
(*                                                                         *)
(* A host is Absent or [disabled, maintained], triggers and items map each *)
(* selected id to Absent or a row, a maintenance is [id, since, till, via].*)
(***************************************************************************)
EXTENDS Integers, FiniteSets, FiniteSetsExt

CONSTANTS
    MaxSampleAge,
    Absent,         \* an object the query does not return
    NoObservation,
    Never           \* no expiry of its own

Codes == {"none", "MISSING", "UNAVAILABLE", "INVALID_RESPONSE", "FUTURE", "STALE", "AUTH",
          "RATE_LIMIT", "TIMEOUT", "CANCELLED", "INTERNAL"}

Observation(status, code, expires) == [status |-> status, code |-> code, expires |-> expires]

Concluded(status) == Observation(status, "none", Never)
Unknown(code) == Observation("UNKNOWN", code, Never)

\* _failure and the except clauses of collect: only what is missing is unknown
\* rather than an error.
Unobserved(code) == Observation(IF code = "MISSING" THEN "UNKNOWN" ELSE "ERROR", code, Never)

(* ------------------- the queries before the last one ------------------- *)

OfHost(host) ==
    IF host = Absent THEN Unknown("MISSING")
    ELSE Concluded(IF host.disabled THEN "FAIL" ELSE "PASS")

\* _enabled_host: nothing favourable is read from a host that is not monitored.
EnabledHost(host) ==
    IF host = Absent THEN Unknown("MISSING")
    ELSE IF host.disabled THEN Unobserved("UNAVAILABLE") ELSE NoObservation

\* The maintenance control takes the host whether it is enabled or not.
VisibleHost(host) == IF host = Absent THEN Unknown("MISSING") ELSE NoObservation

\* _selected: every expected object must be there, and one must be expected.
Incomplete(rows) == rows = << >> \/ \E i \in DOMAIN rows : rows[i] = Absent

\* An empty list of events means nothing unless every trigger is evaluated.
EvaluatedTriggers(rows) ==
    IF Incomplete(rows) THEN Unknown("MISSING")
    ELSE IF \E i \in DOMAIN rows : rows[i].disabled \/ rows[i].unknown
    THEN Unknown("UNAVAILABLE") ELSE NoObservation

(* ---------------------------- the last query --------------------------- *)

OfTriggers(rows) ==
    IF Incomplete(rows) THEN Unknown("MISSING")
    ELSE IF \E i \in DOMAIN rows : rows[i].unknown THEN Unknown("UNAVAILABLE")
    ELSE Concluded(IF \E i \in DOMAIN rows : rows[i].disabled \/ rows[i].problem
                   THEN "FAIL" ELSE "PASS")

\* The assignments to the host and, of those to its groups, the confirmed ones.
Direct(windows) == {m \in windows : "host" \in m.via}
Grouped(windows) == {m \in windows : "group" \in m.via}

Overlaps(m, now) == m.since <= now /\ now < m.till

\* _maintenance and its control: the two answers must not contradict one
\* another, and a definition that overlaps proves no occurrence.
OfMaintenance(host, direct, grouped, now) ==
    LET merged == direct \cup grouped IN
    IF \E m, n \in merged : m.id = n.id /\ <<m.since, m.till>> # <<n.since, n.till>>
    THEN Unobserved("INVALID_RESPONSE")
    ELSE IF \E m \in merged : m.since >= m.till THEN Unobserved("INVALID_RESPONSE")
    ELSE IF host.maintained THEN Concluded("FAIL")
    ELSE IF \E m \in merged : Overlaps(m, now) THEN Unknown("UNAVAILABLE")
    ELSE Concluded("PASS")

\* The evidence expires with the oldest sample, whatever the provider's ttl.
OfItems(rows, now) ==
    LET clocks == {rows[i].clock : i \in DOMAIN rows} IN
    IF Incomplete(rows) THEN Unknown("MISSING")
    ELSE IF \E c \in clocks : c > now THEN Unknown("FUTURE")
    ELSE IF \E c \in clocks : c = 0 \/ now - c >= MaxSampleAge THEN Unknown("STALE")
    ELSE Observation(IF \E i \in DOMAIN rows : rows[i].disabled \/ rows[i].unsupported
                     THEN "FAIL" ELSE "PASS",
                     "none", Min(clocks) + MaxSampleAge)

OfRecords(rows) == Concluded(IF rows # {} THEN "FAIL" ELSE "PASS")
=============================================================================
