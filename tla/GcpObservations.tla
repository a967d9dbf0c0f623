--------------------------- MODULE GcpObservations ---------------------------
(***************************************************************************)
(* What the GCP provider concludes for a control from the pages it read    *)
(* (gcp_observations.py).  A policy is Absent or [enabled, valid,          *)
(* conditions]; a page of metrics is a set of [name, points] and one of    *)
(* assets a set of names, each in the order of the names; times are whole  *)
(* seconds.                                                                *)
(***************************************************************************)
EXTENDS ZabbixObservations, Sequences, Functions

CONSTANT Lookback

\* Every row of every page.
Flat(pages) == UNION Range(pages)

\* project_number: nothing is read of a project that is not active.
OfProject(project) ==
    CASE project = "active" -> NoObservation
      [] project = "other" -> Unobserved("INVALID_RESPONSE")
      [] OTHER -> Unobserved("UNAVAILABLE")

OfPolicy(policy) ==
    IF policy.enabled = "unset" THEN Unknown("MISSING")
    ELSE IF policy.enabled = "off" \/ ~policy.valid THEN Concluded("FAIL")
    ELSE IF policy.conditions \notin 1..6 THEN Unobserved("INVALID_RESPONSE")
    ELSE Concluded("PASS")

\* A series that is empty, reaches out of the interval or repeats a sample of an
\* earlier page.  Its points come newest first.
Repeats(pages, n, s) ==
    \E m \in 1..(n - 1) : \E t \in pages[m] : t.name = s.name /\ t.points \cap s.points # {}

Troubled(pages, n, s, now) ==
    \/ s.points = {}
    \/ \E p \in s.points : p > now \/ p < now - Lookback
    \/ Repeats(pages, n, s)

\* Where the series are, and which comes first in the order of the pages.
Places(pages) == UNION {{<<n, s>> : s \in pages[n]} : n \in DOMAIN pages}
First(places) ==
    CHOOSE x \in places : \A y \in places :
        x[1] < y[1] \/ (x[1] = y[1] /\ x[2].name <= y[2].name)

Trouble(points, now) ==
    IF points = {} THEN Unknown("MISSING")
    ELSE IF Max(points) > now THEN Unknown("FUTURE") ELSE Unobserved("INVALID_RESPONSE")

\* The last sample of the series whose last sample is the oldest; a later page
\* may go on with a series.
OldestLatest(series) ==
    Min({Max(UNION {s.points : s \in {t \in series : t.name = r.name}}) : r \in series})

OfMetric(pages, now) ==
    LET series == Flat(pages)
        troubled == {x \in Places(pages) : Troubled(pages, x[1], x[2], now)}
        expires == OldestLatest(series) + MaxSampleAge
    IN  IF troubled # {} THEN Trouble(First(troubled)[2].points, now)
        ELSE IF series = {} THEN Unknown("MISSING")
        ELSE IF expires <= now THEN Unknown("STALE")
        ELSE Observation("PASS", "none", expires)

\* One snapshot: every page is of the same instant and no name comes twice.
OfAsset(pages, selected) ==
    IF \E m, n \in DOMAIN pages : m # n /\ pages[m] \cap pages[n] # {}
    THEN Unobserved("INVALID_RESPONSE")
    ELSE IF selected \notin Flat(pages) THEN Unknown("MISSING") ELSE Concluded("PASS")
=============================================================================
