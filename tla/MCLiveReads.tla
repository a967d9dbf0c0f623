----------------------------- MODULE MCLiveReads -----------------------------
(***************************************************************************)
(* Instances of LiveReads for TLC: healthy systems, and those that differ  *)
(* from them in at most Deviations objects.                                *)
(***************************************************************************)
EXTENDS LiveReads, TLC

CONSTANT Deviations

Host(disabled, maintained) == [disabled |-> disabled, maintained |-> maintained]
Trigger(disabled, unknown, problem) ==
    [disabled |-> disabled, unknown |-> unknown, problem |-> problem]
Item(time, unsupported) == [clock |-> time, disabled |-> FALSE, unsupported |-> unsupported]
Window(id, since, till, via) == [id |-> id, since |-> since, till |-> till, via |-> via]
Event(id, time, resolved) == [id |-> id, clock |-> time, resolved |-> resolved]

Zabbix ==
    [provider |-> {"zabbix"},
     discover |-> {"supported", "unsupported"},
     host |-> {Host(FALSE, FALSE), Host(TRUE, FALSE), Host(FALSE, TRUE), Absent},
     triggers |-> {<<Trigger(FALSE, FALSE, FALSE)>>, <<Trigger(TRUE, FALSE, FALSE)>>,
                   <<Trigger(FALSE, TRUE, FALSE)>>, <<Trigger(FALSE, FALSE, TRUE)>>, <<Absent>>},
     windows |-> {{}, {Window(1, 3, 6, {"host", "group"})}, {Window(1, 1, 2, {"host", "group"})},
                  {Window(1, 3, 6, {"group"})}, {Window(1, 3, 6, {"other"})},
                  {Window(1, 6, 3, {"host"})}},
     items |-> {<<Item(3, FALSE), Item(4, FALSE)>>, <<Item(3, FALSE), Item(5, FALSE)>>,
                <<Item(4, FALSE), Item(2, FALSE)>>, <<Item(3, TRUE), Item(4, FALSE)>>,
                <<Item(3, FALSE), Absent>>},
     events |-> {{}, {Event(1, 0, FALSE)}, {Event(1, 3, FALSE)}, {Event(1, 3, TRUE)},
                 {Event(1, 2, TRUE), Event(2, 3, FALSE), Event(3, 4, FALSE)}}]

HealthyZabbix ==
    [provider |-> "zabbix", discover |-> "supported", host |-> Host(FALSE, FALSE),
     triggers |-> <<Trigger(FALSE, FALSE, FALSE)>>, windows |-> {},
     items |-> <<Item(3, FALSE), Item(4, FALSE)>>, events |-> {}]

Policy(enabled, valid, conditions) ==
    [enabled |-> enabled, valid |-> valid, conditions |-> conditions]

Gcp ==
    [provider |-> {"gcp"},
     discover |-> {"active", "deleted", "other"},
     resource |-> {Policy("on", TRUE, 1), Policy("off", TRUE, 1), Policy("on", FALSE, 1),
                   Policy("on", TRUE, 7), Policy("unset", TRUE, 1), Absent},
     series |-> {<<{3}, {4}>>, <<{4}, {2}>>, <<{4}, {2, 4}>>, <<{3}, {}>>, <<{}, {}>>,
                 <<{4}, {4}, {2}>>, <<{4}, {4}, {3, 4, 5}>>, <<{0}, {5}>>},
     assets |-> {{1, 2}, {1}, {}, {1, 2, 3}}]

HealthyGcp ==
    [provider |-> "gcp", discover |-> "active", resource |-> Policy("on", TRUE, 1),
     series |-> <<{3}, {4}>>, assets |-> {1, 2}]

\* Every way to change at most Deviations of the fields of a healthy system.
Deviating(healthy, choices) ==
    UNION {{[f \in DOMAIN healthy |-> IF f \in DOMAIN g THEN g[f] ELSE healthy[f]] :
                g \in {h \in [fields -> UNION {choices[f] : f \in fields}] :
                           \A f \in fields : h[f] \in choices[f]}} :
           fields \in {s \in SUBSET DOMAIN healthy : Cardinality(s) <= Deviations}}

AllWorlds == Deviating(HealthyZabbix, Zabbix) \cup Deviating(HealthyGcp, Gcp)

AllRequests ==
    [zabbix |-> {{"host", "triggers", "maintenance", "problems", "events", "freshness"},
                 {"freshness"}},
     gcp |-> {{"asset", "identity", "metric", "resource"}}]
===============================================================================
