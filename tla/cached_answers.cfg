CONSTANTS
    u1 = u1
    u2 = u2
    c1 = c1
    c2 = c2
    c3 = c3
    x = x
    y = y
    t1 = t1
    t2 = t2
    Runners = {u1}
    Calls = {c1, c2, c3}
    RunnerOf <- OneRunner
    Contexts = {t1, t2}
    Controls = {x, y}
    ContextOf <- TwoContexts
    Asked <- SecondBoth
    At <- LaterInstants
    Timeout = 1
    MaxTime = 1
    Capacity = 1
    Observations <- PassFailExempt
    Failures = {"provider", "close", "short", "foreign", "open"}
    RaisedCodes = {"UNAVAILABLE"}
SPECIFICATION FairSpec
INVARIANTS
    PassIsCurrent
    CacheIsSound
    NoLeakedClient
PROPERTIES
    LateNeverCounts
    Termination
CHECK_DEADLOCK FALSE
