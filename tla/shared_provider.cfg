CONSTANTS
    u1 = u1
    u2 = u2
    c1 = c1
    c2 = c2
    c3 = c3
    x = x
    y = y
    t1 = t1
    t2 = t2
    Runners = {u1, u2}
    Calls = {c1, c2, c3}
    RunnerOf <- TwoRunners
    Contexts = {t1, t2}
    Controls = {x, y}
    ContextOf <- TwoContexts
    Asked <- AllX
    At <- SameInstant
    Timeout = 1
    MaxTime = 0
    Capacity = 0
    Observations <- PassOnly
    Failures = {"cancel"}
    RaisedCodes = {}
SPECIFICATION Spec
INVARIANTS
    AnswersTheRequest
CHECK_DEADLOCK FALSE
