CONSTANTS
    Worlds <- AllWorlds
    Requests <- AllRequests
    Deviations = 1
    Selected = 2
    Retries = 1
    PageSize = 1
    MaxPages = 2
    Ttl = 3
    EvaluatedAt = 4
    Deadline = 6
    MaxSampleAge = 2
    Lookback = 3
    MaxEdits = 2
    MaxFaults = 1
    Absent = Absent
    NoObservation = NoObservation
    Never = Never
SPECIFICATION Spec
INVARIANTS
    PassIsWitnessed
    CallBudget
CHECK_DEADLOCK FALSE
