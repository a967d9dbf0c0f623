CONSTANTS
    Calls <- AllCalls
    InstanceOrigins = {"https://prod", "https://test"}
    EvidenceHosts = {"artifacts"}
    EvidenceFields = {"u_status", "description", "u_url"}
    Marker <- MarkerOfTwo
    Blank = " "
    MaxPlans = 4
    Absent = Absent
SPECIFICATION PlanSpec
INVARIANTS
    IdentitiesAreExact
    OnlyBuiltDeliveries
CHECK_DEADLOCK FALSE
