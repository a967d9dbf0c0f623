CONSTANTS
    Environments <- Settings
    Defaults <- NewSession
    Examples <- Scenarios
    Edits <- UserEdits
    Broken = {"broken"}
    Unassessable <- Refused
    MaxCalls = 2
    MaxTorn = 1
    Nothing = Nothing
SPECIFICATION Spec
INVARIANTS
    OutcomeIsOfResult
PROPERTIES
    NoUnconfirmedCall
