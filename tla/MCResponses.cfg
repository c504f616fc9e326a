CONSTANTS
    Base = 2
    Messages <- MCMessages
    Bodies <- MCBodies
    Names = {"grpc-status", "grpc-message"}
    Values = {"0", "7"}
    Statuses = {200, 204, 503}
    MaxHops = 2
    MaxLines = 2
    MaxExponent = 9
    Alphabets <- MCAlphabets
SPECIFICATION Spec
INVARIANTS
    ReadsAllJson
    ReadsOnlyJson
    RoundTrip
    FinalHopRules
    PayloadIntact
    OutcomeReported
CHECK_DEADLOCK FALSE
