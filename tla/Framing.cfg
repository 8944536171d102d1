SPECIFICATION Spec
CONSTANTS
    Report = 10
    Sizes <- MCSizes
    MaxCalls = 3
    MaxFaults = 1
INVARIANTS
    OwnAnswer
PROPERTIES
    CallReturns
    ImplementsExchange
CHECK_DEADLOCK FALSE
