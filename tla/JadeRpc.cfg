SPECIFICATION Spec
CONSTANTS
    TxInputs = 2
    MaxParts = 3
    MaxCommands = 2
    MaxFaults = 1
    MaxTalk = 1
    Commands <- MCCommands
    Codes = {"userCancelled", "badParameters", "hwLocked", "other"}
INVARIANTS
    ResultsFit
    EntropyAfterCommitments
    PsbtWhole
PROPERTIES
    CommandEnds
CHECK_DEADLOCK FALSE
