SPECIFICATION Spec
CONSTANTS
    Versions <- MCVersions
    Keys = {1, 2}
    Inputs <- MCInputs
    Outputs = 1
    MaxCommands = 2
    MaxFaults = 1
    MaxAsks = 1
    Commands <- MCAll
    Alone <- MCAlone
INVARIANTS
    ChannelVerified
    SignaturesVerified
    SignaturesAligned
    CommandEffect
PROPERTIES
    CancelTaken
CHECK_DEADLOCK FALSE
