SPECIFICATION FairSpec
CONSTANTS
    NumInputs = 2
    Keys = {"k1", "k2", "f1"}
    OurKeys = {"k1", "k2"}
    OutSpks = {"address", "other"}
    Shapes <- AllShapes
INVARIANTS TypeOK SignaturesBelong AllOurKeysSigned
PROPERTIES SignaturesKept NoWastedPass SigningEnds
