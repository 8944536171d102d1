SPECIFICATION Spec
CONSTANTS
    NumInputs = 2
    Keys = {"k1", "k2", "f1"}
    OurKeys = {"k1", "k2"}
    OutSpks = {"address", "other"}
    Shapes <- SkippedShapes
INVARIANT EachInputHasOneSignature

