SPECIFICATION Spec
CONSTANTS
    Values <- MCValues
    MaxBuilt = 10
    MaxLeaves = 12
INVARIANTS  ProofsVerify
