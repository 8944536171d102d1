CONSTANTS
    SignedLimit = 3
    Threshold = 5
    Files <- MCFiles
    Clients = {"bitbox02", "digitalbitbox", "jade", "jade_legacy", "ledger", "coldcard"}
    KindOf <- MCKindOf
    Batch = 2
    MaxWallets = 1
    MaxPolicies = 1
    MaxRounds = 1
SPECIFICATION Spec
INVARIANT SignedMeansSigned
