SPECIFICATION Spec
CONSTANTS
    Width = 8
    MaxMultisigKeys = 3
    MaxBareKeys = 2
    MAX_TAPROOT_NODES = 3
    Wallets = {1, 2}
    Chain = "MAIN"
    can_sign_taproot = TRUE
    Accounts = {1}
    UserPaths <- MCUserPaths
    Imports <- MCImports
    Positions = {0, 1}
    MaxShownKeys = 2
    EditTokens <- MCEditTokens
    Forms <- MCForms
    MaxCommands = 3
    MaxDamage = 1
INVARIANTS
    ReadsWhatIsWritten
    DamageRefused
    PolicyExpands
    DisplaysItsKey
CHECK_DEADLOCK FALSE
