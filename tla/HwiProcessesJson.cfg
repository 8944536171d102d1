SPECIFICATION Spec
CONSTANTS
    c1 = c1
    c2 = c2
    c3 = c3
    c4 = c4
    Client <- MCClient
    NoClient = NoClient
    Cli = {cli}
    Gui = Gui
    MaxPrompts = 2
SYMMETRY ClientSymmetry
INVARIANTS
    RespondsInJson
