CONSTANTS
    Options = {"full"}
    Providers = {api}
    Forceable = {}
    MaxCommands = 2
    MaxUpsets = 1
SPECIFICATION Spec
INVARIANTS ManuscriptFromAcceptedGraph
CHECK_DEADLOCK FALSE
