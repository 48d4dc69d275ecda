CONSTANTS
    Options = {"full", "research_only"}
    Providers = {api, codex}
    Forceable = {"prompt", "research", "bibliography", "verification"}
    MaxCommands = 3
    MaxUpsets = 3
SPECIFICATION Spec
SYMMETRY Symmetry
INVARIANTS TypeOK OutputsAreCurrent RefusedOnlyAfterForce CalmResumeFinishes
PROPERTIES CheckpointsKept
CHECK_DEADLOCK FALSE
