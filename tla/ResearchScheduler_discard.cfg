\* A candidate collected while a failed coordinator call stays frozen.
SPECIFICATION Spec
CONSTANTS
    MaxAssignments = 2
    MinInitial = 2
    MaxConcurrent = 2
    MaxOpen = 2
    MaxDecisions = 3
    Limited = FALSE
    MaxStarts = 2
    MaxRaises = 1
INVARIANTS
    NoCandidateDiscarded
CHECK_DEADLOCK FALSE
