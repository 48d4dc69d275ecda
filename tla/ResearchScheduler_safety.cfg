\* Three assignments, three decisions, one restart, one failing or interrupted call,
\* a finite call budget.
SPECIFICATION Spec
CONSTANTS
    MaxAssignments = 3
    MinInitial = 2
    MaxConcurrent = 2
    MaxOpen = 3
    MaxDecisions = 3
    Limited = TRUE
    MaxStarts = 2
    MaxRaises = 1
INVARIANTS
    CandidatesKept
    OutcomeAfterGate
    StopIsLastDecision
    WorkAccounted
PROPERTIES
    NeverGatedTwice
    AcceptedAfterArbitration
    OutcomeStands
CHECK_DEADLOCK FALSE
