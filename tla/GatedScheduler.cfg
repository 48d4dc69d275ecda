\* A pool of two, two lives of the process, two policies.
SPECIFICATION GateFairSpec
CONSTANTS
    MaxAssignments = 2
    MinInitial = 2
    MaxConcurrent = 2
    MaxOpen = 2
    MaxDecisions = 1
    Limited = TRUE
    MaxStarts = 2
    MaxRaises = 1
    Audits = {sources}
    Complexity = complexity
    p1 = p1
    p2 = p2
    Policies = {p1, p2}
    Configurations <- MCConfigurations
    FirstConfiguration <- MCFirst
INVARIANTS
    BoughtOnce
    FundedToTheEnd
    AcceptedIsBacked
PROPERTIES
    Settles
CHECK_DEADLOCK FALSE
