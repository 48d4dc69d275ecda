SPECIFICATION Spec
CONSTANTS
    Report = {r1}
    Fault = {f1, f2}
    Decision = decision
    Absent = absent
    MaxEvents = 3
    MaxIssues = 2
    MaxCrashes = 1
    MaxFaults = 0
INVARIANT FailureIsRecordable
CHECK_DEADLOCK FALSE
