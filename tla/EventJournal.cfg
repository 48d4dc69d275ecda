SPECIFICATION FairSpec
CONSTANTS
    Report = {r1, r2}
    Fault = {f1, f2}
    Decision = decision
    Absent = absent
    MaxEvents = 4
    MaxIssues = 2
    MaxCrashes = 3
    MaxFaults = 2
INVARIANTS
    SnapshotOneAhead
    ReportPublishedOnce
    ResumeAccepted
PROPERTIES
    AckOnlyShown
    PendingIsPublished
    ImplementsStream
CHECK_DEADLOCK FALSE
