\* Two assignments, three starts, one interference by a human or another run.
SPECIFICATION Spec
CONSTANTS
    Note <- MCNote
    Links <- MCLinks
    None = None
    Absent = Absent
    Raised = Raised
    Assignment = {1, 2}
    Problem = "problem"
    Task <- MCTask
    Result <- MCResult
    TaskTitle <- MCTaskTitle
    FindingTitles = {"t", "f"}
    Reports <- MCReports
    Admissible <- MCAdmissible
    OtherTitles = {"t", "f"}
    OtherTasks <- MCOtherTasks
    MaxUpsets = 1
    MaxStarts = 3
INVARIANTS TypeOK RefusalHasCause AcceptedIsKept
PROPERTIES ImplementsRevisions
CHECK_DEADLOCK FALSE
