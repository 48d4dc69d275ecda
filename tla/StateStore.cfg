\* Five generations, two crashes, one torn file.
SPECIFICATION Spec
CONSTANTS
    Content <- Texts
    Redacted <- RedactText
    None = None
    Absent = Absent
    Torn = Torn
    MaxGeneration = 5
    MaxCrashes = 2
    MaxDamage = 1
INVARIANTS
    OneTearLosesOneSave
PROPERTIES
    ImplementsCell
CHECK_DEADLOCK FALSE
