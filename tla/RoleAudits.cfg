CONSTANTS
    c1 = c1
    c2 = c2
    c3 = c3
    Contents = {c1, c2, c3}
    Untrusted = {c3}
    None = None
    Verifier = Verifier
    Falsifier = Falsifier
    MaxEdits = 2
    MaxFailures = 2
    MaxCrashes = 1
SPECIFICATION Spec
SYMMETRY Symmetry
INVARIANTS
    TrustIsBacked
    RetryIsRecoverable
PROPERTY
    RefusedInKnownWindow
\* The run may finish.
CHECK_DEADLOCK FALSE
