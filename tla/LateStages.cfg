CONSTANTS
    Rounds = 1
    MaxPapers <- Papers
    Faults <- PaperFaults
    Statements = {s1, s2}
    Limits = {0, 2}
    MaxIdle = 2
    Forceable = {"manuscript", "bibliography", "verification"}
    MaxCommands <- Commands
    MaxUpsets = 1
SPECIFICATION Spec
SYMMETRY Symmetry
INVARIANTS PublishedAsBuilt VerifiedIsProof SameQuestionResumes RecordedProofIsUsed
CHECK_DEADLOCK FALSE
