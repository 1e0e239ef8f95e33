SPECIFICATION Spec
CONSTANTS
    Scales = {"tiny", "small"}
    Drivers = {1, 2}
    MaxPublications = 2
    MaxPages = 2
    RowParts = 2
    MaxAttempts = 2
    Attempts = {q1, q2}
    Grade <- MCGrade
SYMMETRY MCAttemptSymmetry
INVARIANTS
    ArtifactMatchesSource
    CancelledAsNamed
    AcceptedFactsDescribeSnapshot
    SuccessLeavesSilver
\* Every DAG run comes to an end.
CHECK_DEADLOCK FALSE
