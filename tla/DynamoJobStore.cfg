\* Three concurrent calls of the kinds the Lambdas make, and a deletion.
CONSTANTS
    Calls = {c1, c2, c3}
    Fields <- MCFields
    Values <- MCValues
    Menu <- LambdaMenu
    MAX_WRITE_ATTEMPTS = 2
    MaxDeletes = 1
    MaxLost = 1
SPECIFICATION Spec
SYMMETRY Symmetry
INVARIANT VersionNamesRecord
PROPERTY Linearizable
CHECK_DEADLOCK FALSE
