\* One request of each kind; duplicate and dying stage Lambdas.
CONSTANTS
    Starters = {s1}
    Cancellers = {c1}
    Workers = {w1, w2}
    MaxRetries = 1
    MaxApiFaults = 0
    MaxWorkerFaults = 2
    MaxLostReplies = 1
SPECIFICATION Spec
SYMMETRY Symmetry
INVARIANT CompleteIsWhole
PROPERTIES ProgressIsKept ServesAsPromised
