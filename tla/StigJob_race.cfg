\* Two starters race a canceller; one Lambda slot.
CONSTANTS
    Starters = {s1, s2}
    Cancellers = {c1}
    Workers = {w1}
    MaxRetries = 0
    MaxApiFaults = 1
    MaxWorkerFaults = 0
    MaxLostReplies = 1
SPECIFICATION Spec
SYMMETRY Symmetry
INVARIANTS ToldTheTruth OneLaunchIntent
PROPERTY NoAcceptAfterStop
