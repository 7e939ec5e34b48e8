\* One browser with one job; two restarts or lost fetches.
CONSTANTS
    Jobs = {j1}
    Polls = {p1}
    Downloads = {d1}
    MaxFaults = 2
    NoJob = none
    MAX_POLL_FAILURES = 2
SPECIFICATION FairSpec
INVARIANTS WorkerKeepsItsFiles ResultIsReal
PROPERTIES CancelTakesEffect  
CHECK_DEADLOCK FALSE
