\* One job, overlapping polls, and every combination of four faults: lost
\* requests and answers, refusals, launches left undone, reloads.
CONSTANTS
    Jobs = {j1}
    Polls = {p1, p2}
    MaxFaults = 4
    DEAD_POLLS = 2
    LAUNCH_RETRY_POLLS = 2
    None = none
SPECIFICATION FairSpec
INVARIANTS CalledOffNeverStarts ShownIsTrue
PROPERTY ScreenSettles
CHECK_DEADLOCK FALSE
