\* Upload to drafts, one caller; two worker deaths; fair, so without symmetry.
CONSTANTS
    Callers = {c1}
    Workers = {w1, w2}
    Messages = {m1, m2, m3}
    Exports = {x1}
    Orders = {1}
    MaxParses = 3
    MaxReceive = 3
    EarlyRedelivery = FALSE
    Ops = {"parse", "edit_mapping", "approve_mappings"}
    Scenarios <- Intake
SPECIFICATION FairSpec
INVARIANTS OneClaimant MapsFollowSections
PROPERTIES PipelineSettles HumanWins
CHECK_DEADLOCK FALSE
