\* One reviewer who exports twice; a duplicate delivery.
CONSTANTS
    Callers = {c1}
    Workers = {w1, w2}
    Messages = {m1, m2, m3}
    Exports = {x1, x2}
    Orders = {1, 2}
    MaxParses = 1
    MaxReceive = 3
    EarlyRedelivery = FALSE
    Ops = {"edit_draft", "approve_draft", "export"}
    Scenarios <- Exporting
SPECIFICATION Spec
SYMMETRY Symmetry
INVARIANTS ReviewedIsApproved ExportIsCurrent
CHECK_DEADLOCK FALSE
