\* Two people on two sections, with every kind of fault.
CONSTANTS
    Callers = {c1, c2}
    Workers = {w1, w2}
    Messages = {m1, m2, m3}
    Exports = {x1}
    Orders = {1, 2}
    MaxParses = 1
    MaxReceive = 2
    EarlyRedelivery = FALSE
    Ops = {"approve_mappings", "edit_draft", "approve_draft", "export"}
    Scenarios <- Reviews
SPECIFICATION Spec
SYMMETRY Symmetry
INVARIANTS EverySectionDrafted ExportIsSigned
PROPERTY ApprovalSticks
CHECK_DEADLOCK FALSE
