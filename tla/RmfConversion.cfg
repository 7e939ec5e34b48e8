\* One document; two invocations; the budgets are in the MC module.
CONSTANTS
    Docs = {d1}
    Deleters = {x1}
    Native = {n1}
    Legacy = {l1, l2}
    Junk = {k1}
    PageSize = 1
    Workers = {w1, w2}
    Tokens = {t1, t2}
    Budgets <- MCBudgets
SPECIFICATION Spec
SYMMETRY Symmetry
INVARIANTS MetaGoesLast  
CHECK_DEADLOCK FALSE
