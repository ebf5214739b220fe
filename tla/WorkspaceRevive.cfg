\* A retried launch against deletes: three workflows, the row may end and come back.
CONSTANTS
    Rows = {r1, r2}
    Wfs = {w1, w2, w3}
    Reqs = {q1, q2}
    Actions = {"delete"}
    NoRow = NoRow
    NoWf = NoWf
    MaxTries = 1
    MaxLosses = 0
    PostExecution = TRUE
SPECIFICATION Spec
CHECK_DEADLOCK FALSE
SYMMETRY Symmetry
PROPERTIES
    OnlyRestartRevives
