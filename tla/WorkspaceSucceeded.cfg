\* One pause, no failure, no loss: the workflow may report before the phase is written.
CONSTANTS
    Rows = {r1}
    Wfs = {w1, w2}
    Reqs = {q1}
    Actions = {"pause"}
    NoRow = NoRow
    NoWf = NoWf
    MaxTries = 1
    MaxLosses = 0
    PostExecution = FALSE
SPECIFICATION Spec
CHECK_DEADLOCK FALSE
INVARIANTS
    SucceededNeedsNothing
