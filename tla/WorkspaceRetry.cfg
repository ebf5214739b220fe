\* A resume fails and is retried.
CONSTANTS
    Rows = {r1}
    Wfs = {w1, w2}
    Reqs = {q1}
    Actions = {"resume"}
    NoRow = NoRow
    NoWf = NoWf
    MaxTries = 1
    MaxLosses = 0
    PostExecution = FALSE
SPECIFICATION CSpec
CHECK_DEADLOCK FALSE
PROPERTIES
    RetryRepeatsFailedAction
