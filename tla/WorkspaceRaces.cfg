\* Every interleaving of two handlers, two workflows and two rows.
CONSTANTS
    Rows = {r1, r2}
    Wfs = {w1, w2}
    Reqs = {q1, q2}
    Actions = {"update", "pause", "resume", "delete"}
    NoRow = NoRow
    NoWf = NoWf
    MaxTries = 2
    MaxLosses = 1
    PostExecution = FALSE
SPECIFICATION Spec
CHECK_DEADLOCK FALSE
SYMMETRY Symmetry
INVARIANTS
    AtMostOneLive
    PhasesEarned
    IInv
PROPERTIES
    FailureOverwrittenOnlyByAnother
