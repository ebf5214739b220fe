\* Two workflows, two names; two namespaces until something is lost.
CONSTANTS
    Namespaces = {a, b}
    Names = {n1, n2}
    Wfs = {w1, w2}
    Reqs = {q1}
    Origins = {"request", "cron", "resubmit"}
    None = None
    MaxTries = 2
    MaxLosses = 1
SPECIFICATION BoundedSpec
CHECK_DEADLOCK FALSE
SYMMETRY Symmetry
INVARIANTS
    RowFollowsWorkflow
    QuietAgrees
    IInv
PROPERTIES
    OnlyNamesakesMoveRows
    OnlyStartOverwritesTerminated
    RetriesAbsorbLosses
