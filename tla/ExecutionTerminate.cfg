\* One workflow, one name, nothing lost.
CONSTANTS
    Namespaces = {a}
    Names = {n1}
    Wfs = {w1}
    Reqs = {q1}
    Origins = {"request"}
    None = None
    MaxTries = 1
    MaxLosses = 0
SPECIFICATION Spec
CHECK_DEADLOCK FALSE
SYMMETRY Symmetry
PROPERTIES
    TerminateMarks
