\* One action at a time, with failing tasks and a lost call.
CONSTANTS
    Rows = {r1, r2}
    Wfs = {w1, w2, w3}
    Reqs = {q1}
    Actions = {"update", "pause", "resume", "delete"}
    NoRow = NoRow
    NoWf = NoWf
    MaxTries = 2
    MaxLosses = 1
    PostExecution = TRUE
SPECIFICATION FairSpec
CHECK_DEADLOCK FALSE
INVARIANTS
    PhaseMatchesCluster
    TimesMatchPhase
    ResumeFailureNeedsRestart
PROPERTIES
    ImplementsLifecycle
