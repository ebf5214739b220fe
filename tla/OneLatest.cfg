CONSTANTS
    FlowRows = {t1}
    FlowHandlers = {h1, h2}
    MaxFlowVersions = 3
    MaxFlowFaults = 0
    NoRow = NoRow
SPECIFICATION FlowSpec
CHECK_DEADLOCK FALSE
INVARIANT OneLatest
