CONSTANTS
    TplUids = {u1}
    TplSpaces = {w1}
    TplHandlers = {k1, k2}
    MaxTplRows = 2
    MaxTplVersions = 3
    MaxTplFaults = 1
    NoUid = NoUid
    NoSpace = NoSpace
    Crons = {c1, c2}
    CronTemplates = {t1}
    Schedules = {s1, s2}
    CronRuns = {i1}
    CronHandlers = {g1, g2}
    MaxCronWrites = 2
    MaxCronFaults = 1
    NoCron = NoCron
    NoTemplate = NoTemplate
    NoSchedule = NoSchedule
    SecretKeys = {a, b}
    SecretHandlers = {q1, q2, q3}
    NoKey = NoKey
    LabelSpaces = {m1, m2}
    LabelKeys = {x}
    LabelValues = {y1, y2}
    NoLabel = NoLabel
    LabelHandlers = {p1, p2}
    NoSpaceOfLabels = NoSpaceOfLabels
    MetricNames = {a, b}
    MetricValues = {v1, v2}
    MetHandlers = {h1, h2}
    MaxMetInput = 2
    MaxMetWrites = 2
SPECIFICATION StoresSpec
CHECK_DEADLOCK FALSE
SYMMETRY Symmetry
INVARIANTS
    StoresTypeOK TemplatesAgree NotStranded CronAgrees NothingOutlives
    AdditionsKept LabelsFollow MetricsAsAnswered
PROPERTIES
    FlowsImplementHistory
