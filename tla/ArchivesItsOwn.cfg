CONSTANTS
    TplUids = {u1, u2}
    TplSpaces = {w1}
    TplHandlers = {k1}
    MaxTplRows = 2
    MaxTplVersions = 3
    MaxTplFaults = 0
    NoUid = NoUid
    NoSpace = NoSpace
SPECIFICATION TplSpec
CHECK_DEADLOCK FALSE
PROPERTY ArchivesItsOwn
