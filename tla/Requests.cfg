CONSTANTS
    FlowRows = {t1, t2}
    FlowHandlers = {h1, h2}
    MaxFlowVersions = 3
    MaxFlowFaults = 1
    NoRow = NoRow
    MigSpaces = {n1, n2}
    Repositories = {r1, r2}
    Releases = {22, 42, 55}
    OldReleases = {0, 22}
    MaxMigAccidents = 1
    NoRepository = NoRepository
    MaxVersions = 4
    MaxCrashes = 1
    MaxEvents = 3
    MaxTasks = 2
SPECIFICATION RequestsSpec
CHECK_DEADLOCK FALSE
INVARIANTS RequestsTypeOK NewestIsLatest VersionRunnable FlowAgrees LastSeen NeverStuck LikeNew
    NoChangeForgotten TasksInOrder ExecutionCompletes
PROPERTIES ArchiveEndsArchived ArchiveCompletes ImplementsHistory ServerConverges WatchEnds
