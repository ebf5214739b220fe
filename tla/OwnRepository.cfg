CONSTANTS
    MigSpaces = {n1, n2}
    Repositories = {r1, r2}
    Releases = {22, 42, 55}
    OldReleases = {0}
    MaxMigAccidents = 0
    NoRepository = NoRepository
SPECIFICATION MigSpec
CHECK_DEADLOCK FALSE
INVARIANT OwnRepository
