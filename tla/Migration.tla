------------------------------- MODULE Migration -------------------------------
(***************************************************************************)
(* The upgrades of the system templates: the migrations of db/go, which    *)
(* goose runs one by one when the server starts (main.go), and the         *)
(* creation of a namespace, which instead takes the files of db/yaml.      *)
(*                                                                         *)
(* A migration opens a client of its own, so goose's transaction undoes    *)
(* nothing of it: goose only records that a migration is done.  One that   *)
(* fails ends the process; the next start tries it again.  Calls on one    *)
(* template of one namespace are atomic here, but for the version that is  *)
(* broken off between its two calls to Argo (WorkflowTemplate and          *)
(* WorkspaceTemplate take them apart).                                     *)
(***************************************************************************)
EXTENDS Naturals, Sequences

CONSTANTS
    MigSpaces,          \* namespaces that may come to exist
    Repositories,       \* kinds of artifact repository
    Releases,           \* indexes of Migrations: releases that are deployed, in order
    OldReleases,        \* migrations the old server may have run, 0 for a new database
    MaxMigAccidents,    \* bound: accidents and users' own versions
    NoRepository

SystemTemplates == {"CVAT", "CVAT_1.6.0", "JupyterLab", "VSCode", "Desktop", "Hyperparameter",
                    "MaskRCNN", "PyTorch", "TensorFlow", "TFOD"}

WorkspaceTemplates == {"CVAT", "CVAT_1.6.0", "JupyterLab", "VSCode", "Desktop"}

(* What a migration does in every namespace, one operation after the other. *)
Operation(does, T, f) == [does |-> does, template |-> T, file |-> f]
Create(T, f) == Operation("create", T, f)
CreateIfAbsent(T, f) == Operation("createIfAbsent", T, f)
Update(T, f) == Operation("update", T, f)
Describe(T) == Operation("describe", T, <<0, 0>>)
DescribeIfThere(T) == Operation("describeIfThere", T, <<0, 0>>)
ArchiveUnused(T) == Operation("archiveUnused", T, <<0, 0>>)

(* The migrations, by their dates and times.                                *)
Up20200525160514 == <<Create("JupyterLab", <<20200525, 160514>>)>>
Up20200528140124 == <<Create("CVAT", <<20200528, 140124>>)>>
Up20200605090509 == <<Create("PyTorch", <<20200605, 90509>>)>>
Up20200605090535 == <<Create("TensorFlow", <<20200605, 90535>>)>>
Up20200626113635 == <<Update("CVAT", <<20200626, 113635>>)>>
Up20200704151301 == <<Update("CVAT", <<20200704, 151301>>)>>
Up20200724220450 == <<Update("CVAT", <<20200724, 220450>>)>>
Up20200727144157 == <<>>
Up20200728190804 == <<>>
Up20200812104328 == <<CreateIfAbsent("MaskRCNN", <<20200812, 104328>>), Create("TFOD", <<20200812, 104328>>)>>
Up20200812113316 == <<Update("CVAT", <<20200812, 113316>>)>>
Up20200814160856 == <<Describe("JupyterLab")>>
Up20200821162630 == <<Update("JupyterLab", <<20200821, 162630>>)>>
Up20200824095513 == <<Update("MaskRCNN", <<20200824, 95513>>)>>
Up20200824101019 == <<Update("TFOD", <<20200824, 101019>>)>>
Up20200824101905 == <<Update("CVAT", <<20200824, 101905>>)>>
Up20200825154403 == <<Update("CVAT", <<20200825, 154403>>)>>
Up20200826185926 == <<Update("CVAT", <<20200826, 185926>>)>>
Up20200922103448 == <<DescribeIfThere("JupyterLab")>>
Up20200929144301 == <<Create("VSCode", <<20200929, 144301>>)>>
Up20200929153931 == <<Update("JupyterLab", <<20200929, 153931>>)>>
Up20201001070806 == <<Update("CVAT", <<20201001, 70806>>)>>
Up20201016170415 == <<Update("CVAT", <<20201016, 170415>>)>>
Up20201028145442 == <<Update("JupyterLab", <<20201028, 145442>>)>>
Up20201028145443 == <<Update("VSCode", <<20201028, 145443>>)>>
Up20201031165106 == <<Update("JupyterLab", <<20201031, 165106>>)>>
Up20201102104048 == <<Update("CVAT", <<20201102, 104048>>)>>
Up20201113094916 == <<Update("CVAT", <<20201113, 94916>>)>>
Up20201115133046 == <<Update("CVAT", <<20201115, 133046>>)>>
Up20201115134934 == <<Update("TFOD", <<20201115, 134934>>)>>
Up20201115145814 == <<Update("MaskRCNN", <<20201115, 145814>>)>>
Up20201130130433 == <<Update("TFOD", <<20201130, 130433>>)>>
Up20201208155115 == <<Update("TFOD", <<20201208, 155115>>)>>
Up20201208155805 == <<Update("MaskRCNN", <<20201208, 155115>>)>>
Up20201209124226 == <<Update("TensorFlow", <<20201209, 124226>>)>>
Up20201211161117 == <<Update("CVAT", <<20201211, 161117>>)>>
Up20201214133458 == <<Update("JupyterLab", <<20201214, 133458>>)>>
Up20201221194344 == <<Update("PyTorch", <<20201221, 194344>>)>>
Up20201221195937 == <<Update("MaskRCNN", <<20201221, 195937>>)>>
Up20201223062947 == <<Update("TensorFlow", <<20201223, 62947>>)>>
Up20201223202929 == <<Update("TFOD", <<20201223, 202929>>)>>
Up20201225172926 == <<Create("Hyperparameter", <<20201225, 172926>>)>>
Up20201229205644 == <<Update("JupyterLab", <<20201229, 205644>>)>>
Up20210107094725 == <<Update("CVAT", <<20210107, 94725>>)>>
Up20210118175809 == <<Update("Hyperparameter", <<20210118, 175809>>),
                        Update("MaskRCNN", <<20210118, 175809>>),
                        Update("PyTorch", <<20210118, 175809>>),
                        Update("TensorFlow", <<20210118, 175809>>),
                        Update("TFOD", <<20210118, 175809>>)>>
Up20210129094725 == <<Update("CVAT", <<20210129, 134326>>)>>
Up20210129142057 == <<Update("JupyterLab", <<20210129, 142057>>)>>
Up20210129152427 == <<Update("VSCode", <<20210129, 152427>>)>>
Up20210224180017 == <<Update("CVAT", <<20210224, 180017>>),
                        Update("JupyterLab", <<20210224, 180017>>),
                        Update("VSCode", <<20210224, 180017>>)>>
Up20210323175655 == <<Update("PyTorch", <<20210323, 175655>>),
                        Update("TensorFlow", <<20210323, 175655>>)>>
Up20210329171739 == <<Update("CVAT", <<20210323, 175655>>),
                        Update("JupyterLab", <<20210323, 175655>>),
                        Update("VSCode", <<20210323, 175655>>)>>
Up20210329194731 == <<ArchiveUnused("Hyperparameter")>>
Up20210414165510 == <<Create("Desktop", <<20210414, 165510>>)>>
Up20210719190719 == <<Update("CVAT", <<20210719, 190719>>),
                        Update("JupyterLab", <<20210719, 190719>>),
                        Update("Desktop", <<20210719, 190719>>),
                        Update("VSCode", <<20210719, 190719>>)>>
Up20211028205201 == <<Create("CVAT_1.6.0", <<20211028, 205201>>)>>

Migrations == <<
    [version |-> <<20200525, 160514>>, ops |-> Up20200525160514],
    [version |-> <<20200528, 140124>>, ops |-> Up20200528140124],
    [version |-> <<20200605, 90509>>, ops |-> Up20200605090509],
    [version |-> <<20200605, 90535>>, ops |-> Up20200605090535],
    [version |-> <<20200626, 113635>>, ops |-> Up20200626113635],
    [version |-> <<20200704, 151301>>, ops |-> Up20200704151301],
    [version |-> <<20200724, 220450>>, ops |-> Up20200724220450],
    [version |-> <<20200727, 144157>>, ops |-> Up20200727144157],
    [version |-> <<20200728, 190804>>, ops |-> Up20200728190804],
    [version |-> <<20200812, 104328>>, ops |-> Up20200812104328],
    [version |-> <<20200812, 113316>>, ops |-> Up20200812113316],
    [version |-> <<20200814, 160856>>, ops |-> Up20200814160856],
    [version |-> <<20200821, 162630>>, ops |-> Up20200821162630],
    [version |-> <<20200824, 95513>>, ops |-> Up20200824095513],
    [version |-> <<20200824, 101019>>, ops |-> Up20200824101019],
    [version |-> <<20200824, 101905>>, ops |-> Up20200824101905],
    [version |-> <<20200825, 154403>>, ops |-> Up20200825154403],
    [version |-> <<20200826, 185926>>, ops |-> Up20200826185926],
    [version |-> <<20200922, 103448>>, ops |-> Up20200922103448],
    [version |-> <<20200929, 144301>>, ops |-> Up20200929144301],
    [version |-> <<20200929, 153931>>, ops |-> Up20200929153931],
    [version |-> <<20201001, 70806>>, ops |-> Up20201001070806],
    [version |-> <<20201016, 170415>>, ops |-> Up20201016170415],
    [version |-> <<20201028, 145442>>, ops |-> Up20201028145442],
    [version |-> <<20201028, 145443>>, ops |-> Up20201028145443],
    [version |-> <<20201031, 165106>>, ops |-> Up20201031165106],
    [version |-> <<20201102, 104048>>, ops |-> Up20201102104048],
    [version |-> <<20201113, 94916>>, ops |-> Up20201113094916],
    [version |-> <<20201115, 133046>>, ops |-> Up20201115133046],
    [version |-> <<20201115, 134934>>, ops |-> Up20201115134934],
    [version |-> <<20201115, 145814>>, ops |-> Up20201115145814],
    [version |-> <<20201130, 130433>>, ops |-> Up20201130130433],
    [version |-> <<20201208, 155115>>, ops |-> Up20201208155115],
    [version |-> <<20201208, 155805>>, ops |-> Up20201208155805],
    [version |-> <<20201209, 124226>>, ops |-> Up20201209124226],
    [version |-> <<20201211, 161117>>, ops |-> Up20201211161117],
    [version |-> <<20201214, 133458>>, ops |-> Up20201214133458],
    [version |-> <<20201221, 194344>>, ops |-> Up20201221194344],
    [version |-> <<20201221, 195937>>, ops |-> Up20201221195937],
    [version |-> <<20201223, 62947>>, ops |-> Up20201223062947],
    [version |-> <<20201223, 202929>>, ops |-> Up20201223202929],
    [version |-> <<20201225, 172926>>, ops |-> Up20201225172926],
    [version |-> <<20201229, 205644>>, ops |-> Up20201229205644],
    [version |-> <<20210107, 94725>>, ops |-> Up20210107094725],
    [version |-> <<20210118, 175809>>, ops |-> Up20210118175809],
    [version |-> <<20210129, 94725>>, ops |-> Up20210129094725],
    [version |-> <<20210129, 142057>>, ops |-> Up20210129142057],
    [version |-> <<20210129, 152427>>, ops |-> Up20210129152427],
    [version |-> <<20210224, 180017>>, ops |-> Up20210224180017],
    [version |-> <<20210323, 175655>>, ops |-> Up20210323175655],
    [version |-> <<20210329, 171739>>, ops |-> Up20210329171739],
    [version |-> <<20210329, 194731>>, ops |-> Up20210329194731],
    [version |-> <<20210414, 165510>>, ops |-> Up20210414165510],
    [version |-> <<20210719, 190719>>, ops |-> Up20210719190719],
    [version |-> <<20211028, 205201>>, ops |-> Up20211028205201]>>

(* The files of db/yaml.                                                    *)
YamlFiles(T) ==
    CASE T = "Hyperparameter" -> {<<20201225, 172926>>, <<20210118, 175809>>}
      [] T = "MaskRCNN" -> {<<20200812, 104328>>, <<20200824, 95513>>, <<20201115, 145814>>,
                               <<20201208, 155115>>, <<20201221, 195937>>, <<20210118, 175809>>}
      [] T = "PyTorch" -> {<<20200605, 90509>>, <<20201221, 194344>>, <<20210118, 175809>>,
                               <<20210323, 175655>>}
      [] T = "TensorFlow" -> {<<20200605, 90535>>, <<20201209, 124226>>, <<20201223, 62947>>,
                               <<20210118, 175809>>, <<20210323, 175655>>}
      [] T = "TFOD" -> {<<20200812, 104328>>, <<20200824, 101019>>, <<20201115, 134934>>,
                               <<20201130, 130433>>, <<20201208, 155115>>, <<20201223, 202929>>,
                               <<20210118, 175809>>}
      [] T = "CVAT" -> {<<20200528, 140124>>, <<20200626, 113635>>, <<20200704, 151301>>,
                               <<20200724, 220450>>, <<20200812, 113316>>, <<20200824, 101905>>,
                               <<20200825, 154403>>, <<20200826, 185926>>, <<20201001, 70806>>,
                               <<20201016, 170415>>, <<20201102, 104048>>, <<20201113, 94916>>,
                               <<20201115, 133046>>, <<20201211, 161117>>, <<20210107, 94725>>,
                               <<20210129, 134326>>, <<20210224, 180017>>, <<20210323, 175655>>,
                               <<20210719, 190719>>}
      [] T = "CVAT_1.6.0" -> {<<20211028, 205201>>}
      [] T = "JupyterLab" -> {<<20200525, 160514>>, <<20200821, 162630>>, <<20200929, 153931>>,
                               <<20201028, 145442>>, <<20201031, 165106>>, <<20201214, 133458>>,
                               <<20201229, 205644>>, <<20210129, 142057>>, <<20210224, 180017>>,
                               <<20210323, 175655>>, <<20210719, 190719>>}
      [] T = "Desktop" -> {<<20210414, 165510>>, <<20210719, 190719>>}
      [] T = "VSCode" -> {<<20200929, 144301>>, <<20201028, 145443>>, <<20210129, 152427>>,
                               <<20210224, 180017>>, <<20210323, 175655>>, <<20210719, 190719>>}

Earlier(a, b) == a[1] < b[1] \/ (a[1] = b[1] /\ a[2] <= b[2])

WritesFile(i, j, T) ==
    /\ j \in DOMAIN Migrations[i].ops
    /\ Migrations[i].ops[j].template = T
    /\ Migrations[i].ops[j].file # <<0, 0>>

FileOf(w) == Migrations[w[1]].ops[w[2]].file

(* What writes T among the first k migrations, at most five operations each. *)
WritersOf(T, k) == {w \in (1..k) \X (1..5) : WritesFile(w[1], w[2], T)}

(* The newest file of T, by its name, that release r ships: those its       *)
(* migrations write, <<0, 0>> if there is none.                             *)
NewestFile(T, r) ==
    LET shipped == {f \in YamlFiles(T) : \E w \in WritersOf(T, r) : FileOf(w) = f} IN
    IF shipped = {} THEN <<0, 0>> ELSE CHOOSE f \in shipped : \A g \in shipped : Earlier(g, f)

(* The file the last of the first k migrations to write T has written.      *)
FileAfter(T, k) ==
    LET writers == WritersOf(T, k) IN
    IF writers = {} THEN <<0, 0>> ELSE FileOf(CHOOSE w \in writers : \A x \in writers : x[1] <= w[1])

(* The migrations that ask getRanSQLMigrations whether the old table        *)
(* "goose_db_version" has them: all up to 20201001070806.                   *)
ChecksOldTable(i) == Earlier(Migrations[i].version, <<20201001, 70806>>)

(* An old server ran only migrations that ask for it.                       *)
ASSUME MigrationAssumption ==
    /\ Releases \subseteq DOMAIN Migrations
    /\ \A k \in OldReleases, r \in Releases : k \in 0..r
    /\ \A k \in OldReleases : k = 0 \/ ChecksOldTable(k)
    /\ MaxMigAccidents \in Nat
    /\ NoRepository \notin Repositories

VARIABLES
    migRelease,     \* the release deployed
    migServer,      \* "Down", "Migrating", "Up"
    migDone,        \* migrations goose has recorded
    migOld,         \* how many the old table has recorded
    migOp,          \* operation of the migration under way, 0 if none is
    migLeft,        \* namespaces it has still to be applied to
    migCached,      \* the repository type the client of the migration holds
    migSpace,       \* migSpace[n] \in {"None", "Half", "Made"}
    migMade,        \* history: the release n was created by, 0 if it was there before
    migRepository,  \* migRepository[n]: kind of the repository of n
    migTemplate,    \* migTemplate[n][T] = [state, file, repository, pools]
    migUsed,        \* namespaces whose hyperparameter template has executions
    migPools,       \* the configuration has applicationNodePoolOptions
    migAccidents,   \* history: what came in the way, a set of names
    migCount,       \* how many accidents and users' versions
    migFailed       \* history: a migration has failed

migServing == <<migRelease, migServer>>
migProgress == <<migDone, migOp, migLeft, migCached>>
migSpaces == <<migSpace, migMade>>
migWorld == <<migSpaces, migTemplate, migUsed>>
migHistory == <<migAccidents, migCount, migFailed>>
migGiven == <<migOld, migRepository>>
migVars == <<migServing, migProgress, migWorld, migHistory, migPools, migGiven>>

AbsentTemplate == [state |-> "Absent", file |-> <<0, 0>>, repository |-> NoRepository, pools |-> "none"]

(* A version a user wrote: no file of db/yaml.                              *)
UserFile == <<0, 1>>
UserTemplate == [state |-> "Live", file |-> UserFile, repository |-> NoRepository, pools |-> "none"]

(* The files with {{.ArtifactRepositoryType}}.                              *)
NamesRepository(T, f) ==
    \/ T = "CVAT" /\ Earlier(<<20200724, 220450>>, f) /\ Earlier(f, <<20201016, 170415>>)
    \/ T \in {"MaskRCNN", "TFOD"} /\ Earlier(<<20200812, 104328>>, f) /\ Earlier(f, <<20201208, 155115>>)

(* The files with {{.NodePoolLabel}} and {{.DefaultNodePoolOption}}.        *)
NamesPools(T, f) == T \notin WorkspaceTemplates /\ Earlier(<<20201221, 194344>>, f)

(* Two migrations read the configuration of every namespace.  The others    *)
(* call GetArtifactRepositoryType, which answers from its client's cache.   *)
AskedOnce(T, f) == NamesRepository(T, f) /\ f \notin {<<20200724, 220450>>, <<20200812, 113316>>}

(* createNamespaceTemplates replaces the repository type and no other.      *)
FromFile(T, f, kind) ==
    IF f = <<0, 0>> THEN AbsentTemplate
    ELSE [state |-> "Live", file |-> f,
          repository |-> IF NamesRepository(T, f) THEN kind ELSE NoRepository,
          pools |-> IF NamesPools(T, f) THEN "left" ELSE "none"]

(* What the first k migrations, run by an old server that listed the        *)
(* namespace first before the others, have left of T in n.                  *)
LeftByOldServer(T, k, n, first) ==
    FromFile(T, FileAfter(T, k), migRepository[IF AskedOnce(T, FileAfter(T, k)) THEN first ELSE n])

(* A new database, or one an old server has migrated and recorded in the    *)
(* table of the SQL migrations; its users have changed no system template.  *)
MigInit ==
    /\ migRelease \in {r \in Releases : \A s \in Releases : r <= s}
    /\ migServer = "Down"
    /\ migDone = 0 /\ migOp = 0 /\ migLeft = {} /\ migCached = NoRepository
    /\ migSpace \in [MigSpaces -> {"None", "Made"}]
    /\ migMade = [n \in MigSpaces |-> 0]
    /\ migRepository \in [MigSpaces -> Repositories]
    /\ migOld \in OldReleases
    /\ \E first \in MigSpaces :
        migTemplate = [n \in MigSpaces |-> [T \in SystemTemplates |->
            IF migSpace[n] = "Made" THEN LeftByOldServer(T, migOld, n, first) ELSE AbsentTemplate]]
    /\ migUsed = {} /\ migPools = TRUE
    /\ migAccidents = {} /\ migCount = 0 /\ migFailed = FALSE

(* ListOnepanelEnabledNamespaces: the label is set when the namespace is.   *)
EnabledNamespaces == {n \in MigSpaces : migSpace[n] # "None"}

Accident(what) ==
    /\ migCount < MaxMigAccidents
    /\ migCount' = migCount + 1
    /\ migAccidents' = migAccidents \cup what
    /\ UNCHANGED migFailed

----------------------------------------------------------------------------
(* goose.Run("up"): the first migration that is not recorded.               *)

NextMigration == Migrations[migDone + 1]
CurrentOperation == NextMigration.ops[migOp]

StartServer ==
    /\ migServer = "Down"
    /\ migServer' = "Migrating"
    /\ UNCHANGED <<migRelease, migProgress, migWorld, migHistory, migPools, migGiven>>

(* For contrast: the old table is not asked.                                *)
RanNever(i) == FALSE

RanBefore(i) == i <= migOld /\ ChecksOldTable(i)

RecordMigration ==
    /\ migDone' = migDone + 1
    /\ migOp' = 0 /\ migLeft' = {} /\ migCached' = NoRepository

BeginMigration ==
    /\ migServer = "Migrating" /\ migDone < migRelease /\ migOp = 0
    /\ IF RanBefore(migDone + 1) \/ NextMigration.ops = <<>>
       THEN RecordMigration
       ELSE migOp' = 1 /\ migLeft' = EnabledNamespaces /\ UNCHANGED <<migDone, migCached>>
    /\ UNCHANGED <<migServing, migWorld, migHistory, migPools, migGiven>>

(* The repository type a file gets in n: what the client of the migration   *)
(* was told first, of whatever namespace.                                   *)
KindFor(o, n) ==
    IF AskedOnce(o.template, o.file) /\ migCached # NoRepository THEN migCached ELSE migRepository[n]

(* For contrast: a migration replaces what a new namespace has replaced.    *)
WrittenAsNew(o, n) == FromFile(o.template, o.file, KindFor(o, n))

(* ReplaceRuntimeVariablesInManifest.                                       *)
Written(o, n) ==
    [state |-> "Live", file |-> o.file,
     repository |-> IF NamesRepository(o.template, o.file) THEN KindFor(o, n) ELSE NoRepository,
     pools |-> IF NamesPools(o.template, o.file) THEN "replaced" ELSE "none"]

(* The operation adds a version to a template that is there.                *)
Versions(o, n) ==
    o.does \in {"update", "describe"} \/ (o.does = "describeIfThere" /\ migTemplate[n][o.template].state = "Live")

(* The operation archives the template.                                     *)
Archives(o, n) ==
    o.does = "archiveUnused" /\ migTemplate[n][o.template].state # "Absent" /\ n \notin migUsed

(* The node pool options go into every workspace template, into the         *)
(* workflow files since 20201115134934, and into whatever is read back.     *)
NeedsPools(o, n) ==
    \/ o.template \in WorkspaceTemplates /\ (o.does = "create" \/ Versions(o, n))
    \/ o.does \in {"create", "update"} /\ Earlier(<<20201115, 134934>>, o.file)
    \/ o.does = "createIfAbsent" /\ migTemplate[n][o.template].state = "Live"
    \/ Archives(o, n)

(* The operation does what it can in n: TRUE iff it returns no error and    *)
(* does not panic.                                                          *)
Succeeds(o, n) ==
    LET state == migTemplate[n][o.template].state IN
    /\ NeedsPools(o, n) => migPools
    /\ CASE o.does = "create" -> state \notin {"Live", "Broken"}
         [] o.does \in {"update", "describe"} -> state = "Live"
         [] o.does = "archiveUnused" -> Archives(o, n) => state = "Live"
         [] o.does = "createIfAbsent" -> state # "Broken"
         [] o.does = "describeIfThere" -> state # "Broken"

Effect(o, n) ==
    LET template == migTemplate[n][o.template] IN
    CASE o.does \in {"create", "update"} -> Written(o, n)
      [] o.does = "createIfAbsent" -> IF template.state = "Live" THEN template ELSE Written(o, n)
      [] Archives(o, n) -> [template EXCEPT !.state = "Archived"]
      [] OTHER -> template

(* A migration that skips n does not ask for its repository type.           *)
Asks(o, n) ==
    /\ AskedOnce(o.template, o.file)
    /\ o.does = "createIfAbsent" => migTemplate[n][o.template].state # "Live"

(* One turn of the loop over the namespaces.                                *)
ApplyTo(n) ==
    /\ migServer = "Migrating" /\ migOp > 0 /\ n \in migLeft
    /\ Succeeds(CurrentOperation, n)
    /\ migTemplate' = [migTemplate EXCEPT ![n][CurrentOperation.template] = Effect(CurrentOperation, n)]
    /\ migCached' = IF Asks(CurrentOperation, n) THEN KindFor(CurrentOperation, n) ELSE migCached
    /\ migLeft' = migLeft \ {n}
    /\ UNCHANGED <<migServing, migDone, migOp, migSpaces, migUsed, migHistory, migPools, migGiven>>

EndMigrating ==
    /\ migServer' = "Down"
    /\ migOp' = 0 /\ migLeft' = {} /\ migCached' = NoRepository
    /\ UNCHANGED <<migRelease, migDone, migSpaces, migUsed, migPools, migGiven>>

(* log.Fatalf, or the panic of a template that is nil.  A namespace that is *)
(* half made may be without its configuration.                              *)
MigrationFails(n) ==
    /\ migServer = "Migrating" /\ migOp > 0 /\ n \in migLeft
    /\ ~Succeeds(CurrentOperation, n) \/ migSpace[n] = "Half"
    /\ EndMigrating
    /\ migFailed' = TRUE
    /\ UNCHANGED <<migTemplate, migAccidents, migCount>>

EndOperation ==
    /\ migServer = "Migrating" /\ migOp > 0 /\ migLeft = {}
    /\ IF migOp = Len(NextMigration.ops)
       THEN RecordMigration
       ELSE migOp' = migOp + 1 /\ migLeft' = EnabledNamespaces /\ UNCHANGED <<migDone, migCached>>
    /\ UNCHANGED <<migServing, migWorld, migHistory, migPools, migGiven>>

Serve ==
    /\ migServer = "Migrating" /\ migDone = migRelease
    /\ migServer' = "Up"
    /\ UNCHANGED <<migRelease, migProgress, migWorld, migHistory, migPools, migGiven>>

(* The pod is killed while it migrates, or a call to the database or to     *)
(* Kubernetes fails (log.Fatalf).  To repeat a migration that creates or    *)
(* archives is an accident; to repeat another is not.                       *)
StopServer ==
    /\ migServer = "Migrating" /\ migOp > 0
    /\ Accident(IF \E j \in 1..migOp : NextMigration.ops[j].does \notin {"update", "describe", "describeIfThere"}
                THEN {"stopped"} ELSE {})
    /\ EndMigrating
    /\ UNCHANGED migTemplate

(* The same between the two calls to Argo of a new version: two templates   *)
(* are labelled the latest (CreateWorkflowTemplateVersion), and whatever    *)
(* asks for the latest says "not unique result".                            *)
VersionBreaksOff(n) ==
    /\ migServer = "Migrating" /\ migOp > 0 /\ n \in migLeft
    /\ Versions(CurrentOperation, n) /\ Succeeds(CurrentOperation, n)
    /\ Accident({"broken"})
    /\ migTemplate' = [migTemplate EXCEPT ![n][CurrentOperation.template] = [@ EXCEPT !.state = "Broken"]]
    /\ EndMigrating

Deploy(r) ==
    /\ migServer = "Up"
    /\ r \in Releases /\ r > migRelease /\ \A s \in Releases : s > migRelease => r <= s
    /\ migRelease' = r
    /\ migServer' = "Down"
    /\ UNCHANGED <<migProgress, migWorld, migHistory, migPools, migGiven>>

----------------------------------------------------------------------------
(* What users do while the server is up.                                    *)

(* createNamespaceTemplates: create and then the updates, file by file.     *)
NewTemplate(T, n) == FromFile(T, NewestFile(T, migRelease), migRepository[n])

CreateNamespace(n) ==
    /\ migServer = "Up" /\ migSpace[n] = "None" /\ migPools
    /\ migSpace' = [migSpace EXCEPT ![n] = "Made"]
    /\ migMade' = [migMade EXCEPT ![n] = migRelease]
    /\ migTemplate' = [migTemplate EXCEPT ![n] = [T \in SystemTemplates |-> NewTemplate(T, n)]]
    /\ UNCHANGED <<migServing, migProgress, migUsed, migHistory, migPools, migGiven>>

(* A call fails half way: the namespace stays, with its label and without   *)
(* its templates.  Asked again, createK8sNamespace says that it exists.     *)
CreateNamespaceFails(n) ==
    /\ migServer = "Up" /\ migSpace[n] = "None"
    /\ Accident({"half"})
    /\ migSpace' = [migSpace EXCEPT ![n] = "Half"]
    /\ UNCHANGED <<migServing, migProgress, migMade, migTemplate, migUsed, migPools, migGiven>>

(* A user's request on a system template, or on one of that name, ends with *)
(* it as given.                                                             *)
UserLeaves(n, T, template) ==
    /\ migServer = "Up" /\ migSpace[n] # "None"
    /\ migTemplate' = [migTemplate EXCEPT ![n][T] = template]
    /\ UNCHANGED <<migServing, migProgress, migSpaces, migUsed, migPools, migGiven>>

(* ArchiveWorkflowTemplate reads the latest version first.                  *)
UserArchives(n, T) ==
    /\ migTemplate[n][T].state = "Live" /\ migPools
    /\ Accident({"archived"})
    /\ UserLeaves(n, T, [migTemplate[n][T] EXCEPT !.state = "Archived"])

(* A template of the name of one that the system has archived, or has not   *)
(* created yet.                                                             *)
UserCreates(n, T) ==
    /\ migTemplate[n][T].state \in {"Absent", "Archived"}
    /\ T \in WorkspaceTemplates => migPools
    /\ Accident({"created"})
    /\ UserLeaves(n, T, UserTemplate)

UserVersions(n, T) ==
    /\ migTemplate[n][T].state = "Live"
    /\ T \in WorkspaceTemplates => migPools
    /\ Accident({})
    /\ UserLeaves(n, T, UserTemplate)

(* Such a request is broken off as in VersionBreaksOff.                     *)
UserBreaks(n, T) ==
    /\ migTemplate[n][T].state = "Live"
    /\ T \in WorkspaceTemplates => migPools
    /\ Accident({"broken"})
    /\ UserLeaves(n, T, [migTemplate[n][T] EXCEPT !.state = "Broken"])

UserRuns(n) ==
    /\ migServer = "Up" /\ migTemplate[n]["Hyperparameter"].state = "Live"
    /\ migUsed' = migUsed \cup {n}
    /\ UNCHANGED <<migServing, migProgress, migSpaces, migTemplate, migHistory, migPools, migGiven>>

(* An administrator edits the configuration.  The client of an operation    *)
(* reads it once, before it turns to the first namespace.                   *)
ChangePools ==
    /\ migOp = 0 \/ migLeft = EnabledNamespaces
    /\ migPools' = ~migPools
    /\ IF migPools THEN Accident({"noPools"}) ELSE UNCHANGED migHistory
    /\ UNCHANGED <<migServing, migProgress, migWorld, migGiven>>

MigNext ==
    \/ StartServer \/ BeginMigration \/ EndOperation \/ Serve \/ StopServer \/ ChangePools
    \/ \E r \in Releases : Deploy(r)
    \/ \E n \in MigSpaces :
          \/ ApplyTo(n) \/ MigrationFails(n) \/ VersionBreaksOff(n)
          \/ CreateNamespace(n) \/ CreateNamespaceFails(n) \/ UserRuns(n)
          \/ \E T \in SystemTemplates :
                UserArchives(n, T) \/ UserCreates(n, T) \/ UserVersions(n, T) \/ UserBreaks(n, T)

MigSpec == MigInit /\ [][MigNext]_migVars
----------------------------------------------------------------------------
MigTypeOK ==
    /\ migRelease \in Releases
    /\ migServer \in {"Down", "Migrating", "Up"}
    /\ migDone \in 0..Len(Migrations)
    /\ migOp \in 0..5
    /\ migLeft \subseteq EnabledNamespaces
    /\ migCached \in Repositories \cup {NoRepository}
    /\ \A n \in MigSpaces :
        /\ migMade[n] \in 0..migDone
        /\ \A T \in SystemTemplates :
            /\ migTemplate[n][T].state \in {"Absent", "Live", "Archived", "Broken"}
            /\ migTemplate[n][T].repository \in Repositories \cup {NoRepository}
            /\ migTemplate[n][T].pools \in {"none", "left", "replaced"}

(* A server that cannot start because a migration fails has met one of      *)
(* these: a user archived a system template, or created a template of the   *)
(* name of one; it was stopped inside a migration that creates or archives; *)
(* a new version was broken off between its two calls to Argo; a namespace  *)
(* was left half made; the configuration was without node pool options.     *)
(* Neither the versions and the executions users add to system templates,   *)
(* nor a stop between the calls of any other migration, nor what an old     *)
(* server migrated, ever stops an upgrade.                                  *)
NeverStuck == migFailed => migAccidents # {}

(* However a namespace came to be, before the first release or from the     *)
(* files of one, and over whatever releases it was upgraded: once the       *)
(* server is up it has the templates a namespace created now would get, a   *)
(* user's own version or the file that one would be made from, and the      *)
(* hyperparameter example alone may be archived.  A template with that file *)
(* names the repository of its namespace, unless a migration that asks once *)
(* for all namespaces wrote it, and is a new one's but for the node pools:  *)
(* they are filled in where a migration wrote it, and still variables where *)
(* it is as the namespace was created with it.                              *)
LikeNew ==
    migServer = "Up" /\ migAccidents = {} =>
        \A n \in EnabledNamespaces, T \in SystemTemplates :
            LET old == migTemplate[n][T]
                new == NewTemplate(T, n) IN
            /\ old.state = "Absent" <=> new.state = "Absent"
            /\ old.state = "Archived" => T = "Hyperparameter"
            /\ old.file \in {UserFile, new.file}
            /\ old.file = new.file =>
                /\ old.repository = new.repository \/ AskedOnce(T, old.file)
                /\ old.pools = IF new.pools = "none" \/ old.file = NewestFile(T, migMade[n])
                               THEN new.pools ELSE "replaced"

(* A template that names a kind of artifact repository names that of its    *)
(* namespace.                                                               *)
OwnRepository ==
    \A n \in MigSpaces, T \in SystemTemplates :
        migTemplate[n][T].repository \in {NoRepository, migRepository[n]}
=============================================================================
