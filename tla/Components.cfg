SPECIFICATION ComponentsSpec
CONSTANTS
    Terminals = {t1}
    NoteIds = {"n1"}
    NoteSubjects = {"s1", "s2"}
    SubjectOf <- MCSubjectOf
    Bodies = {a, b}
    Blank = blank
    MaxRevision = 3
    MaxUnderWay = 1
    Savers = {s1}
    MaxChoices = 2
    MaxFailures = 1
    Elsewhere = {"pin"}
    Unloaded <- MCUnloaded
    Binaries = {1, 2, 3}
    Supports <- MCSupports
    Latest = 3
    Programs = {p1, p2}
    Profiles = {t1}
    Settings = {v1, v2}
    Unset = Unset
    NoFile = NoFile
    Normal <- MCNormal
    MaxOtherEdits = 1
    Operations = {o1, o2}
    NoOperation = NoOperation
    MaxInstallation = 1
    Publishers = {p1, p2, p3}
    Overwriting = {p1, p2}
    Others = {u1, u2}
    Directories = {p1, p3, u1}
    Nothing = Nothing
    TrackedRuns = {r1}
    Changes = {c1}
    MaxVersion = 4
    DetailedRuns = {r1}
    MaxTime = 2
    RunOrder <- MCRunOrder
    NoRun = "none"
    Searches <- MCSearches
    TargetIDs = {t1, t2}
    Configs = {k1, k2}
    Absent = Absent
    MaxCommands = 3
    MaxSaves = 1
    StackDirs = {d1, d2}
    Projects = {p1, p2}
    Missing = Missing
    Lifecycles = {l1, l2}
    MaxBegun = 4
    Kegs = {k1, k2}
    MaxBuild = 3
    Charts = {m1, m2}
    MaxCache = 1
    MaxAsked = 4
    MaxRefreshes = 1
    MaxChanges = 3
    Limit = 1
    MaxSize = 3
    MaxPreviews = 3
    Home <- MCHome
    Nobody = "nobody"
    LoadedRuns <- MCLoadedRuns
    Deletable = {"r1", "e1"}
    MaxRequests = 2
    MaxDeletions = 1
    RunsInOrder <- MCRunsInOrder
    Sections <- MCSections
    Workers = 2
    DetailLimit = 1
    MaxSummaries = 2
    MaxPages = 2
INVARIANT SchemasMeet
INVARIANT UpgradesAreExclusive
PROPERTY SavesOnlyEdits
PROPERTY OriginalsSurvive
PROPERTY NotesAreSafe
INVARIANT ChoicesAreKept
PROPERTY ScreenKeepsUp
INVARIANT DetailsAreDated
PROPERTY ReadersKeepTheirPlace
INVARIANT TargetsAreConnected
PROPERTY StacksAreSafe
INVARIANT ReviewsAreTrue
INVARIANT ChartsAreServed
INVARIANT PreviewsAreHonest
PROPERTY CatalogsAreHonest
INVARIANT SummariesAreWhole
CHECK_DEADLOCK FALSE
VIEW MCView
