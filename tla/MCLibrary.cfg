SPECIFICATION Spec
CONSTANTS
    None = None
    Nil = Nil
    Pids = {1, 2, 3, 4}
    Slugs <- MCSlugs
    ValidSlugs = {"a", "b", "c", "old"}
    Paths <- MCPaths
    Remotes <- MCRemotes
    Canonical <- MCCanonical
    Normal <- MCNormal
    PathSlug <- MCPathSlug
    RemoteSlug <- MCRemoteSlug
    Markers <- MCMarkers
    Home <- MCHome
    OriginAt <- MCOriginAt
    Topics = {"t", "u"}
    Sources = {"chat"}
    SourceAliases = {1, 2}
    Mentions <- MCMentions
    SlugRank <- MCSlugRank
    EdgeIds = {1, 2, 3, 4, 5, 6}
    EdgeTypes = {"related", "refuted_by"}
    MaxDepth = 3
    Ids = {1, 2, 3, 4}
    Texts = {"x", "x.", "y", "bad"}
    Types = {"note", "decision"}
    About <- MCAbout
    MaxRows = 3
    DefaultRows = 2
    MaxCandidates = 2
    SafeText <- MCSafeText
    Width <- MCWidth
    HeaderWidth = 2
    GroupWidth = 1
    Starts <- MCStarts
    RootSets <- MCRootSets
    SeedFiles <- MCSeedFiles
    ReadArgs <- MCReadArgs
    Instants = {1, 2}
    PageSize = 2
    CapturedAs <- MCCapturedAs
    EditedTo <- MCEditedTo
    Linked <- MCLinked
INVARIANTS TypeOK CapturesReadBack ScansCover ShownAsVouched WalksAreShortest ReadsAgree
PROPERTIES RepairsSpareAssigned
CHECK_DEADLOCK FALSE
