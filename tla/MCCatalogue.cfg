SPECIFICATION CatalogueSpec
CONSTANTS
    Pools = {1, 2, 3, 4}
    Identifiers = {"a", "b", "c"}
    IdentifierOf <- MCIdentifierOf
    Keys <- MCKeys
    Beginnings <- MCBeginnings
    Works = {1, 2, 3, 4, 5, 6, 7}
    NoWork = NoWork
    NoPwid = NoPwid
    Nothing = Nothing
    MaxChanges = 1
    Depth = 3
    LibraryCollections = {"own"}
    ParentCollections = {"parent"}
    Genres <- MCGenres
    Subgenres <- MCSubgenres
    ListsFrom <- MCListsFrom
    NoSource = NoSource
    NoRestriction = NoRestriction
    Scenes <- MCScenes
    Titles = {t1, t2, t3}
    Groups = 3
    TargetSizes = {1, 2}
    Books = {1, 2, 3}
    SortKeys = {1, 2}
    PageSize = 2
    Fetches = {q1, q2}
    RowIds = {f1, f2}
    Contents = {a, b}
    Absent = Absent
    DefaultAge = 1
    IgnoreCache = IgnoreCache
    GenerationTime = 1
    Threads = {"t1", "t2", "t3"}
    ProcessOf <- MCProcessOf
    Cooldown = 1
    MaxWait = 2
    Nobody = Nobody
    Configs <- MCConfigs
    Requests <- MCRequests
    AcceptLanguage = {"eng"}
    ListMedia = {"Book", "Audio"}
    ListLanguages = {"spa"}
    NoValue = NoValue
SYMMETRY CacheSymmetry
CHECK_DEADLOCK FALSE
INVARIANTS
    NothingIsMissing FoundBooksMayBeBorrowed AddedRestrictionsNarrow
    GroupsAreFullAndFresh PagesShowEveryBookOnce MissesOnlyCloseChanges
    LinksLeadWhereTheySay
PROPERTIES
    GroupingSettles FeedsAreFresh
