SPECIFICATION MCServicesSpec
CONSTANTS
    Connections = {a}
    DbKeys = {k1, k2}
    DbValues = {v1}
    KeyGroups = {{k1}, {k1, k2}}
    MaxId = 2
    MaxUnread = 3
    NoValue = NoValue
    NoCall = NoCall
    ConvSessions = {s, t}
    Personas = {p}
    NoSession = NoSession
    NoPersona = NoPersona
    MaxConv = 4
    HistSessions = {s, t}
    HistKeys = {k}
    NoKey = NoKey
    MaxRecord = 4
    MaxTime = 2
    MaxLimit = 2
    MaxKb = 2
    MaxDoc = 3
    TextLengths = {0, 3}
    ChunkSizes <- ServicesChunkSizes
    DefaultSize = 4
    KindOrder <- ServicesKindOrder
    ProviderIds = {"x", "y"}
    Sources = {src, NoSource}
    NoSource = NoSource
    NoProvider = NoProvider
    FirstLoaded <- ServicesFirstLoaded
    MaxLoaded = 2
    MaxUntold = 1
    MemRecords = {"m", "n"}
    Scopes = {{"m"}, {"m", "n"}}
    Embedders = {"e"}
    s1 = s1
    MemSearches = {s1}
    MaxSaves = 2
    MaxRowId = 2
    Calls = {"p", "r", "s", "x"}
    Replacing = {"r", "s"}
    Rejecting = {"x"}
    Stubborn = {"r"}
    NoDialogue = NoDialogue
    LimitKeys = {"a", "b"}
    RateLimit = 2
    Window = 3
    MaxNow = 6
    MaxAdmitted = 4
INVARIANTS ServicesTypeOK WatchKept EachOnce StatsAgree ProvidersKnown
           TablesAgree OneDialogue LimitKept CallsFit
PROPERTIES SessionsApart FindsAll
CHECK_DEADLOCK FALSE
