\* The parts of the clients that share no state, one after another.
SPECIFICATION PartsSpec
CONSTANTS
    Values = {v1, v2}
    NoRecord = NoRecord
    Torn = Torn
    Sample <- AddressParts
    MaxFaults = 3
    Batches <- Pasted
    MaxDefers = 2
    MaxTexts = 1
    MaxRetries = 1
    MaxPosts = 1
    Dropdowns = {"size", "color"}
    Places = {"p", "q"}
    MaxMoves = 4
    Media = {"m"}
    Texts = {0, 1}
    Widths = {0, 1, 3, 5}
    MinWidth = 1
    MaxWidth = 4
    DefaultWidth = 2
    Pointers = {"p1", "p2"}
    MaxDrags = 2
    Members = {"m"}
    LastDay = 1
    Spans <- Ahead
    Deltas <- Shifts
    Notes = {"x"}
    Loaded <- Planned
    Modes = {"manual", "direct"}
    MaxEdits = 2
    MaxLostSaves = 1
    MaxSaves = 2
    Hosts = {"web", "desktop"}
    ServedRelease = "r0"
    Releases = {"r1", "r2"}
    LiveChannel = 1
    LiveBudgets <- LiveTroubles
    Items = {"i", "j"}
    Typed = "i"
    ItemChannel = 1
    Renewal = 2
    IdleAfter = 4
    TTL = 6
    ItemBudgets <- ItemTroubles
    Attachments <- Shown
    Viewports <- Stages
    Drags <- Pulls
    PreviewBudgets <- PreviewMoves
    Tabs = {"t1", "t2"}
    Contents <- ChosenFiles
    ChunkSize = 2
    Sealings = {TRUE, FALSE}
    BrowserBudgets <- BrowserTroubles
    MaxPresses = 2
    MaxLostAnswers = 1
    MaxStops = 1
    Interval = 2
    Lifetime = 12
    Horizon = 26
    MaxRestarts = 1
    Records = {"r1", "r2"}
    Absent = "none"
    MaxTrouble = 3
    Windows = {1, 2, 3}
    Troubles <- WindowTroubles
    Users = {"u1", "u2"}
    Snapshots = {"s1", "s2"}
    NoEntry = "none"
    Limit = 2
    MaxWrites = 3
    MaxMishaps = 1
INVARIANTS
    RecordsKnown
    SignInsServed
    WindowsKept
    SentAsAsked
    PagesLand
    ScreensFollowEvents
    ScheduleKept
    RichTextKept
    AttachmentsShown
PROPERTIES
    RecoveryNeutral
    AuthorizationSettles
    BadgeCatchesUp
    UploadsSettle
CHECK_DEADLOCK FALSE
