SPECIFICATION PanelSpec
CONSTANTS
    CertIds = {1, 2, 3}
    CertByCN = {1}
    CertMaxSerial = 3
    CertMaxTroubles = 3
    IssCerts = {"c1", "c2"}
    IssJobs = {"j1", "j2"}
    IssNoKey = "no key"
    IssMaxStarts = 2
    IssMaxTroubles = 1
    RenCount = 2
    RenBefore = 3
    RenLife = 10
    RenHorizon = 24
    RenMaxTroubles = 3
    SessTokens = {1, 2, 3}
    SessCap = 2
    SessTtl = 2
    SessIdle = 1
    SessGrace = 1
    SessHorizon = 3
    SessRenames = 1
    SessCloses = 1
    SgnKeys = {"ip1", "u1", "u2"}
    SgnAttempts = {1, 2}
    SgnAsks <- PanelSgnAsks
    SgnMax = 2
    SgnCap = 2
    SgnWindow = 1
    SgnLockFor = 1
    SgnHorizon = 2
    SgnStarts = 3
    UpdUploads = {1, 2}
    UpdMaxGrants = 2
    UpdMaxTroubles = 2
    ChkAsks = {1, 2}
    ChkVersions <- PanelVersions
    ChkTtl = 1
    ChkHorizon = 2
    ChkMaxTroubles = 1
    ImpScopes = {{"cert"}, {"ddns"}, {"panel"}, {"panel", "wol"}}
    ImpHttps = {"panel"}
    ImpMaxImports = 2
    ImpMaxTroubles = 2
    ImpMaxCrashes = 2
    BkpImages = {"p", "q"}
    BkpCerts = {"a"}
    BkpKeys = {"k"}
    BkpJobs = {1}
    BkpMaxArchives = 1
    BkpMaxImports = 1
    BkpMaxStarts = 2
    BkpMaxTroubles = 1
    BkpMaxChanges = 2
    StgSaves = {1, 2}
    StgKinds = {"port", "https", "cert", "log", "auth", "wall"}
    StgValues = {1, 2}
    LsnPorts = {1, 2}
    LsnMaxPasses = 2
    LsnMaxTroubles = 1
    PrbChildren = {"a"}
    PrbBackends = {1, 2}
    PrbInterval = 2
    PrbTick = 1
    PrbHorizon = 4
    PrbMaxReloads = 2
    DenKeys = {"p", "q", "r"}
    DenWindow = 3
    DenSweep = 1
    DenCap = 2
    DenRate = 1
    DenHorizon = 4
    DenMaxAsks = 6
    WhkRequests = {"r1", "r2"}
    WhkSize <- PanelSizes
    WhkGateMax = 1
    WhkBurst = 1
    WhkQueueMax = 1
    WhkBudget = {0, 2}
    WhkMaxSwitches = 1
    FwdRules = {"f1", "f2"}
    FwdPorts = {1, 2}
    FwdTargets = {1, 2}
    FwdMaxStarts = 3
    FwdMaxReloads = 3
    FwdConns = {"c1", "c2", "c3"}
    FwdClients = {"k1", "k2"}
    FwdMaxSessions = 3
    FwdRunnerMax = 2
    FwdGateMax = 2
    WolDayLength = 4
    WolDays = 2
    WolMissing <- PanelMissing
    WolSchedules <- PanelSchedules
    WolMaxGens = 2
    WolMaxTroubles = 1
    WolNics = {"lan", "br"}
    WolPrivate = {"lan", "br"}
    WolDevices = {"auto", "br"}
    WolTtl = 1
    WolBurst = 2
    WolIdleTtl = 0
    WolHorizon = 2
    CronTasks = {"t"}
    CronSpecs = {0, 1, 2}
    CronMaxEdits = 1
    CronMaxRuns = 2
    ResTabs = {"a", "b"}
    ResWebs = {"w1", "w2", "w3"}
    ResWebMax = 2
    ResPorts = {1, 2}
    ResPanelPort = 2
    ResReceivers = {"v1", "v2"}
    ResRules = {"r1"}
    ResAsks <- PanelAsks
    ResMaxRequests = 2
    DdnsNames = {1, 2}
    DdnsProvider <- PanelProvider
    DdnsAddresses = {1, 2}
    DdnsMaxRunners = 2
    DdnsMaxEvents = 2
    ChlKinds = {"cloudflare", "finds", "godaddy"}
    ChlJobs = {"a", "b"}
    ChlValues <- PanelValues
    ChlForeign = 9
    ChlMaxTroubles = 2
    BanSources = {1, 2, 3, 4}
    BanNear = {3, 4}
    BanLocal = {4}
    BanCap = 1
    BanDenyMax = 1
    BanWindow = 2
    BanLimit = 3
    BanBurst = 0
    BanBurstLimit = 2
    BanFor = 3
    BanSweepEvery = 1
    BanEvictBatch = 1
    BanHorizon = 4
    BanMaxHits = 5
    BanMaxAsks = 2
    LimSources = {1, 2, 3}
    LimLimits = {1, 2}
    LimMaxEntries = 2
    LimBatch = 1
    LimIdle = 2
    LimHorizon = 3
    LimMaxGiven = 2
    SteRequests = {1, 2, 3}
    SteGood = "g"
    SteBad = {"x"}
    SteCap = 1
    SteBudget = 2
    SteGoodFor = 2
    SteBadFor = 1
    SteWeights <- PanelWeights
    SteWrap = 3
    SteHorizon = 3
    SteMaxPanics = 1
    JrnWriters = {"x", "y"}
    JrnSizes = {2, 3}
    JrnLimits = {2, 3}
    JrnMaxBytes = 4
    JrnMaxLines = 4
    JrnMaxTroubles = 1
    JrnMaxAsks = 1
    AccInitial = 2
    AccCaps = {1, 3, 5}
    AccMaxEvents = 10
    AccMaxSaves = 4
    MtrSize = 3
    MtrHorizon = 7
    MtrMaxTroubles = 1
    MtrWireMax = 4
INVARIANTS
    TypesOK
    CertificatesHold
    AccessHolds
    UpdatesHold
    SavesHold
    ServersHold
    WebhooksHold
    ForwardsHold
    TasksHold
    StoreHolds
    NamesHold
    SitesHold
    LogsHold
PROPERTY SessLoginDisplaces
CHECK_DEADLOCK FALSE
