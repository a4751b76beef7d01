SPECIFICATION EstateSpec
CONSTANTS
    c1 = c1
    c2 = c2
    c3 = c3
    r1 = r1
    r2 = r2
    q1 = q1
    q2 = q2
    b1 = b1
    b2 = b2
    AgentId = AgentId
    None = None
    Unset = Unset
    Rehearsals = {r1, r2}
    MaxRevision = 5
    Scenarios <- TwoOrFaults
    Registrants = {q1, q2}
    Named <- RunOfEach
    Spans <- ArrivingSpans
    Enrichment <- SecondEnriched
    Calls = {c1, c2, c3}
    CanBuild = TRUE
    ExpectsDigest = TRUE
    MaxInterruptions = 2
    Nobody = Nobody
    Statuses = {200, 401, 500}
    NoBackend = None
    Declared <- DeclaredEntries
    Assigned <- AssignedRoles
    External <- OperatorOnly
    Plans <- PlansChecked
    Missing = None
    Dotted = {"..", "a..b"}
    Grouping = {"resourcegroup", "resourcegroups", "xresourcegroup"}
    Optional = {"optional"}
    Scopes <- AllThere
    Listed = {"account"}
    Queries = {"deployments", "agents", "account"}
    Single = {"account"}
    Contents <- Collections
    Principal <- PrincipalOf
    Shown <- ShownIn
    Owner <- OwnerOf
    Grants <- GrantsOfOthers
    Lives <- Inventories
    GrantSets <- GrantsAtFirst
    CheckRequests <- ChecksAsked
    Tokens = {"t", "u"}
    Fresh = {"f", "g"}
    MaxEvents = 1
    NoPrincipal = None
    Orders <- OrdersGiven
    Catalogues <- CataloguesShown
    PageRows = 2
    PageCap = 2
    MaxRetries = 3
    Timeout = 3
    Deadline = 6
    MaxPause = 4
    Backoff = 1
    RetryAfters = {0, 9}
    Scale = 10
    MaxRevisions = 1
    MaxRuns = 2
    NotGiven = None
    Regions <- RegionNumbers
    Worlds <- Clouds
    Needs <- Requirements
    Additions <- ModuleAdditions
    Matrix <- CapabilityMatrix
    Asked <- ModulesAsked
    MaxFaults = 1
    Emptied = Emptied
    Nil = None
    Boxes = {b1, b2}
    Identities <- Principals
    Rows <- Spine
    StartCases <- CasesAtFirst
    Global = {"products"}
    Company = "GLOBAL"
    Manager <- Managers
    Excepted = {10}
    Policies <- TravelPolicies
    Fares <- RouteFares
    Tools <- Contracts
    Asks <- ToolRequests
    Updatable = {"status"}
    MinCohort = 2
    MaxDepth = 8
    MaxRows = 3
    MaxCalls = 1
    Absent = None
INVARIANTS
    StoreIsSound
    CapacityHasOwner
    PassedIsTrue
    RegistrationIsOwn
    PassedMeansGuarded
    CleanIsClean
    SoundPlanIsOurs
    VerdictIsDue
    ChoiceIsRight
    ToolsKeepToScope
PROPERTIES
    ResumeRepeatsNothing
    EverythingEnds
CHECK_DEADLOCK FALSE
