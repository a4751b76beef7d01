SPECIFICATION AgentsSpec
CONSTANTS
    r1 = r1
    r2 = r2
    c1 = c1
    c2 = c2
    flight = flight
    hotel = hotel
    correct = correct
    Cases = {flight, hotel}
    Repeats = 2
    MaxKeys = 2
    MinCases = 2
    PageSize = 2
    Criteria = {correct}
    Tools = {"fares", "x"}
    Operations = {"fares", "y"}
    Names = {"fares", "both", "none"}
    Means <- NameMeans
    MaxTurns = 2
    MaxItems = 2
    Silence = None
    MaxRounds = 2
    MaxAsked = 2
    MaxPrompts = 2
    TrafficPlans <- PlansRead
    Required <- FederalHolidays
    Years = {2021}
    Clocks <- ScheduledAt
    RetryLimit = 1
    Last = 0
    NoDay = None
    Rows <- GoldenRows
    Replies <- GoldenReplies
    Absent = None
    ByServer = TRUE
    Deadline = 2
    Interval = 1
    Creators = {c1, c2}
    AgentDocuments <- AgentYamls
    Contract = {"fares", "routes"}
    Targets = {"https", "none"}
    NoTarget = "none"
    MaxTargets = 2
    Unmade = None
    Requests = {r1, r2}
    Conversations <- Asked
    Users = {"user"}
    Routes = {"lead"}
    Canonical = {"planner", "lead"}
    Configured = {"planner", "lead", "unknown"}
    Allowed <- UserRoutes
    Visible <- SeenBy
    Expected <- Wanted
    Denied = None
    Missing = None
    HostedRequests = {r1, r2}
    SupportCases = {"west", "east"}
    Region <- RegionOfCase
    Directory <- RegionsOf
    Bindings = {"oid-lead", "oid-gone"}
    Mapping <- OidOf
    Scenarios <- SupportScenarios
    SupportTools = {"support_lookup_case"}
    OtherTools = {"support_update_case"}
    MaxCalls = 2
    NoOne = None
    Deployed = 4
    Others = {3}
    MaxChanges = 3
INVARIANTS
    ReadingIsSound
    GateIsSound
    TurnEvidenceIsTrue
    ListedWereExecuted
    TrafficAsPromised
    PassedOnEveryRow
    VersionIsItsManifest
    ResearchIsOwn
    SupportIsProven
    VerifiedWasSo
PROPERTY EveryRequestEnds
CHECK_DEADLOCK FALSE
