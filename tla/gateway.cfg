SPECIFICATION AllSpec
CONSTANTS
    Names <- MCNames
    Allowed <- MCAllowed
    Lower <- MCLower
    Aliases <- MCAliases
    Default = "rainer"
    SecretName <- MCSecretName
    LegacyVar = "API_KEY"
    Keys = {k1, k2, k3}
    Absent = Absent
    Blank = Blank
    Malformed = Malformed
    IPs = {i1, i2}
    RATE_LIMIT = 2
    RATE_WINDOW = 2
    CleanupAt = 1
    MaxBatch = 1
    Requests <- MCRequests
    MaxTime = 4
    None = None
    Callers = {"c1", "c2"}
    Actions = {"seed", "reinforce", "challenge", "evolve", "wake", "anchor", "resonate", "touch"}
    Weights = {10, 20}
    Contents = {"a", "b"}
    MaxCores = 2
    MaxAnchors = 2
    CallsOfOne = 5
    CallsOfTwo = 4
    MaxFaults = 1
    Obs = {"o1", "o2", "o3"}
    Territories = {"self", "craft"}
    Grips = {"iron", "dormant"}
    Recent = {"o2"}
    Cued <- MCCued
    StartRows <- MCStartRows
    Scenes <- MCScenes
    Asks <- MCAsks
    Pool <- MCPool
    K = 20
    Unit = 10626
    LaneWeight <- MCLaneWeight
    Ceiling <- MCCeiling
    MaxBoost <- MCMaxBoost
    Held <- MCHeld
    MinScore <- MCMinScore
    HintFloor <- MCHintFloor
    Gain <- MCGain
    MinHead = 1
    RecencyBoost = 10
    CascadeTop = 5
    Wear = 5
    MaxSearches = 2
    MaxEdits = 1
    MaxFailed = 1
    Clients = {"c1", "c2"}
    EntityIds = {"e1", "e2", "e3", "e4"}
    Titles <- MCTitles
    Types = {"person", "project", "agent", "concept"}
    Folded <- MCFolded
    Tags <- MCTags
    Founders <- MCFounders
    Wishes <- MCWishes
    Batch = 2
    TagCap = 2
    MaxAsked = 3
    MaxMishaps = 1
    Same = Same
    k1 = k1
    k2 = k2
    k3 = k3
    i1 = i1
    i2 = i2
INVARIANTS KeyBindsTenant OwnName SlidingBound ToolsTrue FoundAndFiled
CHECK_DEADLOCK FALSE
