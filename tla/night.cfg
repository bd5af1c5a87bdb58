SPECIFICATION AllSpec
CONSTANTS
    Items = {i, j}
    MaxNow = 1
    Lookback = 3
    ListLimit = 1
    MaxEdits = 2
    MaxFailures = 1
    MaxKills = 1
    MaxFaults = 0
    Parts = {"night", "paradox", "decayed", "regrade", "skills", "lineages", "threshold"}
    Cores = {"k1", "k2"}
    Entity = "k1"
    ParadoxCallers = {"c1"}
    Challenged = 2
    ParadoxLookback = 0
    ParadoxTime = 1
    MaxChallenges = 2
    MaxLoops = 2
    MaxLog = 2
    ParadoxFaults = 1
    Plain = {"a"}
    Vows = {"v"}
    Runners = {"r1"}
    Early = 1
    Cap = 2
    Ramp = 1
    ForgottenAge = 0
    SurfacedStale = 0
    Switches = 1
    MaxDay = 1
    MaxRuns = 2
    MaxAccess = 2
    RegradeFaults = 1
    SkillKeys = {"k1", "k2"}
    Reviewers = {"r1"}
    MaxSkills = 3
    SkillTime = 1
    StaleAfter = 1
    PromotionAge = 0
    ScanCap = 3
    SkillFaults = 1
    MinSample = 3
    DefaultThreshold = 75
    MaxRows = 7
    MaxNights = 6
    ThresholdFaults = 1
INVARIANTS BoundaryGreen NothingMissed KeysStay LedgersTrue
PROPERTIES MovedForCause
SYMMETRY Alike
CHECK_DEADLOCK FALSE
