SPECIFICATION AllSpec
CONSTANTS
    Parts = {"duty", "voice", "drains", "requests", "skills", "queue"}
    Procs = {1}
    Order <- DutyOrder
    NightlyAt <- NoDreams
    PersonalAt <- NoSlots
    Impulsive = {"a"}
    Interval = 2
    Grace = 1
    MaxPasses = 3
    DayLength = 4
    Horizon = 0
    MaxWaiting = 2
    MaxArrivals = 3
    MaxFaults = 1
    Filled = 3
    FilledFirst = 3
    FilledDead = {1}
    FilledWarped = {3}
    FillRequests = {"r1", "r2"}
    FillLimits = {3}
    FillChunks = {1, 2}
    FillNight = 2
    FillFaults = 1
INVARIANT WorkTrue
PROPERTIES TicksEnd SeenTo HeadNeverBlocks
CHECK_DEADLOCK FALSE
