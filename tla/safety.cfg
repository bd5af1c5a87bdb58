SPECIFICATION AllSpec
CONSTANTS
    Ids = {l1, l2, l3}
    Issued = {l1}
    Agents = {a1, a2}
    Tenants = {"t1", "t2"}
    Scopes <- MCScopes
    Grants <- MCGrants
    Resources <- MCResources
    Calls = {c1, c2}
    Requests <- MCRequests
    Modes = {"shadow", "required"}
    MaxTime = 2
    MaxChain = 2
    None = None
    Parts = {"lines", "calls", "consent", "watch", "watches"}
    l1 = l1
    a1 = a1
    ConsentCallers = {k1}
    ConsentLevels = {"standing", "session"}
    UserDomains = {"emotional_tracking", "proactive_check_ins"}
    Gates <- MCGates
    HardDomains = {"forced_persona"}
    TopLevel = 1
    Documented <- MCDocumented
    SessionTime = 1
    LogCap = 2
    ConsentTime = 2
    ConsentCalls = 3
    ConsentFaults = 1
    TriggerCallers = {w1}
    Watches <- MCWatches
    Batches <- MCBatches
    Day = 3
    Start = 1
    MaxTriggers = 2
    MaxChecks = 3
    TriggerTime = 4
    TriggerFaults = 1
INVARIANTS Narrowed Outlived Accountable RecordsTrue
PROPERTIES Honoured SilenceTrue
CHECK_DEADLOCK FALSE
