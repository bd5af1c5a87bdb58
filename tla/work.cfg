SPECIFICATION AllSpec
CONSTANTS
  NoPolicy = NoPolicy
  c1 = c1 c2 = c2
  Calls = {c1, c2}
  Editors = {e1}
  Modes = {"balanced"}
  Defaults <- Sparing
  Policies <- Offered
  Ceiling = 2
  DayLength = 2
  Days = 2
  MaxSession = 1
  Kinds = {"duty", "impulse"}
  Enforced = {TRUE, FALSE}
  Requested = {0, 1}
  Given = {{"daily", "impulse", "reserve", "gap", "clear"}}
  Stamps = {1, 2}
  MaxRows = 5
  MaxFaults = 1
  Tenants = {"companion", "rainer"}
  Nobody = "nobody"
  Triggers = {"g1", "g2"}
  AgentOf <- MCAgentOf
  MaxTasks = 2
  Priority <- MCPriority
  PreviewLimit = 2
  TaskEdits = 1
  TaskFaults = 1
  Parts = {"wakes", "dated", "paced", "tight", "tasks"}
INVARIANTS AdmittedBounded TasksTrue
PROPERTY GateHolds
CHECK_DEADLOCK FALSE
SYMMETRY Alike
