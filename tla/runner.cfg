SPECIFICATION AllSpec
CONSTANTS
    Tools <- MCTools
    Contracts <- MCContracts
    MaxIterations = 3
    MaxRepairs = 2
    Limit = 2
    MaxFaults = 2
    Props = {1, 2}
    Trusted = {1}
    \* Four updates, the second from another chat, in batches of three.
    Updates = 4
    Voiced = {1, 3, 4}
    Muffled = {}
    Size = 3
    VoiceFaults = 2
    VoiceCrashes = 2
    StoreIds = {1, 2}
    Territory <- MCTerritory
    StoreCalls = 3
    StoreCrashes = 1
    \* What overlaps where two methods are in flight.
    Overlapping = {"deleteObservation", "appendToTerritory", "rewriteTerritory", "appendLink", "createVersion", "backfill"}
    AtOnce = 2
    Parts = {"run", "voice", "serial", "overlap"}
INVARIANTS CompletedIsVerified OneBudget CountsTrue VoiceKept StoreTrue
CHECK_DEADLOCK FALSE
