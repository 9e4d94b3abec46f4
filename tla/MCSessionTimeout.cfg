\* A client that answers every RPC, and a timeout longer than any one answer takes.
SPECIFICATION SSpec
CONSTANTS
    ZeroMotion = z
    Motions = {z}
    Gains = {g1}
    DefaultGain = g1
    Values <- MCValues
    Garbage = Garbage
    NoValue = NoValue
    CallIds = {i1, i2}
    NoCall = NoCall
    Times <- MCTimes
    CHAIN_TIMEOUT = 2
    MAX_PREFIXES = 0
    PrefixNames = {}
    NoPrefix = NoPrefix
    BaseUris = {}
    NoUri = NoUri
    Rests = {"create", "controller0", "update"}
    CONTROLLER_URI <- MCControllerUri
    UPDATE_URI <- MCUpdateUri
    CREATE <- MCCreate
    Responsive = {TRUE}
    Laps = 2
PROPERTIES AbandonedOnlyIfUnanswered
