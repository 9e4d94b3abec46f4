\* Liveness with a client that answers every RPC and with one that may fall silent;
\* the mouse may rest.
SPECIFICATION FairSpec
CONSTANTS
    ZeroMotion = z
    Motions = {z}
    Gains = {g1}
    DefaultGain = g1
    Values <- MCValues
    Garbage = Garbage
    NoValue = NoValue
    CallIds = {i1, i2}
    NoCall = NoCall
    Times <- MCTimes
    CHAIN_TIMEOUT = 1
    MAX_PREFIXES = 0
    PrefixNames = {}
    NoPrefix = NoPrefix
    BaseUris = {}
    NoUri = NoUri
    Rests = {"create", "controller0", "update"}
    CONTROLLER_URI <- MCControllerUri
    UPDATE_URI <- MCUpdateUri
    CREATE <- MCCreate
    Responsive = {TRUE, FALSE}
    Laps = 1
PROPERTIES NeverWedged QueuedResetEnds
