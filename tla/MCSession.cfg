\* A client that may answer, refuse or fall silent, and a timeout of one tick.
SPECIFICATION SSpec
CONSTANTS
    ZeroMotion = z
    Motions = {z}
    Gains = {g1}
    DefaultGain = g1
    Values <- MCValues
    Garbage = Garbage
    NoValue = NoValue
    CallIds = {i1, i2, i3}
    NoCall = NoCall
    Times <- MCTimes
    CHAIN_TIMEOUT = 1
    MAX_PREFIXES = 0
    PrefixNames = {}
    NoPrefix = NoPrefix
    BaseUris = {}
    NoUri = NoUri
    Rests = {"create", "controller0", "update"}
    CONTROLLER_URI <- MCControllerUri
    UPDATE_URI <- MCUpdateUri
    CREATE <- MCCreate
    Responsive = {FALSE}
    Laps = 2
SYMMETRY MCSymmetry
INVARIANTS AnswersReachTheirStep NoOwnWriteLost
