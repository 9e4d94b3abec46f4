\* Two motions and a reset, so that the newest, a superseded and the served event
\* differ, in backlogs of up to two; two RPC ids, and names as few as a session needs.
SPECIFICATION MCSpec
CONSTANTS
    ZeroMotion = z
    Motions = {z, m}
    Gains = {g1}
    DefaultGain = g1
    Values = {v1}
    Garbage = Garbage
    NoValue = NoValue
    CallIds = {i1, i2}
    NoCall = NoCall
    Times = {0, 1}
    CHAIN_TIMEOUT = 1
    MAX_PREFIXES = 0
    PrefixNames = {}
    NoPrefix = NoPrefix
    BaseUris = {}
    NoUri = NoUri
    Rests = {"create", "ctl/controller0", "upd#update"}
    CONTROLLER_URI <- MCControllerUri
    UPDATE_URI <- MCUpdateUri
    CREATE <- MCCreate
    Idle = Idle
    Reset = Reset
    MaxBacklog = 2
SYMMETRY MCSymmetry
INVARIANTS ChainStepMatch NoOrphanedWork WritesAreFresh FreshData
PROPERTIES ImplementsViewService
