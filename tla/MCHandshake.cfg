\* Handshake: a table of two prefixes, declared in any order, twice or too many;
\* chains reduced to one motion and no timeout.
SPECIFICATION Spec
CONSTANTS
    ZeroMotion = z
    Motions = {z}
    Gains = {g1}
    DefaultGain = g1
    Values = {v1}
    Garbage = Garbage
    NoValue = NoValue
    CallIds = {i1, i2}
    NoCall = NoCall
    Times = {0}
    CHAIN_TIMEOUT = 1
    MAX_PREFIXES = 2
    PrefixNames = {"3dx_rpc", "p"}
    NoPrefix = NoPrefix
    BaseUris = {ctl, upd}
    NoUri = NoUri
    ctl = ctl
    upd = upd
    Rests = {"create", "controller0", "update", "upd#update"}
    CONTROLLER_URI <- MCControllerUri
    UPDATE_URI <- MCUpdateUri
    CREATE <- MCCreate
SYMMETRY MCSymmetry
INVARIANTS TypeOK OnlyKnownClients
PROPERTIES DeclaredNamesAreStable
