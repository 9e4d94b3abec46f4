\* Every boundary between the short, the medium and the long form, and one message
\* size beyond them; up to four frames in chunks of any size.
SPECIFICATION Spec
CONSTANTS
    MaxFrames = 4
    Streams <- MCStreams
    MSG_BUF_SIZE = 7
    BUF_SIZE = 6
    MAX_BODY = 2
    SHORT_MAX = 1
    MEDIUM_MAX = 5
    INT_MAX = 30
    WELCOME_SIZE = 1
    ReplySizes = {2, 3}
CHECK_DEADLOCK FALSE
INVARIANTS TypeOK DeliversWhatWasSent LegalNeverCut PongsAnswerPings FramesAreReadable
PROPERTIES StreamGetsThrough
