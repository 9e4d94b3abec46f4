\* Two chunks each way, two reads per pass, a timeout of two ticks; the
\* fairness of the poll loop and of the clock.
SPECIFICATION FairSpec
CONSTANTS
    OUT_MAX = 3
    IN_MAX = 2
    READS = 2
    IO_TIMEOUT = 2
INVARIANTS TypeOK NeverPolledBlind
PROPERTIES RetriesAreExact HandshakeEnds PendingWriteEnds ClosingEnds DecryptedInputIsRead
