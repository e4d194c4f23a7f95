CONSTANTS
    Conns = {c1, c2, c3}
    Chans = {k1, k2, k3, k4, k5}
    NoConn = NoConn
    NoChan = NoChan
    Limits <- WithAndWithoutLimit
    InitialDelay = 2
    BackoffMax = 4
    CallbackReads = TRUE
    MaxFaults = 2
    MaxCancels = 3
SPECIFICATION FairSpec
INVARIANTS
    TypeOK CancelledIsClosed CloseReleasesConnection ChannelOfConnection
    LockDiscipline ReconnectionIsPrivate
PROPERTIES
    NoDialAfterCancel RedeclaredOnReturn BackoffGrows
    Recovers ShutdownCompletes CloseReturns Implements
CHECK_DEADLOCK FALSE
