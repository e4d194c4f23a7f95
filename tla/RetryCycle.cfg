CONSTANTS
    Msgs = {m1, m2, m3}
    None = None
    Published = Published
    Definitions <- AnyDefinition
    Retries = 2
    Trusted = TRUE
    MaxCount = 3
SPECIFICATION FairSpec
INVARIANTS TypeOK OriginKept CountsReturns HandlerBound LostOnlyByOverflow
PROPERTY Rests
CHECK_DEADLOCK FALSE
