SPECIFICATION FairSpec
CONSTANTS
    Kinds = {"control", "out", "in"}
    RingSize <- MCRingSize
    None = None
    MaxTrbs <- MCMaxTrbs
    MaxCommands = 2
    MaxQueue = 2
INVARIANTS AnswersAreOwn PointerIsOutstanding NothingLeftBehind ContextTellsTheTruth
PROPERTIES HaltIsReported CommandsAreAnswered DetachReleases  TrbErrorHasACause ImplementsContract
CHECK_DEADLOCK FALSE
