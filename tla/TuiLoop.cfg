SPECIFICATION Spec
CONSTANTS
    c1 = c1
    c2 = c2
    c3 = c3
    Calls = {c1, c2, c3}
    Batches <- MCBatches
    Never <- MCNever
    Chat = {"content", "status", "progress"}
    Failing = TRUE
    MaxTyped = 2
    MaxTurns = 3
    MaxKeys = 2
    MaxAside = 2
    MaxExtra = 2
    MaxChat = 2
    MaxWork = 3
INVARIANTS
    LatestStream
    AnswersChosen
    SentOnce
    Attended
CHECK_DEADLOCK FALSE
