CONSTANTS
    Turns <- MCTurns
    Ops <- MCTurns
    OldModes <- MCOldModes
    Servers <- MCServers
    Others <- MCOthers
    Procs <- MCProcs
    Found <- Databases

SPECIFICATION FairSpec

INVARIANTS
    OpenedComplete
    OpensAgain
    AtomicWrites
    ClosedAfterTurns
    PromptAnswered

PROPERTIES
    ExitReached

CHECK_DEADLOCK FALSE
