CONSTANTS
    Commands <- MCCommands
    Hooks <- MCHooks
    Kinds <- MCKinds
    MaxChunks <- MCMaxChunks
    Cap = 1
    MayType <- MCMayType

SPECIFICATION FairSpec

PROPERTIES
    CommandEnds
    ResultShown

CHECK_DEADLOCK FALSE
