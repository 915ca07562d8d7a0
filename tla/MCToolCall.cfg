CONSTANT
    MaxChunks <- Chunks
SPECIFICATION FairCallSpec
INVARIANTS
    NothingLeft
    WholeAnswer
PROPERTIES
    StdioSettles
CHECK_DEADLOCK FALSE
