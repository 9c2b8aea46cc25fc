\* What callers_of says of its approximate callers.
SPECIFICATION QSpec
CONSTANTS
    Paths <- MCPaths
    Lines <- MCLines
    Jobs <- Graphs
    Models <- MCModels
    EmbedModel = "ours"
    Corpora <- MCCorpora
    MaxFiles = 2
    EmbedBatch = 2
    Limits = {3}
    Depths = {1}
CHECK_DEADLOCK FALSE
INVARIANT
    ToolToldOfCalls
