\* Every job, every interleaving of its failures: Content, Graph and Callers.
SPECIFICATION QSpec
CONSTANTS
    Paths <- MCPaths
    Lines <- MCLines
    Jobs <- MCJobs
    Models <- MCModels
    EmbedModel = "ours"
    Corpora <- MCCorpora
    MaxFiles = 2
    EmbedBatch = 2
    Limits = {1, 3}
    Depths = {1, 2, 3}
CHECK_DEADLOCK FALSE
INVARIANTS
    WindowsTile
    SpansMatchSource
    OwnVector
    CitesItself
    NearestCallers
    EveryCallAnswered
