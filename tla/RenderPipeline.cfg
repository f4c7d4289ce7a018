SPECIFICATION FairSpec
CONSTANTS
    j1 = j1
    u1 = u1
    h1 = h1
    h2 = h2
    Jobs = {j1}
    Urls = {u1}
    Handlers = {h1, h2}
    MaxRetry = 2
    Targets = {"failed"}
    MaxMoves = 1
INVARIANT StatusHasAssets
INVARIANT SentWasDelivered
INVARIANT SomebodyComes
INVARIANT PipelineInv
PROPERTY QueuedSettles
PROPERTY FinishedFreesUser
PROPERTY Lifecycle
PROPERTY WorkDescends
