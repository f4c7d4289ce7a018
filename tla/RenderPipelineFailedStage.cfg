SPECIFICATION Spec
CONSTANTS
    j1 = j1
    u1 = u1
    h1 = h1
    Jobs = {j1}
    Urls = {u1}
    Handlers = {h1}
    MaxRetry = 2
    Targets = {"queued", "photo_processing", "failed"}
    MaxMoves = 0
INVARIANT FailedHasStage
