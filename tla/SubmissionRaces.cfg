SPECIFICATION Spec
CONSTANTS
    n1 = n1
    r1 = r1
    r2 = r2
    Numbers = {n1}
    Clean <- CleanApart
    SettingsRows <- OneAtATime
    Requests = {r1, r2}
    MaxJobs = 2
    MaxOtps = 2
    OperatorTargets = {"wait", "failed"}
    MaxOperatorMoves = 1
SYMMETRY Slots
INVARIANT ProcessedImpliesVerified
INVARIANT VideoCountNeverOvercounts
INVARIANT NoWaitJobOnceVerified
INVARIANT CommittedJobHasSelfie
INVARIANT PendingIsOwnJob
INVARIANT AtMostOneInFlight
INVARIANT CapRespected
INVARIANT VideoCountExact
PROPERTY Lifecycle
