SPECIFICATION Spec
CONSTANTS
    n1 = n1
    r1 = r1
    Numbers = {n1}
    Clean <- CleanApart
    SettingsRows <- Plain
    Requests = {r1}
    MaxJobs = 2
    MaxOtps = 2
    OperatorTargets = {"wait"}
    MaxOperatorMoves = 0
PROPERTY UncheckedPhotoNotQueued
