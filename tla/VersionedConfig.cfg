SPECIFICATION Spec
CONSTANTS
    a1 = a1
    a2 = a2
    a3 = a3
    s1 = s1
    s2 = s2
    Admins = {a1, a2, a3}
    Seeders = {s1, s2}
    Tables = {"pipeline", "vision"}
    MaxRows = 4
    MaxCommits = 4
SYMMETRY Alike
INVARIANT ConfigInv
INVARIANT OneActive
INVARIANT ActiveBounded
INVARIANT AuditErrsOnlyOnRace
