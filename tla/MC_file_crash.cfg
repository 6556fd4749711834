\* Process kills, power loss, OS writeback and failing persist steps.
CONSTANTS
    Secrets = {s1, s2}
    s1 = s1  s2 = s2
    NoSecret = NoSecret  Absent = Absent  NoFile = NoFile  Empty = Empty  Torn = Torn
    ProcessCrashes = TRUE
    PowerLoss = TRUE
    PersistFailures = TRUE
SPECIFICATION Spec
INVARIANT SnapshotComplete
