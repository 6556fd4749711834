\* Process kills and failing persist steps; no power loss.
CONSTANTS
    Secrets = {s1, s2}
    s1 = s1  s2 = s2
    NoSecret = NoSecret  Absent = Absent  NoFile = NoFile  Empty = Empty  Torn = Torn
    ProcessCrashes = TRUE
    PowerLoss = FALSE
    PersistFailures = TRUE
SPECIFICATION Spec
INVARIANT AckedPersisted
