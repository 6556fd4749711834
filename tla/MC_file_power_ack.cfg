\* Power loss with OS writeback; no failing system calls.
CONSTANTS
    Secrets = {s1, s2}
    s1 = s1  s2 = s2
    NoSecret = NoSecret  Absent = Absent  NoFile = NoFile  Empty = Empty  Torn = Torn
    ProcessCrashes = FALSE
    PowerLoss = TRUE
    PersistFailures = FALSE
SPECIFICATION Spec
INVARIANT AckedPersisted
