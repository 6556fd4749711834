\* Failing persist steps; no crash, no power loss.
CONSTANTS
    Secrets = {s1, s2}
    s1 = s1  s2 = s2
    NoSecret = NoSecret  Absent = Absent  NoFile = NoFile  Empty = Empty  Torn = Torn
    ProcessCrashes = FALSE
    PowerLoss = FALSE
    PersistFailures = TRUE
SPECIFICATION Spec
INVARIANT FetchSeesOnlyAcked
