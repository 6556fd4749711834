\* One broker, both flows, with cancellation, malformed 2xx answers and
\* responses lost after the endpoint processed the request.  Liveness under
\* the fairness of FairSpec; no symmetry (unsound with liveness).
CONSTANTS
    Callers = {c1, c2}
    Brokers = {b1}
    c1 = c1  c2 = c2  c3 = c3  b1 = b1  b2 = b2
    BrokerOf <- OneBroker
    LoginCallers = {}
    Flows = {"refresh", "client_credentials"}
    SupportedGrants = {"refresh", "client_credentials", "authorization_code"}
    ScopeDelimiter = 0
    PreemptiveWindow = 4
    JitterSeed = 5
    ExpiresIn = {0, 4}
    SeedExpiry = {2}
    StrictRotation = TRUE
    Cancellable = TRUE
    MalformedSuccess = TRUE
    LostResponses = TRUE
    TransportFailures <- Lost
    RejectedAnswers <- Rejected
    TransientAnswers <- Unavailable
    RequestedScope <- Requested
    RequestScopes <- Reordered
    Family = Family
    ScopeEchoes <- EchoAny
    NoScope = NoScope
    MaxTime = 2
    MaxMint = 2
    MaxCalls = 1
    MaxSessions = 0
    NoRecord = NoRecord  NoSecret = NoSecret  NoCaller = NoCaller
SPECIFICATION FairSpec
INVARIANTS TypeOK RevokeOnlyRejected OneKeyPerScopeSet
PROPERTIES CallsComplete FreshRecordReused
