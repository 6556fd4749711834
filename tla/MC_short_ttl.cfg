\* One broker; the endpoint grants tokens no longer-lived than the effective preemptive window.
CONSTANTS
    Callers = {c1, c2}
    Brokers = {b1}
    c1 = c1  c2 = c2  c3 = c3  b1 = b1  b2 = b2
    BrokerOf <- OneBroker
    LoginCallers = {}
    Flows = {"refresh"}
    SupportedGrants = {"refresh", "client_credentials", "authorization_code"}
    ScopeDelimiter = 0
    PreemptiveWindow = 4
    JitterSeed = 5
    ExpiresIn = {3}
    SeedExpiry = {2}
    StrictRotation = TRUE
    Cancellable = FALSE
    MalformedSuccess = FALSE
    LostResponses = FALSE
    TransportFailures <- Lost
    RejectedAnswers <- Rejected
    TransientAnswers <- Unavailable
    RequestedScope <- Requested
    RequestScopes <- OnlyRequested
    Family = Family
    ScopeEchoes <- EchoSame
    NoScope = NoScope
    MaxTime = 2
    MaxMint = 2
    MaxCalls = 1
    MaxSessions = 0
    NoRecord = NoRecord  NoSecret = NoSecret  NoCaller = NoCaller
SPECIFICATION Spec
PROPERTY FreshRecordReused
