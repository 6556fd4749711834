\* Two brokers share the store; the endpoint keeps accepting a rotated-away
\* refresh secret, so the loser of a rotation race reaches the CAS and
\* takes the RefreshMismatch branch.  Caller c1 may instead start an
\* authorization session, which the provider redirects back once, and
\* exchange_code saves the new grant without taking the guard.  The
\* descriptor does not enable client_credentials, so that call ends at once
\* with UnsupportedGrant.
CONSTANTS
    Callers = {c1, c2, c3}
    Brokers = {b1, b2}
    c1 = c1  c2 = c2  c3 = c3  b1 = b1  b2 = b2
    BrokerOf <- TwoBrokers
    LoginCallers <- OneLogin
    Flows = {"refresh", "authorization_code", "client_credentials"}
    SupportedGrants = {"refresh", "authorization_code"}
    ScopeDelimiter = 0
    PreemptiveWindow = 4
    JitterSeed = 5
    ExpiresIn = {4}
    SeedExpiry = {2}
    StrictRotation = FALSE
    Cancellable = FALSE
    MalformedSuccess = FALSE
    LostResponses = FALSE
    TransportFailures <- Lost
    RejectedAnswers <- Rejected
    TransientAnswers <- Unavailable
    RequestedScope <- Requested
    RequestScopes <- OnlyRequested
    Family = Family
    ScopeEchoes <- EchoSame
    NoScope = NoScope
    MaxTime = 2
    MaxMint = 3
    MaxCalls = 1
    MaxSessions = 1
    NoRecord = NoRecord  NoSecret = NoSecret  NoCaller = NoCaller
SPECIFICATION Spec
INVARIANTS FamilyKept MetricsBalanced
