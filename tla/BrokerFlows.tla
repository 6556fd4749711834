---------------------------- MODULE BrokerFlows ----------------------------
(***************************************************************************)
(* The broker's cached token flows (src/flows/refresh.rs,                  *)
(* src/flows/client_credentials.rs) for one StoreKey, i.e. one (tenant,    *)
(* principal, provider, scope) tuple, against the MemoryStore              *)
(* (src/store/memory.rs) and a token endpoint that rotates refresh         *)
(* secrets.                                                                *)
(*                                                                         *)
(* Each caller is one task running refresh_access_token or                 *)
(* client_credentials on a broker.  A broker owns one singleflight guard   *)
(* per StoreKey (an async mutex); all brokers share the one store.  The    *)
(* control points of a caller are the code's suspension points:            *)
(*   "idle"    no call in progress                                         *)
(*   "lock"    awaiting guard.lock()                                       *)
(*   "call"    holding the guard, token request not yet processed          *)
(*   "respond" the token endpoint has processed the request; the response  *)
(*             is in flight back to the broker                             *)
(*   "refetch" the CAS reported RefreshMismatch; the re-fetch is pending   *)
(* MemoryStore futures finish on their first poll, so a store operation    *)
(* and the synchronous code after it happen in one step.                   *)
(***************************************************************************)
EXTENDS Integers, FiniteSets, Sequences, ProviderStrategy, ScopeSet, ProviderDescriptor
LOCAL INSTANCE SequencesExt

CONSTANTS
    Callers,          \* tasks calling the broker (model values)
    Brokers,          \* broker instances sharing the store (model values)
    BrokerOf,         \* BrokerOf[c]: the broker caller c calls
    LoginCallers,     \* callers that may run exchange_code
    Flows,            \* subset of {"refresh", "client_credentials",
                      \*            "authorization_code"}
    SupportedGrants,  \* the grants the descriptor enables (same names)
    ScopeDelimiter,   \* the descriptor's scope_delimiter quirk (a character)
    PreemptiveWindow, \* the window given to with_preemptive_window, seconds
    JitterSeed,       \* jitter_seed(): the hash of (tenant, principal, scope)
    ExpiresIn,        \* expires_in values the token endpoint may answer
    SeedExpiry,       \* expires_at values of a record already in the store
    StrictRotation,   \* a rotated-away refresh secret stops being accepted
    Cancellable,      \* callers may drop their future at an await point
    MalformedSuccess, \* a 2xx response may fail facade normalization
    LostResponses,    \* a processed request may still end in a transport error
    TransportFailures,\* failure classes of such a request (RequestErrorKind)
    RejectedAnswers,  \* OAuth error responses [error, desc, status] to a
                      \* refresh secret the endpoint does not accept
    TransientAnswers, \* OAuth error responses of an endpoint that cannot
                      \* serve the request right now
    RequestedScope,   \* the scope list the stored entry's ScopeSet was built from
    RequestScopes,    \* scope lists callers build their CachedTokenRequest from
    Family,           \* the TokenFamily (tenant, principal, provider)
    ScopeEchoes,      \* scope lists a 2xx answer may carry, or NoScope
    NoScope,          \* a 2xx answer without a scope parameter
    MaxTime,          \* last value of the clock
    MaxMint,          \* number of token pairs the endpoint may mint
    MaxCalls,         \* calls per caller
    MaxSessions,      \* authorization sessions the login callers may start
    NoRecord, NoSecret, NoCaller

ASSUME /\ BrokerOf \in [Callers -> Brokers]
       /\ LoginCallers \subseteq Callers
       /\ Flows \subseteq {"refresh", "client_credentials", "authorization_code"}
       /\ Flows # {}
       /\ SupportedGrants \subseteq {"refresh", "client_credentials", "authorization_code"}
       /\ PreemptiveWindow \in Int /\ JitterSeed \in Nat
       /\ ExpiresIn \subseteq Nat /\ SeedExpiry \subseteq Nat \ {0}
       /\ {MaxTime, MaxMint, MaxCalls, MaxSessions} \subseteq Nat

VARIABLES
    now,          \* OffsetDateTime::now_utc(), in seconds
    store,        \* the MemoryStore entry for the StoreKey, or NoRecord
    valid,        \* refresh secrets the token endpoint accepts
    rotatedAway,  \* refresh secrets the endpoint invalidated by rotation
    minted,       \* last secret id the endpoint minted
    holder,       \* holder[b]: caller holding broker b's guard, or NoCaller
    pc, flow, force,
    scope,        \* the scope list of the caller's request
    expected,     \* expected_refresh read from the store
    resp,         \* facade result of the token request
    updated,      \* record offered to compare_and_swap_refresh
    calls,
    attempts, successes, failures, \* RefreshMetrics, per broker
    sessions,     \* the application's stash: AuthorizationSessions by state
    started,      \* sessions created so far; session i has state i
    codes,        \* the provider: states whose authorization it granted;
                  \* the code it issued for state i is code i
    redeemed,     \* the provider: codes already exchanged
    redirects,    \* redirects[i]: copies of the redirect (state i, code i)
                  \* the user agent still has to deliver
    authorizeUrl, \* authorizeUrl[i]: the authorize URL of session i
    code,         \* the code a caller is exchanging
    verifier      \* the PKCE verifier it presents with the code

providerVars == <<valid, rotatedAway, minted>>
metricVars == <<attempts, successes, failures>>
loginVars == <<sessions, started, codes, redeemed, redirects, authorizeUrl, code, verifier>>
vars == <<now, store, valid, rotatedAway, minted, holder, pc, flow, force,
          scope, expected, resp, updated, calls, attempts, successes, failures,
          sessions, started, codes, redeemed, redirects, authorizeUrl, code, verifier>>

Secrets == 0..MaxMint
(* A TokenRecord built from a positive expires_in: issued_at < expires_at. *)
Record == {r \in [access: Secrets, refresh: Secrets \cup {NoSecret},
                  issued: 0..MaxTime, expires: Nat, revoked: BOOLEAN] :
              r.issued < r.expires}
RespKind == {"none", "ok", "malformed", "invalid_grant", "invalid_client",
             "insufficient_scope", "transient", "transport", "config"}
NoResp == [kind |-> "none", record |-> NoRecord]

-----------------------------------------------------------------------------
(* TokenRecord (src/auth/token/record.rs).  revoked_at is kept as a flag:  *)
(* only is_some() is ever read.                                            *)

StatusAt(r, t) ==
    IF r.revoked THEN "Revoked"
    ELSE IF t < r.issued THEN "Pending"
    ELSE IF t >= r.expires THEN "Expired"
    ELSE "Active"

IsExpiredAt(r, t) == StatusAt(r, t) = "Expired"

(* TokenRecord::builder(..).access_token(..).issued_at(..)                 *)
(* .expires_in(..)[.refresh_token(..)].build(): no expires_at is given,    *)
(* so expires_at = issued_at + expires_in; revoked_at starts unset.        *)
BuildRecord(access, refresh, issued, expiresIn) ==
    [access |-> access, refresh |-> refresh, issued |-> issued,
     expires |-> issued + expiresIn, revoked |-> FALSE]

Revoke(r) == [r EXCEPT !.revoked = TRUE]

(* CachedTokenRequest freshness (src/flows/common.rs).                     *)
(* with_preemptive_window: a negative window is stored as zero.           *)
Window == IF PreemptiveWindow < 0 THEN 0 ELSE PreemptiveWindow

(* CachedTokenRequest::new leaves force false; force_refresh and          *)
(* with_force(true) set it.  exchange_code takes no such request.         *)
RequestForce(f) == IF f = "authorization_code" THEN {FALSE} ELSE BOOLEAN

Jitter == IF Window <= 1 THEN 0 ELSE JitterSeed % Window

EffectiveWindowJitterAdded == Window + Jitter
EffectiveWindow == Window - Jitter

ShouldRefresh(r, t, frc) ==
    \/ frc
    \/ r.revoked
    \/ IsExpiredAt(r, t)
    \/ EffectiveWindow # 0 /\ r.expires - t <= EffectiveWindow

(* MemoryStore (src/store/memory.rs).                                      *)
RefreshMatches(cur, exp) == cur = exp

CasOutcome(s, exp) ==
    IF s = NoRecord THEN "Missing"
    ELSE IF RefreshMatches(s.refresh, exp) THEN "Updated"
    ELSE "RefreshMismatch"

RevokeNow(s) == IF s = NoRecord THEN s ELSE Revoke(s)

(* Token endpoint: the new valid set after rotating `old` into `new`.      *)
Rotate(old, new) ==
    IF StrictRotation THEN (valid \ {old}) \cup {new} ELSE valid \cup {new}

(* Broker helpers.                                                         *)
GuardIgnored(c) == TRUE
GuardFree(c) == holder[BrokerOf[c]] = NoCaller

RevokeOnErrorAll(kind) == kind \in {"invalid_grant", "transient"}
RevokeOnError(kind) == kind = "invalid_grant"

NoCarryOver(rec, exp) == rec
CarryOver(rec, exp) ==
    IF rec.refresh # NoSecret THEN rec ELSE [rec EXCEPT !.refresh = exp]

(* The fetched record exists and needs no refresh.                        *)
CacheHit(c) == store # NoRecord /\ ~ShouldRefresh(store, now, force[c])

(* Leaving the flow: the guard is dropped and, for refresh_access_token,   *)
(* the outcome is recorded in RefreshMetrics.                              *)
Finish(c, outcome) ==
    LET b == BrokerOf[c] IN
    /\ pc' = [pc EXCEPT ![c] = "idle"]
    /\ holder' = [holder EXCEPT ![b] = NoCaller]
    /\ successes' = IF flow[c] = "refresh" /\ outcome = "success"
                    THEN [successes EXCEPT ![b] = @ + 1] ELSE successes
    /\ failures' = IF flow[c] = "refresh" /\ outcome = "failure"
                   THEN [failures EXCEPT ![b] = @ + 1] ELSE failures
    /\ UNCHANGED attempts

ReturnCachedUnrecorded(c) ==
    /\ pc' = [pc EXCEPT ![c] = "idle"]
    /\ holder' = [holder EXCEPT ![BrokerOf[c]] = NoCaller]
    /\ UNCHANGED metricVars
ReturnCached(c) == Finish(c, "success")

-----------------------------------------------------------------------------
(* Broker::with_http_client: each broker starts with an empty flow_guards  *)
(* registry (no guard held) and RefreshMetrics::default (zero counters).   *)
BrokerInit ==
    /\ holder = [b \in Brokers |-> NoCaller]
    /\ attempts = [b \in Brokers |-> 0]
    /\ successes = [b \in Brokers |-> 0]
    /\ failures = [b \in Brokers |-> 0]

Init ==
    /\ BrokerInit
    /\ now = 0
    /\ store \in {NoRecord} \cup
         {[access |-> 0, refresh |-> r, issued |-> 0, expires |-> x,
           revoked |-> FALSE] : r \in {0, NoSecret}, x \in SeedExpiry}
    /\ valid = IF store # NoRecord /\ store.refresh # NoSecret THEN {0} ELSE {}
    /\ rotatedAway = {}
    /\ minted = 0
    /\ pc = [c \in Callers |-> "idle"]
    /\ flow = [c \in Callers |-> CHOOSE f \in Flows : TRUE]
    /\ scope = [c \in Callers |-> RequestedScope]
    /\ force = [c \in Callers |-> FALSE]
    /\ expected = [c \in Callers |-> NoSecret]
    /\ resp = [c \in Callers |-> NoResp]
    /\ updated = [c \in Callers |-> NoRecord]
    /\ calls = [c \in Callers |-> 0]
    /\ sessions = {}
    /\ started = 0
    /\ codes = {}
    /\ redeemed = {}
    /\ redirects = [i \in 1..MaxSessions |-> 0]
    /\ authorizeUrl = <<>>
    /\ code = [c \in Callers |-> 0]
    /\ verifier = [c \in Callers |-> 0]

(* SupportedGrants::supports, via ProviderDescriptor::supports.           *)
Supports(g) == g \in SupportedGrants

(* The descriptor the broker is built from: https endpoints, the          *)
(* configured grants and the configured scope delimiter.                   *)
Descriptor ==
    SetQuirks(SupportGrants(SetEndpoints(NewBuilder, "https", "https", NoUrl),
                            SupportedGrants),
              [DefaultQuirks EXCEPT !.scope_delimiter = ScopeDelimiter])

(* A Broker is built from a descriptor that ProviderDescriptorBuilder::build *)
(* accepted.                                                               *)
ASSUME Build(Descriptor) = "ok"

(* Entry of refresh_access_token / client_credentials up to the guard:     *)
(* ensure_*_supported (an UnsupportedGrant error ends the call before any  *)
(* metric or guard), record_attempt (refresh only), the StoreKey,          *)
(* flow_guard get-or-insert.  exchange_code takes no guard and goes        *)
(* straight to the token endpoint.                                         *)
Start(c) ==
    /\ pc[c] = "idle"
    /\ calls[c] < MaxCalls
    /\ \E f \in Flows \ {"authorization_code"} :
       \E frc \in RequestForce(f), l \in RequestScopes :
          /\ flow' = [flow EXCEPT ![c] = f]
          /\ scope' = [scope EXCEPT ![c] = l]
          /\ force' = [force EXCEPT ![c] = frc]
          /\ attempts' = IF f = "refresh" /\ Supports(f)
                         THEN [attempts EXCEPT ![BrokerOf[c]] = @ + 1]
                         ELSE attempts
          /\ pc' = [pc EXCEPT ![c] = IF Supports(f) THEN "lock" ELSE "idle"]
    /\ calls' = [calls EXCEPT ![c] = @ + 1]
    /\ UNCHANGED <<loginVars, now, store, providerVars, holder, expected, resp, updated,
                   successes, failures>>

(* compute_pkce_challenge: base64url(SHA-256(verifier)), SHA-256 taken to *)
(* be collision-free.                                                      *)
ComputePkceChallenge(v) == [s256 |-> v]

(* PkcePair::generate: a fresh random verifier (the i-th session's 64      *)
(* random characters stand as i) and its S256 challenge.                   *)
PkceGenerate(i) ==
    [verifier |-> i, challenge |-> ComputePkceChallenge(i), method |-> "S256"]

(* AuthorizationSession::new.                                               *)
NewSession(st, l, pkce) == [state |-> st, scope |-> l, pkce |-> pkce]

(* build_session: a fresh random state (state i stands for the i-th        *)
(* session's 32 random characters), a fresh PKCE pair and the requested    *)
(* scope list, from which start_authorization built the ScopeSet.           *)
BuildSession(s, l) == NewSession(s, l, PkceGenerate(s))

(* build_authorize_url: the query pairs the provider reads.  The scope    *)
(* pair is format_scope with the descriptor's delimiter; client_id,        *)
(* redirect_uri and response_type are fixed strings left out.              *)
BuildAuthorizeUrl(x) ==
    [scope |-> FormatScope(Normalize(x.scope), Descriptor.quirks.scope_delimiter),
     state |-> x.state,
     code_challenge |-> x.pkce.challenge,
     code_challenge_method |-> x.pkce.method]

(* into_exchange_parts: what exchange_code takes from the session.         *)
IntoExchangeParts(x) == [scope |-> x.scope, verifier |-> x.pkce.verifier]

(* AuthorizationSession::validate_state: the returned state equals the     *)
(* session's.                                                              *)
ValidateState(stashed, returned) == returned = stashed.state

(* The redirect handler's sessions.remove(&returned_state).                *)
TakeSession(x) == sessions' = sessions \ {x}

(* Broker::start_authorization (UnsupportedGrant unless the descriptor     *)
(* enables authorization_code) and the application stashing the session    *)
(* under its state, as examples/start_authorization.rs does.               *)
StartAuthorization(c) ==
    /\ c \in LoginCallers /\ pc[c] = "idle"
    /\ "authorization_code" \in Flows /\ Supports("authorization_code")
    /\ calls[c] < MaxCalls /\ started < MaxSessions
    /\ \E l \in RequestScopes :
          LET x == BuildSession(started + 1, l) IN
          /\ sessions' = sessions \cup {x}
          /\ authorizeUrl' = Append(authorizeUrl, BuildAuthorizeUrl(x))
    /\ started' = started + 1
    /\ calls' = [calls EXCEPT ![c] = @ + 1]
    /\ UNCHANGED <<codes, redeemed, redirects, code, verifier, now, store, providerVars, holder,
                   pc, flow, force, scope, expected, resp, updated, metricVars>>

(* The user approves session i at the authorization endpoint; the provider *)
(* issues code i and redirects the user agent back with (state i, code i). *)
ProviderAuthorize(i) ==
    /\ i \in 1..started /\ i \notin codes
    /\ codes' = codes \cup {i}
    /\ redirects' = [redirects EXCEPT ![i] = 1]
    /\ UNCHANGED <<sessions, started, redeemed, authorizeUrl, code, verifier, now, store,
                   providerVars, holder, pc, flow, force, scope, expected, resp, updated,
                   calls, metricVars>>

(* A text cut at every occurrence of the character d into the pieces      *)
(* between them (str::split).                                              *)
RECURSIVE SplitOn(_, _)
SplitOn(t, d) ==
    LET k == SelectInSeq(t, LAMBDA ch : ch = d) IN
    IF k = 0 THEN <<t>>
    ELSE <<SubSeq(t, 1, k - 1)>> \o SplitOn(SubSeq(t, k + 1, Len(t)), d)

(* RFC 7636 4.6: the token endpoint accepts a code only with the verifier  *)
(* whose S256 challenge the authorize request of that code carried.       *)
PkceVerified(c) == ComputePkceChallenge(verifier[c]) = authorizeUrl[code[c]].code_challenge

(* The application's redirect callback: it removes the stashed session   *)
(* found by the returned state, validate_state, and hands the code with   *)
(* into_exchange_parts (the session's scope and PKCE verifier) to          *)
(* Broker::exchange_code.  examples/start_authorization.rs shows the       *)
(* lookup and validation and leaves the exchange_code call to the          *)
(* callback; the provider redirects each approved session once, so the    *)
(* returned state always names a stashed session.                          *)
HandleRedirect(c) ==
    /\ c \in LoginCallers /\ pc[c] = "idle"
    /\ \E i \in DOMAIN redirects :
          /\ redirects[i] > 0
          /\ redirects' = [redirects EXCEPT ![i] = @ - 1]
          /\ \E x \in sessions :
                /\ x.state = i
                /\ ValidateState(x, i)
                /\ TakeSession(x)
                /\ pc' = [pc EXCEPT ![c] = "call"]
                /\ flow' = [flow EXCEPT ![c] = "authorization_code"]
                /\ force' = [force EXCEPT ![c] = FALSE]
                /\ LET parts == IntoExchangeParts(x) IN
                   /\ scope' = [scope EXCEPT ![c] = parts.scope]
                   /\ verifier' = [verifier EXCEPT ![c] = parts.verifier]
                /\ code' = [code EXCEPT ![c] = i]
    /\ UNCHANGED <<started, codes, redeemed, authorizeUrl, now, store, providerVars, holder, expected,
                   resp, updated, calls, metricVars>>

(* refresh_access_token: guard acquired, now read, current record fetched  *)
(* and judged.                                                             *)
RefreshLockAndFetch(c) ==
    /\ pc[c] = "lock" /\ flow[c] = "refresh"
    /\ GuardFree(c)
    /\ \/ /\ store = NoRecord
          /\ Finish(c, "failure")
          /\ UNCHANGED expected
       \/ /\ CacheHit(c)
          /\ ReturnCached(c)
          /\ UNCHANGED expected
       \/ /\ store # NoRecord /\ ShouldRefresh(store, now, force[c])
          /\ store.refresh = NoSecret
          /\ Finish(c, "failure")
          /\ UNCHANGED expected
       \/ /\ store # NoRecord /\ ShouldRefresh(store, now, force[c])
          /\ store.refresh # NoSecret
          /\ holder' = [holder EXCEPT ![BrokerOf[c]] = c]
          /\ expected' = [expected EXCEPT ![c] = store.refresh]
          /\ pc' = [pc EXCEPT ![c] = "call"]
          /\ UNCHANGED metricVars
    /\ UNCHANGED <<loginVars, now, store, providerVars, flow, force, scope, resp, updated,
                   calls>>

(* client_credentials: guard acquired, current record fetched and judged. *)
ClientCredentialsLockAndFetch(c) ==
    /\ pc[c] = "lock" /\ flow[c] = "client_credentials"
    /\ GuardFree(c)
    /\ \/ /\ CacheHit(c)
          /\ Finish(c, "success")
       \/ /\ ~CacheHit(c)
          /\ holder' = [holder EXCEPT ![BrokerOf[c]] = c]
          /\ pc' = [pc EXCEPT ![c] = "call"]
          /\ UNCHANGED metricVars
    /\ UNCHANGED <<loginVars, now, store, providerVars, flow, force, scope, expected, resp,
                   updated, calls>>

(* Kinds of a 2xx answer as the facade sees it: "ok", "malformed" when     *)
(* map_*_token_response rejects it for a reason other than expires_in <= 0 *)
(* or the scope (MissingExpiresIn, ExpiresInOutOfRange, a build error),   *)
(* or a failure class of RequestErrorKind when the endpoint processed the  *)
(* request but the transport failed before the body was read.             *)
SuccessKinds ==
    {"ok"} \cup (IF MalformedSuccess THEN {"malformed"} ELSE {})
           \cup (IF LostResponses THEN TransportFailures ELSE {})

(* map_*_token_response: expires_in must be positive.                     *)
ExpiresInUnchecked(e) == TRUE
ExpiresInAccepted(e) == e > 0

(* The provider writes the scope parameter of its answer with its own     *)
(* delimiter, the one the descriptor declares.                             *)
EchoText(echo) == JoinWith(echo, Descriptor.quirks.scope_delimiter)

(* response.scopes(): the scope parameter as the oauth2 crate reads it,   *)
(* split at every ' ' whatever the provider's delimiter.                   *)
ParsedEcho == [echo \in ScopeEchoes \ {NoScope} |-> SplitOn(EchoText(echo), Space)]

(* map_*_token_response: the ScopeSet built from the echoed pieces must   *)
(* equal the requested one, else ScopesChanged (or ScopeValidationError).  *)
ScopesAccepted(echo, requested) ==
    echo = NoScope \/ SameScopeSet(ParsedEcho[echo], requested)

(* ScopesAccepted for every echo and every scope list a caller requests,  *)
(* computed once (a caller's scope list is RequestedScope or one of       *)
(* RequestScopes, see TypeOK).                                            *)
EchoAccepted ==
    [p \in ScopeEchoes \X (RequestScopes \cup {RequestedScope}) |-> ScopesAccepted(p[1], p[2])]

Failed(kind) == [kind |-> kind, record |-> NoRecord]

(* map_request_error for a failed request, by the failure's class:        *)
(* RequestTokenError::Parse and ::Other, and the HttpClientError variants  *)
(* ReqwestTransportErrorMapper maps (map_reqwest_error for a reqwest       *)
(* error: builder, timeout, anything else such as connect or a body read). *)
(* None of them is classified by the strategy.                             *)
RequestErrorKind ==
    [parse |-> "transient", unexpected |-> "transient",
     builder |-> "config", timeout |-> "transient", connect |-> "transport",
     http |-> "config", io |-> "transport", other |-> "transient",
     unknown |-> "transient"]
RequestError(f) == Failed(RequestErrorKind[f])

(* The facade's result for a 2xx answer of kind k granting expires_in e    *)
(* and echoing scope list `echo`: an error carries no record.              *)
FacadeResult(k, e, echo, req, rec) ==
    LET kind == IF k = "ok" /\ ~(ExpiresInAccepted(e) /\ EchoAccepted[<<echo, req>>])
                THEN "malformed" ELSE k IN
    [kind |-> kind, record |-> IF kind = "ok" THEN rec ELSE NoRecord]

(* The facade's result for a processed request: a lost answer fails with  *)
(* its RequestErrorKind before any normalization.                          *)
FacadeAnswer(k, e, echo, req, rec) ==
    IF k \in DOMAIN RequestErrorKind THEN RequestError(k)
    ELSE FacadeResult(k, e, echo, req, rec)

(* map_server_response_error: the strategy classifies the error response  *)
(* (error, error_description, status; no body preview, no network flag)   *)
(* and the ProviderErrorKind picks the broker Error.                       *)
BrokerErrorOf ==
    [InvalidGrant |-> "invalid_grant", InvalidClient |-> "invalid_client",
     InsufficientScope |-> "insufficient_scope", Transient |-> "transient"]
(* The status map_server_response_error reads from the ResponseMetadataSlot: *)
(* InstrumentedHandle::call empties the request's own slot, then stores   *)
(* the response's status before reading the body.                          *)
MetaStatus(a) == a.status

ServerResponseError(a) ==
    Failed(BrokerErrorOf[ClassifyTokenError(
               Context(FALSE, a.error, a.desc, NoText, MetaStatus(a)))])

(* BasicFacade::refresh_token and map_refresh_token_response: the token    *)
(* endpoint processes grant_type=refresh_token with the expected secret.   *)
TokenEndpointRefresh(c) ==
    /\ pc[c] = "call" /\ flow[c] = "refresh"
    /\ \/ /\ expected[c] \in valid
          /\ minted < MaxMint
          /\ \E e \in ExpiresIn, rotate \in BOOLEAN, kind \in SuccessKinds,
               echo \in ScopeEchoes :
               LET n == minted + 1 IN
               /\ minted' = n
               /\ valid' = IF rotate THEN Rotate(expected[c], n) ELSE valid
               /\ rotatedAway' = IF rotate /\ StrictRotation
                                 THEN rotatedAway \cup {expected[c]}
                                 ELSE rotatedAway
               /\ resp' = [resp EXCEPT ![c] = FacadeAnswer(kind, e, echo, scope[c],
                     BuildRecord(n, IF rotate THEN n ELSE NoSecret, now, e))]
       \/ /\ expected[c] \notin valid
          /\ \E a \in RejectedAnswers : resp' = [resp EXCEPT ![c] = ServerResponseError(a)]
          /\ UNCHANGED providerVars
       \/ /\ \E a \in TransientAnswers : resp' = [resp EXCEPT ![c] = ServerResponseError(a)]
          /\ UNCHANGED providerVars
    /\ pc' = [pc EXCEPT ![c] = "respond"]
    /\ UNCHANGED <<loginVars, now, store, holder, flow, force, scope, expected, updated, calls,
                   metricVars>>

(* BasicFacade::exchange_client_credentials and map_standard_token_response: *)
(* the record never carries a refresh secret.                              *)
TokenEndpointClientCredentials(c) ==
    /\ pc[c] = "call" /\ flow[c] = "client_credentials"
    /\ \/ /\ minted < MaxMint
          /\ \E e \in ExpiresIn, kind \in SuccessKinds, echo \in ScopeEchoes :
               /\ minted' = minted + 1
               /\ resp' = [resp EXCEPT ![c] = FacadeAnswer(kind, e, echo, scope[c],
                     BuildRecord(minted + 1, NoSecret, now, e))]
       \/ /\ \E a \in TransientAnswers : resp' = [resp EXCEPT ![c] = ServerResponseError(a)]
          /\ UNCHANGED minted
    /\ pc' = [pc EXCEPT ![c] = "respond"]
    /\ UNCHANGED <<loginVars, now, store, valid, rotatedAway, holder, flow, force, scope,
                   expected, updated, calls, metricVars>>

(* BasicFacade::exchange_authorization_code and its normalization: the    *)
(* endpoint redeems the code and opens a new grant whose refresh secret it *)
(* accepts from then on, or rejects the code (expired, already used).      *)
TokenEndpointAuthorizationCode(c) ==
    /\ pc[c] = "call" /\ flow[c] = "authorization_code"
    /\ \/ /\ minted < MaxMint /\ code[c] \notin redeemed /\ PkceVerified(c)
          /\ redeemed' = redeemed \cup {code[c]}
          /\ \E e \in ExpiresIn, kind \in SuccessKinds, echo \in ScopeEchoes :
               LET n == minted + 1 IN
               /\ minted' = n
               /\ valid' = valid \cup {n}
               /\ resp' = [resp EXCEPT ![c] = FacadeAnswer(kind, e, echo, scope[c],
                     BuildRecord(n, n, now, e))]
       \/ /\ \E a \in RejectedAnswers \cup TransientAnswers :
               resp' = [resp EXCEPT ![c] = ServerResponseError(a)]
          /\ UNCHANGED <<valid, minted, redeemed>>
    /\ pc' = [pc EXCEPT ![c] = "respond"]
    /\ UNCHANGED <<sessions, started, codes, redirects, authorizeUrl, code, verifier, now,
                   store, rotatedAway, holder, flow, force, scope, expected, updated, calls,
                   metricVars>>

(* exchange_code after the facade returns: on success save the record     *)
(* before returning it.  No guard to release, no metric.                   *)
AuthorizationCodeHandleResponse(c) ==
    /\ pc[c] = "respond" /\ flow[c] = "authorization_code"
    /\ store' = IF resp[c].kind = "ok" THEN resp[c].record ELSE store
    /\ pc' = [pc EXCEPT ![c] = "idle"]
    /\ UNCHANGED <<loginVars, now, providerVars, holder, flow, force, scope, expected, resp,
                   updated, calls, metricVars>>

(* refresh_access_token after the facade returns: best-effort revoke on    *)
(* InvalidGrant/Revoked, carry-over of the old refresh secret, then        *)
(* compare_and_swap_refresh and its Updated / Missing branches.            *)
RefreshHandleResponse(c) ==
    /\ pc[c] = "respond" /\ flow[c] = "refresh"
    /\ \/ /\ resp[c].kind \notin {"none", "ok"}
          /\ store' = IF RevokeOnError(resp[c].kind) THEN RevokeNow(store) ELSE store
          /\ Finish(c, "failure")
          /\ UNCHANGED updated
       \/ /\ resp[c].kind = "ok"
          /\ LET upd == CarryOver(resp[c].record, expected[c])
                 outcome == CasOutcome(store, expected[c]) IN
             IF outcome = "RefreshMismatch"
             THEN /\ pc' = [pc EXCEPT ![c] = "refetch"]
                  /\ updated' = [updated EXCEPT ![c] = upd]
                  /\ UNCHANGED <<store, holder, metricVars>>
             ELSE /\ store' = upd
                  /\ Finish(c, "success")
                  /\ UNCHANGED updated
    /\ UNCHANGED <<loginVars, now, providerVars, flow, force, scope, expected, resp, calls>>

RefreshRefetchUnrecorded(c) ==
    /\ pc[c] = "refetch"
    /\ store' = IF store = NoRecord THEN updated[c] ELSE store
    /\ pc' = [pc EXCEPT ![c] = "idle"]
    /\ holder' = [holder EXCEPT ![BrokerOf[c]] = NoCaller]
    /\ UNCHANGED <<loginVars, now, providerVars, flow, force, scope, expected, resp, updated,
                   calls, metricVars>>
(* The RefreshMismatch branch: re-fetch, return the record found or save.  *)
RefreshRefetch(c) ==
    /\ pc[c] = "refetch"
    /\ store' = IF store = NoRecord THEN updated[c] ELSE store
    /\ Finish(c, "success")
    /\ UNCHANGED <<loginVars, now, providerVars, flow, force, scope, expected, resp, updated, calls>>

(* client_credentials after the facade returns: save on success.           *)
ClientCredentialsHandleResponse(c) ==
    /\ pc[c] = "respond" /\ flow[c] = "client_credentials"
    /\ \/ /\ resp[c].kind = "ok"
          /\ store' = resp[c].record
          /\ Finish(c, "success")
       \/ /\ resp[c].kind # "ok"
          /\ Finish(c, "failure")
          /\ UNCHANGED store
    /\ UNCHANGED <<loginVars, now, providerVars, flow, force, scope, expected, resp, updated, calls>>

(* The caller drops the flow's future at an await point; the guard's       *)
(* MutexGuard is dropped with it.  No metric is recorded.                  *)
CancelLeaksGuard(c) ==
    /\ Cancellable
    /\ pc[c] \in {"lock", "call", "respond"}
    /\ pc' = [pc EXCEPT ![c] = "idle"]
    /\ UNCHANGED <<loginVars, now, store, providerVars, holder, flow, force, scope, expected,
                   resp, updated, calls, metricVars>>
Cancel(c) ==
    /\ Cancellable
    /\ pc[c] \in {"lock", "call", "respond"}
    /\ pc' = [pc EXCEPT ![c] = "idle"]
    /\ holder' = IF holder[BrokerOf[c]] = c
                 THEN [holder EXCEPT ![BrokerOf[c]] = NoCaller] ELSE holder
    /\ UNCHANGED <<loginVars, now, store, providerVars, flow, force, scope, expected, resp,
                   updated, calls, metricVars>>

(* The resource owner revokes the grant at the provider.                   *)
ProviderRevokeGrant ==
    /\ valid # {}
    /\ valid' = {}
    /\ UNCHANGED <<loginVars, now, store, rotatedAway, minted, holder, pc, flow, force, scope,
                   expected, resp, updated, calls, metricVars>>

Tick ==
    /\ now < MaxTime
    /\ now' = now + 1
    /\ UNCHANGED <<loginVars, store, providerVars, holder, pc, flow, force, scope, expected,
                   resp, updated, calls, metricVars>>

(* Every caller has made its calls and the clock is at its bound.          *)
Terminated ==
    /\ \A c \in Callers : pc[c] = "idle" /\ calls[c] = MaxCalls
    /\ now = MaxTime
    /\ UNCHANGED vars

CallerStep(c) ==
    \/ RefreshLockAndFetch(c)
    \/ ClientCredentialsLockAndFetch(c)
    \/ TokenEndpointRefresh(c)
    \/ TokenEndpointClientCredentials(c)
    \/ RefreshHandleResponse(c)
    \/ RefreshRefetch(c)
    \/ ClientCredentialsHandleResponse(c)
    \/ TokenEndpointAuthorizationCode(c)
    \/ AuthorizationCodeHandleResponse(c)

Next ==
    \/ \E c \in Callers : Start(c) \/ CallerStep(c) \/ Cancel(c)
    \/ \E c \in Callers : StartAuthorization(c) \/ HandleRedirect(c)
    \/ \E i \in DOMAIN redirects : ProviderAuthorize(i)
    \/ ProviderRevokeGrant
    \/ Tick
    \/ Terminated

(* A task that is polled keeps running: every step of a started call is   *)
(* weakly fair, and waiting on the guard is strongly fair (async-lock's    *)
(* Mutex hands the lock to starved waiters).  The token endpoint answers   *)
(* eventually.  Starting a call, cancelling and the clock are not fair.    *)
Fairness ==
    \A c \in Callers :
        /\ SF_vars(RefreshLockAndFetch(c) \/ ClientCredentialsLockAndFetch(c))
        /\ WF_vars(TokenEndpointRefresh(c) \/ TokenEndpointClientCredentials(c)
                   \/ TokenEndpointAuthorizationCode(c))
        /\ WF_vars(RefreshHandleResponse(c) \/ RefreshRefetch(c)
                   \/ ClientCredentialsHandleResponse(c)
                   \/ AuthorizationCodeHandleResponse(c))

Spec == Init /\ [][Next]_vars
FairSpec == Spec /\ Fairness

-----------------------------------------------------------------------------
(***************************************************************************)
(* Properties                                                              *)
(***************************************************************************)

TypeOK ==
    /\ now \in 0..MaxTime
    /\ store \in Record \cup {NoRecord}
    /\ valid \subseteq Secrets /\ rotatedAway \subseteq Secrets
    /\ minted \in Secrets
    /\ holder \in [Brokers -> Callers \cup {NoCaller}]
    /\ pc \in [Callers -> {"idle", "lock", "call", "respond", "refetch"}]
    /\ flow \in [Callers -> Flows] /\ force \in [Callers -> BOOLEAN]
    /\ scope \in [Callers -> RequestScopes \cup {RequestedScope}]
    /\ expected \in [Callers -> Secrets \cup {NoSecret}]
    /\ resp \in [Callers -> [kind: RespKind, record: Record \cup {NoRecord}]]
    /\ updated \in [Callers -> Record \cup {NoRecord}]
    /\ calls \in [Callers -> 0..MaxCalls]
    /\ started \in 0..MaxSessions
    /\ sessions \subseteq [state: 1..started, scope: RequestScopes,
                           pkce: [verifier: Nat, challenge: [s256: Nat], method: {"S256"}]]
    /\ Len(authorizeUrl) = started
    /\ codes \subseteq 1..started /\ redeemed \subseteq codes
    /\ redirects \in [1..MaxSessions -> 0..1]
    /\ code \in [Callers -> 0..MaxSessions] /\ verifier \in [Callers -> 0..MaxSessions]
    /\ \A m \in {attempts, successes, failures} : m \in [Brokers -> Nat]

(* The family is kept: while the provider still honours the grant, the    *)
(* stored, unrevoked record holds a refresh secret the provider accepts,   *)
(* except while the caller that rotated it is still on its way to the CAS, *)
(* or an exchange_code that opened a new grant is on its way to the save.  *)
(* This is what refresh_access_token's carry-over and CAS must preserve.   *)
FamilyKept ==
    (valid # {} /\ store # NoRecord /\ ~store.revoked) =>
        \/ store.refresh \in valid
        \/ \E c \in Callers :
              /\ pc[c] = "respond"
              /\ \/ flow[c] = "refresh" /\ expected[c] = store.refresh
                 \/ flow[c] = "authorization_code"

(* A refresh secret that the provider has rotated away is never presented *)
(* again: refresh_access_token under the singleflight guard always reads  *)
(* the latest secret from the store before calling the token endpoint.     *)
(* Real providers treat such a replay as token theft.                      *)
NoRefreshReplay ==
    [][\A c \in Callers :
         (pc[c] = "call" /\ pc'[c] = "respond" /\ flow[c] = "refresh")
             => expected[c] \notin rotatedAway]_vars

(* The best-effort revoke after InvalidGrant only ever marks revoked a     *)
(* record whose refresh secret the provider no longer accepts.            *)
RevokeOnlyRejected ==
    (store # NoRecord /\ store.revoked) => store.refresh \notin valid

(* A non-forced call never goes to the token endpoint when the store holds *)
(* an unrevoked record that a flow obtained from the token endpoint at     *)
(* this very instant (access secret # 0, the seed's): concurrent callers   *)
(* queued on the singleflight guard reuse the leader's record.             *)
FreshRecordReused ==
    [][\A c \in Callers :
         (pc[c] = "lock" /\ pc'[c] = "call" /\ ~force[c]
          /\ store # NoRecord /\ ~store.revoked /\ store.access # 0)
             => store.issued < now]_vars

(* Refinement mapping onto AtomicRefresh.  A refresh call takes effect    *)
(* where the provider processes its request: from then until its guard is *)
(* released, the abstract store is the record the call will leave behind  *)
(* (the CAS result with carry-over, the revoke, or the re-fetched record). *)
InFlight == {c \in Callers : flow[c] = "refresh" /\ pc[c] \in {"respond", "refetch"}}

StoreOnceSettled(c) ==
    CASE pc[c] = "refetch" -> IF store = NoRecord THEN updated[c] ELSE store
      [] resp[c].kind = "ok" ->
            IF CasOutcome(store, expected[c]) = "RefreshMismatch" THEN store
            ELSE CarryOver(resp[c].record, expected[c])
      [] OTHER -> IF RevokeOnError(resp[c].kind) THEN RevokeNow(store) ELSE store

AbstractRecord(r) ==
    IF r = NoRecord THEN NoRecord ELSE [refresh |-> r.refresh, revoked |-> r.revoked]

AbstractStore ==
    AbstractRecord(IF InFlight = {} THEN store
                   ELSE StoreOnceSettled(CHOOSE c \in InFlight : TRUE))

Atomic == INSTANCE AtomicRefresh WITH store <- AbstractStore

(* On one broker, refresh_access_token implements AtomicRefresh: the       *)
(* singleflight guard, the re-read of the store under it and the CAS make *)
(* each refresh one atomic exchange of the stored secret, and the revoke  *)
(* after InvalidGrant only ever hits a record whose secret was refused.   *)
RefreshIsAtomic == Atomic!Spec

(* The StoreKey of the modelled entry: the one the stored record was      *)
(* saved under.                                                            *)
EntryKey == StoreKeyOf(Family, Normalize(RequestedScope))

(* Callers that ask for the same scopes, in any order and with repeats,    *)
(* compute the one StoreKey (StoreKey::new over ScopeSet::fingerprint), so *)
(* they share the cached record and the singleflight guard that           *)
(* flow_guard keys by StoreKey.  Were the fingerprint order-sensitive,     *)
(* two such callers would refresh the family side by side.                 *)
OneKeyPerScopeSet ==
    \A c \in Callers :
        pc[c] # "idle" => StoreKeyOf(Family, Normalize(scope[c])) = EntryKey

(* RefreshMetrics stays balanced: every refresh_access_token that recorded *)
(* an attempt records exactly one success or failure when it returns.      *)
MetricsBalanced ==
    \A b \in Brokers :
        attempts[b] = successes[b] + failures[b]
          + Cardinality({c \in Callers : BrokerOf[c] = b /\ pc[c] # "idle"
                                         /\ flow[c] = "refresh"})

(* Every call that starts eventually returns to its caller.                *)
CallsComplete == \A c \in Callers : pc[c] # "idle" ~> pc[c] = "idle"

=============================================================================
