# TLA+ models of oauth2-broker

These modules model the `oauth2-broker` crate (`src/`). The crate caches OAuth 2.0 tokens per (tenant, principal, provider, scope) and refreshes them against a provider whose token endpoint rotates refresh secrets. The models cover:

- the broker's flows (`refresh_access_token`, `client_credentials`, and the login `exchange_code`) running concurrently on one or more brokers that share a store;
- the authorization-code handshake of `examples/start_authorization.rs`: the session with its PKCE pair and authorize URL, stashed under its state, the provider's redirect and the callback that removes and validates the session and calls `exchange_code`;
- the descriptor builder's validation and the scope delimiter it allows;
- an abstract specification of the refresh flow (`AtomicRefresh`), which one broker is shown to implement;
- the facade's normalization and error mapping, with the provider strategy's error classifier;
- scope-set normalization, the scope fingerprint and the StoreKey built from it;
- the `BrokerStore` operations and the failure and crash behaviour of `FileStore`.

`PROJECT.json` lists every component, run, mutant, source mapping, finding and hazard.

## The system

| Part | Source | State | Interacts with |
|---|---|---|---|
| Cached flows | `flows/refresh.rs`, `flows/client_credentials.rs` | per call: its position between awaits, the expected refresh secret | guard registry, store, facade, metrics |
| Freshness and singleflight registry | `flows/common.rs` | `flow_guards`: one async mutex per StoreKey, never evicted | flows |
| Refresh metrics | `flows/refresh/metrics.rs` | attempts, success and failure counters | refresh flow |
| Store contract, MemoryStore | `store.rs`, `store/memory.rs` | `RwLock<HashMap<StoreKey, TokenRecord>>` | flows |
| FileStore | `store/file.rs` | the in-memory map plus a JSON file rewritten by temp-write, `sync_all` and `rename` | flows |
| Token facade | `oauth.rs` | none (per call) | transport, strategy |
| Provider strategy | `provider/strategy.rs` | none; classifies token-endpoint errors | facade |
| HTTP transport | `http.rs` | a `ResponseMetadataSlot` per request | facade |
| Descriptor | `provider/descriptor*` | immutable configuration | flows |
| Token record, scopes | `auth/token/record.rs`, `auth/scope.rs` | records, normalized scope sets | everyone |
| Auth-code session | `flows/auth_code_pkce/session.rs` (the flow itself is not under `src/`), `examples/start_authorization.rs` | state, PKCE pair; the application's session stash | `exchange_code` |
| Identifiers | `auth/id.rs` | none; `TenantId`, `PrincipalId`, `ProviderId` validate their string on construction and on load | store keys, FileStore snapshots |
| Broker construction | `flows.rs` | a fresh guard registry and metrics per broker | flows |

**What makes the system hard:**
- Within one broker, concurrent calls for one StoreKey are serialized only by an async guard.
- Across brokers, and for `exchange_code`, which takes no guard, only the store's compare-and-swap protects the rotation of the refresh secret.
- Every refresh failure classified InvalidGrant triggers a best-effort revoke of whatever record is stored.
- A caller may drop its future at any await.
- The transport may lose an answer that the provider has already processed.
- The facade may reject a 2xx answer after the provider has already rotated.
- FileStore's persistence can fail, crash or lose power between steps.

## Modules

**`BrokerFlows.tla`** models the flows on one StoreKey.
- *Constants* set the callers, the brokers and `BrokerOf`, the flows callers run (`Flows`), the grants the descriptor enables (`SupportedGrants`), the callers that may log in, the preemptive window and jitter seed, the endpoint's possible answers, the faults that are possible, and the bounds.
- *Variables:*
  - `store`: the MemoryStore entry.
  - `valid`, `rotatedAway`, `minted`: the endpoint's view of the grant.
  - `holder`: each broker's guard.
  - Per caller: `pc`, `flow`, `force`, `scope` (the request's scope list), `expected`, `resp`, `updated`, `calls`, `code`.
  - The RefreshMetrics counters.
  - The login: the application's `sessions` stash, `started`, `authorizeUrl[i]` (the query pairs of session i's authorize URL), the provider's issued `codes` and `redeemed` codes, `redirects[i]` (1 while the redirect of session i is on its way), and per caller the `code` and PKCE `verifier` being exchanged.
- *Init* is `BrokerInit` (`Broker::with_http_client`: no guard held, zero metrics) plus the store's seed record.
- *Control points.* A caller's `pc` values are the code's suspension points: `lock` (`guard.lock().await`), `call`, `respond` (the endpoint has processed the request and the answer is on its way back) and `refetch` (after RefreshMismatch). MemoryStore futures complete on their first poll, so a store operation and the synchronous code after it form one step.
- *Actions:*

| Action | Code |
|---|---|
| `Start` | entry of `refresh_access_token`/`client_credentials`, with the caller's scope list: `ensure_*_supported` (UnsupportedGrant ends the call before any metric or guard), `record_attempt`, `flow_guard` (refresh.rs 34–56) |
| `RefreshLockAndFetch` | guard, `fetch`, and the no-record, fresh and no-refresh-secret early returns (refresh.rs 56–87) |
| `ClientCredentialsLockAndFetch` | guard, `fetch().filter(!should_refresh)` (client_credentials.rs 33–64) |
| `TokenEndpointRefresh`, `…ClientCredentials`, `…AuthorizationCode` | the provider processes the request, then the facade maps the answer. The provider redeems a code only once, and only with the verifier whose S256 challenge its authorize URL carried (RFC 7636 4.6). A 2xx answer goes through `FacadeResult` (`expires_in > 0`, scope set unchanged). An OAuth error goes through `ServerResponseError` (the strategy's classifier). A lost answer goes through `RequestError` (the transport mapper). oauth.rs 176–529 |
| `RefreshHandleResponse` | revoke on InvalidGrant/Revoked, carry-over, CAS, Updated and Missing branches, metrics (refresh.rs 88–192) |
| `RefreshRefetch` | the RefreshMismatch branch (refresh.rs 169–188) |
| `ClientCredentialsHandleResponse` | unconditional `save` (client_credentials.rs 65–113) |
| `AuthorizationCodeHandleResponse` | `exchange_code`'s save, modelled from the spec (no guard, no metric) |
| `StartAuthorization` | `start_authorization` (spec) and `build_session`: a fresh state, a fresh PKCE pair (`PkceGenerate`, `ComputePkceChallenge`) and the requested scope; `build_authorize_url` records the query pairs the provider reads (state, challenge, and the scope pair from `format_scope` with the descriptor's delimiter); the example stashes the session by state (example lines 29–46) |
| `ProviderAuthorize` | the environment: the user approves, the provider issues code i for the authorize URL of session i and redirects once |
| `HandleRedirect` | the application's callback: the example's lookup (lines 48–57: `sessions.remove(&state)`, `validate_state`), then the `exchange_code` call the example leaves to the callback (line 57), with the session's scope and verifier (`into_exchange_parts`). The redirect always names a stashed session, so the example's "not recognized" branch is not reached |
| `Cancel` | the future is dropped at an await: the guard is released and no metric is recorded |
| `ProviderRevokeGrant`, `Tick` | the environment: the grant is revoked upstream; the clock advances |

- *Record contents.* Secrets are small integers: the n-th mint. `revoked_at` is a flag, because the code only reads `is_some()`.
- *Descriptor.* The broker's descriptor is built by `ProviderDescriptor`'s builder from https endpoints, the configured grants and the configured `ScopeDelimiter`; an `ASSUME` requires `build()` to accept it.
- *Randomness.* `random_string` is abstracted to a fresh value per session: state i and verifier i. SHA-256 is taken to be collision-free, so a challenge is identified by its verifier.

**`AtomicRefresh.tla`** is the abstract specification of what `refresh_access_token` promises on one StoreKey: each refresh is one atomic step. The stored secret is exchanged and the store moves straight to the answer, or a refused secret gets the record revoked. Its state is the stored record (refresh secret and revoked flag), the provider's valid secrets and the mint counter. `BrokerFlows` instantiates it with `store <- AbstractStore`:
- The linearization point of a refresh call is the token endpoint's step.
- From then until the call releases its guard, `AbstractStore` is the record the call will leave behind: the CAS result with carry-over, the revoke, or the re-fetched record.
- Every other step of the broker is a stuttering step of `AtomicRefresh`.

**`ProviderDescriptor.tla`** models `ProviderDescriptorBuilder` (`new`, the setters, `support_grants`, `build`) and `ProviderDescriptor::validate` with `validate_endpoint` and `validate_scope_delimiter`, as operators on records. An endpoint is abstracted to its scheme, and control characters to negative character codes.

**`ProviderStrategy.tla`** models `classify_token_error` as pure operators:
- The precedence is: network error, exact `error`, exact description, description substrings, body-preview substrings, then the status fallback.
- A string is abstracted to the classifier tokens it equals or contains.
- `BrokerFlows` classifies every OAuth error response with it. The facade never fills the body preview, and it takes the status from the metadata slot.

**`ScopeSet.tla`** models `normalize` and the StoreKey:
- The first empty or whitespace-containing entry fails.
- Otherwise the entries are put through a `BTreeSet`, which sorts and deduplicates them.
- Equality compares the sorted sequences.
- The facade's ScopesChanged check uses it on every 2xx answer.
- A scope is a sequence of characters (small integers, 0 standing for whitespace), ordered as `String`'s `Ord` orders them.
- `FormatScope` is `format_scope` (`flows/common.rs`): nothing for an empty set, `normalized()` for a space, else the scopes joined by the delimiter.
- `ScopesAccepted` (in `BrokerFlows`) reads the scope parameter of a 2xx answer as the oauth2 crate deserializes it, split at every `' '`, while the provider writes it with the delimiter the descriptor declares (`EchoText`).
- `Joined` is `normalized()` (`join(" ")`), `ComputeFingerprint` the SHA-256 of it, taken to be collision-free so that a digest is identified by its text, and `StoreKeyOf` is `StoreKey::new`.

**`Identifiers.tla`** models the `def_id!` constructors of `auth/id.rs` (`new`, `TryFrom<String>`, which serde uses when a FileStore snapshot is loaded, and `FromStr`) and `validate_view`:
- A string is abstracted to the bag of its Unicode scalar values. `validate_view` checks emptiness, then `char::is_whitespace`, then the length, and none of these depends on character order.
- `ByteLen` is `str::len`: the sum of the UTF-8 widths of the characters (`MapThenSumSet` over the bag).
- `SpecAccepts` is the specification's rule (§3): non-empty, no whitespace, at most 128 characters (`BagCardinality`).
- Each action records the last call and the identifiers made so far.

**`StoreContract.tla`** is the abstract `BrokerStore`: every mutation of one key is one atomic step. `FileStore` takes the operations' outcomes from it.

**`FileStore.tla`** models `FileStore`:
- Every step of `persist_locked` (create, write, `sync_all`, `rename`), each of which may fail.
- Process kills and power loss.
- The file system's metadata writeback, since the directory is never fsynced.
- Without crashes its mutations are the contract's steps written out, so no refinement is checked; the properties compare the map and the file with what the callers were told.

`MC_BrokerFlows.tla`, `MC_FileStore.tla` and `MC_Identifiers.tla` supply the model values and answer sets.

## Runs

The BrokerFlows runs use a window W = 4 and a jitter seed of 5, so the jitter is 1 and the effective window is 3. `SeedExpiry = {2}` makes the seeded record due for refresh at time 0. The endpoint rejects a dead secret with `invalid_grant`/400. It may also be unavailable, answering `temporarily_unavailable`/400, `server_error`/503, or `invalid_request` with a description asking to retry.

| Run | Expect | Checks | States | What it shows |
|---|---|---|---|---|
| main | pass | FamilyKept, RevokeOnlyRejected, MetricsBalanced, NoRefreshReplay, FreshRecordReused, RefreshIsAtomic | 1,281,033 | Setup: 3 callers, 1 broker, strict rotation, 2 calls each. The guard plus the re-fetch under it means no secret is replayed, the stored secret stays live, only dead records are revoked, and a just-minted record is reused. Scope echoes are reordered or duplicated. The broker implements `AtomicRefresh`. Takes about 1½ minutes. |
| faults | pass | TypeOK, RevokeOnlyRejected, CallsComplete, FreshRecordReused, OneKeyPerScopeSet | 268,948 | Setup: both flows, with cancellation, malformed 2xx answers and lost answers (timeout, reset, unparsable body); callers list the scopes in either order, with a repeat. Still, one broker only revokes dead records, every call returns, and every caller computes the one StoreKey. |
| two_brokers | pass | FamilyKept, MetricsBalanced | 357,104 | Setup: two brokers, a lenient provider, a login by one caller whose `exchange_code` saves without the guard, and an unsupported `client_credentials` call. The CAS loser re-reads and returns the winner's (or the login's) record, the family stays live, and the metrics balance. |
| cross_broker | violation | RevokeOnlyRejected | – | The loser of a cross-broker race revokes the winner's record (refresh.rs:110). |
| cancel | violation | FamilyKept | – | Cancelling after the rotation leaves a dead secret stored. Spec §5 says upstream state is unaffected. |
| malformed | violation | FamilyKept | – | A narrowed scope echo after rotation (ScopesChanged) drops the only live secret. |
| short_ttl | violation | FreshRecordReused | – | When `expires_in` is no more than the effective window, every queued follower refreshes again. |
| file_contract | pass | AckedPersisted | 40,385 | With process kills and failing persist steps, every Ok mutation is in the file: each failing step returns Err before the acknowledgement. |
| file_crash | pass | SnapshotComplete | 68,720 | Temp-write, sync and rename never leave a torn or empty store file. |
| file_power_ack | violation | AckedPersisted | – | A power loss before the writeback of the rename restores the old file after an Ok. |
| file_rollback | violation | FetchSeesOnlyAcked | – | Save, then `File::create` fails: the caller gets Err, but the map already holds the new record and every later fetch returns it (until a restart reloads the old file). |
| identifier_length | violation | IdentifierRuleHonoured | – | Inputs: ASCII, `é`, `€` and an emoji, 64, 128 and 129 times, plus an empty string and one with a no-break space. 128 copies of `é` (256 bytes) are refused with TooLong, which the specification says is accepted. |

**Bounds.**
- Three callers give a leader and two queued followers.
- Two calls per caller let a caller return after a rotation.
- Three mints allow the rotation chain R0→R1→R2.
- A clock of 0..2 covers "same instant", "later" and the expiry of the seeded record at time 2. A record minted at time 0 falls due at time 1, so `main` still has a refresh of a just-minted record.
- Two secrets suffice for FileStore's CAS to both match and mismatch.
- `CallerSymmetry` is used only by safety runs.
- The violation traces are found within a few hundred states.

**Fairness** (`FairSpec`, used by `faults`):
- The steps of a started call are weakly fair, because a polled task keeps running.
- Acquiring the guard is strongly fair: `async_lock::Mutex` hands the lock to starved waiters.
- The endpoint answering is weakly fair. This is an assumption, since reqwest has no default timeout; it is listed as a hazard.
- New calls, cancellation, the upstream revoke and the clock are not fair.

## Properties

- `FamilyKept`: while the grant is honoured, the stored unrevoked record holds an accepted refresh secret. The exception is while a rotator or a login is still on its way to the store.
- `NoRefreshReplay` (action): no request presents a rotated-away secret.
- `RevokeOnlyRejected`: a revoked stored record never holds a live secret. It depends on the classifier's precedence: a 400 `temporarily_unavailable` must not become InvalidGrant.
- `MetricsBalanced`: attempts = successes + failures + the refresh calls in flight.
- `FreshRecordReused` (action): a non-forced call never goes upstream while a record minted at this instant is stored.
- `CallsComplete`: every started call returns.
- `OneKeyPerScopeSet`: every caller whose scope list names the requested scopes, in any order and with repeats, computes the StoreKey of the stored entry, and so shares its cache and guard. It rests on `normalize` sorting before the fingerprint hashes the joined text.
- `RefreshIsAtomic` (refinement): on one broker, `BrokerFlows` implements `AtomicRefresh` under the mapping above. It rests on the guard, the re-fetch under it and the CAS. Under the `cross_broker` and `cancel` configurations TLC finds it violated, at the same steps that break their invariants.
- `IdentifierRuleHonoured`: every identifier constructor accepts exactly the strings the specification's rule accepts. `validate_view` counts bytes while its own TooLong message and the specification count characters; an ASCII unit test cannot tell them apart.
- `TypeOK`: includes `issued < expires`, which only the facade's `expires_in > 0` check guarantees.
- `SnapshotComplete`, `AckedPersisted`: the FileStore properties described under Runs.
- `FetchSeesOnlyAcked`: between mutations, the map holds exactly the state of the last mutation that returned Ok. It is the contract a caller of a fallible store relies on, and the code breaks it (see Findings).

Every property of every passing run has a mutant in `PROJECT.json`. Each mutant is a plausible code bug under which TLC finds the property violated:
- a dropped guard (which also breaks `RefreshIsAtomic`);
- a dropped carry-over;
- a revoke on transient errors;
- the status checked before the OAuth error;
- an unsorted scope comparison (which also splits the StoreKey);
- a skipped `sync_all`;
- an ignored rename error;
- a sign slip in the window.

## Findings

- **Revoke of a live record** (`refresh.rs:110`): the revoke is not conditioned on the secret that failed. It is reached across brokers, and also on one broker when a re-login races a refresh holding a secret the provider has revoked.
- **Cancellation** drops a rotated secret.
- **ScopesChanged after a rotation** drops a rotated secret (the `malformed` trace). MissingExpiresIn and NonPositiveExpiresIn leave through the same `?` after the provider has rotated, but no run exercises them.
- **Short-TTL tokens** defeat the singleflight guard.
- **Identifier length** (`auth/id.rs:113`): `view.len()` is a byte count, so identifiers of 65 to 128 multi-byte characters are refused, against spec §3 ("exactly 128 characters succeeds").
- **FileStore** never fsyncs the directory, so a power loss can undo an Ok mutation (`file_power_ack`). A mutation whose persist fails returns Err but stays in the map (`file_rollback`).

## Not modelled, and the plan

- **Not modelled:**
  - `random_string` and the SHA-256/base64 encodings: a fresh value per session stands for the random text, and a hash is identified by its input. States are unique.
  - The client id, the redirect URI and the client authentication method. `BasicFacade::from_descriptor` only uses the method to configure the oauth2 client; no flow branches on it.
  - The scope text of the token requests. `client_credentials` formats the scope with the delimiter and then drops it; the facade's `add_scope` joins with a space. This divergence from the authorize URL is listed as a hazard.
  - `ScopeSet`'s `FromStr`, `Display` and serde, which no flow uses.
  - The Retry-After parser. Its `u64 as i64` cast is listed as a hazard.
  - `examples/custom_transport.rs`: a sequential demo whose mapper turns every transport failure into a transient error, a subset of the classes the reqwest mapper already produces in the model.
  - Redacting formatters (`Debug`/`Display` of secrets and records): text with no effect on control.
  - Observability (`obs/`): feature-gated spans and counters; the refresh flow's own RefreshMetrics are modelled.
  - The extension traits (`ext/`): trait declarations, data types and builders that nothing in the crate implements or calls.
  - `examples/x_authorization.rs`: an interactive program (stdin, a browser) running the same build_session, validate_state and exchange_code steps the login model already has, with a descriptor that requires PKCE.
  - The growth of `flow_guards`.
  - Two processes sharing one FileStore file.
- **Violations without a run.** The project is at its run cap, so these reproducible violations are described but not kept as runs:
  - A scope delimiter that occurs inside a requested scope makes `format_scope` write a text the provider splits into a different set (set `ScopeDelimiter = 1` in `MC_two_brokers.cfg` and compare the provider's split of `authorizeUrl` with the session's scope); the project keeps no property for it.
  - Any delimiter other than a space violates `FamilyKept` on the refresh path (set `ScopeDelimiter = 1` in `MC_main.cfg`): the provider echoes the two granted scopes joined by its delimiter, the oauth2 crate splits the echo at spaces only, the facade sees one unknown scope and reports ScopesChanged, and the rotated secret is lost.
- **The plan:**
  - Concurrent `exchange_code` saves. This is an ordering hazard with no property yet, because it needs a second login caller in its own run.
  - Checking the classifier against the specification's table, over bounded token sets.
  - `client_credentials` and refresh sharing one StoreKey.
  - A FileStore-backed variant of the flows.
