-------------------------- MODULE ProviderStrategy --------------------------
(***************************************************************************)
(* DefaultProviderStrategy::classify_token_error                          *)
(* (src/provider/strategy.rs): the pure classifier that maps a token      *)
(* endpoint failure to one of four ProviderErrorKinds.                    *)
(*                                                                         *)
(* A string is abstracted to what the classifier can tell about it: which *)
(* of the classifier's tokens it equals ignoring ASCII case ("exact", or   *)
(* "" for none) and which of them it contains once lowercased ("words").  *)
(* An absent Option<&str> and a string that mentions no token classify   *)
(* alike (match_exact_value and classify_body both yield None), so None   *)
(* is the text that mentions nothing.  An absent http_status is 0.         *)
(***************************************************************************)
EXTENDS Naturals
LOCAL INSTANCE SequencesExt

(* An exact token value (e.g. error = "invalid_grant"), and free text      *)
(* that mentions the given tokens somewhere.                               *)
Value(t) == [exact |-> t, words |-> {t}]
Prose(ws) == [exact |-> "", words |-> ws]
NoText == Prose({})
NoStatus == 0

(* ProviderErrorKind, plus "None" for the Option the helpers return.       *)
ErrorKind == {"InvalidGrant", "InvalidClient", "InsufficientScope", "Transient"}

(* ProviderErrorContext::new(grant) with the fields the facade fills in.   *)
Context(net, oauth, desc, body, status) ==
    [network |-> net, oauth |-> oauth, desc |-> desc, body |-> body,
     status |-> status]

(* match_exact_value: the branches are disjoint, so their order is free.   *)
ExactRules ==
    << [hit |-> {"invalid_grant", "access_denied"},           kind |-> "InvalidGrant"],
       [hit |-> {"invalid_client", "unauthorized_client"},    kind |-> "InvalidClient"],
       [hit |-> {"invalid_scope", "insufficient_scope"},      kind |-> "InsufficientScope"],
       [hit |-> {"temporarily_unavailable", "server_error"},  kind |-> "Transient"] >>

(* classify_body: the first arm whose substring occurs in the lowercased   *)
(* text wins.                                                              *)
BodyRules ==
    << [hit |-> {"invalid_grant"},                            kind |-> "InvalidGrant"],
       [hit |-> {"invalid_client"},                           kind |-> "InvalidClient"],
       [hit |-> {"insufficient_scope", "invalid_scope"},      kind |-> "InsufficientScope"],
       [hit |-> {"temporarily_unavailable", "retry"},         kind |-> "Transient"] >>

(* The kind of the first rule of `rules` that Hits the text, else "None". *)
FirstRule(rules, Hits(_)) ==
    LET i == SelectInSeq(rules, Hits) IN IF i = 0 THEN "None" ELSE rules[i].kind

MatchExactValue(t) == FirstRule(ExactRules, LAMBDA r : t.exact \in r.hit)

ClassifyBody(t) == FirstRule(BodyRules, LAMBDA r : r.hit \cap t.words # {})

(* Option::or_else: the first kind that is not None.                       *)
OrElse(k1, k2) == IF k1 # "None" THEN k1 ELSE k2

(* classify_oauth_error: exact error, exact description, then the         *)
(* description's substrings.                                               *)
ClassifyOAuthError(oauth, desc) ==
    OrElse(MatchExactValue(oauth), OrElse(MatchExactValue(desc), ClassifyBody(desc)))

(* classify_status: the fallback on the HTTP status.                       *)
ClassifyStatus(s) ==
    IF s \in {400, 404, 410} THEN "InvalidGrant"
    ELSE IF s = 401 THEN "InvalidClient"
    ELSE IF s = 403 THEN "InsufficientScope"
    ELSE "Transient"

ClassifyStatusFirst(ctx) ==
    IF ctx.network THEN "Transient"
    ELSE IF ctx.status # NoStatus THEN ClassifyStatus(ctx.status)
    ELSE OrElse(ClassifyOAuthError(ctx.oauth, ctx.desc), ClassifyBody(ctx.body))

(* classify_token_error: network failures first, then the OAuth fields,   *)
(* then the body preview, then the status.                                 *)
ClassifyTokenError(ctx) ==
    IF ctx.network THEN "Transient"
    ELSE OrElse(ClassifyOAuthError(ctx.oauth, ctx.desc),
                OrElse(ClassifyBody(ctx.body), ClassifyStatus(ctx.status)))

=============================================================================
