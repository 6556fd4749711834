------------------------- MODULE ProviderDescriptor -------------------------
(***************************************************************************)
(* ProviderDescriptorBuilder and ProviderDescriptor::validate              *)
(* (src/provider/descriptor/builder.rs, grant.rs, quirks.rs) as operators  *)
(* on records.  An endpoint URL is abstracted to its scheme, or NoUrl when *)
(* it was never set; a character is a small integer as in ScopeSet, with   *)
(* Space standing for ' ' and negative values for control characters.      *)
(***************************************************************************)
EXTENDS Integers, ScopeSet

NoUrl == "none"

Grants == {"authorization_code", "refresh", "client_credentials"}

(* ProviderQuirks::default: PKCE optional, exact redirect match, a space  *)
(* joins the scopes.                                                       *)
DefaultQuirks ==
    [pkce_required |-> FALSE, exact_redirect_match |-> TRUE, scope_delimiter |-> Space]

(* ProviderDescriptorBuilder::new: no endpoint, SupportedGrants::default  *)
(* (nothing enabled), ClientAuthMethod::default (client_secret_basic).    *)
NewBuilder ==
    [authorization |-> NoUrl, token |-> NoUrl, revocation |-> NoUrl,
     grants |-> {}, method |-> "client_secret_basic", quirks |-> DefaultQuirks]

(* The setters: each overwrites one field of the builder.                  *)
SetEndpoints(b, auth, token, revocation) ==
    [b EXCEPT !.authorization = auth, !.token = token, !.revocation = revocation]

(* support_grants: SupportedGrants::enable for each grant, one flag each. *)
SupportGrants(b, grants) == [b EXCEPT !.grants = @ \cup grants]

SetClientAuthMethod(b, m) == [b EXCEPT !.method = m]

SetQuirks(b, q) == [b EXCEPT !.quirks = q]

(* validate_endpoint: the URL's scheme must be https.                      *)
EndpointOk(url) == url = "https"

(* validate_scope_delimiter: char::is_control is refused.                  *)
IsControl(ch) == ch < 0

(* ProviderDescriptor::validate: the first failing rule, in code order.    *)
Validate(d) ==
    CASE d.grants = {}                                          -> "NoSupportedGrants"
      [] d.quirks.pkce_required /\ "authorization_code" \notin d.grants
                                       -> "PkceRequiredWithoutAuthorizationCode"
      [] ~EndpointOk(d.authorization)                           -> "InsecureEndpoint"
      [] ~EndpointOk(d.token)                                   -> "InsecureEndpoint"
      [] d.revocation # NoUrl /\ ~EndpointOk(d.revocation)      -> "InsecureEndpoint"
      [] IsControl(d.quirks.scope_delimiter)                    -> "InvalidScopeDelimiter"
      [] OTHER                                                  -> "ok"

(* ProviderDescriptorBuilder::build: both endpoints are required, then the *)
(* descriptor is validated.                                                *)
Build(b) ==
    CASE b.authorization = NoUrl -> "MissingAuthorizationEndpoint"
      [] b.token = NoUrl         -> "MissingTokenEndpoint"
      [] OTHER                   -> Validate(b)

=============================================================================
