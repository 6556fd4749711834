--------------------------- MODULE MC_BrokerFlows ---------------------------
(* Model-checking instances of BrokerFlows: callers and brokers are model  *)
(* values; each .cfg picks the flows and the faults it lets happen.        *)
EXTENDS BrokerFlows, TLC

CONSTANTS c1, c2, c3, b1, b2

(* Every caller uses the same broker.                                      *)
OneBroker == [c \in Callers |-> b1]

(* c1 calls broker b1; the other callers call broker b2: two processes    *)
(* configured with the same store.                                         *)
TwoBrokers == [c \in Callers |-> IF c = c1 THEN b1 ELSE b2]

(* The endpoint's answer to a refresh secret it no longer accepts: RFC    *)
(* 6749 5.2, HTTP 400 with error=invalid_grant and a description that     *)
(* names none of the classifier's tokens ("Token has been expired or      *)
(* revoked.").                                                             *)
Rejected == {[error |-> Value("invalid_grant"), desc |-> NoText, status |-> 400]}

(* Answers of an endpoint that cannot serve the request right now:        *)
(* temporarily_unavailable with the RFC's HTTP 400, server_error with     *)
(* 503, and invalid_request with 400 whose description asks to retry.     *)
Unavailable ==
    {[error |-> Value("temporarily_unavailable"), desc |-> NoText, status |-> 400],
     [error |-> Value("server_error"), desc |-> NoText, status |-> 503],
     [error |-> NoText, desc |-> Prose({"retry"}), status |-> 400]}

(* A processed request whose answer never arrives intact: a timeout, a    *)
(* reset connection or an interrupted body read, and a 2xx body that does  *)
(* not parse as a token response.                                          *)
Lost == {"timeout", "connect", "parse"}

(* The caller asks for "write read" (one-character scopes 2 and 1).       *)
(* Providers that echo the scope may reorder or repeat it; some narrow it, *)
(* or answer a list with an empty entry.                                   *)
Requested == <<<<2>>, <<1>>>>
EchoSame == {NoScope, <<<<1>>, <<2>>>>, <<<<2>>, <<1>>, <<2>>>>}
EchoNarrowed == {<<<<1>>>>}
(* Callers build their requests from the requested list itself, or (in   *)
(* faults) also from a reordered list with a repeat.                       *)
OnlyRequested == {Requested}
Reordered == {Requested, <<<<1>>, <<2>>, <<1>>>>}
EchoAny == EchoSame \cup EchoNarrowed \cup {<<<<1>>, EmptyScope>>}

(* One caller completes a login (exchange_code) while the others refresh. *)
OneLogin == {c1}

CallerSymmetry == Permutations(Callers)

=============================================================================
