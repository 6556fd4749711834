----------------------------- MODULE Identifiers -----------------------------
(***************************************************************************)
(* TenantId, PrincipalId and ProviderId (src/auth/id.rs): the def_id!      *)
(* constructors new, TryFrom<String> (which serde's try_from uses when a  *)
(* FileStore snapshot is loaded) and FromStr, all running validate_view.  *)
(*                                                                         *)
(* A string is abstracted to the bag of its characters, each a Unicode    *)
(* scalar value: validate_view only asks whether the string is empty,     *)
(* whether some character is whitespace and how long the string is, and   *)
(* none of these depends on the order of the characters.                   *)
(***************************************************************************)
EXTENDS Integers, Bags
LOCAL INSTANCE FiniteSetsExt

CONSTANTS
    Views,   \* the strings callers and snapshots hand to the constructors
    NoCall   \* no constructor has run yet

ASSUME \A v \in Views : IsABag(v) /\ BagToSet(v) \subseteq 0..1114111

VARIABLES
    last,    \* the last constructor call: its kind, input and outcome
    made     \* the identifiers constructed so far, as [kind, view] pairs

vars == <<last, made>>

IDENTIFIER_MAX_LEN == 128

(* The three def_id! invocations.                                          *)
Kinds == {"Tenant", "Principal", "Provider"}

(* char::is_whitespace: the code points with the White_Space property.    *)
WhiteSpace == {9, 10, 11, 12, 13, 32, 133, 160, 5760, 8232, 8233, 8239, 8287, 12288}
              \cup 8192..8202

(* The number of bytes a scalar value takes in UTF-8.                      *)
Utf8Len(ch) == CASE ch < 128   -> 1
                 [] ch < 2048  -> 2
                 [] ch < 65536 -> 3
                 [] OTHER      -> 4

(* str::len: the length of the UTF-8 encoding, in bytes.                   *)
ByteLen(view) == MapThenSumSet(LAMBDA ch : CopiesIn(ch, view) * Utf8Len(ch), BagToSet(view))

(* IdentifierError and Ok, with the kind the error names.                  *)
Outcome(kind, error) == [kind |-> kind, error |-> error]

(* validate_view: emptiness, then whitespace, then the length, in that     *)
(* order; the first failing check is the error.                            *)
ValidateView(kind, view) ==
    CASE view = EmptyBag                          -> Outcome(kind, "Empty")
      [] BagToSet(view) \cap WhiteSpace # {}       -> Outcome(kind, "ContainsWhitespace")
      [] ByteLen(view) > IDENTIFIER_MAX_LEN        -> Outcome(kind, "TooLong")
      [] OTHER                                     -> Outcome(kind, "Ok")

Init ==
    /\ last = NoCall
    /\ made = {}

(* A constructor call with input `view`: validate, and keep the view as   *)
(* the identifier's string on Ok.                                           *)
Construct(ctor, kind, view) ==
    LET out == ValidateView(kind, view) IN
    /\ last' = [ctor |-> ctor, view |-> view, outcome |-> out]
    /\ made' = IF out.error = "Ok" THEN made \cup {[kind |-> kind, view |-> view]}
               ELSE made

(* def_id!'s new(value): validate_view on value.as_ref(), then to_owned. *)
New(kind, view) == Construct("new", kind, view)

(* TryFrom<String>: validate_view on the owned string, kept as it is.      *)
TryFromString(kind, view) == Construct("try_from", kind, view)

(* FromStr::from_str: Self::new(s).                                        *)
FromStr(kind, view) == New(kind, view)

Next ==
    \E kind \in Kinds, view \in Views :
        \/ New(kind, view)
        \/ TryFromString(kind, view)
        \/ FromStr(kind, view)

Spec == Init /\ [][Next]_vars

-----------------------------------------------------------------------------
TypeOK ==
    /\ last = NoCall \/ last.view \in Views
    /\ made \subseteq [kind: Kinds, view: Views]

(* The identifier rule of the specification's validation table: a string  *)
(* is an identifier when it is non-empty, holds no whitespace (Unicode     *)
(* included) and has at most 128 characters.                               *)
SpecAccepts(view) ==
    /\ view # EmptyBag
    /\ BagToSet(view) \cap WhiteSpace = {}
    /\ BagCardinality(view) <= IDENTIFIER_MAX_LEN

(* Every constructor of TenantId, PrincipalId and ProviderId accepts       *)
(* exactly the strings the specification's identifier rule accepts:       *)
(* validate_view's length check must count characters, as its TooLong     *)
(* message ("exceeds 128 characters") says.                                *)
IdentifierRuleHonoured ==
    last # NoCall => ((last.outcome.error = "Ok") <=> SpecAccepts(last.view))

=============================================================================
