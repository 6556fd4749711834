------------------------------ MODULE ScopeSet ------------------------------
(***************************************************************************)
(* ScopeSet (src/auth/scope.rs): a list of scope strings normalized into  *)
(* a sorted, deduplicated sequence; equality compares that sequence; the  *)
(* fingerprint that keys the store hashes the space-joined scopes.        *)
(*                                                                         *)
(* A string is a sequence of characters, each a small integer in the      *)
(* byte order String's Ord uses; Space stands for every character that    *)
(* char::is_whitespace accepts.  SHA-256 is taken to be collision-free:   *)
(* a digest is identified by the text it was computed from.               *)
(***************************************************************************)
EXTENDS Integers
LOCAL INSTANCE SequencesExt

Space == 0
IsWhitespace(ch) == ch = Space

EmptyScope == <<>>

Invalid(s) == s = EmptyScope \/ SelectInSeq(s, IsWhitespace) # 0

(* String's Ord: byte-wise lexicographic, a proper prefix first.          *)
StrLess(a, b) ==
    \/ Len(a) < Len(b) /\ a = SubSeq(b, 1, Len(a))
    \/ \E k \in 1..Len(a) :
          /\ k <= Len(b)
          /\ SubSeq(a, 1, k - 1) = SubSeq(b, 1, k - 1)
          /\ a[k] < b[k]

ScopeError(raw, bad) ==
    [ok |-> FALSE, scopes |-> <<>>,
     error |-> IF raw[bad] = EmptyScope THEN "Empty" ELSE "ContainsWhitespace"]

NormalizeUnsorted(raw) ==
    LET bad == SelectInSeq(raw, Invalid) IN
    IF bad # 0 THEN ScopeError(raw, bad)
    ELSE [ok |-> TRUE, scopes |-> raw, error |-> "none"]

(* normalize: the first invalid entry, in iteration order, fails the whole *)
(* set with Empty or ContainsWhitespace; otherwise the entries are        *)
(* collected in a BTreeSet and frozen in its (sorted) order.              *)
Normalize(raw) ==
    LET bad == SelectInSeq(raw, Invalid) IN
    IF bad # 0 THEN ScopeError(raw, bad)
    ELSE [ok |-> TRUE, scopes |-> SetToSortSeq(ToSet(raw), StrLess),
          error |-> "none"]

(* PartialEq for ScopeSet: the normalized sequences are equal.            *)
ScopeSetEq(a, b) == a.scopes = b.scopes

(* ScopeSet::new succeeds and yields a set equal to `requested`.           *)
SameScopeSet(raw, requested) ==
    LET r == Normalize(raw) IN r.ok /\ ScopeSetEq(r, Normalize(requested))

(* The scopes in order, one delimiter character between two of them.     *)
JoinWith(scopes, delimiter) ==
    FlattenSeq([i \in 1..Len(scopes) |->
                   IF i = 1 THEN scopes[i] ELSE <<delimiter>> \o scopes[i]])

(* [String]::join(" "): the scopes separated by one space.              *)
Joined(scopes) == JoinWith(scopes, Space)

(* format_scope (src/flows/common.rs): the scope parameter of a request,   *)
(* as an optional text (<<>> for None): nothing for an empty set, the      *)
(* normalized text for a space, else the scopes joined by the delimiter.  *)
FormatScope(set, delimiter) ==
    IF set.scopes = <<>> THEN <<>>
    ELSE IF delimiter = Space THEN <<Joined(set.scopes)>>
    ELSE <<JoinWith(set.scopes, delimiter)>>

(* compute_fingerprint: SHA-256 of the joined scopes, base64-encoded.      *)
ComputeFingerprint(scopes) == [sha256 |-> Joined(scopes)]

(* ScopeSet::fingerprint: computed once per value and cached; a clone      *)
(* starts with an empty cache and recomputes the same digest.              *)
Fingerprint(set) == ComputeFingerprint(set.scopes)

(* StoreKey::new: the family and the scope set's fingerprint.              *)
StoreKeyOf(family, set) == [family |-> family, scope_fingerprint |-> Fingerprint(set)]

=============================================================================
