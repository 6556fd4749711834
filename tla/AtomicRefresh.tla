---------------------------- MODULE AtomicRefresh ----------------------------
(***************************************************************************)
(* What refresh_access_token promises for one StoreKey, seen from the      *)
(* store and the provider: every refresh is one atomic step.  A call that  *)
(* goes upstream presents the secret the store holds now, and the store    *)
(* moves straight to the record the provider answered with; a secret the  *)
(* provider refuses gets the stored record revoked.  Cached returns,      *)
(* transient failures and every intermediate await leave both unchanged.  *)
(*                                                                         *)
(* A stored record is abstracted to its refresh secret and its revoked    *)
(* flag; secrets are the n-th mint, 0 being the seed's.                    *)
(***************************************************************************)
EXTENDS Naturals

CONSTANTS StrictRotation, MaxMint, NoRecord, NoSecret

VARIABLES
    store,   \* [refresh, revoked] of the stored record, or NoRecord
    valid,   \* refresh secrets the provider accepts
    minted   \* the last secret the provider minted

vars == <<store, valid, minted>>

Init ==
    /\ store \in {NoRecord} \cup
                 {[refresh |-> r, revoked |-> FALSE] : r \in {0, NoSecret}}
    /\ valid = IF store # NoRecord /\ store.refresh # NoSecret THEN {0} ELSE {}
    /\ minted = 0

Refreshable(r) == r # NoRecord /\ r.refresh # NoSecret

(* The stored secret is exchanged for the n-th token pair; the provider   *)
(* either rotates (a new refresh secret, the old one dropped when it      *)
(* rotates strictly) or keeps the old secret, which the record carries.   *)
Refresh(r) ==
    /\ Refreshable(r) /\ r.refresh \in valid /\ minted < MaxMint
    /\ \E rotate \in BOOLEAN :
          LET n == minted + 1 IN
          /\ minted' = n
          /\ valid' = IF ~rotate THEN valid
                      ELSE IF StrictRotation THEN (valid \ {r.refresh}) \cup {n}
                      ELSE valid \cup {n}
          /\ store' = [refresh |-> IF rotate THEN n ELSE r.refresh, revoked |-> FALSE]

(* The provider refuses the stored secret: the record is revoked.          *)
RejectAndRevoke(r) ==
    /\ Refreshable(r) /\ r.refresh \notin valid
    /\ store' = [r EXCEPT !.revoked = TRUE]
    /\ UNCHANGED <<valid, minted>>

(* The grant is revoked upstream.                                          *)
UpstreamRevoke ==
    /\ valid' = {}
    /\ UNCHANGED <<store, minted>>

Next ==
    LET r == store IN Refresh(r) \/ RejectAndRevoke(r) \/ UpstreamRevoke

Spec == Init /\ [][Next]_vars

=============================================================================
