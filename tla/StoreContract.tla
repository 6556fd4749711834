--------------------------- MODULE StoreContract ---------------------------
(***************************************************************************)
(* The BrokerStore contract (src/store.rs) for one StoreKey: what any      *)
(* backend promises about the record it holds.  Every mutation is one     *)
(* atomic step; fetch and a compare_and_swap_refresh that reports          *)
(* RefreshMismatch or Missing change nothing.                              *)
(***************************************************************************)
CONSTANTS
    Secrets,   \* refresh secrets (model values)
    NoSecret,  \* a record without a refresh secret
    Absent     \* no record under the key

(* A TokenRecord as far as the store looks at it: the refresh secret the  *)
(* CAS compares and whether revoked_at is set.                             *)
StoredRecord == [refresh: Secrets \cup {NoSecret}, revoked: BOOLEAN]

(* Records the flows hand to save and compare_and_swap_refresh.            *)
NewRecord == {r \in StoredRecord : ~r.revoked}

VARIABLES
    rec,     \* the record under the key
    lastOp   \* the last operation: its kind, expected secret and outcome

storeVars == <<rec, lastOp>>

Outcome == {"Updated", "RefreshMismatch", "Missing", "Some", "None", "Ok"}
Op(kind, exp, out) == [op |-> kind, exp |-> exp, outcome |-> out]
NoOp == Op("open", NoSecret, "Ok")

StoreInit ==
    /\ rec \in NewRecord \cup {Absent}
    /\ lastOp = NoOp

(* save: upsert.                                                           *)
StoreSave(r) ==
    /\ rec' = r
    /\ lastOp' = Op("save", NoSecret, "Ok")

(* compare_and_swap_refresh: Updated replaces the record exactly when the  *)
(* stored refresh secret (or its absence) equals the expected one;        *)
(* otherwise RefreshMismatch, or Missing without inserting.               *)
StoreCompareAndSwap(exp, r) ==
    \/ /\ rec # Absent /\ rec.refresh = exp
       /\ rec' = r
       /\ lastOp' = Op("cas", exp, "Updated")
    \/ /\ rec # Absent /\ rec.refresh # exp
       /\ UNCHANGED rec
       /\ lastOp' = Op("cas", exp, "RefreshMismatch")
    \/ /\ rec = Absent
       /\ UNCHANGED rec
       /\ lastOp' = Op("cas", exp, "Missing")

(* revoke: sets revoked_at and returns the record, or None when absent.   *)
StoreRevoke ==
    \/ /\ rec # Absent
       /\ rec' = [rec EXCEPT !.revoked = TRUE]
       /\ lastOp' = Op("revoke", NoSecret, "Some")
    \/ /\ rec = Absent
       /\ UNCHANGED rec
       /\ lastOp' = Op("revoke", NoSecret, "None")

StoreNext ==
    \/ \E r \in NewRecord : StoreSave(r)
    \/ \E exp \in Secrets \cup {NoSecret}, r \in NewRecord : StoreCompareAndSwap(exp, r)
    \/ StoreRevoke

StoreSpec == StoreInit /\ [][StoreNext]_storeVars

=============================================================================
