----------------------------- MODULE FileStore -----------------------------
(***************************************************************************)
(* FileStore (src/store/file.rs) for one StoreKey.  The in-memory map is   *)
(* updated under the RwLock write guard and then persist_locked rewrites   *)
(* the whole map: create <path>.tmp, write it, sync_all, rename it over    *)
(* <path>.  All of it is synchronous code inside the guard, so mutations   *)
(* never interleave with each other; what can come between the steps is a *)
(* failing system call, a crash of the process, a power loss, and the      *)
(* operating system's writeback of file-system metadata.                   *)
(*                                                                         *)
(* A file is NoFile or [data |-> content, synced |-> flag], where content *)
(* is a complete snapshot (the key's record, or Absent when the key is not *)
(* in the map), Empty (zero length) or Torn (a partial write).             *)
(* durMain is what <path> holds after a power loss: the directory entry of *)
(* a rename is not durable until writeback, since the directory is never   *)
(* fsynced.                                                                *)
(***************************************************************************)
CONSTANTS
    Secrets, NoSecret, Absent,  \* as in StoreContract
    NoFile,
    Empty, Torn,      \* contents: zero length; a partial write
    ProcessCrashes,   \* the process may be killed and restarted
    PowerLoss,        \* the machine may lose power and restart
    PersistFailures   \* create, write, sync and rename may fail

VARIABLES
    mem,      \* the in-memory HashMap's entry for the key
    up,       \* a FileStore is open (FileStore::open succeeded)
    main,     \* <path> as the running system sees it
    tmp,      \* <path>.tmp
    durMain,  \* the content <path> comes back with after a power loss
    pc,       \* step of persist_locked in progress, or "idle"
    acked,    \* the entry as of the last mutation that returned Ok
    lastOp    \* the last operation and the outcome it returned

fileVars == <<mem, up, main, tmp, durMain, pc, acked, lastOp>>

(* The BrokerStore contract, over the in-memory map.                       *)
Contract == INSTANCE StoreContract WITH rec <- mem, lastOp <- lastOp

StoredRecord == Contract!StoredRecord
NewRecord == Contract!NewRecord
Op(kind, exp, out) == Contract!Op(kind, exp, out)

Content == StoredRecord \cup {Absent, Empty, Torn}
File == [data: Content, synced: BOOLEAN]

-----------------------------------------------------------------------------
(* load_snapshot: a missing or zero-length file is an empty map; a file   *)
(* that does not parse makes FileStore::open fail.                         *)
Loadable(f) == f = NoFile \/ f.data # Torn
Load(f) == IF f = NoFile \/ f.data = Empty THEN Absent ELSE f.data

(* What the file holds after a power loss.                                 *)
AfterPowerLoss(d) == IF d = NoFile THEN NoFile ELSE [data |-> d, synced |-> TRUE]

(* refresh_matches: (None, None) and equal secrets match.                  *)
FileRefreshMatches(cur, exp) == cur = exp

(* The CAS outcome is Updated.                                             *)
Updated(exp) == mem # Absent /\ FileRefreshMatches(mem.refresh, exp)

(* A mutation has updated the map and starts persist_locked.               *)
StartPersist == pc' = "create"

Idle == up /\ pc = "idle"

-----------------------------------------------------------------------------
(* The store is opened on a file the previous run left complete.           *)
Init ==
    /\ main \in {NoFile} \cup [data: NewRecord \cup {Absent}, synced: {TRUE}]
    /\ durMain = IF main = NoFile THEN NoFile ELSE main.data
    /\ tmp = NoFile
    /\ mem = Load(main)
    /\ acked = mem
    /\ up = TRUE
    /\ pc = "idle"
    /\ lastOp = Contract!NoOp

(* save: insert, then persist.                                             *)
Save(r) ==
    /\ Idle
    /\ mem' = r
    /\ lastOp' = Op("save", NoSecret, "Ok")
    /\ StartPersist
    /\ UNCHANGED <<up, main, tmp, durMain, acked>>

(* compare_and_swap_refresh: insert and persist only on Updated.           *)
CompareAndSwap(exp, r) ==
    /\ Idle
    /\ \/ /\ Updated(exp)
          /\ mem' = r
          /\ lastOp' = Op("cas", exp, "Updated")
          /\ StartPersist
       \/ /\ ~Updated(exp)
          /\ lastOp' = Op("cas", exp, IF mem = Absent THEN "Missing"
                                      ELSE "RefreshMismatch")
          /\ UNCHANGED <<mem, pc>>
    /\ UNCHANGED <<up, main, tmp, durMain, acked>>

(* revoke: set revoked_at in place, then persist; None when absent.        *)
Revoke ==
    /\ Idle
    /\ \/ /\ mem # Absent
          /\ mem' = [mem EXCEPT !.revoked = TRUE]
          /\ lastOp' = Op("revoke", NoSecret, "Some")
          /\ StartPersist
       \/ /\ mem = Absent
          /\ lastOp' = Op("revoke", NoSecret, "None")
          /\ UNCHANGED <<mem, pc>>
    /\ UNCHANGED <<up, main, tmp, durMain, acked>>

(* A failing step of persist_locked: the operation returns Err            *)
(* (StoreError::Backend) and the map keeps the change.                     *)
PersistFails(tmpAfter) ==
    /\ PersistFailures
    /\ pc' = "idle"
    /\ tmp' = tmpAfter
    /\ lastOp' = [lastOp EXCEPT !.outcome = "Err"]
    /\ UNCHANGED <<mem, up, main, durMain, acked>>

(* ensure_parent_exists and File::create (truncating) of <path>.tmp.       *)
CreateTmp ==
    /\ up /\ pc = "create"
    /\ \/ /\ tmp' = [data |-> Empty, synced |-> FALSE]
          /\ pc' = "write"
          /\ UNCHANGED <<mem, up, main, durMain, acked, lastOp>>
       \/ PersistFails(tmp)

(* write_all of the serialized map.                                        *)
WriteTmp ==
    /\ up /\ pc = "write"
    /\ \/ /\ tmp' = [data |-> mem, synced |-> FALSE]
          /\ pc' = "sync"
          /\ UNCHANGED <<mem, up, main, durMain, acked, lastOp>>
       \/ PersistFails([data |-> Torn, synced |-> FALSE])

SyncTmpSkipped ==
    /\ up /\ pc = "sync"
    /\ pc' = "rename"
    /\ UNCHANGED <<mem, up, main, tmp, durMain, acked, lastOp>>

(* sync_all of <path>.tmp.                                                 *)
SyncTmp ==
    /\ up /\ pc = "sync"
    /\ \/ /\ tmp' = [tmp EXCEPT !.synced = TRUE]
          /\ pc' = "rename"
          /\ UNCHANGED <<mem, up, main, durMain, acked, lastOp>>
       \/ PersistFails(tmp)

RenameErrorIgnored ==
    /\ up /\ pc = "rename"
    /\ \/ /\ main' = tmp
          /\ tmp' = NoFile
       \/ /\ PersistFailures
          /\ UNCHANGED <<main, tmp>>
    /\ pc' = "idle"
    /\ acked' = mem
    /\ UNCHANGED <<mem, up, durMain, lastOp>>

(* fs::rename over <path>; Ok is returned to the caller.                   *)
RenameTmp ==
    /\ up /\ pc = "rename"
    /\ \/ /\ main' = tmp
          /\ tmp' = NoFile
          /\ pc' = "idle"
          /\ acked' = mem
          /\ UNCHANGED <<mem, up, durMain, lastOp>>
       \/ PersistFails(tmp)

-----------------------------------------------------------------------------
(* Environment.                                                            *)

(* The file system commits <path>'s directory entry; data that was never  *)
(* synced may be committed as a zero-length file.                          *)
Writeback ==
    /\ durMain' \in IF main = NoFile THEN {NoFile}
                    ELSE IF main.synced THEN {main.data}
                    ELSE {main.data, Empty}
    /\ durMain # durMain'
    /\ UNCHANGED <<mem, up, main, tmp, pc, acked, lastOp>>

(* The process dies at any point and is started again: FileStore::open    *)
(* reloads <path>.                                                         *)
ProcessRestart ==
    /\ ProcessCrashes
    /\ mem' = IF Loadable(main) THEN Load(main) ELSE mem
    /\ up' = Loadable(main)
    /\ pc' = "idle"
    /\ UNCHANGED <<main, tmp, durMain, acked, lastOp>>

(* The machine loses power: <path> comes back as last committed.           *)
PowerRestart ==
    /\ PowerLoss
    /\ main' = AfterPowerLoss(durMain)
    /\ tmp' = NoFile
    /\ mem' = IF Loadable(main') THEN Load(main') ELSE mem
    /\ up' = Loadable(main')
    /\ pc' = "idle"
    /\ UNCHANGED <<durMain, acked, lastOp>>

Next ==
    \/ \E r \in NewRecord : Save(r)
    \/ \E exp \in Secrets \cup {NoSecret}, r \in NewRecord : CompareAndSwap(exp, r)
    \/ Revoke
    \/ CreateTmp \/ WriteTmp \/ SyncTmp \/ RenameTmp
    \/ Writeback \/ ProcessRestart \/ PowerRestart

Spec == Init /\ [][Next]_fileVars

-----------------------------------------------------------------------------
(***************************************************************************)
(* Properties                                                              *)
(***************************************************************************)

TypeOK ==
    /\ mem \in StoredRecord \cup {Absent}
    /\ up \in BOOLEAN
    /\ main \in File \cup {NoFile} /\ tmp \in File \cup {NoFile}
    /\ durMain \in Content \cup {NoFile}
    /\ pc \in {"idle", "create", "write", "sync", "rename"}
    /\ acked \in StoredRecord \cup {Absent}

(* A fetch between two mutations sees exactly the state of the last       *)
(* mutation that returned Ok: save, compare_and_swap_refresh and revoke    *)
(* insert into the map before persist_locked, so one whose persist step    *)
(* fails must not leave its change visible while the caller gets Err (the  *)
(* refresh flow, for one, then reports the rotation as failed while later *)
(* calls read the new record until a restart reloads the old file).       *)
FetchSeesOnlyAcked == Idle => mem = acked

(* Write-to-temp-and-rename is atomic: <path>, as seen now and as it comes *)
(* back after a power loss, is always a complete snapshot, so             *)
(* FileStore::open never fails on a torn file nor loads a truncated one.   *)
SnapshotComplete ==
    /\ main # NoFile => main.data \notin {Empty, Torn}
    /\ durMain \notin {Empty, Torn}

(* Every mutation that returned Ok is in <path>: a restart reloads at     *)
(* least what the callers were told was stored.                            *)
AckedPersisted == Load(main) = acked

=============================================================================
