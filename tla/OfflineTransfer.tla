--------------------------- MODULE OfflineTransfer ---------------------------
(***************************************************************************)
(* The server side of the resumable offline transfer                       *)
(* (app/services/offline_transfer_service.py): how the requests that       *)
(* upload the parts of a registered transfer and the requests that         *)
(* complete it interleave over the row of the transfer, its row lock, the  *)
(* advisory import locks, the spool directory and the minute table.        *)
(*                                                                         *)
(* A request is served by a process with a database session of its own.    *)
(* The session caches the row it has loaded: a later SELECT ... FOR UPDATE *)
(* in the same transaction takes the lock and leaves the cached attributes *)
(* as they are (SQLAlchemy refreshes a loaded object only after a commit,  *)
(* a rollback or an explicit refresh), and a flush writes the attributes   *)
(* that differ from the cached ones.                                       *)
(***************************************************************************)
EXTENDS Naturals, FiniteSets

CONSTANTS
    Transfer,     \* registered transfers
    Part,         \* the part numbers 1..total_parts of a manifest
    Proc,         \* request handlers: worker threads and the event loop
    Key,          \* primary keys (lagoon, tag, bucket) of the minute table
    RowsOf,       \* RowsOf[t]: the keys of the rows in the file of t
    NoProc,       \* an unlocked lock
    NoTransfer,   \* a process that serves no request
    NoPart,
    Stalling,     \* transfers whose clients may stall in the body of a part
    MaxFaults     \* bound on failures, crashes and damaged part files

ASSUME TransferAssumption == NoTransfer \notin Transfer
ASSUME PartAssumption     == NoPart \notin Part /\ Part # {}
ASSUME ProcAssumption     == NoProc \notin Proc
ASSUME RowsAssumption     == RowsOf \in [Transfer -> SUBSET Key]
ASSUME StallAssumption  == Stalling \subseteq Transfer
ASSUME BoundAssumption    == MaxFaults \in Nat

Status == {"UPLOADING", "READY", "IMPORTING", "FAILED", "VERIFIED",
           "QUARANTINED"}

(* The table the code checks every status change against.                  *)
AllowedTransitions ==
    [s \in Status |->
        CASE s = "UPLOADING" -> {"READY", "FAILED", "QUARANTINED"}
          [] s = "READY"     -> {"IMPORTING", "FAILED", "QUARANTINED"}
          [] s = "IMPORTING" -> {"FAILED", "VERIFIED", "QUARANTINED"}
          [] s = "FAILED"    -> {"READY", "IMPORTING", "QUARANTINED"}
          [] OTHER           -> {}]

(* Where an assembled file can be; the column assembled_path is one of     *)
(* these or null.                                                          *)
Dir  == {"Ready", "Imported", "Failed"}
Path == Dir \cup {"none"}

(* What a part announces (its SHA-256): the bytes of the manifest's file,  *)
(* or other bytes of the right length.  On disk a part file may also be    *)
(* missing or hold bytes nobody announced.                                 *)
Digest     == {"good", "bad"}
PartRow    == Digest \cup {"none"}
PartFile   == Digest \cup {"none", "torn"}
Assembled  == {"none", "good", "bad"}

VARIABLES
    status,        \* offline_transfer.status
    assembledPath, \* offline_transfer.assembled_path
    partRow,       \* offline_transfer_part rows, by their sha256
    minute,        \* the minute table: who wrote a key last
    partFile,      \* part files under Incoming
    file,          \* assembled files under Ready, Imported and Failed
    damaged,       \* part files damaged on disk since they were written
    overwritten,   \* part files a PUT replaced after it lost the row lock
    rowLock,       \* FOR UPDATE lock of a transfer row
    globalLock,    \* advisory lock of the one global import
    transferLock,  \* advisory lock of a transfer
    pc, tr, part, digest, \* a process: where it is and what it serves
    sess,          \* the row as the session of a process has it cached
    chunk,         \* whether the collector still holds its chunk
    faults         \* failures so far

dbVars   == <<status, assembledPath, partRow, minute>>
diskVars == <<partFile, file, damaged, overwritten>>
lockVars == <<rowLock, globalLock, transferLock>>
procVars == <<pc, tr, part, digest, sess>>
vars     == <<dbVars, diskVars, lockVars, procVars, chunk, faults>>

(* The program points of receive_part, complete_transfer, and              *)
(* _persist_failed at which a process can be overtaken.  At p_adrift it    *)
(* awaits the body of a part and does not know that its session is over.   *)
PutPc     == {"p_receive", "p_stored", "p_orphan", "p_conflict"}
PhaseOnePc == {"c_locked", "c_staged"}
FailPc    == {"f_wait", "f_locked", "f_moved"}
BeginPc   == {"c_ready", "c_begin", "c_begin_wait", "c_begin_locked"}
ImportPc  == {"c_importing", "c_relock", "c_import_wait", "c_import",
              "c_moved"}
Pc == {"idle", "p_adrift"} \cup PutPc \cup PhaseOnePc \cup FailPc \cup BeginPc
      \cup ImportPc

(* Points at which the process holds the advisory locks.                   *)
ImportSection == {"c_begin_wait", "c_begin_locked", "c_import_wait",
                  "c_import", "c_moved"}

NoRow == [status |-> "UPLOADING", path |-> "none"]
Row   == [status: Status, path: Path]
RowOf(t) == [status |-> status[t], path |-> assembledPath[t]]

DbTypeOK ==
    /\ status \in [Transfer -> Status]
    /\ assembledPath \in [Transfer -> Path]
    /\ partRow \in [Transfer -> [Part -> PartRow]]
    /\ minute \in [Key -> {"absent", "online", "offline"}]

DiskTypeOK ==
    /\ partFile \in [Transfer -> [Part -> PartFile]]
    /\ file \in [Transfer -> [Dir -> Assembled]]
    /\ damaged \in SUBSET (Transfer \X Part)
    /\ overwritten \in SUBSET (Transfer \X Part)

LockTypeOK ==
    /\ rowLock \in [Transfer -> Proc \cup {NoProc}]
    /\ globalLock \in Proc \cup {NoProc}
    /\ transferLock \in [Transfer -> Proc \cup {NoProc}]

ProcTypeOK ==
    /\ pc \in [Proc -> Pc]
    /\ tr \in [Proc -> Transfer \cup {NoTransfer}]
    /\ part \in [Proc -> Part \cup {NoPart}]
    /\ digest \in [Proc -> Digest]
    /\ sess \in [Proc -> Row]

TypeOK ==
    /\ DbTypeOK /\ DiskTypeOK /\ LockTypeOK /\ ProcTypeOK
    /\ chunk \in [Transfer -> {"held", "dropped"}]
    /\ faults \in Nat

(* Every transfer has just been registered: create_transfer has committed  *)
(* its row, nothing has been uploaded.                                     *)
Init ==
    /\ status = [t \in Transfer |-> "UPLOADING"]
    /\ assembledPath = [t \in Transfer |-> "none"]
    /\ partRow = [t \in Transfer |-> [n \in Part |-> "none"]]
    /\ minute = [k \in Key |-> "absent"]
    /\ partFile = [t \in Transfer |-> [n \in Part |-> "none"]]
    /\ file = [t \in Transfer |-> [d \in Dir |-> "none"]]
    /\ damaged = {}
    /\ overwritten = {}
    /\ rowLock = [t \in Transfer |-> NoProc]
    /\ globalLock = NoProc
    /\ transferLock = [t \in Transfer |-> NoProc]
    /\ pc = [p \in Proc |-> "idle"]
    /\ tr = [p \in Proc |-> NoTransfer]
    /\ part = [p \in Proc |-> NoPart]
    /\ digest = [p \in Proc |-> "good"]
    /\ sess = [p \in Proc |-> NoRow]
    /\ chunk = [t \in Transfer |-> "held"]
    /\ faults = 0

-----------------------------------------------------------------------------
(* Sessions, locks and requests                                            *)

(* SELECT ... FOR UPDATE of the row of t can return.                       *)
RowLockFree(p, t) == rowLock[t] \in {NoProc, p}

(* pg_try_advisory_xact_lock succeeds for the global key and then for the  *)
(* key of t; on failure the caller rolls its transaction back.             *)
ImportLocksFree(t) == globalLock = NoProc /\ transferLock[t] = NoProc

TakeImportLocks(p) ==
    /\ globalLock' = p
    /\ transferLock' = [transferLock EXCEPT ![tr[p]] = p]

(* Commit or rollback: the transaction-scoped locks of p are released.     *)
ReleaseLocks(p) ==
    /\ rowLock' = [t \in Transfer |-> IF rowLock[t] = p THEN NoProc
                                      ELSE rowLock[t]]
    /\ globalLock' = IF globalLock = p THEN NoProc ELSE globalLock
    /\ transferLock' = [t \in Transfer |-> IF transferLock[t] = p THEN NoProc
                                           ELSE transferLock[t]]

Goto(p, next) ==
    /\ pc' = [pc EXCEPT ![p] = next]
    /\ UNCHANGED <<tr, part, digest>>

Load(p, row) == sess' = [sess EXCEPT ![p] = row]

(* A request gets a session, locks the row of t and loads it.              *)
Start(p, t, next) ==
    /\ pc[p] = "idle"
    /\ rowLock[t] = NoProc
    /\ pc' = [pc EXCEPT ![p] = next]
    /\ tr' = [tr EXCEPT ![p] = t]
    /\ Load(p, RowOf(t))
    /\ rowLock' = [rowLock EXCEPT ![t] = p]
    /\ UNCHANGED <<dbVars, diskVars, globalLock, transferLock, chunk, faults>>

(* The request is answered and its session closed.                         *)
Finish(p) ==
    /\ pc' = [pc EXCEPT ![p] = "idle"]
    /\ tr' = [tr EXCEPT ![p] = NoTransfer]
    /\ part' = [part EXCEPT ![p] = NoPart]
    /\ digest' = [digest EXCEPT ![p] = "good"]
    /\ sess' = [sess EXCEPT ![p] = NoRow]
    /\ ReleaseLocks(p)

(* A flush emits a column only if it differs from the cached value.        *)
Flushed(column, cached, new) == IF new = cached THEN column ELSE new

(* transition(): refused unless the table allows it from the cached status *)
WriteStatus(t, p, new) ==
    /\ new = sess[p].status \/ new \in AllowedTransitions[sess[p].status]
    /\ status' = [status EXCEPT ![t] = Flushed(@, sess[p].status, new)]

WritePath(t, p, new) ==
    assembledPath' =
        [assembledPath EXCEPT ![t] = Flushed(@, sess[p].path, new)]

(* A TransferError reaches _persist_failed, whose first act is to roll the *)
(* transaction back.                                                       *)
RaiseTransferError(p) ==
    /\ Goto(p, "f_wait")
    /\ Load(p, NoRow)
    /\ ReleaseLocks(p)

-----------------------------------------------------------------------------
(* PUT /parts/{n}: receive_part                                            *)

StartPart(p, t, n, d, next) ==
    /\ Start(p, t, next)
    /\ part' = [part EXCEPT ![p] = n]
    /\ digest' = [digest EXCEPT ![p] = d]

(* Seeded fault: a part file without a row is adopted unread.              *)
PartLock_AdoptsOrphan(p, t, n, d) ==
    /\ partRow[t][n] = "none" /\ status[t] = "UPLOADING"
    /\ StartPart(p, t, n, d, IF partFile[t][n] = "none" THEN "p_receive"
                             ELSE "p_stored")

(* The row is locked and loaded and the confirmed part, if any, compared   *)
(* with what the request announces.  A request that is answered here       *)
(* (already_received, or a 409 that stores nothing) changes no state.      *)
PartLock(p, t, n, d) ==
    \/ /\ partRow[t][n] # "none"
       /\ ~(partRow[t][n] = d /\ partFile[t][n] = d)
       /\ status[t] # "VERIFIED"
       /\ StartPart(p, t, n, d, "p_conflict")
    \/ /\ partRow[t][n] = "none" /\ status[t] = "UPLOADING"
       /\ StartPart(p, t, n, d,
              CASE partFile[t][n] = "none" -> "p_receive"
                [] partFile[t][n] = d      -> "p_stored"
                [] OTHER                   -> "p_orphan")

(* The body has been streamed to a temporary file, synced and checked;     *)
(* os.replace gives the part its final name.                               *)
PartStore(p) ==
    /\ pc[p] = "p_receive"
    /\ partFile' = [partFile EXCEPT ![tr[p]][part[p]] = digest[p]]
    /\ overwritten' = overwritten \ {<<tr[p], part[p]>>}
    /\ Goto(p, "p_stored")
    /\ UNCHANGED <<dbVars, file, damaged, lockVars, sess, chunk, faults>>

(* While the handler awaits the body its transaction is idle: PostgreSQL   *)
(* ends the session and frees the row lock, which the handler, with no     *)
(* statement under way, does not notice.                                   *)
IdleTimeout(p) ==
    /\ pc[p] = "p_receive" /\ tr[p] \in Stalling
    /\ Goto(p, "p_adrift")
    /\ ReleaseLocks(p)
    /\ UNCHANGED <<dbVars, diskVars, sess, chunk, faults>>

(* The body arrives all the same: the file is put in place over whatever   *)
(* is there by now, then the commit fails and the request with it.         *)
StoreAdrift(p) ==
    LET t == tr[p]   n == part[p] IN
    /\ pc[p] = "p_adrift"
    /\ partFile' = [partFile EXCEPT ![t][n] = digest[p]]
    /\ overwritten' = IF partFile[t][n] \in {"none", digest[p]} THEN overwritten
                      ELSE overwritten \cup {<<t, n>>}
    /\ Finish(p)
    /\ UNCHANGED <<dbVars, file, damaged, chunk, faults>>

(* The part row is committed.                                              *)
PartCommit(p) ==
    /\ pc[p] = "p_stored"
    /\ partRow' = [partRow EXCEPT ![tr[p]][part[p]] = digest[p]]
    /\ Finish(p)
    /\ UNCHANGED <<status, assembledPath, minute, diskVars, chunk, faults>>

(* A part file without a row that does not match the retry is moved to     *)
(* Failed/Conflicts before the transfer is quarantined.                    *)
MoveOrphan(p) ==
    /\ pc[p] = "p_orphan"
    /\ partFile' = [partFile EXCEPT ![tr[p]][part[p]] = "none"]
    /\ Goto(p, "p_conflict")
    /\ UNCHANGED <<dbVars, file, damaged, overwritten, lockVars, sess, chunk,
                   faults>>

(* _mark_quarantined                                                       *)
MarkQuarantined(p) ==
    /\ pc[p] = "p_conflict"
    /\ WriteStatus(tr[p], p, "QUARANTINED")
    /\ Finish(p)
    /\ UNCHANGED <<assembledPath, partRow, minute, diskVars, chunk, faults>>

-----------------------------------------------------------------------------
(* POST /complete, first phase: a checked file in Ready                    *)

(* A VERIFIED or QUARANTINED transfer is answered at once, and so is one   *)
(* with parts missing: no state changes.                                   *)
CompleteLock(p, t) ==
    /\ status[t] \notin {"VERIFIED", "QUARANTINED"}
    /\ status[t] = "UPLOADING" => \A n \in Part : partRow[t][n] # "none"
    /\ Start(p, t, "c_locked")
    /\ UNCHANGED <<part, digest>>

(* The file in directory d is there and has the manifest's size and SHA.   *)
FileValid(t, path) == path # "none" /\ file[t][path] = "good"

PartsIntact(t) == \A n \in Part : partFile[t][n] = partRow[t][n]
PartsAreTheFile(t) == PartsIntact(t) /\ \A n \in Part : partRow[t][n] = "good"

(* _assemble_to_ready up to os.replace(temporary, Ready)                   *)
Assemble(p) ==
    LET t == tr[p] IN
    /\ pc[p] = "c_locked" /\ sess[p].status = "UPLOADING"
    /\ PartsAreTheFile(t)
    /\ file' = [file EXCEPT ![t]["Ready"] = "good"]
    /\ Goto(p, "c_staged")
    /\ UNCHANGED <<dbVars, partFile, damaged, overwritten, lockVars, sess,
                   chunk, faults>>

(* A part file that is missing or differs from its row, or parts that do   *)
(* not add up to the manifest's file: what was written goes to Failed.     *)
AssembleFails(p) ==
    LET t == tr[p] IN
    /\ pc[p] = "c_locked" /\ sess[p].status = "UPLOADING"
    /\ ~PartsAreTheFile(t)
    /\ file' = [file EXCEPT ![t]["Failed"] = "bad"]
    /\ RaiseTransferError(p)
    /\ UNCHANGED <<dbVars, partFile, damaged, overwritten, chunk, faults>>

(* _restore_failed_to_ready up to os.replace(current, Ready)               *)
RestoreFailed(p) ==
    LET t == tr[p] IN
    /\ pc[p] = "c_locked" /\ sess[p].status = "FAILED"
    /\ FileValid(t, sess[p].path)
    /\ file' = [file EXCEPT ![t][sess[p].path] = "none",
                            ![t]["Ready"] = "good"]
    /\ Goto(p, "c_staged")
    /\ UNCHANGED <<dbVars, partFile, damaged, overwritten, lockVars, sess,
                   chunk, faults>>

(* READY, or IMPORTING after a crash: the file is validated and the        *)
(* transaction, with its row lock, goes on.                                *)
ValidateReady(p) ==
    /\ pc[p] = "c_locked" /\ sess[p].status \in {"READY", "IMPORTING"}
    /\ FileValid(tr[p], sess[p].path)
    /\ Goto(p, "c_begin")
    /\ UNCHANGED <<dbVars, diskVars, lockVars, sess, chunk, faults>>

(* The file is missing or is not the manifest's, here or when the import   *)
(* validates it again.                                                     *)
FileInvalid(p) ==
    /\ \/ pc[p] = "c_locked" /\ sess[p].status # "UPLOADING"
       \/ pc[p] = "c_import"
    /\ ~FileValid(tr[p], sess[p].path)
    /\ RaiseTransferError(p)
    /\ UNCHANGED <<dbVars, diskVars, chunk, faults>>

(* Seeded fault: a status the table does not know.                         *)
CommitReady_Received(p) ==
    /\ pc[p] = "c_staged"
    /\ status' = [status EXCEPT ![tr[p]] = "RECEIVED"]
    /\ WritePath(tr[p], p, "Ready")
    /\ Goto(p, "c_ready")
    /\ Load(p, NoRow)
    /\ ReleaseLocks(p)
    /\ UNCHANGED <<partRow, minute, diskVars, chunk, faults>>

(* The commit that makes the transfer READY also gives up the row lock and *)
(* expires the cached row ...                                              *)
CommitReady(p) ==
    /\ pc[p] = "c_staged"
    /\ WriteStatus(tr[p], p, "READY")
    /\ WritePath(tr[p], p, "Ready")
    /\ Goto(p, "c_ready")
    /\ Load(p, NoRow)
    /\ ReleaseLocks(p)
    /\ UNCHANGED <<partRow, minute, diskVars, chunk, faults>>

(* ... and db.refresh loads it again, in a new transaction, unlocked.      *)
RefreshReady(p) ==
    /\ pc[p] = "c_ready"
    /\ Load(p, RowOf(tr[p]))
    /\ Goto(p, "c_begin")
    /\ UNCHANGED <<dbVars, diskVars, lockVars, chunk, faults>>

-----------------------------------------------------------------------------
(* POST /complete, second phase: _begin_import                             *)

(* Seeded fault: the locks of _begin_import are believed to be still held  *)
(* by the import.                                                          *)
AcquireImportLocks_Once(p) ==
    /\ \/ pc[p] = "c_begin" /\ ImportLocksFree(tr[p]) /\ TakeImportLocks(p)
          /\ Goto(p, "c_begin_wait")
       \/ pc[p] = "c_relock" /\ Goto(p, "c_import_wait")
          /\ UNCHANGED <<globalLock, transferLock>>
    /\ UNCHANGED <<dbVars, diskVars, rowLock, sess, chunk, faults>>

(* Seeded fault: pg_advisory_xact_lock, which waits, for the try variant.  *)
ImportLocksRefused_Waits(p) == pc[p] = "c_begin" /\ FALSE /\ UNCHANGED vars

(* _acquire_import_locks: by _begin_import, and again, in a transaction of *)
(* its own, by the import.                                                 *)
AcquireImportLocks(p) ==
    /\ pc[p] \in {"c_begin", "c_relock"}
    /\ ImportLocksFree(tr[p])
    /\ TakeImportLocks(p)
    /\ Goto(p, IF pc[p] = "c_begin" THEN "c_begin_wait" ELSE "c_import_wait")
    /\ UNCHANGED <<dbVars, diskVars, rowLock, sess, chunk, faults>>

(* 409: another import is running; the status stays what it is.            *)
ImportLocksRefused(p) ==
    /\ pc[p] \in {"c_begin", "c_relock"}
    /\ ~ImportLocksFree(tr[p])
    /\ Finish(p)
    /\ UNCHANGED <<dbVars, diskVars, chunk, faults>>

(* FOR UPDATE returns the row, the session keeps the status it has cached. *)
BeginLock(p) ==
    LET t == tr[p] IN
    /\ pc[p] = "c_begin_wait"
    /\ RowLockFree(p, t)
    /\ sess[p].status \in {"READY", "FAILED", "IMPORTING"}
    /\ rowLock' = [rowLock EXCEPT ![t] = p]
    /\ Goto(p, "c_begin_locked")
    /\ UNCHANGED <<dbVars, diskVars, globalLock, transferLock, sess, chunk,
                   faults>>

(* VERIFIED meanwhile: rolled back, and the status the caller reads next   *)
(* is loaded again.                                                        *)
BeginFindsVerified(p) ==
    /\ pc[p] = "c_begin_wait"
    /\ RowLockFree(p, tr[p])
    /\ sess[p].status = "VERIFIED"
    /\ Goto(p, "c_importing")
    /\ Load(p, NoRow)
    /\ ReleaseLocks(p)
    /\ UNCHANGED <<dbVars, diskVars, chunk, faults>>

(* 409: any other status cannot be imported.                               *)
BeginNotReady(p) ==
    /\ pc[p] = "c_begin_wait"
    /\ RowLockFree(p, tr[p])
    /\ sess[p].status \in {"UPLOADING", "QUARANTINED"}
    /\ Finish(p)
    /\ UNCHANGED <<dbVars, diskVars, chunk, faults>>

(* IMPORTING is persisted, so that a crash can be recovered through        *)
(* another POST /complete; the commit gives up every lock.                 *)
CommitImporting(p) ==
    /\ pc[p] = "c_begin_locked"
    /\ WriteStatus(tr[p], p, "IMPORTING")
    /\ Goto(p, "c_importing")
    /\ Load(p, NoRow)
    /\ ReleaseLocks(p)
    /\ UNCHANGED <<assembledPath, partRow, minute, diskVars, chunk, faults>>

RefreshImporting(p) ==
    /\ pc[p] = "c_importing"
    /\ IF status[tr[p]] = "VERIFIED"
       THEN Finish(p)
       ELSE /\ Load(p, RowOf(tr[p]))
            /\ Goto(p, "c_relock")
            /\ UNCHANGED lockVars
    /\ UNCHANGED <<dbVars, diskVars, chunk, faults>>

-----------------------------------------------------------------------------
(* POST /complete, third phase: the import                                 *)

(* FOR UPDATE, with the cached status again.                               *)
ImportLock(p) ==
    LET t == tr[p] IN
    /\ pc[p] = "c_import_wait"
    /\ RowLockFree(p, t)
    /\ sess[p].status = "IMPORTING"
    /\ rowLock' = [rowLock EXCEPT ![t] = p]
    /\ Goto(p, "c_import")
    /\ UNCHANGED <<dbVars, diskVars, globalLock, transferLock, sess, chunk,
                   faults>>

ImportNotImporting(p) ==
    /\ pc[p] = "c_import_wait"
    /\ RowLockFree(p, tr[p])
    /\ sess[p].status # "IMPORTING"
    /\ RaiseTransferError(p)
    /\ UNCHANGED <<dbVars, diskVars, chunk, faults>>

(* Seeded fault: the imported file is deleted before the commit.           *)
ImportMove_Deletes(p) ==
    LET t == tr[p] IN
    /\ pc[p] = "c_import"
    /\ FileValid(t, sess[p].path)
    /\ file' = [file EXCEPT ![t][sess[p].path] = "none"]
    /\ Goto(p, "c_moved")
    /\ UNCHANGED <<dbVars, partFile, damaged, overwritten, lockVars, sess,
                   chunk, faults>>

(* The file is validated, its rows staged and merged in the transaction,   *)
(* and the file moved to Imported, before the commit.                      *)
ImportMove(p) ==
    LET t == tr[p] IN
    /\ pc[p] = "c_import"
    /\ FileValid(t, sess[p].path)
    /\ file' = [file EXCEPT ![t][sess[p].path] = "none",
                            ![t]["Imported"] = "good"]
    /\ Goto(p, "c_moved")
    /\ UNCHANGED <<dbVars, partFile, damaged, overwritten, lockVars, sess,
                   chunk, faults>>

(* Seeded faults: the staged rows are never merged, or replace the online  *)
(* ones.                                                                   *)
Merged_Nothing(rows) == [k \in Key |-> minute[k]]
Merged_Overwrites(rows) ==
    [k \in Key |-> IF k \in rows THEN "offline" ELSE minute[k]]

(* INSERT ... ON CONFLICT DO NOTHING of the rows of the file.              *)
Merged(rows) ==
    [k \in Key |-> IF k \in rows /\ minute[k] = "absent" THEN "offline"
                   ELSE minute[k]]

(* Rows, counters, path and VERIFIED commit together.                      *)
CommitVerified(p) ==
    LET t == tr[p] IN
    /\ pc[p] = "c_moved"
    /\ minute' = Merged(RowsOf[t])
    /\ WriteStatus(t, p, "VERIFIED")
    /\ WritePath(t, p, "Imported")
    /\ Finish(p)
    /\ UNCHANGED <<partRow, diskVars, chunk, faults>>

-----------------------------------------------------------------------------
(* _persist_failed                                                         *)

(* Seeded faults: the final statuses are not looked at, or the row is not  *)
(* loaded afresh.                                                          *)
PersistLock_NoRecheck(p) ==
    /\ pc[p] = "f_wait"
    /\ RowLockFree(p, tr[p])
    /\ rowLock' = [rowLock EXCEPT ![tr[p]] = p]
    /\ Load(p, RowOf(tr[p]))
    /\ Goto(p, "f_locked")
    /\ UNCHANGED <<dbVars, diskVars, globalLock, transferLock, chunk, faults>>

PersistLock_Cached(p) ==
    /\ pc[p] = "f_wait"
    /\ RowLockFree(p, tr[p])
    /\ rowLock' = [rowLock EXCEPT ![tr[p]] = p]
    /\ Goto(p, "f_locked")
    /\ UNCHANGED <<dbVars, diskVars, globalLock, transferLock, sess, chunk,
                   faults>>

PersistLock(p) ==
    LET t == tr[p] IN
    /\ pc[p] = "f_wait"
    /\ RowLockFree(p, t)
    /\ IF status[t] \in {"VERIFIED", "QUARANTINED"}
       THEN Finish(p)
       ELSE /\ rowLock' = [rowLock EXCEPT ![t] = p]
            /\ Load(p, RowOf(t))
            /\ Goto(p, "f_locked")
            /\ UNCHANGED <<globalLock, transferLock>>
    /\ UNCHANGED <<dbVars, diskVars, chunk, faults>>

(* Seeded fault: only the recorded path is looked at.                      *)
FoundIn_PathOnly(t, path) ==
    IF path # "none" /\ file[t][path] # "none" THEN path ELSE "none"

(* The file to keep: where the row says, or where a move that was never    *)
(* committed may have left it, looked for in this order.                   *)
FoundIn(t, path) ==
    LET Has(d) == file[t][d] # "none" IN
    CASE path # "none" /\ Has(path) -> path
      [] Has("Failed")              -> "Failed"
      [] Has("Imported")            -> "Imported"
      [] Has("Ready")               -> "Ready"
      [] OTHER                      -> "none"

PersistMove(p) ==
    LET t    == tr[p]
        from == FoundIn(t, sess[p].path)
    IN  /\ pc[p] = "f_locked"
        /\ file' = IF from \in {"none", "Failed"} THEN file
                   ELSE [file EXCEPT ![t][from] = "none",
                                     ![t]["Failed"] = file[t][from]]
        /\ Goto(p, "f_moved")
        /\ UNCHANGED <<dbVars, partFile, damaged, overwritten, lockVars, sess,
                       chunk, faults>>

(* The path is updated if a file was found; it is then in Failed.          *)
CommitFailed(p) ==
    LET t == tr[p] IN
    /\ pc[p] = "f_moved"
    /\ WriteStatus(t, p, "FAILED")
    /\ IF file[t]["Failed"] # "none" THEN WritePath(t, p, "Failed")
                                     ELSE UNCHANGED assembledPath
    /\ Finish(p)
    /\ UNCHANGED <<partRow, minute, diskVars, chunk, faults>>

-----------------------------------------------------------------------------
(* Failures, crashes and the other parties                                 *)

(* A lock timeout, a database or an operating system error, a session that *)
(* was ended, a broken upload: where the code has no handler for it the    *)
(* request ends in a 5xx and its transaction is rolled back.               *)
AbortPc == {"p_adrift"} \cup PutPc \cup PhaseOnePc \cup FailPc \cup BeginPc
           \cup {"c_importing", "c_relock"}

Abort(p) ==
    /\ faults < MaxFaults
    /\ pc[p] \in AbortPc
    /\ Finish(p)
    /\ faults' = faults + 1
    /\ UNCHANGED <<dbVars, diskVars, chunk>>

(* Once the import locks are held again every error is caught and recorded. *)
ImportFails(p) ==
    /\ faults < MaxFaults
    /\ pc[p] \in {"c_import_wait", "c_import", "c_moved"}
    /\ RaiseTransferError(p)
    /\ faults' = faults + 1
    /\ UNCHANGED <<dbVars, diskVars, chunk>>

(* The backend stops: the database rolls back and frees the locks, the     *)
(* spool directory stays as it is.                                         *)
Crash ==
    /\ faults < MaxFaults
    /\ \E p \in Proc : pc[p] # "idle"
    /\ pc' = [p \in Proc |-> "idle"]
    /\ tr' = [p \in Proc |-> NoTransfer]
    /\ part' = [p \in Proc |-> NoPart]
    /\ digest' = [p \in Proc |-> "good"]
    /\ sess' = [p \in Proc |-> NoRow]
    /\ rowLock' = [t \in Transfer |-> NoProc]
    /\ globalLock' = NoProc
    /\ transferLock' = [t \in Transfer |-> NoProc]
    /\ faults' = faults + 1
    /\ UNCHANGED <<dbVars, diskVars, chunk>>

(* A stored part file is lost or no longer holds the bytes written.        *)
DamagePart(t, n) ==
    /\ faults < MaxFaults
    /\ partFile[t][n] # "none"
    /\ \E left \in {"none", "torn"} :
          partFile' = [partFile EXCEPT ![t][n] = left]
    /\ damaged' = damaged \cup {<<t, n>>}
    /\ faults' = faults + 1
    /\ UNCHANGED <<dbVars, file, overwritten, lockVars, procVars, chunk>>

(* The collector reads the status and deletes a chunk that is VERIFIED.    *)
Poll(t) ==
    /\ chunk[t] = "held"
    /\ status[t] = "VERIFIED"
    /\ chunk' = [chunk EXCEPT ![t] = "dropped"]
    /\ UNCHANGED <<dbVars, diskVars, lockVars, procVars, faults>>

(* The online ingest writes a key: ON CONFLICT DO UPDATE.                  *)
OnlineUpsert(k) ==
    /\ minute' = [minute EXCEPT ![k] = "online"]
    /\ UNCHANGED <<status, assembledPath, partRow, diskVars, lockVars,
                   procVars, chunk, faults>>

-----------------------------------------------------------------------------
PutStep(p) ==
    \/ PartStore(p) \/ IdleTimeout(p) \/ PartCommit(p)
    \/ MoveOrphan(p) \/ MarkQuarantined(p)

CompleteStep(p) ==
    \/ Assemble(p) \/ AssembleFails(p) \/ RestoreFailed(p)
    \/ ValidateReady(p) \/ FileInvalid(p)
    \/ CommitReady(p) \/ RefreshReady(p)
    \/ AcquireImportLocks(p) \/ ImportLocksRefused(p)
    \/ BeginLock(p) \/ BeginFindsVerified(p) \/ BeginNotReady(p)
    \/ CommitImporting(p) \/ RefreshImporting(p)
    \/ ImportLock(p) \/ ImportNotImporting(p) \/ ImportMove(p)
    \/ CommitVerified(p)
    \/ PersistLock(p) \/ PersistMove(p) \/ CommitFailed(p)

(* The steps of a running request that wait for a row lock.               *)
RowLockStep(p) ==
    \/ BeginLock(p) \/ BeginFindsVerified(p) \/ BeginNotReady(p)
    \/ ImportLock(p) \/ ImportNotImporting(p)
    \/ PersistLock(p)

Request(p) ==
    \/ \E t \in Transfer, n \in Part, d \in Digest : PartLock(p, t, n, d)
    \/ \E t \in Transfer : CompleteLock(p, t)

Next ==
    \/ \E p \in Proc : Request(p) \/ PutStep(p) \/ StoreAdrift(p)
                        \/ CompleteStep(p)
    \/ \E p \in Proc : Abort(p) \/ ImportFails(p)
    \/ Crash
    \/ \E t \in Transfer, n \in Part : DamagePart(t, n)
    \/ \E t \in Transfer : Poll(t)
    \/ \E k \in Key : OnlineUpsert(k)

Spec == Init /\ [][Next]_vars

-----------------------------------------------------------------------------
(* Fairness.  A worker thread keeps running and the lock queue of the      *)
(* database serves every waiter (strong fairness for a request that waits  *)
(* for a row others take and give back).  A client that stalls may never    *)
(* send the body of a part: then idle_in_transaction_session_timeout ends  *)
(* the session, but nothing ends the handler.                              *)
RequestFairness ==
    \A p \in Proc :
        /\ WF_vars(PutStep(p) \/ CompleteStep(p))
        /\ SF_vars(RowLockStep(p))

(* The collector repeats its requests until it is told VERIFIED.           *)
CollectorFairness ==
    \A t \in Transfer :
        /\ \A n \in Part : SF_vars(\E p \in Proc : PartLock(p, t, n, "good"))
        /\ SF_vars(\E p \in Proc : CompleteLock(p, t))
        /\ WF_vars(Poll(t))

FairSpec == Spec /\ RequestFairness

-----------------------------------------------------------------------------
(* What the transfer promises                                              *)

(* At most one request, of any transfer, is between taking the advisory    *)
(* import locks and the end of that transaction, although complete_transfer *)
(* gives the locks up and takes them again half way.                       *)
ImportExclusive ==
    \A p, q \in Proc :
        pc[p] \in ImportSection /\ pc[q] \in ImportSection => p = q

(* The collector deletes its only copy of a chunk when it reads VERIFIED:  *)
(* by then every row of the chunk is in the minute table, whatever crashed, *)
(* was retried or ran at the same time.                                    *)
NothingLost ==
    \A t \in Transfer : chunk[t] = "dropped" =>
        \A k \in RowsOf[t] : minute[k] # "absent"

(* A confirmed part (its number is reported to the collector, which never  *)
(* sends it again) is on disk with the bytes it was confirmed with, in     *)
(* spite of crashes, unless the disk itself lost it or another PUT of the  *)
(* part, with other bytes, lost its session and with it the row lock while *)
(* its body was on its way, and put its file in place all the same.        *)
ConfirmedPartOnDisk ==
    \A t \in Transfer, n \in Part :
        partRow[t][n] # "none" /\ <<t, n>> \notin damaged \cup overwritten
            => partFile[t][n] = partRow[t][n]

(* Files are moved before the commit that records the move, and a crash or *)
(* an error can come between the two; still a transfer that is READY or    *)
(* IMPORTING has a valid file in one of the three directories              *)
(* _persist_failed looks into, so that a retry can import it.              *)
FileRecoverable ==
    \A t \in Transfer : status[t] \in {"READY", "IMPORTING"} =>
        \E d \in Dir : file[t][d] = "good"

(* While a transfer is VERIFIED the imported file is in Imported, where    *)
(* the retention looks for it: a late failure of another request for the   *)
(* same transfer does not move it away.                                    *)
VerifiedFileKept ==
    \A t \in Transfer : status[t] = "VERIFIED" => file[t]["Imported"] = "good"

(* What holds of status changes when several requests work on a transfer:  *)
(* one outside the table ALLOWED_TRANSITIONS is made by a session that     *)
(* holds the row lock with an outdated status cached, and it can only be   *)
(* the one to IMPORTING or the one to VERIFIED.  In particular no failure  *)
(* is ever recorded over VERIFIED or QUARANTINED.                          *)
IllegalOnlyWhenStale ==
    [][\A t \in Transfer :
          \/ status'[t] = status[t]
          \/ status'[t] \in AllowedTransitions[status[t]]
          \/ /\ status'[t] \in {"IMPORTING", "VERIFIED"}
             /\ \E p \in Proc : /\ rowLock[t] = p
                                /\ tr[p] = t
                                /\ sess[p].status # status[t]]_vars

(* The table ALLOWED_TRANSITIONS gives VERIFIED and QUARANTINED no         *)
(* successor.  Two requests for the same transfer break this.              *)
TerminalIsFinal ==
    [][\A t \in Transfer :
          status[t] \in {"VERIFIED", "QUARANTINED"}
              => status'[t] = status[t]]_vars

(* The requests implement the promise made to the collector: the minute    *)
(* table changes only by online writes and by whole imports that replace   *)
(* nothing, and a chunk is dropped only when it is stored.                 *)
Delivery == INSTANCE DurableDelivery WITH minute <- minute, chunk <- chunk

ImplementsDelivery == Delivery!Spec

(* No request waits for ever, every handler becomes free again and again:  *)
(* row locks, advisory locks and _persist_failed of several requests cannot *)
(* block each other in a circle.  Only a PUT whose client never sends the  *)
(* body may stay, and it keeps no lock.                                    *)
RequestsEnd ==
    \A p \in Proc : []<>(pc[p] \in {"idle", "p_adrift"})

OneAtATime == \A p, q \in Proc : pc[p] # "idle" /\ pc[q] # "idle" => p = q

(* A collector that repeats its requests one at a time gets its chunk      *)
(* stored and acknowledged, whatever failed or stalled on the way and      *)
(* wherever a crash left the file, unless the transfer has been            *)
(* quarantined, a part was sent with other bytes than the manifest's, or   *)
(* the disk lost one.                                                      *)
Delivered ==
    CollectorFairness /\ []OneAtATime =>
        \A t \in Transfer :
            <>(\/ chunk[t] = "dropped"
               \/ status[t] = "QUARANTINED"
               \/ \E n \in Part : partRow[t][n] = "bad" \/ <<t, n>> \in damaged)
=============================================================================
