------------------------ MODULE OfflineTransferProofs ------------------------
EXTENDS OfflineTransfer, TLAPS

(***************************************************************************)
(* Proofs about OfflineTransfer.  The properties are seldom inductive: a   *)
(* request acts on what it read or moved some steps ago, so the invariant  *)
(* says, for each program point, which locks the request holds (LockInv),  *)
(* how far its cached row can be trusted (CacheInv), and which part and    *)
(* which file it has put in place (PartInv, FileInv); StoredInv links the  *)
(* status of a transfer to the minute table.  Each is shown to survive a   *)
(* step of the request itself (...Own) and then, because a step changes    *)
(* only rows whose lock it holds (StepFrame), a step of anybody else.  The *)
(* one step that changes something without the lock, the file a PUT puts   *)
(* in place after its session has ended (StoreAdrift), is treated apart.   *)
(***************************************************************************)

(* Points at which a process holds the lock of the row it works on.        *)
HoldsRow == PutPc \cup {"c_locked", "c_staged", "c_begin_locked", "c_import",
                        "c_moved", "f_locked", "f_moved"}

LockOf(p) ==
    /\ pc[p] # "idle" => tr[p] \in Transfer
    /\ pc[p] \in {"p_adrift"} \cup PutPc => part[p] \in Part
    /\ pc[p] \in HoldsRow => rowLock[tr[p]] = p
    /\ pc[p] \in ImportSection => globalLock = p

LockInv == \A p \in Proc : LockOf(p)

(* Points at which the row was loaded under the lock that is still held.   *)
FreshPc == HoldsRow \ {"c_begin_locked", "c_import", "c_moved"}

CacheOf(p) ==
    /\ pc[p] \in FreshPc => sess[p] = RowOf(tr[p])
    /\ pc[p] \in {"c_locked", "f_locked", "f_moved"} =>
          sess[p].status \notin {"VERIFIED", "QUARANTINED"}
    /\ pc[p] \in PutPc => sess[p].status # "VERIFIED"
    /\ pc[p] = "c_begin_locked" =>
          sess[p].status \in {"READY", "FAILED", "IMPORTING"}
    /\ pc[p] \in {"c_import", "c_moved"} => sess[p].status = "IMPORTING"

CacheInv == \A p \in Proc : CacheOf(p)

(* A part that is being stored has no row yet, and its file is in place    *)
(* when its row is about to be committed, unless it was lost or overwritten *)
(* by a PUT that no longer has the lock.                                   *)
PartOf(p) ==
    /\ pc[p] \in {"p_receive", "p_orphan"} => partRow[tr[p]][part[p]] = "none"
    /\ pc[p] = "p_stored" =>
          /\ partRow[tr[p]][part[p]] = "none"
          /\ \/ partFile[tr[p]][part[p]] = digest[p]
             \/ <<tr[p], part[p]>> \in damaged \cup overwritten

PartInv == ConfirmedPartOnDisk /\ \A p \in Proc : PartOf(p)

(* Once a transfer has been READY a valid file stays somewhere.            *)
HasGood(t) == \E d \in Dir : file[t][d] = "good"

AfterReady == BeginPc \cup ImportPc

FileOfProc(p) ==
    /\ pc[p] \in AfterReady =>
          status[tr[p]] # "UPLOADING" /\ HasGood(tr[p])
    /\ pc[p] = "c_staged" => file[tr[p]]["Ready"] = "good"
    /\ pc[p] = "c_moved" => file[tr[p]]["Imported"] = "good"

FileOf(t) ==
    /\ file[t]["Ready"] # "bad" /\ file[t]["Imported"] # "bad"
    /\ status[t] \in {"READY", "IMPORTING", "VERIFIED"} => HasGood(t)
    /\ status[t] = "VERIFIED" => file[t]["Imported"] = "good"

FileInv == (\A t \in Transfer : FileOf(t)) /\ \A p \in Proc : FileOfProc(p)

Stored(t) == \A k \in RowsOf[t] : minute[k] # "absent"

StoredInv ==
    \A t \in Transfer : chunk[t] = "dropped" \/ status[t] = "VERIFIED"
        => Stored(t)

IInv == TypeOK /\ LockInv /\ CacheInv /\ PartInv /\ FileInv /\ StoredInv

-----------------------------------------------------------------------------
(* What the helpers the handlers share do to the types                     *)

(* Ending a transaction leaves the locks well typed.                       *)
LEMMA ReleaseType ==
    ASSUME LockTypeOK, NEW p \in Proc, ReleaseLocks(p)
    PROVE  LockTypeOK'
BY DEF LockTypeOK, ReleaseLocks

(* So does answering a request, of which nothing is remembered.            *)
LEMMA FinishType ==
    ASSUME LockTypeOK, ProcTypeOK, NEW p \in Proc, Finish(p)
    PROVE  LockTypeOK' /\ ProcTypeOK'
<1>1. LockTypeOK'
  BY ReleaseType DEF Finish
<1>2. NoRow \in Row /\ "idle" \in Pc /\ "good" \in Digest
  BY DEF NoRow, Row, Status, Path, Dir, Pc, Digest
<1>3. ProcTypeOK'
  BY <1>2 DEF Finish, ProcTypeOK
<1>. QED BY <1>1, <1>3

(* Moving a request on, with the row cached or not, keeps the types.       *)
LEMMA GotoType ==
    ASSUME ProcTypeOK, NEW p \in Proc, NEW next \in Pc, Goto(p, next),
           \/ UNCHANGED sess
           \/ \E row \in Row : Load(p, row)
    PROVE  ProcTypeOK'
BY DEF ProcTypeOK, Goto, Load

(* An error that goes to _persist_failed keeps the types.                  *)
LEMMA RaiseType ==
    ASSUME LockTypeOK, ProcTypeOK, NEW p \in Proc, RaiseTransferError(p)
    PROVE  LockTypeOK' /\ ProcTypeOK'
<1>1. NoRow \in Row /\ "f_wait" \in Pc
  BY DEF NoRow, Row, Status, Path, Dir, Pc, FailPc
<1>. QED BY <1>1, ReleaseType, GotoType DEF RaiseTransferError

(* What a session loads is a row.                                          *)
LEMMA RowOfType ==
    ASSUME DbTypeOK, NEW t \in Transfer
    PROVE  RowOf(t) \in Row
BY DEF DbTypeOK, RowOf, Row

(* A request that starts keeps the types.                                  *)
LEMMA StartType ==
    ASSUME DbTypeOK, LockTypeOK, ProcTypeOK, NEW p \in Proc,
           NEW t \in Transfer, NEW next \in Pc, Start(p, t, next),
           part' \in [Proc -> Part \cup {NoPart}], digest' \in [Proc -> Digest]
    PROVE  LockTypeOK' /\ ProcTypeOK'
BY RowOfType DEF LockTypeOK, ProcTypeOK, Start, Load

(* A flushed status is a status.                                           *)
LEMMA WriteStatusType ==
    ASSUME DbTypeOK, NEW p \in Proc, NEW t \in Transfer, NEW new \in Status,
           WriteStatus(t, p, new)
    PROVE  status' \in [Transfer -> Status]
BY DEF DbTypeOK, WriteStatus, Flushed

(* A flushed path is a path.                                               *)
LEMMA WritePathType ==
    ASSUME DbTypeOK, NEW p \in Proc, NEW t \in Transfer, NEW new \in Path,
           WritePath(t, p, new)
    PROVE  assembledPath' \in [Transfer -> Path]
BY DEF DbTypeOK, WritePath, Flushed

(* _persist_failed finds a file in one of the directories, or none.        *)
LEMMA FoundInType ==
    ASSUME NEW t \in Transfer, NEW path \in Path
    PROVE  FoundIn(t, path) \in Path
BY DEF FoundIn, Path, Dir

-----------------------------------------------------------------------------
(* Type correctness is preserved by every step.                            *)

(* Every handler, a crash and the other parties keep the types.            *)
LEMMA TypeStep ==
    TypeOK /\ LockInv /\ [Next]_vars => TypeOK'
<1> SUFFICES ASSUME TypeOK, LockInv, [Next]_vars PROVE TypeOK'
    OBVIOUS
<1>a. DbTypeOK /\ DiskTypeOK /\ LockTypeOK /\ ProcTypeOK
  BY DEF TypeOK
<1>b. \A p \in Proc : pc[p] # "idle" =>
         tr[p] \in Transfer /\ RowOf(tr[p]) \in Row /\ sess[p] \in Row
  BY <1>a, RowOfType DEF LockInv, LockOf, ProcTypeOK
<1>c. NoRow \in Row
  BY DEF NoRow, Row, Status, Path, Dir
<1> USE DEF TypeOK, LockOf, dbVars, diskVars, lockVars, procVars
<1>1. ASSUME NEW p \in Proc, NEW t \in Transfer, NEW n \in Part,
             NEW d \in Digest, PartLock(p, t, n, d)
      PROVE  TypeOK'
  <2>1. PICK next \in {"p_conflict", "p_receive", "p_stored", "p_orphan"} :
           StartPart(p, t, n, d, next)
    BY <1>1 DEF PartLock
  <2>2. part' \in [Proc -> Part \cup {NoPart}] /\ digest' \in [Proc -> Digest]
    BY <2>1, <1>a DEF StartPart, ProcTypeOK
  <2>3. LockTypeOK' /\ ProcTypeOK'
    BY <2>1, <2>2, <1>a, StartType DEF StartPart, Pc, PutPc
  <2>. QED BY <2>1, <2>3 DEF StartPart, Start, DbTypeOK, DiskTypeOK
<1>2. ASSUME NEW p \in Proc, NEW t \in Transfer, CompleteLock(p, t)
      PROVE  TypeOK'
  <2>1. LockTypeOK' /\ ProcTypeOK'
    BY <1>2, <1>a, StartType DEF CompleteLock, Pc, PhaseOnePc, ProcTypeOK
  <2>. QED BY <1>2, <2>1 DEF CompleteLock, Start, DbTypeOK, DiskTypeOK
<1>3. ASSUME NEW p \in Proc, PartStore(p) PROVE TypeOK'
  <2>1. ProcTypeOK'
    BY <1>3, <1>a, GotoType DEF PartStore, Pc, PutPc
  <2>2. DiskTypeOK'
    BY <1>3, <1>a, <1>b DEF PartStore, DiskTypeOK, PartFile, ProcTypeOK
  <2>. QED BY <1>3, <2>1, <2>2 DEF PartStore, DbTypeOK, LockTypeOK
<1>4. ASSUME NEW p \in Proc, MoveOrphan(p) PROVE TypeOK'
  <2>1. ProcTypeOK'
    BY <1>4, <1>a, GotoType DEF MoveOrphan, Pc, PutPc
  <2>2. DiskTypeOK'
    BY <1>4, <1>a, <1>b DEF MoveOrphan, DiskTypeOK, PartFile, Digest
  <2>. QED BY <1>4, <2>1, <2>2 DEF MoveOrphan, DbTypeOK, LockTypeOK
<1>5. ASSUME NEW p \in Proc, Assemble(p) PROVE TypeOK'
  <2>1. ProcTypeOK'
    BY <1>5, <1>a, GotoType DEF Assemble, Pc, PhaseOnePc
  <2>2. DiskTypeOK'
    BY <1>5, <1>a, <1>b DEF Assemble, DiskTypeOK, Assembled
  <2>. QED BY <1>5, <2>1, <2>2 DEF Assemble, DbTypeOK, LockTypeOK
<1>6. ASSUME NEW p \in Proc, RestoreFailed(p) PROVE TypeOK'
  <2>1. ProcTypeOK'
    BY <1>6, <1>a, GotoType DEF RestoreFailed, Pc, PhaseOnePc
  <2>2. DiskTypeOK'
    BY <1>6, <1>a, <1>b DEF RestoreFailed, DiskTypeOK, Assembled
  <2>. QED BY <1>6, <2>1, <2>2 DEF RestoreFailed, DbTypeOK, LockTypeOK
<1>7. ASSUME NEW p \in Proc, ImportMove(p) PROVE TypeOK'
  <2>1. ProcTypeOK'
    BY <1>7, <1>a, GotoType DEF ImportMove, Pc, ImportPc
  <2>2. DiskTypeOK'
    BY <1>7, <1>a, <1>b DEF ImportMove, DiskTypeOK, Assembled, Dir
  <2>. QED BY <1>7, <2>1, <2>2 DEF ImportMove, DbTypeOK, LockTypeOK
<1>8. ASSUME NEW p \in Proc, PersistMove(p) PROVE TypeOK'
  <2>1. ProcTypeOK'
    BY <1>8, <1>a, GotoType DEF PersistMove, Pc, FailPc
  <2>2. DiskTypeOK'
    <3>1. tr[p] \in Transfer /\ sess[p].path \in Path
      BY <1>8, <1>b DEF PersistMove, Row
    <3>2. FoundIn(tr[p], sess[p].path) \in Path
      BY <3>1, FoundInType
    <3> DEFINE t == tr[p]  from == FoundIn(t, sess[p].path)
    <3>3. CASE from \in {"none", "Failed"}
      BY <1>8, <3>3, <1>a DEF PersistMove, DiskTypeOK
    <3>4. CASE from \notin {"none", "Failed"}
      <4>1. file[t] \in [Dir -> Assembled] /\ from \in Dir
        BY <3>1, <3>2, <3>4, <1>a DEF DiskTypeOK, Path
      <4>2. file' = [file EXCEPT ![t][from] = "none",
                                 ![t]["Failed"] = file[t][from]]
        BY <1>8, <3>4 DEF PersistMove
      <4>3. "none" \in Assembled /\ file[t][from] \in Assembled
        BY <4>1 DEF Assembled
      <4>4. [file[t] EXCEPT ![from] = "none", !["Failed"] = file[t][from]]
               \in [Dir -> Assembled]
        BY <4>1, <4>3
      <4>5. file' \in [Transfer -> [Dir -> Assembled]]
        BY <3>1, <4>2, <4>4, <1>a DEF DiskTypeOK
      <4>. QED BY <1>8, <4>5, <1>a DEF PersistMove, DiskTypeOK
    <3>. QED BY <3>3, <3>4
  <2>. QED BY <1>8, <2>1, <2>2 DEF PersistMove, DbTypeOK, LockTypeOK
<1>9. ASSUME NEW p \in Proc, ValidateReady(p) PROVE TypeOK'
  <2>1. ProcTypeOK'
    BY <1>9, <1>a, GotoType DEF ValidateReady, Pc, BeginPc
  <2>. QED BY <1>9, <2>1 DEF ValidateReady, DbTypeOK, DiskTypeOK, LockTypeOK
<1>10. ASSUME NEW p \in Proc, RefreshReady(p) PROVE TypeOK'
  <2>1. ProcTypeOK'
    BY <1>10, <1>a, <1>b, GotoType DEF RefreshReady, Pc, BeginPc
  <2>. QED BY <1>10, <2>1 DEF RefreshReady, DbTypeOK, DiskTypeOK, LockTypeOK
<1>11. ASSUME NEW p \in Proc, AcquireImportLocks(p) PROVE TypeOK'
  <2>1. ProcTypeOK'
    BY <1>11, <1>a, GotoType DEF AcquireImportLocks, Pc, BeginPc, ImportPc
  <2>2. LockTypeOK'
    BY <1>11, <1>a DEF AcquireImportLocks, LockTypeOK, TakeImportLocks
  <2>. QED BY <1>11, <2>1, <2>2 DEF AcquireImportLocks, DbTypeOK, DiskTypeOK
<1>12. ASSUME NEW p \in Proc, BeginLock(p) PROVE TypeOK'
  <2>1. ProcTypeOK'
    BY <1>12, <1>a, GotoType DEF BeginLock, Pc, BeginPc, ImportPc
  <2>2. LockTypeOK'
    BY <1>12, <1>a DEF BeginLock, LockTypeOK, TakeImportLocks
  <2>. QED BY <1>12, <2>1, <2>2 DEF BeginLock, DbTypeOK, DiskTypeOK
<1>13. ASSUME NEW p \in Proc, ImportLock(p) PROVE TypeOK'
  <2>1. ProcTypeOK'
    BY <1>13, <1>a, GotoType DEF ImportLock, Pc, BeginPc, ImportPc
  <2>2. LockTypeOK'
    BY <1>13, <1>a DEF ImportLock, LockTypeOK, TakeImportLocks
  <2>. QED BY <1>13, <2>1, <2>2 DEF ImportLock, DbTypeOK, DiskTypeOK
<1>14. ASSUME NEW p \in Proc, ImportLocksRefused(p) PROVE TypeOK'
  BY <1>14, <1>a, FinishType DEF ImportLocksRefused, DbTypeOK, DiskTypeOK
<1>15. ASSUME NEW p \in Proc, BeginNotReady(p) PROVE TypeOK'
  BY <1>15, <1>a, FinishType DEF BeginNotReady, DbTypeOK, DiskTypeOK
<1>16. ASSUME NEW p \in Proc, Abort(p) PROVE TypeOK'
  BY <1>16, <1>a, FinishType DEF Abort, DbTypeOK, DiskTypeOK
<1>17. ASSUME NEW p \in Proc, FileInvalid(p) PROVE TypeOK'
  BY <1>17, <1>a, RaiseType DEF FileInvalid, DbTypeOK, DiskTypeOK
<1>18. ASSUME NEW p \in Proc, ImportNotImporting(p) PROVE TypeOK'
  BY <1>18, <1>a, RaiseType DEF ImportNotImporting, DbTypeOK, DiskTypeOK
<1>19. ASSUME NEW p \in Proc, ImportFails(p) PROVE TypeOK'
  BY <1>19, <1>a, RaiseType DEF ImportFails, DbTypeOK, DiskTypeOK
<1>20. ASSUME NEW p \in Proc, AssembleFails(p) PROVE TypeOK'
  <2>1. DiskTypeOK'
    BY <1>20, <1>a DEF AssembleFails, DiskTypeOK, Assembled
  <2>. QED BY <1>20, <2>1, <1>a, RaiseType DEF AssembleFails, DbTypeOK
<1>21. ASSUME NEW p \in Proc, PartCommit(p) PROVE TypeOK'
  <2>1. DbTypeOK'
    BY <1>21, <1>a, <1>b, WriteStatusType, WritePathType
       DEF PartCommit, DbTypeOK, PutPc, PartRow, ProcTypeOK
  <2>. QED BY <1>21, <2>1, <1>a, FinishType DEF PartCommit, DiskTypeOK
<1>22. ASSUME NEW p \in Proc, MarkQuarantined(p) PROVE TypeOK'
  <2>1. DbTypeOK'
    BY <1>22, <1>a, <1>b, WriteStatusType, WritePathType
       DEF MarkQuarantined, DbTypeOK, PutPc, Status
  <2>. QED BY <1>22, <2>1, <1>a, FinishType DEF MarkQuarantined, DiskTypeOK
<1>23. ASSUME NEW p \in Proc, CommitVerified(p) PROVE TypeOK'
  <2>1. DbTypeOK'
    BY <1>23, <1>a, <1>b, WriteStatusType, WritePathType
       DEF CommitVerified, DbTypeOK, PutPc, Status, Path, Dir, Merged
  <2>. QED BY <1>23, <2>1, <1>a, FinishType DEF CommitVerified, DiskTypeOK
<1>24. ASSUME NEW p \in Proc, CommitFailed(p) PROVE TypeOK'
  <2>1. DbTypeOK'
    BY <1>24, <1>a, <1>b, WriteStatusType, WritePathType
       DEF CommitFailed, DbTypeOK, PutPc, Status, Path, Dir
  <2>. QED BY <1>24, <2>1, <1>a, FinishType DEF CommitFailed, DiskTypeOK
<1>25. ASSUME NEW p \in Proc, CommitReady(p) PROVE TypeOK'
  <2>1. DbTypeOK'
    BY <1>25, <1>a, <1>b, WriteStatusType, WritePathType
       DEF CommitReady, DbTypeOK, Status, Path, Dir
  <2>2. ProcTypeOK' /\ LockTypeOK'
    BY <1>25, <1>a, <1>c, GotoType, ReleaseType DEF CommitReady, Pc, BeginPc
  <2>. QED BY <1>25, <2>1, <2>2 DEF CommitReady, DiskTypeOK
<1>26. ASSUME NEW p \in Proc, CommitImporting(p) PROVE TypeOK'
  <2>1. DbTypeOK'
    BY <1>26, <1>a, <1>b, WriteStatusType, WritePathType
       DEF CommitImporting, DbTypeOK, Status, Path, Dir
  <2>2. ProcTypeOK' /\ LockTypeOK'
    BY <1>26, <1>a, <1>c, GotoType, ReleaseType DEF CommitImporting, Pc, ImportPc
  <2>. QED BY <1>26, <2>1, <2>2 DEF CommitImporting, DiskTypeOK
<1>27. ASSUME NEW p \in Proc, BeginFindsVerified(p) PROVE TypeOK'
  <2>1. ProcTypeOK' /\ LockTypeOK'
    BY <1>27, <1>a, <1>c, GotoType, ReleaseType
       DEF BeginFindsVerified, Pc, ImportPc
  <2>. QED BY <1>27, <2>1 DEF BeginFindsVerified, DbTypeOK, DiskTypeOK
<1>28. ASSUME NEW p \in Proc, RefreshImporting(p) PROVE TypeOK'
  <2>1. CASE Finish(p)
    BY <1>28, <2>1, <1>a, FinishType DEF RefreshImporting, DbTypeOK, DiskTypeOK
  <2>2. CASE ~Finish(p)
    <3>1. ProcTypeOK'
      BY <1>28, <2>2, <1>a, <1>b, GotoType DEF RefreshImporting, Pc, ImportPc
    <3>2. LockTypeOK'
      BY <1>28, <2>2, <1>a DEF RefreshImporting, LockTypeOK
    <3>. QED BY <1>28, <3>1, <3>2 DEF RefreshImporting, DbTypeOK, DiskTypeOK
  <2>. QED BY <2>1, <2>2
<1>29. ASSUME NEW p \in Proc, PersistLock(p) PROVE TypeOK'
  <2>1. CASE Finish(p)
    BY <1>29, <2>1, <1>a, FinishType DEF PersistLock, DbTypeOK, DiskTypeOK
  <2>2. CASE ~Finish(p)
    <3>1. ProcTypeOK'
      BY <1>29, <2>2, <1>a, <1>b, GotoType DEF PersistLock, Pc, FailPc
    <3>2. LockTypeOK'
      BY <1>29, <2>2, <1>a DEF PersistLock, LockTypeOK
    <3>. QED BY <1>29, <3>1, <3>2 DEF PersistLock, DbTypeOK, DiskTypeOK
  <2>. QED BY <2>1, <2>2
<1>30. CASE Crash
  <2>1. ProcTypeOK' /\ LockTypeOK'
    BY <1>30, <1>a, <1>c DEF Crash, ProcTypeOK, LockTypeOK, Pc, Digest
  <2>. QED BY <1>30, <2>1 DEF Crash, DbTypeOK, DiskTypeOK
<1>31. ASSUME NEW t \in Transfer, NEW m \in Part, DamagePart(t, m)
      PROVE  TypeOK'
  <2>1. DiskTypeOK'
    BY <1>31, <1>a DEF DamagePart, DiskTypeOK, PartFile
  <2>. QED BY <1>31, <2>1 DEF DamagePart, DbTypeOK, LockTypeOK, ProcTypeOK
<1>32. ASSUME NEW t \in Transfer, Poll(t) PROVE TypeOK'
  BY <1>32 DEF Poll, DbTypeOK, DiskTypeOK, LockTypeOK, ProcTypeOK
<1>33. ASSUME NEW k \in Key, OnlineUpsert(k) PROVE TypeOK'
  BY <1>33 DEF OnlineUpsert, DbTypeOK, DiskTypeOK, LockTypeOK, ProcTypeOK
<1>34. ASSUME NEW p \in Proc, IdleTimeout(p) PROVE TypeOK'
  <2>1. ProcTypeOK' /\ LockTypeOK'
    BY <1>34, <1>a, GotoType, ReleaseType DEF IdleTimeout, Pc
  <2>. QED BY <1>34, <2>1 DEF IdleTimeout, DbTypeOK, DiskTypeOK
<1>35. ASSUME NEW p \in Proc, StoreAdrift(p) PROVE TypeOK'
  <2>1. DiskTypeOK'
    BY <1>35, <1>a, <1>b DEF StoreAdrift, DiskTypeOK, PartFile, ProcTypeOK,
       LockInv
  <2>. QED BY <1>35, <2>1, <1>a, FinishType DEF StoreAdrift, DbTypeOK
<1>36. CASE UNCHANGED vars
  BY <1>36 DEF vars, DbTypeOK, DiskTypeOK, LockTypeOK, ProcTypeOK
<1>. QED BY <1>1, <1>2, <1>3, <1>4, <1>5, <1>6, <1>7, <1>8, <1>9, <1>10,
    <1>11, <1>12, <1>13, <1>14, <1>15, <1>16, <1>17, <1>18, <1>19, <1>20,
    <1>21, <1>22, <1>23, <1>24, <1>25, <1>26, <1>27, <1>28, <1>29, <1>30,
    <1>31, <1>32, <1>33, <1>34, <1>35, <1>36
    DEF Next, Request, PutStep, CompleteStep

-----------------------------------------------------------------------------
(* What a step of a process leaves alone.                                  *)

ProcStep(p) ==
    Request(p) \/ PutStep(p) \/ CompleteStep(p) \/ Abort(p) \/ ImportFails(p)

SameProc(q) ==
    /\ pc'[q] = pc[q] /\ tr'[q] = tr[q] /\ part'[q] = part[q]
    /\ digest'[q] = digest[q] /\ sess'[q] = sess[q]

SameRow(t) ==
    /\ status'[t] = status[t] /\ assembledPath'[t] = assembledPath[t]
    /\ partRow'[t] = partRow[t] /\ partFile'[t] = partFile[t]
    /\ file'[t] = file[t]

ProcFrame(p) == \A q \in Proc : q # p => SameProc(q)

LockFrame(p) ==
    /\ \A t \in Transfer : rowLock'[t] = rowLock[t] \/ rowLock[t] \in {NoProc, p}
    /\ globalLock' = globalLock \/ globalLock \in {NoProc, p}

RowFrame(p) == \A t \in Transfer : rowLock[t] = p \/ SameRow(t)

(* Moving a request on leaves the other requests alone.                    *)
LEMMA GotoFrame ==
    ASSUME ProcTypeOK, NEW p \in Proc, NEW next, Goto(p, next),
           UNCHANGED sess \/ \E row : Load(p, row)
    PROVE  ProcFrame(p)
BY DEF ProcTypeOK, Goto, Load, ProcFrame, SameProc

(* Ending a transaction gives up only locks of its own.                    *)
LEMMA ReleaseFrame ==
    ASSUME LockTypeOK, NEW p \in Proc, ReleaseLocks(p)
    PROVE  LockFrame(p)
BY DEF LockTypeOK, ReleaseLocks, LockFrame

(* Answering a request leaves the others and their locks alone.            *)
LEMMA FinishFrame ==
    ASSUME ProcTypeOK, LockTypeOK, NEW p \in Proc, Finish(p)
    PROVE  ProcFrame(p) /\ LockFrame(p) /\ pc'[p] = "idle"
<1>1. LockFrame(p)
  BY ReleaseFrame DEF Finish
<1>2. ProcFrame(p) /\ pc'[p] = "idle"
  BY DEF Finish, ProcTypeOK, ProcFrame, SameProc
<1>. QED BY <1>1, <1>2

(* Starting a request takes a free row lock and nothing else.              *)
LEMMA StartFrame ==
    ASSUME ProcTypeOK, LockTypeOK, NEW p \in Proc, NEW t \in Transfer, NEW next,
           Start(p, t, next),
           \/ UNCHANGED <<part, digest>>
           \/ \E n, d : /\ part' = [part EXCEPT ![p] = n]
                        /\ digest' = [digest EXCEPT ![p] = d]
    PROVE  ProcFrame(p) /\ LockFrame(p) /\ RowFrame(p)
<1>1. LockFrame(p)
  BY DEF Start, LockTypeOK, LockFrame
<1>2. ProcFrame(p)
  BY DEF Start, Load, ProcTypeOK, ProcFrame, SameProc
<1>3. RowFrame(p)
  BY DEF Start, RowFrame, SameRow, dbVars, diskVars
<1>. QED BY <1>1, <1>2, <1>3

(* A step of p changes no other process, takes only free locks, and changes *)
(* only a row, and the files of a row, whose lock it holds.                *)
LEMMA StepFrame ==
    ASSUME TypeOK, LockInv, NEW p \in Proc, ProcStep(p)
    PROVE  ProcFrame(p) /\ LockFrame(p) /\ RowFrame(p)
<1>a. LockTypeOK /\ ProcTypeOK /\ DbTypeOK /\ DiskTypeOK /\ LockOf(p)
  BY DEF TypeOK, LockInv
<1>b. /\ UNCHANGED lockVars => LockFrame(p)
      /\ UNCHANGED <<dbVars, diskVars>> => RowFrame(p)
  BY DEF lockVars, LockFrame, dbVars, diskVars, RowFrame, SameRow
<1> DEFINE Frame == ProcFrame(p) /\ LockFrame(p) /\ RowFrame(p)
<1>1. ASSUME NEW t \in Transfer, NEW n \in Part, NEW d \in Digest,
             PartLock(p, t, n, d)
      PROVE  Frame
  BY <1>1, <1>a, StartFrame DEF PartLock, StartPart
<1>2. ASSUME NEW t \in Transfer, CompleteLock(p, t) PROVE Frame
  BY <1>2, <1>a, StartFrame DEF CompleteLock
<1>3. CASE PartStore(p)
  <2>1. RowFrame(p)
    BY <1>3, <1>a DEF PartStore, LockOf, HoldsRow, PutPc, DbTypeOK, DiskTypeOK,
       RowFrame, SameRow, dbVars
  <2>. QED BY <1>3, <2>1, <1>a, <1>b, GotoFrame DEF PartStore
<1>4. CASE MoveOrphan(p)
  <2>1. RowFrame(p)
    BY <1>4, <1>a DEF MoveOrphan, LockOf, HoldsRow, PutPc, DbTypeOK, DiskTypeOK,
       RowFrame, SameRow, dbVars
  <2>. QED BY <1>4, <2>1, <1>a, <1>b, GotoFrame DEF MoveOrphan
<1>5. CASE Assemble(p)
  <2>1. RowFrame(p)
    BY <1>5, <1>a DEF Assemble, LockOf, HoldsRow, PutPc, DbTypeOK, DiskTypeOK,
       RowFrame, SameRow, dbVars
  <2>. QED BY <1>5, <2>1, <1>a, <1>b, GotoFrame DEF Assemble
<1>6. CASE RestoreFailed(p)
  <2>1. RowFrame(p)
    BY <1>6, <1>a DEF RestoreFailed, LockOf, HoldsRow, PutPc, DbTypeOK, DiskTypeOK,
       RowFrame, SameRow, dbVars
  <2>. QED BY <1>6, <2>1, <1>a, <1>b, GotoFrame DEF RestoreFailed
<1>7. CASE ImportMove(p)
  <2>1. RowFrame(p)
    BY <1>7, <1>a DEF ImportMove, LockOf, HoldsRow, PutPc, DbTypeOK, DiskTypeOK,
       RowFrame, SameRow, dbVars
  <2>. QED BY <1>7, <2>1, <1>a, <1>b, GotoFrame DEF ImportMove
<1>8. CASE PersistMove(p)
  <2>1. RowFrame(p)
    BY <1>8, <1>a DEF PersistMove, LockOf, HoldsRow, PutPc, DbTypeOK, DiskTypeOK,
       RowFrame, SameRow, dbVars
  <2>. QED BY <1>8, <2>1, <1>a, <1>b, GotoFrame DEF PersistMove
<1>9. CASE ValidateReady(p)
  BY <1>9, <1>a, <1>b, GotoFrame DEF ValidateReady
<1>10. CASE RefreshReady(p)
  BY <1>10, <1>a, <1>b, GotoFrame DEF RefreshReady
<1>11. CASE AcquireImportLocks(p)
  <2>1. LockFrame(p)
    BY <1>11, <1>a DEF AcquireImportLocks, LockOf, LockTypeOK, LockFrame, RowLockFree,
       ImportLocksFree, TakeImportLocks
  <2>. QED BY <1>11, <2>1, <1>a, <1>b, GotoFrame DEF AcquireImportLocks
<1>12. CASE BeginLock(p)
  <2>1. LockFrame(p)
    BY <1>12, <1>a DEF BeginLock, LockOf, LockTypeOK, LockFrame, RowLockFree,
       ImportLocksFree, TakeImportLocks
  <2>. QED BY <1>12, <2>1, <1>a, <1>b, GotoFrame DEF BeginLock
<1>13. CASE ImportLock(p)
  <2>1. LockFrame(p)
    BY <1>13, <1>a DEF ImportLock, LockOf, LockTypeOK, LockFrame, RowLockFree,
       ImportLocksFree, TakeImportLocks
  <2>. QED BY <1>13, <2>1, <1>a, <1>b, GotoFrame DEF ImportLock
<1>14. CASE ImportLocksRefused(p)
  BY <1>14, <1>a, <1>b, FinishFrame DEF ImportLocksRefused
<1>15. CASE BeginNotReady(p)
  BY <1>15, <1>a, <1>b, FinishFrame DEF BeginNotReady
<1>16. CASE Abort(p)
  BY <1>16, <1>a, <1>b, FinishFrame DEF Abort
<1>17. CASE FileInvalid(p)
  BY <1>17, <1>a, <1>b, GotoFrame, ReleaseFrame DEF FileInvalid, RaiseTransferError
<1>18. CASE ImportNotImporting(p)
  BY <1>18, <1>a, <1>b, GotoFrame, ReleaseFrame DEF ImportNotImporting, RaiseTransferError
<1>19. CASE ImportFails(p)
  BY <1>19, <1>a, <1>b, GotoFrame, ReleaseFrame DEF ImportFails, RaiseTransferError
<1>20. CASE BeginFindsVerified(p)
  BY <1>20, <1>a, <1>b, GotoFrame, ReleaseFrame DEF BeginFindsVerified
<1>21. CASE AssembleFails(p)
  <2>1. RowFrame(p)
    BY <1>21, <1>a DEF AssembleFails, LockOf, HoldsRow, DiskTypeOK, RowFrame,
       SameRow, dbVars
  <2>. QED BY <1>21, <2>1, <1>a, GotoFrame, ReleaseFrame
           DEF AssembleFails, RaiseTransferError
<1>22. CASE PartCommit(p)
  <2>1. RowFrame(p)
    BY <1>22, <1>a DEF PartCommit, LockOf, HoldsRow, PutPc, DbTypeOK, RowFrame,
       SameRow, diskVars, WriteStatus, WritePath
  <2>. QED BY <1>22, <2>1, <1>a, FinishFrame DEF PartCommit
<1>23. CASE MarkQuarantined(p)
  <2>1. RowFrame(p)
    BY <1>23, <1>a DEF MarkQuarantined, LockOf, HoldsRow, PutPc, DbTypeOK, RowFrame,
       SameRow, diskVars, WriteStatus, WritePath
  <2>. QED BY <1>23, <2>1, <1>a, FinishFrame DEF MarkQuarantined
<1>24. CASE CommitVerified(p)
  <2>1. RowFrame(p)
    BY <1>24, <1>a DEF CommitVerified, LockOf, HoldsRow, PutPc, DbTypeOK, RowFrame,
       SameRow, diskVars, WriteStatus, WritePath
  <2>. QED BY <1>24, <2>1, <1>a, FinishFrame DEF CommitVerified
<1>25. CASE CommitFailed(p)
  <2>1. RowFrame(p)
    BY <1>25, <1>a DEF CommitFailed, LockOf, HoldsRow, PutPc, DbTypeOK, RowFrame,
       SameRow, diskVars, WriteStatus, WritePath
  <2>. QED BY <1>25, <2>1, <1>a, FinishFrame DEF CommitFailed
<1>26. CASE CommitReady(p)
  <2>1. RowFrame(p)
    BY <1>26, <1>a DEF CommitReady, LockOf, HoldsRow, PutPc, DbTypeOK, RowFrame,
       SameRow, diskVars, WriteStatus, WritePath
  <2>. QED BY <1>26, <2>1, <1>a, GotoFrame, ReleaseFrame DEF CommitReady
<1>27. CASE CommitImporting(p)
  <2>1. RowFrame(p)
    BY <1>27, <1>a DEF CommitImporting, LockOf, HoldsRow, PutPc, DbTypeOK, RowFrame,
       SameRow, diskVars, WriteStatus, WritePath
  <2>. QED BY <1>27, <2>1, <1>a, GotoFrame, ReleaseFrame DEF CommitImporting
<1>28. CASE RefreshImporting(p)
  <2>1. CASE Finish(p)
    BY <1>28, <2>1, <1>a, <1>b, FinishFrame DEF RefreshImporting
  <2>2. CASE ~Finish(p)
    <3>1. LockFrame(p)
      BY <1>28, <2>2, <1>a DEF RefreshImporting, LockOf, LockTypeOK, LockFrame,
         RowLockFree, lockVars
    <3>. QED BY <1>28, <2>2, <3>1, <1>a, <1>b, GotoFrame DEF RefreshImporting
  <2>. QED BY <2>1, <2>2
<1>29. CASE PersistLock(p)
  <2>1. CASE Finish(p)
    BY <1>29, <2>1, <1>a, <1>b, FinishFrame DEF PersistLock
  <2>2. CASE ~Finish(p)
    <3>1. LockFrame(p)
      BY <1>29, <2>2, <1>a DEF PersistLock, LockOf, LockTypeOK, LockFrame,
         RowLockFree, lockVars
    <3>. QED BY <1>29, <2>2, <3>1, <1>a, <1>b, GotoFrame DEF PersistLock
  <2>. QED BY <2>1, <2>2
<1>30. CASE IdleTimeout(p)
  BY <1>30, <1>a, <1>b, GotoFrame, ReleaseFrame DEF IdleTimeout
<1>. QED BY <1>1, <1>2, <1>3, <1>4, <1>5, <1>6, <1>7, <1>8, <1>9, <1>10,
    <1>11, <1>12, <1>13, <1>14, <1>15, <1>16, <1>17, <1>18, <1>19, <1>20,
    <1>21, <1>22, <1>23, <1>24, <1>25, <1>26, <1>27, <1>28, <1>29, <1>30
    DEF ProcStep, Request, PutStep, CompleteStep

-----------------------------------------------------------------------------
(* The locks.  A process that has come to rest holds whatever its program  *)
(* point says it holds.                                                    *)

(* An answered request holds nothing and owes nothing.                     *)
LEMMA FinishLock ==
    ASSUME ProcTypeOK, NEW p \in Proc, Finish(p)
    PROVE  LockOf(p)' /\ CacheOf(p)' /\ PartOf(p)' /\ FileOfProc(p)'
BY DEF ProcTypeOK, Finish, LockOf, CacheOf, PartOf, FileOfProc, AfterReady,
       PutPc, HoldsRow, FreshPc, ImportSection, BeginPc, ImportPc

(* Neither does one whose transaction _persist_failed rolled back.         *)
LEMMA RaiseLock ==
    ASSUME ProcTypeOK, NEW p \in Proc, LockOf(p), pc[p] # "idle",
           RaiseTransferError(p)
    PROVE  LockOf(p)' /\ CacheOf(p)' /\ PartOf(p)' /\ FileOfProc(p)'
BY DEF ProcTypeOK, RaiseTransferError, Goto, LockOf, CacheOf, PartOf,
       FileOfProc, AfterReady, PutPc, HoldsRow, FreshPc, ImportSection,
       BeginPc, ImportPc

(* After a step of its own a request holds what its point says.            *)
LEMMA LockOwn ==
    ASSUME TypeOK, LockInv, NEW p \in Proc, ProcStep(p)
    PROVE  LockOf(p)'
<1>a. ProcTypeOK /\ LockTypeOK /\ LockOf(p)
  BY DEF TypeOK, LockInv
<1>1. ASSUME NEW t \in Transfer, NEW n \in Part, NEW d \in Digest,
             PartLock(p, t, n, d)
      PROVE  LockOf(p)'
  BY <1>1, <1>a DEF PartLock, StartPart, Start, LockOf, ProcTypeOK,
     LockTypeOK, HoldsRow, ImportSection, PutPc
<1>2. ASSUME NEW t \in Transfer, CompleteLock(p, t) PROVE LockOf(p)'
  BY <1>2, <1>a DEF CompleteLock, Start, LockOf, ProcTypeOK, LockTypeOK,
     HoldsRow, ImportSection, PutPc
<1>3. CASE PartStore(p)
  BY <1>3, <1>a DEF PartStore, Goto, LockOf, ProcTypeOK, HoldsRow,
     ImportSection, PutPc, lockVars
<1>4. CASE MoveOrphan(p)
  BY <1>4, <1>a DEF MoveOrphan, Goto, LockOf, ProcTypeOK, HoldsRow,
     ImportSection, PutPc, lockVars
<1>5. CASE Assemble(p)
  BY <1>5, <1>a DEF Assemble, Goto, LockOf, ProcTypeOK, HoldsRow,
     ImportSection, PutPc, lockVars
<1>6. CASE RestoreFailed(p)
  BY <1>6, <1>a DEF RestoreFailed, Goto, LockOf, ProcTypeOK, HoldsRow,
     ImportSection, PutPc, lockVars
<1>7. CASE ImportMove(p)
  BY <1>7, <1>a DEF ImportMove, Goto, LockOf, ProcTypeOK, HoldsRow,
     ImportSection, PutPc, lockVars
<1>8. CASE PersistMove(p)
  BY <1>8, <1>a DEF PersistMove, Goto, LockOf, ProcTypeOK, HoldsRow,
     ImportSection, PutPc, lockVars
<1>9. CASE ValidateReady(p)
  BY <1>9, <1>a DEF ValidateReady, Goto, LockOf, ProcTypeOK, HoldsRow,
     ImportSection, PutPc, lockVars
<1>10. CASE RefreshReady(p)
  BY <1>10, <1>a DEF RefreshReady, Goto, LockOf, ProcTypeOK, HoldsRow,
     ImportSection, PutPc, lockVars
<1>11. CASE AcquireImportLocks(p)
  BY <1>11, <1>a DEF AcquireImportLocks, Goto, LockOf, ProcTypeOK, LockTypeOK, HoldsRow,
     ImportSection, PutPc, TakeImportLocks
<1>12. CASE BeginLock(p)
  BY <1>12, <1>a DEF BeginLock, Goto, LockOf, ProcTypeOK, LockTypeOK, HoldsRow,
     ImportSection, PutPc, TakeImportLocks
<1>13. CASE ImportLock(p)
  BY <1>13, <1>a DEF ImportLock, Goto, LockOf, ProcTypeOK, LockTypeOK, HoldsRow,
     ImportSection, PutPc, TakeImportLocks
<1>14. CASE CommitReady(p)
  BY <1>14, <1>a DEF CommitReady, Goto, LockOf, ProcTypeOK, HoldsRow,
     ImportSection, PutPc
<1>15. CASE CommitImporting(p)
  BY <1>15, <1>a DEF CommitImporting, Goto, LockOf, ProcTypeOK, HoldsRow,
     ImportSection, PutPc
<1>16. CASE BeginFindsVerified(p)
  BY <1>16, <1>a DEF BeginFindsVerified, Goto, LockOf, ProcTypeOK, HoldsRow,
     ImportSection, PutPc
<1>17. CASE PartCommit(p)
  BY <1>17, <1>a, FinishLock DEF PartCommit
<1>18. CASE MarkQuarantined(p)
  BY <1>18, <1>a, FinishLock DEF MarkQuarantined
<1>19. CASE CommitVerified(p)
  BY <1>19, <1>a, FinishLock DEF CommitVerified
<1>20. CASE CommitFailed(p)
  BY <1>20, <1>a, FinishLock DEF CommitFailed
<1>21. CASE ImportLocksRefused(p)
  BY <1>21, <1>a, FinishLock DEF ImportLocksRefused
<1>22. CASE BeginNotReady(p)
  BY <1>22, <1>a, FinishLock DEF BeginNotReady
<1>23. CASE Abort(p)
  BY <1>23, <1>a, FinishLock DEF Abort
<1>24. CASE AssembleFails(p)
  BY <1>24, <1>a, RaiseLock DEF AssembleFails
<1>25. CASE FileInvalid(p)
  BY <1>25, <1>a, RaiseLock DEF FileInvalid
<1>26. CASE ImportNotImporting(p)
  BY <1>26, <1>a, RaiseLock DEF ImportNotImporting
<1>27. CASE ImportFails(p)
  BY <1>27, <1>a, RaiseLock DEF ImportFails
<1>28. CASE RefreshImporting(p)
  <2>1. CASE Finish(p)
    BY <2>1, <1>a, FinishLock
  <2>2. CASE ~Finish(p)
    BY <1>28, <2>2, <1>a DEF RefreshImporting, Goto, LockOf, ProcTypeOK, LockTypeOK,
       HoldsRow, ImportSection, PutPc, lockVars
  <2>. QED BY <2>1, <2>2
<1>29. CASE PersistLock(p)
  <2>1. CASE Finish(p)
    BY <2>1, <1>a, FinishLock
  <2>2. CASE ~Finish(p)
    BY <1>29, <2>2, <1>a DEF PersistLock, Goto, LockOf, ProcTypeOK, LockTypeOK,
       HoldsRow, ImportSection, PutPc, lockVars
  <2>. QED BY <2>1, <2>2
<1>30. CASE IdleTimeout(p)
  BY <1>30, <1>a DEF IdleTimeout, Goto, LockOf, ProcTypeOK, HoldsRow,
     ImportSection, PutPc
<1>. QED BY <1>1, <1>2, <1>3, <1>4, <1>5, <1>6, <1>7, <1>8, <1>9, <1>10,
    <1>11, <1>12, <1>13, <1>14, <1>15, <1>16, <1>17, <1>18, <1>19, <1>20,
    <1>21, <1>22, <1>23, <1>24, <1>25, <1>26, <1>27, <1>28, <1>29, <1>30
    DEF ProcStep, Request, PutStep, CompleteStep

(* A PUT that lost its session puts a part file in place and is answered.  *)
LEMMA AdriftStep ==
    ASSUME TypeOK, NEW p \in Proc, StoreAdrift(p)
    PROVE  /\ ProcFrame(p) /\ LockFrame(p)
           /\ LockOf(p)' /\ CacheOf(p)' /\ PartOf(p)' /\ FileOfProc(p)'
           /\ UNCHANGED <<dbVars, file, damaged, chunk>>
BY FinishFrame, FinishLock DEF TypeOK, StoreAdrift

(* No step takes a lock away from the request that holds it.               *)
LEMMA LockStep ==
    TypeOK /\ LockInv /\ [Next]_vars => LockInv'
<1> SUFFICES ASSUME TypeOK, LockInv, [Next]_vars PROVE LockInv'
    OBVIOUS
<1>1. ASSUME NEW p \in Proc, ProcStep(p) \/ StoreAdrift(p) PROVE LockInv'
  <2>1. ProcFrame(p) /\ LockFrame(p) /\ LockOf(p)'
    BY <1>1, StepFrame, LockOwn, AdriftStep
  <2>2. ASSUME NEW q \in Proc, q # p PROVE LockOf(q)'
    BY <2>1, <2>2, ProcAssumption DEF ProcFrame, SameProc, LockFrame, LockInv,
       LockOf, HoldsRow, PutPc
  <2>. QED BY <2>1, <2>2 DEF LockInv
<1>2. CASE Crash
  BY <1>2 DEF Crash, LockInv, LockOf, PutPc, HoldsRow, ImportSection
<1>3. CASE \/ \E t \in Transfer, n \in Part : DamagePart(t, n)
           \/ \E t \in Transfer : Poll(t)
           \/ \E k \in Key : OnlineUpsert(k)
           \/ UNCHANGED vars
  BY <1>3 DEF DamagePart, Poll, OnlineUpsert, vars, lockVars, procVars,
     LockInv, LockOf
<1>. QED BY <1>1, <1>2, <1>3 DEF Next, ProcStep

(* Types and locks together are inductive.                                 *)
LEMMA TypeInvariant == Spec => [](TypeOK /\ LockInv)
<1>1. Init => TypeOK /\ LockInv
  BY ProcAssumption DEF Init, TypeOK, DbTypeOK, DiskTypeOK, LockTypeOK,
     ProcTypeOK, NoRow, Row, Status, Path, Dir, Pc, Digest, PartRow, PartFile,
     Assembled, LockInv, LockOf, PutPc, HoldsRow, ImportSection
<1>2. TypeOK /\ LockInv /\ [Next]_vars => (TypeOK /\ LockInv)'
  BY TypeStep, LockStep
<1>. QED BY <1>1, <1>2, PTL DEF Spec

-----------------------------------------------------------------------------
(* The cache.  Between loading a row under its lock and the end of the     *)
(* transaction the session agrees with the row.                            *)

(* A session that loads under the lock has the row as it is.               *)
LEMMA CacheOwn ==
    ASSUME TypeOK, LockInv, CacheInv, NEW p \in Proc, ProcStep(p)
    PROVE  CacheOf(p)'
<1>a. ProcTypeOK /\ DbTypeOK /\ LockOf(p) /\ CacheOf(p)
  BY DEF TypeOK, LockInv, CacheInv
<1> USE DEF CacheOf, FreshPc, HoldsRow, PutPc
<1>1. ASSUME NEW t \in Transfer, NEW n \in Part, NEW d \in Digest,
             PartLock(p, t, n, d)
      PROVE  CacheOf(p)'
  BY <1>1, <1>a DEF PartLock, StartPart, Start, Load, RowOf, ProcTypeOK, dbVars
<1>2. ASSUME NEW t \in Transfer, CompleteLock(p, t) PROVE CacheOf(p)'
  BY <1>2, <1>a DEF CompleteLock, Start, Load, RowOf, ProcTypeOK, dbVars
<1>3. CASE PartStore(p)
  BY <1>3, <1>a DEF PartStore, Goto, Load, RowOf, ProcTypeOK, dbVars
<1>4. CASE MoveOrphan(p)
  BY <1>4, <1>a DEF MoveOrphan, Goto, Load, RowOf, ProcTypeOK, dbVars
<1>5. CASE Assemble(p)
  BY <1>5, <1>a DEF Assemble, Goto, Load, RowOf, ProcTypeOK, dbVars
<1>6. CASE RestoreFailed(p)
  BY <1>6, <1>a DEF RestoreFailed, Goto, Load, RowOf, ProcTypeOK, dbVars
<1>7. CASE ImportMove(p)
  BY <1>7, <1>a DEF ImportMove, Goto, Load, RowOf, ProcTypeOK, dbVars
<1>8. CASE PersistMove(p)
  BY <1>8, <1>a DEF PersistMove, Goto, Load, RowOf, ProcTypeOK, dbVars
<1>9. CASE ValidateReady(p)
  BY <1>9, <1>a DEF ValidateReady, Goto, Load, RowOf, ProcTypeOK, dbVars
<1>10. CASE RefreshReady(p)
  BY <1>10, <1>a DEF RefreshReady, Goto, Load, RowOf, ProcTypeOK, dbVars
<1>11. CASE AcquireImportLocks(p)
  BY <1>11, <1>a DEF AcquireImportLocks, Goto, Load, RowOf, ProcTypeOK, dbVars
<1>12. CASE BeginLock(p)
  BY <1>12, <1>a DEF BeginLock, Goto, Load, RowOf, ProcTypeOK, dbVars
<1>13. CASE ImportLock(p)
  BY <1>13, <1>a DEF ImportLock, Goto, Load, RowOf, ProcTypeOK, dbVars
<1>14. CASE CommitReady(p)
  BY <1>14, <1>a DEF CommitReady, Goto, Load, RowOf, ProcTypeOK, dbVars
<1>15. CASE CommitImporting(p)
  BY <1>15, <1>a DEF CommitImporting, Goto, Load, RowOf, ProcTypeOK, dbVars
<1>16. CASE BeginFindsVerified(p)
  BY <1>16, <1>a DEF BeginFindsVerified, Goto, Load, RowOf, ProcTypeOK, dbVars
<1>17. CASE PartCommit(p)
  BY <1>17, <1>a, FinishLock DEF PartCommit
<1>18. CASE MarkQuarantined(p)
  BY <1>18, <1>a, FinishLock DEF MarkQuarantined
<1>19. CASE CommitVerified(p)
  BY <1>19, <1>a, FinishLock DEF CommitVerified
<1>20. CASE CommitFailed(p)
  BY <1>20, <1>a, FinishLock DEF CommitFailed
<1>21. CASE ImportLocksRefused(p)
  BY <1>21, <1>a, FinishLock DEF ImportLocksRefused
<1>22. CASE BeginNotReady(p)
  BY <1>22, <1>a, FinishLock DEF BeginNotReady
<1>23. CASE Abort(p)
  BY <1>23, <1>a, FinishLock DEF Abort
<1>24. CASE AssembleFails(p)
  BY <1>24, <1>a, RaiseLock DEF AssembleFails
<1>25. CASE FileInvalid(p)
  BY <1>25, <1>a, RaiseLock DEF FileInvalid
<1>26. CASE ImportNotImporting(p)
  BY <1>26, <1>a, RaiseLock DEF ImportNotImporting
<1>27. CASE ImportFails(p)
  BY <1>27, <1>a, RaiseLock DEF ImportFails
<1>28. CASE RefreshImporting(p)
  <2>1. CASE Finish(p)
    BY <2>1, <1>a, FinishLock
  <2>2. CASE ~Finish(p)
    BY <1>28, <2>2, <1>a DEF RefreshImporting, Goto, Load, RowOf, ProcTypeOK, dbVars
  <2>. QED BY <2>1, <2>2
<1>29. CASE PersistLock(p)
  <2>1. CASE Finish(p)
    BY <2>1, <1>a, FinishLock
  <2>2. CASE ~Finish(p)
    BY <1>29, <2>2, <1>a DEF PersistLock, Goto, Load, RowOf, ProcTypeOK, dbVars
  <2>. QED BY <2>1, <2>2
<1>30. CASE IdleTimeout(p)
  BY <1>30, <1>a DEF IdleTimeout, Goto, Load, RowOf, ProcTypeOK, dbVars
<1>. QED BY <1>1, <1>2, <1>3, <1>4, <1>5, <1>6, <1>7, <1>8, <1>9, <1>10,
    <1>11, <1>12, <1>13, <1>14, <1>15, <1>16, <1>17, <1>18, <1>19, <1>20,
    <1>21, <1>22, <1>23, <1>24, <1>25, <1>26, <1>27, <1>28, <1>29, <1>30
    DEF ProcStep, Request, PutStep, CompleteStep

(* Nobody else writes the row while the lock is held.                      *)
LEMMA CacheStep ==
    TypeOK /\ LockInv /\ CacheInv /\ [Next]_vars => CacheInv'
<1> SUFFICES ASSUME TypeOK, LockInv, CacheInv, [Next]_vars PROVE CacheInv'
    OBVIOUS
<1>1. ASSUME NEW p \in Proc, ProcStep(p) PROVE CacheInv'
  <2>1. ProcFrame(p) /\ RowFrame(p) /\ CacheOf(p)'
    BY <1>1, StepFrame, CacheOwn
  <2>2. ASSUME NEW q \in Proc, q # p PROVE CacheOf(q)'
    <3>1. SameProc(q) /\ LockOf(q) /\ CacheOf(q)
      BY <2>1, <2>2 DEF ProcFrame, LockInv, CacheInv
    <3>2. pc[q] \in FreshPc => SameRow(tr[q])
      BY <2>1, <2>2, <3>1 DEF RowFrame, LockOf, FreshPc, HoldsRow, PutPc
    <3>. QED BY <3>1, <3>2 DEF SameProc, SameRow, CacheOf, RowOf
  <2>. QED BY <2>1, <2>2 DEF CacheInv
<1>4. ASSUME NEW p \in Proc, StoreAdrift(p) PROVE CacheInv'
  <2>1. ProcFrame(p) /\ CacheOf(p)' /\ UNCHANGED dbVars
    BY <1>4, AdriftStep
  <2>2. ASSUME NEW q \in Proc, q # p PROVE CacheOf(q)'
    BY <2>1, <2>2 DEF ProcFrame, SameProc, CacheInv, CacheOf, RowOf, dbVars
  <2>. QED BY <2>1, <2>2 DEF CacheInv
<1>2. CASE Crash
  BY <1>2 DEF Crash, CacheInv, CacheOf, FreshPc, HoldsRow, PutPc
<1>3. CASE \/ \E t \in Transfer, n \in Part : DamagePart(t, n)
           \/ \E t \in Transfer : Poll(t)
           \/ \E k \in Key : OnlineUpsert(k)
           \/ UNCHANGED vars
  BY <1>3 DEF DamagePart, Poll, OnlineUpsert, vars, dbVars, procVars,
     CacheInv, CacheOf, RowOf
<1>. QED BY <1>1, <1>2, <1>3, <1>4 DEF Next, ProcStep

-----------------------------------------------------------------------------
(* The parts.                                                              *)

(* A request confirms a part only when its file is in place.               *)
LEMMA PartOwn ==
    ASSUME TypeOK, LockInv, PartInv, NEW p \in Proc, ProcStep(p)
    PROVE  PartOf(p)' /\ ConfirmedPartOnDisk'
<1>a. ProcTypeOK /\ DbTypeOK /\ DiskTypeOK /\ LockOf(p) /\ PartOf(p)
      /\ ConfirmedPartOnDisk
  BY DEF TypeOK, LockInv, PartInv
<1>b. UNCHANGED <<partRow, partFile, damaged, overwritten>> => ConfirmedPartOnDisk'
  BY <1>a DEF ConfirmedPartOnDisk
<1>c. UNCHANGED <<dbVars, diskVars>> =>
         UNCHANGED <<partRow, partFile, damaged, overwritten>>
  BY DEF dbVars, diskVars
<1>1. ASSUME NEW t \in Transfer, NEW n \in Part, NEW d \in Digest,
             PartLock(p, t, n, d)
      PROVE  PartOf(p)' /\ ConfirmedPartOnDisk'
  BY <1>1, <1>a, <1>b, <1>c
     DEF PartLock, StartPart, Start, PartOf, ProcTypeOK, dbVars, diskVars
<1>2. ASSUME NEW t \in Transfer, CompleteLock(p, t)
      PROVE  PartOf(p)' /\ ConfirmedPartOnDisk'
  BY <1>2, <1>a, <1>b, <1>c
     DEF CompleteLock, Start, PartOf, ProcTypeOK, dbVars, diskVars
<1>3. CASE PartStore(p)
  BY <1>3, <1>a DEF PartStore, Goto, PartOf, ProcTypeOK, DiskTypeOK, LockOf,
     PutPc, ConfirmedPartOnDisk, dbVars
<1>4. CASE MoveOrphan(p)
  BY <1>4, <1>a DEF MoveOrphan, Goto, PartOf, ProcTypeOK, DiskTypeOK, LockOf,
     PutPc, ConfirmedPartOnDisk, dbVars
<1>5. CASE PartCommit(p)
  <2> DEFINE t == tr[p]   n == part[p]
  <2>0. t \in Transfer /\ n \in Part
    BY <1>5, <1>a DEF PartCommit, LockOf, PutPc
  <2>a. /\ \A u \in Transfer, m \in Part :
              <<u, m>> # <<t, n>> => partRow'[u][m] = partRow[u][m]
        /\ partRow'[t][n] = digest[p]
        /\ partFile[t][n] = digest[p] \/ <<t, n>> \in damaged \cup overwritten
        /\ UNCHANGED <<partFile, damaged, overwritten>>
    BY <1>5, <1>a, <2>0 DEF PartCommit, PartOf, DbTypeOK, diskVars
  <2>1. ConfirmedPartOnDisk'
    BY <1>a, <2>a DEF ConfirmedPartOnDisk
  <2>. QED BY <1>5, <2>1, <1>a, FinishLock DEF PartCommit
<1>6. CASE Assemble(p)
  BY <1>6, <1>a, <1>b, <1>c DEF Assemble, Goto, PartOf, ProcTypeOK, dbVars, diskVars
<1>7. CASE RestoreFailed(p)
  BY <1>7, <1>a, <1>b, <1>c DEF RestoreFailed, Goto, PartOf, ProcTypeOK, dbVars, diskVars
<1>8. CASE ImportMove(p)
  BY <1>8, <1>a, <1>b, <1>c DEF ImportMove, Goto, PartOf, ProcTypeOK, dbVars, diskVars
<1>9. CASE PersistMove(p)
  BY <1>9, <1>a, <1>b, <1>c DEF PersistMove, Goto, PartOf, ProcTypeOK, dbVars, diskVars
<1>10. CASE ValidateReady(p)
  BY <1>10, <1>a, <1>b, <1>c DEF ValidateReady, Goto, PartOf, ProcTypeOK, dbVars, diskVars
<1>11. CASE RefreshReady(p)
  BY <1>11, <1>a, <1>b, <1>c DEF RefreshReady, Goto, PartOf, ProcTypeOK, dbVars, diskVars
<1>12. CASE AcquireImportLocks(p)
  BY <1>12, <1>a, <1>b, <1>c DEF AcquireImportLocks, Goto, PartOf, ProcTypeOK, dbVars, diskVars
<1>13. CASE BeginLock(p)
  BY <1>13, <1>a, <1>b, <1>c DEF BeginLock, Goto, PartOf, ProcTypeOK, dbVars, diskVars
<1>14. CASE ImportLock(p)
  BY <1>14, <1>a, <1>b, <1>c DEF ImportLock, Goto, PartOf, ProcTypeOK, dbVars, diskVars
<1>15. CASE CommitReady(p)
  BY <1>15, <1>a, <1>b, <1>c DEF CommitReady, Goto, PartOf, ProcTypeOK, dbVars, diskVars
<1>16. CASE CommitImporting(p)
  BY <1>16, <1>a, <1>b, <1>c DEF CommitImporting, Goto, PartOf, ProcTypeOK, dbVars, diskVars
<1>17. CASE BeginFindsVerified(p)
  BY <1>17, <1>a, <1>b, <1>c DEF BeginFindsVerified, Goto, PartOf, ProcTypeOK, dbVars, diskVars
<1>18. CASE MarkQuarantined(p)
  BY <1>18, <1>a, <1>b, <1>c, FinishLock DEF MarkQuarantined, diskVars
<1>19. CASE CommitVerified(p)
  BY <1>19, <1>a, <1>b, <1>c, FinishLock DEF CommitVerified, diskVars
<1>20. CASE CommitFailed(p)
  BY <1>20, <1>a, <1>b, <1>c, FinishLock DEF CommitFailed, diskVars
<1>21. CASE ImportLocksRefused(p)
  BY <1>21, <1>a, <1>b, <1>c, FinishLock DEF ImportLocksRefused, diskVars
<1>22. CASE BeginNotReady(p)
  BY <1>22, <1>a, <1>b, <1>c, FinishLock DEF BeginNotReady, diskVars
<1>23. CASE Abort(p)
  BY <1>23, <1>a, <1>b, <1>c, FinishLock DEF Abort, diskVars
<1>24. CASE AssembleFails(p)
  BY <1>24, <1>a, <1>b, <1>c, RaiseLock DEF AssembleFails, dbVars
<1>25. CASE FileInvalid(p)
  BY <1>25, <1>a, <1>b, <1>c, RaiseLock DEF FileInvalid, dbVars
<1>26. CASE ImportNotImporting(p)
  BY <1>26, <1>a, <1>b, <1>c, RaiseLock DEF ImportNotImporting, dbVars
<1>27. CASE ImportFails(p)
  BY <1>27, <1>a, <1>b, <1>c, RaiseLock DEF ImportFails, dbVars
<1>28. CASE RefreshImporting(p)
  <2>1. CASE Finish(p)
    BY <1>28, <2>1, <1>a, <1>b, <1>c, FinishLock DEF RefreshImporting
  <2>2. CASE ~Finish(p)
    BY <1>28, <2>2, <1>a, <1>b, <1>c DEF RefreshImporting, Goto, PartOf, ProcTypeOK
  <2>. QED BY <2>1, <2>2
<1>29. CASE PersistLock(p)
  <2>1. CASE Finish(p)
    BY <1>29, <2>1, <1>a, <1>b, <1>c, FinishLock DEF PersistLock
  <2>2. CASE ~Finish(p)
    BY <1>29, <2>2, <1>a, <1>b, <1>c DEF PersistLock, Goto, PartOf, ProcTypeOK
  <2>. QED BY <2>1, <2>2
<1>30. CASE IdleTimeout(p)
  BY <1>30, <1>a, <1>b, <1>c DEF IdleTimeout, Goto, PartOf, ProcTypeOK
<1>. QED BY <1>1, <1>2, <1>3, <1>4, <1>5, <1>6, <1>7, <1>8, <1>9, <1>10,
    <1>11, <1>12, <1>13, <1>14, <1>15, <1>16, <1>17, <1>18, <1>19, <1>20,
    <1>21, <1>22, <1>23, <1>24, <1>25, <1>26, <1>27, <1>28, <1>29, <1>30
    DEF ProcStep, Request, PutStep, CompleteStep

(* Other requests, a crash or the collector break no confirmed part.       *)
LEMMA PartStep ==
    TypeOK /\ LockInv /\ PartInv /\ [Next]_vars => PartInv'
<1> SUFFICES ASSUME TypeOK, LockInv, PartInv, [Next]_vars PROVE PartInv'
    OBVIOUS
<1> USE DEF PartInv
<1>1. ASSUME NEW p \in Proc, ProcStep(p) PROVE PartInv'
  <2>1. ProcFrame(p) /\ RowFrame(p) /\ PartOf(p)' /\ ConfirmedPartOnDisk'
        /\ damaged' = damaged /\ (UNCHANGED overwritten \/ PartStore(p))
    <3>1. damaged' = damaged /\ (UNCHANGED overwritten \/ PartStore(p))
      BY <1>1 DEF ProcStep, Request, PutStep, CompleteStep, diskVars, PartLock,
         StartPart, Start, CompleteLock, PartStore, IdleTimeout, PartCommit, MoveOrphan,
         MarkQuarantined, Assemble, AssembleFails, RestoreFailed,
         ValidateReady, FileInvalid, CommitReady, RefreshReady,
         AcquireImportLocks, ImportLocksRefused, BeginLock,
         BeginFindsVerified, BeginNotReady, CommitImporting,
         RefreshImporting, ImportLock, ImportNotImporting, ImportMove,
         CommitVerified, PersistLock, PersistMove, CommitFailed, Abort,
         ImportFails
    <3>. QED BY <1>1, <3>1, StepFrame, PartOwn
  <2>2. ASSUME NEW q \in Proc, q # p PROVE PartOf(q)'
    <3>1. SameProc(q) /\ LockOf(q) /\ PartOf(q)
      BY <2>1, <2>2 DEF ProcFrame, LockInv
    <3>2. pc[q] \in PutPc => SameRow(tr[q])
      BY <2>1, <2>2, <3>1 DEF RowFrame, LockOf, HoldsRow, PutPc
    <3>3. pc[q] = "p_stored" /\ PartStore(p) => tr[q] # tr[p]
      BY <2>2, <3>1 DEF PartStore, LockInv, LockOf, HoldsRow, PutPc
    <3>4. pc[q] = "p_stored" /\ <<tr[q], part[q]>> \in overwritten
             => <<tr[q], part[q]>> \in overwritten'
      BY <2>1, <3>3 DEF PartStore
    <3>. QED BY <2>1, <3>1, <3>2, <3>4 DEF SameProc, SameRow, PartOf, PutPc
  <2>. QED BY <2>1, <2>2
<1>2. CASE Crash
  BY <1>2 DEF Crash, PartOf, ConfirmedPartOnDisk, dbVars, diskVars
<1>3. ASSUME NEW t \in Transfer, NEW n \in Part, DamagePart(t, n)
      PROVE  PartInv'
  <2>1. ConfirmedPartOnDisk'
    BY <1>3 DEF DamagePart, ConfirmedPartOnDisk, TypeOK, DiskTypeOK, dbVars
  <2>2. ASSUME NEW q \in Proc PROVE PartOf(q)'
    BY <1>3, <2>2 DEF DamagePart, PartOf, TypeOK, DiskTypeOK, dbVars, procVars,
       LockInv, LockOf, PutPc
  <2>. QED BY <2>1, <2>2
<1>5. ASSUME NEW p \in Proc, StoreAdrift(p) PROVE PartInv'
  <2>a. PICK t, n : t = tr[p] /\ n = part[p]
    OBVIOUS
  <2>b. t \in Transfer /\ n \in Part
    BY <1>5, <2>a DEF StoreAdrift, LockInv, LockOf
  <2>1. /\ \A u \in Transfer, m \in Part :
              <<u, m>> # <<t, n>> => partFile'[u][m] = partFile[u][m]
        /\ partFile'[t][n] = digest[p]
        /\ overwritten \subseteq overwritten'
        /\ partFile[t][n] \in {"none", digest[p]} \/ <<t, n>> \in overwritten'
        /\ UNCHANGED <<partRow, damaged>>
    BY <1>5, <2>a, <2>b DEF StoreAdrift, TypeOK, DiskTypeOK, dbVars
  <2>2. ConfirmedPartOnDisk'
    <3> SUFFICES ASSUME NEW u \in Transfer, NEW m \in Part,
                        partRow[u][m] # "none",
                        <<u, m>> \notin damaged \cup overwritten'
                 PROVE  partFile'[u][m] = partRow[u][m]
        BY <2>1 DEF ConfirmedPartOnDisk
    <3>1. partFile[u][m] = partRow[u][m]
      BY <2>1 DEF ConfirmedPartOnDisk
    <3>. QED BY <2>1, <3>1
  <2>3. ASSUME NEW q \in Proc, q # p PROVE PartOf(q)'
    <3>1. SameProc(q) /\ LockOf(q) /\ PartOf(q)
      BY <1>5, <2>3, AdriftStep DEF ProcFrame, LockInv
    <3>2. CASE pc[q] = "p_stored"
      <4>1. tr[q] \in Transfer /\ part[q] \in Part /\ digest[q] # "none"
        BY <3>1, <3>2 DEF LockOf, PutPc, TypeOK, ProcTypeOK, Digest
      <4>. QED BY <2>1, <3>1, <3>2, <4>1 DEF SameProc, PartOf
    <3>3. CASE pc[q] # "p_stored"
      BY <2>1, <3>1, <3>3 DEF SameProc, PartOf
    <3>. QED BY <3>2, <3>3
  <2>. QED BY <1>5, <2>2, <2>3, AdriftStep
<1>4. CASE \/ \E t \in Transfer : Poll(t)
           \/ \E k \in Key : OnlineUpsert(k)
           \/ UNCHANGED vars
  BY <1>4 DEF Poll, OnlineUpsert, vars, dbVars, diskVars, procVars,
     PartOf, ConfirmedPartOnDisk
<1>. QED BY <1>1, <1>2, <1>3, <1>4, <1>5 DEF Next, ProcStep

-----------------------------------------------------------------------------
(* The assembled files.  Only the holder of the row lock of a transfer     *)
(* moves its files or changes its status.                                  *)

(* A step never makes a transfer UPLOADING again, and takes no valid file  *)
(* away from one that has left UPLOADING.                                  *)
Kept(t) ==
    /\ status'[t] = "UPLOADING" => status[t] = "UPLOADING"
    /\ HasGood(t) /\ status[t] # "UPLOADING" => HasGood(t)'

(* It is enough to look at the row and the files a step works on.          *)
LEMMA FileRow ==
    ASSUME FileInv, NEW u \in Transfer, FileOf(u)', Kept(u),
           \A t \in Transfer \ {u} :
               status'[t] = status[t] /\ file'[t] = file[t]
    PROVE  \A t \in Transfer : FileOf(t)' /\ Kept(t)
BY DEF FileInv, FileOf, Kept, HasGood

(* The handlers that move an assembled file or write the status.           *)
FileWriter(p) ==
    \/ Assemble(p) \/ AssembleFails(p) \/ RestoreFailed(p) \/ ImportMove(p)
    \/ PersistMove(p) \/ MarkQuarantined(p) \/ CommitFailed(p)
    \/ CommitReady(p) \/ CommitImporting(p) \/ CommitVerified(p)

(* Each of them keeps a valid file of a transfer that needs one.           *)
LEMMA FileWrite ==
    ASSUME TypeOK, LockInv, CacheInv, FileInv, NEW p \in Proc,
           NEW u \in Transfer, tr[p] = u, FileWriter(p)
    PROVE  (\A t \in Transfer : FileOf(t)' /\ Kept(t)) /\ FileOfProc(p)'
<1>a. /\ ProcTypeOK /\ DbTypeOK /\ DiskTypeOK /\ LockOf(p) /\ CacheOf(p)
      /\ FileOfProc(p) /\ FileOf(u) /\ tr[p] = u
  BY DEF TypeOK, LockInv, CacheInv, FileInv
<1>b. UNCHANGED <<status, file>> => \A t \in Transfer : FileOf(t)' /\ Kept(t)
  BY DEF FileInv, FileOf, Kept, HasGood
<1>1. CASE Assemble(p)
  <2>1. status[u] = "UPLOADING" /\ u = tr[p]
    BY <1>1, <1>a DEF Assemble, CacheOf, FreshPc, HoldsRow, RowOf
  <2>2. FileOf(u)' /\ Kept(u) /\ FileOfProc(p)'
    BY <1>1, <2>1, <1>a DEF Assemble, Goto, ProcTypeOK, DiskTypeOK, Dir, dbVars,
       FileOf, Kept, FileOfProc, HasGood, AfterReady, BeginPc, ImportPc
  <2>. QED BY <1>1, <2>1, <2>2, FileRow, <1>a DEF Assemble, DiskTypeOK, dbVars
<1>2. CASE AssembleFails(p)
  <2>1. status[u] = "UPLOADING" /\ u = tr[p]
    BY <1>2, <1>a DEF AssembleFails, CacheOf, FreshPc, HoldsRow, RowOf
  <2>2. FileOf(u)' /\ Kept(u)
    BY <1>2, <2>1, <1>a DEF AssembleFails, DiskTypeOK, Dir, dbVars, FileOf, Kept
  <2>3. FileOfProc(p)'
    BY <1>2, <1>a, RaiseLock DEF AssembleFails
  <2>. QED BY <1>2, <2>1, <2>2, <2>3, FileRow, <1>a
           DEF AssembleFails, DiskTypeOK, dbVars
<1>3. CASE RestoreFailed(p)
  <2>1. status[u] = "FAILED" /\ u = tr[p]
    BY <1>3, <1>a DEF RestoreFailed, CacheOf, FreshPc, HoldsRow, RowOf
  <2>2. sess[p].path \in Dir
    BY <1>3, <1>a DEF RestoreFailed, FileValid, ProcTypeOK, Row, Path
  <2>3. /\ file'[u]["Ready"] = "good"
        /\ file'[u]["Imported"] \in {file[u]["Imported"], "none"}
    BY <1>3, <2>1, <2>2, <1>a DEF RestoreFailed, DiskTypeOK, Dir
  <2>4. FileOf(u)' /\ Kept(u) /\ FileOfProc(p)'
    BY <1>3, <2>1, <2>3, <1>a DEF RestoreFailed, Goto, ProcTypeOK, dbVars,
       Dir, FileOf, Kept, FileOfProc, HasGood, AfterReady, BeginPc, ImportPc
  <2>. QED BY <1>3, <2>1, <2>4, FileRow, <1>a DEF RestoreFailed, DiskTypeOK, dbVars
<1>4. CASE ImportMove(p)
  <2>1. u = tr[p] /\ sess[p].path \in Dir
    BY <1>4, <1>a DEF ImportMove, FileValid, ProcTypeOK, Row, Path
  <2>2. /\ file'[u]["Imported"] = "good"
        /\ file'[u]["Ready"] \in {file[u]["Ready"], "none"}
    BY <1>4, <2>1, <1>a DEF ImportMove, DiskTypeOK, Dir
  <2>3. FileOf(u)' /\ Kept(u) /\ FileOfProc(p)'
    BY <1>4, <2>1, <2>2, <1>a DEF ImportMove, Goto, ProcTypeOK, dbVars, Dir,
       FileOf, Kept, FileOfProc, HasGood, AfterReady, BeginPc, ImportPc
  <2>. QED BY <1>4, <2>1, <2>3, FileRow, <1>a DEF ImportMove, DiskTypeOK, dbVars
<1>5. CASE PersistMove(p)
  <2> DEFINE t == u  from == FoundIn(u, sess[p].path)
  <2>1. status[t] # "VERIFIED" /\ u = tr[p]
    BY <1>5, <1>a DEF PersistMove, CacheOf, FreshPc, HoldsRow, RowOf
  <2>2. FileOfProc(p)'
    BY <1>5, <1>a DEF PersistMove, Goto, ProcTypeOK, FileOfProc, AfterReady,
       BeginPc, ImportPc
  <2>3. CASE from \in {"none", "Failed"}
    BY <1>5, <2>2, <2>3, <1>b DEF PersistMove, dbVars
  <2>4. CASE from \notin {"none", "Failed"}
    <3>1. sess[p].path \in Path
      BY <1>a DEF ProcTypeOK, Row
    <3>2. from \in {"Ready", "Imported"} /\ file[t][from] # "none"
      BY <2>4, <3>1 DEF FoundIn, Path, Dir
    <3>3. file[t][from] = "good"
      BY <2>1, <3>2, <1>a DEF FileOf, DiskTypeOK, Dir, Assembled
    <3>4. /\ file'[t]["Failed"] = "good"
          /\ \A d \in {"Ready", "Imported"} :
                file'[t][d] \in {file[t][d], "none"}
      BY <1>5, <2>1, <3>2, <3>3, <1>a DEF PersistMove, DiskTypeOK, Dir
    <3>5. /\ status'[t] = status[t]
          /\ \A v \in Transfer \ {t} :
                status'[v] = status[v] /\ file'[v] = file[v]
      BY <1>5, <2>1, <2>4, <1>a DEF PersistMove, DiskTypeOK, dbVars
    <3>6. FileOf(t)' /\ Kept(t)
      BY <2>1, <3>4, <3>5, <1>a DEF FileOf, Kept, HasGood, Dir
    <3>. QED BY <2>1, <2>2, <3>5, <3>6, FileRow
  <2>. QED BY <2>3, <2>4
<1>6. CASE MarkQuarantined(p)
  <2>1. u = tr[p] /\ status'[u] = "QUARANTINED"
    BY <1>6, <1>a DEF MarkQuarantined, WriteStatus, Flushed, CacheOf,
       FreshPc, HoldsRow, PutPc, RowOf, DbTypeOK
  <2>2. FileOf(u)' /\ Kept(u)
    BY <1>6, <2>1, <1>a DEF MarkQuarantined, FileOf, Kept, HasGood, diskVars
  <2>3. FileOfProc(p)'
    BY <1>6, <1>a, FinishLock DEF MarkQuarantined
  <2>. QED BY <1>6, <2>1, <2>2, <2>3, FileRow, <1>a
           DEF MarkQuarantined, WriteStatus, DbTypeOK, diskVars
<1>7. CASE CommitFailed(p)
  <2>1. u = tr[p] /\ status'[u] = "FAILED"
    BY <1>7, <1>a DEF CommitFailed, WriteStatus, Flushed, CacheOf,
       FreshPc, HoldsRow, PutPc, RowOf, DbTypeOK
  <2>2. FileOf(u)' /\ Kept(u)
    BY <1>7, <2>1, <1>a DEF CommitFailed, FileOf, Kept, HasGood, diskVars
  <2>3. FileOfProc(p)'
    BY <1>7, <1>a, FinishLock DEF CommitFailed
  <2>. QED BY <1>7, <2>1, <2>2, <2>3, FileRow, <1>a
           DEF CommitFailed, WriteStatus, DbTypeOK, diskVars
<1>8. CASE CommitReady(p)
  <2>1. u = tr[p] /\ status'[u] = "READY"
    BY <1>8, <1>a DEF CommitReady, WriteStatus, Flushed, CacheOf,
       FreshPc, HoldsRow, RowOf, DbTypeOK
  <2>2. HasGood(u)
    BY <1>8, <1>a DEF CommitReady, FileOfProc, HasGood, Dir
  <2>3. FileOf(u)' /\ Kept(u) /\ FileOfProc(p)'
    BY <1>8, <2>1, <2>2, <1>a DEF CommitReady, Goto, ProcTypeOK, FileOf, Kept,
       FileOfProc, HasGood, diskVars
  <2>. QED BY <1>8, <2>1, <2>3, FileRow, <1>a
           DEF CommitReady, WriteStatus, DbTypeOK, diskVars
<1>9. CASE CommitImporting(p)
  <2>1. u = tr[p] /\ status'[u] \in {status[u], "IMPORTING"}
    BY <1>9, <1>a DEF CommitImporting, WriteStatus, Flushed, DbTypeOK
  <2>2. status[u] # "UPLOADING" /\ HasGood(u)
    BY <1>9, <1>a DEF CommitImporting, FileOfProc, AfterReady, BeginPc
  <2>3. FileOf(u)' /\ Kept(u) /\ FileOfProc(p)'
    BY <1>9, <2>1, <2>2, <1>a DEF CommitImporting, Goto, ProcTypeOK, FileOf,
       Kept, FileOfProc, HasGood, diskVars
  <2>. QED BY <1>9, <2>1, <2>3, FileRow, <1>a
           DEF CommitImporting, WriteStatus, DbTypeOK, diskVars
<1>10. CASE CommitVerified(p)
  <2>1. u = tr[p] /\ status'[u] = "VERIFIED"
    BY <1>10, <1>a DEF CommitVerified, WriteStatus, Flushed, CacheOf, DbTypeOK
  <2>2. file[u]["Imported"] = "good" /\ HasGood(u)
    BY <1>10, <1>a DEF CommitVerified, FileOfProc, HasGood, Dir
  <2>3. FileOf(u)' /\ Kept(u)
    BY <1>10, <2>1, <2>2, <1>a DEF CommitVerified, FileOf, Kept, HasGood, diskVars
  <2>4. FileOfProc(p)'
    BY <1>10, <1>a, FinishLock DEF CommitVerified
  <2>. QED BY <1>10, <2>1, <2>3, <2>4, FileRow, <1>a
           DEF CommitVerified, WriteStatus, DbTypeOK, diskVars
<1>. QED BY <1>1, <1>2, <1>3, <1>4, <1>5, <1>6, <1>7, <1>8, <1>9, <1>10
    DEF FileWriter

(* What an own step does to the files, whatever the handler.               *)
LEMMA FileOwn ==
    ASSUME TypeOK, LockInv, CacheInv, FileInv, NEW p \in Proc, ProcStep(p)
    PROVE  (\A t \in Transfer : FileOf(t)' /\ Kept(t)) /\ FileOfProc(p)'
<1>a. ProcTypeOK /\ DbTypeOK /\ DiskTypeOK /\ LockOf(p) /\ CacheOf(p)
      /\ FileOfProc(p) /\ \A t \in Transfer : FileOf(t)
  BY DEF TypeOK, LockInv, CacheInv, FileInv
<1>b. UNCHANGED <<status, file>> => \A t \in Transfer : FileOf(t)' /\ Kept(t)
  BY <1>a DEF FileOf, Kept, HasGood
<1>c. UNCHANGED <<dbVars, diskVars>> => UNCHANGED <<status, file>>
  BY DEF dbVars, diskVars
<1>d. pc[p] # "idle" => tr[p] \in Transfer /\ FileOf(tr[p])
  BY <1>a DEF LockOf
<1> DEFINE Good == (\A t \in Transfer : FileOf(t)' /\ Kept(t)) /\ FileOfProc(p)'
<1>e. ASSUME UNCHANGED <<status, file>>, tr'[p] = tr[p],
             pc'[p] \notin {"c_staged", "c_moved"},
             pc'[p] \in AfterReady => pc[p] \in AfterReady
      PROVE  Good
  BY <1>b, <1>e, <1>a DEF FileOfProc, HasGood
<1>1. ASSUME NEW t \in Transfer, NEW n \in Part, NEW d \in Digest,
             PartLock(p, t, n, d)
      PROVE  Good
  BY <1>1, <1>a, <1>b, <1>c DEF PartLock, StartPart, Start, FileOfProc,
     ProcTypeOK, AfterReady, BeginPc, ImportPc
<1>2. ASSUME NEW t \in Transfer, CompleteLock(p, t) PROVE Good
  BY <1>2, <1>a, <1>b, <1>c DEF CompleteLock, Start, FileOfProc,
     ProcTypeOK, AfterReady, BeginPc, ImportPc
<1>3. CASE PartStore(p)
  BY <1>3, <1>a, <1>c, <1>e DEF PartStore, Goto, ProcTypeOK, dbVars, diskVars,
     AfterReady, BeginPc, ImportPc
<1>4. CASE MoveOrphan(p)
  BY <1>4, <1>a, <1>c, <1>e DEF MoveOrphan, Goto, ProcTypeOK, dbVars, diskVars,
     AfterReady, BeginPc, ImportPc
<1>5. CASE RefreshReady(p)
  BY <1>5, <1>a, <1>c, <1>e DEF RefreshReady, Goto, ProcTypeOK, dbVars, diskVars,
     AfterReady, BeginPc, ImportPc
<1>6. CASE AcquireImportLocks(p)
  BY <1>6, <1>a, <1>c, <1>e DEF AcquireImportLocks, Goto, ProcTypeOK, dbVars, diskVars,
     AfterReady, BeginPc, ImportPc
<1>7. CASE BeginLock(p)
  BY <1>7, <1>a, <1>c, <1>e DEF BeginLock, Goto, ProcTypeOK, dbVars, diskVars,
     AfterReady, BeginPc, ImportPc
<1>8. CASE ImportLock(p)
  BY <1>8, <1>a, <1>c, <1>e DEF ImportLock, Goto, ProcTypeOK, dbVars, diskVars,
     AfterReady, BeginPc, ImportPc
<1>9. CASE BeginFindsVerified(p)
  BY <1>9, <1>a, <1>c, <1>e DEF BeginFindsVerified, Goto, ProcTypeOK, dbVars, diskVars,
     AfterReady, BeginPc, ImportPc
<1>10. CASE ImportLocksRefused(p)
  BY <1>10, <1>a, <1>b, <1>c, FinishLock DEF ImportLocksRefused
<1>11. CASE BeginNotReady(p)
  BY <1>11, <1>a, <1>b, <1>c, FinishLock DEF BeginNotReady
<1>12. CASE Abort(p)
  BY <1>12, <1>a, <1>b, <1>c, FinishLock DEF Abort
<1>13. CASE FileInvalid(p)
  BY <1>13, <1>a, <1>b, <1>c, RaiseLock DEF FileInvalid
<1>14. CASE ImportNotImporting(p)
  BY <1>14, <1>a, <1>b, <1>c, RaiseLock DEF ImportNotImporting
<1>15. CASE ImportFails(p)
  BY <1>15, <1>a, <1>b, <1>c, RaiseLock DEF ImportFails
<1>16. CASE PartCommit(p)
  BY <1>16, <1>a, <1>b, FinishLock DEF PartCommit, diskVars
<1>17. CASE RefreshImporting(p)
  <2>1. CASE Finish(p)
    BY <1>17, <2>1, <1>a, <1>b, <1>c, FinishLock DEF RefreshImporting
  <2>2. CASE ~Finish(p)
    BY <1>17, <2>2, <1>a, <1>c, <1>e DEF RefreshImporting, Goto, ProcTypeOK,
       AfterReady, BeginPc, ImportPc
  <2>. QED BY <2>1, <2>2
<1>18. CASE PersistLock(p)
  <2>1. CASE Finish(p)
    BY <1>18, <2>1, <1>a, <1>b, <1>c, FinishLock DEF PersistLock
  <2>2. CASE ~Finish(p)
    BY <1>18, <2>2, <1>a, <1>c, <1>e DEF PersistLock, Goto, ProcTypeOK,
       AfterReady, BeginPc, ImportPc
  <2>. QED BY <2>1, <2>2
<1>19. CASE ValidateReady(p)
  <2>1. status[tr[p]] \in {"READY", "IMPORTING"}
    BY <1>19, <1>a DEF ValidateReady, CacheOf, FreshPc, HoldsRow, RowOf
  <2>2. HasGood(tr[p])
    BY <1>19, <2>1, <1>d DEF ValidateReady, FileOf
  <2>. QED BY <1>19, <2>1, <2>2, <1>a, <1>b, <1>c DEF ValidateReady, Goto,
           ProcTypeOK, FileOfProc, HasGood
<1>21. CASE IdleTimeout(p)
  BY <1>21, <1>a, <1>c, <1>e DEF IdleTimeout, Goto, ProcTypeOK, dbVars, diskVars,
     AfterReady, BeginPc, ImportPc
<1>20. CASE FileWriter(p)
  <2>1. tr[p] \in Transfer
    BY <1>20, <1>d DEF FileWriter, Assemble, AssembleFails, RestoreFailed,
       ImportMove, PersistMove, MarkQuarantined, CommitFailed, CommitReady,
       CommitImporting, CommitVerified
  <2>. QED BY <1>20, <2>1, FileWrite
<1>. QED BY <1>1, <1>2, <1>3, <1>4, <1>5, <1>6, <1>7, <1>8, <1>9, <1>10,
    <1>11, <1>12, <1>13, <1>14, <1>15, <1>16, <1>17, <1>18, <1>19, <1>20, <1>21
    DEF ProcStep, Request, PutStep, CompleteStep,
        FileWriter

(* The files survive whatever the other processes, a crash or the disk do. *)
LEMMA FileStep ==
    TypeOK /\ LockInv /\ CacheInv /\ FileInv /\ [Next]_vars => FileInv'
<1> SUFFICES ASSUME TypeOK, LockInv, CacheInv, FileInv, [Next]_vars
             PROVE  FileInv'
    OBVIOUS
<1>1. ASSUME NEW p \in Proc, ProcStep(p) PROVE FileInv'
  <2>1. ProcFrame(p) /\ RowFrame(p)
    BY <1>1, StepFrame
  <2>2. (\A t \in Transfer : FileOf(t)' /\ Kept(t)) /\ FileOfProc(p)'
    BY <1>1, FileOwn
  <2>3. ASSUME NEW q \in Proc, q # p PROVE FileOfProc(q)'
    <3>1. SameProc(q) /\ LockOf(q) /\ FileOfProc(q)
      BY <2>1, <2>3 DEF ProcFrame, LockInv, FileInv
    <3>2. pc[q] \in {"c_staged", "c_moved"} => SameRow(tr[q])
      BY <2>1, <2>3, <3>1 DEF RowFrame, LockOf, HoldsRow
    <3>3. pc[q] \in AfterReady => Kept(tr[q])
      BY <2>2, <3>1 DEF LockOf, AfterReady, BeginPc, ImportPc
    <3>. QED BY <3>1, <3>2, <3>3 DEF SameProc, SameRow, FileOfProc, Kept, HasGood
  <2>. QED BY <2>2, <2>3 DEF FileInv
<1>4. ASSUME NEW p \in Proc, StoreAdrift(p) PROVE FileInv'
  <2>1. ProcFrame(p) /\ FileOfProc(p)' /\ UNCHANGED <<dbVars, file>>
    BY <1>4, AdriftStep
  <2>2. ASSUME NEW q \in Proc, q # p PROVE FileOfProc(q)'
    BY <2>1, <2>2 DEF ProcFrame, SameProc, FileInv, FileOfProc, HasGood, dbVars
  <2>. QED BY <2>1, <2>2 DEF FileInv, FileOf, HasGood, dbVars
<1>2. CASE Crash
  BY <1>2 DEF Crash, FileInv, FileOf, FileOfProc, HasGood, AfterReady, BeginPc,
     ImportPc, dbVars, diskVars
<1>3. CASE \/ \E t \in Transfer, n \in Part : DamagePart(t, n)
           \/ \E t \in Transfer : Poll(t)
           \/ \E k \in Key : OnlineUpsert(k)
           \/ UNCHANGED vars
  BY <1>3 DEF DamagePart, Poll, OnlineUpsert, vars, dbVars, diskVars, procVars,
     FileInv, FileOf, FileOfProc, HasGood
<1>. QED BY <1>1, <1>2, <1>3, <1>4 DEF Next, ProcStep

-----------------------------------------------------------------------------
(* The rows of a transfer in the minute table.                             *)

(* Only CommitVerified touches the minute table, and only it and four      *)
(* other handlers write the status; none touches the collector's chunk.    *)
StatusWriter(p) ==
    \/ MarkQuarantined(p) \/ CommitFailed(p) \/ CommitReady(p)
    \/ CommitImporting(p)

(* Only CommitVerified changes the minute table, and none the chunk.       *)
LEMMA Writers ==
    ASSUME NEW p \in Proc, ProcStep(p)
    PROVE  /\ chunk' = chunk
           /\ \/ UNCHANGED <<status, minute>>
              \/ StatusWriter(p) /\ minute' = minute
              \/ CommitVerified(p)
<1> USE DEF dbVars, diskVars
<1>1. ASSUME NEW t \in Transfer, NEW n \in Part, NEW d \in Digest,
             PartLock(p, t, n, d)
      PROVE  chunk' = chunk /\ UNCHANGED <<status, minute>>
  BY <1>1 DEF PartLock, StartPart, Start
<1>2. ASSUME NEW t \in Transfer, CompleteLock(p, t)
      PROVE  chunk' = chunk /\ UNCHANGED <<status, minute>>
  BY <1>2 DEF CompleteLock, Start
<1>3. CASE PartStore(p) \/ IdleTimeout(p) \/ PartCommit(p)
           \/ MoveOrphan(p) \/ Assemble(p)
           \/ AssembleFails(p) \/ RestoreFailed(p) \/ ValidateReady(p)
           \/ FileInvalid(p) \/ RefreshReady(p) \/ AcquireImportLocks(p)
  BY <1>3 DEF PartStore, IdleTimeout, PartCommit, MoveOrphan, Assemble,
     AssembleFails, RestoreFailed, ValidateReady, FileInvalid, RefreshReady,
     AcquireImportLocks
<1>4. CASE ImportLocksRefused(p) \/ BeginLock(p) \/ BeginFindsVerified(p)
           \/ BeginNotReady(p) \/ RefreshImporting(p) \/ ImportLock(p)
           \/ ImportNotImporting(p) \/ ImportMove(p) \/ PersistLock(p)
           \/ PersistMove(p) \/ Abort(p) \/ ImportFails(p)
  BY <1>4 DEF ImportLocksRefused, BeginLock, BeginFindsVerified,
     BeginNotReady, RefreshImporting, ImportLock, ImportNotImporting,
     ImportMove, PersistLock, PersistMove, Abort, ImportFails
<1>5. CASE StatusWriter(p)
  BY <1>5 DEF StatusWriter, MarkQuarantined, CommitFailed, CommitReady,
     CommitImporting
<1>6. CASE CommitVerified(p)
  BY <1>6 DEF CommitVerified
<1>. QED BY <1>1, <1>2, <1>3, <1>4, <1>5, <1>6
         DEF ProcStep, Request, PutStep, CompleteStep, StatusWriter

(* A status write by a handler that is not the import never says VERIFIED. *)
LEMMA NotVerified ==
    ASSUME TypeOK, LockInv, NEW p \in Proc, StatusWriter(p),
           NEW t \in Transfer, status'[t] = "VERIFIED"
    PROVE  status[t] = "VERIFIED"
BY DEF TypeOK, DbTypeOK, LockInv, LockOf, StatusWriter, MarkQuarantined,
   CommitFailed, CommitReady, CommitImporting, WriteStatus, Flushed

(* A VERIFIED transfer, or one the collector dropped, stays in the table.  *)
LEMMA StoredStep ==
    TypeOK /\ LockInv /\ StoredInv /\ [Next]_vars => StoredInv'
<1> SUFFICES ASSUME TypeOK, LockInv, StoredInv, [Next]_vars PROVE StoredInv'
    OBVIOUS
<1>a. \A t \in Transfer : RowsOf[t] \subseteq Key
  BY RowsAssumption
<1>b. minute \in [Key -> {"absent", "online", "offline"}]
      /\ status \in [Transfer -> Status]
      /\ chunk \in [Transfer -> {"held", "dropped"}]
  BY DEF TypeOK, DbTypeOK
<1>c. UNCHANGED <<status, minute, chunk>> => StoredInv'
  BY DEF StoredInv, Stored
<1>1. ASSUME NEW p \in Proc, ProcStep(p) PROVE StoredInv'
  <2>1. CASE UNCHANGED <<status, minute>>
    BY <1>1, <2>1, <1>c, Writers
  <2>2. CASE StatusWriter(p) /\ minute' = minute
    BY <1>1, <2>2, Writers, NotVerified DEF StoredInv, Stored
  <2>3. CASE CommitVerified(p)
    <3>1. PICK u \in Transfer : u = tr[p]
      BY <2>3 DEF CommitVerified, LockInv, LockOf
    <3>2. \A k \in Key :
             /\ minute[k] # "absent" => minute'[k] # "absent"
             /\ k \in RowsOf[u] => minute'[k] # "absent"
      BY <2>3, <3>1 DEF CommitVerified, Merged
    <3>3. Stored(u)'
      BY <3>2, <1>a DEF Stored
    <3>4. \A t \in Transfer : Stored(t) => Stored(t)'
      BY <3>2, <1>a DEF Stored
    <3>5. \A t \in Transfer \ {u} : status'[t] = status[t]
      BY <2>3, <3>1, <1>b DEF CommitVerified, WriteStatus
    <3>6. chunk' = chunk
      BY <1>1, Writers
    <3>. QED BY <3>3, <3>4, <3>5, <3>6 DEF StoredInv
  <2>. QED BY <1>1, <2>1, <2>2, <2>3, Writers
<1>2. CASE Crash
  BY <1>2, <1>c DEF Crash, dbVars
<1>3. ASSUME NEW t \in Transfer, NEW n \in Part, DamagePart(t, n)
      PROVE  StoredInv'
  BY <1>3, <1>c DEF DamagePart, dbVars
<1>4. ASSUME NEW t \in Transfer, Poll(t) PROVE StoredInv'
  BY <1>4, <1>b DEF Poll, StoredInv, Stored, dbVars
<1>5. ASSUME NEW k \in Key, OnlineUpsert(k) PROVE StoredInv'
  BY <1>5, <1>a, <1>b DEF OnlineUpsert, StoredInv, Stored
<1>6. CASE UNCHANGED vars
  BY <1>6, <1>c DEF vars, dbVars
<1>7. ASSUME NEW p \in Proc, StoreAdrift(p) PROVE StoredInv'
  BY <1>7, <1>c DEF StoreAdrift, dbVars
<1>. QED BY <1>1, <1>2, <1>3, <1>4, <1>5, <1>6, <1>7 DEF Next, ProcStep

-----------------------------------------------------------------------------
(* The theorems                                                            *)

(* The inductive invariant holds in every state, for any number of         *)
(* transfers, parts, requests, faults and rows.                            *)
THEOREM Invariance == Spec => []IInv
<1>1. Init => IInv
  <2> SUFFICES ASSUME Init PROVE IInv
      OBVIOUS
  <2>1. TypeOK /\ LockInv
    BY ProcAssumption DEF Init, TypeOK, DbTypeOK, DiskTypeOK, LockTypeOK,
       ProcTypeOK, NoRow, Row, Status, Path, Dir, Pc, Digest, PartRow,
       PartFile, Assembled, LockInv, LockOf, PutPc, HoldsRow, ImportSection
  <2>2. CacheInv
    BY DEF Init, CacheInv, CacheOf, FreshPc, HoldsRow, PutPc
  <2>3. PartInv
    BY DEF Init, PartInv, PartOf, ConfirmedPartOnDisk
  <2>4. FileInv
    BY DEF Init, FileInv, FileOf, FileOfProc, AfterReady, BeginPc, ImportPc, Dir
  <2>5. StoredInv
    BY DEF Init, StoredInv
  <2>. QED BY <2>1, <2>2, <2>3, <2>4, <2>5 DEF IInv
<1>2. IInv /\ [Next]_vars => IInv'
  BY TypeStep, LockStep, CacheStep, PartStep, FileStep, StoredStep DEF IInv
<1>. QED BY <1>1, <1>2, PTL DEF Spec

(* Every variable keeps its type, whatever the interleaving.               *)
THEOREM TypeCorrect == Spec => []TypeOK
BY Invariance, PTL DEF IInv

(* The advisory locks admit one import at a time.                          *)
THEOREM OneImportAtATime == Spec => []ImportExclusive
<1>1. IInv => ImportExclusive
  BY DEF IInv, LockInv, LockOf, ImportExclusive
<1>. QED BY <1>1, Invariance, PTL

(* A confirmed part is on disk with the confirmed bytes, unless the disk   *)
(* lost it or a PUT of other bytes that had lost the row lock replaced it. *)
THEOREM ConfirmedPartsKept == Spec => []ConfirmedPartOnDisk
BY Invariance, PTL DEF IInv, PartInv

(* A transfer that is READY or IMPORTING always has a valid file.          *)
THEOREM FilesRecoverable == Spec => []FileRecoverable
<1>1. IInv => FileRecoverable
  BY DEF IInv, FileInv, FileOf, HasGood, FileRecoverable
<1>. QED BY <1>1, Invariance, PTL

(* The file of a VERIFIED transfer is in Imported.                         *)
THEOREM VerifiedFilesKept == Spec => []VerifiedFileKept
<1>1. IInv => VerifiedFileKept
  BY DEF IInv, FileInv, FileOf, VerifiedFileKept
<1>. QED BY <1>1, Invariance, PTL

(* When the collector drops its chunk, every row of it is stored.          *)
THEOREM NothingIsLost == Spec => []NothingLost
<1>1. IInv => NothingLost
  BY DEF IInv, StoredInv, Stored, NothingLost
<1>. QED BY <1>1, Invariance, PTL

(* The change IllegalOnlyWhenStale allows to the status of t.              *)
StatusChange(t) ==
    \/ status'[t] = status[t]
    \/ status'[t] \in AllowedTransitions[status[t]]
    \/ /\ status'[t] \in {"IMPORTING", "VERIFIED"}
       /\ \E p \in Proc : /\ rowLock[t] = p
                          /\ tr[p] = t
                          /\ sess[p].status # status[t]

(* A status change outside ALLOWED_TRANSITIONS comes from a session with   *)
(* an outdated status, and is to IMPORTING or VERIFIED.                    *)
THEOREM IllegalChangesAreStale == Spec => IllegalOnlyWhenStale
<1>1. ASSUME IInv, [Next]_vars, NEW t \in Transfer PROVE StatusChange(t)
  <2>a. status'[t] = status[t] => StatusChange(t)
    BY DEF StatusChange
  <2>b. TypeOK /\ DbTypeOK /\ LockInv /\ CacheInv
    BY <1>1 DEF IInv, TypeOK
  <2>1. ASSUME NEW p \in Proc, ProcStep(p) PROVE StatusChange(t)
    <3>1. CASE tr[p] # t \/ rowLock[t] # p
      <4>1. SameRow(t) \/ tr[p] # t
        BY <2>1, <2>b, <3>1, StepFrame DEF RowFrame
      <4>2. status'[t] = status[t]
        BY <2>1, <2>b, <4>1, Writers DEF SameRow, StatusWriter,
           MarkQuarantined, CommitFailed, CommitReady, CommitImporting,
           CommitVerified, WriteStatus, DbTypeOK
      <4>. QED BY <4>2, <2>a
    <3>2. CASE tr[p] = t /\ rowLock[t] = p
      <4>1. ASSUME NEW new \in Status, WriteStatus(t, p, new),
                   \/ sess[p].status = status[t]
                   \/ new \in {"IMPORTING", "VERIFIED"}
            PROVE  StatusChange(t)
        BY <2>b, <3>2, <4>1 DEF WriteStatus, Flushed, StatusChange, DbTypeOK
      <4>2. CASE UNCHANGED <<status, minute>>
        BY <4>2, <2>a
      <4>3. CASE MarkQuarantined(p) \/ CommitFailed(p) \/ CommitReady(p)
        <5>1. pc[p] \in FreshPc
          BY <4>3 DEF FreshPc, HoldsRow, PutPc, MarkQuarantined, CommitFailed,
             CommitReady
        <5>2. sess[p] = RowOf(t)
          BY <2>b, <3>2, <5>1 DEF CacheInv, CacheOf
        <5>3. sess[p].status = status[t]
          BY <5>2 DEF RowOf
        <5>. QED BY <3>2, <4>1, <4>3, <5>3 DEF Status, MarkQuarantined,
                 CommitFailed, CommitReady
      <4>4. CASE CommitImporting(p) \/ CommitVerified(p)
        BY <3>2, <4>1, <4>4 DEF Status, CommitImporting, CommitVerified
      <4>. QED BY <2>1, <4>2, <4>3, <4>4, Writers DEF StatusWriter
    <3>. QED BY <3>1, <3>2
  <2>2. CASE Crash \/ \E p \in Proc : StoreAdrift(p)
    BY <2>2, <2>a DEF Crash, StoreAdrift, dbVars
  <2>3. CASE \/ \E u \in Transfer, n \in Part : DamagePart(u, n)
             \/ \E u \in Transfer : Poll(u)
             \/ \E k \in Key : OnlineUpsert(k)
             \/ UNCHANGED vars
    BY <2>3, <2>a DEF DamagePart, Poll, OnlineUpsert, vars, dbVars
  <2>. QED BY <1>1, <2>1, <2>2, <2>3 DEF Next, ProcStep
<1>2. IInv /\ [Next]_vars => [\A t \in Transfer : StatusChange(t)]_vars
  BY <1>1
<1>. QED BY <1>2, Invariance, PTL DEF Spec, IllegalOnlyWhenStale, StatusChange

(* The requests implement the promise made to the collector: every step is *)
(* one of DurableDelivery or leaves its variables alone.                   *)
THEOREM Refinement == Spec => ImplementsDelivery
<1>1. Init => Delivery!Init
  BY DEF Init, Delivery!Init
<1>2. IInv /\ [Next]_vars => [Delivery!Next]_Delivery!vars
  <2> SUFFICES ASSUME IInv, [Next]_vars PROVE [Delivery!Next]_Delivery!vars
      OBVIOUS
  <2>1. ASSUME NEW p \in Proc, ProcStep(p)
        PROVE  [Delivery!Next]_Delivery!vars
    <3>1. CASE minute' = minute
      BY <2>1, <3>1, Writers DEF Delivery!vars
    <3>2. CASE CommitVerified(p)
      <4>1. PICK u \in Transfer : u = tr[p]
        BY <3>2 DEF CommitVerified, IInv, LockInv, LockOf
      <4>2. Delivery!Import(u)
        BY <3>2, <4>1 DEF CommitVerified, Merged, Delivery!Import
      <4>. QED BY <4>2 DEF Delivery!Next
    <3>. QED BY <2>1, <3>1, <3>2, Writers
  <2>2. CASE Crash \/ \E p \in Proc : StoreAdrift(p)
    BY <2>2 DEF Crash, StoreAdrift, dbVars, Delivery!vars
  <2>3. ASSUME NEW t \in Transfer, NEW n \in Part, DamagePart(t, n)
        PROVE  [Delivery!Next]_Delivery!vars
    BY <2>3 DEF DamagePart, dbVars, Delivery!vars
  <2>4. ASSUME NEW t \in Transfer, Poll(t)
        PROVE  [Delivery!Next]_Delivery!vars
    <3>1. Delivery!Drop(t)
      BY <2>4 DEF Poll, dbVars, IInv, StoredInv, Stored, Delivery!Drop,
         Delivery!Stored
    <3>. QED BY <3>1 DEF Delivery!Next
  <2>5. ASSUME NEW k \in Key, OnlineUpsert(k)
        PROVE  [Delivery!Next]_Delivery!vars
    BY <2>5 DEF OnlineUpsert, Delivery!OnlineUpsert, Delivery!Next
  <2>6. CASE UNCHANGED vars
    BY <2>6 DEF vars, dbVars, Delivery!vars
  <2>. QED BY <2>1, <2>2, <2>3, <2>4, <2>5, <2>6 DEF Next, ProcStep
<1>. QED BY <1>1, <1>2, Invariance, PTL
     DEF Spec, ImplementsDelivery, Delivery!Spec
=============================================================================
