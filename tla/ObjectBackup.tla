---------------------------- MODULE ObjectBackup ----------------------------
(***************************************************************************)
(* The object-storage backup of one tenant: the catalog rows it is driven  *)
(* by (services/object-backup/catalog.ts), the job that copies, marks and  *)
(* purges (jobs/object-storage-backup.job.ts), the tombstones the delete   *)
(* sites leave (services/object-backup/tombstone.ts) and the purge of a    *)
(* destroyed environment's subtree (services/object-backup/purge.ts),      *)
(* together with the operations that race with it: uploads, thumbnail      *)
(* uploads, deletes and the destruction of the environment.                *)
(*                                                                         *)
(* An object is there or not: S3 and Bunny show a file only once it is     *)
(* whole. (Local storage writes in place, so a run may copy part of one.)  *)
(* Which of several thumbnails a key holds is left out.                    *)
(***************************************************************************)
EXTENDS Naturals, FiniteSets

CONSTANTS
    NDocs,      \* storage_metadata rows, numbered in the order of createdAt
    Runs,       \* runs of the job that may be under way at the same time
    Batch,      \* objectBackup.batchLimit
    Grace,      \* objectBackup.deleteGraceDays, in ticks
    RunLimit,   \* the longest a run lasts, in ticks
    MaxClock,   \* bound of the clock
    MaxFaults   \* bound of the copies that fail and of the runs that stop

ASSUME BackupAssumption ==
    /\ NDocs \in Nat /\ Batch \in Nat \ {0}
    /\ Grace \in Nat /\ RunLimit \in Nat /\ RunLimit < Grace
    /\ MaxClock \in Nat /\ MaxFaults \in Nat

Docs == 1 .. NDocs
Parts == {"main", "thumb"}
Keys == Docs \X Parts

VARIABLES
    row,      \* the catalog: storage_metadata
    upload,   \* the upload of a document: "none", "open", "stored", "done"
    thumb,    \* a thumbnail upload that has stored its file and not the row
    delete,   \* a delete of the document under way, with what it has read
    live,     \* the keys of the live storage; a put is all or nothing there
    backup,   \* the keys of the backup destination
    tomb,     \* backup_deletion_queue
    env,      \* the environment, and its row of the global purge queue
    run,      \* the runs of the job
    clock, faults

vars == <<row, upload, thumb, delete, live, backup, tomb, env, run, clock, faults>>
world == <<row, upload, thumb, delete, live, tomb>>

\* "at" is when the document was deleted; it is kept for the properties only.
RowSet == [st : {"new", "live", "gone", "dropped"}, main : BOOLEAN,
           thumb : BOOLEAN, tmark : BOOLEAN, at : Nat]
TombSet == [key : Keys, after : Nat]
RunSet == [pc : {"idle", "copy", "put", "mark", "purge", "drop", "env", "sweep", "check"},
           now : Nat, main : SUBSET Docs, thumb : SUBSET Docs,
           due : SUBSET TombSet, hand : SUBSET TombSet, list : SUBSET Keys]
NoRun == [pc |-> "idle", now |-> 0, main |-> {}, thumb |-> {},
          due |-> {}, hand |-> {}, list |-> {}]

TypeOK ==
    /\ row \in [Docs -> RowSet]
    /\ upload \in [Docs -> {"none", "open", "stored", "done"}]
    /\ thumb \in [Docs -> BOOLEAN]
    /\ delete \in [Docs -> [pc : {"none", "files", "tx"}, thumb : BOOLEAN]]
    /\ live \in SUBSET Keys
    /\ backup \in SUBSET Keys
    /\ tomb \in SUBSET TombSet
    /\ env \in [up : BOOLEAN, queued : BOOLEAN, after : Nat]
    /\ run \in [Runs -> RunSet]
    /\ clock \in 0 .. MaxClock
    /\ faults \in 0 .. MaxFaults

Init ==
    /\ row = [d \in Docs |-> [st |-> "new", main |-> FALSE, thumb |-> FALSE, tmark |-> FALSE, at |-> 0]]
    /\ upload = [d \in Docs |-> "none"]
    /\ thumb = [d \in Docs |-> FALSE]
    /\ delete = [d \in Docs |-> [pc |-> "none", thumb |-> FALSE]]
    /\ live = {}
    /\ backup = {}
    /\ tomb = {}
    /\ env = [up |-> TRUE, queued |-> FALSE, after |-> 0]
    /\ run = [r \in Runs |-> NoRun]
    /\ clock = 0
    /\ faults = 0

Live(d) == row[d].st = "live"
Keeps(d) == <<d, "main">>
Shows(d) == <<d, "thumb">>

\* Faulty variant: the window is taken off the time of the deletion.
DeleteAfterBackwards == clock - Grace

backupDeleteAfter == clock + Grace

-----------------------------------------------------------------------------
\* Uploads. The rows are inserted before the file is streamed to the storage.

\* db.createDocumentRecords: the document can be seen, deleted and backed up.
CreateRecords(d) ==
    /\ env.up /\ row[d].st = "new" /\ \A e \in 1 .. d - 1 : row[e].st # "new"
    /\ row' = [row EXCEPT ![d].st = "live"]
    /\ upload' = [upload EXCEPT ![d] = "open"]
    /\ UNCHANGED <<thumb, delete, live, backup, tomb, env, run, clock, faults>>

\* processUploadStream has written the file, and a thumbnail if it made one.
StoreFile(d) ==
    /\ env.up /\ upload[d] = "open"
    /\ upload' = [upload EXCEPT ![d] = "stored"]
    /\ \E made \in { {}, {Shows(d)} } : live' = live \cup {Keeps(d)} \cup made
    /\ UNCHANGED <<row, thumb, delete, backup, tomb, env, run, clock, faults>>

\* The update that records the sizes and the thumbnail's path, null without one.
RecordFile(d) ==
    /\ env.up /\ upload[d] = "stored"
    /\ upload' = [upload EXCEPT ![d] = "done"]
    /\ row' = IF Live(d) THEN [row EXCEPT ![d].thumb = Shows(d) \in live] ELSE row
    /\ UNCHANGED <<thumb, delete, live, backup, tomb, env, run, clock, faults>>

\* The upload fails. The compensating cleanup deletes the rows and leaves no
\* tombstone; the files are only known once they are recorded. An HTTP error,
\* which is what the storage providers throw, skips the cleanup: the row stays.
FailUpload(d) ==
    /\ env.up /\ upload[d] \in {"open", "stored"} /\ faults < MaxFaults
    /\ upload' = [upload EXCEPT ![d] = "done"]
    /\ row' \in {row, IF Live(d) THEN [row EXCEPT ![d].st = "dropped"] ELSE row}
    /\ faults' = faults + 1
    /\ UNCHANGED <<thumb, delete, live, backup, tomb, env, run, clock>>

\* thumbnail-upload.handler.ts, up to storage.uploadFile: the document was
\* there; the key is the same for every thumbnail of the document.
StoreThumbnail(d) ==
    /\ env.up /\ Live(d) /\ upload[d] = "done" /\ ~thumb[d]
    /\ live' = live \cup {Shows(d)}
    /\ thumb' = [thumb EXCEPT ![d] = TRUE]
    /\ UNCHANGED <<row, upload, delete, backup, tomb, env, run, clock, faults>>

\* ... and its last update, which sets thumbnailPath and no mark.
RecordThumbnail(d) ==
    /\ env.up /\ thumb[d]
    /\ thumb' = [thumb EXCEPT ![d] = FALSE]
    /\ row' = IF Live(d) THEN [row EXCEPT ![d].thumb = TRUE] ELSE row
    /\ UNCHANGED <<upload, delete, live, backup, tomb, env, run, clock, faults>>

-----------------------------------------------------------------------------
\* Deletes: read, delete the files, then one transaction.

\* fetchDocumentsWithStorage.
FetchDocument(d) ==
    /\ env.up /\ Live(d) /\ delete[d].pc = "none"
    /\ delete' = [delete EXCEPT ![d] = [pc |-> "files", thumb |-> row[d].thumb]]
    /\ UNCHANGED <<row, upload, thumb, live, backup, tomb, env, run, clock, faults>>

\* deletePhysicalFiles: the main file first, the thumbnail only if that went
\* well (a missing file is an error too); failures are logged and ignored.
DeletePhysicalFiles(d) ==
    /\ env.up /\ delete[d].pc = "files"
    /\ \E S \in { {}, {Keeps(d)}, {Keeps(d), Shows(d)} } :
          /\ S \subseteq live
          /\ Shows(d) \in S => delete[d].thumb
          /\ live' = live \ S
    /\ delete' = [delete EXCEPT ![d].pc = "tx"]
    /\ UNCHANGED <<row, upload, thumb, backup, tomb, env, run, clock, faults>>

\* Faulty variant: only for what has been marked as backed up.
TombstonesIfMarked(d) ==
    {[key |-> k, after |-> backupDeleteAfter] :
        k \in (IF row[d].main THEN {Keeps(d)} ELSE {})
              \cup (IF delete[d].thumb THEN {Shows(d)} ELSE {})}

\* The tombstones for the keys that were read (buildBackupTombstoneRows).
Tombstones(d) ==
    {[key |-> k, after |-> backupDeleteAfter] :
        k \in {Keeps(d)} \cup (IF delete[d].thumb THEN {Shows(d)} ELSE {})}

\* deleteDatabaseRecords: the rows go and the tombstones come, together.
DeleteRecords(d) ==
    /\ env.up /\ delete[d].pc = "tx"
    /\ delete' = [delete EXCEPT ![d] = [pc |-> "none", thumb |-> FALSE]]
    /\ row' = IF Live(d) THEN [row EXCEPT ![d].st = "gone", ![d].at = clock] ELSE row
    /\ tomb' = tomb \cup Tombstones(d)
    /\ UNCHANGED <<upload, thumb, live, backup, env, run, clock, faults>>

\* The instance stops between the files and the transaction.
StopDelete(d) ==
    /\ delete[d].pc = "tx" /\ faults < MaxFaults
    /\ delete' = [delete EXCEPT ![d] = [pc |-> "none", thumb |-> FALSE]]
    /\ faults' = faults + 1
    /\ UNCHANGED <<row, upload, thumb, live, backup, tomb, env, run, clock>>

\* destroyEnvironment: the purge row and the teardown in one transaction, then
\* the tenant's database and its live objects.
DestroyEnvironment ==
    /\ env.up
    /\ env' = [up |-> FALSE, queued |-> TRUE, after |-> backupDeleteAfter]
    /\ row' = [d \in Docs |-> IF Live(d) THEN [row[d] EXCEPT !.st = "gone", !.at = clock] ELSE row[d]]
    /\ tomb' = {}
    /\ delete' = [d \in Docs |-> [pc |-> "none", thumb |-> FALSE]]
    /\ thumb' = [d \in Docs |-> FALSE]
    /\ live' \in {live, {}}
    /\ UNCHANGED <<upload, backup, run, clock, faults>>

-----------------------------------------------------------------------------
\* The job.

\* Faulty variant: the two conditions of the selection joined by "and".
UnbackedBoth == {d \in Docs : Live(d) /\ ~row[d].main /\ row[d].thumb /\ ~row[d].tmark}

\* The rows selectUnbackedDocuments looks for.
Unbacked == {d \in Docs : Live(d) /\ (~row[d].main \/ (row[d].thumb /\ ~row[d].tmark))}

\* The first n of a set of rows in the order of their creation.
FirstRows(S, n) == {d \in S : Cardinality({e \in S : e < d}) < n}

\* The run enumerates the tenant while it is registered; now is taken once;
\* selectUnbackedDocuments.
StartRun(r) ==
    /\ run[r].pc = "idle" /\ (env.up \/ env.queued)
    /\ LET S == FirstRows(Unbacked, Batch)
       IN run' = [run EXCEPT ![r] =
                    [NoRun EXCEPT !.pc = IF env.up THEN "copy" ELSE "env", !.now = clock,
                                  !.main = {d \in S : ~row[d].main},
                                  !.thumb = {d \in S : row[d].thumb /\ ~row[d].tmark}]]
    /\ UNCHANGED <<world, backup, env, clock, faults>>

\* The object the loop is at: per row the main one, then the thumbnail.
Todo(r) == run[r].main \cup run[r].thumb
Current(r) ==
    LET d == CHOOSE d \in Todo(r) : \A e \in Todo(r) : d <= e
    IN IF d \in run[r].main THEN Keeps(d) ELSE Shows(d)

\* The loop goes on with the next object of the row or of the next row.
Done(r, k) == [run[r] EXCEPT !.pc = "copy",
                 !.main = @ \ {k[1]}, !.thumb = IF k[2] = "thumb" THEN @ \ {k[1]} ELSE @]

\* A copy that failed: a main object takes its thumbnail with it (continue).
Skipped(r, k) == [Done(r, k) EXCEPT !.thumb = @ \ {k[1]}]

\* copyObject, first half: downloadFile, which throws when there is no file.
Download(r) ==
    /\ run[r].pc = "copy" /\ Todo(r) # {}
    /\ LET k == Current(r)
       IN run' = [run EXCEPT ![r] =
                    IF k \in live THEN [@ EXCEPT !.pc = "put"] ELSE Skipped(r, k)]
    /\ UNCHANGED <<world, backup, env, clock, faults>>

\* copyObject, second half: uploadFile to the backup, over what is there.
Put(r) ==
    /\ run[r].pc = "put"
    /\ backup' = backup \cup {Current(r)}
    /\ run' = [run EXCEPT ![r].pc = "mark"]
    /\ UNCHANGED <<world, env, clock, faults>>

\* Faulty variant: the failure is logged and the object marked all the same.
FailCopyMarks(r) ==
    /\ run[r].pc = "put" /\ faults < MaxFaults
    /\ run' = [run EXCEPT ![r].pc = "mark"]
    /\ faults' = faults + 1
    /\ UNCHANGED <<world, backup, env, clock>>

\* The copy fails: it is counted, and the row is left for the next run.
FailCopy(r) ==
    /\ run[r].pc = "put" /\ faults < MaxFaults
    /\ run' = [run EXCEPT ![r] = Skipped(r, Current(r))]
    /\ faults' = faults + 1
    /\ UNCHANGED <<world, backup, env, clock>>

\* markDocumentMainBackedUp, markDocumentThumbnailBackedUp: an update by id,
\* which finds no row once the document is deleted.
Mark(r) ==
    /\ run[r].pc = "mark"
    /\ LET k == Current(r)
       IN /\ row' = IF ~Live(k[1]) THEN row
                    ELSE IF k[2] = "main" THEN [row EXCEPT ![k[1]].main = TRUE]
                                          ELSE [row EXCEPT ![k[1]].tmark = TRUE]
          /\ run' = [run EXCEPT ![r] = Done(r, k)]
    /\ UNCHANGED <<upload, thumb, delete, live, backup, tomb, env, clock, faults>>

\* Phase B: selectDueTombstones, the oldest up to the limit that are due at the
\* time at which the run began.
SelectDue(r) ==
    /\ run[r].pc = "copy" /\ Todo(r) = {}
    /\ LET D == {t \in tomb : t.after <= run[r].now}
       IN \E T \in SUBSET D :
             /\ Cardinality(T) <= Batch /\ (T # D => Cardinality(T) = Batch)
             /\ \A t \in T, u \in D \ T : t.after <= u.after
             /\ run' = [run EXCEPT ![r].pc = "purge", ![r].due = T]
    /\ UNCHANGED <<world, backup, env, clock, faults>>

\* The loop over them is in the order of the selection.
Oldest(r) == {t \in run[r].due : \A u \in run[r].due : t.after <= u.after}

\* Faulty variant: a missing object is a failed purge.
PurgeExisting(r) ==
    /\ run[r].pc = "purge"
    /\ \E t \in Oldest(r) :
          /\ backup' = backup \ {t.key}
          /\ run' = [run EXCEPT ![r].due = @ \ {t}, ![r].pc = IF t.key \in backup THEN "drop" ELSE "purge",
                                ![r].hand = IF t.key \in backup THEN {t} ELSE {}]
    /\ UNCHANGED <<world, env, clock, faults>>

\* purgeBackupObject: a missing object counts as purged.
PurgeObject(r) ==
    /\ run[r].pc = "purge"
    /\ \E t \in Oldest(r) :
          /\ backup' = backup \ {t.key}
          /\ run' = [run EXCEPT ![r].pc = "drop", ![r].due = @ \ {t}, ![r].hand = {t}]
    /\ UNCHANGED <<world, env, clock, faults>>

\* markTombstonePurged.
DropTombstone(r) ==
    /\ run[r].pc = "drop"
    /\ tomb' = tomb \ run[r].hand
    /\ run' = [run EXCEPT ![r].pc = "purge", ![r].hand = {}]
    /\ UNCHANGED <<row, upload, thumb, delete, live, backup, env, clock, faults>>

\* bumpTombstoneAttempts: the tombstone stays for the next run.
FailPurge(r) ==
    /\ run[r].pc = "purge" /\ faults < MaxFaults
    /\ \E t \in Oldest(r) : run' = [run EXCEPT ![r].due = @ \ {t}]
    /\ faults' = faults + 1
    /\ UNCHANGED <<world, backup, env, clock>>

\* The tenant is done: phase C, with the time of now.
EndTenant(r) ==
    /\ run[r].pc = "purge" /\ run[r].due = {}
    /\ run' = [run EXCEPT ![r] = [NoRun EXCEPT !.pc = "env", !.now = clock]]
    /\ UNCHANGED <<world, backup, env, clock, faults>>

\* selectDueEnvironmentPurges and listKeysRecursive, or nothing is due.
ListSubtree(r) ==
    /\ run[r].pc = "env"
    /\ run' = [run EXCEPT ![r] = IF env.queued /\ env.after <= run[r].now
                                 THEN [@ EXCEPT !.pc = "sweep", !.list = backup]
                                 ELSE NoRun]
    /\ UNCHANGED <<world, backup, env, clock, faults>>

\* purgeEnvironmentBackupSubtree deletes the keys it listed one by one.
SweepKey(r) ==
    /\ run[r].pc = "sweep"
    /\ IF run[r].list = {}
       THEN run' = [run EXCEPT ![r].pc = "check"] /\ UNCHANGED backup
       ELSE \E k \in run[r].list :
                /\ backup' = backup \ {k}
                /\ run' = [run EXCEPT ![r].list = @ \ {k}]
    /\ UNCHANGED <<world, env, clock, faults>>

\* The second listing: what is left keeps the row in the queue.
ConfirmEmpty(r) ==
    /\ run[r].pc = "check"
    /\ env' = IF backup = {} THEN [env EXCEPT !.queued = FALSE] ELSE env
    /\ run' = [run EXCEPT ![r] = NoRun]
    /\ UNCHANGED <<world, backup, clock, faults>>

\* The instance stops, or the loop sees that the lock was lost.
StopRun(r) ==
    /\ run[r].pc # "idle" /\ faults < MaxFaults
    /\ run' = [run EXCEPT ![r] = NoRun]
    /\ faults' = faults + 1
    /\ UNCHANGED <<world, backup, env, clock>>

\* No run is allowed to last longer than RunLimit: the default grace is 30
\* days, the timeout of the job two hours.
Tick ==
    /\ clock < MaxClock
    /\ \A r \in Runs : run[r].pc = "idle" \/ clock < run[r].now + RunLimit
    /\ clock' = clock + 1
    /\ UNCHANGED <<world, backup, env, run, faults>>

RunStep(r) ==
    \/ StartRun(r) \/ Download(r) \/ Put(r) \/ Mark(r)
    \/ SelectDue(r) \/ PurgeObject(r) \/ DropTombstone(r) \/ EndTenant(r)
    \/ ListSubtree(r) \/ SweepKey(r) \/ ConfirmEmpty(r)

Next ==
    \/ \E d \in Docs :
          \/ CreateRecords(d) \/ StoreFile(d) \/ RecordFile(d) \/ FailUpload(d)
          \/ StoreThumbnail(d) \/ RecordThumbnail(d)
          \/ FetchDocument(d) \/ DeletePhysicalFiles(d) \/ DeleteRecords(d) \/ StopDelete(d)
    \/ DestroyEnvironment
    \/ \E r \in Runs : RunStep(r) \/ FailCopy(r) \/ FailPurge(r) \/ StopRun(r)
    \/ Tick

\* An upload ends, the job runs again and again and a run that does not stop
\* goes on (the scheduler's trigger and the loops of the job), time passes.
Fairness ==
    /\ \A d \in Docs : WF_vars(StoreFile(d) \/ RecordFile(d)) /\ WF_vars(RecordThumbnail(d))
    /\ \A r \in Runs : WF_vars(RunStep(r))
    /\ SF_vars(Tick)

Spec == Init /\ [][Next]_vars /\ Fairness

-----------------------------------------------------------------------------
\* A document that is still wanted: it is there, or was deleted within the
\* grace window.
Wanted(d) == Live(d) \/ (row[d].st = "gone" /\ clock < row[d].at + Grace)

\* What is marked as backed up can be restored: the main object, and a
\* thumbnail where one is marked, are in the backup as long as the document is
\* there and for the grace window after its deletion or the destruction of its
\* environment - whatever uploads, deletes and two overlapping runs do.
Recoverable ==
    \A d \in Docs : Wanted(d) =>
        /\ row[d].main => Keeps(d) \in backup
        /\ row[d].tmark => Shows(d) \in backup

\* A deleted document does not stay in the backup: its main object is followed
\* by a tombstone or the purge of the environment until it is gone, also when
\* the copy was under way as the document was deleted. The backup of a
\* destroyed environment is empty once its purge is confirmed.
NothingLeaks ==
    /\ \A d \in Docs : row[d].st = "gone" /\ Keeps(d) \in backup
                         => env.queued \/ \E t \in tomb : t.key = Keeps(d)
    /\ ~env.up /\ ~env.queued => backup = {}

\* A row that every run selects and none can copy: its file is missing.
Poisoned(d) ==
    /\ d \in Unbacked /\ upload[d] = "done"
    /\ (IF row[d].main THEN Shows(d) ELSE Keeps(d)) \notin live
Blocked == Cardinality({d \in Docs : Poisoned(d)}) >= Batch

\* The backup catches up again and again with the documents that are stored,
\* unless rows whose file is missing fill the batch: the selection is oldest
\* first and has a limit, and such rows stay at its head.
BackedUpAtLast ==
    []<>(Blocked \/ \A d \in Docs : Live(d) /\ Keeps(d) \in live => row[d].main)

\* The tombstones that have fallen due are worked off, and so is the subtree of
\* a destroyed environment.
Overdue == (\E t \in tomb : t.after <= MaxClock) \/ (env.queued /\ env.after <= MaxClock)
PurgedAtLast == []<>~Overdue
=============================================================================
