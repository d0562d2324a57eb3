------------------------- MODULE ObjectBackupProofs -------------------------
(***************************************************************************)
(* What the object-storage backup promises for any number of documents and *)
(* runs, any batch and any grace that is longer than a run.                *)
(***************************************************************************)
EXTENDS ObjectBackup, WellFoundedInduction, TLAPS

Gone(d) == row[d].st = "gone"
Over(d) == row[d].st \in {"gone", "dropped"}

\* A run in the middle of a copy has an object it is at.
Busy == \A r \in Runs : run[r].pc \in {"put", "mark"} => Todo(r) # {}

-----------------------------------------------------------------------------
\* A set of naturals that is not empty has a least element.
LEMMA LeastDoc ==
  ASSUME NEW S \in SUBSET Nat, S # {}
  PROVE  \E d \in S : \A e \in S : d <= e
<1> DEFINE R == {ss \in Nat \X Nat : ss[1] < ss[2]}
<1>0. IsWellFoundedOn(R, Nat)
  BY NatLessThanWellFounded DEF OpToRel
<1> HIDE DEF R
<1>1. PICK d \in S : \A e \in S : ~ (<<e, d>> \in R)
  BY <1>0, WFMin
<1>2. ASSUME NEW e \in S PROVE d <= e
  <2>1. e \in Nat /\ d \in Nat  OBVIOUS
  <2>2. e < d => <<e, d>> \in R  BY <2>1 DEF R
  <2> QED BY <1>1, <2>1, <2>2
<1> QED BY <1>2

\* The object a run is at belongs to a row that it still has to do.
LEMMA CurrentObject ==
  ASSUME NEW r \in Runs, run[r].main \in SUBSET Docs, run[r].thumb \in SUBSET Docs,
         Todo(r) # {}
  PROVE  \E d \in Todo(r) : \/ Current(r) = Keeps(d) /\ d \in run[r].main
                            \/ Current(r) = Shows(d) /\ d \notin run[r].main
<1>1. Todo(r) \in SUBSET Nat
  BY BackupAssumption DEF Todo, Docs
<1> DEFINE c == CHOOSE d \in Todo(r) : \A e \in Todo(r) : d <= e
<1>2. c \in Todo(r)
  <2>1. \E d \in Todo(r) : \A e \in Todo(r) : d <= e
    BY <1>1, LeastDoc
  <2> QED BY <2>1
<1>3. Current(r) = IF c \in run[r].main THEN Keeps(c) ELSE Shows(c)
  BY DEF Current
<1> HIDE DEF c
<1> QED BY <1>2, <1>3

LEMMA CurrentKept ==
  ASSUME NEW r \in Runs, run'[r] = run[r]
  PROVE  Todo(r)' = Todo(r) /\ Current(r)' = Current(r)
<1>1. Todo(r)' = Todo(r)
  BY DEF Todo
<1>2. (CHOOSE d \in Todo(r)' : \A e \in Todo(r)' : d <= e)
         = (CHOOSE d \in Todo(r) : \A e \in Todo(r) : d <= e)
  BY <1>1
<1> QED BY <1>1, <1>2 DEF Current

-----------------------------------------------------------------------------
\* Types

TypeInv == TypeOK /\ Busy

LEMMA KeysOf == \A d \in Docs : Keeps(d) \in Keys /\ Shows(d) \in Keys
BY DEF Keeps, Shows, Keys, Parts

LEMMA NoRunType == NoRun \in RunSet
BY DEF NoRun, RunSet

LEMMA CurrentType ==
  ASSUME TypeOK, NEW r \in Runs, Todo(r) # {}
  PROVE  Current(r) \in Keys
<1>1. run[r] \in RunSet  BY DEF TypeOK
<1>2. run[r].main \in SUBSET Docs /\ run[r].thumb \in SUBSET Docs
  BY <1>1 DEF RunSet
<1>3. Todo(r) \in SUBSET Docs  BY <1>2 DEF Todo
<1> QED BY <1>2, <1>3, CurrentObject, KeysOf

\* The rows, the uploads and the deletes.
LEMMA DocTyping ==
  ASSUME TypeOK, NEW d \in Docs,
         \/ CreateRecords(d) \/ StoreFile(d) \/ RecordFile(d) \/ FailUpload(d)
         \/ StoreThumbnail(d) \/ RecordThumbnail(d)
         \/ FetchDocument(d) \/ DeletePhysicalFiles(d) \/ DeleteRecords(d) \/ StopDelete(d)
  PROVE  TypeOK'
<1> DEFINE DelSet == [pc : {"none", "files", "tx"}, thumb : BOOLEAN]
<1>0. /\ row \in [Docs -> RowSet] /\ row[d] \in RowSet
      /\ delete \in [Docs -> DelSet] /\ delete[d] \in DelSet
      /\ clock \in Nat /\ faults \in 0 .. MaxFaults
  BY BackupAssumption DEF TypeOK
<1>k. Keeps(d) \in Keys /\ Shows(d) \in Keys  BY KeysOf
<1>1. CASE CreateRecords(d)
  <2>1. [row[d] EXCEPT !.st = "live"] \in RowSet  BY <1>0 DEF RowSet
  <2>2. row' \in [Docs -> RowSet]  BY <1>0, <1>1, <2>1 DEF CreateRecords
  <2> QED BY <1>1, <2>2 DEF TypeOK, CreateRecords
<1>2. CASE StoreFile(d)
  BY <1>2, <1>k DEF TypeOK, StoreFile
<1>3. CASE RecordFile(d)
  <2>0. ASSUME NEW b \in BOOLEAN PROVE [row[d] EXCEPT !.thumb = b] \in RowSet
    BY <1>0 DEF RowSet
  <2>1. [row[d] EXCEPT !.thumb = Shows(d) \in live] \in RowSet
    <3>1. (Shows(d) \in live) \in BOOLEAN  OBVIOUS
    <3> QED BY <2>0, <3>1
  <2>2. row' \in [Docs -> RowSet]  BY <1>0, <1>3, <2>1 DEF RecordFile
  <2> QED BY <1>3, <2>2 DEF TypeOK, RecordFile
<1>4. CASE FailUpload(d)
  <2>1. [row[d] EXCEPT !.st = "dropped"] \in RowSet  BY <1>0 DEF RowSet
  <2>2. row' \in [Docs -> RowSet]  BY <1>0, <1>4, <2>1 DEF FailUpload
  <2>3. faults' \in 0 .. MaxFaults  BY <1>0, <1>4, BackupAssumption DEF FailUpload
  <2> QED BY <1>4, <2>2, <2>3 DEF TypeOK, FailUpload
<1>5. CASE StoreThumbnail(d)
  BY <1>5, <1>k DEF TypeOK, StoreThumbnail
<1>6. CASE RecordThumbnail(d)
  <2>1. [row[d] EXCEPT !.thumb = TRUE] \in RowSet  BY <1>0 DEF RowSet
  <2>2. row' \in [Docs -> RowSet]  BY <1>0, <1>6, <2>1 DEF RecordThumbnail
  <2> QED BY <1>6, <2>2 DEF TypeOK, RecordThumbnail
<1>7. CASE FetchDocument(d)
  <2>1. row[d].thumb \in BOOLEAN  BY <1>0 DEF RowSet
  <2>2. [pc |-> "files", thumb |-> row[d].thumb] \in DelSet  BY <2>1
  <2>3. delete' \in [Docs -> DelSet]  BY <1>0, <1>7, <2>2 DEF FetchDocument
  <2> QED BY <1>7, <2>3 DEF TypeOK, FetchDocument
<1>8. CASE DeletePhysicalFiles(d)
  <2>1. [delete[d] EXCEPT !.pc = "tx"] \in DelSet  BY <1>0
  <2>2. delete' \in [Docs -> DelSet]  BY <1>0, <1>8, <2>1 DEF DeletePhysicalFiles
  <2>3. live' \in SUBSET Keys  BY <1>8 DEF TypeOK, DeletePhysicalFiles
  <2> QED BY <1>8, <2>2, <2>3 DEF TypeOK, DeletePhysicalFiles
<1>9. CASE DeleteRecords(d)
  <2>1. [[row[d] EXCEPT !.st = "gone"] EXCEPT !.at = clock] \in RowSet  BY <1>0 DEF RowSet
  <2>2. row' \in [Docs -> RowSet]  BY <1>0, <1>9, <2>1 DEF DeleteRecords
  <2>3. backupDeleteAfter \in Nat  BY <1>0, BackupAssumption DEF backupDeleteAfter
  <2>4. Tombstones(d) \in SUBSET TombSet  BY <2>3, <1>k DEF Tombstones, TombSet
  <2>5. tomb' \in SUBSET TombSet  BY <1>9, <2>4 DEF TypeOK, DeleteRecords
  <2>6. delete' \in [Docs -> DelSet]  BY <1>0, <1>9 DEF DeleteRecords
  <2> QED BY <1>9, <2>2, <2>5, <2>6 DEF TypeOK, DeleteRecords
<1>10. CASE StopDelete(d)
  <2>1. delete' \in [Docs -> DelSet]  BY <1>0, <1>10 DEF StopDelete
  <2>2. faults' \in 0 .. MaxFaults  BY <1>0, <1>10, BackupAssumption DEF StopDelete
  <2> QED BY <1>10, <2>1, <2>2 DEF TypeOK, StopDelete
<1> QED BY <1>1, <1>2, <1>3, <1>4, <1>5, <1>6, <1>7, <1>8, <1>9, <1>10

LEMMA DestroyTyping == TypeOK /\ DestroyEnvironment => TypeOK'
<1> SUFFICES ASSUME TypeOK, DestroyEnvironment PROVE TypeOK'
  OBVIOUS
<1>0. clock \in Nat /\ row \in [Docs -> RowSet]  BY BackupAssumption DEF TypeOK
<1>1. ASSUME NEW d \in Docs
      PROVE  (IF Live(d) THEN [row[d] EXCEPT !.st = "gone", !.at = clock] ELSE row[d]) \in RowSet
  BY <1>0 DEF RowSet
<1>2. row' \in [Docs -> RowSet]  BY <1>1 DEF DestroyEnvironment
<1>3. backupDeleteAfter \in Nat  BY <1>0, BackupAssumption DEF backupDeleteAfter
<1>4. env' \in [up : BOOLEAN, queued : BOOLEAN, after : Nat]  BY <1>3 DEF DestroyEnvironment
<1>5. tomb' \in SUBSET TombSet /\ live' \in SUBSET Keys  BY DEF TypeOK, DestroyEnvironment
<1> QED BY <1>2, <1>4, <1>5 DEF TypeOK, DestroyEnvironment

\* The steps of a run: it goes on as a run, and what else it writes is typed.
LEMMA RunTyping ==
  ASSUME TypeInv, NEW r \in Runs, RunStep(r) \/ FailCopy(r) \/ FailPurge(r) \/ StopRun(r)
  PROVE  TypeOK'
<1> DEFINE v == run[r]
<1>0. /\ run \in [Runs -> RunSet] /\ v \in RunSet
      /\ row \in [Docs -> RowSet] /\ clock \in Nat /\ faults \in 0 .. MaxFaults
      /\ v.main \in SUBSET Docs /\ v.thumb \in SUBSET Docs
      /\ v.due \in SUBSET TombSet /\ v.hand \in SUBSET TombSet /\ v.list \in SUBSET Keys
      /\ v.now \in Nat
  <2>1. run \in [Runs -> RunSet] /\ v \in RunSet  BY DEF TypeInv, TypeOK
  <2>2. row \in [Docs -> RowSet] /\ clock \in Nat /\ faults \in 0 .. MaxFaults
    BY BackupAssumption DEF TypeInv, TypeOK
  <2> QED BY <2>1, <2>2 DEF RunSet
<1>n. NoRun \in RunSet  BY NoRunType
<1>s. ASSUME NEW k PROVE Done(r, k) \in RunSet /\ Skipped(r, k) \in RunSet
  <2>1. Done(r, k) \in RunSet  BY <1>0 DEF Done, RunSet
  <2> QED BY <2>1 DEF Skipped, RunSet
<1>1. CASE StartRun(r)
  <2> DEFINE S == FirstRows(Unbacked, Batch)
             w == [NoRun EXCEPT !.pc = IF env.up THEN "copy" ELSE "env", !.now = clock,
                                !.main = {d \in S : ~row[d].main},
                                !.thumb = {d \in S : row[d].thumb /\ ~row[d].tmark}]
  <2>1. S \in SUBSET Docs  BY DEF FirstRows, Unbacked
  <2> HIDE DEF S
  <2>2. w \in RunSet  BY <1>0, <2>1 DEF NoRun, RunSet
  <2>3. run' = [run EXCEPT ![r] = w]  BY <1>1 DEF StartRun, S
  <2>4. run' \in [Runs -> RunSet]  BY <1>0, <2>2, <2>3
  <2> QED BY <1>1, <2>4 DEF TypeInv, TypeOK, StartRun, world
<1>2. CASE Download(r)
  <2>1. [v EXCEPT !.pc = "put"] \in RunSet  BY <1>0 DEF RunSet
  <2>2. run' \in [Runs -> RunSet]  BY <1>0, <1>2, <1>s, <2>1 DEF Download
  <2> QED BY <1>2, <2>2 DEF TypeInv, TypeOK, Download, world
<1>3. CASE Put(r)
  <2>1. [v EXCEPT !.pc = "mark"] \in RunSet  BY <1>0 DEF RunSet
  <2>2. run' \in [Runs -> RunSet]  BY <1>0, <1>3, <2>1 DEF Put
  <2>3. Current(r) \in Keys  BY <1>3, CurrentType DEF TypeInv, Busy, Put
  <2>4. backup' \in SUBSET Keys  BY <1>3, <2>3 DEF TypeInv, TypeOK, Put
  <2> QED BY <1>3, <2>2, <2>4 DEF TypeInv, TypeOK, Put, world
<1>4. CASE FailCopy(r)
  <2>1. run' \in [Runs -> RunSet]  BY <1>0, <1>4, <1>s DEF FailCopy
  <2>2. faults' \in 0 .. MaxFaults  BY <1>0, <1>4, BackupAssumption DEF FailCopy
  <2> QED BY <1>4, <2>1, <2>2 DEF TypeInv, TypeOK, FailCopy, world
<1>5. CASE Mark(r)
  <2> DEFINE k == Current(r)
  <2>1. run' \in [Runs -> RunSet]  BY <1>0, <1>5, <1>s DEF Mark
  <2>2. ASSUME NEW d \in Docs
        PROVE  [row[d] EXCEPT !.main = TRUE] \in RowSet /\ [row[d] EXCEPT !.tmark = TRUE] \in RowSet
    BY <1>0 DEF RowSet
  <2>3. row' \in [Docs -> RowSet]
    <3>1. \/ row' = row
          \/ row' = [row EXCEPT ![k[1]] = [@ EXCEPT !.main = TRUE]]
          \/ row' = [row EXCEPT ![k[1]] = [@ EXCEPT !.tmark = TRUE]]
      BY <1>5 DEF Mark
    <3> HIDE DEF k
    <3> QED BY <1>0, <2>2, <3>1
  <2> QED BY <1>5, <2>1, <2>3 DEF TypeInv, TypeOK, Mark
<1>6. CASE SelectDue(r)
  <2>1. PICK T \in SUBSET tomb : run' = [run EXCEPT ![r].pc = "purge", ![r].due = T]
    BY <1>6 DEF SelectDue
  <2>2. T \in SUBSET TombSet  BY DEF TypeInv, TypeOK
  <2>3. [[v EXCEPT !.pc = "purge"] EXCEPT !.due = T] \in RunSet  BY <1>0, <2>2 DEF RunSet
  <2>4. run' \in [Runs -> RunSet]  BY <1>0, <2>1, <2>3
  <2> QED BY <1>6, <2>4 DEF TypeInv, TypeOK, SelectDue, world
<1>7. CASE PurgeObject(r)
  <2>1. PICK t \in v.due : /\ backup' = backup \ {t.key}
                           /\ run' = [run EXCEPT ![r].pc = "drop", ![r].due = @ \ {t}, ![r].hand = {t}]
    BY <1>7 DEF PurgeObject, Oldest
  <2>2. {t} \in SUBSET TombSet  BY <1>0
  <2>3. [v EXCEPT !.pc = "drop", !.due = @ \ {t}, !.hand = {t}] \in RunSet  BY <1>0, <2>2 DEF RunSet
  <2>4. run' \in [Runs -> RunSet]  BY <1>0, <2>1, <2>3
  <2>5. backup' \in SUBSET Keys  BY <2>1 DEF TypeInv, TypeOK
  <2> QED BY <1>7, <2>4, <2>5 DEF TypeInv, TypeOK, PurgeObject, world
<1>8. CASE DropTombstone(r)
  <2>1. [v EXCEPT !.pc = "purge", !.hand = {}] \in RunSet  BY <1>0 DEF RunSet
  <2>2. run' \in [Runs -> RunSet]  BY <1>0, <1>8, <2>1 DEF DropTombstone
  <2>3. tomb' \in SUBSET TombSet  BY <1>8 DEF TypeInv, TypeOK, DropTombstone
  <2> QED BY <1>8, <2>2, <2>3 DEF TypeInv, TypeOK, DropTombstone
<1>9. CASE FailPurge(r)
  <2>1. PICK t \in v.due : run' = [run EXCEPT ![r].due = @ \ {t}]
    BY <1>9 DEF FailPurge, Oldest
  <2>2. [v EXCEPT !.due = @ \ {t}] \in RunSet  BY <1>0 DEF RunSet
  <2>3. run' \in [Runs -> RunSet]  BY <1>0, <2>1, <2>2
  <2>4. faults' \in 0 .. MaxFaults  BY <1>0, <1>9, BackupAssumption DEF FailPurge
  <2> QED BY <1>9, <2>3, <2>4 DEF TypeInv, TypeOK, FailPurge, world
<1>10. CASE EndTenant(r)
  <2>1. [NoRun EXCEPT !.pc = "env", !.now = clock] \in RunSet  BY <1>0, <1>n DEF RunSet
  <2>2. run' \in [Runs -> RunSet]  BY <1>0, <1>10, <2>1 DEF EndTenant
  <2> QED BY <1>10, <2>2 DEF TypeInv, TypeOK, EndTenant, world
<1>11. CASE ListSubtree(r)
  <2>1. backup \in SUBSET Keys  BY DEF TypeInv, TypeOK
  <2>2. [v EXCEPT !.pc = "sweep", !.list = backup] \in RunSet  BY <1>0, <2>1 DEF RunSet
  <2>3. run' \in [Runs -> RunSet]  BY <1>0, <1>n, <1>11, <2>2 DEF ListSubtree
  <2> QED BY <1>11, <2>3 DEF TypeInv, TypeOK, ListSubtree, world
<1>12. CASE SweepKey(r)
  <2>1. CASE v.list = {}
    <3>1. [v EXCEPT !.pc = "check"] \in RunSet  BY <1>0 DEF RunSet
    <3>2. run' \in [Runs -> RunSet]  BY <1>0, <1>12, <2>1, <3>1 DEF SweepKey
    <3> QED BY <1>12, <2>1, <3>2 DEF TypeInv, TypeOK, SweepKey, world
  <2>2. CASE v.list # {}
    <3>1. PICK k \in v.list : /\ backup' = backup \ {k}
                              /\ run' = [run EXCEPT ![r].list = @ \ {k}]
      BY <1>12, <2>2 DEF SweepKey
    <3>2. [v EXCEPT !.list = @ \ {k}] \in RunSet  BY <1>0 DEF RunSet
    <3>3. run' \in [Runs -> RunSet]  BY <1>0, <3>1, <3>2
    <3>4. backup' \in SUBSET Keys  BY <3>1 DEF TypeInv, TypeOK
    <3> QED BY <1>12, <3>3, <3>4 DEF TypeInv, TypeOK, SweepKey, world
  <2> QED BY <2>1, <2>2
<1>13. CASE ConfirmEmpty(r)
  <2>1. run' \in [Runs -> RunSet]  BY <1>0, <1>n, <1>13 DEF ConfirmEmpty
  <2>2. env' \in [up : BOOLEAN, queued : BOOLEAN, after : Nat]
    BY <1>13 DEF TypeInv, TypeOK, ConfirmEmpty
  <2> QED BY <1>13, <2>1, <2>2 DEF TypeInv, TypeOK, ConfirmEmpty, world
<1>14. CASE StopRun(r)
  <2>1. run' \in [Runs -> RunSet]  BY <1>0, <1>n, <1>14 DEF StopRun
  <2>2. faults' \in 0 .. MaxFaults  BY <1>0, <1>14, BackupAssumption DEF StopRun
  <2> QED BY <1>14, <2>1, <2>2 DEF TypeInv, TypeOK, StopRun, world
<1> QED BY <1>1, <1>2, <1>3, <1>4, <1>5, <1>6, <1>7, <1>8, <1>9, <1>10, <1>11, <1>12, <1>13, <1>14
        DEF RunStep

LEMMA BusyStep ==
  ASSUME TypeInv, NEW r \in Runs, RunStep(r) \/ FailCopy(r) \/ FailPurge(r) \/ StopRun(r)
  PROVE  Busy'
<1>0. run \in [Runs -> RunSet]  BY DEF TypeInv, TypeOK
<1>1. ASSUME NEW s \in Runs, s # r PROVE run'[s] = run[s]
  BY <1>0, <1>1 DEF RunStep, FailCopy, FailPurge, StopRun, StartRun, Download, Put, Mark, SelectDue,
     PurgeObject, DropTombstone, EndTenant, ListSubtree, SweepKey, ConfirmEmpty
<1>2. run'[r].pc \in {"put", "mark"} => Todo(r)' # {}
  <2>1. CASE Download(r)
    <3>1. \/ run'[r] = [run[r] EXCEPT !.pc = "put"]
          \/ \E k : run'[r] = Skipped(r, k)
      BY <1>0, <2>1 DEF Download
    <3>2. ASSUME NEW k PROVE Skipped(r, k).pc = "copy"
      BY <1>0 DEF Skipped, Done, RunSet
    <3>3. CASE run'[r] = [run[r] EXCEPT !.pc = "put"]
      BY <1>0, <2>1, <3>3 DEF Download, Todo, RunSet
    <3> QED BY <3>1, <3>2, <3>3
  <2>2. CASE Put(r)
    <3>1. run'[r] = [run[r] EXCEPT !.pc = "mark"]  BY <1>0, <2>2 DEF Put
    <3>2. run[r] \in RunSet  BY <1>0
    <3>3. run'[r].main = run[r].main /\ run'[r].thumb = run[r].thumb  BY <3>1, <3>2 DEF RunSet
    <3> QED BY <2>2, <3>3 DEF TypeInv, Busy, Put, Todo
  <2>3. CASE Mark(r) \/ FailCopy(r)
    <3>1. ASSUME NEW k PROVE Skipped(r, k).pc = "copy" /\ Done(r, k).pc = "copy"
      BY <1>0 DEF Skipped, Done, RunSet
    <3> QED BY <1>0, <2>3, <3>1 DEF Mark, FailCopy
  <2>4. CASE StartRun(r) \/ SelectDue(r) \/ PurgeObject(r) \/ DropTombstone(r) \/ EndTenant(r)
             \/ ListSubtree(r) \/ SweepKey(r) \/ ConfirmEmpty(r) \/ FailPurge(r) \/ StopRun(r)
    <3> SUFFICES run'[r].pc \notin {"put", "mark"}
      OBVIOUS
    <3>0. run[r] \in RunSet
      BY <1>0
    <3>a. CASE StartRun(r)
      <4>1. run'[r].pc = IF env.up THEN "copy" ELSE "env"
        BY <1>0, <3>a DEF StartRun, NoRun
      <4> QED BY <4>1
    <3>b. CASE SelectDue(r)
      <4>1. PICK T \in SUBSET tomb : run' = [run EXCEPT ![r] = [@ EXCEPT !.pc = "purge", !.due = T]]
        BY <3>b DEF SelectDue
      <4>2. run'[r] = [run[r] EXCEPT !.pc = "purge", !.due = T]  BY <1>0, <4>1
      <4>3. run'[r].pc = "purge"  BY <3>0, <4>2 DEF RunSet
      <4> QED BY <4>3
    <3>g. CASE PurgeObject(r)
      <4>1. PICK t \in run[r].due :
              run' = [run EXCEPT ![r].pc = "drop", ![r].due = @ \ {t}, ![r].hand = {t}]
        BY <3>g DEF PurgeObject, Oldest
      <4>2. run'[r] = [run[r] EXCEPT !.pc = "drop", !.due = @ \ {t}, !.hand = {t}]  BY <1>0, <4>1
      <4>3. run'[r].pc = "drop"  BY <3>0, <4>2 DEF RunSet
      <4> QED BY <4>3
    <3>h. CASE DropTombstone(r)
      BY <1>0, <3>0, <3>h DEF DropTombstone, RunSet
    <3>c. CASE EndTenant(r)
      BY <1>0, <3>c DEF EndTenant, NoRun
    <3>i. CASE StopRun(r) \/ ConfirmEmpty(r)
      BY <1>0, <3>i DEF StopRun, ConfirmEmpty, NoRun
    <3>d. CASE ListSubtree(r)
      BY <1>0, <3>0, <3>d DEF ListSubtree, NoRun, RunSet
    <3>e. CASE SweepKey(r)
      BY <1>0, <3>0, <3>e DEF SweepKey, RunSet
    <3>f. CASE FailPurge(r)
      BY <1>0, <3>0, <3>f DEF FailPurge, RunSet
    <3> QED BY <2>4, <3>a, <3>b, <3>c, <3>d, <3>e, <3>f, <3>g, <3>h, <3>i
  <2> QED BY <2>1, <2>2, <2>3, <2>4 DEF RunStep
<1> QED BY <1>1, <1>2, CurrentKept DEF TypeInv, Busy

LEMMA TypeStep == TypeInv /\ [Next]_vars => TypeInv'
<1> SUFFICES ASSUME TypeInv, [Next]_vars PROVE TypeInv'
  OBVIOUS
<1> USE DEF TypeInv
<1>0. run' = run => Busy'
  BY DEF Busy, Todo
<1>1. ASSUME NEW d \in Docs,
             \/ CreateRecords(d) \/ StoreFile(d) \/ RecordFile(d) \/ FailUpload(d)
             \/ StoreThumbnail(d) \/ RecordThumbnail(d)
             \/ FetchDocument(d) \/ DeletePhysicalFiles(d) \/ DeleteRecords(d) \/ StopDelete(d)
      PROVE TypeInv'
  <2>1. run' = run
    BY <1>1 DEF CreateRecords, StoreFile, RecordFile, FailUpload, StoreThumbnail, RecordThumbnail,
       FetchDocument, DeletePhysicalFiles, DeleteRecords, StopDelete
  <2> QED BY <1>0, <1>1, <2>1, DocTyping
<1>2. CASE DestroyEnvironment
  BY <1>0, <1>2, DestroyTyping DEF DestroyEnvironment
<1>3. ASSUME NEW r \in Runs, RunStep(r) \/ FailCopy(r) \/ FailPurge(r) \/ StopRun(r)
      PROVE TypeInv'
  BY <1>3, RunTyping, BusyStep
<1>4. CASE Tick
  <2>1. clock' \in 0 .. MaxClock  BY <1>4, BackupAssumption DEF TypeOK, Tick
  <2> QED BY <1>0, <1>4, <2>1 DEF TypeOK, Tick, world
<1>5. CASE UNCHANGED vars
  BY <1>0, <1>5 DEF TypeOK, vars
<1> QED BY <1>1, <1>2, <1>3, <1>4, <1>5 DEF Next

LEMMA TypeInit == Init => TypeInv
<1> SUFFICES ASSUME Init PROVE TypeInv
  OBVIOUS
<1>1. [st |-> "new", main |-> FALSE, thumb |-> FALSE, tmark |-> FALSE, at |-> 0] \in RowSet
  BY DEF RowSet
<1>2. TypeOK
  BY <1>1, NoRunType, BackupAssumption DEF Init, TypeOK
<1>3. Busy
  BY DEF Init, Busy, NoRun
<1> QED BY <1>2, <1>3 DEF TypeInv

\* The variables have their types in every state, and a run that is in the
\* middle of a copy has an object it is at.
THEOREM Typing == Spec => []TypeOK
<1>1. TypeInv => TypeOK
  BY DEF TypeInv
<1> QED BY <1>1, TypeInit, TypeStep, PTL DEF Spec

-----------------------------------------------------------------------------
\* The inductive invariant

\* A tombstone is one of a document that is no longer there, and does not fall
\* due before the window of the document ends.
Follows(t) == Over(t.key[1]) /\ (Gone(t.key[1]) => row[t.key[1]].at + Grace <= t.after)

\* What a run has to copy was there when the run began.
Copyable(r, d) ==
    /\ row[d].st # "new"
    /\ Gone(d) => run[r].now <= row[d].at
    /\ ~env.up => run[r].now + Grace <= env.after

\* A run does not last longer than RunLimit; it sweeps and purges only what is
\* due; what it is about to mark is in the backup, and what it has purged does
\* not come back before the tombstone is dropped.
RunInv(r) ==
    /\ run[r].now <= clock
    /\ run[r].pc # "idle" => clock <= run[r].now + RunLimit
    /\ run[r].pc \in {"sweep", "check"} => ~env.up /\ env.after <= clock
    /\ \A t \in run[r].due \cup run[r].hand : Follows(t) /\ t.after <= run[r].now
    /\ run[r].pc \notin {"copy", "put", "mark"} => Todo(r) = {}
    /\ \A d \in Todo(r) : Copyable(r, d)
    /\ run[r].pc = "mark" /\ Live(Current(r)[1]) => Current(r) \in backup
    /\ run[r].pc = "drop" => \A t \in run[r].hand : Gone(t.key[1]) => t.key \notin backup

RowsInv == \A d \in Docs :
    /\ row[d].at <= clock
    /\ row[d].st = "new" => row[d].main = FALSE /\ row[d].tmark = FALSE
    /\ row[d].st = "new" => delete[d].pc = "none"

\* A destroyed environment has no documents left, and its window covers theirs.
EnvInv ==
    /\ env.queued => ~env.up
    /\ ~env.up => \A d \in Docs : ~Live(d) /\ (Gone(d) => row[d].at + Grace <= env.after)
    /\ ~env.up /\ ~env.queued => backup = {} /\ env.after <= clock

TombInv == \A t \in tomb : Follows(t)

\* A deleted document is followed also while a run may still copy it.
Followed(d) == env.queued \/ \E t \in tomb : t.key = Keeps(d)
LeakInv == \A d \in Docs :
    Gone(d) /\ (Keeps(d) \in backup \/ \E r \in Runs : d \in Todo(r)) => Followed(d)

WorldInv == RowsInv /\ EnvInv /\ TombInv /\ Recoverable /\ LeakInv
BackupInv == TypeInv /\ WorldInv /\ \A r \in Runs : RunInv(r)

-----------------------------------------------------------------------------
LEMMA Typed ==
  ASSUME TypeOK
  PROVE  /\ clock \in Nat /\ env.after \in Nat /\ Grace \in Nat /\ RunLimit \in Nat /\ RunLimit < Grace
         /\ \A d \in Docs : row[d].at \in Nat /\ Keeps(d) \in Keys /\ Keeps(d)[1] = d /\ Shows(d)[1] = d
         /\ \A k \in Keys : k[1] \in Docs
         /\ \A t \in TombSet : t.after \in Nat /\ t.key \in Keys /\ t.key[1] \in Docs
         /\ tomb \in SUBSET TombSet
         /\ \A r \in Runs : /\ run[r] \in RunSet
                            /\ run[r].now \in Nat
                            /\ run[r].main \in SUBSET Docs
                            /\ run[r].thumb \in SUBSET Docs
                            /\ Todo(r) \in SUBSET Docs
                            /\ run[r].due \in SUBSET TombSet
                            /\ run[r].hand \in SUBSET TombSet
<1>1. clock \in Nat /\ env.after \in Nat /\ Grace \in Nat /\ RunLimit \in Nat /\ RunLimit < Grace
      /\ tomb \in SUBSET TombSet
  BY BackupAssumption DEF TypeOK
<1>2. ASSUME NEW d \in Docs PROVE row[d].at \in Nat /\ Keeps(d) \in Keys /\ Keeps(d)[1] = d /\ Shows(d)[1] = d
  <2>1. row[d] \in RowSet  BY DEF TypeOK
  <2> QED BY <2>1, KeysOf DEF RowSet, Keeps, Shows
<1>3. \A k \in Keys : k[1] \in Docs
  BY DEF Keys
<1>4. \A t \in TombSet : t.after \in Nat /\ t.key \in Keys /\ t.key[1] \in Docs
  BY <1>3 DEF TombSet
<1>5. ASSUME NEW r \in Runs
      PROVE  /\ run[r] \in RunSet /\ run[r].now \in Nat
             /\ run[r].main \in SUBSET Docs /\ run[r].thumb \in SUBSET Docs
             /\ Todo(r) \in SUBSET Docs
             /\ run[r].due \in SUBSET TombSet /\ run[r].hand \in SUBSET TombSet
  <2>1. run[r] \in RunSet  BY DEF TypeOK
  <2>2. run[r].now \in Nat /\ run[r].main \in SUBSET Docs /\ run[r].thumb \in SUBSET Docs
        /\ run[r].due \in SUBSET TombSet /\ run[r].hand \in SUBSET TombSet
    BY <2>1 DEF RunSet
  <2> QED BY <2>1, <2>2 DEF Todo
<1> QED BY <1>1, <1>2, <1>3, <1>4, <1>5

\* The window of a document that a run may still copy is not over: the run
\* began before the deletion, and it ends before the window does.
LEMMA CopiedInTime ==
  ASSUME BackupInv, NEW r \in Runs, NEW d \in Todo(r)
  PROVE  /\ Gone(d) => clock < row[d].at + Grace
         /\ ~env.up => clock < env.after /\ env.queued
<1>1. RunInv(r) /\ EnvInv /\ TypeOK  BY DEF BackupInv, TypeInv, WorldInv
<1>2. run[r].pc # "idle" /\ Copyable(r, d)  BY <1>1 DEF RunInv
<1>3. clock <= run[r].now + RunLimit  BY <1>1, <1>2 DEF RunInv
<1>4. d \in Docs /\ row[d].at \in Nat /\ run[r].now \in Nat  BY <1>1, Typed
<1>5. Gone(d) => clock < row[d].at + Grace
  BY <1>1, <1>2, <1>3, <1>4, Typed DEF Copyable
<1>6. ~env.up => clock < env.after
  BY <1>1, <1>2, <1>3, <1>4, Typed DEF Copyable
<1>7. ~env.up => env.queued
  BY <1>1, <1>6, Typed DEF EnvInv
<1> QED BY <1>5, <1>6, <1>7

\* What a run purges is the object of a document that nobody wants any more
\* and that no run may still copy.
LEMMA PurgedTooLate ==
  ASSUME BackupInv, NEW r \in Runs, NEW t \in run[r].due \cup run[r].hand
  PROVE  /\ t \in TombSet /\ t.key[1] \in Docs
         /\ Over(t.key[1]) /\ ~Wanted(t.key[1])
         /\ Gone(t.key[1]) => \A s \in Runs : t.key[1] \notin Todo(s)
<1>1. RunInv(r) /\ TypeOK  BY DEF BackupInv, TypeInv
<1>2. t \in TombSet /\ t.key[1] \in Docs /\ t.after \in Nat /\ run[r].now \in Nat  BY <1>1, Typed
<1>3. Follows(t) /\ t.after <= run[r].now /\ run[r].now <= clock  BY <1>1 DEF RunInv
<1>4. Gone(t.key[1]) => row[t.key[1]].at + Grace <= clock
  BY <1>1, <1>2, <1>3, Typed DEF Follows
<1>5. ~Wanted(t.key[1])
  BY <1>1, <1>2, <1>3, <1>4, Typed DEF Wanted, Follows, Over, Live, Gone
<1>6. ASSUME Gone(t.key[1]), NEW s \in Runs, t.key[1] \in Todo(s) PROVE FALSE
  <2>1. clock < row[t.key[1]].at + Grace  BY <1>6, CopiedInTime
  <2> QED BY <1>1, <1>2, <1>4, <1>6, <2>1, Typed
<1> QED BY <1>2, <1>3, <1>5, <1>6 DEF Follows

\* Nobody wants what is swept, and no run may still copy.
LEMMA SweptTooLate ==
  ASSUME BackupInv, ~env.up, env.after <= clock
  PROVE  /\ \A d \in Docs : ~Wanted(d)
         /\ \A s \in Runs : Todo(s) = {}
<1>1. EnvInv /\ TypeOK  BY DEF BackupInv, TypeInv, WorldInv
<1>2. ASSUME NEW d \in Docs PROVE ~Wanted(d)
  <2>1. ~Live(d) /\ (Gone(d) => row[d].at + Grace <= env.after)  BY <1>1 DEF EnvInv
  <2> QED BY <1>1, <2>1, Typed DEF Wanted, Gone
<1>3. ASSUME NEW s \in Runs, NEW d \in Todo(s) PROVE FALSE
  <2>1. clock < env.after  BY CopiedInTime
  <2> QED BY <1>1, <2>1, Typed
<1> QED BY <1>2, <1>3

-----------------------------------------------------------------------------
\* Steps

\* What a step may do to a document: nothing, insert it, drop it, or delete it now.
Ages(d) ==
    \/ row'[d].st = row[d].st /\ row'[d].at = row[d].at
    \/ row[d].st = "new" /\ row'[d].st = "live" /\ row'[d].at = row[d].at
    \/ row[d].st = "live" /\ row'[d].st = "dropped" /\ row'[d].at = row[d].at
    \/ row[d].st = "live" /\ row'[d].st = "gone" /\ row'[d].at = clock

\* A run keeps its part of the invariant when others move.
LEMMA OtherRun ==
  ASSUME BackupInv, NEW s \in Runs, run'[s] = run[s], clock' = clock,
         \/ env'.up = env.up /\ env'.after = env.after
         \/ env.up /\ env'.after = clock + Grace,
         \A d \in Docs : Ages(d),
         \A k \in Keys : k \in backup /\ Live(k[1]) => k \in backup',
         \A k \in Keys : k \in backup' /\ k \notin backup =>
            \A t \in run[s].hand : t.key = k => ~Gone(k[1])
  PROVE  RunInv(s)'
<1>0. RunInv(s) /\ TypeOK  BY DEF BackupInv, TypeInv
<1>1. Todo(s)' = Todo(s) /\ Current(s)' = Current(s)  BY CurrentKept
<1>t. /\ run[s].now \in Nat /\ Todo(s) \in SUBSET Docs
      /\ run[s].main \in SUBSET Docs /\ run[s].thumb \in SUBSET Docs
      /\ run[s].due \in SUBSET TombSet /\ run[s].hand \in SUBSET TombSet
      /\ clock \in Nat /\ env.after \in Nat /\ Grace \in Nat
      /\ \A d \in Docs : row[d].at \in Nat
      /\ \A t \in TombSet : t.key \in Keys /\ t.key[1] \in Docs
      /\ \A k \in Keys : k[1] \in Docs
  BY <1>0, Typed
<1>2. run'[s].now <= clock' /\ (run'[s].pc # "idle" => clock' <= run'[s].now + RunLimit)
  BY <1>0 DEF RunInv
<1>3. run'[s].pc \in {"sweep", "check"} => ~env'.up /\ env'.after <= clock'
  BY <1>0 DEF RunInv
<1>4. ASSUME NEW t \in run[s].due \cup run[s].hand
      PROVE  Follows(t)' /\ t.after <= run'[s].now
  <2>1. Follows(t) /\ t.after <= run[s].now  BY <1>0 DEF RunInv
  <2>2. t.key[1] \in Docs  BY <1>t
  <2>3. row'[t.key[1]].st = row[t.key[1]].st /\ row'[t.key[1]].at = row[t.key[1]].at
    BY <2>1, <2>2 DEF Ages, Follows, Over
  <2> QED BY <2>1, <2>3 DEF Follows, Over, Gone
<1>5. run'[s].pc \notin {"copy", "put", "mark"} => Todo(s)' = {}
  BY <1>0, <1>1 DEF RunInv
<1>6. ASSUME NEW d \in Todo(s) PROVE Copyable(s, d)'
  <2>1. Copyable(s, d) /\ d \in Docs  BY <1>0, <1>t DEF RunInv
  <2>2. run[s].now <= clock  BY <1>0 DEF RunInv
  <2>3. row'[d].st # "new" /\ (Gone(d)' => run[s].now <= row'[d].at)
    BY <2>1, <2>2 DEF Copyable, Ages, Gone
  <2>4. ~env'.up => run[s].now + Grace <= env'.after
    BY <1>t, <2>1, <2>2 DEF Copyable
  <2> QED BY <2>3, <2>4 DEF Copyable
<1>7. run'[s].pc = "mark" /\ Live(Current(s)[1])' => Current(s)' \in backup'
  <2> SUFFICES ASSUME run[s].pc = "mark", Live(Current(s)[1])' PROVE Current(s) \in backup'
    BY <1>1
  <2>1. Todo(s) # {}  BY DEF BackupInv, TypeInv, Busy
  <2>2. PICK d \in Todo(s) : Current(s) \in {Keeps(d), Shows(d)}
    BY <1>t, <2>1, CurrentObject
  <2>3. d \in Docs /\ Current(s)[1] = d /\ Current(s) \in Keys
    <3>1. d \in Docs  BY <1>t
    <3>2. Keeps(d)[1] = d /\ Shows(d)[1] = d  BY DEF Keeps, Shows
    <3> QED BY <2>2, <3>1, <3>2, KeysOf
  <2>4. row[d].st # "new"  BY <1>0 DEF RunInv, Copyable
  <2>5. Live(d)  BY <1>1, <2>3, <2>4 DEF Ages, Live
  <2>6. Current(s) \in backup  BY <1>0, <2>3, <2>5 DEF RunInv
  <2> QED BY <2>3, <2>5, <2>6
<1>8. ASSUME run[s].pc = "drop", NEW t \in run[s].hand, Gone(t.key[1])' PROVE t.key \notin backup'
  <2>1. Follows(t)  BY <1>0 DEF RunInv
  <2>2. t.key \in Keys /\ t.key[1] \in Docs  BY <1>t
  <2>3. Gone(t.key[1])  BY <1>8, <2>1, <2>2 DEF Ages, Follows, Over, Gone
  <2>4. t.key \notin backup  BY <1>0, <1>8, <2>3 DEF RunInv
  <2> QED BY <2>2, <2>3, <2>4
<1>9. \A t \in run'[s].due \cup run'[s].hand : Follows(t)' /\ t.after <= run'[s].now
  BY <1>4
<1>10. \A d \in Todo(s)' : Copyable(s, d)'
  BY <1>1, <1>6
<1>11. run'[s].pc = "drop" => \A t \in run'[s].hand : Gone(t.key[1])' => t.key \notin backup'
  BY <1>8
<1> QED BY <1>2, <1>3, <1>5, <1>7, <1>9, <1>10, <1>11 DEF RunInv

\* The steps of uploads, and those of deletes up to their transaction.
LEMMA WorldStep ==
  ASSUME BackupInv, TypeOK', env' = env, run' = run, clock' = clock, tomb' = tomb, backup' = backup,
         \A d \in Docs : /\ row'[d].main = row[d].main /\ row'[d].tmark = row[d].tmark
                         /\ row'[d].at = row[d].at
                         /\ \/ row'[d].st = row[d].st
                            \/ row[d].st = "new" /\ row'[d].st = "live" /\ env.up
                            \/ row[d].st = "live" /\ row'[d].st = "dropped"
                         /\ \/ delete'[d].pc \in {"none", delete[d].pc}
                            \/ delete[d].pc # "none" \/ Live(d)
  PROVE  WorldInv' /\ \A s \in Runs : RunInv(s)'
<1>0. TypeOK /\ RowsInv /\ EnvInv /\ TombInv /\ Recoverable /\ LeakInv
  BY DEF BackupInv, TypeInv, WorldInv
<1>1. \A d \in Docs : Ages(d)  BY DEF Ages
<1>2. \A s \in Runs : RunInv(s)'  BY <1>1, OtherRun
<1>3. RowsInv'  BY <1>0 DEF RowsInv, Live
<1>4. EnvInv'  BY <1>0 DEF EnvInv, Live, Gone
<1>5. TombInv'
  <2> SUFFICES ASSUME NEW t \in tomb PROVE Follows(t)'
    BY DEF TombInv
  <2>1. Follows(t) /\ t.key[1] \in Docs  BY <1>0, Typed DEF TombInv
  <2> QED BY <2>1 DEF Follows, Over, Gone
<1>6. Recoverable'
  <2> SUFFICES ASSUME NEW d \in Docs, Wanted(d)'
               PROVE  (row[d].main => Keeps(d) \in backup) /\ (row[d].tmark => Shows(d) \in backup)
    BY DEF Recoverable
  <2>1. CASE row[d].st = "new"
    BY <1>0, <2>1 DEF RowsInv
  <2>2. CASE row[d].st # "new"
    <3>1. Wanted(d)  BY <2>2 DEF Wanted, Live
    <3> QED BY <1>0, <3>1 DEF Recoverable
  <2> QED BY <2>1, <2>2
<1>7. LeakInv'
  <2> SUFFICES ASSUME NEW d \in Docs, Gone(d)', Keeps(d) \in backup \/ \E r \in Runs : d \in Todo(r)'
               PROVE  Followed(d)
    BY DEF LeakInv, Followed
  <2>1. Gone(d)  BY DEF Gone
  <2>2. \A r \in Runs : Todo(r)' = Todo(r)  BY CurrentKept
  <2> QED BY <1>0, <2>1, <2>2 DEF LeakInv
<1> QED BY <1>2, <1>3, <1>4, <1>5, <1>6, <1>7 DEF WorldInv

\* The transaction of a delete: the document starts its window and is followed.
LEMMA DeleteStep ==
  ASSUME BackupInv, TypeOK', NEW d \in Docs, DeleteRecords(d)
  PROVE  WorldInv' /\ \A s \in Runs : RunInv(s)'
<1>0. TypeOK /\ RowsInv /\ EnvInv /\ TombInv /\ Recoverable /\ LeakInv
  BY DEF BackupInv, TypeInv, WorldInv
<1>u. env' = env /\ run' = run /\ clock' = clock /\ backup' = backup /\ env.up
      /\ tomb' = tomb \cup Tombstones(d)
  BY DEF DeleteRecords
<1>r. \A e \in Docs : /\ row'[e].main = row[e].main /\ row'[e].tmark = row[e].tmark
                      /\ \/ row'[e] = row[e] /\ (e = d => ~Live(d))
                         \/ e = d /\ row[e].st = "live" /\ row'[e].st = "gone" /\ row'[e].at = clock
  <2> TAKE e \in Docs
  <2>0. row[e] \in RowSet /\ row \in [Docs -> RowSet]  BY <1>0 DEF TypeOK
  <2>1. CASE ~Live(d)
    BY <2>1 DEF DeleteRecords
  <2>2. CASE Live(d) /\ e # d
    BY <2>0, <2>2 DEF DeleteRecords
  <2>3. CASE Live(d) /\ e = d
    <3>1. row'[e] = [row[e] EXCEPT !.st = "gone", !.at = clock]
      BY <2>0, <2>3 DEF DeleteRecords
    <3> QED BY <2>0, <2>3, <3>1 DEF RowSet, Live
  <2> QED BY <2>1, <2>2, <2>3
<1>1. \A e \in Docs : Ages(e)  BY <1>r DEF Ages
<1>2. \A s \in Runs : RunInv(s)'  BY <1>1, <1>u, OtherRun
<1>c. clock \in Nat /\ Grace \in Nat  BY <1>0, Typed
<1>3. RowsInv'
  <2> SUFFICES ASSUME NEW e \in Docs
               PROVE  /\ row'[e].at <= clock'
                      /\ row'[e].st = "new" => row'[e].main = FALSE /\ row'[e].tmark = FALSE
                      /\ row'[e].st = "new" => delete'[e].pc = "none"
    BY DEF RowsInv
  <2>1. delete'[e].pc \in {"none", delete[e].pc}  BY <1>0 DEF TypeOK, DeleteRecords
  <2> QED BY <1>0, <1>c, <1>r, <1>u, <2>1 DEF RowsInv
<1>4. EnvInv'  BY <1>0, <1>u DEF EnvInv
<1>5. TombInv'
  <2> SUFFICES ASSUME NEW t \in tomb' PROVE Follows(t)'
    BY DEF TombInv
  <2>1. CASE t \in tomb
    <3>1. Follows(t) /\ t.key[1] \in Docs  BY <1>0, <2>1, Typed DEF TombInv
    <3>2. row'[t.key[1]] = row[t.key[1]]  BY <1>r, <3>1 DEF Follows, Over
    <3> QED BY <3>1, <3>2 DEF Follows, Over, Gone
  <2>2. CASE t \in Tombstones(d)
    <3>1. t.key[1] = d /\ t.after = clock + Grace
      BY <2>2 DEF Tombstones, Keeps, Shows, backupDeleteAfter
    <3>2. row[d].st # "new"  BY <1>0 DEF DeleteRecords, RowsInv
    <3>3. row[d].st \in {"new", "live", "gone", "dropped"} /\ row[d].at \in Nat /\ row[d].at <= clock
      <4>1. row[d] \in RowSet  BY <1>0 DEF TypeOK
      <4> QED BY <1>0, <4>1 DEF RowSet, RowsInv
    <3>4. Over(d)' /\ (Gone(d)' => row'[d].at + Grace <= clock + Grace)
      BY <1>c, <1>r, <3>2, <3>3 DEF Over, Gone, Live
    <3> QED BY <3>1, <3>4 DEF Follows
  <2> QED BY <1>u, <2>1, <2>2
<1>6. Recoverable'
  <2> SUFFICES ASSUME NEW e \in Docs, Wanted(e)'
               PROVE  (row[e].main => Keeps(e) \in backup) /\ (row[e].tmark => Shows(e) \in backup)
    BY <1>r, <1>u DEF Recoverable
  <2>1. Wanted(e)  BY <1>r, <1>u DEF Wanted, Live
  <2> QED BY <1>0, <2>1 DEF Recoverable
<1>7. LeakInv'
  <2> SUFFICES ASSUME NEW e \in Docs, Gone(e)', Keeps(e) \in backup \/ \E r \in Runs : e \in Todo(r)'
               PROVE  Followed(e)'
    BY <1>u DEF LeakInv
  <2>1. CASE Gone(e)
    <3>1. \A r \in Runs : Todo(r)' = Todo(r)  BY <1>u, CurrentKept
    <3>2. Followed(e)  BY <1>0, <2>1, <3>1 DEF LeakInv
    <3> QED BY <1>u, <3>2 DEF Followed
  <2>2. CASE ~Gone(e)
    <3>1. e = d  BY <1>r, <2>2 DEF Gone
    <3>2. [key |-> Keeps(d), after |-> backupDeleteAfter] \in Tombstones(d)  BY DEF Tombstones
    <3> QED BY <1>u, <3>1, <3>2 DEF Followed
  <2> QED BY <2>1, <2>2
<1> QED BY <1>2, <1>3, <1>4, <1>5, <1>6, <1>7 DEF WorldInv

\* The destruction of the environment starts the window of all its documents.
LEMMA DestroyStep ==
  ASSUME BackupInv, TypeOK', DestroyEnvironment
  PROVE  WorldInv' /\ \A s \in Runs : RunInv(s)'
<1>0. TypeOK /\ RowsInv /\ EnvInv /\ TombInv /\ Recoverable /\ LeakInv
  BY DEF BackupInv, TypeInv, WorldInv
<1>u. run' = run /\ clock' = clock /\ backup' = backup /\ env.up /\ tomb' = {}
      /\ env'.up = FALSE /\ env'.queued = TRUE /\ env'.after = clock + Grace
  BY DEF DestroyEnvironment, backupDeleteAfter
<1>r. \A d \in Docs : /\ row'[d].main = row[d].main /\ row'[d].tmark = row[d].tmark
                      /\ \/ row'[d] = row[d] /\ ~Live(d)
                         \/ row[d].st = "live" /\ row'[d].st = "gone" /\ row'[d].at = clock
  <2> TAKE d \in Docs
  <2>0. row[d] \in RowSet  BY <1>0 DEF TypeOK
  <2>1. row'[d] = IF Live(d) THEN [row[d] EXCEPT !.st = "gone", !.at = clock] ELSE row[d]
    BY DEF DestroyEnvironment
  <2>2. CASE Live(d)
    <3>1. row'[d] = [row[d] EXCEPT !.st = "gone", !.at = clock]  BY <2>1, <2>2
    <3> QED BY <2>0, <2>2, <3>1 DEF RowSet, Live
  <2>3. CASE ~Live(d)
    BY <2>1, <2>3
  <2> QED BY <2>2, <2>3
<1>1. \A d \in Docs : Ages(d)  BY <1>r DEF Ages
<1>2. \A s \in Runs : RunInv(s)'  BY <1>1, <1>u, OtherRun
<1>c. clock \in Nat /\ Grace \in Nat /\ \A d \in Docs : row[d].at \in Nat  BY <1>0, Typed
<1>3. RowsInv'
  <2> SUFFICES ASSUME NEW d \in Docs
               PROVE  /\ row'[d].at <= clock'
                      /\ row'[d].st = "new" => row'[d].main = FALSE /\ row'[d].tmark = FALSE
                      /\ row'[d].st = "new" => delete'[d].pc = "none"
    BY DEF RowsInv
  <2>1. delete'[d].pc = "none"  BY DEF DestroyEnvironment
  <2> QED BY <1>0, <1>c, <1>r, <1>u, <2>1 DEF RowsInv
<1>4. EnvInv'
  <2> SUFFICES ASSUME NEW d \in Docs PROVE ~Live(d)' /\ (Gone(d)' => row'[d].at + Grace <= clock + Grace)
    BY <1>u DEF EnvInv
  <2>1. row'[d].at <= clock  BY <1>3, <1>u DEF RowsInv
  <2>2. row'[d].at \in Nat  BY <1>c, <1>r
  <2> QED BY <1>c, <1>r, <2>1, <2>2 DEF Live, Gone
<1>5. TombInv'  BY <1>u DEF TombInv
<1>6. Recoverable'
  <2> SUFFICES ASSUME NEW d \in Docs, Wanted(d)'
               PROVE  (row[d].main => Keeps(d) \in backup) /\ (row[d].tmark => Shows(d) \in backup)
    BY <1>r, <1>u DEF Recoverable
  <2>1. Wanted(d)  BY <1>r, <1>u DEF Wanted, Live
  <2> QED BY <1>0, <2>1 DEF Recoverable
<1>7. LeakInv'  BY <1>u DEF LeakInv, Followed
<1> QED BY <1>2, <1>3, <1>4, <1>5, <1>6, <1>7 DEF WorldInv

-----------------------------------------------------------------------------
\* The steps of a run

LEMMA OthersKept ==
  ASSUME TypeOK, NEW r \in Runs, RunStep(r) \/ FailCopy(r) \/ FailPurge(r) \/ StopRun(r)
  PROVE  \A s \in Runs : s # r => run'[s] = run[s]
BY DEF TypeOK, RunStep, FailCopy, FailPurge, StopRun, StartRun, Download, Put, Mark, SelectDue,
   PurgeObject, DropTombstone, EndTenant, ListSubtree, SweepKey, ConfirmEmpty

\* A step that only moves the run itself.
LEMMA AloneStep ==
  ASSUME BackupInv, NEW r \in Runs, UNCHANGED <<world, backup, env, clock>>,
         \A s \in Runs : s # r => run'[s] = run[s],
         RunInv(r)',
         \A d \in Todo(r)' : d \in Todo(r) \/ ~Gone(d)
  PROVE  WorldInv' /\ \A s \in Runs : RunInv(s)'
<1>0. RowsInv /\ EnvInv /\ TombInv /\ Recoverable /\ LeakInv
  BY DEF BackupInv, WorldInv
<1>u. row' = row /\ delete' = delete /\ tomb' = tomb /\ backup' = backup /\ env' = env /\ clock' = clock
  BY DEF world
<1>1. \A d \in Docs : Ages(d)  BY <1>u DEF Ages
<1>2. \A s \in Runs : RunInv(s)'
  <2> TAKE s \in Runs
  <2>1. CASE s = r
    BY <2>1
  <2>2. CASE s # r
    BY <1>1, <1>u, <2>2, OtherRun
  <2> QED BY <2>1, <2>2
<1>3. RowsInv'  BY <1>0, <1>u DEF RowsInv
<1>4. EnvInv'  BY <1>0, <1>u DEF EnvInv, Live, Gone
<1>5. TombInv'  BY <1>0, <1>u DEF TombInv, Follows, Over, Gone
<1>6. Recoverable'  BY <1>0, <1>u DEF Recoverable, Wanted, Live
<1>7. LeakInv'
  <2> SUFFICES ASSUME NEW d \in Docs, Gone(d), NEW s \in Runs, Keeps(d) \in backup \/ d \in Todo(s)'
               PROVE  Followed(d)
    BY <1>0, <1>u DEF LeakInv, Followed, Gone
  <2>1. CASE Keeps(d) \in backup
    BY <1>0, <2>1 DEF LeakInv
  <2>2. CASE d \in Todo(s)' /\ s = r
    BY <1>0, <2>2 DEF LeakInv
  <2>3. CASE d \in Todo(s)' /\ s # r
    BY <1>0, <2>3, CurrentKept DEF LeakInv
  <2> QED BY <2>1, <2>2, <2>3
<1> QED BY <1>2, <1>3, <1>4, <1>5, <1>6, <1>7 DEF WorldInv

\* A run that copies nothing and has nothing in hand: its part of the invariant
\* is about its time and what it still has to purge.
LEMMA RestingRun ==
  ASSUME NEW r \in Runs, run'[r].pc \notin {"copy", "put", "mark", "drop"}, Todo(r)' = {},
         run'[r].now <= clock',
         run'[r].pc # "idle" => clock' <= run'[r].now + RunLimit,
         run'[r].pc \in {"sweep", "check"} => ~env'.up /\ env'.after <= clock',
         \A t \in run'[r].due \cup run'[r].hand : Follows(t)' /\ t.after <= run'[r].now
  PROVE  RunInv(r)'
BY DEF RunInv

\* A run that goes on with what it has to copy.
LEMMA CopyingRun ==
  ASSUME BackupInv, NEW r \in Runs, run[r].pc # "idle", run'[r].pc \in {"copy", "put"},
         run'[r].now = run[r].now, run'[r].due = run[r].due, run'[r].hand = run[r].hand,
         Todo(r)' \subseteq Todo(r), env' = env, clock' = clock,
         \A d \in Docs : row'[d].st = row[d].st /\ row'[d].at = row[d].at
  PROVE  RunInv(r)'
<1>0. RunInv(r) /\ TypeOK  BY DEF BackupInv, TypeInv
<1>1. ASSUME NEW t \in run[r].due \cup run[r].hand PROVE Follows(t)' /\ t.after <= run[r].now
  <2>1. t.key[1] \in Docs  BY PurgedTooLate
  <2> QED BY <1>0, <2>1 DEF RunInv, Follows, Over, Gone
<1>2. ASSUME NEW d \in Todo(r)' PROVE Copyable(r, d)'
  <2>1. d \in Docs /\ Copyable(r, d)  BY <1>0, Typed DEF RunInv
  <2> QED BY <2>1 DEF Copyable, Gone
<1> QED BY <1>0, <1>1, <1>2 DEF RunInv

LEMMA EmptyRun ==
  ASSUME NEW r \in Runs, run'[r].main = {}, run'[r].thumb = {}
  PROVE  Todo(r)' = {}
BY DEF Todo

LEMMA NextObject ==
  ASSUME TypeOK, NEW r \in Runs, NEW k, run'[r] \in {Done(r, k), Skipped(r, k)}
  PROVE  /\ run'[r].pc = "copy" /\ run'[r].now = run[r].now
         /\ run'[r].due = run[r].due /\ run'[r].hand = run[r].hand
         /\ Todo(r)' \subseteq Todo(r)
<1>0. run[r] \in RunSet  BY DEF TypeOK
<1>1. Done(r, k) \in RunSet  BY <1>0, Typed DEF Done, RunSet
<1>2. /\ Done(r, k).pc = "copy" /\ Done(r, k).now = run[r].now
      /\ Done(r, k).due = run[r].due /\ Done(r, k).hand = run[r].hand
      /\ Done(r, k).main \subseteq run[r].main /\ Done(r, k).thumb \subseteq run[r].thumb
  BY <1>0 DEF Done, RunSet
<1>3. /\ Skipped(r, k).pc = "copy" /\ Skipped(r, k).now = run[r].now
      /\ Skipped(r, k).due = run[r].due /\ Skipped(r, k).hand = run[r].hand
      /\ Skipped(r, k).main \subseteq run[r].main /\ Skipped(r, k).thumb \subseteq run[r].thumb
  BY <1>1, <1>2 DEF Skipped, RunSet
<1>4. run'[r].main \subseteq run[r].main /\ run'[r].thumb \subseteq run[r].thumb
  BY <1>2, <1>3
<1> QED BY <1>2, <1>3, <1>4 DEF Todo

LEMMA StartStep ==
  ASSUME BackupInv, NEW r \in Runs, StartRun(r)
  PROVE  RunInv(r)' /\ \A d \in Todo(r)' : d \in Todo(r) \/ ~Gone(d)
<1>0. TypeOK /\ EnvInv /\ run \in [Runs -> RunSet]  BY DEF BackupInv, TypeInv, WorldInv, TypeOK
<1> DEFINE S == FirstRows(Unbacked, Batch)
<1>u. row' = row /\ env' = env /\ clock' = clock  BY DEF StartRun, world
<1>c. clock \in Nat /\ RunLimit \in Nat /\ Grace \in Nat  BY <1>0, Typed
<1>1. S \subseteq {d \in Docs : Live(d)}  BY DEF FirstRows, Unbacked
<1>2. run'[r] = [NoRun EXCEPT !.pc = IF env.up THEN "copy" ELSE "env", !.now = clock,
                              !.main = {d \in S : ~row[d].main},
                              !.thumb = {d \in S : row[d].thumb /\ ~row[d].tmark}]
  BY <1>0 DEF StartRun
<1>3. /\ run'[r].pc = (IF env.up THEN "copy" ELSE "env") /\ run'[r].now = clock
      /\ run'[r].main \subseteq S /\ run'[r].thumb \subseteq S
      /\ run'[r].due = {} /\ run'[r].hand = {}
  BY <1>2 DEF NoRun
<1> HIDE DEF S
<1>4. \A d \in Todo(r)' : d \in Docs /\ Live(d)  BY <1>1, <1>3 DEF Todo
<1>5. CASE env.up
  <2>1. \A d \in Todo(r)' : Copyable(r, d)'
    BY <1>4, <1>5, <1>u DEF Copyable, Live, Gone
  <2>2. RunInv(r)'
    BY <1>3, <1>5, <1>c, <1>u, <2>1 DEF RunInv
  <2> QED BY <1>4, <2>2 DEF Live, Gone
<1>6. CASE ~env.up
  <2>1. \A d \in Docs : ~Live(d)  BY <1>0, <1>6 DEF EnvInv
  <2>2. Todo(r)' = {}  BY <1>4, <2>1
  <2>3. RunInv(r)'
    BY <1>3, <1>6, <1>c, <1>u, <2>2, RestingRun
  <2> QED BY <2>2, <2>3
<1> QED BY <1>5, <1>6

\* The steps that only move the run.
LEMMA RunOnlyStep ==
  ASSUME BackupInv, NEW r \in Runs,
         \/ StartRun(r) \/ Download(r) \/ SelectDue(r) \/ EndTenant(r) \/ ListSubtree(r)
         \/ FailCopy(r) \/ FailPurge(r) \/ StopRun(r)
  PROVE  WorldInv' /\ \A s \in Runs : RunInv(s)'
<1>0. TypeOK /\ RunInv(r) /\ TombInv /\ EnvInv /\ run \in [Runs -> RunSet] /\ run[r] \in RunSet
  BY DEF BackupInv, TypeInv, WorldInv, TypeOK
<1>u. UNCHANGED <<world, backup, env, clock>>
  BY DEF StartRun, Download, SelectDue, EndTenant, ListSubtree, FailCopy, FailPurge, StopRun, world
<1>v. row' = row /\ env' = env /\ clock' = clock  BY <1>u DEF world
<1>w. \A t : Follows(t)' <=> Follows(t)  BY <1>v DEF Follows, Over, Gone
<1>c. clock \in Nat /\ RunLimit \in Nat /\ run[r].now \in Nat /\ clock <= clock + RunLimit
  BY <1>0, Typed
<1>o. \A s \in Runs : s # r => run'[s] = run[s]
  BY <1>0, OthersKept DEF RunStep
<1> SUFFICES RunInv(r)' /\ \A d \in Todo(r)' : d \in Todo(r) \/ ~Gone(d)
  BY <1>o, <1>u, AloneStep
<1>1. CASE StartRun(r)
  BY <1>1, StartStep
<1>2. CASE Download(r)
  <2>1. CASE run'[r] = [run[r] EXCEPT !.pc = "put"]
    <3>1. /\ run'[r].pc = "put" /\ run'[r].now = run[r].now /\ run'[r].main = run[r].main
          /\ run'[r].thumb = run[r].thumb /\ run'[r].due = run[r].due /\ run'[r].hand = run[r].hand
      BY <1>0, <2>1 DEF RunSet
    <3>2. Todo(r)' = Todo(r)  BY <3>1 DEF Todo
    <3>3. run[r].pc = "copy"  BY <1>2 DEF Download
    <3> QED BY <1>v, <3>1, <3>2, <3>3, CopyingRun
  <2>2. CASE \E k : run'[r] = Skipped(r, k)
    <3>1. PICK k : run'[r] = Skipped(r, k)  BY <2>2
    <3>2. run[r].pc = "copy"  BY <1>2 DEF Download
    <3>3. /\ run'[r].pc = "copy" /\ run'[r].now = run[r].now /\ Todo(r)' \subseteq Todo(r)
          /\ run'[r].due = run[r].due /\ run'[r].hand = run[r].hand
      BY <1>0, <3>1, NextObject
    <3> QED BY <1>v, <3>2, <3>3, CopyingRun
  <2>3. \/ run'[r] = [run[r] EXCEPT !.pc = "put"]
        \/ \E k : run'[r] = Skipped(r, k)
    BY <1>0, <1>2 DEF Download
  <2> QED BY <2>1, <2>2, <2>3
<1>3. CASE FailCopy(r)
  <2>1. run'[r] = Skipped(r, Current(r)) /\ run[r].pc = "put"  BY <1>0, <1>3 DEF FailCopy
  <2>2. /\ run'[r].pc = "copy" /\ run'[r].now = run[r].now /\ Todo(r)' \subseteq Todo(r)
        /\ run'[r].due = run[r].due /\ run'[r].hand = run[r].hand
    BY <1>0, <2>1, NextObject
  <2> QED BY <1>v, <2>1, <2>2, CopyingRun
<1>4. CASE SelectDue(r)
  <2>1. PICK T \in SUBSET {t \in tomb : t.after <= run[r].now} :
            run' = [run EXCEPT ![r].pc = "purge", ![r].due = T]
    BY <1>4 DEF SelectDue
  <2>2. run'[r] = [run[r] EXCEPT !.pc = "purge", !.due = T]  BY <1>0, <2>1
  <2>3. /\ run'[r].pc = "purge" /\ run'[r].now = run[r].now /\ run'[r].main = run[r].main
        /\ run'[r].thumb = run[r].thumb /\ run'[r].due = T /\ run'[r].hand = run[r].hand
    BY <1>0, <2>2 DEF RunSet
  <2>4. Todo(r)' = {}  BY <1>4, <2>3 DEF SelectDue, Todo
  <2>5. \A t \in run'[r].due \cup run'[r].hand : Follows(t)' /\ t.after <= run'[r].now
    BY <1>0, <1>w, <2>1, <2>3 DEF RunInv, TombInv
  <2>6. run[r].pc = "copy"  BY <1>4 DEF SelectDue
  <2>7. run'[r].now <= clock' /\ clock' <= run'[r].now + RunLimit
    BY <1>0, <1>v, <2>3, <2>6 DEF RunInv
  <2> QED BY <2>3, <2>4, <2>5, <2>7, RestingRun
<1>5. CASE EndTenant(r)
  <2>1. run'[r] = [NoRun EXCEPT !.pc = "env", !.now = clock]  BY <1>0, <1>5 DEF EndTenant
  <2>2. /\ run'[r].pc = "env" /\ run'[r].now = clock /\ run'[r].main = {} /\ run'[r].thumb = {}
        /\ run'[r].due = {} /\ run'[r].hand = {}
    BY <2>1 DEF NoRun
  <2>3. Todo(r)' = {}  BY <2>2, EmptyRun
  <2> QED BY <1>c, <1>v, <2>2, <2>3, RestingRun
<1>6. CASE ListSubtree(r)
  <2>0. run[r].pc = "env" /\ Todo(r) = {}  BY <1>0, <1>6 DEF ListSubtree, RunInv
  <2>1. CASE env.queued /\ env.after <= run[r].now
    <3>1. run'[r] = [run[r] EXCEPT !.pc = "sweep", !.list = backup]
      BY <1>0, <1>6, <2>1 DEF ListSubtree
    <3>2. /\ run'[r].pc = "sweep" /\ run'[r].now = run[r].now /\ run'[r].main = run[r].main
          /\ run'[r].thumb = run[r].thumb /\ run'[r].due = run[r].due /\ run'[r].hand = run[r].hand
      BY <1>0, <3>1 DEF RunSet
    <3>3. Todo(r)' = {}  BY <2>0, <3>2 DEF Todo
    <3>4. \A t \in run'[r].due \cup run'[r].hand : Follows(t)' /\ t.after <= run'[r].now
      BY <1>0, <1>w, <3>2 DEF RunInv
    <3>5. run'[r].now <= clock' /\ clock' <= run'[r].now + RunLimit
      BY <1>0, <1>v, <2>0, <3>2 DEF RunInv
    <3>6. ~env'.up /\ env'.after <= clock'
      <4>1. env.after \in Nat /\ run[r].now <= clock  BY <1>0, Typed DEF RunInv
      <4> QED BY <1>0, <1>c, <1>v, <2>1, <4>1 DEF EnvInv
    <3> QED BY <3>2, <3>3, <3>4, <3>5, <3>6, RestingRun
  <2>2. CASE ~(env.queued /\ env.after <= run[r].now)
    <3>1. run'[r] = NoRun  BY <1>0, <1>6, <2>2 DEF ListSubtree
    <3>2. /\ run'[r].pc = "idle" /\ run'[r].now = 0 /\ run'[r].main = {} /\ run'[r].thumb = {}
          /\ run'[r].due = {} /\ run'[r].hand = {}
      BY <3>1 DEF NoRun
    <3>3. Todo(r)' = {}  BY <3>2, EmptyRun
    <3> QED BY <1>c, <1>v, <3>2, <3>3, RestingRun
  <2> QED BY <2>1, <2>2
<1>7. CASE FailPurge(r)
  <2>1. PICK t \in run[r].due : run' = [run EXCEPT ![r].due = @ \ {t}]
    BY <1>7 DEF FailPurge, Oldest
  <2>2. run'[r] = [run[r] EXCEPT !.due = @ \ {t}]  BY <1>0, <2>1
  <2>3. /\ run'[r].pc = run[r].pc /\ run'[r].now = run[r].now /\ run'[r].main = run[r].main
        /\ run'[r].thumb = run[r].thumb /\ run'[r].due \subseteq run[r].due /\ run'[r].hand = run[r].hand
    BY <1>0, <2>2 DEF RunSet
  <2>4. run[r].pc = "purge" /\ Todo(r) = {}  BY <1>0, <1>7 DEF FailPurge, RunInv
  <2>5. Todo(r)' = {}  BY <2>3, <2>4 DEF Todo
  <2>6. \A u \in run'[r].due \cup run'[r].hand : Follows(u)' /\ u.after <= run'[r].now
    BY <1>0, <1>w, <2>3 DEF RunInv
  <2>7. run'[r].now <= clock' /\ clock' <= run'[r].now + RunLimit
    BY <1>0, <1>v, <2>3, <2>4 DEF RunInv
  <2> QED BY <2>3, <2>4, <2>5, <2>6, <2>7, RestingRun
<1>8. CASE StopRun(r)
  <2>1. run'[r] = NoRun  BY <1>0, <1>8 DEF StopRun
  <2>2. /\ run'[r].pc = "idle" /\ run'[r].now = 0 /\ run'[r].main = {} /\ run'[r].thumb = {}
        /\ run'[r].due = {} /\ run'[r].hand = {}
    BY <2>1 DEF NoRun
  <2>3. Todo(r)' = {}  BY <2>2, EmptyRun
  <2> QED BY <1>c, <1>v, <2>2, <2>3, RestingRun
<1> QED BY <1>1, <1>2, <1>3, <1>4, <1>5, <1>6, <1>7, <1>8

\* The put of a copy: the document is still within its window, so what comes
\* back to the backup is followed.
LEMMA PutStep ==
  ASSUME BackupInv, NEW r \in Runs, Put(r)
  PROVE  WorldInv' /\ \A s \in Runs : RunInv(s)'
<1>0. /\ TypeOK /\ RowsInv /\ EnvInv /\ TombInv /\ Recoverable /\ LeakInv
      /\ RunInv(r) /\ run \in [Runs -> RunSet] /\ run[r] \in RunSet
  BY DEF BackupInv, TypeInv, WorldInv, TypeOK
<1>u. /\ row' = row /\ delete' = delete /\ tomb' = tomb /\ env' = env /\ clock' = clock
      /\ backup' = backup \cup {Current(r)} /\ run[r].pc = "put"
  BY DEF Put, world
<1>1. PICK d \in Todo(r) : \/ Current(r) = Keeps(d) /\ d \in run[r].main
                           \/ Current(r) = Shows(d) /\ d \notin run[r].main
  <2>1. Todo(r) # {}  BY <1>u DEF BackupInv, TypeInv, Busy
  <2> QED BY <1>0, <2>1, CurrentObject, Typed
<1>2. d \in Docs /\ Current(r)[1] = d /\ Current(r) \in Keys
  <2>1. d \in Docs  BY <1>0, Typed
  <2> QED BY <1>0, <1>1, <2>1, KeysOf, Typed
<1>3. run'[r] = [run[r] EXCEPT !.pc = "mark"]  BY <1>0 DEF Put
<1>4. /\ run'[r].pc = "mark" /\ run'[r].now = run[r].now /\ run'[r].main = run[r].main
      /\ run'[r].thumb = run[r].thumb /\ run'[r].due = run[r].due /\ run'[r].hand = run[r].hand
  BY <1>0, <1>3 DEF RunSet
<1>5. Todo(r)' = Todo(r)  BY <1>4 DEF Todo
<1>6. Current(r)' = Current(r)
  <2>1. (CHOOSE e \in Todo(r)' : \A f \in Todo(r)' : e <= f)
           = (CHOOSE e \in Todo(r) : \A f \in Todo(r) : e <= f)
    BY <1>5
  <2> QED BY <1>4, <1>5, <2>1 DEF Current
<1>7. RunInv(r)'
  <2>1. \A t : Follows(t)' <=> Follows(t)  BY <1>u DEF Follows, Over, Gone
  <2>2. \A e : Copyable(r, e)' <=> Copyable(r, e)  BY <1>u, <1>4 DEF Copyable, Gone
  <2>3. Current(r)' \in backup'  BY <1>6, <1>u
  <2> QED BY <1>0, <1>u, <1>4, <1>5, <2>1, <2>2, <2>3 DEF RunInv
<1>8. \A s \in Runs : RunInv(s)'
  <2> TAKE s \in Runs
  <2>1. CASE s = r
    BY <1>7, <2>1
  <2>2. CASE s # r
    <3>1. run'[s] = run[s]  BY <1>0, <2>2, OthersKept DEF RunStep
    <3>2. \A e \in Docs : Ages(e)  BY <1>u DEF Ages
    <3>3. \A k \in Keys : k \in backup' /\ k \notin backup => \A t \in run[s].hand : t.key = k => ~Gone(k[1])
      BY <1>1, <1>2, <1>u, PurgedTooLate
    <3> QED BY <1>u, <3>1, <3>2, <3>3, OtherRun
  <2> QED BY <2>1, <2>2
<1>9. EnvInv'
  <2>1. ~env.up => env.queued  BY CopiedInTime
  <2> QED BY <1>0, <1>u, <2>1 DEF EnvInv, Live, Gone
<1>10. LeakInv'
  <2> SUFFICES ASSUME NEW e \in Docs, Gone(e), NEW s \in Runs, Keeps(e) \in backup' \/ e \in Todo(s)'
               PROVE  Followed(e)
    BY <1>0, <1>u DEF LeakInv, Followed, Gone
  <2>1. CASE Keeps(e) \in backup
    BY <1>0, <2>1 DEF LeakInv
  <2>2. CASE Keeps(e) = Current(r)
    <3>1. e = d  BY <1>0, <1>2, <2>2, Typed
    <3> QED BY <1>0, <1>1, <3>1 DEF LeakInv
  <2>3. CASE e \in Todo(s)'
    <3>1. e \in Todo(s)
      BY <1>0, <1>5, <2>3, OthersKept, CurrentKept DEF RunStep
    <3> QED BY <1>0, <3>1 DEF LeakInv
  <2> QED BY <1>u, <2>1, <2>2, <2>3
<1>11. RowsInv' /\ TombInv' /\ Recoverable'
  BY <1>0, <1>u DEF RowsInv, TombInv, Follows, Over, Gone, Recoverable, Wanted, Live
<1> QED BY <1>8, <1>9, <1>10, <1>11 DEF WorldInv

\* The mark: what it vouches for is in the backup.
LEMMA MarkStep ==
  ASSUME BackupInv, NEW r \in Runs, Mark(r)
  PROVE  WorldInv' /\ \A s \in Runs : RunInv(s)'
<1>0. /\ TypeOK /\ RowsInv /\ EnvInv /\ TombInv /\ Recoverable /\ LeakInv
      /\ RunInv(r) /\ run \in [Runs -> RunSet] /\ run[r] \in RunSet
  BY DEF BackupInv, TypeInv, WorldInv, TypeOK
<1>u. /\ delete' = delete /\ tomb' = tomb /\ env' = env /\ clock' = clock /\ backup' = backup
      /\ run[r].pc = "mark"
  BY DEF Mark
<1>1. PICK d \in Todo(r) : Current(r) = Keeps(d) \/ Current(r) = Shows(d)
  <2>1. Todo(r) # {}  BY <1>u DEF BackupInv, TypeInv, Busy
  <2> QED BY <1>0, <2>1, CurrentObject, Typed
<1>2. d \in Docs /\ Current(r)[1] = d
  <2>1. d \in Docs  BY <1>0, Typed
  <2> QED BY <1>0, <1>1, <2>1, Typed
<1>r. \A e \in Docs : /\ row'[e].st = row[e].st /\ row'[e].at = row[e].at
                      /\ row'[e].main = row[e].main \/ (Live(e) /\ Keeps(e) \in backup)
                      /\ row'[e].tmark = row[e].tmark \/ (Live(e) /\ Shows(e) \in backup)
  <2> TAKE e \in Docs
  <2>0. row[e] \in RowSet /\ row \in [Docs -> RowSet]  BY <1>0 DEF TypeOK
  <2>1. CASE ~Live(d) \/ e # d
    <3>1. row'[e] = row[e]  BY <1>2, <2>0, <2>1 DEF Mark
    <3> QED BY <3>1
  <2>2. CASE Live(d) /\ e = d
    <3>1. Current(r) \in backup  BY <1>0, <1>2, <1>u, <2>2 DEF RunInv
    <3>2. CASE Current(r) = Keeps(d)
      <4>1. row'[e] = [row[e] EXCEPT !.main = TRUE]
        BY <1>2, <2>0, <2>2, <3>2 DEF Mark, Keeps
      <4> QED BY <2>0, <2>2, <3>1, <3>2, <4>1 DEF RowSet
    <3>3. CASE Current(r) = Shows(d)
      <4>1. row'[e] = [row[e] EXCEPT !.tmark = TRUE]
        BY <1>2, <2>0, <2>2, <3>3 DEF Mark, Shows
      <4> QED BY <2>0, <2>2, <3>1, <3>3, <4>1 DEF RowSet
    <3> QED BY <1>1, <3>2, <3>3
  <2> QED BY <2>1, <2>2
<1>3. run'[r] = Done(r, Current(r))  BY <1>0 DEF Mark
<1>4. /\ run'[r].pc = "copy" /\ run'[r].now = run[r].now /\ Todo(r)' \subseteq Todo(r)
      /\ run'[r].due = run[r].due /\ run'[r].hand = run[r].hand
  BY <1>0, <1>3, NextObject
<1>5. RunInv(r)'  BY <1>r, <1>u, <1>4, CopyingRun
<1>6. \A s \in Runs : RunInv(s)'
  <2> TAKE s \in Runs
  <2>1. CASE s = r
    BY <1>5, <2>1
  <2>2. CASE s # r
    <3>1. run'[s] = run[s]  BY <1>0, <2>2, OthersKept DEF RunStep
    <3>2. \A e \in Docs : Ages(e)  BY <1>r DEF Ages
    <3> QED BY <1>u, <3>1, <3>2, OtherRun
  <2> QED BY <2>1, <2>2
<1>7. RowsInv'  BY <1>0, <1>r, <1>u DEF RowsInv, Live
<1>8. EnvInv'  BY <1>0, <1>r, <1>u DEF EnvInv, Live, Gone
<1>9. TombInv'
  <2> SUFFICES ASSUME NEW t \in tomb PROVE Follows(t)'
    BY <1>u DEF TombInv
  <2>1. Follows(t) /\ t.key[1] \in Docs  BY <1>0, Typed DEF TombInv
  <2> QED BY <1>r, <2>1 DEF Follows, Over, Gone
<1>10. Recoverable'
  <2> SUFFICES ASSUME NEW e \in Docs, Wanted(e)'
               PROVE  (row'[e].main => Keeps(e) \in backup) /\ (row'[e].tmark => Shows(e) \in backup)
    BY <1>u DEF Recoverable
  <2>1. Wanted(e)  BY <1>r, <1>u DEF Wanted, Live
  <2> QED BY <1>0, <1>r, <2>1 DEF Recoverable
<1>11. LeakInv'
  <2> SUFFICES ASSUME NEW e \in Docs, Gone(e)', NEW s \in Runs, Keeps(e) \in backup \/ e \in Todo(s)'
               PROVE  Followed(e)
    BY <1>0, <1>r, <1>u DEF LeakInv, Followed, Gone
  <2>1. Gone(e)  BY <1>r DEF Gone
  <2>2. e \in Todo(s)' => e \in Todo(s)
    BY <1>0, <1>4, OthersKept, CurrentKept DEF RunStep
  <2> QED BY <1>0, <2>1, <2>2 DEF LeakInv
<1> QED BY <1>6, <1>7, <1>8, <1>9, <1>10, <1>11 DEF WorldInv

\* What a step of the backup's own that only takes objects away must not touch.
LEMMA TakeAway ==
  ASSUME BackupInv, row' = row, delete' = delete, clock' = clock,
         env'.up = env.up, env'.after = env.after, backup' \subseteq backup,
         \A d \in Docs : Wanted(d) => (Keeps(d) \in backup => Keeps(d) \in backup')
                                      /\ (Shows(d) \in backup => Shows(d) \in backup')
  PROVE  /\ RowsInv' /\ Recoverable'
         /\ \A s \in Runs : run'[s] = run[s] => RunInv(s)'
         /\ \A t : Follows(t)' <=> Follows(t)
<1>0. TypeOK /\ RowsInv /\ Recoverable  BY DEF BackupInv, TypeInv, WorldInv
<1>1. RowsInv'  BY <1>0 DEF RowsInv
<1>2. Recoverable'
  <2> SUFFICES ASSUME NEW d \in Docs, Wanted(d)
               PROVE  (row[d].main => Keeps(d) \in backup') /\ (row[d].tmark => Shows(d) \in backup')
    BY DEF Recoverable, Wanted, Live
  <2> QED BY <1>0 DEF Recoverable
<1>3. ASSUME NEW s \in Runs, run'[s] = run[s] PROVE RunInv(s)'
  <2>1. \A d \in Docs : Ages(d)  BY DEF Ages
  <2>2. ASSUME NEW k \in Keys, k \in backup, Live(k[1]) PROVE k \in backup'
    <3>1. PICK d \in Docs, p \in Parts : k = <<d, p>>  BY DEF Keys
    <3>2. Wanted(d)  BY <2>2, <3>1 DEF Wanted
    <3>3. k = Keeps(d) \/ k = Shows(d)  BY <3>1 DEF Parts, Keeps, Shows
    <3> QED BY <2>2, <3>2, <3>3
  <2> QED BY <1>3, <2>1, <2>2, OtherRun
<1>4. \A t : Follows(t)' <=> Follows(t)  BY DEF Follows, Over, Gone
<1> QED BY <1>1, <1>2, <1>3, <1>4

\* A purge takes what nobody wants any more.
LEMMA PurgeStep ==
  ASSUME BackupInv, NEW r \in Runs, PurgeObject(r)
  PROVE  WorldInv' /\ \A s \in Runs : RunInv(s)'
<1>0. /\ TypeOK /\ EnvInv /\ TombInv /\ LeakInv
      /\ RunInv(r) /\ run \in [Runs -> RunSet] /\ run[r] \in RunSet
  BY DEF BackupInv, TypeInv, WorldInv, TypeOK
<1>u. row' = row /\ delete' = delete /\ tomb' = tomb /\ env' = env /\ clock' = clock /\ run[r].pc = "purge"
  BY DEF PurgeObject, world
<1>1. PICK t \in run[r].due :
        /\ backup' = backup \ {t.key}
        /\ run' = [run EXCEPT ![r].pc = "drop", ![r].due = @ \ {t}, ![r].hand = {t}]
  BY DEF PurgeObject, Oldest
<1>2. run'[r] = [run[r] EXCEPT !.pc = "drop", !.due = @ \ {t}, !.hand = {t}]  BY <1>0, <1>1
<1>3. /\ run'[r].pc = "drop" /\ run'[r].now = run[r].now /\ run'[r].main = run[r].main
      /\ run'[r].thumb = run[r].thumb /\ run'[r].due \subseteq run[r].due /\ run'[r].hand = {t}
  BY <1>0, <1>2 DEF RunSet
<1>4. \A s \in Runs : s # r => run'[s] = run[s]  BY <1>0, OthersKept DEF RunStep
<1>5. ~Wanted(t.key[1])  BY PurgedTooLate
<1>6. \A d \in Docs : Wanted(d) => (Keeps(d) \in backup => Keeps(d) \in backup')
                                   /\ (Shows(d) \in backup => Shows(d) \in backup')
  BY <1>0, <1>1, <1>5, Typed
<1>7. /\ RowsInv' /\ Recoverable'
      /\ \A s \in Runs : run'[s] = run[s] => RunInv(s)'
      /\ \A u : Follows(u)' <=> Follows(u)
  BY <1>u, <1>1, <1>6, TakeAway
<1>8. Todo(r)' = {} /\ Todo(r) = {}  BY <1>0, <1>u, <1>3 DEF RunInv, Todo
<1>9. RunInv(r)'
  <2>1. \A u \in run'[r].due \cup run'[r].hand : Follows(u)' /\ u.after <= run'[r].now
    BY <1>0, <1>3, <1>7 DEF RunInv
  <2>2. \A u \in run'[r].hand : u.key \notin backup'  BY <1>1, <1>3
  <2> QED BY <1>0, <1>u, <1>3, <1>8, <2>1, <2>2 DEF RunInv
<1>10. \A s \in Runs : RunInv(s)'  BY <1>4, <1>7, <1>9
<1>11. EnvInv'  BY <1>0, <1>u, <1>1 DEF EnvInv, Live, Gone
<1>12. TombInv'  BY <1>0, <1>u, <1>7 DEF TombInv
<1>13. LeakInv'
  <2> SUFFICES ASSUME NEW d \in Docs, Gone(d), NEW s \in Runs, Keeps(d) \in backup \/ d \in Todo(s)'
               PROVE  Followed(d)
    BY <1>0, <1>u, <1>1 DEF LeakInv, Followed, Gone
  <2>1. d \in Todo(s)' => d \in Todo(s)  BY <1>4, <1>8, CurrentKept
  <2> QED BY <1>0, <2>1 DEF LeakInv
<1> QED BY <1>7, <1>10, <1>11, <1>12, <1>13 DEF WorldInv

\* A tombstone is dropped when its object is gone for good.
LEMMA DropStep ==
  ASSUME BackupInv, NEW r \in Runs, DropTombstone(r)
  PROVE  WorldInv' /\ \A s \in Runs : RunInv(s)'
<1>0. /\ TypeOK /\ EnvInv /\ TombInv /\ LeakInv
      /\ RunInv(r) /\ run \in [Runs -> RunSet] /\ run[r] \in RunSet
  BY DEF BackupInv, TypeInv, WorldInv, TypeOK
<1>u. /\ row' = row /\ delete' = delete /\ env' = env /\ clock' = clock /\ backup' = backup
      /\ run[r].pc = "drop" /\ tomb' = tomb \ run[r].hand
  BY DEF DropTombstone
<1>1. run'[r] = [run[r] EXCEPT !.pc = "purge", !.hand = {}]  BY <1>0 DEF DropTombstone
<1>2. /\ run'[r].pc = "purge" /\ run'[r].now = run[r].now /\ run'[r].main = run[r].main
      /\ run'[r].thumb = run[r].thumb /\ run'[r].due = run[r].due /\ run'[r].hand = {}
  BY <1>0, <1>1 DEF RunSet
<1>3. \A s \in Runs : s # r => run'[s] = run[s]  BY <1>0, OthersKept DEF RunStep
<1>4. /\ RowsInv' /\ Recoverable'
      /\ \A s \in Runs : run'[s] = run[s] => RunInv(s)'
      /\ \A u : Follows(u)' <=> Follows(u)
  BY <1>u, TakeAway
<1>5. Todo(r)' = {} /\ Todo(r) = {}  BY <1>0, <1>u, <1>2 DEF RunInv, Todo
<1>6. RunInv(r)'
  <2>1. \A u \in run'[r].due \cup run'[r].hand : Follows(u)' /\ u.after <= run'[r].now
    BY <1>0, <1>2, <1>4 DEF RunInv
  <2>2. run'[r].now <= clock' /\ clock' <= run'[r].now + RunLimit
    BY <1>0, <1>u, <1>2 DEF RunInv
  <2> QED BY <1>2, <1>5, <2>1, <2>2, RestingRun
<1>7. \A s \in Runs : RunInv(s)'  BY <1>3, <1>4, <1>6
<1>8. EnvInv'  BY <1>0, <1>u DEF EnvInv, Live, Gone
<1>9. TombInv'  BY <1>0, <1>u, <1>4 DEF TombInv
<1>10. LeakInv'
  <2> SUFFICES ASSUME NEW d \in Docs, Gone(d), NEW s \in Runs, Keeps(d) \in backup \/ d \in Todo(s)'
               PROVE  Followed(d)'
    BY <1>u DEF LeakInv, Gone
  <2>1. d \in Todo(s)' => d \in Todo(s)  BY <1>3, <1>5, CurrentKept
  <2>2. CASE env.queued
    BY <1>u, <2>2 DEF Followed
  <2>3. CASE ~env.queued
    <3>1. PICK t \in tomb : t.key = Keeps(d)  BY <1>0, <2>1, <2>3 DEF LeakInv, Followed
    <3>2. ASSUME t \in run[r].hand PROVE FALSE
      <4>1. t.key[1] = d  BY <1>0, <3>1, Typed
      <4>2. t.key \notin backup  BY <1>0, <1>u, <3>2, <4>1 DEF RunInv
      <4>3. d \notin Todo(s)  BY <3>2, <4>1, PurgedTooLate
      <4> QED BY <2>1, <3>1, <4>2, <4>3
    <3> QED BY <1>u, <3>1, <3>2 DEF Followed
  <2> QED BY <2>2, <2>3
<1> QED BY <1>4, <1>7, <1>8, <1>9, <1>10 DEF WorldInv

\* The sweep of a destroyed environment and its confirmation.
LEMMA SweepStep ==
  ASSUME BackupInv, NEW r \in Runs, SweepKey(r) \/ ConfirmEmpty(r)
  PROVE  WorldInv' /\ \A s \in Runs : RunInv(s)'
<1>0. /\ TypeOK /\ EnvInv /\ TombInv /\ LeakInv
      /\ RunInv(r) /\ run \in [Runs -> RunSet] /\ run[r] \in RunSet
  BY DEF BackupInv, TypeInv, WorldInv, TypeOK
<1>u. /\ row' = row /\ delete' = delete /\ tomb' = tomb /\ clock' = clock
      /\ backup' \subseteq backup /\ run[r].pc \in {"sweep", "check"}
  BY DEF SweepKey, ConfirmEmpty, world
<1>1. ~env.up /\ env.after <= clock  BY <1>0, <1>u DEF RunInv
<1>2. (\A d \in Docs : ~Wanted(d)) /\ \A s \in Runs : Todo(s) = {}  BY <1>1, SweptTooLate
<1>3. \A s \in Runs : s # r => run'[s] = run[s]  BY <1>0, OthersKept DEF RunStep
<1>e. /\ env'.up = env.up /\ env'.after = env.after
      /\ \/ env' = env
         \/ backup = {} /\ backup' = {} /\ env'.queued = FALSE
  <2>1. CASE SweepKey(r)
    BY <2>1 DEF SweepKey
  <2>2. CASE ConfirmEmpty(r) /\ backup # {}
    BY <2>2 DEF ConfirmEmpty
  <2>3. CASE ConfirmEmpty(r) /\ backup = {}
    <3>1. env' = [env EXCEPT !.queued = FALSE] /\ backup' = backup  BY <2>3 DEF ConfirmEmpty
    <3>2. env \in [up : BOOLEAN, queued : BOOLEAN, after : Nat]  BY <1>0 DEF TypeOK
    <3> QED BY <2>3, <3>1, <3>2
  <2> QED BY <2>1, <2>2, <2>3
<1>4. /\ RowsInv' /\ Recoverable'
      /\ \A s \in Runs : run'[s] = run[s] => RunInv(s)'
      /\ \A u : Follows(u)' <=> Follows(u)
  BY <1>e, <1>u, <1>2, TakeAway
<1>5. RunInv(r)' /\ Todo(r)' = {}
  <2>0. Todo(r) = {}  BY <1>2
  <2>1. CASE \E S : run'[r] = [run[r] EXCEPT !.list = S]
    <3>1. PICK S : run'[r] = [run[r] EXCEPT !.list = S]  BY <2>1
    <3>2. /\ run'[r].pc = run[r].pc /\ run'[r].now = run[r].now /\ run'[r].main = run[r].main
          /\ run'[r].thumb = run[r].thumb /\ run'[r].due = run[r].due /\ run'[r].hand = run[r].hand
      BY <1>0, <3>1 DEF RunSet
    <3>3. Todo(r)' = {}  BY <2>0, <3>2 DEF Todo
    <3>4. \A u \in run'[r].due \cup run'[r].hand : Follows(u)' /\ u.after <= run'[r].now
      BY <1>0, <1>4, <3>2 DEF RunInv
    <3>5. run'[r].now <= clock' /\ clock' <= run'[r].now + RunLimit
      BY <1>0, <1>u, <3>2 DEF RunInv
    <3> QED BY <1>e, <1>u, <1>1, <3>2, <3>3, <3>4, <3>5, RestingRun
  <2>2. CASE run'[r] = [run[r] EXCEPT !.pc = "check"]
    <3>2. /\ run'[r].pc = "check" /\ run'[r].now = run[r].now /\ run'[r].main = run[r].main
          /\ run'[r].thumb = run[r].thumb /\ run'[r].due = run[r].due /\ run'[r].hand = run[r].hand
      BY <1>0, <2>2 DEF RunSet
    <3>3. Todo(r)' = {}  BY <2>0, <3>2 DEF Todo
    <3>4. \A u \in run'[r].due \cup run'[r].hand : Follows(u)' /\ u.after <= run'[r].now
      BY <1>0, <1>4, <3>2 DEF RunInv
    <3>5. run'[r].now <= clock' /\ clock' <= run'[r].now + RunLimit
      BY <1>0, <1>u, <3>2 DEF RunInv
    <3> QED BY <1>e, <1>u, <1>1, <3>2, <3>3, <3>4, <3>5, RestingRun
  <2>3. CASE run'[r] = NoRun
    <3>1. /\ run'[r].pc = "idle" /\ run'[r].now = 0 /\ run'[r].main = {} /\ run'[r].thumb = {}
          /\ run'[r].due = {} /\ run'[r].hand = {}
      BY <2>3 DEF NoRun
    <3>2. Todo(r)' = {}  BY <3>1, EmptyRun
    <3>3. 0 <= clock  BY <1>0, Typed
    <3> QED BY <1>u, <3>1, <3>2, <3>3, RestingRun
  <2>4. \/ \E S : run'[r] = [run[r] EXCEPT !.list = S]
        \/ run'[r] = [run[r] EXCEPT !.pc = "check"]
        \/ run'[r] = NoRun
    BY <1>0 DEF SweepKey, ConfirmEmpty
  <2> QED BY <2>1, <2>2, <2>3, <2>4
<1>6. \A s \in Runs : RunInv(s)' /\ Todo(s)' = {}
  BY <1>2, <1>3, <1>4, <1>5, CurrentKept
<1>7. EnvInv'  BY <1>0, <1>e, <1>u, <1>1 DEF EnvInv, Live, Gone
<1>8. TombInv'  BY <1>0, <1>u, <1>4 DEF TombInv
<1>9. LeakInv'  BY <1>0, <1>e, <1>u, <1>6 DEF LeakInv, Followed, Gone
<1> QED BY <1>4, <1>6, <1>7, <1>8, <1>9 DEF WorldInv

\* Time passes, and no run is kept from its end.
LEMMA TickStep ==
  ASSUME BackupInv, Tick
  PROVE  WorldInv' /\ \A s \in Runs : RunInv(s)'
<1>0. TypeOK /\ RowsInv /\ EnvInv /\ TombInv /\ Recoverable /\ LeakInv
  BY DEF BackupInv, TypeInv, WorldInv
<1>u. /\ row' = row /\ delete' = delete /\ tomb' = tomb /\ env' = env /\ backup' = backup /\ run' = run
      /\ clock' = clock + 1
  BY DEF Tick, world
<1>c. /\ clock \in Nat /\ env.after \in Nat /\ Grace \in Nat /\ RunLimit \in Nat
      /\ \A d \in Docs : row[d].at \in Nat
      /\ \A r \in Runs : run[r].now \in Nat
  BY <1>0, Typed
<1>w. \A t : Follows(t)' <=> Follows(t)  BY <1>u DEF Follows, Over, Gone
<1>1. ASSUME NEW s \in Runs PROVE RunInv(s)'
  <2>0. RunInv(s)  BY DEF BackupInv
  <2>1. Todo(s)' = Todo(s) /\ Current(s)' = Current(s)  BY <1>u, CurrentKept
  <2>2. run[s].now <= clock + 1  BY <1>c, <2>0 DEF RunInv
  <2>3. run[s].pc # "idle" => clock + 1 <= run[s].now + RunLimit  BY <1>c DEF Tick
  <2>4. run[s].pc \in {"sweep", "check"} => ~env.up /\ env.after <= clock + 1
    BY <1>c, <2>0 DEF RunInv
  <2>5. \A d : Copyable(s, d)' <=> Copyable(s, d)  BY <1>u DEF Copyable, Gone
  <2>6. run[s].pc = "mark" /\ Live(Current(s)[1])' => Current(s) \in backup
    BY <1>u, <2>0, <2>1 DEF RunInv, Live
  <2> QED BY <1>u, <1>w, <2>0, <2>1, <2>2, <2>3, <2>4, <2>5, <2>6 DEF RunInv, Gone
<1>2. RowsInv'  BY <1>0, <1>c, <1>u DEF RowsInv
<1>3. EnvInv'  BY <1>0, <1>c, <1>u DEF EnvInv, Live, Gone
<1>4. TombInv'  BY <1>0, <1>u, <1>w DEF TombInv
<1>5. Recoverable'
  <2> SUFFICES ASSUME NEW d \in Docs, Wanted(d)'
               PROVE  (row[d].main => Keeps(d) \in backup) /\ (row[d].tmark => Shows(d) \in backup)
    BY <1>u DEF Recoverable
  <2>1. Wanted(d)  BY <1>c, <1>u DEF Wanted, Live
  <2> QED BY <1>0, <2>1 DEF Recoverable
<1>6. LeakInv'
  <2>1. \A r \in Runs : Todo(r)' = Todo(r)  BY <1>u, CurrentKept
  <2> QED BY <1>0, <1>u, <2>1 DEF LeakInv, Followed, Gone
<1> QED BY <1>1, <1>2, <1>3, <1>4, <1>5, <1>6 DEF WorldInv

-----------------------------------------------------------------------------
LEMMA UploadStep ==
  ASSUME BackupInv, TypeOK', NEW d \in Docs,
         \/ CreateRecords(d) \/ StoreFile(d) \/ RecordFile(d) \/ FailUpload(d)
         \/ StoreThumbnail(d) \/ RecordThumbnail(d)
         \/ FetchDocument(d) \/ DeletePhysicalFiles(d) \/ StopDelete(d)
  PROVE  WorldInv' /\ \A s \in Runs : RunInv(s)'
<1>0. TypeOK /\ row \in [Docs -> RowSet]  BY DEF BackupInv, TypeInv, TypeOK
<1>u. env' = env /\ run' = run /\ clock' = clock /\ tomb' = tomb /\ backup' = backup
  BY DEF CreateRecords, StoreFile, RecordFile, FailUpload, StoreThumbnail, RecordThumbnail,
     FetchDocument, DeletePhysicalFiles, StopDelete
<1> DEFINE Benign(e) ==
             /\ row'[e].main = row[e].main /\ row'[e].tmark = row[e].tmark
             /\ row'[e].at = row[e].at
             /\ \/ row'[e].st = row[e].st
                \/ row[e].st = "new" /\ row'[e].st = "live" /\ env.up
                \/ row[e].st = "live" /\ row'[e].st = "dropped"
<1>1. ASSUME NEW e \in Docs PROVE Benign(e)
  <2>0. row[e] \in RowSet  BY <1>0
  <2>1. CASE row'[e] = row[e]
    BY <2>1
  <2>2. CASE env.up /\ row[e].st = "new" /\ row'[e] = [row[e] EXCEPT !.st = "live"]
    BY <2>0, <2>2 DEF RowSet
  <2>3. CASE row[e].st = "live" /\ row'[e] = [row[e] EXCEPT !.st = "dropped"]
    BY <2>0, <2>3 DEF RowSet
  <2>4. CASE \E b : row'[e] = [row[e] EXCEPT !.thumb = b]
    BY <2>0, <2>4 DEF RowSet
  <2>5. \/ row'[e] = row[e]
        \/ env.up /\ row[e].st = "new" /\ row'[e] = [row[e] EXCEPT !.st = "live"]
        \/ row[e].st = "live" /\ row'[e] = [row[e] EXCEPT !.st = "dropped"]
        \/ \E b : row'[e] = [row[e] EXCEPT !.thumb = b]
    <3>1. CASE CreateRecords(d)
      BY <1>0, <3>1 DEF CreateRecords
    <3>2. CASE RecordFile(d)
      BY <1>0, <3>2 DEF RecordFile
    <3>3. CASE FailUpload(d)
      BY <1>0, <3>3 DEF FailUpload, Live
    <3>4. CASE RecordThumbnail(d)
      BY <1>0, <3>4 DEF RecordThumbnail
    <3>5. CASE StoreFile(d) \/ StoreThumbnail(d) \/ FetchDocument(d) \/ DeletePhysicalFiles(d) \/ StopDelete(d)
      BY <3>5 DEF StoreFile, StoreThumbnail, FetchDocument, DeletePhysicalFiles, StopDelete
    <3> QED BY <3>1, <3>2, <3>3, <3>4, <3>5
  <2> QED BY <2>1, <2>2, <2>3, <2>4, <2>5
<1>2. ASSUME NEW e \in Docs
      PROVE  delete'[e].pc \in {"none", delete[e].pc} \/ delete[e].pc # "none" \/ Live(e)
  <2>1. CASE FetchDocument(d)
    BY <1>0, <2>1 DEF FetchDocument, TypeOK
  <2>2. CASE DeletePhysicalFiles(d)
    BY <1>0, <2>2 DEF DeletePhysicalFiles, TypeOK
  <2>3. CASE StopDelete(d)
    BY <1>0, <2>3 DEF StopDelete, TypeOK
  <2>4. CASE \/ CreateRecords(d) \/ StoreFile(d) \/ RecordFile(d) \/ FailUpload(d)
             \/ StoreThumbnail(d) \/ RecordThumbnail(d)
    BY <2>4 DEF CreateRecords, StoreFile, RecordFile, FailUpload, StoreThumbnail, RecordThumbnail
  <2> QED BY <2>1, <2>2, <2>3, <2>4
<1> QED BY <1>u, <1>1, <1>2, WorldStep

LEMMA BackupInit == Init => BackupInv
<1> SUFFICES ASSUME Init PROVE BackupInv
  OBVIOUS
<1>0. TypeInv /\ TypeOK  BY TypeInit DEF TypeInv
<1>1. \A r \in Runs : Todo(r) = {}  BY DEF Init, NoRun, Todo
<1>2. \A r \in Runs : RunInv(r)  BY <1>1 DEF Init, NoRun, RunInv
<1>3. WorldInv
  BY <1>1 DEF Init, WorldInv, RowsInv, EnvInv, TombInv, Recoverable, Wanted, Live, LeakInv, Gone
<1> QED BY <1>0, <1>2, <1>3 DEF BackupInv

LEMMA BackupStep == BackupInv /\ [Next]_vars => BackupInv'
<1> SUFFICES ASSUME BackupInv, [Next]_vars PROVE BackupInv'
  OBVIOUS
<1>0. TypeInv' /\ TypeOK'  BY TypeStep DEF BackupInv, TypeInv
<1> SUFFICES WorldInv' /\ \A s \in Runs : RunInv(s)'
  BY <1>0 DEF BackupInv
<1>1. ASSUME NEW d \in Docs,
             \/ CreateRecords(d) \/ StoreFile(d) \/ RecordFile(d) \/ FailUpload(d)
             \/ StoreThumbnail(d) \/ RecordThumbnail(d)
             \/ FetchDocument(d) \/ DeletePhysicalFiles(d) \/ StopDelete(d)
      PROVE  WorldInv' /\ \A s \in Runs : RunInv(s)'
  BY <1>0, <1>1, UploadStep
<1>2. ASSUME NEW d \in Docs, DeleteRecords(d) PROVE WorldInv' /\ \A s \in Runs : RunInv(s)'
  BY <1>0, <1>2, DeleteStep
<1>3. CASE DestroyEnvironment
  BY <1>0, <1>3, DestroyStep
<1>4. ASSUME NEW r \in Runs, RunStep(r) \/ FailCopy(r) \/ FailPurge(r) \/ StopRun(r)
      PROVE  WorldInv' /\ \A s \in Runs : RunInv(s)'
  BY <1>4, RunOnlyStep, PutStep, MarkStep, PurgeStep, DropStep, SweepStep DEF RunStep
<1>5. CASE Tick
  BY <1>5, TickStep
<1>6. CASE UNCHANGED vars
  <2>1. env' = env /\ run' = run /\ clock' = clock /\ tomb' = tomb /\ backup' = backup /\ row' = row
        /\ delete' = delete
    BY <1>6 DEF vars
  <2> QED BY <1>0, <2>1, WorldStep
<1> QED BY <1>1, <1>2, <1>3, <1>4, <1>5, <1>6 DEF Next

\* What is marked as backed up can be restored for the whole grace window,
\* whatever uploads, deletes, failures and overlapping runs do: a mark is set
\* after the put, and no tombstone falls due before the window of its document
\* ends, so that no run purges what is marked too early.
THEOREM MarkedIsRecoverable == Spec => []Recoverable
<1>1. BackupInv => Recoverable
  BY DEF BackupInv, WorldInv
<1> QED BY <1>1, BackupInit, BackupStep, PTL DEF Spec

\* A deleted document does not stay in the backup. It needs RunLimit < Grace:
\* a copy that began before the deletion ends before the tombstone falls due,
\* so that no object comes back once its tombstone is dropped.
THEOREM NothingStays == Spec => []NothingLeaks
<1>1. BackupInv => NothingLeaks
  BY DEF BackupInv, WorldInv, LeakInv, EnvInv, Gone, Followed, NothingLeaks
<1> QED BY <1>1, BackupInit, BackupStep, PTL DEF Spec

=============================================================================
