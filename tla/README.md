# Specifications of the backend

TLA+ models of the multi-tenant Deno backend in `src/` (Hono, Drizzle over
libSQL, one database per tenant and a global one), the TLC configurations that
check them, and proofs about them for TLAPS. Paths below are relative to
`src/`.

The program is a set of identical processes ("instances") behind a load
balancer. Within an instance everything runs on one event loop, so the code
between two `await`s is atomic; between instances, and between two awaits of
requests on one instance, anything can happen. What instances share is a cache
(Redis, Deno KV, or each its own memory), the global database, the tenant
databases and an object storage. Almost everything hard about the program is in
the read-modify-write sequences over those shared stores, and that is what the
modules model: one action per command that an operation awaits.

Contents: 1 inventory, 2 modules, 3 runs, 4 the modules in detail,
5 assumptions (time, fairness, bounds), 6 proofs, 7 what the checks found,
8 what is left out, 9 plan.

## 1. Inventory

The parts that have state and interleavings worth a model, in the order in
which they are modelled or planned. `PROJECT.json` lists every component,
these and the others, with its files.

| Component | State | Operations | Interacts with | Hard part | Correct when |
|---|---|---|---|---|---|
| Cache locks (`services/cache`) | one lock record per key, with a TTL | `withLock` = poll `acquireLock`, run fn, `releaseLock` | sessions, magic links | leases that run out under fn, crashes, lost releases, read-then-commit in Deno KV | one caller in fn for the lease; a call never frees another's lock; a crashed holder does not keep it; polling ends |
| Cache queues (`services/cache`) | a list, or head, tail and item keys | `enqueue`, `dequeue` | background tasks | optimistic commits over three keys, bounded retries | FIFO, nothing lost, repeated or reordered |
| Sessions (`services/session`) | refresh tokens in cache and table, the capped list `USER_SESSIONS` | login, refresh, logout, revoke all | cache, locks, global database | token stored and list updated at different times; cache commands and row writes that fail silently; an evicted list; cache warmed from the table | what is retired stays retired; the list finds every usable token |
| Multi-tier cache (`services/cache`) | L1 per instance, Redis, invalidation bus | `get`, `set`, `delete`, `getAndDelete` | everything that caches | warming an L1 while another instance writes; Redis commands that fail silently, a bus that loses messages | copies agree with Redis at rest; single-use values used once |
| Scheduled jobs (`jobs`) | lock row and last run in the global database; per instance a scheduler and a worker thread | request-driven check, trigger, run under timeout, lock, refresh, release | every job | unconditional upsert, row owned by an instance and not a run, timed-out runs that go on | one instance at work; once per firing time |
| Upload sessions (`services/upload-processor`, `handlers/documents`) | session and chunk metadata in the cache, encrypted chunks and thumbnail in the storage | chunk, thumbnail, complete, abort, expiry | storage, documents, the expiry job | every request writes back the whole session it read; rows are there before the file; deletes that fail silently | the document is complete and decryptable; the folder is emptied |
| Background tasks (`services/background-jobs`) | queue, task rows, cached state | enqueue, process, retry, cancel | cache queue, tenant database | a retry timer that enqueues without draining; select-then-update of the state | an enqueued task reaches a final state, once |
| Object-storage backup (`services/object-backup`, `jobs`) | catalogue rows with their marks, tombstones, purge queue, the backup's objects | copy, mark, tombstone, purge, purge of an environment | uploads, thumbnails, deletes, teardown of tenants, job lock | delete during a copy, two runs at once, rows that can never be copied | what is marked can be restored for the grace period; what is deleted leaves the backup; repeated runs catch up |
| Folder tree (`services/document-folders`, `documents-operations`) | `parentFolderId`, `isArchived`, the state of move operations | create, move (validated, then carried out in the background, with rollback), cancel, delete, archive, restore | sharing, documents | validation and write far apart, walks over a changing tree, rollback | the folders stay a forest; a failed move leaves no trace; deletes take the subtree |
| Sharing (`services/documents-sharing`, `documents-permission`, `encryption`) | rows of shared users, the folder's flag, rows of data keys | share, revoke, change, inherit (upload, move, new subfolder) | folders, uploads | no transaction anywhere, work in the background, rows that repeat | a revocation takes everything; whoever a folder is shared with can open what is in it |
| Tenant pool (`db/db.ts`) | map of open clients, promises of openings under way | `getTenantDB`, LRU eviction, idle sweep | every request | capacity tested before awaits; a client closed while a request holds it | bounded, and no request uses a closed client |
| Worker pool (`services/workers`) | workers, their pending tasks, a FIFO queue | dispatch, ready, answer, error, terminate | encryption of streams | tasks handed to a worker that is not ready; a worker that fails to load | every dispatched promise settles |
| Rate limiting (`utils/auth`, `middleware`, `services/session`) | counters in the cache | check, record | cache | get, increment, set without a lock | no more than the limit per window |
| Magic links, password reset, MFA (`services/auth`) | single-use tokens, throttles | request, redeem | cache (`getAndDelete`), locks | two redemptions; a throttle under a lock whose time was read before it | redeemed once, capped |
| Durable cache tier (`cache.service.ts`) | a table behind the cache | fall-back reads, `getAndDelete` | cache | a value in both tiers | "deliver the durable value exactly once" |
| Memory cache | a map with byte accounting and eviction | `set`, `delete`, pattern deletes | multi-tier cache | accounting when an entry is replaced or refused | the total is the sum of the entries |
| Document deduplication | a hash and a flag on the row | look up by hash | uploads | two uploads that look before either is there | (a duplicate may be missed; nothing is shared between documents) |
| Key rotation (`rotation-escrow.service.ts`) | escrowed keys | begin, confirm, roll back | users | a rotation that stops half-way | the old or the new key opens the data |
| Pub/sub and event streams | connections, subscriptions | publish, subscribe | uploads, notes, notifications | best-effort delivery | (nothing is promised after a loss) |

Not candidates, and why: notes, tags, comments, users, role permissions,
environments (rows written one at a time or inside one transaction);
public access, media stream, HTTP surface, storage providers, mail (input and
output and validation, no state of their own); encryption proper
(cryptography); logging, tracing, CSP (observation); threat intelligence
(downloads and lookups; its jobs take the job lock); schema, scripts, admin UI.

## 2. Modules

```
module            checked by   proofs
CacheLock                      CacheProofs            withLock over three stores
FifoQueue
   ^ implements
KvQueue                        CacheProofs            the Deno KV queue
SessionRegistry   MCSessions   SessionRegistryProofs  refresh tokens, uses the lock as exclusive
MultiTierCache    MCMultiTier  MultiTierCacheProofs   L1 / Redis / bus
JobLock
   ^ extends
Jobs              MCJobs       JobLockProofs          scheduler, worker and lock of a job
UploadSession     MCUploads    UploadSessionProofs    a chunked upload
ObjectBackup      MCBackup     ObjectBackupProofs     uploads and deletes against the backup job
FolderTree        MCFolders    FolderTreeProofs       folder moves, deletes, archive
FolderSharing     MCSharing    FolderSharingProofs    share, revoke, inherit, data keys
```

`CacheProofs` extends both `CacheLock` and `KvQueue`, the two things the cache
service builds on its stores; nothing in it is about the two together.

`MC*` modules add the symmetry sets (`Permutations`) of safety runs and, where
the initial states or the mixes of requests are too many, the ones a run looks
at (`MCBackup`, `MCFolders`, `MCSharing`, `MCUploads`; see the bounds below); runs that check
liveness use no symmetry.

Composition: `Jobs` extends `JobLock`. Its steps are steps of `JobLock` or
leave the lock's variables alone (lemma `NextLock`), so what is proved of
`JobLock!LockNext` holds of `Jobs`. `SessionRegistry` takes the user's list
lock as exclusive; `CacheLock` says when that is justified: on Redis and the
memory map, and while no section outlives its lease. `KvQueue` implements
`FifoQueue`, the specification that the memory map satisfies as it stands. Redis
lists satisfy it while the provider is connected; without a connection
`enqueue` drops the item without a word and `dequeue` answers null
(`redis-cache.provider.ts:816`, `:826`), which no module covers. `FolderTree` and
`FolderSharing` meet in the folder: what a move means for the users is none of
`FolderTree`'s business and little of the code's: a moved folder keeps its users. `FolderSharing` takes the tree as fixed.
`ObjectBackup` takes the runs of the job as `JobLock` allows them: one
at a time, or two while the lock is tainted.

Definitions named "Faulty variant" are not part of any specification. Each is
what an action would be with a plausible bug, and is there to show that the
properties can fail.

## 3. Runs

| Run | Configuration | Checks | Shows |
|---|---|---|---|
| `lock` | `CacheLock.cfg` | `LockTypeOK AtomicExclusion NoForeignRelease PollingEnds LockComesFree` | three callers, each store: exclusion for the lease on atomic stores, no foreign release anywhere, and progress |
| `lock_denokv_exclusion` | `CacheLockDenoKvExclusion.cfg` | `LeaseExclusion` violated | Deno KV grants a held lock |
| `kv_queue` | `KvQueue.cfg` | `TypeOK ImplementsFifo NullOnlyWhenEmpty ConflictMeansProgress` | the optimistic queue is FIFO under conflicts, exhausted retries and crashes |
| `sessions` | `Sessions.cfg` | `TypeOK Retired LogoutEndsSession WipeCoversAll UsableTokensListed OneEntryPerSession` | four of three logins, two rotations, a logout and two revocations interleave over a list of two, with two faults |
| `multi_tier` | `MultiTier.cfg` | `TypeOK CoherentAtRest TakenOnce` | two instances, two calls at a time, three writes of small or large values, expiry, eviction and two faults |
| `jobs` | `Jobs.cfg` | `TypeOK OnlyOneUnlessTainted OverlapBounded OncePerFiring` | two instances, two unfinished calls each, one fault: how they can overlap and for how long |
| `uploads` | `Uploads.cfg` | `TypeOK Readable NoLeftovers CompletedMeansDocument HalfOnlyTorn` | chunk, thumbnail, complete and abort requests or the cleanup job, with expiry and one fault, or one request out of the documented order |
| `backup` | `Backup.cfg` | `TypeOK Recoverable NothingLeaks BackedUpAtLast PurgedAtLast` | uploads, thumbnails, deletes and the end of the environment against two overlapping runs of the job |
| `folders` | `Folders.cfg` | `TypeOK ForestUnlessRaced OutcomeTrue StepsSound` | two of single and bulk moves with rollback, creates, deletes, archives and restores, with one fault |
| `folders_cycle` | `FoldersCycle.cfg` | `Forest` violated | two moves, both validated before either is carried out, close a circle |
| `sharing` | `Sharing.cfg` | `TypeOK RevokeTakes Covered` | shares and revocations of a folder, the one below it and a document, uploads, moves with rollback and creates |
| `sharing_keys` | `SharingKeys.cfg` | `SharedKeysOpen` violated | an inheritance copies the key before the upload has recorded it |

Every property of a passing run has a mutant in `PROJECT.json`: a definition of
the model replaced by its faulty variant makes that property fail under the
same configuration.

## 4. The modules in detail

### CacheLock: `GlobalCacheService.withLock`

State. `lock` is the stored record, `provider` the store (chosen once, so that
one run covers all three), `place[c]` the place of a call in `withLock`,
`waitLeft[c]` what is left of `waitTimeoutMs`, `lease[c]` what is left of the
TTL the call was granted (the code has no such variable; it is what the caller
may rely on), `snap[c]` the Deno KV entry that a later `check` will compare.

Actions. `Call`, `Wake`, `GiveUp` are the polling loop (`cache.service.ts`
310-345); `AcquireAtomic`/`AcquireRefused` are Redis `SET NX PX` and the memory
map's test-and-set; `AcquireRead`/`AcquireCommit` and
`ReleaseRead`/`ReleaseCommit` are Deno KV's get and checked commit, where any
write of the key in between outdates the entry (`Outdated`);
`ReleaseAtomic`/`ReleaseLost` are the compare-and-delete and its silent loss
while Redis is disconnected; `FnReturns`, `CallerStops`; `Tick` and `KvExpire` are
time. The token of a call is unique (a UUID), so an owner is the call itself.

Properties. `AtomicExclusion` and its inductive form `LeaseStored`;
`ReleasedByOwner` and `NoForeignRelease` for the `finally` block of a call
whose lease ran out; `LockComesFree` after crashes; `PollingEnds`. What Deno KV
guarantees is only the second half: a call never deletes an entry that holds
another's token, although grants are not exclusive.

### KvQueue and FifoQueue: `enqueue` and `dequeue`

State: `head`, `tail` and `item` are the keys of Deno KV, `pc`, `seen` and
`tries` the local variables of each call, `taken` the values returned so far.
Every `kv.get` is an action (`ReadTailToAppend`, `ReadHead`, `ReadTail`,
`ReadItem`), every checked commit succeeds (`CommitEnqueue`, `CommitDequeue`)
or conflicts (`EnqueueConflict`, `DequeueConflict`), and after `MaxRetries`
conflicts the call throws. Because counters only grow and an item key is
written once and deleted once, comparing versionstamps is comparing values.

The refinement maps the queue to the items from head to tail (`Waiting`).
`NullOnlyWhenEmpty` is about two reads at different times: the answer is right
at the time of the second because the head cannot pass the tail.
`ConflictMeansProgress` is lock-freedom: a conflict is another call's success.

### SessionRegistry: refresh tokens

State: `cached` (namespace `REFRESH_TOKENS`), `rows` (table `refresh_tokens`),
`list` (`USER_SESSIONS`, a capped sequence of entries), `holder` (the list
lock); per request `pc`, the token presented `arg`, the list as its section
read it `seen`, and where its list section stands `lk` (logout runs the section
and the revocation in parallel). `issued`, `before`, `lost`, `adrift` are history.

Actions: `Login`, `Rotate`, `Logout`, `WipeStart` receive a request; `Find` and
`Warm` are the database fall-back of `validateRefreshToken`, which writes what
it found back to the cache; `Store`/`Persist` are
`createAndStoreRefreshToken`; `Enter`/`WriteList` a list section, `Drop` and
`Forget` the retirement of one token from cache and table; `WipeEntry` and
`WipeRows` the revocation of all sessions. `Updated(p)` is what each operation
computes from the list it read: `trimAndAppendSession`, replacement of the first
matching entry, removal of all matching ones.

Faults are whatever the code does not notice. Every cache command can fail, and
returns as if it had not: a set or a delete of a token (`CacheSet`,
`CacheDelete`), the read and the write of the list (`Enter`, `WriteList`). A row
write can fail and be swallowed (`RowFault`), the list lock can time out
(`LockTimesOut`), the cache can evict a token (`Evict`) or the list itself
(`EvictList`), and an instance can stop in the middle of a request, whose lock
then runs out (`CutOff`). The fall-back of `revokeRefreshToken`, a
`TOKEN_REVOKED` entry when the delete *throws*, is left out: no provider's
delete throws as long as the durable tier is off, so that a delete that failed
is never followed by it.

Which client behaviour is assumed: a token is presented again only while the
first request that carried it has not been answered (another tab, or a retry
after the first was cut off), `MayPresent`.

The conditions on the properties name exceptions of the code, not of the model:

* `Unshared`: a logout overlapping a refresh *of the same token* leaves the
  refresh's new token alive, and the code has nothing to prevent it, although the
  logout "revokes the session server-side" (`routes/auth/logout.route.ts:26`).
* `lost`: the requests one of whose own deletes has failed, and the revocations
  whose read of the list has. Nothing tells the caller, and the token is still
  accepted. What fails in other requests is no excuse: `Retired` and
  `LogoutEndsSession` hold whatever they store, warm, evict or fail to do.
* `adrift`: the tokens that have lost their entry - the list was evicted, its write
  failed, the cap cut the entry, another section wrote a list it had failed to
  read, or a revocation that took the entry off failed or stopped half-way. They
  work until they expire, and no later revocation of all sessions finds them. The
  cap alone is enough for that.
* a revocation that finds the list already emptied by another may return before
  the other has deleted the tokens (`doomed`).

### MultiTierCache

State: `l1` the copy of each instance, `l2` Redis, `bus` undelivered invalidations, `pc`/`at`/`val` the calls in progress.
A value is named after the write that stored it, and is small or `big`.
`overtaken`, `clean` and `expired` are history.

Actions: `Get`, `ReadL2`, `Fill` are `get` on an L1 miss, with the warming of
the L1 (without a TTL); `SetL2`, `PublishSet`, `SetL1` are `set` in its order;
`Delete`, `Publish`; `TakeL1`, `TakeL2` are `getAndDelete`; `Deliver` is
`handleInvalidationMessage`; `Expire` is the TTL in Redis and `Evict` a copy that
goes by itself. `delete` sends `DEL` and drops its L1 copy before it yields, and
one connection keeps commands in order, so `Delete` is one action.

Nothing is reliable. A Redis command may fail before or after it took effect
(`SetL2Fails`, `DeleteFails`, `TakeL2Fails`, `ReadL2`): the provider swallows the
error, publishes nothing, and `set` puts the value in the L1 all the same. A
message may be lost while the subscriber reconnects (`Lose`), and any write may
go unpublished (`told` in `PublishSet` and `Publish`): `PUBLISH` may fail, or the
bus is off, which is the default.

`CoherentAtRest` says what is left of coherence: at rest a copy is what Redis
holds, but for the copies that are not `clean`, and these arise in four ways
only: the call that made the copy overlapped a write; its own SET did not land;
a write did not reach the instance (a command or a message lost, or no bus); or
the instance itself stored a large value over it. The model has all four, and the
property holds in their presence for every other copy: a copy that was made
undisturbed, and is told of every later write, is dropped or replaced by the time
all messages are handled. Section 7 sets the four beside what the documentation
says of them. `TakenOnce` has no condition.

### JobLock and Jobs

State of `JobLock`: `lock` the row of `jobLocks`, `run[r]` the calls of the
job's function on each instance (`pc`, the time `now` it will write, the next
timer `beat`, `refreshing`, `aborted`). `acquired` and `tainted` are history.
Actions: `AcquireRead`/`AcquireUpsert` are the two statements of
`acquireJobLock`; `RefreshRead`/`RefreshWrite` the two of `refreshJobLock` in
the interval callback of the backup jobs, which aborts the run when the row is
another's; `Finish`, `Release` (unconditional delete); `AcquireFails`,
`RefreshFails`, `ReleaseFails`, `Vanish` the failures. A refresh may still be
under way when the run has ended, hence `Past`.

`Jobs` adds, per instance, the boot (`Register`, `SetDispatch`), the
scheduler's request-driven check (`Check`, with `IsCronDue` and
`IsJobOverdue`), the inline path without a handler (`InlineFails`), and the
worker (`Trigger` with `Call`, `Conclude`, `TimesOut`, and `Discard` for what is
left of a call that timed out). The schedule is its firing times; a tick is the scheduler's minute.

`tainted` becomes true only in three situations, all in the code: an upsert
after another's (both read first), an upsert that re-enters the lock of an
unfinished run of the same instance, and a release that deletes another's row.
`OnlyOneUnlessTainted` says that nothing else breaks exclusion;
`OverlapBounded` says that the refresh timers end what these three begin,
within one interval. Both are about jobs that refresh their lock, the two backup
jobs. The others (`upload-session-cleanup.job.ts:28-29` and the cleanups of
tokens, notifications, traces and threat data) take it once, without a timer
and without an abort: theirs is exclusion for the lease only, and a run that
outlasts it has company for as long as it goes on. They are not covered.

### UploadSession: a chunked upload

State: `session` the cached object (chunks recorded, status, data key,
thumbnail), `meta` the indices with a metadata entry, `blob` and `thumb` the
folder in the storage, `expired`; per request `pc`, the copy of the session it
will write back `snap`, and for `/complete` the key and thumbnail read at the
start (`start`), the chunks downloaded (`parts`), its document (`doc`: rows
without a file, whole, or a file without rows) and its `cleanup`. A stored chunk
*is* the key it is encrypted with. `torn` is history: completions that were cut
off, or could not undo what they had done.

Actions: `ChunkStart`, `ChunkPut`, `ChunkUndo`, `RecordSession`, `RecordMeta`
are `uploadChunkHandler` and `recordChunkUploadDirect` (two writes in parallel,
either first); `ThumbStart` ... `ThumbSet` the thumbnail; `CompleteStart`,
`AssembleRead/Write`, `List`, `Download` the completion and the assembly that goes
on after its answer; `InsertRows`, `StoreFile` the document, whose rows are
inserted before the stream is stored, and which everybody can see from then on;
`StoreFails`, `UndoRows`, `UndoFile` its failure and the compensating deletes;
`ApplyThumb`, `Sweep`, `FinishRead/Write`, `FailRead/Write`, `DeleteMeta`,
`DeleteSession` the end; `AbortStart` ... `AbortSweep` the abort; `JobStart` the
cleanup job (`cleanupExpiredSessions`), which goes on as an abort does. `Expire` is
the passing of `expiresAt`, `Forget` the end of the entry's time to live, up to a
second later. Reads and writes of the session are separate actions everywhere,
since no lock covers them.

Faults: a read, a write or a delete of the cache that Redis drops, an entry that
is evicted (`Evict`), a delete in the storage or the database that fails and is
only logged (`SweepPartly` leaves any part of the folder, `Undo` what it should
have undone), an instance that stops (`Crash`, also in the middle of a sweep).

The routes document an order for clients (chunks sequentially, thumbnail before
complete, nothing after abort), which no code enforces. `strays` counts the
requests outside it, of the kinds in `Stray`; the properties about documents
hold for `strays = 0`, that is for a client that keeps to the order, whatever
fails, expires or overlaps within it (two completions may). Section 7 says
what happens otherwise. Thumbnails come one at a time as well (`ThumbInTurn`).

Properties. `Readable`: the chunks recorded, and later the file, are encrypted
with the key kept beside them. `NoLeftovers`: one cleanup that ran without a failed
delete is enough, whatever other requests hold in hand. `HalfOnlyTorn`: rows
without a file or a file without rows are seen only while their completion stores
or undoes, or after a stop or a failed undo. `CompletedMeansDocument` has no
condition, on the client's order or on faults. What comments and routes say beyond
that - all or nothing, gaps reported, abandoned uploads cleaned up - the code does
not keep (section 7).

Conventions: the metadata reads of `getSessionChunks` are one step; deleting
the chunks and then the folder is one step when it succeeds; all chunks have the
declared size, so the byte count is the number of chunks; a write that lands
after the session's expiry is dropped; what a storage keeps of a stream that
broke off counts as no file.

### ObjectBackup

State: `row[d]` the row of `storage_metadata` with its two marks (`main`,
`tmark`) and whether it names a thumbnail, `upload`, `thumb` and `delete` the
requests on a document between two of their steps, `live` and `backup` the keys
in the two storages, `tomb` the table `backup_deletion_queue`, `env` the
environment with its row of the global purge queue, `run[r]` the runs of the job
(`pc`, the time `now` taken once, the rows and thumbnails still to copy, the
tombstones in hand, the keys listed).

Actions: `CreateRecords`, `StoreFile`, `RecordFile`, `FailUpload` are an upload,
whose rows come before its file; `StoreThumbnail`, `RecordThumbnail` the
thumbnail handler; `FetchDocument`, `DeletePhysicalFiles`, `DeleteRecords`,
`StopDelete` a hard delete, where rows and tombstones change together;
`DestroyEnvironment` the teardown. A run is `StartRun` (selection, oldest first,
limited), `Download`, `Put`, `Mark` or `FailCopy` per object, `SelectDue`,
`PurgeObject`, `DropTombstone` or `FailPurge` per tombstone, `EndTenant`,
`ListSubtree`, `SweepKey`, `ConfirmEmpty`; it can stop anywhere (`StopRun`), and
nothing keeps a second one from starting.

`Recoverable` and `NothingLeaks` pull in opposite directions: the first is lost
when a mark precedes its copy or a tombstone is due too early, the second when a
delete overlaps a copy and its tombstone goes first. They hold because the
window starts at the delete and no run lasts as long as it (`RunLimit < Grace`):
a copy that began before the delete has landed by the time its tombstone is
due. `BackedUpAtLast` has one exception, `Blocked`: rows whose file is missing
are selected first by every run, and as many as the batch holds stop the backup
of everything behind them.

Conventions: an object appears whole (true of S3 and Bunny; the local storage
writes in place, and a run may copy part of one); a key's content is left out,
and so is which thumbnail a key holds: the upload of a new thumbnail does not
reset its mark and the backup keeps the old one.

### FolderTree

State: the columns `parent`, `owner`, `archived` and whether the row is there
(`st`), `op[o]` a request and its background work (`pc`, the folders still to do,
where a walk stands, what it has seen and collected, the parents before the
move, the status of the operation), `cancel` the cancel handlers between check
and write. `want`, `mixed`, `raced` are history, as are `moved` and `changed` in
an operation: another has written the tree since it was validated.

Actions: `StartMove`, `PickFolder`, `WalkUp` are `validateMove` row by row,
`FindTarget`, `DepthUp`, `DepthDown` the depth check of a single move, and
`FailDepth` its count of the levels below, which answers 0 when a query fails;
`ReadOriginal`, `MoveFolder`, `CompleteMove` and `FailMove`, `MoveBack`,
`EndRollback` the processor and its rollback; `FailRead`, `FailRollback`,
`StopInstance` its failures; `CheckCancel`, `MarkCancelled` the cancel handler,
which stops nothing; `StartCreate`, `InsertFolder`; `StartCollect`,
`CollectLevel` and `DeleteFolders` or `SetArchived` delete, archive and restore.

`ForestUnlessRaced` is the heart: the walk of a validation reads one ancestor
at a time while folders are created, deleted and archived, and the write comes
later still; only another move in between can make it wrong (`Forest`, without
that condition, is the run `folders_cycle`). `OutcomeTrue` compares each folder
with the last move that completed. `StepsSound` holds two facts of single steps:
the depth limit (`DepthKept`) and that a delete takes the subtree
(`SubtreeGone`), for operations that nothing has overtaken; for a delete, what
is archived or another's stays behind with a parent that is gone. `DepthKept`
excepts moves whose count has failed (`uncounted`): that count is 0, and the move
goes through to any depth.

### FolderSharing

State: `folder` with its flag `shared` (`hasInternalSharing`), `grant[f][u]` the
rows of `folder_shared_users` - a list, since the index on folder and user is
not a unique one -, `doc`, `key[d][u]` the rows of `documents_data_keys`, `op[o]`
the requests and what they have read. `direct`, `mixed`, `lost`, `taken` are history.

Actions: `FindGrant`, `WriteGrant`, `SetFlag`, `ReadSharedUsers`,
`ApplyToExistingDocuments`, `ReadKeys`, `CopyKey`, `FindSubfolders`, `InsertRow`,
`FlagSubfolders` are a share; `Deactivate`, `FindTree`, `DeactivateBelow`,
`FindHeld`, `DeactivateKeys`, `ReadRemaining`, `ClearFlag` a revocation, and
`Revoked` the share that follows it when a permission is changed; `StartUpload`,
`StoreFile`, `RecordKey`, `StartMove`, `MoveDocument`, `CreateFolder` with
`ReadFolder`, `ReadRecipients`, `ReadParent` what inherits; `StartGive` the share
of a single document, `TakeDocument` its revocation.

Faults: `FailQuery` is a query whose failure is logged and swallowed. The share
goes on with the next user, or without the documents; of the inserts for the
subfolders, which run side by side, the others go on after the request has given
up (`strays`, `EndStrays`); a revocation gives up its cascade. `FailMove` and
`FailOriginal` lead to the rollback of a move (`RestoreDocument`), which puts the
document back and leaves the keys that were inherited; `StopRequest` is an
instance that stops, also between the move and its rollback.

`RevokeTakes` and `Covered` are about overlaps: a revocation while others are
let in, an upload or a move into a folder while it is being shared. `Covered`
holds because each side writes before it reads what the other writes: the share
its row and then the documents, the upload its document and then the users.
Their conditions name what the code lets happen:

* a grant and a revocation of the same user that overlap (`mixed`, `met`), a
  document that is moved during a revocation (`met`), or a query of the cascade
  that fails (`failed`);
* "below" in `RevokeTakes` is what the code follows, the folders of the same
  owner. A subfolder that another user has created below a shared one inherits
  its users, and no revocation reaches them there, although the comment at
  `sharing.service.ts:474` says "all descendant subfolders and documents";
* the flag that is cleared over a row a share has just written (`lost`);
* documents taken from the user on their own, which leaves the folder shared
  (`taken`), and users let in along with a folder above, who get rows in the
  folders below but no keys for the documents in them (`direct`).

`SharedKeysOpen` fails, see section 7.

## 5. Assumptions

### Time

No clock grows without bound. `CacheLock` keeps countdowns that `Tick`
decrements together. `Jobs` has a clock that stops at `MaxTime`. There, `Tick`
assumes that timers fire on time, a refresh completes within a tick, the two
statements of an acquisition are at most `Latency` apart, and messages to the
worker thread arrive within a tick; `JobLockAssumption` states
`Interval + Latency <= Lease` (in the code the lease is 30 minutes, and the
interval 10 minutes unless BACKUP_LOCK_REFRESH_INTERVAL_MS or
OBJECT_BACKUP_LOCK_REFRESH_INTERVAL_MS says otherwise).

### Fairness

Stated only where liveness is checked.

* `CacheLock`: weak fairness of `Tick` (time passes), of `KvExpire` (Deno KV
  removes expired keys, eventually), and of the polling steps of every call
  (the event loop runs ready continuations, `sleep` ends, store commands are
  answered). None for `FnReturns`, `Call`, `CallerStops` or the releases: fn may hang
  for ever, and `LockComesFree` holds all the same.
* `ObjectBackup`: weak fairness of an upload's next step and of recording a
  stored thumbnail (the request goes on), of every run (the scheduler starts the
  job again and again, its loops go on), and strong fairness of `Tick`, which is
  disabled whenever a run has reached its limit. None for deletes, faults or
  stops. `MaxFaults` bounds the failures: a storage that fails for ever backs up
  nothing.

The other runs check safety only and assume no fairness. Runs other than `lock`
and `kv_queue` set `CHECK_DEADLOCK FALSE` because their requests are finite in number: when all
have been served, nothing is left to happen.

### Bounds

| Run | Bounds | Why they are enough |
|---|---|---|
| `lock` | 3 callers, `Ttl = 2`, `Wait = 2` | holder whose lease ran out, the next holder, and a third that polls; two ticks separate "about to expire" from "fresh" |
| `kv_queue` | 3 calls, 2 values, 3 items, 2 tries | two dequeues and an enqueue conflict pairwise, one call exhausts its tries; two values tell an order |
| `sessions` | 3 logins, 2 rotations, a logout, 2 wipes; 4 requests at most, 2 faults, cap 2 | two logins fill the list and a third is trimmed; a chain or a race of two rotations against a logout or a wipe, wipes that overlap; a failed delete after an eviction |
| `multi_tier` | 2 instances, 2 calls, 3 writes, each published or not, 2 faults, large values, expiry | a read or write overlapping another, on the same or the other instance, after an earlier value; a command lost, then a message; 933,364 states |
| `jobs` | 2 instances, 2 unfinished calls each, lease 2, interval 1, latency 1, clock to 4 with a firing every 2, timeout 3, 1 fault | two firing times and an overdue first run, a timed-out run beside its successor, an expiry of a dead instance's lease |
| `uploads` | 2 chunks, 3 chunk requests, a thumbnail, 2 completions, an abort or a run of the job; 1 fault or 1 request out of order (a chunk sent again or a completion), with one of a thumbnail and an abort (`MCUploads`) | a chunk is sent anew after a loss, both chunks' writes overlap the thumbnail's, completions overlap, every command fails once; the byte-count branch, a completion beside chunks |
| `backup` | batch 1, grace 2, runs of at most 1 tick, clock to 2, 1 fault; a document and 2 runs, or a document with its thumbnail and 1 run, or 2 documents and 1 run (`MCBackup`) | a tombstone written while a run holds the file, one run purging what another copies, a selection that leaves a row out; a clock to 2 lets a tombstone of the first tick fall due |
| `folders` | 3 folders, 2 users, 2 operations, depth limit 1, 1 fault; at most one folder archived or another's, one that may be new (`MCFolders`) | a move below a descendant with one folder in between, a bulk move of two that fails after the first, a delete or create between validation and write |
| `folders_cycle` | 2 folders, 2 operations | the shortest circle |
| `sharing` | 2 folders one below the other (`a` owns the upper, `a` or `b` the lower), 1 document, 3 users, 3 requests of which 2 at a time, 1 fault when they come one after the other (`MCSharing`) | two shares leave two rows and a revocation follows; two of share, revocation and document revocation against an upload or a move; a create of the subfolder, by its own or another owner, that overlaps a revocation of a user who has been granted the upper folder |
| `sharing_keys` | the same without faults | an upload and a share |

`MaxFaults` counts swallowed errors and crashes together, so that where it is 1
each is combined with every interleaving but not with a second one. The
properties of `jobs` also hold in larger instances that take too long to be
runs: on one instance with a clock to 8, and on two with a firing every tick and
a timeout of 2 without faults.

## 6. Proofs

TLAPS checks the following for every value of the constants that satisfies the
named assumptions (`LockAssumption`, `KvQueueAssumption`, `SessionAssumption`,
`CacheAssumption`, `JobLockAssumption`, `JobsAssumption`, `UploadAssumption`,
`BackupAssumption`, `FolderAssumption`, `SharingAssumption`). They say what the
sets of requests have to be told apart by, that bounds are numbers, that there are
users and documents, and that instances, requests or logins are finite where they
are counted; two restrict the configuration:
`Interval + Latency <= Lease` (jobs) and `RunLimit < Grace` (backup). Every inductive
invariant below was first checked by TLC under the configuration of its run.

* `CacheProofs`, on the lock - `LockTyping`, `LeaseIsStored`,
  `ExclusionForTheLease`, `OnlyOwnerReleases` and `NoForeignDelete`. (`LeaseStored`
  and `ReleasedByOwner` are proved and not run again by themselves: exclusion and
  `NoForeignRelease` rest on them.)
  Exclusion is not inductive: it does not say who holds the record. The
  inductive invariant is `LockInv`: types, `LeaseStored` (over an atomic store an
  unexpired lease is the stored record, its owner and its remaining time to the
  tick) and, over an atomic store, that no call stands in the two-step Deno KV
  path (`NoKvStep`). Exclusion follows because a record has one owner.
  `ProviderStays` carries the choice of store through each step. The action
  property `ReleasedByOwner` follows from the same invariant. `NoForeignRelease`
  also covers Deno KV, where `LeaseStored` is not available; its invariant is
  `OwnSnap`: an entry a releasing call has read, and nobody has written since,
  holds that call's token.
* `CacheProofs`, on the queue - `Invariant` (types and `ItemsBetween`),
  `Refinement`, `NullMeansEmpty` and `LockFree`.
  The invariant `QueueInv` adds `Reads`: a call about to commit a dequeue has seen
  a head below the tail, and one about to commit an enqueue carries a value.
  `EnqueueAppends` and `DequeueTakesHead` show that a commit maps to the
  abstract step, `StoreKeepsWaiting` that everything else stutters. The two
  action properties need `Behind`: what a call has read of head or tail is never
  ahead of what is stored, since the counters only grow, and while the head is
  the one it read, so is the item.
* `SessionRegistryProofs` - `Typing`, `OneEntry`, `TokensRetire`, `LogoutEnds`,
  `TokensListed` and `WipeReaches`: every property of the run, for any number of
  requests, any cap and any number of faults. The invariant is `SessionInv`:
  - `StructInv`: where each request can stand, who is in the list section and that
    what it has read is the list, unless the read failed or the list was evicted
    (`Locked`), and that an entry belongs to a token whose section has run, with one
    entry per session (`Orderly`) - of the stored list and of every copy.
  - `RetiredInv`: a token that a request was the only one to present is out of the
    cache, and later out of the table, once the request has deleted it, unless
    its own delete failed. The request that stored it is long past, and `Warm`,
    which puts a token back from the table, is a step of a request that
    presents it.
  - `OneTip`: the tokens of a session are a chain, each presented by the request
    that issued the next, with one at the end that nobody has presented, as long
    as no token is presented twice. `LogoutEnds` follows from the two: the logout
    presented the end of the chain, so every other token was presented by another
    request, which retired it.
  - `ListedInv`: a token that nobody has presented and that is not `adrift` is, once
    its section has run, in the list, or in the hands of a revocation, or no
    longer accepted. `HeldInv`: what a revocation has in hand is out of the cache
    or still to be deleted from it. `WipedInv` says of each revocation that the
    tokens issued before it are, or another revocation is about to.
  Each action is classified once by what it can do to the stores and the list
  (`Keeping`, `Storing`, `Retiring`, `Wiping`, `Reaching`), and the parts are proved
  from the classes.
* `MultiTierCacheProofs` - `Typing`, `TakenByOne` and `Coherent`, with values of any
  size, failures, and the bus on or off. The invariant is `CacheInv`. `Once`: what
  Redis holds, or will ever be given, has not been taken. `Undisturbed`: a call
  that will copy a value and that no write has overlapped has the value that Redis
  holds, or one that has expired, and no write is under way. `Dropped`: an instance
  that waits for a GETDEL has no clean copy. `Repaired`: for a clean copy that is out
  of date there is an invalidation on the bus, or a call that has yet to send it or
  to replace the copy. At rest there is neither, which is `CoherentAtRest`. `Counted`
  bounds the bus: a message on it, or still to be sent, has a write of its own.
* `JobLockProofs` - `OverlapEnds` and `OneInstance`, for `Jobs`' specification
  through `NextLock`, and `Typing` and `OneStart` for `Jobs` itself.
  - `OverlapInv` is `Beats` (the next refresh of a run at work is at most an
    interval ahead), `LosersStop` (while the row is somebody's, a run at work
    elsewhere has a refresh due within an interval of the last acquisition) and
    `OneLoser` (of two runs at work on different instances one is such a loser,
    also when the row is gone). It needs no assumption on the lease: an
    acquisition sets `acquired`, and the losers meet another's row at their
    next beat.
  - `LeaseInv` is `Beats`, `Fresh` (the time a statement will write is recent),
    and, until `tainted`, `Covered` (a run at work owns a row whose lease lasts
    past its next refresh) and `Alone` (it shares its instance with no other
    run past its acquisition). `Interval + Latency <= Lease` is used here and
    only here.
  - `DispatchInv`, for `OneStart`: a trigger in the worker's inbox is one that the
    scheduler sent in this tick, having set `lastRun`, and the last start lies
    before the newest firing time, the one the trigger is for. The inbox never
    holds two triggers, so that `Typing` needs it as well.
* `UploadSessionProofs` - `Typing`, `CompletedIsTrue`, `UploadReadable`,
  `FolderEmptied` and `HalvesAccounted`, for any number of chunks, requests and
  faults. Nothing locks the session: each request writes back the copy it read
  before an await.
  - `StructInv`: where a request can stand and when it holds a copy, and how far
    the document and the cleanup of a completion are (`Assemblies`), from which
    `HalfOnlyTorn` follows.
  - `CompletedInv`: no copy, stored or held, says completed before there is a
    document that is there to stay (`Made`: whole, and past the steps that may
    still undo it). It does without the order of the client.

  What else holds is due to that order:
  - `TurnInv`: at most one chunk and one thumbnail are under way, and none beside a
    completion or after a document. So of the copies held at one time at most one
    knows a chunk more than the stored session.
  - `KeyInv`: chunk 0 brings the data key and is recorded before any other.
    `OrderInv`: the copies are ordered (`Under`), the chunk's on top, the
    thumbnail's below the stored session. So no copy that is written back knows
    another key than the chunks were stored with.
  - `ValidInv`, `StoredInv`: what a copy says is recorded is stored under its key, or
    gone; and it is not gone while nothing has begun to clean up (`Standing`). A
    sweep that fails half-way only takes away (`Shrinks`), which keeps both.
  - `AgreedInv`, `PartsInv`: while a completion is busy every copy has the key that
    it began with, and so has what it downloads, whichever of two completions
    writes last.
  `Moves` says once what a step of a
  request can do to the copies, to the storage and to an assembly; each action
  has a lemma that it is one, and the parts of the invariant are proved from it.
* `ObjectBackupProofs` - `Typing`, `MarkedIsRecoverable` and `NothingStays`, for
  any number of documents and of runs under way together. Neither property is
  inductive; the invariant is `BackupInv`:
  - `RowsInv`, `EnvInv`, `TombInv`: a deletion lies in the past, the window of a
    destroyed environment covers the windows of its documents, and a tombstone
    belongs to a deleted document and falls due no earlier than its window ends
    (`Follows`). So a run that purges or sweeps acts on nothing that is still
    wanted (`PurgedTooLate`, `SweptTooLate`).
  - `LeakInv` is stronger than `NothingLeaks`: a deleted document is followed
    also while a run that selected it before the deletion may still copy it.
  - `RunInv`, of each run: it is at most `RunLimit` old, what it is about to mark
    is in the backup, the documents it has yet to copy were there when it began
    (`Copyable`), and what it has purged does not come back before it drops the
    tombstone. That last part is the one that needs `RunLimit < Grace`
    (`CopiedInTime`): a copy begun before the deletion ends before the tombstone
    falls due. Without the assumption that lemma, and only it, fails.
  - `Busy`: a run in the middle of a copy has an object it is at. That object is
    the least document with work left, which `LeastDoc` provides by the
    well-foundedness of `<`.
  `WorldStep` says what a step that changes no run has to show, `OtherRun` that a
  step of one run keeps the invariant of the others; each action then has its
  own lemma.

* `FolderTreeProofs` - `Typing`, `ForestKept`, `OutcomeKept` and `StepsKept`: every
  property of the run, for any number of folders and requests and any limit. The
  invariant is `FolderInv`:
  - `Sound`: nothing refers to a row that is yet to be inserted, and what is not
    there has no parent.
  - `ForestInv`, until `raced`: the folders are a forest, and what each move has
    validated is still true although it was read one row at a time. That is said
    without recursion, by sets: of a move that no other has overtaken there is a
    set of folders that contains the target and everything above it and none of
    the folders to be moved (`Clear`). A create adds a leaf, a delete only cuts
    links to the root, so such a set remains one (`StillNoLoop`, `FitCarried`).
    `OnTheWay` is the walk, half way up; `Restorable` says that the parents before
    the move still make a forest with whatever others have done since. The heart is
    `Mixture`: of a forest, some folders sent to a place above which none of
    them is leave a forest, whichever of them have been sent so far. It serves
    the move, the move that fails in the middle and each step of its rollback.
  - `OutcomeInv`: one move at a time answers for a folder; it knows where the folder
    was, and has put it where it says.
  - `WalksInv`, beside it, for `StepsKept`, the action property. `Counted`: as long as
    no other request has written the tree, `depth` is at least the number of
    folders on the way up from the target, and then at least that number with the
    longest way (`Chain`) from a folder that has been found up to the one to be moved;
    when the last level has been read nothing below is missing (`Below`) and the sum
    is within the limit; a count that has failed is marked (`uncounted`) and claims
    nothing. `Collected` says of a delete that what lies below the
    folders it has found has been found too, save below the last level. The depth
    after the move is not computed: `LevelBound` bounds it by the size of any set
    that holds the folder and the parents of what it holds, and `PlainWithin` keeps
    the walk that looks for the folders moved along within such a set, so that
    neither needs an induction over the tree.
* `FolderSharingProofs` - `Typing`, `RevocationTakes` and `SharedIsRead`: every
  property of the run, for any number of folders, documents, users, requests and
  faults, with any number of rows per user. The invariant is `SharingInv`:
  - `Sound`: what is not there has no rows, and nothing there is below it or in it;
    so a folder that is created below one being revoked, or a document that is
    uploaded there, starts with no row of the user who is losing it. `Staged` says
    what a request has in hand at each stage.
  - `RevokeInv`: how far a revocation has come (`Taken`). What it has been through
    stays taken, since a step that sets a row of the user counts as a grant, and
    marks the revocation (`met`). Folders that come to be below it after it has
    read the tree have no row of the user to pass on, because the folder above
    has none. `RevokeTakes` alone is not inductive: it speaks of the last two stages.
    A document put somewhere, by a move or its rollback, marks the revocation too.
    Each step is sorted by what it can do to the rows of one user (`Calm`: it
    gives the user nothing), and an end of the revocation by what it read.
  - `ApartInv`, `FlagInv`, `GivenInv`, `NoneBack` (no move is rolled back), until a
    query has failed: a document in a
    folder that has been given to a user has a key of the user that no revocation
    is about to take, or there is a request that will give it (`Gives`). A share is
    one until it has looked for documents, an upload or a move until it has looked
    for users; whichever looks second finds what the other wrote. `FlagInv` is
    needed because an upload looks at the folder's flag first, `ApartInv` because
    a revocation takes keys from documents found by the folders it went through.
  `Below`, the tree under a folder, is a function of the rows; that it is closed
  under children and grows by a new leaf only is proved level by level with the
  well-foundedness of `<`.

Model-checked only:

* All liveness (`PollingEnds`, `LockComesFree`, `BackedUpAtLast`, `PurgedAtLast`):
  outside what the prover handles.
* The violations, naturally.

## 7. What the checks found

With a run (see "findings" in `PROJECT.json` for the quoted documentation):

1. Deno KV's `acquireLock` grants a held lock (`lock_denokv_exclusion`).
2. Two folder moves that are validated before either is carried out can make two
   folders each other's ancestor, out of reach from the root (`folders_cycle`).
3. A document that is uploaded into a shared folder can be given to its users
   with an empty key: the inheritance starts before the key is recorded, and a
   later share activates the row and keeps its key (`sharing_keys`).

Seen while modelling, and described by the conditions of a property or left out
of it:

* Sessions: a logout that overlaps a refresh of the same token returns, and the client
  holds a new token of the session that is still accepted; a session that the cap
  has cut from the list keeps its refresh token through a revocation of all
  sessions ("covers BOTH token types", `session-revocation.service.ts:175`). A cache delete that Redis drops leaves a token usable after a rotation, a
  logout or a revocation that report success; an evicted `USER_SESSIONS` entry, or a
  write of it that is dropped, leaves tokens that no revocation of all sessions
  finds. The `TOKEN_REVOKED` fall-back waits for an exception that no provider
  throws. `revokeAllUserSessions` and `invalidateAllSessionsExcept` have no
  callers in the repository. A revocation that is cut off has thrown the list
  away, and a later one deletes rows but no cached token.
* Multi-tier cache, against `docs/configuration.md`: with the bus on and nothing
  lost, two instances can be left with different copies of a key ("every other
  instance drops its L1 entry"), for a call under way stores its copy after the
  invalidation was handled. With the bus off a copy warmed from Redis has no TTL,
  and is stale until it is evicted or written again ("until its own TTL fires").
  Overwriting a small cached value with one too large for the L1 leaves the small
  one in the writer's own L1 ("Your L1 is updated synchronously in the same
  call"). A `set` that Redis drops is served from the writer's L1 for its whole
  TTL, while the others keep the old value.
* Jobs: two instances can both acquire a job's lock, when both read first; the
  proved `OverlapEnds` bounds the consequence for jobs that refresh. The loser
  that finishes first deletes the winner's row, the winner aborts at its next
  refresh, and nobody finishes the job. A request during boot attempts an
  overdue job without a handler and records it as run. A trigger that
  meets a busy handler is dropped and its firing time is lost. The recorded
  last run can go back when a long run ends after a later one. Two instances
  may run a job one after the other for the same firing time, since each goes
  by its own in-memory `lastRun`. `isCronDue` compares local time while
  `getMostRecentScheduledTime` uses UTC.
* Backup: rows whose file is missing block the selection (`Blocked`). The
  cleanup of a failed upload leaves no tombstone, and an HTTP error skips it. A
  thumbnail that is recorded after a delete has read the row gets no tombstone,
  and its copy stays in the backup. A new thumbnail is not backed up once an
  older one was. The attempts that `bumpTombstoneAttempts` counts "with backoff"
  are read by nothing.
* Folders: the depth check counts no levels below when its query fails
  (`folder-crud.helpers.ts:330`), and bulk moves do not look at the depth. A rollback whose operation could
  not read the original parent puts the folder at the root. The rollback state
  that is stored is read by nothing, so an instance that stops leaves the move
  half done. A cancelled operation is carried out, and the cancel can overwrite
  "completed". A delete leaves archived folders below, and those of other
  owners, with a parent that is gone; a folder can be created below one that is
  being deleted.
* Sharing: a revocation does not reach the folders of other owners below, which have
  inherited the user. A share between the count of the remaining users and the
  clearing of the flag leaves a folder with users that passes nothing on. A
  revocation takes the keys of documents the revoked user owns, which
  the revocation of a single document refuses to do. A document taken from a user
  of its folder stays taken only until the folder is shared again, with anybody. A
  move that is rolled back leaves the keys it has inherited. A share gives rows in the folders below and no
  keys for what is in them already; a folder moved into a shared one gets none of
  its users.
  Duplicate rows per user and folder accumulate.
* Uploads, for a client that leaves the documented order: two thumbnails at a
  time can write a copy of the session back that is older than the data key, and
  the recorded chunks cannot be read; chunk 0 sent again
  after it was recorded re-encrypts the stored chunk under a new key and the
  document cannot be decrypted; a chunk sent again when all are recorded is
  deleted and never reported missing. For any client: the rows are inserted before
  the file is stored, and a stop in between, or an undo that fails, leaves a document
  without a file ("everything is rolled back", `document-upload.service.ts:120`); a chunk
  whose metadata entry is lost is reported as present, cannot be sent again, and
  makes every assembly fail; the cleanup job looks for expired sessions in the
  cache, which forgets them as they expire, and the folders of abandoned uploads
  stay; two completions make two
  documents; a crash after the document is created leaves the session
  "assembling"; the document's id can be polled only between
  `markSessionCompleted` and `deleteSession`; a thumbnail recorded after completion
  read the session, or undone by a stale chunk write, is not applied; an abort
  leaves what was stored and has no metadata; a cleanup whose deletes fail leaves
  the rest of the folder for good.

## 8. Not modelled

In the modelled components: access-token sessions, the IP challenge and its
`TOKEN_REVOKED`, the session rate limiter, API keys (sessions); the durable tier,
pattern and namespace deletes, warm-up and statistics (cache); the fields of a
cron expression, several jobs under `maxConcurrent`, the `Deno.cron` mode and
the standalone runner, jobs that do not refresh their lock, the worker's shutdown, the 30 s debounce of
`isCheckingJobs` other than as "once per tick" (jobs); event streams of the
assembly, `recordChunkUpload` and `storeEncryptionData` (no callers), a stale copy
of the session in an instance's own L1, the part of a broken stream that a storage
keeps, sharing
and comments applied to a finished document (uploads); attachments of notes,
several tenants, the preflight (backup); queues over a Redis that is not
connected; bulk moves of documents, the event
stream, the permission checks of moves (folders); permission levels, documents
encrypted with a user's key, folders that do not pass on new content, public
links (sharing). Everything else in
section 1 that has no module is in `PROJECT.json` as `not_modelled` with the
reason.

## 9. Plan

Next modules, in this order:

1. `BackgroundTasks`: one instance's `processQueue`, the retry timers, task rows
   and cache, over `FifoQueue`. Abstract specification: a task moves from
   pending to one final state. Properties: a final state is final, nothing waits
   while every processor is idle (the retry timer), retries are bounded although
   every update of the row writes back what it read. (No handler is registered
   in the repository, hence its place here.)
2. `TenantPool` and `WorkerPool`: two small modules; a request never uses a
   closed client, the map's bound under concurrent openings; every dispatched
   task settles, also when a worker fails to load.
3. `RateLimit` with the three counters and the magic-link throttle over
   `CacheLock`; the durable tier as an extension of `MultiTierCache`.
4. Pure algorithms against a reference definition: cron matching, retention of
   database backups, the memory cache's accounting.

Runs are few on purpose; a new module's run replaces one of the violation runs
that a stronger passing run has come to cover, or a component shares a run
through a rigid choice as the three stores of `CacheLock` and the shapes of
`MCBackup` do.

Next theorems: what is left to prove of the runs' properties is liveness, which
stays with TLC. Worth stating next are the invariants that the planned modules
need, and for `FolderTree` and `FolderSharing` the refinement of a common
abstract specification of a folder that both meet in.
