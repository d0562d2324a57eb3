---------------------------- MODULE UploadSession ----------------------------
(***************************************************************************)
(* One chunked upload (services/upload-processor and                       *)
(* handlers/documents/chunked-upload.handler.ts).  The session is one      *)
(* object in the cache.  Every request reads it whole, changes its own     *)
(* copy, and writes the whole copy back, with awaits in between and no     *)
(* lock: a later write undoes what was recorded since its read.  Beside it *)
(* are one metadata entry per chunk in the cache and the encrypted chunks  *)
(* and the thumbnail in the storage's folder of the session.               *)
(*                                                                         *)
(* A stored chunk is the data key it is encrypted with, since a client     *)
(* sends the same bytes under the same index every time; a data key is     *)
(* named after the request for chunk 0 that generated it.  All chunks have *)
(* the declared size, so the byte count of the session is the number of    *)
(* chunks recorded.                                                        *)
(*                                                                         *)
(* A fault is something the code does not notice or does not stand up to:  *)
(* a read, a write or a delete of the cache that Redis drops, an evicted   *)
(* entry, a delete in the storage or in the database that fails and is     *)
(* only logged, an instance that stops.  What the code does answer, a      *)
(* storage or a database that refuses a document, is no fault.             *)
(***************************************************************************)
EXTENDS Naturals, FiniteSets

CONSTANTS Chunkers,     \* POST /chunk requests
          Thumbs,       \* POST /thumbnail requests
          Completers,   \* POST /complete requests
          Aborters,     \* DELETE /abort requests, and runs of the cleanup job
          NoKey,        \* no data key, no stored chunk
          NoSession,    \* no session in the cache
          Total,        \* totalChunks
          Stray,        \* kinds of request that may come out of turn
          MaxStrays,    \* bound: requests that come out of turn
          MaxFaults     \* bound: faults

Ops == Chunkers \cup Thumbs \cup Completers \cup Aborters
Index == 0..(Total - 1)
Keys == Chunkers \cup {NoKey}

VARIABLES session,      \* upload_sessions entry
          meta,         \* upload_chunks entries: the indices that have one
          blob,         \* stored chunks, by index
          thumb,        \* whether the folder holds a thumbnail
          expired,      \* expiresAt has passed
          pc,           \* where the request stands
          snap,         \* the session object a request will write back
          idx,          \* chunkIndex of the request
          start,        \* /complete: data key and thumbnail as read at the start
          parts,        \* /complete: the chunks downloaded so far
          cleanup,      \* /complete: the removal of the temporary folder
          listed,       \* /abort: the chunks found for deletion
          doc,          \* the document of a /complete request: its rows, its file
          torn,         \* /complete requests cut off, or whose undoing failed
          strays,       \* requests sent out of the documented order so far
          faults        \* faults so far

vars == <<session, meta, blob, thumb, expired, pc, snap, idx, start, parts,
          cleanup, listed, doc, torn, strays, faults>>

Status == {"initiated", "uploading", "assembling", "completed", "failed", "aborted"}
Session == [chunks : SUBSET Index, status : Status, key : Keys, thumb : BOOLEAN]

ASSUME UploadAssumption ==
  /\ Total \in Nat \ {0}
  /\ NoKey \notin Chunkers /\ NoSession \notin Session
  /\ Chunkers \cap (Thumbs \cup Completers \cup Aborters) = {}
  /\ Thumbs \cap (Completers \cup Aborters) = {} /\ Completers \cap Aborters = {}
  /\ Stray \subseteq {"again", "chunk", "thumbnail", "complete"}
  /\ MaxStrays \in Nat /\ MaxFaults \in Nat

Nothing == [i \in Index |-> NoKey]
NoStart == [key |-> NoKey, thumb |-> FALSE]
Place == {"idle", "put", "undo", "record", "meta", "session", "get", "set",
          "begin", "assemble", "list", "read", "store", "apply", "unrow", "unfile",
          "finish", "finished", "fail", "failed", "mark", "marked", "sweep",
          "unmeta", "unset", "done"}

\* "rows" has no file, "file" has no rows
DocStates == {"none", "rows", "whole", "file"}

TypeOK ==
  /\ session \in Session \cup {NoSession}
  /\ meta \subseteq Index
  /\ blob \in [Index -> Keys]
  /\ thumb \in BOOLEAN /\ expired \in BOOLEAN
  /\ pc \in [Ops -> Place]
  /\ snap \in [Ops -> Session \cup {NoSession}]
  /\ idx \in [Chunkers -> Index]
  /\ start \in [Completers -> [key : Keys, thumb : BOOLEAN]]
  /\ parts \in [Completers -> [Index -> Keys]]
  /\ cleanup \in [Completers -> {"none", "due", "done", "failed"}]
  /\ doc \in [Completers -> DocStates] /\ torn \subseteq Completers
  /\ listed \in [Aborters -> SUBSET Index]
  /\ strays \in 0..MaxStrays /\ faults \in 0..MaxFaults
  /\ \A r \in Chunkers : pc[r] = "put" => snap[r] # NoSession /\ snap[r].key # NoKey

\* initiateUpload has stored a fresh session
Init ==
  /\ session = [chunks |-> {}, status |-> "initiated", key |-> NoKey, thumb |-> FALSE]
  /\ meta = {} /\ blob = Nothing /\ thumb = FALSE /\ expired = FALSE
  /\ pc = [o \in Ops |-> "idle"]
  /\ snap = [o \in Ops |-> NoSession]
  /\ idx = [r \in Chunkers |-> 0]
  /\ start = [c \in Completers |-> NoStart]
  /\ parts = [c \in Completers |-> Nothing]
  /\ cleanup = [c \in Completers |-> "none"]
  /\ doc = [c \in Completers |-> "none"] /\ torn = {}
  /\ listed = [a \in Aborters |-> {}] /\ strays = 0 /\ faults = 0

InFlight(o) == \/ pc[o] \notin {"idle", "done"}
               \/ o \in Completers /\ cleanup[o] = "due"
Quiet(R) == \A o \in R : ~InFlight(o)
Open == session # NoSession
Filed == {c \in Completers : doc[c] \in {"whole", "file"}}

Fault == faults < MaxFaults /\ faults' = faults + 1
NoFault == UNCHANGED faults

Goto(o, l) == pc' = [pc EXCEPT ![o] = l]
Hold(o, s) == snap' = [snap EXCEPT ![o] = s]
Ends(o) == Goto(o, "done") /\ Hold(o, NoSession)

\* What a request held in its own variables is gone when it ends
Drops(r) == idx' = [k \in Chunkers |-> IF k = r THEN 0 ELSE idx[k]]
Forgets(c) ==
  /\ start' = [d \in Completers |-> IF d = c /\ d \notin Filed THEN NoStart ELSE start[d]]
  /\ parts' = [d \in Completers |-> IF d = c /\ d \notin Filed THEN Nothing ELSE parts[d]]

\* A read of the session by o that takes a copy, for the step `to`; a request
\* that finds none, or whose read fails, goes to `none`
Takes(o, at, copy, to, none) ==
  /\ pc[o] = at
  /\ \/ Open /\ NoFault /\ Hold(o, copy) /\ Goto(o, to)
     \/ (IF Open THEN Fault ELSE NoFault) /\ Hold(o, NoSession) /\ Goto(o, none)

\* A write of the session to the cache, which may be lost
Writes(s) ==
  \/ session' = s /\ NoFault
  \/ Fault /\ UNCHANGED session

\* updateSession: the copy becomes the session, unless its time has passed
Updates(o, at, to, late) ==
  /\ pc[o] = at
  /\ Hold(o, NoSession)
  /\ \/ ~expired /\ Writes(snap[o]) /\ Goto(o, to)
     \/ expired /\ UNCHANGED <<session, faults>> /\ Goto(o, late)

-----------------------------------------------------------------------------
(* The order the routes document for a client *)

\* Chunks "should be uploaded sequentially": the client waits for each answer
\* and sends what the status reports as missing.  A thumbnail comes before
\* complete, one at a time but beside the chunks; complete when neither is in
\* flight, and nothing after abort.  A completion that failed may be followed
\* by more chunks and by another one
Unaborted == \A a \in Aborters : pc[a] = "idle"
Unswept == \A c \in Completers : cleanup[c] = "none"
Uploading == Quiet(Completers) /\ Unswept /\ Unaborted
ChunkInTurn(i) == Uploading /\ Quiet(Chunkers) /\ i \notin session.chunks
Again(i) == Uploading /\ Quiet(Chunkers) /\ i \in session.chunks
ThumbInTurn == Uploading /\ Quiet(Thumbs)
CompleteInTurn == Quiet(Chunkers \cup Thumbs) /\ Unaborted

\* Nothing in the code enforces that order
Sent(kind, inTurn) ==
  \/ inTurn /\ UNCHANGED strays
  \/ ~inTurn /\ kind \in Stray /\ strays < MaxStrays /\ strays' = strays + 1

-----------------------------------------------------------------------------
(* POST /chunk *)

\* Faulty variant: a chunk is taken before the data key exists
ChunkStartUnkeyed(r) == \E i \in Index :
  /\ r \in Chunkers /\ pc[r] = "idle"
  /\ Open
  /\ Sent(IF Again(i) THEN "again" ELSE "chunk", ChunkInTurn(i))
  /\ idx' = [idx EXCEPT ![r] = i]
  /\ Hold(r, IF i = 0 THEN [session EXCEPT !.key = r] ELSE session)
  /\ Goto(r, "put")
  /\ UNCHANGED <<session, meta, blob, thumb, expired, start, parts, cleanup,
                 listed, doc, torn, faults>>

\* Faulty variant: every chunk makes a data key
ChunkStartFresh(r) == \E i \in Index :
  /\ r \in Chunkers /\ pc[r] = "idle"
  /\ Open
  /\ Sent(IF Again(i) THEN "again" ELSE "chunk", ChunkInTurn(i))
  /\ i # 0 => session.key # NoKey
  /\ idx' = [idx EXCEPT ![r] = i]
  /\ Hold(r, [session EXCEPT !.key = r])
  /\ Goto(r, "put")
  /\ UNCHANGED <<session, meta, blob, thumb, expired, start, parts, cleanup,
                 listed, doc, torn, faults>>

\* validateSessionOwnership; the first chunk makes the data key, the others
\* need it
ChunkStart(r) == \E i \in Index :
  /\ r \in Chunkers /\ pc[r] = "idle"
  /\ Open
  /\ Sent(IF Again(i) THEN "again" ELSE "chunk", ChunkInTurn(i))
  /\ i # 0 => session.key # NoKey
  /\ idx' = [idx EXCEPT ![r] = i]
  /\ Hold(r, IF i = 0 THEN [session EXCEPT !.key = r] ELSE session)
  /\ Goto(r, "put")
  /\ UNCHANGED <<session, meta, blob, thumb, expired, start, parts, cleanup,
                 listed, doc, torn, faults>>

Recorded(s, i) ==
  [s EXCEPT !.chunks = @ \cup {i},
            !.status = IF @ = "initiated" THEN "uploading" ELSE @]

\* uploadFile; then the byte count, and the test for a chunk recorded twice
ChunkPut(r) == LET i == idx[r]
                   s == snap[r] IN
  /\ r \in Chunkers /\ pc[r] = "put"
  /\ blob' = [blob EXCEPT ![i] = s.key]
  /\ \/ /\ Cardinality(s.chunks) >= Total
        /\ Goto(r, "undo") /\ Hold(r, NoSession) /\ UNCHANGED idx
     \/ /\ Cardinality(s.chunks) < Total
        /\ i \in s.chunks \/ expired
        /\ Ends(r) /\ Drops(r)
     \/ /\ i \notin s.chunks /\ ~expired
        /\ Goto(r, "record") /\ Hold(r, Recorded(s, i)) /\ UNCHANGED idx
  /\ UNCHANGED <<session, meta, thumb, expired, start, parts, cleanup,
                 listed, doc, torn, strays, faults>>

\* More bytes than the file has: the stored chunk is deleted again
ChunkUndo(r) ==
  /\ r \in Chunkers /\ pc[r] = "undo"
  /\ \/ blob' = [blob EXCEPT ![idx[r]] = NoKey] /\ NoFault
     \/ Fault /\ UNCHANGED blob
  /\ Ends(r) /\ Drops(r)
  /\ UNCHANGED <<session, meta, thumb, expired, start, parts, cleanup,
                 listed, doc, torn, strays>>

\* recordChunkUploadDirect writes the session and the metadata in parallel;
\* the request ends with the second of the two writes
RecordSession(r) ==
  /\ r \in Chunkers /\ pc[r] \in {"record", "session"}
  /\ Writes(snap[r])
  /\ \/ pc[r] = "record" /\ Goto(r, "meta") /\ Hold(r, NoSession) /\ UNCHANGED idx
     \/ pc[r] = "session" /\ Ends(r) /\ Drops(r)
  /\ UNCHANGED <<meta, blob, thumb, expired, start, parts, cleanup,
                 listed, doc, torn, strays>>

RecordMeta(r) ==
  /\ r \in Chunkers /\ pc[r] \in {"record", "meta"}
  /\ \/ meta' = meta \cup {idx[r]} /\ NoFault
     \/ Fault /\ UNCHANGED meta
  /\ \/ pc[r] = "record" /\ Goto(r, "session") /\ UNCHANGED <<snap, idx>>
     \/ pc[r] = "meta" /\ Ends(r) /\ Drops(r)
  /\ UNCHANGED <<session, blob, thumb, expired, start, parts, cleanup,
                 listed, doc, torn, strays>>

-----------------------------------------------------------------------------
(* POST /thumbnail *)

\* "Must be called before complete"
ThumbStart(t) ==
  /\ t \in Thumbs /\ pc[t] = "idle"
  /\ Open
  /\ Sent("thumbnail", ThumbInTurn)
  /\ Goto(t, "put")
  /\ UNCHANGED <<session, meta, blob, thumb, expired, snap, idx, start, parts,
                 cleanup, listed, doc, torn, faults>>

ThumbPut(t) ==
  /\ t \in Thumbs /\ pc[t] = "put"
  /\ thumb' = TRUE
  /\ Goto(t, "get")
  /\ UNCHANGED <<session, meta, blob, expired, snap, idx, start, parts, cleanup,
                 listed, doc, torn, strays, faults>>

\* storeSessionThumbnailData
ThumbGet(t) ==
  /\ t \in Thumbs
  /\ Takes(t, "get", [session EXCEPT !.thumb = TRUE], "set", "done")
  /\ UNCHANGED <<session, meta, blob, thumb, expired, idx, start, parts, cleanup,
                 listed, doc, torn, strays>>

ThumbSet(t) ==
  /\ t \in Thumbs
  /\ Updates(t, "set", "done", "done")
  /\ UNCHANGED <<meta, blob, thumb, expired, idx, start, parts, cleanup,
                 listed, doc, torn, strays>>

-----------------------------------------------------------------------------
(* POST /complete, and the assembly it leaves running *)

\* The copy read here gives the assembly its data key and thumbnail
CompleteStart(c) ==
  /\ c \in Completers /\ pc[c] = "idle"
  /\ Open
  /\ Sent("complete", CompleteInTurn)
  /\ start' = [start EXCEPT ![c] = [key |-> session.key, thumb |-> session.thumb]]
  /\ \/ Goto(c, IF session.key = NoKey THEN "fail" ELSE "begin") /\ NoFault
     \/ Fault /\ Goto(c, "fail")
  /\ UNCHANGED <<session, meta, blob, thumb, expired, snap, idx, parts, cleanup,
                 listed, doc, torn>>

\* markSessionAssembling reads again and wants every chunk recorded
AssembleRead(c) ==
  /\ c \in Completers
  /\ Takes(c, "begin", [session EXCEPT !.status = "assembling"],
           IF Cardinality(session.chunks) = Total THEN "assemble" ELSE "fail", "fail")
  /\ UNCHANGED <<session, meta, blob, thumb, expired, idx, start, parts, cleanup,
                 listed, doc, torn, strays>>

AssembleWrite(c) ==
  /\ c \in Completers
  /\ Updates(c, "assemble", "list", "fail")
  /\ UNCHANGED <<meta, blob, thumb, expired, idx, start, parts, cleanup,
                 listed, doc, torn, strays>>

\* getSessionChunks: the recorded chunks that have metadata
Found == IF Open THEN session.chunks \cap meta ELSE {}

\* assembleChunks wants each index once
AllFound == Found = Index

List(c) ==
  /\ c \in Completers /\ pc[c] = "list"
  /\ \/ Goto(c, IF AllFound THEN "read" ELSE "fail") /\ NoFault
     \/ Fault /\ Goto(c, "fail")
  /\ UNCHANGED <<session, meta, blob, thumb, expired, snap, idx, start, parts,
                 cleanup, listed, doc, torn, strays>>

\* Chunks are downloaded in a window, in any order, from before the rows are
\* made: one that is gone makes the storing fail
Download(c) == \E i \in Index :
  /\ c \in Completers /\ pc[c] \in {"read", "store"}
  /\ parts[c][i] = NoKey /\ blob[i] # NoKey
  /\ parts' = [parts EXCEPT ![c] = [@ EXCEPT ![i] = blob[i]]]
  /\ UNCHANGED <<session, meta, blob, thumb, expired, pc, snap, idx, start, cleanup,
                 listed, doc, torn, strays, faults>>

\* Faulty variant: the session is finished whatever became of the document
AssemblyEnds(c) ==
  /\ c \in Completers /\ pc[c] = "read"
  /\ parts' = [parts EXCEPT ![c] = Nothing]
  /\ Goto(c, "finish")
  /\ UNCHANGED <<session, meta, blob, thumb, expired, snap, idx, start, cleanup,
                 listed, doc, torn, strays, faults>>

\* A validation, a quota or a permission refuses the document
AssemblyFails(c) ==
  /\ c \in Completers /\ pc[c] = "read"
  /\ parts' = [parts EXCEPT ![c] = Nothing]
  /\ Goto(c, "fail")
  /\ UNCHANGED <<session, meta, blob, thumb, expired, snap, idx, start, cleanup,
                 listed, doc, torn, strays, faults>>

\* processPreEncryptedUpload: the rows, with which the document is there for
\* everyone, before its file
InsertRows(c) ==
  /\ c \in Completers /\ pc[c] = "read"
  /\ doc' = [doc EXCEPT ![c] = "rows"]
  /\ Goto(c, "store")
  /\ UNCHANGED <<session, meta, blob, thumb, expired, snap, idx, start, parts,
                 cleanup, listed, torn, strays, faults>>

\* uploadFile has read the stream to its end
StoreFile(c) ==
  /\ c \in Completers /\ pc[c] = "store"
  /\ \A i \in Index : parts[c][i] # NoKey
  /\ doc' = [doc EXCEPT ![c] = "whole"]
  /\ Goto(c, "apply")
  /\ UNCHANGED <<session, meta, blob, thumb, expired, snap, idx, start, parts,
                 cleanup, listed, torn, strays, faults>>

\* Faulty variant: nothing is undone
StoreAbandoned(c) ==
  /\ c \in Completers /\ pc[c] \in {"store", "apply"}
  /\ Goto(c, "fail")
  /\ UNCHANGED <<session, meta, blob, thumb, expired, snap, idx, start, parts,
                 cleanup, listed, doc, torn, strays, faults>>

\* A row, the storage, a chunk that is gone, or one of the queries that follow;
\* what a storage keeps of a stream that broke off counts as no file
StoreFails(c) ==
  /\ c \in Completers /\ pc[c] \in {"store", "apply"}
  /\ Goto(c, "unrow")
  /\ UNCHANGED <<session, meta, blob, thumb, expired, snap, idx, start, parts,
                 cleanup, listed, doc, torn, strays, faults>>

\* The compensating deletes, whose own failures are only logged
Undo(c, at, undone, to) ==
  /\ c \in Completers /\ pc[c] = at
  /\ \/ doc' = [doc EXCEPT ![c] = undone[@]] /\ NoFault /\ UNCHANGED torn
     \/ Fault /\ torn' = torn \cup {c} /\ UNCHANGED doc
  /\ Goto(c, to)
  /\ UNCHANGED <<session, meta, blob, thumb, expired, snap, idx, start, parts,
                 cleanup, listed, strays>>

NoRows == [none |-> "none", rows |-> "none", whole |-> "file", file |-> "file"]
NoFile == [none |-> "none", rows |-> "rows", whole |-> "rows", file |-> "none"]

UndoRows(c) == Undo(c, "unrow", NoRows, "unfile")
UndoFile(c) == Undo(c, "unfile", NoFile, "fail")

\* The thumbnail of the copy read at the start moves to the document, if that
\* succeeds; then two cleanups begin side by side
ApplyThumb(c) ==
  /\ c \in Completers /\ pc[c] = "apply"
  /\ thumb' \in {thumb, thumb /\ ~start[c].thumb}
  /\ cleanup' = [cleanup EXCEPT ![c] = "due"]
  /\ Goto(c, "finish")
  /\ UNCHANGED <<session, meta, blob, expired, snap, idx, start, parts,
                 listed, doc, torn, strays, faults>>

\* Faulty variant: only the chunks are deleted
SweepChunks == blob' = Nothing /\ UNCHANGED thumb

\* cleanupChunksAndFolder
SweepFolder == blob' = Nothing /\ thumb' = FALSE

\* Deletes that fail or are cut off leave some of it, and nobody is told
SweepPartly ==
  /\ \E left \in SUBSET Index : blob' = [i \in Index |-> IF i \in left THEN blob[i] ELSE NoKey]
  /\ thumb' \in {thumb, FALSE}

Sweep(c) ==
  /\ c \in Completers /\ cleanup[c] = "due"
  /\ \/ SweepFolder /\ NoFault /\ cleanup' = [cleanup EXCEPT ![c] = "done"]
     \/ SweepPartly /\ Fault /\ cleanup' = [cleanup EXCEPT ![c] = "failed"]
  /\ UNCHANGED <<session, meta, expired, pc, snap, idx, start, parts, listed, doc,
                 torn, strays>>

\* markSessionCompleted, then deleteSession
FinishRead(c) ==
  /\ c \in Completers
  /\ Takes(c, "finish", [session EXCEPT !.status = "completed"], "finished", "fail")
  /\ UNCHANGED <<session, meta, blob, thumb, expired, idx, start, parts, cleanup,
                 listed, doc, torn, strays>>

FinishWrite(c) ==
  /\ c \in Completers
  /\ Updates(c, "finished", "unmeta", "fail")
  /\ UNCHANGED <<meta, blob, thumb, expired, idx, start, parts, cleanup,
                 listed, doc, torn, strays>>

\* markSessionFailed, whose own failure is swallowed
FailRead(c) ==
  /\ c \in Completers
  /\ Takes(c, "fail", [session EXCEPT !.status = "failed"], "failed", "done")
  /\ Forgets(c)
  /\ UNCHANGED <<session, meta, blob, thumb, expired, idx, cleanup,
                 listed, doc, torn, strays>>

FailWrite(c) ==
  /\ c \in Completers
  /\ Updates(c, "failed", "done", "done")
  /\ UNCHANGED <<meta, blob, thumb, expired, idx, start, parts, cleanup,
                 listed, doc, torn, strays>>

\* deleteSession deletes the metadata, then the session
DeleteMeta(o) ==
  /\ pc[o] = "unmeta"
  /\ \/ meta' = {} /\ NoFault
     \/ Fault /\ UNCHANGED meta
  /\ Goto(o, "unset")
  /\ UNCHANGED <<session, blob, thumb, expired, snap, idx, start, parts, cleanup,
                 listed, doc, torn, strays>>

DeleteSession(o) ==
  /\ pc[o] = "unset"
  /\ Writes(NoSession)
  /\ Ends(o)
  /\ UNCHANGED <<meta, blob, thumb, expired, idx, start, parts, cleanup,
                 listed, doc, torn, strays>>

-----------------------------------------------------------------------------
(* DELETE /abort *)

AbortStart(a) ==
  /\ a \in Aborters /\ pc[a] = "idle"
  /\ Open
  /\ Goto(a, "list")
  /\ UNCHANGED <<session, meta, blob, thumb, expired, snap, idx, start, parts,
                 cleanup, listed, doc, torn, strays, faults>>

AbortList(a) ==
  /\ a \in Aborters /\ pc[a] = "list"
  /\ \/ /\ listed' = [listed EXCEPT ![a] = Found] /\ NoFault
        /\ Goto(a, IF Open THEN "mark" ELSE "done")
     \/ Fault /\ UNCHANGED listed /\ \E l \in {"mark", "done"} : Goto(a, l)
  /\ UNCHANGED <<session, meta, blob, thumb, expired, snap, idx, start, parts,
                 cleanup, doc, torn, strays>>

AbortRead(a) ==
  /\ a \in Aborters
  /\ Takes(a, "mark", [session EXCEPT !.status = "aborted"], "marked", "done")
  /\ UNCHANGED <<session, meta, blob, thumb, expired, idx, start, parts, cleanup,
                 listed, doc, torn, strays>>

\* The folder is derived from the first chunk found: without one it stays
AbortWrite(a) ==
  /\ a \in Aborters
  /\ Updates(a, "marked", IF listed[a] = {} THEN "unmeta" ELSE "sweep", "done")
  /\ listed' = [listed EXCEPT ![a] = {}]
  /\ UNCHANGED <<meta, blob, thumb, expired, idx, start, parts, cleanup, doc, torn, strays>>

AbortSweep(a) ==
  /\ a \in Aborters /\ pc[a] = "sweep"
  /\ \/ SweepFolder /\ NoFault
     \/ SweepPartly /\ Fault
  /\ Goto(a, "unmeta")
  /\ UNCHANGED <<session, meta, expired, snap, idx, start, parts, cleanup,
                 listed, doc, torn, strays>>

-----------------------------------------------------------------------------
(* The end of a session's time, and what fails *)

\* expiresAt passes
Expire ==
  /\ ~expired
  /\ expired' = TRUE
  /\ UNCHANGED <<session, meta, blob, thumb, pc, snap, idx, start, parts, cleanup,
                 listed, doc, torn, strays, faults>>

\* The entry's time to live, which is rounded up to a second, ends
Forget ==
  /\ expired /\ Open
  /\ session' = NoSession
  /\ UNCHANGED <<meta, blob, thumb, expired, pc, snap, idx, start, parts, cleanup,
                 listed, doc, torn, strays, faults>>

\* cleanupExpiredSessions finds what has expired and is still in the cache;
\* then it does as an abort does, with the folder's name made from the session
JobStart(a) ==
  /\ a \in Aborters /\ pc[a] = "idle"
  /\ expired /\ Open
  /\ Goto(a, "sweep")
  /\ UNCHANGED <<session, meta, blob, thumb, expired, snap, idx, start, parts,
                 cleanup, listed, doc, torn, strays, faults>>

\* The cache makes room
Evict ==
  /\ Fault
  /\ \/ Open /\ session' = NoSession /\ UNCHANGED meta
     \/ \E i \in meta : meta' = meta \ {i} /\ UNCHANGED session
  /\ UNCHANGED <<blob, thumb, expired, pc, snap, idx, start, parts, cleanup, listed,
                 doc, torn, strays>>

Sweeping(o) == \/ pc[o] = "sweep"
               \/ o \in Completers /\ cleanup[o] = "due"

\* The instance that runs a request stops
Crash(o) ==
  /\ InFlight(o)
  /\ Fault
  /\ Ends(o) /\ Drops(o) /\ Forgets(o)
  /\ cleanup' = [c \in Completers |-> IF c = o /\ cleanup[c] = "due" THEN "failed"
                                     ELSE cleanup[c]]
  /\ torn' = torn \cup ({o} \cap Completers)
  /\ IF Sweeping(o) THEN SweepPartly ELSE UNCHANGED <<blob, thumb>>
  /\ UNCHANGED <<session, meta, expired, listed, doc, strays>>

Step(o) ==
  \/ ChunkStart(o) \/ ChunkPut(o) \/ ChunkUndo(o) \/ RecordSession(o) \/ RecordMeta(o)
  \/ ThumbStart(o) \/ ThumbPut(o) \/ ThumbGet(o) \/ ThumbSet(o)
  \/ CompleteStart(o) \/ AssembleRead(o) \/ AssembleWrite(o) \/ List(o) \/ Download(o)
  \/ AssemblyFails(o) \/ InsertRows(o) \/ StoreFile(o) \/ StoreFails(o)
  \/ UndoRows(o) \/ UndoFile(o) \/ ApplyThumb(o) \/ Sweep(o)
  \/ FinishRead(o) \/ FinishWrite(o) \/ FailRead(o) \/ FailWrite(o)
  \/ DeleteMeta(o) \/ DeleteSession(o)
  \/ AbortStart(o) \/ AbortList(o) \/ AbortRead(o) \/ AbortWrite(o) \/ AbortSweep(o)
  \/ JobStart(o)

Next == \/ Expire \/ Forget \/ Evict
        \/ \E o \in Ops : Step(o) \/ Crash(o)

Spec == Init /\ [][Next]_vars

-----------------------------------------------------------------------------
\* A stored file consists of all the chunks, each of them encrypted with the
\* data key stored with the document: the assembly takes the key from the
\* session as it was before the chunks were listed and downloaded.
DocumentReadable ==
  strays = 0 => \A c \in Filed : \A i \in Index : parts[c][i] = start[c].key

\* While nothing has begun to clean up, a chunk recorded in the session is in
\* the storage under the session's data key, whatever stale copy of the
\* session was written last: resuming from the reported gaps can succeed.
RecordedReadable ==
  strays = 0 /\ Open /\ Unswept /\ (\A a \in Aborters : pc[a] \in {"idle", "list", "mark"})
    => \A i \in session.chunks : blob[i] = session.key /\ blob[i] # NoKey

\* What the storage holds can be decrypted, before the document is made and
\* after, also when the cache loses reads, writes and entries.
Readable == DocumentReadable /\ RecordedReadable

\* Once one cleanup of a completed upload has run without a failed delete the
\* temporary folder is empty and stays so, whichever requests are still running,
\* whichever copies of the session were lost and however other cleanups failed.
NoLeftovers ==
  strays = 0 /\ (\E c \in Completers : cleanup[c] = "done") => blob = Nothing /\ ~thumb

\* The status tells of a completed upload only when there is a document with
\* its file.
CompletedMeansDocument ==
  Open /\ session.status = "completed" => \E c \in Completers : doc[c] = "whole"

\* A document that has no file, and a file that has no document, are seen only
\* while their completion is storing or undoing, or after an instance stopped in
\* one or a compensating delete failed.
HalfOnlyTorn == \A c \in Completers \ torn :
  doc[c] \in {"rows", "file"} => pc[c] \in {"store", "unrow", "unfile"}
=============================================================================
