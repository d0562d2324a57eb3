------------------------ MODULE UploadSessionProofs ------------------------
(***************************************************************************)
(* What an upload session promises for any number of chunks, requests and  *)
(* completions: proofs for the properties of UploadSession.                *)
(***************************************************************************)
EXTENDS UploadSession, FiniteSetTheorems, TLAPS

-----------------------------------------------------------------------------
(* The inductive invariant *)

Holding(o) == snap[o] # NoSession
Calm == strays = 0
Standing == Calm /\ Unswept /\ \A a \in Aborters : pc[a] \in {"idle", "list", "mark"}

\* Where a request can stand, and when it holds a copy of the session.
ChunkStage(r) ==
  /\ pc[r] \in {"idle", "put", "undo", "record", "meta", "session", "done"}
  /\ Holding(r) <=> pc[r] \in {"put", "record", "session"}

ThumbStage(t) ==
  /\ pc[t] \in {"idle", "put", "get", "set", "done"}
  /\ Holding(t) <=> pc[t] = "set"

CompleteStage(c) ==
  /\ pc[c] \in {"idle", "begin", "assemble", "list", "read", "store", "apply", "unrow",
                "unfile", "finish", "finished", "fail", "failed", "unmeta", "unset", "done"}
  /\ pc[c] \in {"assemble", "finished", "failed"} => Holding(c)
  /\ Holding(c) => pc[c] \in {"assemble", "finished", "fail", "failed"}

AbortStage(a) ==
  /\ pc[a] \in {"idle", "list", "mark", "marked", "sweep", "unmeta", "unset", "done"}
  /\ Holding(a) <=> pc[a] = "marked"

Stages ==
  /\ \A r \in Chunkers : ChunkStage(r)
  /\ \A t \in Thumbs : ThumbStage(t)
  /\ \A c \in Completers : CompleteStage(c)
  /\ \A a \in Aborters : AbortStage(a)

\* How far an assembly is, its document and its cleanup.
Assemblies == \A c \in Completers :
  /\ pc[c] \in {"idle", "begin", "assemble", "list"} => parts[c] = Nothing
  /\ pc[c] \in {"idle", "begin", "assemble", "list", "read"} => doc[c] = "none"
  /\ pc[c] = "store" => doc[c] = "rows"
  /\ pc[c] \in {"apply", "finish", "finished", "unmeta", "unset"} => doc[c] = "whole"
  /\ pc[c] = "unrow" => doc[c] \in {"rows", "whole"}
  /\ pc[c] = "unfile" /\ c \notin torn => doc[c] \in {"none", "file"}
  /\ pc[c] \in {"fail", "failed", "done"} /\ c \notin torn => doc[c] \in {"none", "whole"}
  /\ cleanup[c] # "none" =>
       doc[c] = "whole" /\ pc[c] \in {"finish", "finished", "unmeta", "unset", "fail", "failed", "done"}

StructInv == TypeOK /\ Stages /\ Assemblies

\* The completions whose document is there to stay.
Made == {c \in Completers : doc[c] = "whole" /\ pc[c] \notin {"apply", "unrow", "unfile"}}

\* No copy of the session, stored or held, says completed before a document
\* exists.
CompletedInv ==
  /\ Open /\ session.status = "completed" => Made # {}
  /\ \A o \in Ops : Holding(o) /\ snap[o].status = "completed" => Made # {}

\* A client that keeps to the documented order has at most one chunk and one
\* thumbnail under way, and none beside a completion or after a cleanup.
Busy(c) == pc[c] \notin {"idle", "done"}

TurnInv == Calm =>
  /\ ~Unswept \/ (\E c \in Completers : Busy(c)) => \A o \in Chunkers \cup Thumbs : ~Busy(o)
  /\ \A r, q \in Chunkers : Busy(r) /\ Busy(q) => r = q
  /\ \A t, q \in Thumbs : Busy(t) /\ Busy(q) => t = q
  /\ \A r \in Chunkers : pc[r] # "undo" /\ (pc[r] = "put" => idx[r] \notin snap[r].chunks)

\* Chunk 0 brings the data key, and is the first to be recorded.
Keyed(s) == s.key # NoKey \/ s.chunks # {} => 0 \in s.chunks

KeyInv == Calm =>
  /\ Open => Keyed(session)
  /\ \A o \in Ops : Holding(o) =>
       IF pc[o] = "put" THEN 0 \in snap[o].chunks \cup {idx[o]} ELSE Keyed(snap[o])

\* A copy a that knows no more than b.
Under(a, b) == a.chunks \subseteq b.chunks /\ (a.chunks # {} => a.key = b.key)

OrderInv == Calm =>
  /\ \A r \in Chunkers : Holding(r) =>
       /\ Open => Under(session, snap[r])
       /\ \A o \in Thumbs \cup Aborters : Holding(o) => Under(snap[o], snap[r])
  /\ Unaborted /\ Open => \A t \in Thumbs : Holding(t) => Under(snap[t], session)

\* A chunk recorded in the session, or in a copy, is stored under its key or
\* is gone; it is not gone while nothing cleans up.
Valid(s) == \A i \in s.chunks : blob[i] \in {s.key, NoKey}
Stored(s) == \A i \in s.chunks : blob[i] # NoKey

ValidInv == Calm =>
  /\ Open => Valid(session)
  /\ \A o \in Ops : Holding(o) => Valid(snap[o])

StoredInv == Standing =>
  /\ Open => Stored(session)
  /\ \A o \in Ops : Holding(o) => Stored(snap[o])

\* While a completion is busy all copies have the key it began with.
AgreedInv == Calm /\ (\E c \in Completers : Busy(c)) => \E k \in Keys :
  /\ Open => session.key = k
  /\ \A o \in Ops : Holding(o) => snap[o].key = k
  /\ \A c \in Completers : Busy(c) /\ pc[c] # "failed" => start[c].key = k

PartsInv == Calm => \A c \in Completers :
  /\ pc[c] \in {"begin", "assemble", "list", "read", "store"} => start[c].key # NoKey
  /\ pc[c] \in {"read", "store"} => \A i \in Index :
       blob[i] \in {start[c].key, NoKey} /\ parts[c][i] \in {start[c].key, NoKey}

-----------------------------------------------------------------------------
(* Copies of the session *)

SameData(a, b) == a.chunks = b.chunks /\ a.key = b.key

\* What a request changes in its copy.
LEMMA Copies ==
  ASSUME NEW s \in Session
  PROVE  /\ s.chunks \subseteq Index /\ s.key \in Keys
         /\ \A st \in Status : /\ [s EXCEPT !.status = st] \in Session
                               /\ SameData([s EXCEPT !.status = st], s)
                               /\ [s EXCEPT !.status = st].status = st
         /\ /\ [s EXCEPT !.thumb = TRUE] \in Session
            /\ SameData([s EXCEPT !.thumb = TRUE], s)
            /\ [s EXCEPT !.thumb = TRUE].status = s.status
         /\ \A r \in Chunkers : /\ [s EXCEPT !.key = r] \in Session
                                /\ [s EXCEPT !.key = r].chunks = s.chunks
                                /\ [s EXCEPT !.key = r].key = r
                                /\ [s EXCEPT !.key = r].status = s.status
         /\ \A i \in Index : /\ Recorded(s, i) \in Session
                             /\ Recorded(s, i).chunks = s.chunks \cup {i}
                             /\ Recorded(s, i).key = s.key
                             /\ Recorded(s, i).status = "completed" => s.status = "completed"
<1>1. s.chunks \subseteq Index /\ s.key \in Keys /\ s.status \in Status
  BY DEF Session
<1>2. ASSUME NEW st \in Status
      PROVE  /\ [s EXCEPT !.status = st] \in Session
             /\ SameData([s EXCEPT !.status = st], s)
             /\ [s EXCEPT !.status = st].status = st
  BY <1>2 DEF Session, SameData
<1>3. /\ [s EXCEPT !.thumb = TRUE] \in Session
      /\ SameData([s EXCEPT !.thumb = TRUE], s)
      /\ [s EXCEPT !.thumb = TRUE].status = s.status
  BY DEF Session, SameData
<1>4. ASSUME NEW r \in Chunkers
      PROVE  /\ [s EXCEPT !.key = r] \in Session
             /\ [s EXCEPT !.key = r].chunks = s.chunks
             /\ [s EXCEPT !.key = r].key = r
             /\ [s EXCEPT !.key = r].status = s.status
  BY <1>4 DEF Session, Keys
<1>5. ASSUME NEW i \in Index
      PROVE  /\ Recorded(s, i) \in Session
             /\ Recorded(s, i).chunks = s.chunks \cup {i}
             /\ Recorded(s, i).key = s.key
             /\ Recorded(s, i).status = "completed" => s.status = "completed"
  <2> DEFINE c == s.chunks \cup {i}
             st == IF s.status = "initiated" THEN "uploading" ELSE s.status
  <2>1. c \in SUBSET Index /\ st \in Status
    BY <1>1, <1>5 DEF Status
  <2>2. Recorded(s, i) = [s EXCEPT !.chunks = c, !.status = st]
    BY DEF Recorded
  <2>3. st = "completed" => s.status = "completed"
    OBVIOUS
  <2> HIDE DEF c, st
  <2>4. /\ Recorded(s, i) \in Session /\ Recorded(s, i).chunks = c
        /\ Recorded(s, i).key = s.key /\ Recorded(s, i).status = st
    BY <2>1, <2>2 DEF Session
  <2> QED BY <2>3, <2>4 DEF c
<1> QED BY <1>1, <1>2, <1>3, <1>4, <1>5

LEMMA Typed ==
  ASSUME StructInv
  PROVE  /\ \A o \in Ops : snap[o] # NoSession => snap[o] \in Session
         /\ Open => session \in Session
         /\ Nothing \in [Index -> Keys] /\ NoKey \in Keys /\ Chunkers \subseteq Keys
         /\ NoStart \in [key : Keys, thumb : BOOLEAN]
         /\ 0 \in Index /\ 0 \in 0 .. MaxStrays
         /\ {"initiated", "uploading", "assembling", "completed", "failed", "aborted"} = Status
         /\ NoSession \notin Session
<1>1. 0 \in Index /\ 0 \in 0 .. MaxStrays
  BY UploadAssumption DEF Index
<1> QED BY <1>1, UploadAssumption DEF StructInv, TypeOK, Open, Nothing, NoStart, Keys, Status

\* The copies that requests take of the session.
LEMMA Taken ==
  ASSUME StructInv, Open
  PROVE  /\ session \in Session /\ session.key \in Keys /\ session.chunks \subseteq Index
         /\ session.thumb \in BOOLEAN
         /\ [session EXCEPT !.thumb = TRUE] \in Session \ {NoSession}
         /\ SameData([session EXCEPT !.thumb = TRUE], session)
         /\ [session EXCEPT !.thumb = TRUE].status = session.status
         /\ [session EXCEPT !.status = "assembling"] \in Session \ {NoSession}
         /\ SameData([session EXCEPT !.status = "assembling"], session)
         /\ [session EXCEPT !.status = "assembling"].status = "assembling"
         /\ [session EXCEPT !.status = "completed"] \in Session \ {NoSession}
         /\ SameData([session EXCEPT !.status = "completed"], session)
         /\ [session EXCEPT !.status = "completed"].status = "completed"
         /\ [session EXCEPT !.status = "failed"] \in Session \ {NoSession}
         /\ SameData([session EXCEPT !.status = "failed"], session)
         /\ [session EXCEPT !.status = "failed"].status = "failed"
         /\ [session EXCEPT !.status = "aborted"] \in Session \ {NoSession}
         /\ SameData([session EXCEPT !.status = "aborted"], session)
         /\ [session EXCEPT !.status = "aborted"].status = "aborted"
         /\ \A r \in Chunkers : /\ [session EXCEPT !.key = r] \in Session \ {NoSession}
                                /\ [session EXCEPT !.key = r].chunks = session.chunks
                                /\ [session EXCEPT !.key = r].key = r
                                /\ [session EXCEPT !.key = r].status = session.status
<1>1. session \in Session /\ NoSession \notin Session
  BY Typed
<1>2. session.thumb \in BOOLEAN
  BY <1>1 DEF Session
<1>3. {"assembling", "completed", "failed", "aborted"} \subseteq Status
  BY DEF Status
<1> QED BY <1>1, <1>2, <1>3, Copies

\* What a chunk adds to its copy.
LEMMA Added ==
  ASSUME StructInv, NEW r \in Chunkers, Holding(r)
  PROVE  LET u == Recorded(snap[r], idx[r]) IN
         /\ idx[r] \in Index /\ snap[r] \in Session
         /\ u \in Session /\ u # NoSession
         /\ u.chunks = snap[r].chunks \cup {idx[r]} /\ u.key = snap[r].key
         /\ u.status = "completed" => snap[r].status = "completed"
<1>0. r \in Ops  BY DEF Ops
<1>1. idx[r] \in Index /\ snap[r] \in Session /\ NoSession \notin Session
  BY <1>0, Typed DEF Holding, StructInv, TypeOK
<1>2. \A s \in Session, i \in Index :
        /\ Recorded(s, i) \in Session /\ Recorded(s, i).chunks = s.chunks \cup {i}
        /\ Recorded(s, i).key = s.key
        /\ (Recorded(s, i).status = "completed" => s.status = "completed")
  BY Copies
<1> QED BY <1>1, <1>2

\* A read of the session by o: the copy it holds then, and where it goes.
Took(o, at, to, none) ==
  /\ pc[o] = at
  /\ \/ \E v \in Session \ {NoSession} :
          /\ Open /\ SameData(v, session)
          /\ v.status = "completed" => at = "finish" \/ session.status = "completed"
          /\ snap' = [snap EXCEPT ![o] = v] /\ pc' = [pc EXCEPT ![o] = to]
     \/ snap' = [snap EXCEPT ![o] = NoSession] /\ pc' = [pc EXCEPT ![o] = none]

LEMMA TakesCopy ==
  ASSUME StructInv, NEW o, NEW at, NEW copy, NEW to, NEW none, Takes(o, at, copy, to, none),
         Open => /\ copy \in Session \ {NoSession} /\ SameData(copy, session)
                 /\ copy.status = "completed" => at = "finish" \/ session.status = "completed"
  PROVE  Took(o, at, to, none)
<1>1. CASE Open /\ snap' = [snap EXCEPT ![o] = copy] /\ pc' = [pc EXCEPT ![o] = to]
  BY <1>1 DEF Takes, Took
<1>2. CASE snap' = [snap EXCEPT ![o] = NoSession] /\ pc' = [pc EXCEPT ![o] = none]
  BY <1>2 DEF Takes, Took
<1> QED BY <1>1, <1>2 DEF Takes, Hold, Goto

LEMMA Takings ==
  ASSUME StructInv, NEW o \in Ops
  PROVE  /\ ThumbGet(o) => Took(o, "get", "set", "done")
         /\ AssembleRead(o) =>
              Took(o, "begin", IF Cardinality(session.chunks) = Total THEN "assemble"
                                                                     ELSE "fail", "fail")
         /\ FinishRead(o) => Took(o, "finish", "finished", "fail")
         /\ FailRead(o) => Took(o, "fail", "failed", "done")
         /\ AbortRead(o) => Took(o, "mark", "marked", "done")
<1>1. ThumbGet(o) => Took(o, "get", "set", "done")
  BY Taken, TakesCopy DEF ThumbGet
<1>2. AssembleRead(o) =>
        Took(o, "begin", IF Cardinality(session.chunks) = Total THEN "assemble"
                                                               ELSE "fail", "fail")
  BY Taken, TakesCopy DEF AssembleRead
<1>3. FinishRead(o) => Took(o, "finish", "finished", "fail")
  BY Taken, TakesCopy DEF FinishRead
<1>4. FailRead(o) => Took(o, "fail", "failed", "done")
  BY Taken, TakesCopy DEF FailRead
<1>5. AbortRead(o) => Took(o, "mark", "marked", "done")
  BY Taken, TakesCopy DEF AbortRead
<1> QED BY <1>1, <1>2, <1>3, <1>4, <1>5

-----------------------------------------------------------------------------
(* Types and stages, action by action *)

\* A step of one request leaves the others where they are.
LEMMA FaultTyped ==
  ASSUME StructInv, Fault \/ NoFault
  PROVE  faults' \in 0 .. MaxFaults
<1>1. faults \in 0 .. MaxFaults /\ MaxFaults \in Nat
  BY UploadAssumption DEF StructInv, TypeOK
<1>2. CASE Fault
  BY <1>1, <1>2 DEF Fault
<1>3. CASE NoFault
  BY <1>1, <1>3 DEF NoFault
<1> QED BY <1>2, <1>3

LEMMA TypeStep ==
  ASSUME TypeOK, NEW o \in Ops, NEW l \in Place, NEW v \in Session \cup {NoSession},
         pc' = [pc EXCEPT ![o] = l], snap' = [snap EXCEPT ![o] = v],
         l = "put" /\ o \in Chunkers => v # NoSession /\ v.key # NoKey,
         session' \in Session \cup {NoSession}, meta' \subseteq Index, blob' \in [Index -> Keys],
         thumb' \in BOOLEAN, expired' = expired, idx' \in [Chunkers -> Index],
         start' \in [Completers -> [key : Keys, thumb : BOOLEAN]],
         parts' \in [Completers -> [Index -> Keys]],
         cleanup' \in [Completers -> {"none", "due", "done", "failed"}],
         doc' \in [Completers -> DocStates], torn' \subseteq Completers,
         listed' \in [Aborters -> SUBSET Index], strays' \in 0 .. MaxStrays,
         faults' \in 0 .. MaxFaults
  PROVE  TypeOK'
<1>1. pc' \in [Ops -> Place]
  BY DEF TypeOK
<1>2. snap' \in [Ops -> Session \cup {NoSession}]
  BY DEF TypeOK
<1>3. \A q \in Chunkers : pc'[q] = "put" => snap'[q] # NoSession /\ snap'[q].key # NoKey
  BY DEF TypeOK, Ops
<1> QED BY <1>1, <1>2, <1>3 DEF TypeOK

LEMMA StageStep ==
  ASSUME StructInv, NEW o \in Ops, \A q \in Ops \ {o} : pc'[q] = pc[q] /\ snap'[q] = snap[q],
         o \in Chunkers => ChunkStage(o)', o \in Thumbs => ThumbStage(o)',
         o \in Completers => CompleteStage(o)', o \in Aborters => AbortStage(o)'
  PROVE  Stages'
<1>0. Stages  BY DEF StructInv
<1>1. \A q \in Chunkers : ChunkStage(q)'
  BY <1>0 DEF Stages, ChunkStage, Holding, Ops
<1>2. \A q \in Thumbs : ThumbStage(q)'
  BY <1>0 DEF Stages, ThumbStage, Holding, Ops
<1>3. \A q \in Completers : CompleteStage(q)'
  BY <1>0 DEF Stages, CompleteStage, Holding, Ops
<1>4. \A q \in Aborters : AbortStage(q)'
  BY <1>0 DEF Stages, AbortStage, Holding, Ops
<1> QED BY <1>1, <1>2, <1>3, <1>4 DEF Stages

LEMMA TookStruct ==
  ASSUME StructInv, NEW o \in Ops, NEW at, NEW to, NEW none, Took(o, at, to, none),
         \/ o \in Thumbs /\ to = "set" /\ none = "done"
         \/ /\ o \in Completers /\ to \in {"assemble", "fail", "finished", "failed"}
            /\ none \in {"fail", "done"}
         \/ o \in Aborters /\ to = "marked" /\ none = "done",
         start' \in [Completers -> [key : Keys, thumb : BOOLEAN]],
         parts' \in [Completers -> [Index -> Keys]],
         UNCHANGED <<session, meta, blob, thumb, expired, idx, cleanup, listed, doc, torn,
                     strays>>,
         faults' \in 0 .. MaxFaults
  PROVE  TypeOK' /\ Stages'
<1>0. TypeOK /\ Stages  BY DEF StructInv
<1>1. PICK v \in Session \cup {NoSession}, l \in Place :
        /\ snap' = [snap EXCEPT ![o] = v] /\ pc' = [pc EXCEPT ![o] = l]
        /\ (v # NoSession /\ l = to) \/ (v = NoSession /\ l = none)
  <2>1. to \in Place /\ none \in Place
    BY DEF Place
  <2>2. CASE \E v \in Session \ {NoSession} :
               snap' = [snap EXCEPT ![o] = v] /\ pc' = [pc EXCEPT ![o] = to]
    BY <2>1, <2>2
  <2>3. CASE snap' = [snap EXCEPT ![o] = NoSession] /\ pc' = [pc EXCEPT ![o] = none]
    BY <2>1, <2>3
  <2> QED BY <2>2, <2>3 DEF Took
<1>2. l # "put" /\ (o \notin Chunkers)
  BY <1>1, UploadAssumption
<1>3. TypeOK'
  BY <1>0, <1>1, <1>2, TypeStep DEF TypeOK
<1>4. pc'[o] = l /\ snap'[o] = v /\ \A q \in Ops \ {o} : pc'[q] = pc[q] /\ snap'[q] = snap[q]
  BY <1>0, <1>1 DEF TypeOK
<1>5. /\ o \in Thumbs => ThumbStage(o)'
      /\ o \in Completers => CompleteStage(o)'
      /\ o \in Aborters => AbortStage(o)'
  BY <1>1, <1>4, UploadAssumption DEF ThumbStage, CompleteStage, AbortStage, Holding
<1>6. Stages'
  BY <1>2, <1>4, <1>5, StageStep
<1> QED BY <1>3, <1>6

\* What the compensating deletes leave of a document.
LEMMA Undone ==
  /\ NoRows["none"] = "none" /\ NoRows["rows"] = "none"
  /\ NoRows["whole"] = "file" /\ NoRows["file"] = "file"
  /\ NoFile["none"] = "none" /\ NoFile["rows"] = "rows"
  /\ NoFile["whole"] = "rows" /\ NoFile["file"] = "none"
BY DEF NoRows, NoFile

\* A cleanup only takes away.
Shrinks == \A i \in Index : blob'[i] \in {blob[i], NoKey}

LEMMA Swept ==
  ASSUME StructInv, SweepFolder \/ SweepPartly
  PROVE  /\ blob' \in [Index -> Keys] /\ thumb' \in BOOLEAN
         /\ Shrinks /\ (thumb' => thumb)
         /\ SweepFolder => blob' = Nothing /\ ~thumb'
<1>1. blob \in [Index -> Keys] /\ thumb \in BOOLEAN /\ NoKey \in Keys
  BY Typed DEF StructInv, TypeOK
<1>2. CASE SweepFolder
  BY <1>1, <1>2 DEF SweepFolder, Nothing, Shrinks
<1>3. CASE SweepPartly
  <2>1. PICK left \in SUBSET Index : blob' = [i \in Index |-> IF i \in left THEN blob[i] ELSE NoKey]
    BY <1>3 DEF SweepPartly
  <2>2. thumb' \in {thumb, FALSE}
    BY <1>3 DEF SweepPartly
  <2>3. blob' \in [Index -> Keys] /\ Shrinks
    BY <1>1, <2>1 DEF Shrinks
  <2>4. CASE thumb' = thumb
    BY <1>1, <2>3, <2>4 DEF SweepFolder
  <2>5. CASE thumb' = FALSE
    BY <1>1, <2>3, <2>5 DEF SweepFolder
  <2> QED BY <2>2, <2>4, <2>5
<1> QED BY <1>2, <1>3

LEMMA ChunkStartStruct ==
  ASSUME StructInv, NEW r \in Ops, ChunkStart(r)
  PROVE  StructInv'
<1>0. TypeOK /\ Stages /\ Assemblies
  BY DEF StructInv
<1>f. faults' \in 0 .. MaxFaults
  BY FaultTyped DEF ChunkStart, NoFault
<1>1. TypeOK'
  BY <1>0, <1>f, Typed, Taken, UploadAssumption DEF ChunkStart, Sent, Hold, Goto, TypeOK, Place,
     DocStates, Open, Ops
<1>2. Stages'
  BY <1>0, Typed, Taken, UploadAssumption DEF ChunkStart, Sent, Hold, Goto, TypeOK, Open, Ops,
     Holding, Stages, ChunkStage, ThumbStage, CompleteStage, AbortStage
<1>3. Assemblies'
  BY <1>0, Typed, Taken, UploadAssumption DEF ChunkStart, Sent, Hold, Goto, TypeOK, Open, Ops,
     Assemblies, Stages, ChunkStage, ThumbStage, CompleteStage, AbortStage
<1> QED BY <1>1, <1>2, <1>3 DEF StructInv

LEMMA ChunkUndoStruct ==
  ASSUME StructInv, NEW r \in Ops, ChunkUndo(r)
  PROVE  StructInv'
<1>0. TypeOK /\ Stages /\ Assemblies
  BY DEF StructInv
<1>f. faults' \in 0 .. MaxFaults
  BY FaultTyped DEF ChunkUndo, NoFault
<1>s. PICK l \in {"done"} :
        /\ r \in Chunkers /\ pc[r] \notin {"done"}
        /\ pc' = [pc EXCEPT ![r] = l] /\ snap' = [snap EXCEPT ![r] = NoSession]
  BY <1>0 DEF ChunkUndo, Hold, Goto, Ends, Drops, TypeOK
<1>u. /\ session' \in Session \cup {NoSession} /\ meta' \subseteq Index /\ blob' \in [Index -> Keys]
      /\ UNCHANGED <<thumb, expired, cleanup, doc, torn>> /\ strays' \in 0 .. MaxStrays
      /\ idx' \in [Chunkers -> Index] /\ parts' \in [Completers -> [Index -> Keys]]
      /\ start' \in [Completers -> [key : Keys, thumb : BOOLEAN]]
      /\ listed' \in [Aborters -> SUBSET Index]
  BY <1>0, Typed, Taken, UploadAssumption DEF ChunkUndo, Hold, Goto, Ends, Drops, TypeOK, Open
<1>v. l \in Place /\ l # "put" /\ NoSession \in Session \cup {NoSession}
  BY <1>0, <1>s DEF TypeOK, Place
<1>1. TypeOK'
  BY <1>0, <1>f, <1>s, <1>u, <1>v, TypeStep DEF TypeOK
<1>w. pc'[r] = l /\ snap'[r] = NoSession /\ \A q \in Ops \ {r} : pc'[q] = pc[q] /\ snap'[q] = snap[q]
  BY <1>0, <1>s DEF TypeOK
<1>x. ChunkStage(r)'
  BY <1>0, <1>s, <1>w DEF ChunkUndo, Hold, Goto, Ends, Drops, Holding, Stages, ChunkStage,
     ThumbStage, CompleteStage, AbortStage
<1>2. Stages'
  BY <1>s, <1>w, <1>x, StageStep, UploadAssumption
<1>3. Assemblies'
  BY <1>0, Typed, Taken, UploadAssumption DEF ChunkUndo, Hold, Goto, Ends, Drops, TypeOK, Open,
     Ops, Assemblies, Stages, ChunkStage, ThumbStage, CompleteStage, AbortStage
<1> QED BY <1>1, <1>2, <1>3 DEF StructInv

LEMMA ThumbStartStruct ==
  ASSUME StructInv, NEW t \in Ops, ThumbStart(t)
  PROVE  StructInv'
<1>0. TypeOK /\ Stages /\ Assemblies
  BY DEF StructInv
<1>f. faults' \in 0 .. MaxFaults
  BY FaultTyped DEF ThumbStart, NoFault
<1>1. TypeOK'
  BY <1>0, <1>f, Typed, Taken, UploadAssumption DEF ThumbStart, Sent, Goto, TypeOK, Place,
     DocStates, Open, Ops
<1>2. Stages'
  BY <1>0, Typed, Taken, UploadAssumption DEF ThumbStart, Sent, Goto, TypeOK, Open, Ops,
     Holding, Stages, ChunkStage, ThumbStage, CompleteStage, AbortStage
<1>3. Assemblies'
  BY <1>0, Typed, Taken, UploadAssumption DEF ThumbStart, Sent, Goto, TypeOK, Open, Ops,
     Assemblies, Stages, ChunkStage, ThumbStage, CompleteStage, AbortStage
<1> QED BY <1>1, <1>2, <1>3 DEF StructInv

LEMMA ThumbPutStruct ==
  ASSUME StructInv, NEW t \in Ops, ThumbPut(t)
  PROVE  StructInv'
<1>0. TypeOK /\ Stages /\ Assemblies
  BY DEF StructInv
<1>f. faults' \in 0 .. MaxFaults
  BY FaultTyped DEF ThumbPut, NoFault
<1>1. TypeOK'
  BY <1>0, <1>f, Typed, Taken, UploadAssumption DEF ThumbPut, Goto, TypeOK, Place, DocStates,
     Open, Ops
<1>2. Stages'
  BY <1>0, Typed, Taken, UploadAssumption DEF ThumbPut, Goto, TypeOK, Open, Ops, Holding,
     Stages, ChunkStage, ThumbStage, CompleteStage, AbortStage
<1>3. Assemblies'
  BY <1>0, Typed, Taken, UploadAssumption DEF ThumbPut, Goto, TypeOK, Open, Ops, Assemblies,
     Stages, ChunkStage, ThumbStage, CompleteStage, AbortStage
<1> QED BY <1>1, <1>2, <1>3 DEF StructInv

LEMMA ThumbGetStruct ==
  ASSUME StructInv, NEW t \in Ops, ThumbGet(t)
  PROVE  StructInv'
<1>0. TypeOK /\ Stages /\ Assemblies
  BY DEF StructInv
<1>f. faults' \in 0 .. MaxFaults
  BY FaultTyped DEF ThumbGet, Takes, NoFault
<1>1. Took(t, "get", "set", "done")
  BY Takings
<1>2. /\ t \in Thumbs
      /\ start' \in [Completers -> [key : Keys, thumb : BOOLEAN]]
      /\ parts' \in [Completers -> [Index -> Keys]]
      /\ UNCHANGED <<session, meta, blob, thumb, expired, idx, cleanup, listed, doc, torn, strays>>
  BY <1>0, Typed DEF ThumbGet, TypeOK
<1>3. TypeOK' /\ Stages'
  BY <1>1, <1>2, <1>f, TookStruct
<1>4. Assemblies'
  BY <1>0, <1>1, <1>2, UploadAssumption DEF ThumbGet, Took, TypeOK, Ops, Assemblies, Filed
<1> QED BY <1>3, <1>4 DEF StructInv

LEMMA ThumbSetStruct ==
  ASSUME StructInv, NEW t \in Ops, ThumbSet(t)
  PROVE  StructInv'
<1>0. TypeOK /\ Stages /\ Assemblies
  BY DEF StructInv
<1>f. faults' \in 0 .. MaxFaults
  BY FaultTyped DEF ThumbSet, Updates, Writes, NoFault
<1>1. TypeOK'
  BY <1>0, <1>f, Typed, Taken, UploadAssumption DEF ThumbSet, Updates, Writes, Hold, Goto,
     TypeOK, Place, DocStates, Open, Ops
<1>2. Stages'
  BY <1>0, Typed, Taken, UploadAssumption DEF ThumbSet, Updates, Writes, Hold, Goto, TypeOK,
     Open, Ops, Holding, Stages, ChunkStage, ThumbStage, CompleteStage, AbortStage
<1>3. Assemblies'
  BY <1>0, Typed, Taken, UploadAssumption DEF ThumbSet, Updates, Writes, Hold, Goto, TypeOK,
     Open, Ops, Assemblies, Stages, ChunkStage, ThumbStage, CompleteStage, AbortStage
<1> QED BY <1>1, <1>2, <1>3 DEF StructInv

LEMMA CompleteStartStruct ==
  ASSUME StructInv, NEW c \in Ops, CompleteStart(c)
  PROVE  StructInv'
<1>0. TypeOK /\ Stages /\ Assemblies
  BY DEF StructInv
<1>f. faults' \in 0 .. MaxFaults
  BY FaultTyped DEF CompleteStart, NoFault
<1>s. PICK l \in {"fail", "begin"} :
        /\ c \in Completers /\ pc[c] \notin {"done"}
        /\ pc' = [pc EXCEPT ![c] = l] /\ snap' = [snap EXCEPT ![c] = snap[c]]
  BY <1>0 DEF CompleteStart, Sent, Goto, TypeOK
<1>u. /\ session' \in Session \cup {NoSession} /\ meta' \subseteq Index /\ blob' \in [Index -> Keys]
      /\ UNCHANGED <<thumb, expired, cleanup, doc, torn>> /\ strays' \in 0 .. MaxStrays
      /\ idx' \in [Chunkers -> Index] /\ parts' \in [Completers -> [Index -> Keys]]
      /\ start' \in [Completers -> [key : Keys, thumb : BOOLEAN]]
      /\ listed' \in [Aborters -> SUBSET Index]
  BY <1>0, Typed, Taken, UploadAssumption DEF CompleteStart, Sent, Goto, TypeOK, Open
<1>v. l \in Place /\ l # "put" /\ snap[c] \in Session \cup {NoSession}
  BY <1>0, <1>s DEF TypeOK, Place
<1>1. TypeOK'
  BY <1>0, <1>f, <1>s, <1>u, <1>v, TypeStep DEF TypeOK
<1>w. pc'[c] = l /\ snap'[c] = snap[c] /\ \A q \in Ops \ {c} : pc'[q] = pc[q] /\ snap'[q] = snap[q]
  BY <1>0, <1>s DEF TypeOK
<1>x. CompleteStage(c)'
  BY <1>0, <1>s, <1>w DEF CompleteStart, Sent, Goto, Holding, Stages, ChunkStage, ThumbStage,
     CompleteStage, AbortStage
<1>2. Stages'
  BY <1>s, <1>w, <1>x, StageStep, UploadAssumption
<1>3. Assemblies'
  BY <1>0, Typed, Taken, UploadAssumption DEF CompleteStart, Sent, Goto, TypeOK, Open, Ops,
     Assemblies, Stages, ChunkStage, ThumbStage, CompleteStage, AbortStage
<1> QED BY <1>1, <1>2, <1>3 DEF StructInv

LEMMA AssembleReadStruct ==
  ASSUME StructInv, NEW c \in Ops, AssembleRead(c)
  PROVE  StructInv'
<1>0. TypeOK /\ Stages /\ Assemblies
  BY DEF StructInv
<1>f. faults' \in 0 .. MaxFaults
  BY FaultTyped DEF AssembleRead, Takes, NoFault
<1>1. Took(c, "begin", IF Cardinality(session.chunks) = Total THEN "assemble" ELSE "fail", "fail")
  BY Takings
<1>2. /\ c \in Completers
      /\ start' \in [Completers -> [key : Keys, thumb : BOOLEAN]]
      /\ parts' \in [Completers -> [Index -> Keys]]
      /\ UNCHANGED <<session, meta, blob, thumb, expired, idx, cleanup, listed, doc, torn, strays>>
  BY <1>0, Typed DEF AssembleRead, TypeOK
<1>3. TypeOK' /\ Stages'
  BY <1>1, <1>2, <1>f, TookStruct
<1>4. Assemblies'
  BY <1>0, <1>1, <1>2, UploadAssumption DEF AssembleRead, Took, TypeOK, Ops, Assemblies, Filed
<1> QED BY <1>3, <1>4 DEF StructInv

LEMMA AssembleWriteStruct ==
  ASSUME StructInv, NEW c \in Ops, AssembleWrite(c)
  PROVE  StructInv'
<1>0. TypeOK /\ Stages /\ Assemblies
  BY DEF StructInv
<1>f. faults' \in 0 .. MaxFaults
  BY FaultTyped DEF AssembleWrite, Updates, Writes, NoFault
<1>s. PICK l \in {"list", "fail"} :
        /\ c \in Completers /\ pc[c] \notin {"done"}
        /\ pc' = [pc EXCEPT ![c] = l] /\ snap' = [snap EXCEPT ![c] = NoSession]
  BY <1>0 DEF AssembleWrite, Updates, Writes, Hold, Goto, TypeOK
<1>u. /\ session' \in Session \cup {NoSession} /\ meta' \subseteq Index /\ blob' \in [Index -> Keys]
      /\ UNCHANGED <<thumb, expired, cleanup, doc, torn>> /\ strays' \in 0 .. MaxStrays
      /\ idx' \in [Chunkers -> Index] /\ parts' \in [Completers -> [Index -> Keys]]
      /\ start' \in [Completers -> [key : Keys, thumb : BOOLEAN]]
      /\ listed' \in [Aborters -> SUBSET Index]
  BY <1>0, Typed, Taken, UploadAssumption DEF AssembleWrite, Updates, Writes, Hold, Goto,
     TypeOK, Open
<1>v. l \in Place /\ l # "put" /\ NoSession \in Session \cup {NoSession}
  BY <1>0, <1>s DEF TypeOK, Place
<1>1. TypeOK'
  BY <1>0, <1>f, <1>s, <1>u, <1>v, TypeStep DEF TypeOK
<1>w. pc'[c] = l /\ snap'[c] = NoSession /\ \A q \in Ops \ {c} : pc'[q] = pc[q] /\ snap'[q] = snap[q]
  BY <1>0, <1>s DEF TypeOK
<1>x. CompleteStage(c)'
  BY <1>0, <1>s, <1>w DEF AssembleWrite, Updates, Writes, Hold, Goto, Holding, Stages,
     ChunkStage, ThumbStage, CompleteStage, AbortStage
<1>2. Stages'
  BY <1>s, <1>w, <1>x, StageStep, UploadAssumption
<1>3. Assemblies'
  BY <1>0, Typed, Taken, UploadAssumption DEF AssembleWrite, Updates, Writes, Hold, Goto,
     TypeOK, Open, Ops, Assemblies, Stages, ChunkStage, ThumbStage, CompleteStage, AbortStage
<1> QED BY <1>1, <1>2, <1>3 DEF StructInv

LEMMA ListStruct ==
  ASSUME StructInv, NEW c \in Ops, List(c)
  PROVE  StructInv'
<1>0. TypeOK /\ Stages /\ Assemblies
  BY DEF StructInv
<1>f. faults' \in 0 .. MaxFaults
  BY FaultTyped DEF List, NoFault
<1>s. PICK l \in {"read", "fail"} :
        /\ c \in Completers /\ pc[c] \notin {"done"}
        /\ pc' = [pc EXCEPT ![c] = l] /\ snap' = [snap EXCEPT ![c] = snap[c]]
  BY <1>0 DEF List, Goto, TypeOK
<1>u. /\ session' \in Session \cup {NoSession} /\ meta' \subseteq Index /\ blob' \in [Index -> Keys]
      /\ UNCHANGED <<thumb, expired, cleanup, doc, torn>> /\ strays' \in 0 .. MaxStrays
      /\ idx' \in [Chunkers -> Index] /\ parts' \in [Completers -> [Index -> Keys]]
      /\ start' \in [Completers -> [key : Keys, thumb : BOOLEAN]]
      /\ listed' \in [Aborters -> SUBSET Index]
  BY <1>0, Typed, Taken, UploadAssumption DEF List, Goto, TypeOK, Open
<1>v. l \in Place /\ l # "put" /\ snap[c] \in Session \cup {NoSession}
  BY <1>0, <1>s DEF TypeOK, Place
<1>1. TypeOK'
  BY <1>0, <1>f, <1>s, <1>u, <1>v, TypeStep DEF TypeOK
<1>w. pc'[c] = l /\ snap'[c] = snap[c] /\ \A q \in Ops \ {c} : pc'[q] = pc[q] /\ snap'[q] = snap[q]
  BY <1>0, <1>s DEF TypeOK
<1>x. CompleteStage(c)'
  BY <1>0, <1>s, <1>w DEF List, Goto, Holding, Stages, ChunkStage, ThumbStage, CompleteStage,
     AbortStage
<1>2. Stages'
  BY <1>s, <1>w, <1>x, StageStep, UploadAssumption
<1>3. Assemblies'
  BY <1>0, Typed, Taken, UploadAssumption DEF List, Goto, TypeOK, Open, Ops, Assemblies, Stages,
     ChunkStage, ThumbStage, CompleteStage, AbortStage
<1> QED BY <1>1, <1>2, <1>3 DEF StructInv

LEMMA DownloadStruct ==
  ASSUME StructInv, NEW c \in Ops, Download(c)
  PROVE  StructInv'
<1>0. TypeOK /\ Stages /\ Assemblies
  BY DEF StructInv
<1>f. faults' \in 0 .. MaxFaults
  BY FaultTyped DEF Download, NoFault
<1>1. TypeOK'
  BY <1>0, <1>f, Typed, Taken, UploadAssumption DEF Download, TypeOK, Place, DocStates, Open,
     Ops
<1>2. Stages'
  BY <1>0, Typed, Taken, UploadAssumption DEF Download, TypeOK, Open, Ops, Holding, Stages,
     ChunkStage, ThumbStage, CompleteStage, AbortStage
<1>3. Assemblies'
  BY <1>0, Typed, Taken, UploadAssumption DEF Download, TypeOK, Open, Ops, Assemblies, Stages,
     ChunkStage, ThumbStage, CompleteStage, AbortStage
<1> QED BY <1>1, <1>2, <1>3 DEF StructInv

LEMMA AssemblyFailsStruct ==
  ASSUME StructInv, NEW c \in Ops, AssemblyFails(c)
  PROVE  StructInv'
<1>0. TypeOK /\ Stages /\ Assemblies
  BY DEF StructInv
<1>f. faults' \in 0 .. MaxFaults
  BY FaultTyped DEF AssemblyFails, NoFault
<1>1. TypeOK'
  BY <1>0, <1>f, Typed, Taken, UploadAssumption DEF AssemblyFails, Goto, TypeOK, Place,
     DocStates, Open, Ops
<1>2. Stages'
  BY <1>0, Typed, Taken, UploadAssumption DEF AssemblyFails, Goto, TypeOK, Open, Ops, Holding,
     Stages, ChunkStage, ThumbStage, CompleteStage, AbortStage
<1>3. Assemblies'
  BY <1>0, Typed, Taken, UploadAssumption DEF AssemblyFails, Goto, TypeOK, Open, Ops,
     Assemblies, Stages, ChunkStage, ThumbStage, CompleteStage, AbortStage
<1> QED BY <1>1, <1>2, <1>3 DEF StructInv

LEMMA InsertRowsStruct ==
  ASSUME StructInv, NEW c \in Ops, InsertRows(c)
  PROVE  StructInv'
<1>0. TypeOK /\ Stages /\ Assemblies
  BY DEF StructInv
<1>f. faults' \in 0 .. MaxFaults
  BY FaultTyped DEF InsertRows, NoFault
<1>1. TypeOK'
  BY <1>0, <1>f, Typed, Taken, UploadAssumption DEF InsertRows, Goto, TypeOK, Place, DocStates,
     Open, Ops
<1>2. Stages'
  BY <1>0, Typed, Taken, UploadAssumption DEF InsertRows, Goto, TypeOK, Open, Ops, Holding,
     Stages, ChunkStage, ThumbStage, CompleteStage, AbortStage
<1>3. Assemblies'
  BY <1>0, Typed, Taken, UploadAssumption DEF InsertRows, Goto, TypeOK, Open, Ops, Assemblies,
     Stages, ChunkStage, ThumbStage, CompleteStage, AbortStage
<1> QED BY <1>1, <1>2, <1>3 DEF StructInv

LEMMA StoreFileStruct ==
  ASSUME StructInv, NEW c \in Ops, StoreFile(c)
  PROVE  StructInv'
<1>0. TypeOK /\ Stages /\ Assemblies
  BY DEF StructInv
<1>f. faults' \in 0 .. MaxFaults
  BY FaultTyped DEF StoreFile, NoFault
<1>1. TypeOK'
  BY <1>0, <1>f, Typed, Taken, UploadAssumption DEF StoreFile, Goto, TypeOK, Place, DocStates,
     Open, Ops
<1>2. Stages'
  BY <1>0, Typed, Taken, UploadAssumption DEF StoreFile, Goto, TypeOK, Open, Ops, Holding,
     Stages, ChunkStage, ThumbStage, CompleteStage, AbortStage
<1>3. Assemblies'
  BY <1>0, Typed, Taken, UploadAssumption DEF StoreFile, Goto, TypeOK, Open, Ops, Assemblies,
     Stages, ChunkStage, ThumbStage, CompleteStage, AbortStage
<1> QED BY <1>1, <1>2, <1>3 DEF StructInv

LEMMA StoreFailsStruct ==
  ASSUME StructInv, NEW c \in Ops, StoreFails(c)
  PROVE  StructInv'
<1>0. TypeOK /\ Stages /\ Assemblies
  BY DEF StructInv
<1>f. faults' \in 0 .. MaxFaults
  BY FaultTyped DEF StoreFails, NoFault
<1>1. TypeOK'
  BY <1>0, <1>f, Typed, Taken, UploadAssumption DEF StoreFails, Goto, TypeOK, Place, DocStates,
     Open, Ops
<1>2. Stages'
  BY <1>0, Typed, Taken, UploadAssumption DEF StoreFails, Goto, TypeOK, Open, Ops, Holding,
     Stages, ChunkStage, ThumbStage, CompleteStage, AbortStage
<1>3. Assemblies'
  BY <1>0, Typed, Taken, UploadAssumption DEF StoreFails, Goto, TypeOK, Open, Ops, Assemblies,
     Stages, ChunkStage, ThumbStage, CompleteStage, AbortStage
<1> QED BY <1>1, <1>2, <1>3 DEF StructInv

LEMMA ApplyThumbStruct ==
  ASSUME StructInv, NEW c \in Ops, ApplyThumb(c)
  PROVE  StructInv'
<1>0. TypeOK /\ Stages /\ Assemblies
  BY DEF StructInv
<1>f. faults' \in 0 .. MaxFaults
  BY FaultTyped DEF ApplyThumb, NoFault
<1>1. TypeOK'
  BY <1>0, <1>f, Typed, Taken, UploadAssumption DEF ApplyThumb, Goto, TypeOK, Place, DocStates,
     Open, Ops
<1>2. Stages'
  BY <1>0, Typed, Taken, UploadAssumption DEF ApplyThumb, Goto, TypeOK, Open, Ops, Holding,
     Stages, ChunkStage, ThumbStage, CompleteStage, AbortStage
<1>3. Assemblies'
  BY <1>0, Typed, Taken, UploadAssumption DEF ApplyThumb, Goto, TypeOK, Open, Ops, Assemblies,
     Stages, ChunkStage, ThumbStage, CompleteStage, AbortStage
<1> QED BY <1>1, <1>2, <1>3 DEF StructInv

LEMMA FinishReadStruct ==
  ASSUME StructInv, NEW c \in Ops, FinishRead(c)
  PROVE  StructInv'
<1>0. TypeOK /\ Stages /\ Assemblies
  BY DEF StructInv
<1>f. faults' \in 0 .. MaxFaults
  BY FaultTyped DEF FinishRead, Takes, NoFault
<1>1. Took(c, "finish", "finished", "fail")
  BY Takings
<1>2. /\ c \in Completers
      /\ start' \in [Completers -> [key : Keys, thumb : BOOLEAN]]
      /\ parts' \in [Completers -> [Index -> Keys]]
      /\ UNCHANGED <<session, meta, blob, thumb, expired, idx, cleanup, listed, doc, torn, strays>>
  BY <1>0, Typed DEF FinishRead, TypeOK
<1>3. TypeOK' /\ Stages'
  BY <1>1, <1>2, <1>f, TookStruct
<1>4. Assemblies'
  BY <1>0, <1>1, <1>2, UploadAssumption DEF FinishRead, Took, TypeOK, Ops, Assemblies, Filed
<1> QED BY <1>3, <1>4 DEF StructInv

LEMMA FinishWriteStruct ==
  ASSUME StructInv, NEW c \in Ops, FinishWrite(c)
  PROVE  StructInv'
<1>0. TypeOK /\ Stages /\ Assemblies
  BY DEF StructInv
<1>f. faults' \in 0 .. MaxFaults
  BY FaultTyped DEF FinishWrite, Updates, Writes, NoFault
<1>s. PICK l \in {"unmeta", "fail"} :
        /\ c \in Completers /\ pc[c] \notin {"done"}
        /\ pc' = [pc EXCEPT ![c] = l] /\ snap' = [snap EXCEPT ![c] = NoSession]
  BY <1>0 DEF FinishWrite, Updates, Writes, Hold, Goto, TypeOK
<1>u. /\ session' \in Session \cup {NoSession} /\ meta' \subseteq Index /\ blob' \in [Index -> Keys]
      /\ UNCHANGED <<thumb, expired, cleanup, doc, torn>> /\ strays' \in 0 .. MaxStrays
      /\ idx' \in [Chunkers -> Index] /\ parts' \in [Completers -> [Index -> Keys]]
      /\ start' \in [Completers -> [key : Keys, thumb : BOOLEAN]]
      /\ listed' \in [Aborters -> SUBSET Index]
  BY <1>0, Typed, Taken, UploadAssumption DEF FinishWrite, Updates, Writes, Hold, Goto, TypeOK,
     Open
<1>v. l \in Place /\ l # "put" /\ NoSession \in Session \cup {NoSession}
  BY <1>0, <1>s DEF TypeOK, Place
<1>1. TypeOK'
  BY <1>0, <1>f, <1>s, <1>u, <1>v, TypeStep DEF TypeOK
<1>w. pc'[c] = l /\ snap'[c] = NoSession /\ \A q \in Ops \ {c} : pc'[q] = pc[q] /\ snap'[q] = snap[q]
  BY <1>0, <1>s DEF TypeOK
<1>x. CompleteStage(c)'
  BY <1>0, <1>s, <1>w DEF FinishWrite, Updates, Writes, Hold, Goto, Holding, Stages, ChunkStage,
     ThumbStage, CompleteStage, AbortStage
<1>2. Stages'
  BY <1>s, <1>w, <1>x, StageStep, UploadAssumption
<1>3. Assemblies'
  BY <1>0, Typed, Taken, UploadAssumption DEF FinishWrite, Updates, Writes, Hold, Goto, TypeOK,
     Open, Ops, Assemblies, Stages, ChunkStage, ThumbStage, CompleteStage, AbortStage
<1> QED BY <1>1, <1>2, <1>3 DEF StructInv

LEMMA FailReadStruct ==
  ASSUME StructInv, NEW c \in Ops, FailRead(c)
  PROVE  StructInv'
<1>0. TypeOK /\ Stages /\ Assemblies
  BY DEF StructInv
<1>f. faults' \in 0 .. MaxFaults
  BY FaultTyped DEF FailRead, Takes, NoFault
<1>1. Took(c, "fail", "failed", "done")
  BY Takings
<1>2. /\ c \in Completers
      /\ start' \in [Completers -> [key : Keys, thumb : BOOLEAN]]
      /\ parts' \in [Completers -> [Index -> Keys]]
      /\ UNCHANGED <<session, meta, blob, thumb, expired, idx, cleanup, listed, doc, torn, strays>>
  BY <1>0, Typed DEF FailRead, TypeOK, Forgets
<1>3. TypeOK' /\ Stages'
  BY <1>1, <1>2, <1>f, TookStruct
<1>4. Assemblies'
  BY <1>0, <1>1, <1>2, UploadAssumption DEF FailRead, Took, Forgets, TypeOK, Ops, Assemblies,
     Filed
<1> QED BY <1>3, <1>4 DEF StructInv

LEMMA FailWriteStruct ==
  ASSUME StructInv, NEW c \in Ops, FailWrite(c)
  PROVE  StructInv'
<1>0. TypeOK /\ Stages /\ Assemblies
  BY DEF StructInv
<1>f. faults' \in 0 .. MaxFaults
  BY FaultTyped DEF FailWrite, Updates, Writes, NoFault
<1>1. TypeOK'
  BY <1>0, <1>f, Typed, Taken, UploadAssumption DEF FailWrite, Updates, Writes, Hold, Goto,
     TypeOK, Place, DocStates, Open, Ops
<1>2. Stages'
  BY <1>0, Typed, Taken, UploadAssumption DEF FailWrite, Updates, Writes, Hold, Goto, TypeOK,
     Open, Ops, Holding, Stages, ChunkStage, ThumbStage, CompleteStage, AbortStage
<1>3. Assemblies'
  BY <1>0, Typed, Taken, UploadAssumption DEF FailWrite, Updates, Writes, Hold, Goto, TypeOK,
     Open, Ops, Assemblies, Stages, ChunkStage, ThumbStage, CompleteStage, AbortStage
<1> QED BY <1>1, <1>2, <1>3 DEF StructInv

LEMMA DeleteMetaStruct ==
  ASSUME StructInv, NEW o \in Ops, DeleteMeta(o)
  PROVE  StructInv'
<1>0. TypeOK /\ Stages /\ Assemblies
  BY DEF StructInv
<1>f. faults' \in 0 .. MaxFaults
  BY FaultTyped DEF DeleteMeta, NoFault
<1>1. TypeOK'
  BY <1>0, <1>f, Typed, Taken, UploadAssumption DEF DeleteMeta, Goto, TypeOK, Place, DocStates,
     Open, Ops
<1>2. Stages'
  BY <1>0, Typed, Taken, UploadAssumption DEF DeleteMeta, Goto, TypeOK, Open, Ops, Holding,
     Stages, ChunkStage, ThumbStage, CompleteStage, AbortStage
<1>3. Assemblies'
  BY <1>0, Typed, Taken, UploadAssumption DEF DeleteMeta, Goto, TypeOK, Open, Ops, Assemblies,
     Stages, ChunkStage, ThumbStage, CompleteStage, AbortStage
<1> QED BY <1>1, <1>2, <1>3 DEF StructInv

LEMMA DeleteSessionStruct ==
  ASSUME StructInv, NEW o \in Ops, DeleteSession(o)
  PROVE  StructInv'
<1>0. TypeOK /\ Stages /\ Assemblies
  BY DEF StructInv
<1>f. faults' \in 0 .. MaxFaults
  BY FaultTyped DEF DeleteSession, Writes, NoFault
<1>1. TypeOK'
  BY <1>0, <1>f, Typed, Taken, UploadAssumption DEF DeleteSession, Writes, Ends, Hold, Goto,
     TypeOK, Place, DocStates, Open, Ops
<1>2. Stages'
  BY <1>0, Typed, Taken, UploadAssumption DEF DeleteSession, Writes, Ends, Hold, Goto, TypeOK,
     Open, Ops, Holding, Stages, ChunkStage, ThumbStage, CompleteStage, AbortStage
<1>3. Assemblies'
  BY <1>0, Typed, Taken, UploadAssumption DEF DeleteSession, Writes, Ends, Hold, Goto, TypeOK,
     Open, Ops, Assemblies, Stages, ChunkStage, ThumbStage, CompleteStage, AbortStage
<1> QED BY <1>1, <1>2, <1>3 DEF StructInv

LEMMA AbortStartStruct ==
  ASSUME StructInv, NEW a \in Ops, AbortStart(a)
  PROVE  StructInv'
<1>0. TypeOK /\ Stages /\ Assemblies
  BY DEF StructInv
<1>f. faults' \in 0 .. MaxFaults
  BY FaultTyped DEF AbortStart, NoFault
<1>1. TypeOK'
  BY <1>0, <1>f, Typed, Taken, UploadAssumption DEF AbortStart, Goto, TypeOK, Place, DocStates,
     Open, Ops
<1>2. Stages'
  BY <1>0, Typed, Taken, UploadAssumption DEF AbortStart, Goto, TypeOK, Open, Ops, Holding,
     Stages, ChunkStage, ThumbStage, CompleteStage, AbortStage
<1>3. Assemblies'
  BY <1>0, Typed, Taken, UploadAssumption DEF AbortStart, Goto, TypeOK, Open, Ops, Assemblies,
     Stages, ChunkStage, ThumbStage, CompleteStage, AbortStage
<1> QED BY <1>1, <1>2, <1>3 DEF StructInv

LEMMA AbortListStruct ==
  ASSUME StructInv, NEW a \in Ops, AbortList(a)
  PROVE  StructInv'
<1>0. TypeOK /\ Stages /\ Assemblies
  BY DEF StructInv
<1>f. faults' \in 0 .. MaxFaults
  BY FaultTyped DEF AbortList, NoFault
<1>s. PICK l \in {"mark", "done"} :
        /\ a \in Aborters /\ pc[a] \notin {"done"}
        /\ pc' = [pc EXCEPT ![a] = l] /\ snap' = [snap EXCEPT ![a] = snap[a]]
  BY <1>0 DEF AbortList, Goto, Found, TypeOK
<1>r. Found \subseteq Index
  BY <1>0, Typed, Taken DEF Found
<1>t. listed' \in [Aborters -> SUBSET Index]
  BY <1>0, <1>r DEF AbortList, TypeOK
<1>u. /\ session' \in Session \cup {NoSession} /\ meta' \subseteq Index /\ blob' \in [Index -> Keys]
      /\ UNCHANGED <<thumb, expired, cleanup, doc, torn>> /\ strays' \in 0 .. MaxStrays
      /\ idx' \in [Chunkers -> Index] /\ parts' \in [Completers -> [Index -> Keys]]
      /\ start' \in [Completers -> [key : Keys, thumb : BOOLEAN]]
  BY <1>0 DEF AbortList, TypeOK
<1>v. l \in Place /\ l # "put" /\ snap[a] \in Session \cup {NoSession}
  BY <1>0, <1>s DEF TypeOK, Place
<1>1. TypeOK'
  BY <1>0, <1>f, <1>s, <1>t, <1>u, <1>v, TypeStep DEF TypeOK
<1>w. pc'[a] = l /\ snap'[a] = snap[a] /\ \A q \in Ops \ {a} : pc'[q] = pc[q] /\ snap'[q] = snap[q]
  BY <1>0, <1>s DEF TypeOK
<1>x. AbortStage(a)'
  BY <1>0, <1>s, <1>w DEF AbortList, Goto, Found, Holding, Stages, ChunkStage, ThumbStage,
     CompleteStage, AbortStage
<1>2. Stages'
  BY <1>s, <1>w, <1>x, StageStep, UploadAssumption
<1>3. Assemblies'
  BY <1>0, Typed, Taken, UploadAssumption DEF AbortList, Goto, Found, TypeOK, Open, Ops,
     Assemblies, Stages, ChunkStage, ThumbStage, CompleteStage, AbortStage
<1> QED BY <1>1, <1>2, <1>3 DEF StructInv

LEMMA AbortReadStruct ==
  ASSUME StructInv, NEW a \in Ops, AbortRead(a)
  PROVE  StructInv'
<1>0. TypeOK /\ Stages /\ Assemblies
  BY DEF StructInv
<1>f. faults' \in 0 .. MaxFaults
  BY FaultTyped DEF AbortRead, Takes, NoFault
<1>1. Took(a, "mark", "marked", "done")
  BY Takings
<1>2. /\ a \in Aborters
      /\ start' \in [Completers -> [key : Keys, thumb : BOOLEAN]]
      /\ parts' \in [Completers -> [Index -> Keys]]
      /\ UNCHANGED <<session, meta, blob, thumb, expired, idx, cleanup, listed, doc, torn, strays>>
  BY <1>0, Typed DEF AbortRead, TypeOK
<1>3. TypeOK' /\ Stages'
  BY <1>1, <1>2, <1>f, TookStruct
<1>4. Assemblies'
  BY <1>0, <1>1, <1>2, UploadAssumption DEF AbortRead, Took, TypeOK, Ops, Assemblies, Filed
<1> QED BY <1>3, <1>4 DEF StructInv

LEMMA AbortWriteStruct ==
  ASSUME StructInv, NEW a \in Ops, AbortWrite(a)
  PROVE  StructInv'
<1>0. TypeOK /\ Stages /\ Assemblies
  BY DEF StructInv
<1>f. faults' \in 0 .. MaxFaults
  BY FaultTyped DEF AbortWrite, Updates, Writes, NoFault
<1>s. PICK l \in {"unmeta", "sweep", "done"} :
        /\ a \in Aborters /\ pc[a] \notin {"done"}
        /\ pc' = [pc EXCEPT ![a] = l] /\ snap' = [snap EXCEPT ![a] = NoSession]
  BY <1>0 DEF AbortWrite, Updates, Writes, Hold, Goto, TypeOK
<1>u. /\ session' \in Session \cup {NoSession} /\ meta' \subseteq Index /\ blob' \in [Index -> Keys]
      /\ UNCHANGED <<thumb, expired, cleanup, doc, torn>> /\ strays' \in 0 .. MaxStrays
      /\ idx' \in [Chunkers -> Index] /\ parts' \in [Completers -> [Index -> Keys]]
      /\ start' \in [Completers -> [key : Keys, thumb : BOOLEAN]]
      /\ listed' \in [Aborters -> SUBSET Index]
  BY <1>0, Typed, Taken, UploadAssumption DEF AbortWrite, Updates, Writes, Hold, Goto, TypeOK,
     Open
<1>v. l \in Place /\ l # "put" /\ NoSession \in Session \cup {NoSession}
  BY <1>0, <1>s DEF TypeOK, Place
<1>1. TypeOK'
  BY <1>0, <1>f, <1>s, <1>u, <1>v, TypeStep DEF TypeOK
<1>w. pc'[a] = l /\ snap'[a] = NoSession /\ \A q \in Ops \ {a} : pc'[q] = pc[q] /\ snap'[q] = snap[q]
  BY <1>0, <1>s DEF TypeOK
<1>x. AbortStage(a)'
  BY <1>0, <1>s, <1>w DEF AbortWrite, Updates, Writes, Hold, Goto, Holding, Stages, ChunkStage,
     ThumbStage, CompleteStage, AbortStage
<1>2. Stages'
  BY <1>s, <1>w, <1>x, StageStep, UploadAssumption
<1>3. Assemblies'
  BY <1>0, Typed, Taken, UploadAssumption DEF AbortWrite, Updates, Writes, Hold, Goto, TypeOK,
     Open, Ops, Assemblies, Stages, ChunkStage, ThumbStage, CompleteStage, AbortStage
<1> QED BY <1>1, <1>2, <1>3 DEF StructInv

LEMMA JobStartStruct ==
  ASSUME StructInv, NEW a \in Ops, JobStart(a)
  PROVE  StructInv'
<1>0. TypeOK /\ Stages /\ Assemblies
  BY DEF StructInv
<1>f. faults' \in 0 .. MaxFaults
  BY FaultTyped DEF JobStart, NoFault
<1>1. TypeOK'
  BY <1>0, <1>f, Typed, Taken, UploadAssumption DEF JobStart, Goto, TypeOK, Place, DocStates,
     Open, Ops
<1>2. Stages'
  BY <1>0, Typed, Taken, UploadAssumption DEF JobStart, Goto, TypeOK, Open, Ops, Holding,
     Stages, ChunkStage, ThumbStage, CompleteStage, AbortStage
<1>3. Assemblies'
  BY <1>0, Typed, Taken, UploadAssumption DEF JobStart, Goto, TypeOK, Open, Ops, Assemblies,
     Stages, ChunkStage, ThumbStage, CompleteStage, AbortStage
<1> QED BY <1>1, <1>2, <1>3 DEF StructInv

LEMMA ChunkPutStruct ==
  ASSUME StructInv, NEW r \in Ops, ChunkPut(r)
  PROVE  StructInv'
<1> DEFINE u == Recorded(snap[r], idx[r])
<1>0. TypeOK /\ Stages /\ Assemblies
  BY DEF StructInv
<1>1. r \in Chunkers /\ pc[r] = "put" /\ Holding(r)
  BY <1>0 DEF ChunkPut, Stages, ChunkStage
<1>2. /\ u \in Session /\ u # NoSession
      /\ snap[r] \in Session /\ snap[r].key \in Keys /\ idx[r] \in Index
  BY <1>1, Added, Copies
<1>3. /\ blob' \in [Index -> Keys]
      /\ \/ pc' = [pc EXCEPT ![r] = "undo"] /\ snap' = [snap EXCEPT ![r] = NoSession] /\ idx' = idx
         \/ /\ pc' = [pc EXCEPT ![r] = "done"] /\ snap' = [snap EXCEPT ![r] = NoSession]
            /\ idx' = [k \in Chunkers |-> IF k = r THEN 0 ELSE idx[k]]
         \/ pc' = [pc EXCEPT ![r] = "record"] /\ snap' = [snap EXCEPT ![r] = u] /\ idx' = idx
  BY <1>0, <1>2 DEF ChunkPut, Hold, Goto, Ends, Drops, TypeOK
<1> HIDE DEF u
<1>4. UNCHANGED <<session, meta, thumb, expired, start, parts, cleanup, listed, doc, torn, strays,
                  faults>>
  BY DEF ChunkPut
<1>5. PICK l \in {"undo", "done", "record"}, v \in Session \cup {NoSession} :
        /\ pc' = [pc EXCEPT ![r] = l] /\ snap' = [snap EXCEPT ![r] = v]
        /\ (v # NoSession <=> l = "record")
  BY <1>2, <1>3
<1>6. idx' \in [Chunkers -> Index] /\ l \in Place /\ l # "put"
  BY <1>0, <1>3, Typed DEF TypeOK, Place
<1>7. TypeOK'
  BY <1>0, <1>3, <1>4, <1>5, <1>6, TypeStep DEF TypeOK
<1>8. ChunkStage(r)' /\ \A q \in Ops \ {r} : pc'[q] = pc[q] /\ snap'[q] = snap[q]
  BY <1>0, <1>5 DEF TypeOK, ChunkStage, Holding
<1>9. Stages'
  BY <1>1, <1>8, StageStep, UploadAssumption
<1>10. Assemblies'
  BY <1>0, <1>1, <1>4, <1>5, UploadAssumption DEF TypeOK, Ops, Assemblies
<1> QED BY <1>7, <1>9, <1>10 DEF StructInv

LEMMA RecordSessionStruct ==
  ASSUME StructInv, NEW r \in Ops, RecordSession(r)
  PROVE  StructInv'
<1>0. TypeOK /\ Stages /\ Assemblies
  BY DEF StructInv
<1>f. faults' \in 0 .. MaxFaults
  BY FaultTyped DEF RecordSession, Writes
<1>1. r \in Chunkers /\ pc[r] \in {"record", "session"} /\ session' \in Session \cup {NoSession}
  BY <1>0 DEF RecordSession, Writes, TypeOK
<1>2. /\ snap' = [snap EXCEPT ![r] = NoSession]
      /\ \/ pc' = [pc EXCEPT ![r] = "meta"] /\ idx' = idx
         \/ /\ pc' = [pc EXCEPT ![r] = "done"]
            /\ idx' = [k \in Chunkers |-> IF k = r THEN 0 ELSE idx[k]]
  BY DEF RecordSession, Hold, Goto, Ends, Drops
<1>3. UNCHANGED <<meta, blob, thumb, expired, start, parts, cleanup, listed, doc, torn, strays>>
  BY DEF RecordSession
<1>a. PICK l \in {"meta", "session", "done"}, v \in Session \cup {NoSession} :
        /\ pc' = [pc EXCEPT ![r] = l] /\ snap' = [snap EXCEPT ![r] = v]
  BY <1>0, <1>2 DEF TypeOK
<1>b. idx' \in [Chunkers -> Index] /\ l \in Place /\ l # "put"
  BY <1>0, <1>2, Typed DEF TypeOK, Place
<1>4. TypeOK'
  BY <1>0, <1>f, <1>1, <1>3, <1>a, <1>b, TypeStep DEF TypeOK
<1>w. ChunkStage(r)' /\ \A q \in Ops \ {r} : pc'[q] = pc[q] /\ snap'[q] = snap[q]
  BY <1>0, <1>1, <1>2 DEF TypeOK, Holding, Stages, ChunkStage
<1>5. Stages'
  BY <1>1, <1>w, StageStep, UploadAssumption
<1>6. Assemblies'
  BY <1>0, <1>1, <1>2, <1>3, UploadAssumption DEF TypeOK, Ops, Assemblies
<1> QED BY <1>4, <1>5, <1>6 DEF StructInv

LEMMA RecordMetaStruct ==
  ASSUME StructInv, NEW r \in Ops, RecordMeta(r)
  PROVE  StructInv'
<1>0. TypeOK /\ Stages /\ Assemblies
  BY DEF StructInv
<1>f. faults' \in 0 .. MaxFaults
  BY FaultTyped DEF RecordMeta
<1>1. r \in Chunkers /\ pc[r] \in {"record", "meta"} /\ meta' \subseteq Index
  BY <1>0 DEF RecordMeta, TypeOK
<1>2. \/ pc[r] = "record" /\ pc' = [pc EXCEPT ![r] = "session"] /\ snap' = snap /\ idx' = idx
      \/ /\ pc' = [pc EXCEPT ![r] = "done"] /\ snap' = [snap EXCEPT ![r] = NoSession]
         /\ idx' = [k \in Chunkers |-> IF k = r THEN 0 ELSE idx[k]]
  BY DEF RecordMeta, Hold, Goto, Ends, Drops
<1>3. UNCHANGED <<session, blob, thumb, expired, start, parts, cleanup, listed, doc, torn, strays>>
  BY DEF RecordMeta
<1>a. PICK l \in {"meta", "session", "done"}, v \in Session \cup {NoSession} :
        /\ pc' = [pc EXCEPT ![r] = l] /\ snap' = [snap EXCEPT ![r] = v]
  BY <1>0, <1>2 DEF TypeOK
<1>b. idx' \in [Chunkers -> Index] /\ l \in Place /\ l # "put"
  BY <1>0, <1>2, Typed DEF TypeOK, Place
<1>4. TypeOK'
  BY <1>0, <1>f, <1>1, <1>3, <1>a, <1>b, TypeStep DEF TypeOK
<1>w. ChunkStage(r)' /\ \A q \in Ops \ {r} : pc'[q] = pc[q] /\ snap'[q] = snap[q]
  BY <1>0, <1>1, <1>2 DEF TypeOK, Holding, Stages, ChunkStage
<1>5. Stages'
  BY <1>1, <1>w, StageStep, UploadAssumption
<1>6. Assemblies'
  BY <1>0, <1>1, <1>2, <1>3, UploadAssumption DEF TypeOK, Ops, Assemblies
<1> QED BY <1>4, <1>5, <1>6 DEF StructInv

\* A step of the compensating deletes: the document loses a half, or the
\* completion is torn.
LEMMA UndoShape ==
  ASSUME StructInv, NEW c \in Ops, UndoRows(c) \/ UndoFile(c)
  PROVE  /\ c \in Completers /\ snap' = snap /\ snap[c] = NoSession
         /\ \/ pc[c] = "unrow" /\ pc' = [pc EXCEPT ![c] = "unfile"]
            \/ pc[c] = "unfile" /\ pc' = [pc EXCEPT ![c] = "fail"]
         /\ \/ doc' = doc /\ torn' = torn \cup {c}
            \/ /\ torn' = torn
               /\ pc[c] = "unrow" => doc' = [doc EXCEPT ![c] = IF doc[c] = "rows" THEN "none" ELSE "file"]
               /\ pc[c] = "unfile" =>
                    doc' = [doc EXCEPT ![c] = IF doc[c] \in {"none", "file"} THEN "none" ELSE "rows"]
         /\ UNCHANGED <<session, meta, blob, thumb, expired, idx, start, parts, cleanup, listed,
                        strays>>
         /\ faults' \in 0 .. MaxFaults
<1>0. TypeOK /\ Stages /\ Assemblies
  BY DEF StructInv
<1>1. c \in Completers /\ pc[c] \in {"unrow", "unfile"}
  BY DEF UndoRows, UndoFile, Undo
<1>2. /\ doc[c] \in DocStates /\ (pc[c] = "unrow" => doc[c] \in {"rows", "whole"})
      /\ snap[c] = NoSession
  BY <1>0, <1>1 DEF TypeOK, Assemblies, Stages, CompleteStage, Holding
<1>3. faults' \in 0 .. MaxFaults
  BY FaultTyped DEF UndoRows, UndoFile, Undo
<1>4. CASE UndoRows(c)
  <2>1. NoRows[doc[c]] = IF doc[c] = "rows" THEN "none" ELSE "file"
    BY <1>2, <1>4, Undone DEF UndoRows, Undo
  <2> QED BY <1>1, <1>2, <1>3, <1>4, <2>1 DEF UndoRows, Undo, NoFault, Goto
<1>5. CASE UndoFile(c)
  <2>1. NoFile[doc[c]] = IF doc[c] \in {"none", "file"} THEN "none" ELSE "rows"
    BY <1>2, Undone DEF DocStates
  <2> QED BY <1>1, <1>2, <1>3, <1>5, <2>1 DEF UndoFile, Undo, NoFault, Goto
<1> QED BY <1>4, <1>5

LEMMA UndoStruct ==
  ASSUME StructInv, NEW c \in Ops, UndoRows(c) \/ UndoFile(c)
  PROVE  StructInv'
<1>0. TypeOK /\ Stages /\ Assemblies
  BY DEF StructInv
<1>a. PICK l \in {"unfile", "fail"} :
        pc' = [pc EXCEPT ![c] = l] /\ snap' = [snap EXCEPT ![c] = NoSession] /\ snap[c] = NoSession
  BY <1>0, UndoShape DEF TypeOK
<1>b. /\ doc' \in [Completers -> DocStates] /\ torn' \subseteq Completers /\ c \in Completers
      /\ faults' \in 0 .. MaxFaults
      /\ UNCHANGED <<session, meta, blob, thumb, expired, idx, start, parts, cleanup, listed, strays>>
  <2>1. /\ c \in Completers /\ faults' \in 0 .. MaxFaults
        /\ UNCHANGED <<session, meta, blob, thumb, expired, idx, start, parts, cleanup, listed,
                       strays>>
    BY UndoShape
  <2>2. \/ doc' = doc /\ torn' = torn \cup {c}
        \/ torn' = torn /\ \E s \in DocStates : doc' = [doc EXCEPT ![c] = s]
    BY UndoShape DEF DocStates
  <2>3. doc \in [Completers -> DocStates] /\ torn \subseteq Completers
    BY <1>0 DEF TypeOK
  <2>4. doc' \in [Completers -> DocStates] /\ torn' \subseteq Completers
    BY <2>1, <2>2, <2>3
  <2> QED BY <2>1, <2>4
<1>1. TypeOK'
  BY <1>0, <1>a, <1>b, TypeStep DEF TypeOK, Place
<1>c. CompleteStage(c)' /\ \A q \in Ops \ {c} : pc'[q] = pc[q] /\ snap'[q] = snap[q]
  BY <1>0, <1>a, <1>b DEF TypeOK, CompleteStage, Holding
<1>2. Stages'
  BY <1>b, <1>c, StageStep, UploadAssumption
<1>3. Assemblies'
  BY <1>0, UndoShape, UploadAssumption DEF TypeOK, Ops, Assemblies
<1> QED BY <1>1, <1>2, <1>3 DEF StructInv

\* A cleanup that runs, fails or is cut off.
LEMMA SweepStruct ==
  ASSUME StructInv, NEW c \in Ops, Sweep(c)
  PROVE  StructInv'
<1>0. TypeOK /\ Stages /\ Assemblies
  BY DEF StructInv
<1>1. /\ c \in Completers /\ cleanup[c] = "due"
      /\ \E s \in {"done", "failed"} : cleanup' = [cleanup EXCEPT ![c] = s]
      /\ blob' \in [Index -> Keys] /\ thumb' \in BOOLEAN
      /\ UNCHANGED <<session, meta, expired, pc, snap, idx, start, parts, listed, doc, torn, strays>>
  BY Swept DEF Sweep
<1>2. faults' \in 0 .. MaxFaults
  BY FaultTyped DEF Sweep
<1>3. TypeOK'
  BY <1>0, <1>1, <1>2 DEF TypeOK
<1>4. Stages'
  BY <1>0, <1>1 DEF Holding, Stages, ChunkStage, ThumbStage, CompleteStage, AbortStage
<1>5. Assemblies'
  BY <1>0, <1>1 DEF TypeOK, Assemblies
<1> QED BY <1>3, <1>4, <1>5 DEF StructInv

LEMMA AbortSweepStruct ==
  ASSUME StructInv, NEW a \in Ops, AbortSweep(a)
  PROVE  StructInv'
<1>0. TypeOK /\ Stages /\ Assemblies
  BY DEF StructInv
<1>1. /\ a \in Aborters /\ pc[a] = "sweep" /\ pc' = [pc EXCEPT ![a] = "unmeta"]
      /\ blob' \in [Index -> Keys] /\ thumb' \in BOOLEAN
      /\ UNCHANGED <<session, meta, expired, snap, idx, start, parts, cleanup, listed, doc, torn,
                     strays>>
  BY Swept DEF AbortSweep, Goto
<1>2. faults' \in 0 .. MaxFaults
  BY FaultTyped DEF AbortSweep
<1>3. TypeOK'
  BY <1>0, <1>1, <1>2, UploadAssumption DEF TypeOK, Place, Ops
<1>4. Stages'
  BY <1>0, <1>1, UploadAssumption DEF TypeOK, Ops, Holding, Stages, ChunkStage, ThumbStage,
     CompleteStage, AbortStage
<1>5. Assemblies'
  BY <1>0, <1>1, UploadAssumption DEF TypeOK, Ops, Assemblies
<1> QED BY <1>3, <1>4, <1>5 DEF StructInv

\* What a crash leaves.
LEMMA CrashShape ==
  ASSUME StructInv, NEW o \in Ops, Crash(o)
  PROVE  /\ pc' = [pc EXCEPT ![o] = "done"] /\ snap' = [snap EXCEPT ![o] = NoSession]
         /\ pc[o] # "idle" \/ (o \in Completers /\ cleanup[o] = "due")
         /\ idx' = [k \in Chunkers |-> IF k = o THEN 0 ELSE idx[k]]
         /\ start' = [d \in Completers |-> IF d = o /\ d \notin Filed THEN NoStart ELSE start[d]]
         /\ parts' = [d \in Completers |-> IF d = o /\ d \notin Filed THEN Nothing ELSE parts[d]]
         /\ cleanup' = [c \in Completers |-> IF c = o /\ cleanup[c] = "due" THEN "failed"
                                                                          ELSE cleanup[c]]
         /\ torn' = torn \cup ({o} \cap Completers)
         /\ blob' \in [Index -> Keys] /\ thumb' \in BOOLEAN /\ (thumb' => thumb)
         /\ blob' = blob \/ (Shrinks /\ Sweeping(o))
         /\ UNCHANGED <<session, meta, expired, listed, doc, strays>>
         /\ faults' \in 0 .. MaxFaults
<1>0. TypeOK  BY DEF StructInv
<1>1. faults' \in 0 .. MaxFaults
  BY FaultTyped DEF Crash
<1>2. /\ blob' \in [Index -> Keys] /\ thumb' \in BOOLEAN /\ (thumb' => thumb)
      /\ blob' = blob \/ (Shrinks /\ Sweeping(o))
  <2>1. CASE Sweeping(o)
    BY <2>1, Swept DEF Crash
  <2>2. CASE ~Sweeping(o)
    BY <1>0, <2>2 DEF Crash, TypeOK
  <2> QED BY <2>1, <2>2
<1>3. UNCHANGED <<session, meta, expired, listed, doc, strays>>
  BY DEF Crash
<1> QED BY <1>1, <1>2, <1>3 DEF Crash, InFlight, Ends, Drops, Forgets, Hold, Goto

LEMMA CrashStruct ==
  ASSUME StructInv, NEW o \in Ops, Crash(o)
  PROVE  StructInv'
<1>0. TypeOK /\ Stages /\ Assemblies
  BY DEF StructInv
<1>1. TypeOK'
  <2>1. idx' \in [Chunkers -> Index]
    BY <1>0, CrashShape, Typed DEF TypeOK
  <2>2. /\ start' \in [Completers -> [key : Keys, thumb : BOOLEAN]]
        /\ parts' \in [Completers -> [Index -> Keys]]
    <3>1. /\ start' = [d \in Completers |-> IF d = o /\ d \notin Filed THEN NoStart ELSE start[d]]
          /\ parts' = [d \in Completers |-> IF d = o /\ d \notin Filed THEN Nothing ELSE parts[d]]
      BY CrashShape
    <3>2. start' \in [Completers -> [key : Keys, thumb : BOOLEAN]]
      BY <1>0, <3>1, Typed DEF TypeOK
    <3>3. parts' \in [Completers -> [Index -> Keys]]
      BY <1>0, <3>1, Typed DEF TypeOK
    <3> QED BY <3>2, <3>3
  <2>3. cleanup' \in [Completers -> {"none", "due", "done", "failed"}]
    BY <1>0, CrashShape DEF TypeOK
  <2>4. torn' \subseteq Completers /\ "done" \in Place
    BY <1>0, CrashShape DEF TypeOK, Place
  <2>5. /\ UNCHANGED <<session, meta, expired, listed, doc, strays>>
        /\ blob' \in [Index -> Keys] /\ thumb' \in BOOLEAN /\ faults' \in 0 .. MaxFaults
        /\ pc' = [pc EXCEPT ![o] = "done"] /\ snap' = [snap EXCEPT ![o] = NoSession]
    BY CrashShape
  <2> QED BY <1>0, <2>1, <2>2, <2>3, <2>4, <2>5, TypeStep DEF TypeOK
<1>2. Stages'
  <2>1. /\ pc'[o] = "done" /\ snap'[o] = NoSession
        /\ \A q \in Ops \ {o} : pc'[q] = pc[q] /\ snap'[q] = snap[q]
    BY <1>0, CrashShape DEF TypeOK
  <2>2. ChunkStage(o)' /\ ThumbStage(o)' /\ CompleteStage(o)' /\ AbortStage(o)'
    BY <2>1 DEF Holding, ChunkStage, ThumbStage, CompleteStage, AbortStage
  <2> QED BY <2>1, <2>2, StageStep
<1>3. Assemblies'
  <2>1. ASSUME NEW c \in Completers, c # o
        PROVE  /\ pc'[c] = pc[c] /\ parts'[c] = parts[c] /\ doc'[c] = doc[c]
               /\ cleanup'[c] = cleanup[c] /\ (c \in torn' <=> c \in torn)
    BY <1>0, <2>1, CrashShape DEF TypeOK, Ops
  <2>2. ASSUME o \in Completers
        PROVE  /\ pc'[o] = "done" /\ doc' = doc /\ o \in torn'
               /\ cleanup'[o] # "none" => cleanup[o] # "none"
    BY <1>0, <2>2, CrashShape DEF TypeOK
  <2>3. \A c \in Completers : c # o =>
          /\ pc'[c] \in {"idle", "begin", "assemble", "list"} => parts'[c] = Nothing
          /\ pc'[c] \in {"idle", "begin", "assemble", "list", "read"} => doc'[c] = "none"
          /\ pc'[c] = "store" => doc'[c] = "rows"
          /\ pc'[c] \in {"apply", "finish", "finished", "unmeta", "unset"} => doc'[c] = "whole"
          /\ pc'[c] = "unrow" => doc'[c] \in {"rows", "whole"}
          /\ pc'[c] = "unfile" /\ c \notin torn' => doc'[c] \in {"none", "file"}
          /\ pc'[c] \in {"fail", "failed", "done"} /\ c \notin torn' => doc'[c] \in {"none", "whole"}
          /\ cleanup'[c] # "none" =>
               /\ doc'[c] = "whole"
               /\ pc'[c] \in {"finish", "finished", "unmeta", "unset", "fail", "failed", "done"}
    BY <1>0, <2>1 DEF Assemblies
  <2>4. o \in Completers /\ cleanup[o] # "none" => doc[o] = "whole"
    BY <1>0 DEF Assemblies
  <2> QED BY <2>2, <2>3, <2>4 DEF Assemblies
<1> QED BY <1>1, <1>2, <1>3 DEF StructInv

\* The session's time passes, or its entries go.
LEMMA GoneShape ==
  ASSUME StructInv, Expire \/ Forget \/ Evict
  PROVE  /\ session' = session \/ session' = NoSession
         /\ meta' \subseteq Index /\ expired' \in BOOLEAN /\ faults' \in 0 .. MaxFaults
         /\ UNCHANGED <<blob, thumb, pc, snap, idx, start, parts, cleanup, listed, doc, torn, strays>>
<1>0. TypeOK  BY DEF StructInv
<1>1. CASE Expire
  <2>1. NoFault
    BY <1>1 DEF Expire, NoFault
  <2> QED BY <1>0, <1>1, <2>1, FaultTyped DEF Expire, TypeOK
<1>2. CASE Forget
  <2>1. NoFault
    BY <1>2 DEF Forget, NoFault
  <2> QED BY <1>0, <1>2, <2>1, FaultTyped DEF Forget, TypeOK
<1>3. CASE Evict
  <2>1. faults' \in 0 .. MaxFaults
    BY <1>3, FaultTyped DEF Evict
  <2> QED BY <1>0, <1>3, <2>1 DEF Evict, TypeOK
<1> QED BY <1>1, <1>2, <1>3

LEMMA GoneStruct ==
  ASSUME StructInv, Expire \/ Forget \/ Evict
  PROVE  StructInv'
BY GoneShape DEF StructInv, TypeOK, Stages, ChunkStage, ThumbStage, CompleteStage, AbortStage,
   Assemblies, Holding

LEMMA StructInit ==
  ASSUME Init
  PROVE  StructInv
<1>1. /\ 0 \in Index /\ 0 \in 0 .. MaxStrays /\ 0 \in 0 .. MaxFaults /\ "idle" \in Place
      /\ Nothing \in [Index -> Keys] /\ NoStart \in [key : Keys, thumb : BOOLEAN]
  BY UploadAssumption DEF Index, Nothing, NoStart, Keys, Place
<1>2. session \in Session
  BY DEF Init, Session, Status, Keys
<1>3. TypeOK
  BY <1>1, <1>2, UploadAssumption DEF Init, TypeOK, Ops, DocStates
<1>4. Stages
  BY DEF Init, Stages, ChunkStage, ThumbStage, CompleteStage, AbortStage, Holding, Ops
<1>5. Assemblies
  BY DEF Init, Assemblies, Ops
<1> QED BY <1>3, <1>4, <1>5 DEF StructInv

-----------------------------------------------------------------------------
(* What the step of a request o does, as far as the properties can tell *)

\* It leaves the others' variables alone.
Others(o) ==
  /\ \A q \in Ops \ {o} : pc'[q] = pc[q] /\ snap'[q] = snap[q]
  /\ \A r \in Chunkers \ {o} : idx'[r] = idx[r]
  /\ \A c \in Completers \ {o} : /\ start'[c] = start[c] /\ parts'[c] = parts[c]
                                 /\ doc'[c] = doc[c] /\ cleanup'[c] = cleanup[c]

\* A request that has begun goes on; one that begins in turn finds it its turn.
Turn(o) ==
  /\ strays' = 0 => strays = 0
  /\ pc'[o] = "idle" => pc[o] = "idle"
  /\ pc[o] = "done" => pc'[o] = "done"
  /\ o \in Aborters /\ pc'[o] \in {"idle", "list", "mark"} => pc[o] \in {"idle", "list", "mark"}
  /\ pc[o] = "idle" /\ pc'[o] # "idle" /\ strays' = 0 =>
       /\ o \in Chunkers => ChunkInTurn(idx'[o])
       /\ o \in Thumbs => ThumbInTurn
       /\ o \in Completers => CompleteInTurn
  /\ o \in Chunkers /\ pc'[o] = "undo" =>
       Holding(o) /\ pc[o] = "put" /\ Cardinality(snap[o].chunks) >= Total
  /\ o \in Completers =>
       /\ cleanup[o] # "none" => cleanup'[o] # "none"
       /\ cleanup'[o] # "none" => cleanup[o] # "none" \/ pc[o] = "apply"

\* The session is what it was, or deleted, or the copy o held.
WritesOf(o) == \/ session' = session \/ session' = NoSession
               \/ Holding(o) /\ pc[o] # "put" /\ session' = snap[o] /\ snap'[o] = NoSession

\* The copy o holds: as before, or read from the session, or prepared for a
\* chunk, or with that chunk recorded in it.
Keeps(o) == Holding(o) /\ snap'[o] = snap[o] /\ pc[o] # "put" /\ pc'[o] # "put"

Reads(o) ==
  /\ o \notin Chunkers /\ pc'[o] # "put"
  /\ Open /\ SameData(snap'[o], session)
  /\ snap'[o].status = "completed" => session.status = "completed" \/ o \in Made

Starts(o) ==
  /\ o \in Chunkers /\ pc[o] = "idle" /\ pc'[o] = "put"
  /\ Open /\ snap'[o].chunks = session.chunks /\ snap'[o].status = session.status
  /\ idx'[o] # 0 => session.key # NoKey /\ snap'[o].key = session.key

Puts(o) ==
  /\ o \in Chunkers /\ pc[o] = "put" /\ pc'[o] = "record"
  /\ Holding(o) /\ snap[o].key # NoKey /\ idx[o] \in Index
  /\ snap'[o].chunks = snap[o].chunks \cup {idx[o]} /\ snap'[o].key = snap[o].key
  /\ snap'[o].status = "completed" => snap[o].status = "completed"
  /\ blob' = [blob EXCEPT ![idx[o]] = snap[o].key]

Copying(o) == snap'[o] # NoSession => Keeps(o) \/ Reads(o) \/ Starts(o) \/ Puts(o)

\* The storage changes by the chunk o puts or takes back, or by a cleanup,
\* which takes away; a cleanup that is done has taken everything.
Storing(o) ==
  /\ \/ blob' = blob
     \/ Shrinks /\ (~Unswept \/ \E a \in Aborters : pc[a] = "sweep")
     \/ /\ o \in Chunkers /\ pc[o] = "put" /\ Holding(o) /\ snap[o].key # NoKey
        /\ idx[o] \in Index /\ blob' = [blob EXCEPT ![idx[o]] = snap[o].key]
     \/ o \in Chunkers /\ pc[o] = "undo"
  /\ thumb' => thumb \/ (o \in Thumbs /\ pc[o] = "put")
  /\ \A c \in Completers : cleanup'[c] = "done" =>
       cleanup[c] = "done" \/ (blob' = Nothing /\ ~thumb')

\* An assembly: its key is the session's when it began, it reads only once all
\* chunks are found, and has all of them when the file is stored.
Assembling(o) == o \in Completers =>
  /\ pc[o] = "idle" /\ pc'[o] # "idle" =>
       Open /\ start'[o].key = session.key /\ (pc'[o] # "fail" => session.key # NoKey)
  /\ pc[o] # "idle" /\ (pc'[o] \notin {"failed", "done"} \/ o \in Filed) => start'[o] = start[o]
  /\ pc[o] = "failed" => pc'[o] \in {"failed", "done"}
  /\ pc'[o] \in {"begin", "assemble", "list", "read", "store"} =>
       pc[o] \in {"idle", "begin", "assemble", "list", "read", "store"}
  /\ pc'[o] \in {"read", "store"} =>
       \/ /\ pc[o] = "list" /\ Open /\ session.chunks = Index
          /\ blob' = blob /\ parts'[o] = Nothing
       \/ /\ pc[o] \in {"read", "store"}
          /\ \A i \in Index : parts'[o][i] \in {parts[o][i], blob[i]}
  /\ o \in Filed => parts'[o] = parts[o]
  /\ o \in Filed' \ Filed =>
       /\ pc[o] = "store" /\ parts'[o] = parts[o] /\ start'[o] = start[o]
       /\ \A i \in Index : parts[o][i] # NoKey
  /\ o \in Made => o \in Made'

Moves(o) == /\ Others(o) /\ Turn(o) /\ WritesOf(o) /\ Copying(o)
            /\ Storing(o) /\ Assembling(o)

LEMMA ChunkPutMoves ==
  ASSUME StructInv, NEW r \in Ops, ChunkPut(r)
  PROVE  Moves(r)
<1>0. TypeOK /\ Stages /\ Assemblies
  BY DEF StructInv
<1>1. Others(r)
  BY <1>0, UploadAssumption DEF ChunkPut, Hold, Goto, Ends, Drops, TypeOK, Ops, Others
<1>2. Turn(r)
  BY <1>0, UploadAssumption DEF ChunkPut, Hold, Goto, Ends, Drops, TypeOK, Ops, Turn, Holding,
     Stages, ChunkStage, ThumbStage, CompleteStage, AbortStage, Assemblies
<1>3. WritesOf(r)
  BY <1>0 DEF ChunkPut, Hold, Goto, Ends, Drops, TypeOK, Ops, WritesOf, Holding, Stages,
     ChunkStage, ThumbStage, CompleteStage, AbortStage
<1>4. Copying(r)
  BY <1>0, Typed, Taken, Added, UploadAssumption DEF ChunkPut, Hold, Goto, Ends, Drops, TypeOK,
     Ops, Open, Copying, Keeps, Reads, Starts, Puts, Made, Holding, Stages, ChunkStage,
     ThumbStage, CompleteStage, AbortStage, Assemblies
<1>5. Storing(r)
  BY <1>0, Typed, UploadAssumption DEF ChunkPut, Hold, Goto, Ends, Drops, TypeOK, Ops, Storing,
     Holding, Stages, ChunkStage, ThumbStage, CompleteStage, AbortStage, Assemblies
<1>6. Assembling(r)
  BY <1>0, UploadAssumption DEF ChunkPut, Hold, Goto, Ends, Drops, TypeOK, Ops, Open,
     Assembling, Filed, Made, Stages, ChunkStage, ThumbStage, CompleteStage, AbortStage,
     Assemblies
<1> QED BY <1>1, <1>2, <1>3, <1>4, <1>5, <1>6 DEF Moves

LEMMA RecordSessionMoves ==
  ASSUME StructInv, NEW r \in Ops, RecordSession(r)
  PROVE  Moves(r)
<1>0. TypeOK /\ Stages /\ Assemblies
  BY DEF StructInv
<1>1. Others(r)
  BY <1>0, UploadAssumption DEF RecordSession, Writes, Hold, Goto, Ends, Drops, TypeOK, Ops,
     Others
<1>2. Turn(r)
  BY <1>0, UploadAssumption DEF RecordSession, Writes, Hold, Goto, Ends, Drops, TypeOK, Ops,
     Turn, Holding, Stages, ChunkStage, ThumbStage, CompleteStage, AbortStage, Assemblies
<1>3. WritesOf(r)
  BY <1>0 DEF RecordSession, Writes, Hold, Goto, Ends, Drops, TypeOK, Ops, WritesOf, Holding,
     Stages, ChunkStage, ThumbStage, CompleteStage, AbortStage
<1>4. Copying(r)
  BY <1>0, Typed, Taken, Added, UploadAssumption DEF RecordSession, Writes, Hold, Goto, Ends,
     Drops, TypeOK, Ops, Open, Copying, Keeps, Reads, Starts, Puts, Made, Holding, Stages,
     ChunkStage, ThumbStage, CompleteStage, AbortStage, Assemblies
<1>5. Storing(r)
  BY <1>0, Typed, UploadAssumption DEF RecordSession, Writes, Hold, Goto, Ends, Drops, TypeOK,
     Ops, Storing, Holding, Stages, ChunkStage, ThumbStage, CompleteStage, AbortStage,
     Assemblies
<1>6. Assembling(r)
  BY <1>0, UploadAssumption DEF RecordSession, Writes, Hold, Goto, Ends, Drops, TypeOK, Ops,
     Open, Assembling, Filed, Made, Stages, ChunkStage, ThumbStage, CompleteStage, AbortStage,
     Assemblies
<1> QED BY <1>1, <1>2, <1>3, <1>4, <1>5, <1>6 DEF Moves

LEMMA RecordMetaMoves ==
  ASSUME StructInv, NEW r \in Ops, RecordMeta(r)
  PROVE  Moves(r)
<1>0. TypeOK /\ Stages /\ Assemblies
  BY DEF StructInv
<1>1. Others(r)
  BY <1>0, UploadAssumption DEF RecordMeta, Hold, Goto, Ends, Drops, TypeOK, Ops, Others
<1>2. Turn(r)
  BY <1>0, UploadAssumption DEF RecordMeta, Hold, Goto, Ends, Drops, TypeOK, Ops, Turn, Holding,
     Stages, ChunkStage, ThumbStage, CompleteStage, AbortStage, Assemblies
<1>3. WritesOf(r)
  BY <1>0 DEF RecordMeta, Hold, Goto, Ends, Drops, TypeOK, Ops, WritesOf, Holding, Stages,
     ChunkStage, ThumbStage, CompleteStage, AbortStage
<1>4. Copying(r)
  BY <1>0, Typed, Taken, Added, UploadAssumption DEF RecordMeta, Hold, Goto, Ends, Drops,
     TypeOK, Ops, Open, Copying, Keeps, Reads, Starts, Puts, Made, Holding, Stages, ChunkStage,
     ThumbStage, CompleteStage, AbortStage, Assemblies
<1>5. Storing(r)
  BY <1>0, Typed, UploadAssumption DEF RecordMeta, Hold, Goto, Ends, Drops, TypeOK, Ops,
     Storing, Holding, Stages, ChunkStage, ThumbStage, CompleteStage, AbortStage, Assemblies
<1>6. Assembling(r)
  BY <1>0, UploadAssumption DEF RecordMeta, Hold, Goto, Ends, Drops, TypeOK, Ops, Open,
     Assembling, Filed, Made, Stages, ChunkStage, ThumbStage, CompleteStage, AbortStage,
     Assemblies
<1> QED BY <1>1, <1>2, <1>3, <1>4, <1>5, <1>6 DEF Moves

LEMMA ChunkStartMoves ==
  ASSUME StructInv, NEW r \in Ops, ChunkStart(r)
  PROVE  Moves(r)
<1>0. TypeOK /\ Stages /\ Assemblies
  BY DEF StructInv
<1>1. Others(r)
  BY <1>0, UploadAssumption DEF ChunkStart, Sent, Hold, Goto, TypeOK, Ops, Others
<1>2. Turn(r)
  BY <1>0, UploadAssumption DEF ChunkStart, Sent, Hold, Goto, TypeOK, Ops, Turn, Holding,
     Stages, ChunkStage, ThumbStage, CompleteStage, AbortStage, Assemblies
<1>3. WritesOf(r)
  BY <1>0 DEF ChunkStart, Sent, Hold, Goto, TypeOK, Ops, WritesOf, Holding, Stages, ChunkStage,
     ThumbStage, CompleteStage, AbortStage
<1>4. Copying(r)
  BY <1>0, Typed, Taken, Added, UploadAssumption DEF ChunkStart, Sent, Hold, Goto, TypeOK, Ops,
     Open, Copying, Keeps, Reads, Starts, Puts, Made, Holding, Stages, ChunkStage, ThumbStage,
     CompleteStage, AbortStage, Assemblies
<1>5. Storing(r)
  BY <1>0, Typed, UploadAssumption DEF ChunkStart, Sent, Hold, Goto, TypeOK, Ops, Storing,
     Holding, Stages, ChunkStage, ThumbStage, CompleteStage, AbortStage, Assemblies
<1>6. Assembling(r)
  BY <1>0, UploadAssumption DEF ChunkStart, Sent, Hold, Goto, TypeOK, Ops, Open, Assembling,
     Filed, Made, Stages, ChunkStage, ThumbStage, CompleteStage, AbortStage, Assemblies
<1> QED BY <1>1, <1>2, <1>3, <1>4, <1>5, <1>6 DEF Moves

LEMMA ChunkUndoMoves ==
  ASSUME StructInv, NEW r \in Ops, ChunkUndo(r)
  PROVE  Moves(r)
<1>0. TypeOK /\ Stages /\ Assemblies
  BY DEF StructInv
<1>1. Others(r)
  BY <1>0, UploadAssumption DEF ChunkUndo, Hold, Goto, Ends, Drops, TypeOK, Ops, Others
<1>2. Turn(r)
  BY <1>0, UploadAssumption DEF ChunkUndo, Hold, Goto, Ends, Drops, TypeOK, Ops, Turn, Holding,
     Stages, ChunkStage, ThumbStage, CompleteStage, AbortStage, Assemblies
<1>3. WritesOf(r)
  BY <1>0 DEF ChunkUndo, Hold, Goto, Ends, Drops, TypeOK, Ops, WritesOf, Holding, Stages,
     ChunkStage, ThumbStage, CompleteStage, AbortStage
<1>4. Copying(r)
  BY <1>0, Typed, Taken, Added, UploadAssumption DEF ChunkUndo, Hold, Goto, Ends, Drops, TypeOK,
     Ops, Open, Copying, Keeps, Reads, Starts, Puts, Made, Holding, Stages, ChunkStage,
     ThumbStage, CompleteStage, AbortStage, Assemblies
<1>5. Storing(r)
  BY <1>0, Typed, UploadAssumption DEF ChunkUndo, Hold, Goto, Ends, Drops, TypeOK, Ops, Storing,
     Holding, Stages, ChunkStage, ThumbStage, CompleteStage, AbortStage, Assemblies
<1>6. Assembling(r)
  BY <1>0, UploadAssumption DEF ChunkUndo, Hold, Goto, Ends, Drops, TypeOK, Ops, Open,
     Assembling, Filed, Made, Stages, ChunkStage, ThumbStage, CompleteStage, AbortStage,
     Assemblies
<1> QED BY <1>1, <1>2, <1>3, <1>4, <1>5, <1>6 DEF Moves

LEMMA ThumbStartMoves ==
  ASSUME StructInv, NEW t \in Ops, ThumbStart(t)
  PROVE  Moves(t)
<1>0. TypeOK /\ Stages /\ Assemblies
  BY DEF StructInv
<1>1. Others(t)
  BY <1>0, UploadAssumption DEF ThumbStart, Sent, Goto, TypeOK, Ops, Others
<1>2. Turn(t)
  BY <1>0, UploadAssumption DEF ThumbStart, Sent, Goto, TypeOK, Ops, Turn, Holding, Stages,
     ChunkStage, ThumbStage, CompleteStage, AbortStage, Assemblies
<1>3. WritesOf(t)
  BY <1>0 DEF ThumbStart, Sent, Goto, TypeOK, Ops, WritesOf, Holding, Stages, ChunkStage,
     ThumbStage, CompleteStage, AbortStage
<1>4. Copying(t)
  BY <1>0, Typed, Taken, Added, UploadAssumption DEF ThumbStart, Sent, Goto, TypeOK, Ops, Open,
     Copying, Keeps, Reads, Starts, Puts, Made, Holding, Stages, ChunkStage, ThumbStage,
     CompleteStage, AbortStage, Assemblies
<1>5. Storing(t)
  BY <1>0, Typed, UploadAssumption DEF ThumbStart, Sent, Goto, TypeOK, Ops, Storing, Holding,
     Stages, ChunkStage, ThumbStage, CompleteStage, AbortStage, Assemblies
<1>6. Assembling(t)
  BY <1>0, UploadAssumption DEF ThumbStart, Sent, Goto, TypeOK, Ops, Open, Assembling, Filed,
     Made, Stages, ChunkStage, ThumbStage, CompleteStage, AbortStage, Assemblies
<1> QED BY <1>1, <1>2, <1>3, <1>4, <1>5, <1>6 DEF Moves

LEMMA ThumbPutMoves ==
  ASSUME StructInv, NEW t \in Ops, ThumbPut(t)
  PROVE  Moves(t)
<1>0. TypeOK /\ Stages /\ Assemblies
  BY DEF StructInv
<1>1. Others(t)
  BY <1>0, UploadAssumption DEF ThumbPut, Goto, TypeOK, Ops, Others
<1>2. Turn(t)
  BY <1>0, UploadAssumption DEF ThumbPut, Goto, TypeOK, Ops, Turn, Holding, Stages, ChunkStage,
     ThumbStage, CompleteStage, AbortStage, Assemblies
<1>3. WritesOf(t)
  BY <1>0 DEF ThumbPut, Goto, TypeOK, Ops, WritesOf, Holding, Stages, ChunkStage, ThumbStage,
     CompleteStage, AbortStage
<1>4. Copying(t)
  BY <1>0, Typed, Taken, Added, UploadAssumption DEF ThumbPut, Goto, TypeOK, Ops, Open, Copying,
     Keeps, Reads, Starts, Puts, Made, Holding, Stages, ChunkStage, ThumbStage, CompleteStage,
     AbortStage, Assemblies
<1>5. Storing(t)
  BY <1>0, Typed, UploadAssumption DEF ThumbPut, Goto, TypeOK, Ops, Storing, Holding, Stages,
     ChunkStage, ThumbStage, CompleteStage, AbortStage, Assemblies
<1>6. Assembling(t)
  BY <1>0, UploadAssumption DEF ThumbPut, Goto, TypeOK, Ops, Open, Assembling, Filed, Made,
     Stages, ChunkStage, ThumbStage, CompleteStage, AbortStage, Assemblies
<1> QED BY <1>1, <1>2, <1>3, <1>4, <1>5, <1>6 DEF Moves

LEMMA ThumbGetMoves ==
  ASSUME StructInv, NEW t \in Ops, ThumbGet(t)
  PROVE  Moves(t)
<1>0. TypeOK /\ Stages /\ Assemblies
  BY DEF StructInv
<1>t. Took(t, "get", "set", "done")
  BY Takings
<1>1. Others(t)
  BY <1>0, <1>t, UploadAssumption DEF ThumbGet, Took, TypeOK, Ops, Others
<1>2. Turn(t)
  BY <1>0, <1>t, UploadAssumption DEF ThumbGet, Took, TypeOK, Ops, Turn, Holding, Stages,
     ChunkStage, ThumbStage, CompleteStage, AbortStage, Assemblies
<1>3. WritesOf(t)
  BY <1>0 DEF ThumbGet, Took, TypeOK, Ops, WritesOf, Holding, Stages, ChunkStage, ThumbStage,
     CompleteStage, AbortStage
<1>4. Copying(t)
  BY <1>0, <1>t, Typed, UploadAssumption DEF ThumbGet, Took, TypeOK, Ops, Open, Copying, Keeps,
     Reads, Starts, Puts, Made, Holding, Stages, ChunkStage, ThumbStage, CompleteStage,
     AbortStage, Assemblies
<1>5. Storing(t)
  BY <1>0, <1>t, Typed, UploadAssumption DEF ThumbGet, Took, TypeOK, Ops, Storing, Holding,
     Stages, ChunkStage, ThumbStage, CompleteStage, AbortStage, Assemblies
<1>6. Assembling(t)
  BY <1>0, <1>t, UploadAssumption DEF ThumbGet, Took, TypeOK, Ops, Open, Assembling, Filed,
     Made, Stages, ChunkStage, ThumbStage, CompleteStage, AbortStage, Assemblies
<1> QED BY <1>1, <1>2, <1>3, <1>4, <1>5, <1>6 DEF Moves

LEMMA ThumbSetMoves ==
  ASSUME StructInv, NEW t \in Ops, ThumbSet(t)
  PROVE  Moves(t)
<1>0. TypeOK /\ Stages /\ Assemblies
  BY DEF StructInv
<1>1. Others(t)
  BY <1>0, UploadAssumption DEF ThumbSet, Updates, Writes, Hold, Goto, TypeOK, Ops, Others
<1>2. Turn(t)
  BY <1>0, UploadAssumption DEF ThumbSet, Updates, Writes, Hold, Goto, TypeOK, Ops, Turn,
     Holding, Stages, ChunkStage, ThumbStage, CompleteStage, AbortStage, Assemblies
<1>3. WritesOf(t)
  BY <1>0 DEF ThumbSet, Updates, Writes, Hold, Goto, TypeOK, Ops, WritesOf, Holding, Stages,
     ChunkStage, ThumbStage, CompleteStage, AbortStage
<1>4. Copying(t)
  BY <1>0, Typed, Taken, Added, UploadAssumption DEF ThumbSet, Updates, Writes, Hold, Goto,
     TypeOK, Ops, Open, Copying, Keeps, Reads, Starts, Puts, Made, Holding, Stages, ChunkStage,
     ThumbStage, CompleteStage, AbortStage, Assemblies
<1>5. Storing(t)
  BY <1>0, Typed, UploadAssumption DEF ThumbSet, Updates, Writes, Hold, Goto, TypeOK, Ops,
     Storing, Holding, Stages, ChunkStage, ThumbStage, CompleteStage, AbortStage, Assemblies
<1>6. Assembling(t)
  BY <1>0, UploadAssumption DEF ThumbSet, Updates, Writes, Hold, Goto, TypeOK, Ops, Open,
     Assembling, Filed, Made, Stages, ChunkStage, ThumbStage, CompleteStage, AbortStage,
     Assemblies
<1> QED BY <1>1, <1>2, <1>3, <1>4, <1>5, <1>6 DEF Moves

LEMMA CompleteStartMoves ==
  ASSUME StructInv, NEW c \in Ops, CompleteStart(c)
  PROVE  Moves(c)
<1>0. TypeOK /\ Stages /\ Assemblies
  BY DEF StructInv
<1>1. Others(c)
  BY <1>0, UploadAssumption DEF CompleteStart, Sent, Goto, TypeOK, Ops, Others
<1>2. Turn(c)
  BY <1>0, UploadAssumption DEF CompleteStart, Sent, Goto, TypeOK, Ops, Turn, Holding, Stages,
     ChunkStage, ThumbStage, CompleteStage, AbortStage, Assemblies
<1>3. WritesOf(c)
  BY <1>0 DEF CompleteStart, Sent, Goto, TypeOK, Ops, WritesOf, Holding, Stages, ChunkStage,
     ThumbStage, CompleteStage, AbortStage
<1>4. Copying(c)
  BY <1>0, Typed, Taken, Added, UploadAssumption DEF CompleteStart, Sent, Goto, TypeOK, Ops,
     Open, Copying, Keeps, Reads, Starts, Puts, Made, Holding, Stages, ChunkStage, ThumbStage,
     CompleteStage, AbortStage, Assemblies
<1>5. Storing(c)
  BY <1>0, Typed, UploadAssumption DEF CompleteStart, Sent, Goto, TypeOK, Ops, Storing, Holding,
     Stages, ChunkStage, ThumbStage, CompleteStage, AbortStage, Assemblies
<1>6. Assembling(c)
  BY <1>0, UploadAssumption DEF CompleteStart, Sent, Goto, TypeOK, Ops, Open, Assembling, Filed,
     Made, Stages, ChunkStage, ThumbStage, CompleteStage, AbortStage, Assemblies
<1> QED BY <1>1, <1>2, <1>3, <1>4, <1>5, <1>6 DEF Moves

LEMMA AssembleReadMoves ==
  ASSUME StructInv, NEW c \in Ops, AssembleRead(c)
  PROVE  Moves(c)
<1>0. TypeOK /\ Stages /\ Assemblies
  BY DEF StructInv
<1>t. Took(c, "begin", IF Cardinality(session.chunks) = Total THEN "assemble" ELSE "fail", "fail")
  BY Takings
<1>1. Others(c)
  BY <1>0, <1>t, UploadAssumption DEF AssembleRead, Took, TypeOK, Ops, Others
<1>2. Turn(c)
  BY <1>0, <1>t, UploadAssumption DEF AssembleRead, Took, TypeOK, Ops, Turn, Holding, Stages,
     ChunkStage, ThumbStage, CompleteStage, AbortStage, Assemblies
<1>3. WritesOf(c)
  BY <1>0 DEF AssembleRead, Took, TypeOK, Ops, WritesOf, Holding, Stages, ChunkStage,
     ThumbStage, CompleteStage, AbortStage
<1>4. Copying(c)
  BY <1>0, <1>t, Typed, UploadAssumption DEF AssembleRead, Took, TypeOK, Ops, Open, Copying,
     Keeps, Reads, Starts, Puts, Made, Holding, Stages, ChunkStage, ThumbStage, CompleteStage,
     AbortStage, Assemblies
<1>5. Storing(c)
  BY <1>0, <1>t, Typed, UploadAssumption DEF AssembleRead, Took, TypeOK, Ops, Storing, Holding,
     Stages, ChunkStage, ThumbStage, CompleteStage, AbortStage, Assemblies
<1>6. Assembling(c)
  BY <1>0, <1>t, UploadAssumption DEF AssembleRead, Took, TypeOK, Ops, Open, Assembling, Filed,
     Made, Stages, ChunkStage, ThumbStage, CompleteStage, AbortStage, Assemblies
<1> QED BY <1>1, <1>2, <1>3, <1>4, <1>5, <1>6 DEF Moves

LEMMA AssembleWriteMoves ==
  ASSUME StructInv, NEW c \in Ops, AssembleWrite(c)
  PROVE  Moves(c)
<1>0. TypeOK /\ Stages /\ Assemblies
  BY DEF StructInv
<1>1. Others(c)
  BY <1>0, UploadAssumption DEF AssembleWrite, Updates, Writes, Hold, Goto, TypeOK, Ops, Others
<1>2. Turn(c)
  BY <1>0, UploadAssumption DEF AssembleWrite, Updates, Writes, Hold, Goto, TypeOK, Ops, Turn,
     Holding, Stages, ChunkStage, ThumbStage, CompleteStage, AbortStage, Assemblies
<1>3. WritesOf(c)
  BY <1>0 DEF AssembleWrite, Updates, Writes, Hold, Goto, TypeOK, Ops, WritesOf, Holding,
     Stages, ChunkStage, ThumbStage, CompleteStage, AbortStage
<1>4. Copying(c)
  BY <1>0, Typed, Taken, Added, UploadAssumption DEF AssembleWrite, Updates, Writes, Hold, Goto,
     TypeOK, Ops, Open, Copying, Keeps, Reads, Starts, Puts, Made, Holding, Stages, ChunkStage,
     ThumbStage, CompleteStage, AbortStage, Assemblies
<1>5. Storing(c)
  BY <1>0, Typed, UploadAssumption DEF AssembleWrite, Updates, Writes, Hold, Goto, TypeOK, Ops,
     Storing, Holding, Stages, ChunkStage, ThumbStage, CompleteStage, AbortStage, Assemblies
<1>6. Assembling(c)
  BY <1>0, UploadAssumption DEF AssembleWrite, Updates, Writes, Hold, Goto, TypeOK, Ops, Open,
     Assembling, Filed, Made, Stages, ChunkStage, ThumbStage, CompleteStage, AbortStage,
     Assemblies
<1> QED BY <1>1, <1>2, <1>3, <1>4, <1>5, <1>6 DEF Moves

LEMMA ListMoves ==
  ASSUME StructInv, NEW c \in Ops, List(c)
  PROVE  Moves(c)
<1>0. TypeOK /\ Stages /\ Assemblies
  BY DEF StructInv
<1>f. AllFound => Open /\ session.chunks = Index
  BY Typed, Taken DEF AllFound, Found
<1>1. Others(c)
  BY <1>0, UploadAssumption DEF List, Goto, TypeOK, Ops, Others
<1>2. Turn(c)
  BY <1>0, UploadAssumption DEF List, Goto, TypeOK, Ops, Turn, Holding, Stages, ChunkStage,
     ThumbStage, CompleteStage, AbortStage, Assemblies
<1>3. WritesOf(c)
  BY <1>0 DEF List, Goto, TypeOK, Ops, WritesOf, Holding, Stages, ChunkStage, ThumbStage,
     CompleteStage, AbortStage
<1>4. Copying(c)
  BY <1>0, Typed, Taken, Added, UploadAssumption DEF List, Goto, TypeOK, Ops, Open, Copying,
     Keeps, Reads, Starts, Puts, Made, Holding, Stages, ChunkStage, ThumbStage, CompleteStage,
     AbortStage, Assemblies
<1>5. Storing(c)
  BY <1>0, Typed, UploadAssumption DEF List, Goto, TypeOK, Ops, Storing, Holding, Stages,
     ChunkStage, ThumbStage, CompleteStage, AbortStage, Assemblies
<1>6. Assembling(c)
  BY <1>0, <1>f, UploadAssumption DEF List, Goto, TypeOK, Ops, Open, Assembling, Filed, Made,
     Stages, ChunkStage, ThumbStage, CompleteStage, AbortStage, Assemblies
<1> QED BY <1>1, <1>2, <1>3, <1>4, <1>5, <1>6 DEF Moves

LEMMA DownloadMoves ==
  ASSUME StructInv, NEW c \in Ops, Download(c)
  PROVE  Moves(c)
<1>0. TypeOK /\ Stages /\ Assemblies
  BY DEF StructInv
<1>1. Others(c)
  BY <1>0, UploadAssumption DEF Download, TypeOK, Ops, Others
<1>2. Turn(c)
  BY <1>0, UploadAssumption DEF Download, TypeOK, Ops, Turn, Holding, Stages, ChunkStage,
     ThumbStage, CompleteStage, AbortStage, Assemblies
<1>3. WritesOf(c)
  BY <1>0 DEF Download, TypeOK, Ops, WritesOf, Holding, Stages, ChunkStage, ThumbStage,
     CompleteStage, AbortStage
<1>4. Copying(c)
  BY <1>0, Typed, Taken, Added, UploadAssumption DEF Download, TypeOK, Ops, Open, Copying,
     Keeps, Reads, Starts, Puts, Made, Holding, Stages, ChunkStage, ThumbStage, CompleteStage,
     AbortStage, Assemblies
<1>5. Storing(c)
  BY <1>0, Typed, UploadAssumption DEF Download, TypeOK, Ops, Storing, Holding, Stages,
     ChunkStage, ThumbStage, CompleteStage, AbortStage, Assemblies
<1>6. Assembling(c)
  BY <1>0, UploadAssumption DEF Download, TypeOK, Ops, Open, Assembling, Filed, Made, Stages,
     ChunkStage, ThumbStage, CompleteStage, AbortStage, Assemblies
<1> QED BY <1>1, <1>2, <1>3, <1>4, <1>5, <1>6 DEF Moves

LEMMA AssemblyFailsMoves ==
  ASSUME StructInv, NEW c \in Ops, AssemblyFails(c)
  PROVE  Moves(c)
<1>0. TypeOK /\ Stages /\ Assemblies
  BY DEF StructInv
<1>1. Others(c)
  BY <1>0, UploadAssumption DEF AssemblyFails, Goto, TypeOK, Ops, Others
<1>2. Turn(c)
  BY <1>0, UploadAssumption DEF AssemblyFails, Goto, TypeOK, Ops, Turn, Holding, Stages,
     ChunkStage, ThumbStage, CompleteStage, AbortStage, Assemblies
<1>3. WritesOf(c)
  BY <1>0 DEF AssemblyFails, Goto, TypeOK, Ops, WritesOf, Holding, Stages, ChunkStage,
     ThumbStage, CompleteStage, AbortStage
<1>4. Copying(c)
  BY <1>0, Typed, Taken, Added, UploadAssumption DEF AssemblyFails, Goto, TypeOK, Ops, Open,
     Copying, Keeps, Reads, Starts, Puts, Made, Holding, Stages, ChunkStage, ThumbStage,
     CompleteStage, AbortStage, Assemblies
<1>5. Storing(c)
  BY <1>0, Typed, UploadAssumption DEF AssemblyFails, Goto, TypeOK, Ops, Storing, Holding,
     Stages, ChunkStage, ThumbStage, CompleteStage, AbortStage, Assemblies
<1>6. Assembling(c)
  BY <1>0, UploadAssumption DEF AssemblyFails, Goto, TypeOK, Ops, Open, Assembling, Filed, Made,
     Stages, ChunkStage, ThumbStage, CompleteStage, AbortStage, Assemblies
<1> QED BY <1>1, <1>2, <1>3, <1>4, <1>5, <1>6 DEF Moves

LEMMA InsertRowsMoves ==
  ASSUME StructInv, NEW c \in Ops, InsertRows(c)
  PROVE  Moves(c)
<1>0. TypeOK /\ Stages /\ Assemblies
  BY DEF StructInv
<1>1. Others(c)
  BY <1>0, UploadAssumption DEF InsertRows, Goto, TypeOK, Ops, Others
<1>2. Turn(c)
  BY <1>0, UploadAssumption DEF InsertRows, Goto, TypeOK, Ops, Turn, Holding, Stages,
     ChunkStage, ThumbStage, CompleteStage, AbortStage, Assemblies
<1>3. WritesOf(c)
  BY <1>0 DEF InsertRows, Goto, TypeOK, Ops, WritesOf, Holding, Stages, ChunkStage, ThumbStage,
     CompleteStage, AbortStage
<1>4. Copying(c)
  BY <1>0, Typed, Taken, Added, UploadAssumption DEF InsertRows, Goto, TypeOK, Ops, Open,
     Copying, Keeps, Reads, Starts, Puts, Made, Holding, Stages, ChunkStage, ThumbStage,
     CompleteStage, AbortStage, Assemblies
<1>5. Storing(c)
  BY <1>0, Typed, UploadAssumption DEF InsertRows, Goto, TypeOK, Ops, Storing, Holding, Stages,
     ChunkStage, ThumbStage, CompleteStage, AbortStage, Assemblies
<1>6. Assembling(c)
  BY <1>0, UploadAssumption DEF InsertRows, Goto, TypeOK, Ops, Open, Assembling, Filed, Made,
     Stages, ChunkStage, ThumbStage, CompleteStage, AbortStage, Assemblies
<1> QED BY <1>1, <1>2, <1>3, <1>4, <1>5, <1>6 DEF Moves

LEMMA StoreFileMoves ==
  ASSUME StructInv, NEW c \in Ops, StoreFile(c)
  PROVE  Moves(c)
<1>0. TypeOK /\ Stages /\ Assemblies
  BY DEF StructInv
<1>1. Others(c)
  BY <1>0, UploadAssumption DEF StoreFile, Goto, TypeOK, Ops, Others
<1>2. Turn(c)
  BY <1>0, UploadAssumption DEF StoreFile, Goto, TypeOK, Ops, Turn, Holding, Stages, ChunkStage,
     ThumbStage, CompleteStage, AbortStage, Assemblies
<1>3. WritesOf(c)
  BY <1>0 DEF StoreFile, Goto, TypeOK, Ops, WritesOf, Holding, Stages, ChunkStage, ThumbStage,
     CompleteStage, AbortStage
<1>4. Copying(c)
  BY <1>0, Typed, Taken, Added, UploadAssumption DEF StoreFile, Goto, TypeOK, Ops, Open,
     Copying, Keeps, Reads, Starts, Puts, Made, Holding, Stages, ChunkStage, ThumbStage,
     CompleteStage, AbortStage, Assemblies
<1>5. Storing(c)
  BY <1>0, Typed, UploadAssumption DEF StoreFile, Goto, TypeOK, Ops, Storing, Holding, Stages,
     ChunkStage, ThumbStage, CompleteStage, AbortStage, Assemblies
<1>6. Assembling(c)
  BY <1>0, UploadAssumption DEF StoreFile, Goto, TypeOK, Ops, Open, Assembling, Filed, Made,
     Stages, ChunkStage, ThumbStage, CompleteStage, AbortStage, Assemblies
<1> QED BY <1>1, <1>2, <1>3, <1>4, <1>5, <1>6 DEF Moves

LEMMA StoreFailsMoves ==
  ASSUME StructInv, NEW c \in Ops, StoreFails(c)
  PROVE  Moves(c)
<1>0. TypeOK /\ Stages /\ Assemblies
  BY DEF StructInv
<1>1. Others(c)
  BY <1>0, UploadAssumption DEF StoreFails, Goto, TypeOK, Ops, Others
<1>2. Turn(c)
  BY <1>0, UploadAssumption DEF StoreFails, Goto, TypeOK, Ops, Turn, Holding, Stages,
     ChunkStage, ThumbStage, CompleteStage, AbortStage, Assemblies
<1>3. WritesOf(c)
  BY <1>0 DEF StoreFails, Goto, TypeOK, Ops, WritesOf, Holding, Stages, ChunkStage, ThumbStage,
     CompleteStage, AbortStage
<1>4. Copying(c)
  BY <1>0, Typed, Taken, Added, UploadAssumption DEF StoreFails, Goto, TypeOK, Ops, Open,
     Copying, Keeps, Reads, Starts, Puts, Made, Holding, Stages, ChunkStage, ThumbStage,
     CompleteStage, AbortStage, Assemblies
<1>5. Storing(c)
  BY <1>0, Typed, UploadAssumption DEF StoreFails, Goto, TypeOK, Ops, Storing, Holding, Stages,
     ChunkStage, ThumbStage, CompleteStage, AbortStage, Assemblies
<1>6. Assembling(c)
  BY <1>0, UploadAssumption DEF StoreFails, Goto, TypeOK, Ops, Open, Assembling, Filed, Made,
     Stages, ChunkStage, ThumbStage, CompleteStage, AbortStage, Assemblies
<1> QED BY <1>1, <1>2, <1>3, <1>4, <1>5, <1>6 DEF Moves

LEMMA ApplyThumbMoves ==
  ASSUME StructInv, NEW c \in Ops, ApplyThumb(c)
  PROVE  Moves(c)
<1>0. TypeOK /\ Stages /\ Assemblies
  BY DEF StructInv
<1>1. Others(c)
  BY <1>0, UploadAssumption DEF ApplyThumb, Goto, TypeOK, Ops, Others
<1>2. Turn(c)
  BY <1>0, UploadAssumption DEF ApplyThumb, Goto, TypeOK, Ops, Turn, Holding, Stages,
     ChunkStage, ThumbStage, CompleteStage, AbortStage, Assemblies
<1>3. WritesOf(c)
  BY <1>0 DEF ApplyThumb, Goto, TypeOK, Ops, WritesOf, Holding, Stages, ChunkStage, ThumbStage,
     CompleteStage, AbortStage
<1>4. Copying(c)
  BY <1>0, Typed, Taken, Added, UploadAssumption DEF ApplyThumb, Goto, TypeOK, Ops, Open,
     Copying, Keeps, Reads, Starts, Puts, Made, Holding, Stages, ChunkStage, ThumbStage,
     CompleteStage, AbortStage, Assemblies
<1>5. Storing(c)
  BY <1>0, Typed, UploadAssumption DEF ApplyThumb, Goto, TypeOK, Ops, Storing, Holding, Stages,
     ChunkStage, ThumbStage, CompleteStage, AbortStage, Assemblies
<1>6. Assembling(c)
  BY <1>0, UploadAssumption DEF ApplyThumb, Goto, TypeOK, Ops, Open, Assembling, Filed, Made,
     Stages, ChunkStage, ThumbStage, CompleteStage, AbortStage, Assemblies
<1> QED BY <1>1, <1>2, <1>3, <1>4, <1>5, <1>6 DEF Moves

LEMMA FinishReadMoves ==
  ASSUME StructInv, NEW c \in Ops, FinishRead(c)
  PROVE  Moves(c)
<1>0. TypeOK /\ Stages /\ Assemblies
  BY DEF StructInv
<1>t. Took(c, "finish", "finished", "fail")
  BY Takings
<1>1. Others(c)
  BY <1>0, <1>t, UploadAssumption DEF FinishRead, Took, TypeOK, Ops, Others
<1>2. Turn(c)
  BY <1>0, <1>t, UploadAssumption DEF FinishRead, Took, TypeOK, Ops, Turn, Holding, Stages,
     ChunkStage, ThumbStage, CompleteStage, AbortStage, Assemblies
<1>3. WritesOf(c)
  BY <1>0 DEF FinishRead, Took, TypeOK, Ops, WritesOf, Holding, Stages, ChunkStage, ThumbStage,
     CompleteStage, AbortStage
<1>4. Copying(c)
  BY <1>0, <1>t, Typed, UploadAssumption DEF FinishRead, Took, TypeOK, Ops, Open, Copying,
     Keeps, Reads, Starts, Puts, Made, Holding, Stages, ChunkStage, ThumbStage, CompleteStage,
     AbortStage, Assemblies
<1>5. Storing(c)
  BY <1>0, <1>t, Typed, UploadAssumption DEF FinishRead, Took, TypeOK, Ops, Storing, Holding,
     Stages, ChunkStage, ThumbStage, CompleteStage, AbortStage, Assemblies
<1>6. Assembling(c)
  BY <1>0, <1>t, UploadAssumption DEF FinishRead, Took, TypeOK, Ops, Open, Assembling, Filed,
     Made, Stages, ChunkStage, ThumbStage, CompleteStage, AbortStage, Assemblies
<1> QED BY <1>1, <1>2, <1>3, <1>4, <1>5, <1>6 DEF Moves

LEMMA FinishWriteMoves ==
  ASSUME StructInv, NEW c \in Ops, FinishWrite(c)
  PROVE  Moves(c)
<1>0. TypeOK /\ Stages /\ Assemblies
  BY DEF StructInv
<1>1. Others(c)
  BY <1>0, UploadAssumption DEF FinishWrite, Updates, Writes, Hold, Goto, TypeOK, Ops, Others
<1>2. Turn(c)
  BY <1>0, UploadAssumption DEF FinishWrite, Updates, Writes, Hold, Goto, TypeOK, Ops, Turn,
     Holding, Stages, ChunkStage, ThumbStage, CompleteStage, AbortStage, Assemblies
<1>3. WritesOf(c)
  BY <1>0 DEF FinishWrite, Updates, Writes, Hold, Goto, TypeOK, Ops, WritesOf, Holding, Stages,
     ChunkStage, ThumbStage, CompleteStage, AbortStage
<1>4. Copying(c)
  BY <1>0, Typed, Taken, Added, UploadAssumption DEF FinishWrite, Updates, Writes, Hold, Goto,
     TypeOK, Ops, Open, Copying, Keeps, Reads, Starts, Puts, Made, Holding, Stages, ChunkStage,
     ThumbStage, CompleteStage, AbortStage, Assemblies
<1>5. Storing(c)
  BY <1>0, Typed, UploadAssumption DEF FinishWrite, Updates, Writes, Hold, Goto, TypeOK, Ops,
     Storing, Holding, Stages, ChunkStage, ThumbStage, CompleteStage, AbortStage, Assemblies
<1>6. Assembling(c)
  BY <1>0, UploadAssumption DEF FinishWrite, Updates, Writes, Hold, Goto, TypeOK, Ops, Open,
     Assembling, Filed, Made, Stages, ChunkStage, ThumbStage, CompleteStage, AbortStage,
     Assemblies
<1> QED BY <1>1, <1>2, <1>3, <1>4, <1>5, <1>6 DEF Moves

LEMMA FailReadMoves ==
  ASSUME StructInv, NEW c \in Ops, FailRead(c)
  PROVE  Moves(c)
<1>0. TypeOK /\ Stages /\ Assemblies
  BY DEF StructInv
<1>t. Took(c, "fail", "failed", "done")
  BY Takings
<1>1. Others(c)
  BY <1>0, <1>t, UploadAssumption DEF FailRead, Took, Forgets, TypeOK, Ops, Others
<1>2. Turn(c)
  BY <1>0, <1>t, UploadAssumption DEF FailRead, Took, Forgets, TypeOK, Ops, Turn, Holding,
     Stages, ChunkStage, ThumbStage, CompleteStage, AbortStage, Assemblies
<1>3. WritesOf(c)
  BY <1>0 DEF FailRead, Took, Forgets, TypeOK, Ops, WritesOf, Holding, Stages, ChunkStage,
     ThumbStage, CompleteStage, AbortStage
<1>4. Copying(c)
  BY <1>0, <1>t, Typed, UploadAssumption DEF FailRead, Took, Forgets, TypeOK, Ops, Open,
     Copying, Keeps, Reads, Starts, Puts, Made, Holding, Stages, ChunkStage, ThumbStage,
     CompleteStage, AbortStage, Assemblies
<1>5. Storing(c)
  BY <1>0, <1>t, Typed, UploadAssumption DEF FailRead, Took, Forgets, TypeOK, Ops, Storing,
     Holding, Stages, ChunkStage, ThumbStage, CompleteStage, AbortStage, Assemblies
<1>6. Assembling(c)
  BY <1>0, <1>t, UploadAssumption DEF FailRead, Took, Forgets, TypeOK, Ops, Open, Assembling,
     Filed, Made, Stages, ChunkStage, ThumbStage, CompleteStage, AbortStage, Assemblies
<1> QED BY <1>1, <1>2, <1>3, <1>4, <1>5, <1>6 DEF Moves

LEMMA FailWriteMoves ==
  ASSUME StructInv, NEW c \in Ops, FailWrite(c)
  PROVE  Moves(c)
<1>0. TypeOK /\ Stages /\ Assemblies
  BY DEF StructInv
<1>1. Others(c)
  BY <1>0, UploadAssumption DEF FailWrite, Updates, Writes, Hold, Goto, TypeOK, Ops, Others
<1>2. Turn(c)
  BY <1>0, UploadAssumption DEF FailWrite, Updates, Writes, Hold, Goto, TypeOK, Ops, Turn,
     Holding, Stages, ChunkStage, ThumbStage, CompleteStage, AbortStage, Assemblies
<1>3. WritesOf(c)
  BY <1>0 DEF FailWrite, Updates, Writes, Hold, Goto, TypeOK, Ops, WritesOf, Holding, Stages,
     ChunkStage, ThumbStage, CompleteStage, AbortStage
<1>4. Copying(c)
  BY <1>0, Typed, Taken, Added, UploadAssumption DEF FailWrite, Updates, Writes, Hold, Goto,
     TypeOK, Ops, Open, Copying, Keeps, Reads, Starts, Puts, Made, Holding, Stages, ChunkStage,
     ThumbStage, CompleteStage, AbortStage, Assemblies
<1>5. Storing(c)
  BY <1>0, Typed, UploadAssumption DEF FailWrite, Updates, Writes, Hold, Goto, TypeOK, Ops,
     Storing, Holding, Stages, ChunkStage, ThumbStage, CompleteStage, AbortStage, Assemblies
<1>6. Assembling(c)
  BY <1>0, UploadAssumption DEF FailWrite, Updates, Writes, Hold, Goto, TypeOK, Ops, Open,
     Assembling, Filed, Made, Stages, ChunkStage, ThumbStage, CompleteStage, AbortStage,
     Assemblies
<1> QED BY <1>1, <1>2, <1>3, <1>4, <1>5, <1>6 DEF Moves

LEMMA DeleteMetaMoves ==
  ASSUME StructInv, NEW o \in Ops, DeleteMeta(o)
  PROVE  Moves(o)
<1>0. TypeOK /\ Stages /\ Assemblies
  BY DEF StructInv
<1>1. Others(o)
  BY <1>0, UploadAssumption DEF DeleteMeta, Goto, TypeOK, Ops, Others
<1>2. Turn(o)
  BY <1>0, UploadAssumption DEF DeleteMeta, Goto, TypeOK, Ops, Turn, Holding, Stages,
     ChunkStage, ThumbStage, CompleteStage, AbortStage, Assemblies
<1>3. WritesOf(o)
  BY <1>0 DEF DeleteMeta, Goto, TypeOK, Ops, WritesOf, Holding, Stages, ChunkStage, ThumbStage,
     CompleteStage, AbortStage
<1>4. Copying(o)
  BY <1>0, Typed, Taken, Added, UploadAssumption DEF DeleteMeta, Goto, TypeOK, Ops, Open,
     Copying, Keeps, Reads, Starts, Puts, Made, Holding, Stages, ChunkStage, ThumbStage,
     CompleteStage, AbortStage, Assemblies
<1>5. Storing(o)
  BY <1>0, Typed, UploadAssumption DEF DeleteMeta, Goto, TypeOK, Ops, Storing, Holding, Stages,
     ChunkStage, ThumbStage, CompleteStage, AbortStage, Assemblies
<1>6. Assembling(o)
  BY <1>0, UploadAssumption DEF DeleteMeta, Goto, TypeOK, Ops, Open, Assembling, Filed, Made,
     Stages, ChunkStage, ThumbStage, CompleteStage, AbortStage, Assemblies
<1> QED BY <1>1, <1>2, <1>3, <1>4, <1>5, <1>6 DEF Moves

LEMMA DeleteSessionMoves ==
  ASSUME StructInv, NEW o \in Ops, DeleteSession(o)
  PROVE  Moves(o)
<1>0. TypeOK /\ Stages /\ Assemblies
  BY DEF StructInv
<1>1. Others(o)
  BY <1>0, UploadAssumption DEF DeleteSession, Writes, Ends, Hold, Goto, TypeOK, Ops, Others
<1>2. Turn(o)
  BY <1>0, UploadAssumption DEF DeleteSession, Writes, Ends, Hold, Goto, TypeOK, Ops, Turn,
     Holding, Stages, ChunkStage, ThumbStage, CompleteStage, AbortStage, Assemblies
<1>3. WritesOf(o)
  BY <1>0 DEF DeleteSession, Writes, Ends, Hold, Goto, TypeOK, Ops, WritesOf, Holding, Stages,
     ChunkStage, ThumbStage, CompleteStage, AbortStage
<1>4. Copying(o)
  BY <1>0, Typed, Taken, Added, UploadAssumption DEF DeleteSession, Writes, Ends, Hold, Goto,
     TypeOK, Ops, Open, Copying, Keeps, Reads, Starts, Puts, Made, Holding, Stages, ChunkStage,
     ThumbStage, CompleteStage, AbortStage, Assemblies
<1>5. Storing(o)
  BY <1>0, Typed, UploadAssumption DEF DeleteSession, Writes, Ends, Hold, Goto, TypeOK, Ops,
     Storing, Holding, Stages, ChunkStage, ThumbStage, CompleteStage, AbortStage, Assemblies
<1>6. Assembling(o)
  BY <1>0, UploadAssumption DEF DeleteSession, Writes, Ends, Hold, Goto, TypeOK, Ops, Open,
     Assembling, Filed, Made, Stages, ChunkStage, ThumbStage, CompleteStage, AbortStage,
     Assemblies
<1> QED BY <1>1, <1>2, <1>3, <1>4, <1>5, <1>6 DEF Moves

LEMMA AbortStartMoves ==
  ASSUME StructInv, NEW a \in Ops, AbortStart(a)
  PROVE  Moves(a)
<1>0. TypeOK /\ Stages /\ Assemblies
  BY DEF StructInv
<1>1. Others(a)
  BY <1>0, UploadAssumption DEF AbortStart, Goto, TypeOK, Ops, Others
<1>2. Turn(a)
  BY <1>0, UploadAssumption DEF AbortStart, Goto, TypeOK, Ops, Turn, Holding, Stages,
     ChunkStage, ThumbStage, CompleteStage, AbortStage, Assemblies
<1>3. WritesOf(a)
  BY <1>0 DEF AbortStart, Goto, TypeOK, Ops, WritesOf, Holding, Stages, ChunkStage, ThumbStage,
     CompleteStage, AbortStage
<1>4. Copying(a)
  BY <1>0, Typed, Taken, Added, UploadAssumption DEF AbortStart, Goto, TypeOK, Ops, Open,
     Copying, Keeps, Reads, Starts, Puts, Made, Holding, Stages, ChunkStage, ThumbStage,
     CompleteStage, AbortStage, Assemblies
<1>5. Storing(a)
  BY <1>0, Typed, UploadAssumption DEF AbortStart, Goto, TypeOK, Ops, Storing, Holding, Stages,
     ChunkStage, ThumbStage, CompleteStage, AbortStage, Assemblies
<1>6. Assembling(a)
  BY <1>0, UploadAssumption DEF AbortStart, Goto, TypeOK, Ops, Open, Assembling, Filed, Made,
     Stages, ChunkStage, ThumbStage, CompleteStage, AbortStage, Assemblies
<1> QED BY <1>1, <1>2, <1>3, <1>4, <1>5, <1>6 DEF Moves

LEMMA AbortListMoves ==
  ASSUME StructInv, NEW a \in Ops, AbortList(a)
  PROVE  Moves(a)
<1>0. TypeOK /\ Stages /\ Assemblies
  BY DEF StructInv
<1>1. Others(a)
  BY <1>0, UploadAssumption DEF AbortList, Goto, Found, TypeOK, Ops, Others
<1>2. Turn(a)
  BY <1>0, UploadAssumption DEF AbortList, Goto, Found, TypeOK, Ops, Turn, Holding, Stages,
     ChunkStage, ThumbStage, CompleteStage, AbortStage, Assemblies
<1>3. WritesOf(a)
  BY <1>0 DEF AbortList, Goto, Found, TypeOK, Ops, WritesOf, Holding, Stages, ChunkStage,
     ThumbStage, CompleteStage, AbortStage
<1>4. Copying(a)
  BY <1>0, Typed, Taken, Added, UploadAssumption DEF AbortList, Goto, Found, TypeOK, Ops, Open,
     Copying, Keeps, Reads, Starts, Puts, Made, Holding, Stages, ChunkStage, ThumbStage,
     CompleteStage, AbortStage, Assemblies
<1>5. Storing(a)
  BY <1>0, Typed, UploadAssumption DEF AbortList, Goto, Found, TypeOK, Ops, Storing, Holding,
     Stages, ChunkStage, ThumbStage, CompleteStage, AbortStage, Assemblies
<1>6. Assembling(a)
  BY <1>0, UploadAssumption DEF AbortList, Goto, Found, TypeOK, Ops, Open, Assembling, Filed,
     Made, Stages, ChunkStage, ThumbStage, CompleteStage, AbortStage, Assemblies
<1> QED BY <1>1, <1>2, <1>3, <1>4, <1>5, <1>6 DEF Moves

LEMMA AbortReadMoves ==
  ASSUME StructInv, NEW a \in Ops, AbortRead(a)
  PROVE  Moves(a)
<1>0. TypeOK /\ Stages /\ Assemblies
  BY DEF StructInv
<1>t. Took(a, "mark", "marked", "done")
  BY Takings
<1>1. Others(a)
  BY <1>0, <1>t, UploadAssumption DEF AbortRead, Took, TypeOK, Ops, Others
<1>2. Turn(a)
  BY <1>0, <1>t, UploadAssumption DEF AbortRead, Took, TypeOK, Ops, Turn, Holding, Stages,
     ChunkStage, ThumbStage, CompleteStage, AbortStage, Assemblies
<1>3. WritesOf(a)
  BY <1>0 DEF AbortRead, Took, TypeOK, Ops, WritesOf, Holding, Stages, ChunkStage, ThumbStage,
     CompleteStage, AbortStage
<1>4. Copying(a)
  BY <1>0, <1>t, Typed, UploadAssumption DEF AbortRead, Took, TypeOK, Ops, Open, Copying, Keeps,
     Reads, Starts, Puts, Made, Holding, Stages, ChunkStage, ThumbStage, CompleteStage,
     AbortStage, Assemblies
<1>5. Storing(a)
  BY <1>0, <1>t, Typed, UploadAssumption DEF AbortRead, Took, TypeOK, Ops, Storing, Holding,
     Stages, ChunkStage, ThumbStage, CompleteStage, AbortStage, Assemblies
<1>6. Assembling(a)
  BY <1>0, <1>t, UploadAssumption DEF AbortRead, Took, TypeOK, Ops, Open, Assembling, Filed,
     Made, Stages, ChunkStage, ThumbStage, CompleteStage, AbortStage, Assemblies
<1> QED BY <1>1, <1>2, <1>3, <1>4, <1>5, <1>6 DEF Moves

LEMMA AbortWriteMoves ==
  ASSUME StructInv, NEW a \in Ops, AbortWrite(a)
  PROVE  Moves(a)
<1>0. TypeOK /\ Stages /\ Assemblies
  BY DEF StructInv
<1>1. Others(a)
  BY <1>0, UploadAssumption DEF AbortWrite, Updates, Writes, Hold, Goto, TypeOK, Ops, Others
<1>2. Turn(a)
  BY <1>0, UploadAssumption DEF AbortWrite, Updates, Writes, Hold, Goto, TypeOK, Ops, Turn,
     Holding, Stages, ChunkStage, ThumbStage, CompleteStage, AbortStage, Assemblies
<1>3. WritesOf(a)
  BY <1>0 DEF AbortWrite, Updates, Writes, Hold, Goto, TypeOK, Ops, WritesOf, Holding, Stages,
     ChunkStage, ThumbStage, CompleteStage, AbortStage
<1>4. Copying(a)
  BY <1>0, Typed, Taken, Added, UploadAssumption DEF AbortWrite, Updates, Writes, Hold, Goto,
     TypeOK, Ops, Open, Copying, Keeps, Reads, Starts, Puts, Made, Holding, Stages, ChunkStage,
     ThumbStage, CompleteStage, AbortStage, Assemblies
<1>5. Storing(a)
  BY <1>0, Typed, UploadAssumption DEF AbortWrite, Updates, Writes, Hold, Goto, TypeOK, Ops,
     Storing, Holding, Stages, ChunkStage, ThumbStage, CompleteStage, AbortStage, Assemblies
<1>6. Assembling(a)
  BY <1>0, UploadAssumption DEF AbortWrite, Updates, Writes, Hold, Goto, TypeOK, Ops, Open,
     Assembling, Filed, Made, Stages, ChunkStage, ThumbStage, CompleteStage, AbortStage,
     Assemblies
<1> QED BY <1>1, <1>2, <1>3, <1>4, <1>5, <1>6 DEF Moves

LEMMA JobStartMoves ==
  ASSUME StructInv, NEW a \in Ops, JobStart(a)
  PROVE  Moves(a)
<1>0. TypeOK /\ Stages /\ Assemblies
  BY DEF StructInv
<1>1. Others(a)
  BY <1>0, UploadAssumption DEF JobStart, Goto, TypeOK, Ops, Others
<1>2. Turn(a)
  BY <1>0, UploadAssumption DEF JobStart, Goto, TypeOK, Ops, Turn, Holding, Stages, ChunkStage,
     ThumbStage, CompleteStage, AbortStage, Assemblies
<1>3. WritesOf(a)
  BY <1>0 DEF JobStart, Goto, TypeOK, Ops, WritesOf, Holding, Stages, ChunkStage, ThumbStage,
     CompleteStage, AbortStage
<1>4. Copying(a)
  BY <1>0, Typed, Taken, Added, UploadAssumption DEF JobStart, Goto, TypeOK, Ops, Open, Copying,
     Keeps, Reads, Starts, Puts, Made, Holding, Stages, ChunkStage, ThumbStage, CompleteStage,
     AbortStage, Assemblies
<1>5. Storing(a)
  BY <1>0, Typed, UploadAssumption DEF JobStart, Goto, TypeOK, Ops, Storing, Holding, Stages,
     ChunkStage, ThumbStage, CompleteStage, AbortStage, Assemblies
<1>6. Assembling(a)
  BY <1>0, UploadAssumption DEF JobStart, Goto, TypeOK, Ops, Open, Assembling, Filed, Made,
     Stages, ChunkStage, ThumbStage, CompleteStage, AbortStage, Assemblies
<1> QED BY <1>1, <1>2, <1>3, <1>4, <1>5, <1>6 DEF Moves

LEMMA UndoMoves ==
  ASSUME StructInv, NEW c \in Ops, UndoRows(c) \/ UndoFile(c)
  PROVE  Moves(c)
<1>0. TypeOK /\ Stages /\ Assemblies
  BY DEF StructInv
<1>1. Others(c)
  BY <1>0, UndoShape, UploadAssumption DEF TypeOK, Ops, Others
<1>2. Turn(c)
  BY <1>0, UndoShape, UploadAssumption DEF TypeOK, Ops, Turn, Holding
<1>3. WritesOf(c)
  BY UndoShape DEF WritesOf
<1>4. Copying(c)
  BY UndoShape DEF Copying
<1>5. Storing(c)
  BY UndoShape DEF Storing
<1>6. Assembling(c)
  <2>1. /\ c \in Completers /\ pc[c] \in {"unrow", "unfile"} /\ pc'[c] \in {"unfile", "fail"}
        /\ start'[c] = start[c] /\ parts'[c] = parts[c]
    BY <1>0, UndoShape DEF TypeOK
  <2>2. c \in Filed' => c \in Filed
    <3>1. CASE doc' = doc
      BY <3>1 DEF Filed
    <3>2. CASE pc[c] = "unrow" /\ doc'[c] = IF doc[c] = "rows" THEN "none" ELSE "file"
      BY <1>0, <2>1, <3>2 DEF Filed, Assemblies
    <3>3. CASE pc[c] = "unfile" /\ doc'[c] = IF doc[c] \in {"none", "file"} THEN "none" ELSE "rows"
      BY <2>1, <3>3 DEF Filed
    <3> QED BY <1>0, <2>1, <3>1, <3>2, <3>3, UndoShape DEF TypeOK
  <2> QED BY <2>1, <2>2 DEF Assembling, Made
<1> QED BY <1>1, <1>2, <1>3, <1>4, <1>5, <1>6 DEF Moves

LEMMA SweepMoves ==
  ASSUME StructInv, NEW c \in Ops, Sweep(c)
  PROVE  Moves(c)
<1>0. TypeOK /\ Stages /\ Assemblies
  BY DEF StructInv
<1>1. /\ c \in Completers /\ cleanup[c] = "due"
      /\ \E s \in {"done", "failed"} : /\ cleanup' = [cleanup EXCEPT ![c] = s]
                                       /\ s = "done" => blob' = Nothing /\ ~thumb'
      /\ Shrinks /\ (thumb' => thumb)
      /\ UNCHANGED <<session, meta, expired, pc, snap, idx, start, parts, listed, doc, torn, strays>>
  BY Swept DEF Sweep
<1>2. Others(c)
  BY <1>0, <1>1 DEF TypeOK, Others
<1>3. Turn(c)
  BY <1>0, <1>1, UploadAssumption DEF TypeOK, Ops, Turn, Stages, ChunkStage
<1>4. WritesOf(c)
  BY <1>1 DEF WritesOf
<1>5. Copying(c)
  BY <1>0, <1>1, UploadAssumption DEF Copying, Keeps, Holding, Stages, CompleteStage
<1>6. Storing(c)
  BY <1>0, <1>1 DEF TypeOK, Storing, Unswept
<1>7. Assembling(c)
  BY <1>0, <1>1 DEF Assembling, Assemblies, Filed, Made
<1> QED BY <1>2, <1>3, <1>4, <1>5, <1>6, <1>7 DEF Moves

LEMMA AbortSweepMoves ==
  ASSUME StructInv, NEW a \in Ops, AbortSweep(a)
  PROVE  Moves(a)
<1>0. TypeOK /\ Stages /\ Assemblies
  BY DEF StructInv
<1>1. /\ a \in Aborters /\ pc[a] = "sweep" /\ pc' = [pc EXCEPT ![a] = "unmeta"]
      /\ Shrinks /\ (thumb' => thumb) /\ snap[a] = NoSession
      /\ UNCHANGED <<session, meta, expired, snap, idx, start, parts, cleanup, listed, doc, torn,
                     strays>>
  BY <1>0, Swept DEF AbortSweep, Goto, Stages, AbortStage, Holding
<1>2. Others(a)
  BY <1>0, <1>1 DEF TypeOK, Others
<1>3. Turn(a)
  BY <1>0, <1>1, UploadAssumption DEF TypeOK, Ops, Turn
<1>4. WritesOf(a) /\ Copying(a)
  BY <1>1 DEF WritesOf, Copying
<1>5. Storing(a)
  BY <1>1 DEF Storing
<1>6. Assembling(a)
  BY <1>1, UploadAssumption DEF Assembling
<1> QED BY <1>2, <1>3, <1>4, <1>5, <1>6 DEF Moves

LEMMA CrashMoves ==
  ASSUME StructInv, NEW o \in Ops, Crash(o)
  PROVE  Moves(o)
<1>0. TypeOK /\ Stages /\ Assemblies
  BY DEF StructInv
<1>1. Others(o)
  BY <1>0, CrashShape DEF TypeOK, Others
<1>2. Turn(o)
  <2>1. pc'[o] = "done" /\ strays' = strays /\ pc[o] # "idle"
    BY <1>0, CrashShape DEF TypeOK, Assemblies
  <2>2. o \in Completers => (cleanup'[o] # "none" <=> cleanup[o] # "none")
    BY <1>0, CrashShape DEF TypeOK
  <2> QED BY <2>1, <2>2 DEF Turn
<1>3. WritesOf(o)
  BY CrashShape DEF WritesOf
<1>4. Copying(o)
  BY <1>0, CrashShape DEF TypeOK, Copying
<1>5. Storing(o)
  <2>1. Shrinks /\ Sweeping(o) => ~Unswept \/ \E a \in Aborters : pc[a] = "sweep"
    BY <1>0 DEF Sweeping, Unswept, Ops, Stages, ChunkStage, ThumbStage, CompleteStage
  <2>2. \A c \in Completers : cleanup'[c] = "done" => cleanup[c] = "done"
    BY <1>0, CrashShape DEF TypeOK
  <2>3. (thumb' => thumb) /\ (blob' = blob \/ (Shrinks /\ Sweeping(o)))
    BY CrashShape
  <2> QED BY <2>1, <2>2, <2>3 DEF Storing
<1>6. Assembling(o)
  <2> SUFFICES ASSUME o \in Completers PROVE Assembling(o)
    BY DEF Assembling
  <2>1. pc'[o] = "done" /\ pc[o] # "idle" /\ doc' = doc
    BY <1>0, CrashShape DEF TypeOK, Assemblies
  <2>2. o \in Filed => start'[o] = start[o] /\ parts'[o] = parts[o]
    BY CrashShape
  <2>3. Filed' = Filed /\ (o \in Made => o \in Made')
    BY <2>1 DEF Filed, Made
  <2> QED BY <2>1, <2>2, <2>3 DEF Assembling
<1> QED BY <1>1, <1>2, <1>3, <1>4, <1>5, <1>6 DEF Moves

-----------------------------------------------------------------------------
(* The parts of the invariant that the steps preserve *)

\* What holds of the copies of a request that does not move.
LEMMA Kinds ==
  ASSUME StructInv
  PROVE  /\ \A r \in Chunkers : Holding(r) => Busy(r)
         /\ \A t \in Thumbs : Holding(t) => Busy(t) /\ pc[t] # "put"
         /\ \A c \in Completers : /\ Holding(c) => Busy(c)
                                  /\ pc[c] # "put" /\ (c \in Filed => pc[c] # "idle")
         /\ \A a \in Aborters : (Holding(a) => pc[a] \notin {"idle", "list", "mark"})
                                /\ pc[a] # "put"
BY DEF StructInv, Stages, ChunkStage, ThumbStage, CompleteStage, AbortStage, Busy, Assemblies, Filed

LEMMA MadeGrow ==
  ASSUME StructInv, NEW o \in Ops, Moves(o)
  PROVE  /\ Made \subseteq Made' /\ (Calm' => Calm)
         /\ \A q \in Ops : Holding(q)' /\ q # o => Holding(q)
<1>1. Others(o) /\ Turn(o) /\ Assembling(o)
  BY DEF Moves
<1>2. ASSUME NEW c \in Made PROVE c \in Made'
  <2>1. CASE c # o
    BY <1>1, <2>1 DEF Made, Others, Ops
  <2>2. CASE c = o
    BY <1>1, <2>2 DEF Made, Assembling
  <2> QED BY <2>1, <2>2
<1> QED BY <1>1, <1>2 DEF Turn, Calm, Others, Holding

LEMMA CompletedStep ==
  ASSUME StructInv, CompletedInv, NEW o \in Ops, Moves(o)
  PROVE  CompletedInv'
<1>1. Made \subseteq Made' /\ Others(o) /\ WritesOf(o) /\ Copying(o)
  BY MadeGrow DEF Moves
<1>2. Open' /\ session'.status = "completed" => Made' # {}
  BY <1>1 DEF CompletedInv, WritesOf, Open
<1>3. ASSUME NEW q \in Ops, Holding(q)', snap'[q].status = "completed" PROVE Made' # {}
  <2>1. CASE q # o
    BY <1>1, <1>3, <2>1 DEF Others, CompletedInv, Holding
  <2>2. CASE q = o
    BY <1>1, <1>3, <2>2 DEF Copying, Keeps, Reads, Starts, Puts, CompletedInv, Holding
  <2> QED BY <2>1, <2>2
<1> QED BY <1>2, <1>3 DEF CompletedInv

\* A chunk not in the copy leaves room for it in the byte count.
LEMMA RoomForChunk ==
  ASSUME NEW S \in SUBSET Index, NEW i \in Index \ S
  PROVE  Cardinality(S) < Total
<1>1. IsFiniteSet(Index) /\ Cardinality(Index) = Total
  <2>1. Total \in Nat /\ Total > 0  BY UploadAssumption
  <2> QED BY <2>1, FS_Interval DEF Index
<1>2. Index \ {i} \subseteq Index /\ S \subseteq Index \ {i}
  OBVIOUS
<1>3. IsFiniteSet(Index \ {i}) /\ Cardinality(Index \ {i}) = Total - 1
  BY <1>1, FS_RemoveElement
<1>4. Cardinality(S) <= Total - 1 /\ Cardinality(S) \in Nat
  BY <1>2, <1>3, FS_Subset, FS_CardinalityType
<1> QED BY <1>4, UploadAssumption

LEMMA TurnStep ==
  ASSUME StructInv, StructInv', TurnInv, NEW o \in Ops, Moves(o)
  PROVE  TurnInv'
<1> SUFFICES ASSUME Calm'
             PROVE  /\ ~Unswept' \/ (\E c \in Completers : Busy(c)') =>
                         \A q \in Chunkers \cup Thumbs : ~Busy(q)'
                    /\ \A r, q \in Chunkers : Busy(r)' /\ Busy(q)' => r = q
                    /\ \A t, q \in Thumbs : Busy(t)' /\ Busy(q)' => t = q
                    /\ \A r \in Chunkers :
                         pc'[r] # "undo" /\ (pc'[r] = "put" => idx'[r] \notin snap'[r].chunks)
  BY DEF TurnInv
<1>0. Calm /\ strays' = 0  BY MadeGrow DEF Calm
<1>1. Others(o) /\ Turn(o) /\ Copying(o)
  BY DEF Moves
<1>2. /\ ~Unswept \/ (\E c \in Completers : Busy(c)) => \A q \in Chunkers \cup Thumbs : ~Busy(q)
      /\ \A r, q \in Chunkers : Busy(r) /\ Busy(q) => r = q
      /\ \A t, q \in Thumbs : Busy(t) /\ Busy(q) => t = q
      /\ \A r \in Chunkers : pc[r] # "undo" /\ (pc[r] = "put" => idx[r] \notin snap[r].chunks)
  BY <1>0 DEF TurnInv
<1>3. \A q \in Ops \ {o} : Busy(q)' <=> Busy(q)
  BY <1>1 DEF Others, Busy
<1>4. Busy(o)' /\ ~Busy(o) =>
        /\ o \in Chunkers => ChunkInTurn(idx'[o])
        /\ o \in Thumbs => ThumbInTurn
        /\ o \in Completers => CompleteInTurn
  BY <1>0, <1>1, UploadAssumption DEF Turn, Busy
<1>5. /\ Quiet(Chunkers) => \A q \in Chunkers : ~Busy(q)
      /\ Quiet(Thumbs) => \A q \in Thumbs : ~Busy(q)
      /\ Quiet(Chunkers \cup Thumbs) => \A q \in Chunkers \cup Thumbs : ~Busy(q)
      /\ Quiet(Completers) => \A q \in Completers : ~Busy(q)
  BY DEF Quiet, InFlight, Busy
<1>b. /\ o \notin Completers => (Unswept' <=> Unswept)
      /\ Unswept' => Unswept
      /\ ~Unswept' /\ Unswept => o \in Completers /\ Busy(o)
  BY <1>1 DEF Turn, Others, Unswept, Busy
<1>6. ASSUME ~Unswept' \/ (\E c \in Completers : Busy(c)'), NEW q \in Chunkers \cup Thumbs,
             Busy(q)'
      PROVE  FALSE
  <2>0. q \in Ops /\ q \notin Completers  BY UploadAssumption DEF Ops
  <2>1. CASE q = o
    <3>1. (Unswept' <=> Unswept) /\ \A c \in Completers : Busy(c)' => Busy(c)
      BY <1>b, <1>3, <2>0, <2>1 DEF Ops
    <3>2. ~Busy(o)
      BY <1>2, <1>6, <2>1, <3>1
    <3>3. Unswept /\ Quiet(Completers)
      BY <1>4, <1>6, <2>1, <3>2 DEF ChunkInTurn, ThumbInTurn, Uploading
    <3> QED BY <1>5, <1>6, <3>1, <3>3
  <2>2. CASE q # o
    <3>1. Busy(q)
      BY <1>3, <1>6, <2>0, <2>2
    <3>2. Unswept /\ \A c \in Completers : ~Busy(c)
      BY <1>2, <3>1
    <3>3. o \in Completers /\ Unswept'
      BY <1>b, <1>3, <1>6, <3>2 DEF Ops
    <3>4. Busy(o)' /\ ~Busy(o)
      BY <1>3, <1>6, <3>2, <3>3 DEF Ops
    <3> QED BY <1>4, <1>5, <3>1, <3>3, <3>4 DEF CompleteInTurn
  <2> QED BY <2>1, <2>2
<1>7. ASSUME NEW r \in Chunkers, NEW q \in Chunkers, Busy(r)', Busy(q)', r # q PROVE FALSE
  <2>0. r \in Ops /\ q \in Ops  BY DEF Ops
  <2>1. CASE r # o /\ q # o
    BY <1>2, <1>3, <1>7, <2>0, <2>1
  <2>2. CASE r = o \/ q = o
    <3>1. o \in Chunkers /\ Busy(o)' /\ ~Busy(o)
      BY <1>2, <1>3, <1>7, <2>0, <2>2
    <3> QED BY <1>3, <1>4, <1>5, <1>7, <2>0, <2>2, <3>1 DEF ChunkInTurn
  <2> QED BY <2>1, <2>2
<1>8. ASSUME NEW r \in Thumbs, NEW q \in Thumbs, Busy(r)', Busy(q)', r # q PROVE FALSE
  <2>0. r \in Ops /\ q \in Ops  BY DEF Ops
  <2>1. CASE r # o /\ q # o
    BY <1>2, <1>3, <1>8, <2>0, <2>1
  <2>2. CASE r = o \/ q = o
    <3>1. o \in Thumbs /\ Busy(o)' /\ ~Busy(o)
      BY <1>2, <1>3, <1>8, <2>0, <2>2
    <3> QED BY <1>3, <1>4, <1>5, <1>8, <2>0, <2>2, <3>1 DEF ThumbInTurn
  <2> QED BY <2>1, <2>2
<1>9. ASSUME NEW r \in Chunkers
      PROVE  pc'[r] # "undo" /\ (pc'[r] = "put" => idx'[r] \notin snap'[r].chunks)
  <2>0. r \in Ops  BY DEF Ops
  <2>1. CASE r # o
    BY <1>1, <1>2, <2>0, <2>1 DEF Others
  <2>2. CASE r = o
    <3>1. pc'[o] # "undo"
      <4>1. SUFFICES ASSUME Holding(o), pc[o] = "put", Cardinality(snap[o].chunks) >= Total
                     PROVE  FALSE
        BY <1>1, <2>2 DEF Turn
      <4>2. idx[o] \in Index /\ snap[o].chunks \subseteq Index /\ idx[o] \notin snap[o].chunks
        BY <1>2, <2>2, <4>1, Added, Copies
      <4>3. Cardinality(snap[o].chunks) < Total
        BY <4>2, RoomForChunk
      <4>4. Cardinality(snap[o].chunks) \in Nat /\ Total \in Nat
        <5>1. IsFiniteSet(Index)
          BY UploadAssumption, FS_Interval DEF Index
        <5> QED BY <4>2, <5>1, FS_Subset, FS_CardinalityType, UploadAssumption
      <4> QED BY <4>1, <4>3, <4>4
    <3>2. ASSUME pc'[o] = "put" PROVE idx'[o] \notin snap'[o].chunks
      <4>1. snap'[o] # NoSession
        BY <2>2, <3>2 DEF StructInv, TypeOK
      <4>2. Starts(o)
        BY <1>1, <3>2, <4>1 DEF Copying, Keeps, Reads, Puts
      <4> QED BY <1>0, <1>1, <2>2, <3>2, <4>2 DEF Starts, Turn, ChunkInTurn
    <3> QED BY <2>2, <3>1, <3>2
  <2> QED BY <2>1, <2>2
<1> QED BY <1>6, <1>7, <1>8, <1>9

LEMMA KeyStep ==
  ASSUME StructInv, KeyInv, NEW o \in Ops, Moves(o)
  PROVE  KeyInv'
<1> SUFFICES ASSUME Calm'
             PROVE  /\ Open' => Keyed(session')
                    /\ \A q \in Ops : Holding(q)' =>
                         IF pc'[q] = "put" THEN 0 \in snap'[q].chunks \cup {idx'[q]}
                                           ELSE Keyed(snap'[q])
  BY DEF KeyInv, Keyed
<1>0. Calm  BY MadeGrow
<1>1. Others(o) /\ WritesOf(o) /\ Copying(o)
  BY DEF Moves
<1>2. /\ Open => Keyed(session)
      /\ \A q \in Ops : Holding(q) =>
           IF pc[q] = "put" THEN 0 \in snap[q].chunks \cup {idx[q]} ELSE Keyed(snap[q])
  BY <1>0 DEF KeyInv
<1>3. Open' => Keyed(session')
  BY <1>1, <1>2 DEF WritesOf, Open
<1>4. ASSUME NEW q \in Ops, Holding(q)'
      PROVE  IF pc'[q] = "put" THEN 0 \in snap'[q].chunks \cup {idx'[q]} ELSE Keyed(snap'[q])
  <2>1. CASE q # o
    <3>1. pc'[q] = pc[q] /\ snap'[q] = snap[q] /\ Holding(q) /\ (q \in Chunkers => idx'[q] = idx[q])
      BY <1>1, <1>4, <2>1 DEF Others, Holding
    <3>2. pc[q] = "put" => q \in Chunkers
      BY <3>1, Kinds DEF Ops
    <3> QED BY <1>2, <3>1, <3>2
  <2>2. CASE q = o
    <3>1. CASE Keeps(o)
      BY <1>2, <2>2, <3>1 DEF Keeps
    <3>2. CASE Reads(o)
      BY <1>2, <2>2, <3>2 DEF Reads, SameData, Keyed
    <3>3. CASE Starts(o)
      BY <1>2, <2>2, <3>3 DEF Starts, Keyed
    <3>4. CASE Puts(o)
      BY <1>2, <2>2, <3>4 DEF Puts, Keyed
    <3> QED BY <1>1, <1>4, <2>2, <3>1, <3>2, <3>3, <3>4 DEF Copying, Holding
  <2> QED BY <2>1, <2>2
<1> QED BY <1>3, <1>4

LEMMA UnderOrder ==
  /\ \A a : Under(a, a)
  /\ \A a, b, c : Under(a, b) /\ Under(b, c) => Under(a, c)
  /\ \A a, b, c : SameData(a, b) /\ Under(b, c) => Under(a, c)
  /\ \A a, b : SameData(a, b) => Under(a, b)
BY DEF Under, SameData

LEMMA OrderStep ==
  ASSUME StructInv, StructInv', TurnInv, KeyInv, OrderInv, NEW o \in Ops, Moves(o)
  PROVE  OrderInv'
<1> SUFFICES ASSUME Calm'
             PROVE  /\ \A r \in Chunkers : Holding(r)' =>
                         /\ Open' => Under(session', snap'[r])
                         /\ \A q \in Thumbs \cup Aborters : Holding(q)' => Under(snap'[q], snap'[r])
                    /\ Unaborted' /\ Open' =>
                         \A t \in Thumbs : Holding(t)' => Under(snap'[t], session')
  BY DEF OrderInv, Under
<1>0. Calm /\ strays' = 0  BY MadeGrow DEF Calm
<1>1. Others(o) /\ Turn(o) /\ WritesOf(o) /\ Copying(o)
  BY DEF Moves
<1>2. \A q \in Ops \ {o} : Holding(q)' => Holding(q) /\ snap'[q] = snap[q]
  BY <1>1 DEF Others, Holding
<1>3. /\ \A r, q \in Chunkers : Holding(r) /\ Holding(q) => r = q
      /\ \A t, q \in Thumbs : Holding(t) /\ Holding(q) => t = q
      /\ \A q \in Chunkers \cup Thumbs, c \in Completers : Holding(q) => ~Holding(c)
  BY <1>0, Kinds DEF TurnInv
<1>4. /\ \A r \in Chunkers : Holding(r) =>
           /\ Open => Under(session, snap[r])
           /\ \A q \in Thumbs \cup Aborters : Holding(q) => Under(snap[q], snap[r])
      /\ Unaborted /\ Open => \A t \in Thumbs : Holding(t) => Under(snap[t], session)
  BY <1>0 DEF OrderInv
<1>5. ASSUME Starts(o)
      PROVE  /\ Under(session, snap'[o]) /\ Unaborted /\ ~Holding(o)
             /\ session' = session \/ session' = NoSession
  <2>1. ChunkInTurn(idx'[o])
    BY <1>0, <1>1, <1>5 DEF Turn, Starts
  <2>2. Unaborted /\ idx'[o] \notin session.chunks /\ Open
    BY <1>5, <2>1 DEF ChunkInTurn, Uploading, Starts
  <2>3. session.chunks # {} => session.key = snap'[o].key
    BY <1>0, <1>5, <2>2 DEF KeyInv, Keyed, Starts
  <2>4. ~Holding(o)
    BY <1>5, Kinds DEF Starts, Busy
  <2> QED BY <1>1, <1>5, <2>2, <2>3, <2>4 DEF Starts, Under, WritesOf
<1>6. ASSUME NEW r \in Chunkers, Holding(r)', Open' PROVE Under(session', snap'[r])
  <2>0. r \in Ops  BY DEF Ops
  <2>1. CASE r = o
    <3>1. CASE Keeps(o)
      BY <1>1, <1>4, <1>6, <2>1, <3>1 DEF Keeps, WritesOf, Open, Holding
    <3>2. CASE Starts(o)
      BY <1>5, <1>6, <2>1, <3>2 DEF Open
    <3>3. CASE Puts(o)
      <4>1. session' = session \/ session' = NoSession
        BY <1>1, <3>3 DEF Puts, WritesOf
      <4> QED BY <1>4, <1>6, <2>1, <3>3, <4>1 DEF Puts, Under, Open
    <3> QED BY <1>1, <1>6, <2>1, <3>1, <3>2, <3>3 DEF Copying, Reads, Holding
  <2>2. CASE r # o
    <3>1. Holding(r) /\ snap'[r] = snap[r]
      BY <1>2, <1>6, <2>0, <2>2
    <3>2. CASE session' = session
      BY <1>4, <1>6, <3>1, <3>2 DEF Open
    <3>3. CASE Holding(o) /\ session' = snap[o]
      <4>1. o \in Thumbs \cup Aborters
        BY <1>3, <2>2, <3>1, <3>3 DEF Ops
      <4> QED BY <1>4, <3>1, <3>3, <4>1
    <3> QED BY <1>1, <1>6, <3>2, <3>3 DEF WritesOf, Open
  <2> QED BY <2>1, <2>2
<1>7. ASSUME NEW r \in Chunkers, Holding(r)', NEW q \in Thumbs \cup Aborters, Holding(q)'
      PROVE  Under(snap'[q], snap'[r])
  <2>0. r \in Ops /\ q \in Ops /\ q # r /\ q \notin Chunkers  BY UploadAssumption DEF Ops
  <2>1. CASE r = o
    <3>1. Holding(q) /\ snap'[q] = snap[q]
      BY <1>2, <1>7, <2>0, <2>1
    <3>2. CASE Keeps(o)
      BY <1>4, <1>7, <2>1, <3>1, <3>2 DEF Keeps
    <3>3. CASE Starts(o)
      <4>1. q \in Thumbs
        BY <1>5, <3>1, <3>3, Kinds DEF Unaborted
      <4>2. Under(snap[q], session)
        BY <1>4, <1>5, <3>1, <3>3, <4>1 DEF Starts
      <4> QED BY <1>5, <2>1, <3>1, <3>3, <4>2, UnderOrder
    <3>4. CASE Puts(o)
      <4>1. Under(snap[q], snap[o])
        BY <1>4, <1>7, <2>1, <3>1, <3>4 DEF Puts
      <4> QED BY <2>1, <3>1, <3>4, <4>1 DEF Puts, Under
    <3> QED BY <1>1, <1>7, <2>1, <3>2, <3>3, <3>4 DEF Copying, Reads, Holding
  <2>2. CASE r # o
    <3>1. Holding(r) /\ snap'[r] = snap[r]
      BY <1>2, <1>7, <2>0, <2>2
    <3>2. CASE q # o
      BY <1>2, <1>4, <1>7, <2>0, <3>1, <3>2
    <3>3. CASE q = o
      <4>1. CASE Keeps(o)
        BY <1>4, <1>7, <3>1, <3>3, <4>1 DEF Keeps
      <4>2. CASE Reads(o)
        BY <1>4, <3>1, <3>3, <4>2, UnderOrder DEF Reads
      <4> QED BY <1>1, <1>7, <2>0, <3>3, <4>1, <4>2 DEF Copying, Starts, Puts, Holding
    <3> QED BY <3>2, <3>3
  <2> QED BY <2>1, <2>2
<1>8. ASSUME Unaborted', Open', NEW t \in Thumbs, Holding(t)'
      PROVE  Under(snap'[t], session')
  <2>0. t \in Ops /\ t \notin Chunkers  BY UploadAssumption DEF Ops
  <2>1. Unaborted
    <3>1. \A a \in Aborters : pc[a] = "idle"
      BY <1>1, <1>8 DEF Unaborted, Others, Turn, Ops
    <3> QED BY <3>1 DEF Unaborted
  <2>2. CASE t = o
    <3>1. session' = session
      BY <1>1, <1>8, <2>2 DEF WritesOf, Open, Holding
    <3>2. CASE Keeps(o)
      BY <1>4, <1>8, <2>1, <2>2, <3>1, <3>2 DEF Keeps, Open
    <3>3. CASE Reads(o)
      BY <2>2, <3>1, <3>3, UnderOrder DEF Reads
    <3> QED BY <1>1, <1>8, <2>0, <2>2, <3>2, <3>3 DEF Copying, Starts, Puts, Holding
  <2>3. CASE t # o
    <3>1. Holding(t) /\ snap'[t] = snap[t]
      BY <1>2, <1>8, <2>0, <2>3
    <3>2. CASE session' = session
      BY <1>4, <1>8, <2>1, <3>1, <3>2 DEF Open
    <3>3. CASE Holding(o) /\ session' = snap[o]
      <4>1. o \notin Aborters
        BY <2>1, <3>3, Kinds DEF Unaborted
      <4>2. o \in Chunkers
        BY <1>3, <2>3, <3>1, <3>3, <4>1 DEF Ops
      <4> QED BY <1>4, <3>1, <3>3, <4>2
    <3> QED BY <1>1, <1>8, <3>2, <3>3 DEF WritesOf, Open
  <2> QED BY <2>2, <2>3
<1> QED BY <1>6, <1>7, <1>8

\* What a chunk puts in the storage is in no other copy of the session yet.
LEMMA PutInNoCopy ==
  ASSUME StructInv, TurnInv, OrderInv, Calm, NEW o \in Chunkers, pc[o] = "put", Holding(o)
  PROVE  /\ Open => idx[o] \notin session.chunks
         /\ \A q \in Ops : Holding(q) => idx[o] \notin snap[q].chunks
<1>1. idx[o] \notin snap[o].chunks /\ Busy(o)
  BY DEF TurnInv, Busy
<1>2. Open => idx[o] \notin session.chunks
  BY <1>1 DEF OrderInv, Under
<1>3. ASSUME NEW q \in Ops, Holding(q) PROVE idx[o] \notin snap[q].chunks
  <2>1. CASE q \in Thumbs \cup Aborters
    BY <1>1, <1>3, <2>1 DEF OrderInv, Under
  <2>2. CASE q \in Chunkers
    BY <1>1, <1>3, <2>2, Kinds DEF TurnInv
  <2>3. CASE q \in Completers
    BY <1>1, <1>3, <2>3, Kinds DEF TurnInv
  <2> QED BY <2>1, <2>2, <2>3 DEF Ops
<1> QED BY <1>2, <1>3

\* A step never gives a recorded chunk another key, and takes chunks away only
\* in a cleanup.
LEMMA BlobsKept ==
  ASSUME StructInv, TurnInv, OrderInv, Calm, NEW o \in Ops, Moves(o), NEW s,
         (s = session /\ Open) \/ \E q \in Ops : Holding(q) /\ s = snap[q]
  PROVE  \A i \in s.chunks : blob'[i] \in {blob[i], NoKey}
<1>0. s \in Session
  BY Typed DEF Holding
<1>1. s.chunks \subseteq Index
  BY <1>0, Copies
<1>2. Storing(o)  BY DEF Moves
<1>3. CASE Shrinks
  BY <1>1, <1>3 DEF Shrinks
<1>4. CASE /\ o \in Chunkers /\ pc[o] = "put" /\ Holding(o) /\ snap[o].key # NoKey
           /\ idx[o] \in Index /\ blob' = [blob EXCEPT ![idx[o]] = snap[o].key]
  <2>1. idx[o] \notin s.chunks
    BY <1>4, PutInNoCopy
  <2> QED BY <1>1, <1>4, <2>1 DEF StructInv, TypeOK
<1>5. ~(o \in Chunkers /\ pc[o] = "undo")
  BY DEF TurnInv
<1> QED BY <1>2, <1>3, <1>4, <1>5 DEF Storing

\* The keys under which the chunks of a copy may be stored.
LEMMA NewCopies ==
  ASSUME StructInv, KeyInv, Calm', NEW o \in Ops, Moves(o), Holding(o)'
  PROVE  \/ Keeps(o)
         \/ Open /\ snap'[o].chunks = session.chunks
            /\ (session.chunks # {} => snap'[o].key = session.key)
         \/ Puts(o)
<1>1. CASE Starts(o)
  <2>1. ChunkInTurn(idx'[o]) /\ Calm
    BY <1>1, MadeGrow DEF Moves, Turn, Starts, Calm
  <2>2. session.chunks # {} => session.key = snap'[o].key
    BY <1>1, <2>1 DEF KeyInv, Keyed, Starts, ChunkInTurn
  <2> QED BY <1>1, <2>2 DEF Starts
<1>2. CASE Reads(o)
  BY <1>2 DEF Reads, SameData
<1> QED BY <1>1, <1>2 DEF Moves, Copying, Holding

LEMMA ValidStep ==
  ASSUME StructInv, TurnInv, KeyInv, OrderInv, ValidInv, NEW o \in Ops, Moves(o)
  PROVE  ValidInv'
<1> SUFFICES ASSUME Calm'
             PROVE  /\ Open' => Valid(session)'
                    /\ \A q \in Ops : Holding(q)' => \A i \in snap'[q].chunks :
                         blob'[i] \in {snap'[q].key, NoKey}
  BY DEF ValidInv, Valid
<1>0. Calm  BY MadeGrow
<1>1. Others(o) /\ WritesOf(o)  BY DEF Moves
<1>2. /\ Open => \A i \in session.chunks : blob'[i] \in {session.key, NoKey}
      /\ \A q \in Ops : Holding(q) => \A i \in snap[q].chunks : blob'[i] \in {snap[q].key, NoKey}
  BY <1>0, BlobsKept DEF ValidInv, Valid
<1>3. Open' => Valid(session)'
  BY <1>1, <1>2 DEF WritesOf, Open, Valid
<1>4. ASSUME NEW q \in Ops, Holding(q)', NEW i \in snap'[q].chunks
      PROVE  blob'[i] \in {snap'[q].key, NoKey}
  <2>1. CASE q # o
    BY <1>1, <1>2, <1>4, <2>1 DEF Others, Holding
  <2>2. CASE q = o
    <3>1. CASE Keeps(o)
      BY <1>2, <1>4, <2>2, <3>1 DEF Keeps
    <3>2. CASE Puts(o)
      <4>1. blob'[idx[o]] = snap[o].key
        BY <3>2 DEF Puts, StructInv, TypeOK
      <4> QED BY <1>2, <1>4, <2>2, <3>2, <4>1 DEF Puts
    <3> QED BY <1>2, <1>4, <2>2, <3>1, <3>2, NewCopies
  <2> QED BY <2>1, <2>2
<1> QED BY <1>3, <1>4

LEMMA StoredStep ==
  ASSUME StructInv, TurnInv, KeyInv, OrderInv, StoredInv, NEW o \in Ops, Moves(o)
  PROVE  StoredInv'
<1> SUFFICES ASSUME Standing'
             PROVE  /\ Open' => Stored(session)'
                    /\ \A q \in Ops : Holding(q)' => \A i \in snap'[q].chunks : blob'[i] # NoKey
  BY DEF StoredInv, Stored
<1>1. Others(o) /\ WritesOf(o) /\ Turn(o) /\ Storing(o)  BY DEF Moves
<1>0. Calm /\ Calm' /\ Standing
  <2>1. \A a \in Aborters : pc[a] \in {"idle", "list", "mark"}
    BY <1>1 DEF Standing, Others, Turn, Ops
  <2>2. Unswept
    BY <1>1 DEF Standing, Others, Turn, Unswept
  <2> QED BY <2>1, <2>2, MadeGrow DEF Standing
<1>2. /\ Open => \A i \in session.chunks : blob'[i] # NoKey
      /\ \A q \in Ops : Holding(q) => \A i \in snap[q].chunks : blob'[i] # NoKey
  <2>1. /\ Open => \A i \in session.chunks : blob[i] # NoKey
        /\ \A q \in Ops : Holding(q) => \A i \in snap[q].chunks : blob[i] # NoKey
    BY <1>0 DEF StoredInv, Stored
  <2>2. CASE blob' = blob
    BY <2>1, <2>2
  <2>3. CASE o \in Chunkers /\ pc[o] = "put" /\ Holding(o) /\ snap[o].key # NoKey
             /\ idx[o] \in Index /\ blob' = [blob EXCEPT ![idx[o]] = snap[o].key]
    <3>1. \A i : i # idx[o] => (i \in Index => blob'[i] = blob[i])
      BY <2>3 DEF StructInv, TypeOK
    <3>2. \A s \in Session : s.chunks \subseteq Index
      BY Copies
    <3> QED BY <1>0, <2>1, <2>3, <3>1, <3>2, PutInNoCopy, Typed DEF Holding
  <2>4. ~(~Unswept \/ \E a \in Aborters : pc[a] = "sweep") /\ ~(o \in Chunkers /\ pc[o] = "undo")
    BY <1>0 DEF Standing, TurnInv
  <2> QED BY <1>1, <2>2, <2>3, <2>4 DEF Storing
<1>3. Open' => Stored(session)'
  BY <1>1, <1>2 DEF WritesOf, Open, Stored
<1>4. ASSUME NEW q \in Ops, Holding(q)', NEW i \in snap'[q].chunks
      PROVE  blob'[i] # NoKey
  <2>1. CASE q # o
    BY <1>1, <1>2, <1>4, <2>1 DEF Others, Holding
  <2>2. CASE q = o
    <3>1. CASE Keeps(o)
      BY <1>2, <1>4, <2>2, <3>1 DEF Keeps
    <3>2. CASE Puts(o)
      <4>1. blob'[idx[o]] = snap[o].key
        BY <3>2 DEF Puts, StructInv, TypeOK
      <4> QED BY <1>2, <1>4, <2>2, <3>2, <4>1 DEF Puts
    <3> QED BY <1>0, <1>2, <1>4, <2>2, <3>1, <3>2, NewCopies
  <2> QED BY <2>1, <2>2
<1> QED BY <1>3, <1>4

LEMMA AgreedStep ==
  ASSUME StructInv, TurnInv, TurnInv', AgreedInv, NEW o \in Ops, Moves(o)
  PROVE  AgreedInv'
<1> SUFFICES ASSUME Calm', NEW d \in Completers, Busy(d)'
             PROVE  \E k \in Keys :
                      /\ Open' => session'.key = k
                      /\ \A q \in Ops : Holding(q)' => snap'[q].key = k
                      /\ \A c \in Completers : Busy(c)' /\ pc'[c] # "failed" => start'[c].key = k
  BY DEF AgreedInv
<1>0. Calm /\ strays' = 0  BY MadeGrow DEF Calm
<1>1. Others(o) /\ WritesOf(o) /\ Turn(o) /\ Assembling(o) /\ Copying(o)
  BY DEF Moves
<1>2. ~Starts(o) /\ ~Puts(o)
  BY DEF TurnInv, Busy, Starts, Puts
<1>3. CASE \E c \in Completers : Busy(c)
  <2>1. PICK k \in Keys :
          /\ Open => session.key = k
          /\ \A q \in Ops : Holding(q) => snap[q].key = k
          /\ \A c \in Completers : Busy(c) /\ pc[c] # "failed" => start[c].key = k
    BY <1>0, <1>3 DEF AgreedInv
  <2>2. Open' => session'.key = k
    BY <1>1, <2>1 DEF WritesOf, Open
  <2>3. ASSUME NEW q \in Ops, Holding(q)' PROVE snap'[q].key = k
    <3>1. CASE q # o
      BY <1>1, <2>1, <2>3, <3>1 DEF Others, Holding
    <3>2. CASE q = o
      BY <1>1, <1>2, <2>1, <2>3, <3>2 DEF Copying, Keeps, Reads, SameData, Holding
    <3> QED BY <3>1, <3>2
  <2>4. ASSUME NEW c \in Completers, Busy(c)', pc'[c] # "failed" PROVE start'[c].key = k
    <3>0. c \in Ops  BY DEF Ops
    <3>1. CASE c # o
      BY <1>1, <2>1, <2>4, <3>0, <3>1 DEF Others, Busy
    <3>2. CASE c = o /\ pc[o] = "idle"
      BY <1>1, <2>1, <2>4, <3>2 DEF Assembling, Busy
    <3>3. CASE c = o /\ pc[o] # "idle"
      <4>1. Busy(o) /\ pc[o] # "failed" /\ start'[o] = start[o]
        BY <1>1, <2>4, <3>3 DEF Assembling, Turn, Busy
      <4> QED BY <2>1, <3>3, <4>1
    <3> QED BY <3>1, <3>2, <3>3
  <2> QED BY <2>2, <2>3, <2>4
<1>4. CASE ~ \E c \in Completers : Busy(c)
  <2>1. o \in Completers /\ pc[o] = "idle" /\ \A c \in Completers \ {o} : ~Busy(c)'
    BY <1>1, <1>4 DEF Others, Turn, Busy, Ops
  <2>2. Busy(o)'
    BY <2>1
  <2>3. CompleteInTurn /\ Open /\ start'[o].key = session.key
    BY <1>0, <1>1, <2>1, <2>2 DEF Turn, Assembling, Busy
  <2>4. \A q \in Ops : ~Holding(q)
    BY <1>4, <2>3, Kinds DEF CompleteInTurn, Quiet, InFlight, Unaborted, Busy, Ops
  <2>5. session.key \in Keys
    BY <2>3, Taken
  <2>6. \A q \in Ops : Holding(q)' => snap'[q].key = session.key
    BY <1>1, <1>2, <2>4 DEF Others, Copying, Keeps, Reads, SameData, Holding
  <2>7. Open' => session'.key = session.key
    BY <1>1, <2>1, <2>4 DEF WritesOf, Open, Ops
  <2> QED BY <2>1, <2>3, <2>5, <2>6, <2>7
<1> QED BY <1>3, <1>4

\* While an assembly is busy nothing but a cleanup touches the chunks.
LEMMA BlobsOnlyGo ==
  ASSUME StructInv, TurnInv, Calm, NEW o \in Ops, Moves(o),
         ~Unswept \/ \E c \in Completers : Busy(c)
  PROVE  Shrinks /\ (thumb' => thumb)
<1>1. \A q \in Chunkers \cup Thumbs : ~Busy(q)
  BY DEF TurnInv
<1> QED BY <1>1 DEF Moves, Storing, Busy, Shrinks

LEMMA PartsStep ==
  ASSUME StructInv, TurnInv, ValidInv, AgreedInv, PartsInv, NEW o \in Ops, Moves(o)
  PROVE  PartsInv'
<1> SUFFICES ASSUME Calm', NEW c \in Completers
             PROVE  /\ pc'[c] \in {"begin", "assemble", "list", "read", "store"} =>
                         start'[c].key # NoKey
                    /\ pc'[c] \in {"read", "store"} => \A i \in Index :
                         /\ blob'[i] \in {start'[c].key, NoKey}
                         /\ parts'[c][i] \in {start'[c].key, NoKey}
  BY DEF PartsInv
<1>0. Calm /\ c \in Ops  BY MadeGrow DEF Ops
<1>1. Others(o) /\ Assembling(o)
  BY DEF Moves
<1>2. /\ pc[c] \in {"begin", "assemble", "list", "read", "store"} => start[c].key # NoKey
      /\ pc[c] \in {"read", "store"} => \A i \in Index :
           blob[i] \in {start[c].key, NoKey} /\ parts[c][i] \in {start[c].key, NoKey}
  BY <1>0 DEF PartsInv
<1>3. Busy(c) => \A i \in Index : blob'[i] \in {blob[i], NoKey}
  BY <1>0, BlobsOnlyGo DEF Shrinks
<1>4. \A i \in Index : Nothing[i] = NoKey
  BY DEF Nothing
<1>5. CASE c # o
  BY <1>0, <1>1, <1>2, <1>3, <1>5 DEF Others, Busy
<1>6. CASE c = o
  <2>1. CASE pc[o] = "idle"
    BY <1>1, <1>6, <2>1 DEF Assembling
  <2>2. ASSUME pc[o] # "idle", pc'[o] \in {"begin", "assemble", "list", "read", "store"}
        PROVE  start'[o] = start[o] /\ start[o].key # NoKey /\ Busy(o)
    BY <1>1, <1>2, <1>6, <2>2 DEF Assembling, Busy
  <2>3. ASSUME pc[o] # "idle", pc'[o] \in {"read", "store"}, NEW i \in Index
        PROVE  blob'[i] \in {start[o].key, NoKey} /\ parts'[o][i] \in {start[o].key, NoKey}
    <3>1. CASE pc[o] = "list"
      <4>1. Open /\ session.chunks = Index /\ blob' = blob /\ parts'[o] = Nothing
        BY <1>1, <1>6, <2>3, <3>1 DEF Assembling
      <4>2. session.key = start[o].key
        BY <1>0, <1>6, <3>1, <4>1 DEF AgreedInv, Busy
      <4> QED BY <1>0, <1>4, <2>3, <4>1, <4>2 DEF ValidInv, Valid
    <3>2. CASE pc[o] # "list"
      <4>1. pc[o] \in {"read", "store"} /\ parts'[o][i] \in {parts[o][i], blob[i]}
        BY <1>1, <1>6, <2>3, <3>2 DEF Assembling
      <4> QED BY <1>2, <1>3, <1>6, <2>3, <4>1 DEF Busy
    <3> QED BY <3>1, <3>2
  <2> QED BY <1>6, <2>1, <2>2, <2>3
<1> QED BY <1>5, <1>6

LEMMA ReadableStep ==
  ASSUME StructInv, PartsInv, DocumentReadable, NEW o \in Ops, Moves(o)
  PROVE  DocumentReadable'
<1> SUFFICES ASSUME Calm', NEW c \in Filed'
             PROVE  \A i \in Index : parts'[c][i] = start'[c].key
  BY DEF DocumentReadable, Calm
<1>0. Calm /\ c \in Completers /\ c \in Ops  BY MadeGrow DEF Filed, Ops
<1>1. Others(o) /\ Assembling(o)
  BY DEF Moves
<1>2. CASE c \in Filed
  <2>1. pc[c] # "idle"
    BY <1>2, <1>0, Kinds
  <2>2. parts'[c] = parts[c] /\ start'[c] = start[c]
    BY <1>0, <1>1, <1>2, <2>1 DEF Others, Assembling
  <2> QED BY <1>0, <1>2, <2>2 DEF DocumentReadable, Calm
<1>3. CASE c \notin Filed
  <2>1. c = o
    BY <1>0, <1>1, <1>3 DEF Others, Filed
  <2>2. /\ pc[o] = "store" /\ parts'[o] = parts[o] /\ start'[o] = start[o]
        /\ \A i \in Index : parts[o][i] # NoKey
    BY <1>0, <1>1, <1>3, <2>1 DEF Assembling
  <2> QED BY <1>0, <2>1, <2>2 DEF PartsInv
<1> QED BY <1>2, <1>3

LEMMA LeftStep ==
  ASSUME StructInv, StructInv', TurnInv, NoLeftovers, NEW o \in Ops, Moves(o)
  PROVE  NoLeftovers'
<1> SUFFICES ASSUME Calm', NEW c \in Completers, cleanup'[c] = "done"
             PROVE  blob' = Nothing /\ ~thumb'
  BY DEF NoLeftovers, Calm
<1>0. Calm  BY MadeGrow
<1>1. CASE cleanup[c] = "done"
  <2>1. blob = Nothing /\ ~thumb
    BY <1>0, <1>1 DEF NoLeftovers, Calm
  <2>2. Shrinks /\ ~thumb'
    BY <1>0, <1>1, <2>1, BlobsOnlyGo DEF Unswept
  <2>3. \A i \in Index : blob'[i] = NoKey
    BY <2>1, <2>2 DEF Shrinks, Nothing
  <2>4. blob' = Nothing
    BY <2>3 DEF StructInv, TypeOK, Nothing
  <2> QED BY <2>2, <2>4
<1>2. CASE cleanup[c] # "done"
  BY <1>2 DEF Moves, Storing
<1> QED BY <1>1, <1>2

-----------------------------------------------------------------------------
(* The invariant, and what it says of the upload *)

ClientInv == /\ CompletedInv /\ TurnInv /\ KeyInv /\ OrderInv /\ ValidInv /\ StoredInv
             /\ AgreedInv /\ PartsInv /\ DocumentReadable /\ NoLeftovers

LEMMA UploadInit ==
  ASSUME Init
  PROVE  StructInv /\ ClientInv
<1>1. StructInv
  BY StructInit
<1>2. /\ \A o \in Ops : ~Holding(o) /\ ~Busy(o) /\ pc[o] = "idle"
      /\ session.chunks = {} /\ session.key = NoKey /\ session.status = "initiated" /\ Unswept /\ Filed = {}
      /\ \A c \in Completers : cleanup[c] = "none" /\ ~Busy(c) /\ pc[c] = "idle"
      /\ \A r \in Chunkers \cup Thumbs : ~Busy(r) /\ pc[r] = "idle" /\ ~Holding(r)
  BY DEF Init, Holding, Busy, Ops, Unswept, Filed
<1>3. CompletedInv
  BY <1>2 DEF CompletedInv
<1>4. TurnInv
  BY <1>2 DEF TurnInv
<1>5. KeyInv /\ OrderInv
  BY <1>2 DEF KeyInv, OrderInv, Keyed
<1>6. ValidInv /\ StoredInv
  BY <1>2 DEF ValidInv, StoredInv, Valid, Stored
<1>7. AgreedInv /\ PartsInv
  BY <1>2 DEF AgreedInv, PartsInv
<1>8. DocumentReadable /\ NoLeftovers
  BY <1>2 DEF DocumentReadable, NoLeftovers
<1> QED BY <1>1, <1>3, <1>4, <1>5, <1>6, <1>7, <1>8 DEF ClientInv

\* What leaves the requests alone and at most takes the session away.
LEMMA AloneClient ==
  ASSUME ClientInv, session' = session \/ session' = NoSession,
         UNCHANGED <<blob, thumb, pc, snap, idx, start, parts, cleanup, doc, strays>>
  PROVE  ClientInv'
<1>1. /\ Open' => Open /\ session' = session
      /\ (Calm' <=> Calm) /\ (Standing' <=> Standing) /\ (Unaborted' <=> Unaborted)
      /\ (Unswept' <=> Unswept) /\ Made' = Made /\ Filed' = Filed
      /\ \A o \in Ops : (Holding(o)' <=> Holding(o))
  BY DEF Open, Calm, Standing, Unswept, Unaborted, Holding, Made, Filed
<1>2. CompletedInv'
  BY <1>1 DEF ClientInv, CompletedInv
<1>3. TurnInv'
  BY <1>1 DEF ClientInv, TurnInv, Busy
<1>4. KeyInv'
  BY <1>1 DEF ClientInv, KeyInv, Keyed
<1>5. OrderInv'
  BY <1>1, UploadAssumption DEF ClientInv, OrderInv, Under, Ops
<1>6. ValidInv' /\ StoredInv'
  BY <1>1 DEF ClientInv, ValidInv, StoredInv, Valid, Stored
<1>7. AgreedInv'
  BY <1>1 DEF ClientInv, AgreedInv, Busy
<1>8. PartsInv'
  BY <1>1 DEF ClientInv, PartsInv
<1>9. DocumentReadable' /\ NoLeftovers'
  BY <1>1 DEF ClientInv, DocumentReadable, NoLeftovers
<1> QED BY <1>2, <1>3, <1>4, <1>5, <1>6, <1>7, <1>8, <1>9 DEF ClientInv

LEMMA StepMoves ==
  ASSUME StructInv, NEW o \in Ops, Step(o) \/ Crash(o)
  PROVE  StructInv' /\ Moves(o)
<1>1. CASE ChunkStart(o) \/ ChunkPut(o) \/ ChunkUndo(o) \/ RecordSession(o) \/ RecordMeta(o) \/
          ThumbStart(o) \/ ThumbPut(o) \/ ThumbGet(o) \/ ThumbSet(o)
  BY <1>1, ChunkStartStruct, ChunkStartMoves, ChunkPutStruct, ChunkPutMoves, ChunkUndoStruct,
     ChunkUndoMoves, RecordSessionStruct, RecordSessionMoves, RecordMetaStruct, RecordMetaMoves,
     ThumbStartStruct, ThumbStartMoves, ThumbPutStruct, ThumbPutMoves, ThumbGetStruct,
     ThumbGetMoves, ThumbSetStruct, ThumbSetMoves
<1>2. CASE CompleteStart(o) \/ AssembleRead(o) \/ AssembleWrite(o) \/ List(o) \/ Download(o) \/
          AssemblyFails(o) \/ InsertRows(o) \/ StoreFile(o) \/ StoreFails(o) \/
          UndoRows(o) \/ UndoFile(o)
  BY <1>2, CompleteStartStruct, CompleteStartMoves, AssembleReadStruct, AssembleReadMoves,
     AssembleWriteStruct, AssembleWriteMoves, ListStruct, ListMoves, DownloadStruct, DownloadMoves,
     AssemblyFailsStruct, AssemblyFailsMoves, InsertRowsStruct, InsertRowsMoves,
     StoreFileStruct, StoreFileMoves, StoreFailsStruct, StoreFailsMoves, UndoStruct, UndoMoves
<1>3. CASE ApplyThumb(o) \/ Sweep(o) \/ FinishRead(o) \/ FinishWrite(o) \/ FailRead(o) \/
          FailWrite(o) \/ DeleteMeta(o) \/ DeleteSession(o)
  BY <1>3, ApplyThumbStruct, ApplyThumbMoves, SweepStruct, SweepMoves, FinishReadStruct,
     FinishReadMoves, FinishWriteStruct, FinishWriteMoves, FailReadStruct, FailReadMoves,
     FailWriteStruct, FailWriteMoves, DeleteMetaStruct, DeleteMetaMoves, DeleteSessionStruct,
     DeleteSessionMoves
<1>4. CASE AbortStart(o) \/ AbortList(o) \/ AbortRead(o) \/ AbortWrite(o) \/ AbortSweep(o) \/
          JobStart(o)
  BY <1>4, AbortStartStruct, AbortStartMoves, AbortListStruct, AbortListMoves, AbortReadStruct,
     AbortReadMoves, AbortWriteStruct, AbortWriteMoves, AbortSweepStruct, AbortSweepMoves,
     JobStartStruct, JobStartMoves
<1>5. CASE Crash(o)
  BY <1>5, CrashStruct, CrashMoves
<1> QED BY <1>1, <1>2, <1>3, <1>4, <1>5 DEF Step

LEMMA UploadNext ==
  ASSUME StructInv, ClientInv, [Next]_vars
  PROVE  StructInv' /\ ClientInv'
<1>1. CASE Expire \/ Forget \/ Evict
  BY <1>1, GoneShape, GoneStruct, AloneClient
<1>2. ASSUME NEW o \in Ops, Step(o) \/ Crash(o) PROVE StructInv' /\ ClientInv'
  <2>1. StructInv' /\ Moves(o)
    BY <1>2, StepMoves
  <2>2. CompletedInv' /\ TurnInv' /\ KeyInv'
    BY <2>1, CompletedStep, TurnStep, KeyStep DEF ClientInv
  <2>3. OrderInv' /\ ValidInv' /\ StoredInv'
    BY <2>1, OrderStep, ValidStep, StoredStep DEF ClientInv
  <2>4. AgreedInv' /\ PartsInv'
    BY <2>1, <2>2, AgreedStep, PartsStep DEF ClientInv
  <2>5. DocumentReadable' /\ NoLeftovers'
    BY <2>1, ReadableStep, LeftStep DEF ClientInv
  <2> QED BY <2>1, <2>2, <2>3, <2>4, <2>5 DEF ClientInv
<1>3. CASE UNCHANGED vars
  <2>1. StructInv'
    BY <1>3 DEF vars, StructInv, TypeOK, Stages, ChunkStage, ThumbStage, CompleteStage, AbortStage,
       Assemblies, Holding
  <2>2. ClientInv'
    BY <1>3, AloneClient DEF vars
  <2> QED BY <2>1, <2>2
<1> QED BY <1>1, <1>2, <1>3 DEF Next

LEMMA UploadInvariant == Spec => [](StructInv /\ ClientInv)
<1>1. Init => StructInv /\ ClientInv
  BY UploadInit
<1>2. StructInv /\ ClientInv /\ [Next]_vars => (StructInv /\ ClientInv)'
  BY UploadNext
<1> QED BY <1>1, <1>2, PTL DEF Spec

\* Every step keeps the session, the storage and the requests' variables in
\* their types, faults included.
THEOREM Typing == Spec => []TypeOK
<1>1. StructInv /\ ClientInv => TypeOK
  BY DEF StructInv
<1> QED BY <1>1, UploadInvariant, PTL

\* No copy of the session, however stale, says completed before there is a
\* document with its file: true of any client, and whatever the cache loses.
THEOREM CompletedIsTrue == Spec => []CompletedMeansDocument
<1>1. StructInv /\ ClientInv => CompletedMeansDocument
  BY DEF ClientInv, CompletedInv, Made, CompletedMeansDocument
<1> QED BY <1>1, UploadInvariant, PTL

\* For a client that keeps to the documented order: a stored file, and before
\* any cleanup the recorded chunks, can be decrypted with the key that goes with
\* them, although every request writes back a whole copy of the session and the
\* cache may drop any read, write or entry.
THEOREM UploadReadable == Spec => []Readable
<1>1. ASSUME StructInv, ClientInv PROVE Readable
  <2>1. ASSUME strays = 0, Open, Unswept, \A a \in Aborters : pc[a] \in {"idle", "list", "mark"},
               NEW i \in session.chunks
        PROVE  blob[i] = session.key /\ blob[i] # NoKey
    <3>1. Calm /\ Standing
      BY <2>1 DEF Calm, Standing
    <3> QED BY <1>1, <2>1, <3>1 DEF ClientInv, ValidInv, Valid, StoredInv, Stored
  <2>2. RecordedReadable
    BY <2>1 DEF RecordedReadable
  <2> QED BY <1>1, <2>2 DEF Readable, ClientInv
<1> QED BY <1>1, UploadInvariant, PTL

\* For a client that keeps to the documented order, nothing is in the folder
\* once a cleanup ran without a failed delete, whatever else failed before or after.
THEOREM FolderEmptied == Spec => []NoLeftovers
<1>1. StructInv /\ ClientInv => NoLeftovers
  BY DEF ClientInv
<1> QED BY <1>1, UploadInvariant, PTL

\* Rows without a file, and a file without rows, are left behind only by an
\* instance that stopped or a compensating delete that failed: true of any client.
THEOREM HalvesAccounted == Spec => []HalfOnlyTorn
<1>1. ASSUME StructInv, NEW c \in Completers \ torn, doc[c] \in {"rows", "file"}
      PROVE  pc[c] \in {"store", "unrow", "unfile"}
  BY <1>1 DEF StructInv, Stages, CompleteStage, Assemblies
<1>2. StructInv /\ ClientInv => HalfOnlyTorn
  BY <1>1 DEF HalfOnlyTorn
<1> QED BY <1>2, UploadInvariant, PTL

=============================================================================
