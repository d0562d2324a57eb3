--------------------------- MODULE FolderSharing ----------------------------
(***************************************************************************)
(* Sharing of folders with users of the same tenant: shareWithUsers and    *)
(* revokeUserAccess of documents-sharing/sharing.service.ts, the           *)
(* inheritance of documents-permission/permission-inheritance.service.ts   *)
(* by what a folder holds, what is put into it and what is created below   *)
(* it, and the copies of a document's data key that encryption/            *)
(* encryption-sharing.service.ts makes for the users.  None of it runs in  *)
(* a transaction: every query is a step of its own.                        *)
(*                                                                         *)
(* Folders pass on new content (autoShareNewContent is TRUE), documents    *)
(* are encrypted with the application's key and nothing is archived; the   *)
(* levels of the permissions are left out: a row is active or not.         *)
(***************************************************************************)
EXTENDS Naturals, Sequences, Functions

CONSTANTS
    NFolders,  \* folders, numbered so that a folder is below a smaller one
    Docs,      \* documents
    Users,     \* users
    Ops,       \* requests, each with the background work it starts
    MaxFaults  \* bound of the queries that fail and the instances that stop

ASSUME SharingAssumption ==
    /\ NFolders \in Nat /\ MaxFaults \in Nat
    /\ Users # {} /\ Docs # {}

Folders == 1 .. NFolders
Root == 0

VARIABLES
    folder,  \* document_folders, with hasInternalSharing as "shared"
    grant,   \* folder_shared_users: per folder and user a list of rows, as the
             \* index that is called unique is not one; a row is its isActive
    doc,     \* documents
    key,     \* documents_data_keys: per document and user a list of rows
    op,      \* the requests
    faults,
    \* History, read by the properties only.
    direct,  \* the user was granted the folder itself, not along with one above
    mixed,   \* a grant to the user and a revocation of the user have overlapped
    lost,    \* the flag was cleared over an active row
    taken    \* the document alone was taken from the user, and not shared since

tables == <<folder, grant, doc, key>>
history == <<direct, mixed, lost, taken>>
vars == <<tables, op, faults, history>>

FolderSet == [there : BOOLEAN, up : 0 .. NFolders, owner : Users, shared : BOOLEAN]
DocSet == [st : {"new", "open", "done"}, owner : Users, folder : 0 .. NFolders]
\* A key row of a document that is still being stored holds an empty key.
KeySet == [good : BOOLEAN, active : BOOLEAN]

OpSet == [pc : {"new", "grant", "write", "list", "find", "docs", "key", "below", "subs",
                "strays", "off", "tree", "suboff", "held", "keysoff", "remain", "unflag",
                "stream", "place", "back", "inherit", "shared", "parent", "done"},
          kind : {"none", "share", "revoke", "update", "upload", "move", "create", "give",
                  "take"},
          folder : 0 .. NFolders, orig : 0 .. NFolders, user : Users, doc : Docs, todo : SUBSET Users,
          list : SUBSET Users, pairs : SUBSET (Docs \X Users), below : SUBSET Folders,
          subs : SUBSET (Folders \X Users), held : SUBSET Docs, row : Nat, good : BOOLEAN,
          failed : BOOLEAN, met : BOOLEAN]
NoOp == [pc |-> "new", kind |-> "none", folder |-> Root, orig |-> Root, user |-> CHOOSE u \in Users : TRUE,
         doc |-> CHOOSE d \in Docs : TRUE, todo |-> {}, list |-> {}, pairs |-> {}, below |-> {},
         subs |-> {}, held |-> {}, row |-> 0, good |-> FALSE, failed |-> FALSE, met |-> FALSE]

TypeOK ==
    /\ folder \in [Folders -> FolderSet]
    /\ grant \in [Folders -> [Users -> Seq(BOOLEAN)]]
    /\ doc \in [Docs -> DocSet]
    /\ key \in [Docs -> [Users -> Seq(KeySet)]]
    /\ op \in [Ops -> OpSet]
    \* A row that was found is there when it is updated by its id.
    /\ \A o \in Ops : LET q == op[o] IN
          /\ q.pc = "write" => q.row \in 0 .. Len(grant[q.folder][q.user])
          /\ q.pc = "key" => q.row \in 0 .. Len(key[q.doc][q.user])
    /\ faults \in 0 .. MaxFaults
    /\ direct \in [Folders -> [Users -> BOOLEAN]]
    /\ mixed \in [Users -> BOOLEAN]
    /\ lost \in [Folders -> BOOLEAN]
    /\ taken \in [Docs -> [Users -> BOOLEAN]]

\* Folders that nobody has been given yet, with or without a folder above.
Init ==
    /\ folder \in [Folders -> FolderSet]
    /\ \A f \in Folders : /\ folder[f].up < f /\ ~folder[f].shared
                          /\ folder[f].up # Root /\ folder[f].there => folder[folder[f].up].there
    /\ grant = [f \in Folders |-> [u \in Users |-> << >>]]
    /\ doc = [d \in Docs |-> [st |-> "new", owner |-> NoOp.user, folder |-> Root]]
    /\ key = [d \in Docs |-> [u \in Users |-> << >>]]
    /\ op = [o \in Ops |-> NoOp]
    /\ faults = 0
    /\ direct = [f \in Folders |-> [u \in Users |-> FALSE]]
    /\ mixed = [u \in Users |-> FALSE]
    /\ lost = [f \in Folders |-> FALSE]
    /\ taken = [d \in Docs |-> [u \in Users |-> FALSE]]

There(f) == folder[f].there
\* SELECT ... LIMIT 1: any of the rows, 0 if there is none.
AnyOf(rows) == IF rows = << >> THEN {0} ELSE DOMAIN rows
Granted(f, u) == TRUE \in Range(grant[f][u])
SharedUsers(f) == {u \in Users : Granted(f, u)}
Readable(d, u) == \E r \in Range(key[d][u]) : r.active

\* getAllDescendants: the folders below f along folders of the owner of f.
Descendants(f) ==
    LET level[n \in 0 .. NFolders] ==
            IF n = 0 THEN {f}
            ELSE level[n - 1] \cup {g \in Folders : /\ There(g) /\ folder[g].owner = folder[f].owner
                                                    /\ folder[g].up \in level[n - 1]}
    IN level[NFolders] \ {f}

Revokes(p) == op[p].pc \in {"off", "tree", "suboff", "held", "keysoff", "remain", "unflag"}
\* May still write a grant or a key for u.
Grants(p, u) ==
    \/ u \in op[p].todo \/ u \in op[p].list
    \/ op[p].pc = "write" /\ op[p].user = u
    \/ \E d \in Docs : <<d, u>> \in op[p].pairs
    \/ \E f \in Folders : <<f, u>> \in op[p].subs

\* o goes on as r, having let the users U in: revocations of them have met it.
Step(o, r, U) ==
    /\ op' = [p \in Ops |-> IF p = o THEN r
                            ELSE IF Revokes(p) /\ op[p].user \in U THEN [op[p] EXCEPT !.met = TRUE]
                            ELSE op[p]]
    /\ mixed' = [u \in Users |-> mixed[u] \/ (u \in U /\ \E p \in Ops \ {o} : Revokes(p) /\ op[p].user = u)]
Go(o, r) == Step(o, r, {})
Ended(o) == [NoOp EXCEPT !.pc = "done", !.kind = op[o].kind]
At(o, pc) == [op[o] EXCEPT !.pc = pc]

-----------------------------------------------------------------------------
\* shareWithUsers of a folder. (That the requester may share it is checked
\* once, before anything else.)

\* The first query for the next user.
SharingWith(o, f, U) == [NoOp EXCEPT !.pc = "grant", !.kind = op[o].kind, !.folder = f, !.todo = U]

StartShare(o) ==
    /\ op[o].pc = "new"
    /\ \E f \in Folders, U \in SUBSET Users :
          There(f) /\ U # {} /\ Go(o, [SharingWith(o, f, U) EXCEPT !.kind = "share"])
    /\ UNCHANGED <<tables, faults, direct, lost, taken>>

FindGrant(o) ==
    /\ op[o].pc = "grant"
    /\ \E u \in op[o].todo : \E i \in AnyOf(grant[op[o].folder][u]) :
          Go(o, [op[o] EXCEPT !.pc = "write", !.user = u, !.row = i, !.todo = @ \ {u}])
    /\ UNCHANGED <<tables, faults, direct, lost, taken>>

\* The row that was found is activated by its id, or a new one inserted.
Activated(rows, i) == IF i = 0 THEN Append(rows, TRUE) ELSE [rows EXCEPT ![i] = TRUE]

WriteGrant(o) ==
    /\ op[o].pc = "write"
    /\ LET f == op[o].folder
           u == op[o].user
       IN /\ grant' = [grant EXCEPT ![f][u] = Activated(@, op[o].row)]
          /\ direct' = [direct EXCEPT ![f][u] = TRUE]
          /\ Step(o, [op[o] EXCEPT !.pc = "grant", !.row = 0], {u})
    /\ UNCHANGED <<folder, doc, key, faults, lost, taken>>

SetFlag(o) ==
    /\ op[o].pc = "grant" /\ op[o].todo = {}
    /\ folder' = [folder EXCEPT ![op[o].folder].shared = TRUE]
    /\ Go(o, At(o, "list"))
    /\ UNCHANGED <<grant, doc, key, faults, direct, lost, taken>>

\* allSharedUsers: everybody the folder is shared with by now. (A user with
\* two active rows is served twice, which changes nothing but what is copied.)
ReadSharedUsers(o) ==
    /\ op[o].pc = "list"
    /\ Go(o, [op[o] EXCEPT !.pc = "find", !.list = SharedUsers(op[o].folder)])
    /\ UNCHANGED <<tables, faults, direct, lost, taken>>

Held(f) == {d \in Docs : doc[d].st # "new" /\ doc[d].folder = f}

\* Faulty variant: only what is the folder owner's own is passed on.
ApplyToOwnDocuments(o) ==
    /\ op[o].pc = "find"
    /\ Go(o, [op[o] EXCEPT !.pc = "docs",
                !.pairs = {du \in Held(op[o].folder) \X op[o].list :
                             /\ du[2] # doc[du[1]].owner
                             /\ doc[du[1]].owner = folder[op[o].folder].owner}])
    /\ UNCHANGED <<tables, faults, direct, lost, taken>>

\* applyToExistingDocuments: the documents in the folder, whoever owns them.
ApplyToExistingDocuments(o) ==
    /\ op[o].pc = "find"
    /\ Go(o, [op[o] EXCEPT !.pc = "docs",
                !.pairs = {du \in Held(op[o].folder) \X op[o].list : du[2] # doc[du[1]].owner}])
    /\ UNCHANGED <<tables, faults, direct, lost, taken>>

\* batchShare and shareAppEncrypted: the active key of the document's owner,
\* without which the document is skipped, and a row of the user.
ReadKeys(o) ==
    /\ op[o].pc = "docs"
    /\ \E du \in op[o].pairs :
       LET owned == {r \in Range(key[du[1]][doc[du[1]].owner]) : r.active}
       IN IF owned = {} THEN Go(o, [op[o] EXCEPT !.pairs = @ \ {du}, !.failed = TRUE])
          ELSE \E r \in owned, i \in AnyOf(key[du[1]][du[2]]) :
                 Go(o, [op[o] EXCEPT !.pc = "key", !.doc = du[1], !.user = du[2], !.row = i, !.good = r.good])
    /\ UNCHANGED <<tables, faults, direct, lost, taken>>

\* An existing row is activated and keeps its key; a new one gets the owner's.
CopyKey(o) ==
    /\ op[o].pc = "key"
    /\ LET d == op[o].doc
           u == op[o].user
           i == op[o].row
       IN /\ key' = [key EXCEPT ![d][u] = IF i = 0 THEN Append(@, [good |-> op[o].good, active |-> TRUE])
                                          ELSE [@ EXCEPT ![i].active = TRUE]]
          /\ taken' = [taken EXCEPT ![d][u] = FALSE]
          /\ Step(o, [op[o] EXCEPT !.pc = "docs", !.pairs = @ \ {<<d, u>>}, !.row = 0], {u})
    /\ UNCHANGED <<folder, grant, doc, faults, direct, lost>>

\* A share goes on below the folder; an inheritance ends with the document.
EndDocuments(o) ==
    /\ op[o].pc = "docs" /\ op[o].pairs = {}
    /\ Go(o, IF op[o].kind \in {"share", "update"} THEN At(o, "below") ELSE Ended(o))
    /\ UNCHANGED <<tables, faults, direct, lost, taken>>

\* applyToSubfolders: the folders below get rows, whatever they have, and the
\* documents in them nothing.
FindSubfolders(o) ==
    /\ op[o].pc = "below"
    /\ LET S == Descendants(op[o].folder)
       IN Go(o, IF S = {} THEN Ended(o)
                ELSE [op[o] EXCEPT !.pc = "subs", !.below = S, !.subs = S \X op[o].list])
    /\ UNCHANGED <<tables, faults, direct, lost, taken>>

\* The rows are inserted side by side: also for a new folder, see below. When
\* one insert fails the others go on, for a request that has given up.
InsertRow(o) ==
    /\ op[o].pc \in {"subs", "strays"}
    /\ \E gu \in op[o].subs :
          /\ grant' = [grant EXCEPT ![gu[1]][gu[2]] = Append(@, TRUE)]
          /\ Step(o, [op[o] EXCEPT !.subs = @ \ {gu}], {gu[2]})
    /\ UNCHANGED <<folder, doc, key, faults, direct, lost, taken>>

FlagSubfolders(o) ==
    /\ op[o].pc = "subs" /\ op[o].subs = {}
    /\ folder' = [f \in Folders |-> IF f \in op[o].below THEN [folder[f] EXCEPT !.shared = TRUE] ELSE folder[f]]
    /\ Go(o, Ended(o))
    /\ UNCHANGED <<grant, doc, key, faults, direct, lost, taken>>

EndStrays(o) ==
    /\ op[o].pc = "strays" /\ op[o].subs = {}
    /\ Go(o, Ended(o))
    /\ UNCHANGED <<tables, faults, direct, lost, taken>>

-----------------------------------------------------------------------------
\* revokeUserAccess, and the change of a permission: a revocation followed by
\* a share with the same user.

StartRevoke(o) ==
    /\ op[o].pc = "new"
    /\ \E kind \in {"revoke", "update"}, f \in Folders, u \in Users :
          /\ There(f) /\ u # folder[f].owner
          /\ op' = [op EXCEPT ![o] = [NoOp EXCEPT !.pc = "off", !.kind = kind, !.folder = f, !.user = u,
                                        !.met = \E p \in Ops : Grants(p, u)]]
          /\ mixed' = [mixed EXCEPT ![u] = @ \/ \E p \in Ops : Grants(p, u)]
    /\ UNCHANGED <<tables, faults, direct, lost, taken>>

\* Faulty variant: the rows are deleted.
OffDeletes(rows) == << >>

Off(rows) == [i \in DOMAIN rows |-> FALSE]

\* Faulty variant: the row that was read is the one that is deactivated.
DeactivateFound(o) ==
    /\ op[o].pc = "off"
    /\ LET f == op[o].folder
           u == op[o].user
       IN /\ \E i \in AnyOf(grant[f][u]) :
                grant' = [grant EXCEPT ![f][u] = IF i = 0 THEN @ ELSE [@ EXCEPT ![i] = FALSE]]
          /\ direct' = [direct EXCEPT ![f][u] = FALSE]
    /\ Go(o, At(o, "tree"))
    /\ UNCHANGED <<folder, doc, key, faults, lost, taken>>

\* All rows of the user, when there is one at all.
Deactivate(o) ==
    /\ op[o].pc = "off"
    /\ LET f == op[o].folder
           u == op[o].user
       IN /\ grant' = [grant EXCEPT ![f][u] = Off(@)]
          /\ direct' = [direct EXCEPT ![f][u] = FALSE]
    /\ Go(o, At(o, "tree"))
    /\ UNCHANGED <<folder, doc, key, faults, lost, taken>>

\* revokeFromDocumentsAndSubfolders.
FindTree(o) ==
    /\ op[o].pc = "tree"
    /\ Go(o, [op[o] EXCEPT !.pc = "suboff", !.below = Descendants(op[o].folder)])
    /\ UNCHANGED <<tables, faults, direct, lost, taken>>

DeactivateBelow(o) ==
    /\ op[o].pc = "suboff"
    /\ LET u == op[o].user
       IN /\ grant' = [f \in Folders |-> IF f \in op[o].below THEN [grant[f] EXCEPT ![u] = Off(@)] ELSE grant[f]]
          /\ direct' = [f \in Folders |-> IF f \in op[o].below THEN [direct[f] EXCEPT ![u] = FALSE] ELSE direct[f]]
    /\ Go(o, At(o, "held"))
    /\ UNCHANGED <<folder, doc, key, faults, lost, taken>>

FindHeld(o) ==
    /\ op[o].pc = "held"
    /\ Go(o, [op[o] EXCEPT !.pc = "keysoff",
                !.held = UNION {Held(f) : f \in {op[o].folder} \cup op[o].below}])
    /\ UNCHANGED <<tables, faults, direct, lost, taken>>

KeysOff(rows) == [i \in DOMAIN rows |-> [rows[i] EXCEPT !.active = FALSE]]

\* All keys of the user, also those of documents the user owns.
DeactivateKeys(o) ==
    /\ op[o].pc = "keysoff"
    /\ LET u == op[o].user
       IN key' = [d \in Docs |-> IF d \in op[o].held THEN [key[d] EXCEPT ![u] = KeysOff(@)] ELSE key[d]]
    /\ Go(o, At(o, "remain"))
    /\ UNCHANGED <<folder, grant, doc, faults, direct, lost, taken>>

Revoked(o) == IF op[o].kind = "update" THEN SharingWith(o, op[o].folder, {op[o].user}) ELSE Ended(o)

ReadRemaining(o) ==
    /\ op[o].pc = "remain"
    /\ Go(o, IF SharedUsers(op[o].folder) = {} THEN At(o, "unflag") ELSE Revoked(o))
    /\ UNCHANGED <<tables, faults, direct, lost, taken>>

ClearFlag(o) ==
    /\ op[o].pc = "unflag"
    /\ folder' = [folder EXCEPT ![op[o].folder].shared = FALSE]
    /\ lost' = [lost EXCEPT ![op[o].folder] = @ \/ SharedUsers(op[o].folder) # {}]
    /\ Go(o, Revoked(o))
    /\ UNCHANGED <<grant, doc, key, faults, direct, taken>>

-----------------------------------------------------------------------------
\* What inherits: uploads, moves of documents, new folders. A document can be
\* shared on its own as well.

\* The records are there before the file. The key is still empty then, unless
\* the file was assembled from chunks, which are encrypted already.
StartUpload(o) ==
    /\ op[o].pc = "new"
    /\ \E d \in Docs, u \in Users, f \in {Root} \cup {g \in Folders : There(g)}, good \in BOOLEAN :
          /\ doc[d].st = "new"
          /\ doc' = [doc EXCEPT ![d] = [st |-> "open", owner |-> u, folder |-> f]]
          /\ key' = [key EXCEPT ![d][u] = <<[good |-> good, active |-> TRUE]>>]
          /\ Go(o, [NoOp EXCEPT !.pc = "stream", !.kind = "upload", !.doc = d, !.folder = f])
    /\ UNCHANGED <<folder, grant, faults, direct, lost, taken>>

\* The file is stored. The inheritance starts, and nobody waits for it ...
StoreFile(o) ==
    /\ op[o].pc = "stream"
    /\ doc' = [doc EXCEPT ![op[o].doc].st = "done"]
    /\ Go(o, IF op[o].folder = Root THEN Ended(o) ELSE At(o, "inherit"))
    /\ UNCHANGED <<folder, grant, key, faults, direct, lost, taken>>

\* ... and then the upload records the key, in the row it inserted.
RecordKey(d) ==
    LET u == doc[d].owner
    IN /\ doc[d].st = "done" /\ ~key[d][u][1].good
       /\ key' = [key EXCEPT ![d][u][1].good = TRUE]
       /\ UNCHANGED <<folder, grant, doc, op, faults, history>>

\* processSingleDocumentMove: the folder the document is in, for the rollback.
StartMove(o) ==
    /\ op[o].pc = "new"
    /\ \E d \in Docs, f \in {Root} \cup {g \in Folders : There(g)} :
          /\ doc[d].st # "new" /\ f # doc[d].folder
          /\ Go(o, [NoOp EXCEPT !.pc = "place", !.kind = "move", !.doc = d, !.folder = f,
                                !.orig = doc[d].folder])
    /\ UNCHANGED <<tables, faults, direct, lost, taken>>

\* Revocations have met the document that changes its place.
Put(o, f, r) ==
    /\ doc' = [doc EXCEPT ![op[o].doc].folder = f]
    /\ op' = [p \in Ops |-> IF p = o THEN r
                            ELSE IF Revokes(p) THEN [op[p] EXCEPT !.met = TRUE] ELSE op[p]]
    /\ UNCHANGED <<folder, grant, key, faults, history>>

\* The update of folderId; what the document was shared with before, stays.
MoveDocument(o) ==
    /\ op[o].pc = "place"
    /\ Put(o, op[o].folder, At(o, IF op[o].folder = Root THEN "docs" ELSE "inherit"))

\* The rollback; what has been inherited stays.
RestoreDocument(o) ==
    /\ op[o].pc = "back"
    /\ Put(o, op[o].orig, Ended(o))

\* handleNewDocumentInheritance: the folder, with its flag ...
ReadFolder(o) ==
    /\ op[o].pc = "inherit"
    /\ Go(o, IF folder[op[o].folder].shared THEN At(o, "shared") ELSE Ended(o))
    /\ UNCHANGED <<tables, faults, direct, lost, taken>>

\* ... and its users, and its owner.
ReadRecipients(o) ==
    /\ op[o].pc = "shared"
    /\ LET f == op[o].folder
           d == op[o].doc
       IN Go(o, [op[o] EXCEPT !.pc = "docs",
                   !.pairs = {d} \X ((SharedUsers(f) \cup {folder[f].owner}) \ {doc[d].owner})])
    /\ UNCHANGED <<tables, faults, direct, lost, taken>>

\* create: the new folder counts as shared.
CreateFolder(o) ==
    /\ op[o].pc = "new"
    /\ \E f \in Folders :
          /\ ~There(f)
          /\ folder[f].up # Root => There(folder[f].up)
          /\ folder' = [folder EXCEPT ![f].there = TRUE, ![f].shared = TRUE]
          /\ Go(o, [NoOp EXCEPT !.pc = IF folder[f].up = Root THEN "done" ELSE "parent",
                                !.kind = "create", !.folder = f])
    /\ UNCHANGED <<grant, doc, key, faults, direct, lost, taken>>

\* handleNewSubfolderInheritance: the users of the folder above, and its owner.
ReadParent(o) ==
    /\ op[o].pc = "parent"
    /\ LET f == op[o].folder
           p == folder[f].up
           U == SharedUsers(p) \cup (IF folder[p].owner # folder[f].owner THEN {folder[p].owner} ELSE {})
       IN Go(o, IF U = {} THEN Ended(o) ELSE [op[o] EXCEPT !.pc = "subs", !.below = {f}, !.subs = {f} \X U])
    /\ UNCHANGED <<tables, faults, direct, lost, taken>>

\* shareWithUsers of a document, with a user who cannot read it.
StartGive(o) ==
    /\ op[o].pc = "new"
    /\ \E d \in Docs, u \in Users :
          /\ doc[d].st # "new" /\ u # doc[d].owner /\ ~Readable(d, u)
          /\ Go(o, [NoOp EXCEPT !.pc = "docs", !.kind = "give", !.doc = d, !.pairs = {<<d, u>>}])
    /\ UNCHANGED <<tables, faults, direct, lost, taken>>

\* revokeUserAccess of a document: one update, of the rows that are active.
TakeDocument(o) ==
    /\ op[o].pc = "new"
    /\ \E d \in Docs, u \in Users :
          /\ doc[d].st # "new" /\ u # doc[d].owner /\ Readable(d, u)
          /\ key' = [key EXCEPT ![d][u] = KeysOff(@)]
          /\ taken' = [taken EXCEPT ![d][u] = TRUE]
    /\ Go(o, [NoOp EXCEPT !.pc = "done", !.kind = "take"])
    /\ UNCHANGED <<folder, grant, doc, faults, direct, lost>>

-----------------------------------------------------------------------------
\* A query fails, and the request succeeds all the same: a share goes on with
\* the next user, without the documents or without the document at hand (or all
\* of its owner's); the subfolders, or the cascade of a revocation, are given up.
FailQuery(o) ==
    /\ faults < MaxFaults
    /\ \/ op[o].pc = "write" /\ Go(o, [op[o] EXCEPT !.pc = "grant", !.row = 0, !.failed = TRUE])
       \/ op[o].pc = "find" /\ Go(o, At(o, "below"))
       \/ /\ op[o].pc = "docs"
          /\ \E du \in op[o].pairs :
                Go(o, [op[o] EXCEPT !.pairs = {ev \in @ : ev[2] # du[2] \/ doc[ev[1]].owner # doc[du[1]].owner}])
       \/ /\ op[o].pc = "key"
          /\ Go(o, [op[o] EXCEPT !.pc = "docs", !.row = 0, !.failed = TRUE, !.pairs = @ \ {<<op[o].doc, op[o].user>>}])
       \/ /\ op[o].pc \in {"subs", "strays"}
          /\ \E gu \in op[o].subs : Go(o, [op[o] EXCEPT !.pc = "strays", !.subs = @ \ {gu}])
       \/ op[o].pc \in {"tree", "suboff", "held", "keysoff"} /\ Go(o, [op[o] EXCEPT !.pc = "remain", !.failed = TRUE])
    /\ faults' = faults + 1
    /\ UNCHANGED <<tables, direct, lost, taken>>

\* A query of a move fails, up to the last one: the document is put back.
FailMove(o) ==
    /\ op[o].kind = "move" /\ faults < MaxFaults
    /\ op[o].pc \in {"place", "inherit", "shared"} \/ (op[o].pc = "docs" /\ op[o].pairs = {})
    /\ Go(o, At(o, "back"))
    /\ faults' = faults + 1
    /\ UNCHANGED <<tables, direct, lost, taken>>

\* The first one does: then the rollback takes the document to the root.
FailOriginal(o) ==
    /\ op[o].pc = "new" /\ faults < MaxFaults
    /\ \E d \in Docs : doc[d].st # "new" /\ Go(o, [NoOp EXCEPT !.pc = "back", !.kind = "move", !.doc = d])
    /\ faults' = faults + 1
    /\ UNCHANGED <<tables, direct, lost, taken>>

\* The instance stops, or the request ends with the error of a query.
StopRequest(o) ==
    /\ op[o].pc \notin {"new", "done"} /\ faults < MaxFaults
    /\ Go(o, Ended(o))
    /\ faults' = faults + 1
    /\ UNCHANGED <<tables, direct, lost, taken>>

Share(o) ==
    \/ StartShare(o) \/ FindGrant(o) \/ WriteGrant(o) \/ SetFlag(o) \/ ReadSharedUsers(o)
    \/ ApplyToExistingDocuments(o) \/ ReadKeys(o) \/ CopyKey(o) \/ EndDocuments(o)
    \/ FindSubfolders(o) \/ InsertRow(o) \/ FlagSubfolders(o) \/ EndStrays(o)
Revoke(o) ==
    \/ StartRevoke(o) \/ Deactivate(o) \/ FindTree(o) \/ DeactivateBelow(o) \/ FindHeld(o)
    \/ DeactivateKeys(o) \/ ReadRemaining(o) \/ ClearFlag(o) \/ TakeDocument(o)
Inherit(o) ==
    \/ StartUpload(o) \/ StoreFile(o) \/ ReadFolder(o) \/ ReadRecipients(o)
    \/ StartMove(o) \/ MoveDocument(o) \/ RestoreDocument(o)
    \/ CreateFolder(o) \/ ReadParent(o) \/ StartGive(o)
Fail(o) == FailQuery(o) \/ FailMove(o) \/ FailOriginal(o) \/ StopRequest(o)

Next ==
    \/ \E o \in Ops : Share(o) \/ Revoke(o) \/ Inherit(o) \/ Fail(o)
    \/ \E d \in Docs : RecordKey(d)

Spec == Init /\ [][Next]_vars

-----------------------------------------------------------------------------
Rest == \A o \in Ops : op[o].pc \in {"new", "done"}

\* o has taken the folder f and what it holds from its user.
Lost(o, f) ==
    /\ ~Granted(f, op[o].user)
    /\ \A d \in Held(f) : Readable(d, op[o].user) => doc[d].owner = op[o].user
\* The cascade of o is over, without an error, and nothing has come in its way.
Cascaded(o) == op[o].pc \in {"remain", "unflag"} /\ ~op[o].met /\ ~op[o].failed

\* A revocation takes the folder, the folders of its owner below it and every
\* document in these from the user, however many rows earlier shares have left
\* and whatever is uploaded, created or shared with others meanwhile - unless a
\* grant to the user overlaps, a document is moved, or a query of the cascade
\* fails. "All descendant subfolders and documents", as sharing.service.ts says,
\* it is not: a folder of another owner below keeps the rows it has inherited.
RevokeTakes ==
    \A o \in Ops : Cascaded(o) => \A f \in {op[o].folder} \cup Descendants(op[o].folder) : Lost(o, f)

\* Whom a folder is shared with can read every document in it, also one that
\* was uploaded or moved there while the folder was being shared: the row is
\* written before the documents are looked for, the document is put into the
\* folder before its users are looked for. Not covered: users who were let in
\* along with a folder above, or whose revocation overlapped a grant; folders
\* whose flag was lost; documents taken from the user on their own, or whose
\* owner has lost the key; failures.
Covered ==
    Rest /\ faults = 0 =>
        \A d \in Docs, u \in Users :
            LET f == doc[d].folder
            IN /\ f # Root /\ doc[d].st = "done"
               /\ direct[f][u] /\ Granted(f, u) /\ ~mixed[u] /\ ~lost[f]
               /\ ~taken[d][u] /\ Readable(d, doc[d].owner)
               => Readable(d, u)

\* What encryption-sharing.service.ts says of a shared document: all its users
\* hold the owner's key.
SharedKeysOpen ==
    Rest => \A d \in Docs : doc[d].st = "done" /\ key[d][doc[d].owner][1].good =>
              \A u \in Users : \A r \in Range(key[d][u]) : r.active => r.good
=============================================================================
