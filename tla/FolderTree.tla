----------------------------- MODULE FolderTree -----------------------------
(***************************************************************************)
(* The tree of document folders of one tenant and the operations that      *)
(* change it: create (services/document-folders/folder-write.service.ts),  *)
(* single and bulk moves, validated by folder-move.service.ts and carried  *)
(* out in the background by documents-operations/move-operations.processor *)
(* .ts, with its rollback, the cancel handler, hard delete, archive and    *)
(* restore.  A parent is a plain column without a foreign key.  Every read *)
(* of the database is a step of its own.  Who may do what is left out      *)
(* here: the users are taken to have full rights on every folder.          *)
(***************************************************************************)
EXTENDS Naturals, FiniteSets

CONSTANTS
    N,          \* folder ids; an id is never used twice
    Users,      \* the users who own and change folders
    Ops,        \* requests, each with the background work it starts
    MaxDepth,   \* the 10 of FolderMoveService.move
    MaxFaults   \* bound of the errors and of the instances that stop

ASSUME FolderAssumption ==
    /\ N \in Nat /\ MaxDepth \in Nat /\ MaxFaults \in Nat
    /\ Users # {}

Root == 0
Folders == 1 .. N
Nodes == Folders \cup {Root}

VARIABLES
    st,        \* the rows: "new" (not yet inserted), "live" or "gone"
    parent,    \* parentFolderId
    owner,     \* ownerId
    archived,  \* isArchived
    op,        \* the requests
    cancel,    \* cancel handlers between their check and their write
    faults,
    \* History, read by the properties only.
    want,      \* the parent that the moves which have completed asked for
    mixed,     \* folders whose parent no move answers for: see OutcomeTrue
    raced      \* a move wrote although another had since it was validated

tree == <<st, parent, owner, archived>>
history == <<want, mixed, raced>>
vars == <<tree, op, cancel, faults, history>>

OpSet == [pc : {"new", "pick", "walk", "target", "up", "down", "read", "move",
                "back", "collect", "apply", "insert", "done"},
          kind : {"single", "bulk", "delete", "archive", "restore", "create"},
          user : Users, folders : SUBSET Folders, target : Nodes, todo : SUBSET Folders,
          at : Nodes, cursor : Nodes, seen : SUBSET Folders, found : SUBSET Folders,
          front : SUBSET Folders, depth : Nat, below : Nat,
          orig : [Folders -> Nodes],
          \* History: others have written since, or moved; the count below failed.
          changed : BOOLEAN, moved : BOOLEAN, uncounted : BOOLEAN,
          status : {"none", "processing", "rolling_back", "failed",
                    "completed", "cancelled"}]
NoOp == [pc |-> "new", kind |-> "single", user |-> CHOOSE u \in Users : TRUE,
         folders |-> {}, target |-> Root, todo |-> {}, at |-> Root, cursor |-> Root,
         seen |-> {}, found |-> {}, front |-> {}, depth |-> 0, below |-> 0,
         orig |-> [f \in Folders |-> Root], changed |-> FALSE, moved |-> FALSE,
         uncounted |-> FALSE, status |-> "none"]

TypeOK ==
    /\ st \in [Folders -> {"new", "live", "gone"}]
    /\ parent \in [Folders -> Nodes]
    /\ owner \in [Folders -> Users]
    /\ archived \in [Folders -> BOOLEAN]
    /\ op \in [Ops -> OpSet]
    /\ cancel \in [Ops -> BOOLEAN]
    /\ faults \in 0 .. MaxFaults
    /\ want \in [Folders -> Nodes]
    /\ mixed \in [Folders -> BOOLEAN]
    /\ raced \in BOOLEAN

\* No set of folders whose parents are all in the set: from every folder the
\* parents lead to the root, or to a row that is gone.
Acyclic == \A S \in SUBSET Folders : S # {} => \E f \in S : parent[f] \notin S

\* Any tree that requests can have built; what is not there has no parent.
Init ==
    /\ st \in [Folders -> {"new", "live"}]
    /\ parent \in [Folders -> Nodes]
    /\ Acyclic
    /\ \A f \in Folders : /\ st[f] = "new" => parent[f] = Root
                          /\ parent[f] # Root => st[parent[f]] = "live"
    /\ owner \in [Folders -> Users]
    /\ archived \in [Folders -> BOOLEAN]
    /\ op = [o \in Ops |-> NoOp]
    /\ cancel = [o \in Ops |-> FALSE]
    /\ faults = 0
    /\ want = parent
    /\ mixed = [f \in Folders |-> FALSE]
    /\ raced = FALSE

Live(f) == st[f] = "live"
\* What findById returns; isArchived = false is part of its condition.
Usable(f) == Live(f) /\ ~archived[f]
Active(o) == op[o].pc \notin {"new", "done"}
Working(o) == op[o].pc \in {"move", "back"}

Become(o, r) == op' = [op EXCEPT ![o] = r]
\* o goes on as r, and the others have been overtaken by a write of the tree.
Overtake(o, r, isMove) ==
    op' = [p \in Ops |-> IF p = o THEN r
                         ELSE IF ~Active(p) THEN op[p]
                         ELSE [op[p] EXCEPT !.changed = TRUE, !.moved = @ \/ isMove]]

-----------------------------------------------------------------------------
\* FolderMoveService: the checks made before the operation is initiated.

\* The request. A bulk move looks for its target first.
StartMove(o) ==
    /\ op[o].pc = "new"
    /\ \E kind \in {"single", "bulk"}, S \in SUBSET {f \in Folders : Usable(f)} :
       \E t \in {f \in Folders : Usable(f)} \cup {Root} :
          /\ S # {} /\ (kind = "single" => Cardinality(S) = 1)
          /\ Become(o, [NoOp EXCEPT !.pc = "pick", !.kind = kind, !.folders = S,
                                    !.target = t, !.todo = S])
    /\ UNCHANGED <<tree, cancel, faults, history>>

Ended(o, status) == [NoOp EXCEPT !.pc = "done", !.kind = op[o].kind, !.status = status]
Refused(o) == Ended(o, "none")
\* initiateMoveOperation; the processing starts at once, in the background.
Initiated(o) == [op[o] EXCEPT !.pc = "read", !.status = "processing", !.todo = {}, !.at = Root,
                         !.cursor = Root, !.front = {}, !.found = {}, !.depth = 0, !.below = 0,
                         !.seen = {}]

\* validateMove said yes to f: on to the next folder. When it was the last one
\* a bulk move is initiated, and a single one still looks for its target.
Valid(o, f) ==
    IF op[o].todo # {f} THEN [op[o] EXCEPT !.todo = @ \ {f}, !.pc = "pick", !.at = Root, !.cursor = Root, !.seen = {}]
    ELSE IF op[o].kind = "bulk" \/ op[o].target = Root THEN Initiated(o)
    ELSE [op[o] EXCEPT !.todo = {}, !.pc = "target", !.at = Root, !.cursor = Root, !.seen = {}]

\* findById of the next folder, and the first lines of validateMove.
PickFolder(o) ==
    /\ op[o].pc = "pick"
    /\ \E f \in op[o].todo :
          Become(o, IF ~Usable(f) \/ op[o].target = f THEN Refused(o)
                    ELSE IF op[o].target = Root THEN Valid(o, f)
                    ELSE [op[o] EXCEPT !.pc = "walk", !.at = f, !.cursor = op[o].target, !.seen = {}])
    /\ UNCHANGED <<tree, cancel, faults, history>>

\* Faulty variant: the row is looked for with findById, which skips archived ones.
AboveUsable(c) == IF Usable(c) THEN parent[c] ELSE Root

\* The parent the walk upwards finds in the row it reads; no row ends the walk.
Above(c) == IF Live(c) THEN parent[c] ELSE Root

\* validateMove: one row of the way from the target to the root. It ends with
\* no at the folder itself and at a row it has seen before.
WalkUp(o) ==
    /\ op[o].pc = "walk"
    /\ LET q == Above(op[o].cursor)
           seen == op[o].seen \cup {op[o].cursor}
       IN Become(o, IF q = Root THEN Valid(o, op[o].at)
                    ELSE IF q = op[o].at \/ q \in seen THEN Refused(o)
                    ELSE [op[o] EXCEPT !.seen = seen, !.cursor = q])
    /\ UNCHANGED <<tree, cancel, faults, history>>

\* findById of the target, of a single move.
FindTarget(o) ==
    /\ op[o].pc = "target"
    /\ Become(o, IF ~Usable(op[o].target) THEN Refused(o)
                 ELSE [op[o] EXCEPT !.pc = "up", !.cursor = op[o].target, !.found = {}, !.depth = 1])
    /\ UNCHANGED <<tree, cancel, faults, history>>

\* calculateDepth: the length of the way to the root; it throws in a loop.
DepthUp(o) ==
    /\ op[o].pc = "up"
    /\ LET q == Above(op[o].cursor)
           found == op[o].found \cup {op[o].cursor}
           f == CHOOSE f \in op[o].folders : TRUE
       IN Become(o, IF q = Root THEN [op[o] EXCEPT !.pc = "down", !.front = {f}, !.found = {f}, !.below = 0]
                    ELSE IF q \in found THEN Refused(o)
                    ELSE [op[o] EXCEPT !.found = found, !.cursor = q, !.depth = @ + 1])
    /\ UNCHANGED <<tree, cancel, faults, history>>

\* The rows whose parent is in S and that are not archived.
Children(S) == {g \in Folders : Usable(g) /\ parent[g] \in S}

\* getMaxDescendantDepth, level by level; then the limit.
DepthDown(o) ==
    /\ op[o].pc = "down"
    /\ LET next == Children(op[o].front) \ op[o].found
       IN Become(o, IF next # {} THEN [op[o] EXCEPT !.front = next, !.found = @ \cup next, !.below = @ + 1]
                    ELSE IF op[o].depth + op[o].below > MaxDepth THEN Refused(o) ELSE Initiated(o))
    /\ UNCHANGED <<tree, cancel, faults, history>>

\* It catches any error and answers 0, and the limit is tested with that.
FailDepth(o) ==
    /\ op[o].pc = "down" /\ faults < MaxFaults
    /\ Become(o, IF op[o].depth > MaxDepth THEN Refused(o)
                 ELSE [Initiated(o) EXCEPT !.uncounted = TRUE])
    /\ faults' = faults + 1
    /\ UNCHANGED <<tree, cancel, history>>

-----------------------------------------------------------------------------
\* The processor. The progress updates in between write the status they read.

\* The parents as they are before the move, kept for the rollback (a folder
\* that is gone has none).
ReadOriginal(o) ==
    /\ op[o].pc = "read"
    /\ Become(o, [op[o] EXCEPT !.pc = "move", !.todo = op[o].folders,
                    !.orig = [f \in Folders |-> IF f \in op[o].folders THEN parent[f] ELSE Root]])
    /\ mixed' = [f \in Folders |-> mixed[f] \/ (f \in op[o].folders /\
                    \E p \in Ops \ {o} : Working(p) /\ f \in op[p].folders)]
    /\ UNCHANGED <<tree, cancel, faults, want, raced>>

\* The original parent is not known: for a single folder it is taken to be the
\* root, and the rollback puts the folder there; a bulk move has none to restore.
FailRead(o) ==
    /\ op[o].pc = "read" /\ faults < MaxFaults
    /\ Become(o, [op[o] EXCEPT !.pc = "back", !.status = "rolling_back",
                               !.todo = IF op[o].kind = "single" THEN op[o].folders ELSE {}])
    /\ mixed' = [f \in Folders |-> mixed[f] \/ f \in op[o].folders]
    /\ faults' = faults + 1
    /\ UNCHANGED <<tree, cancel, want, raced>>

\* One folder after the other gets its new parent, without another look at
\* the tree; a row that is gone is no error. (What follows passes documents on
\* to the users of the folders they are in: see FolderSharing.)
MoveFolder(o) ==
    /\ op[o].pc = "move"
    /\ \E f \in op[o].todo :
          /\ parent' = IF Live(f) THEN [parent EXCEPT ![f] = op[o].target] ELSE parent
          /\ Overtake(o, [op[o] EXCEPT !.todo = @ \ {f}], TRUE)
    /\ raced' = (raced \/ op[o].moved)
    /\ UNCHANGED <<st, owner, archived, cancel, faults, want, mixed>>

\* markCompleted(true).
CompleteMove(o) ==
    /\ op[o].pc = "move" /\ op[o].todo = {}
    /\ Become(o, Ended(o, "completed"))
    /\ want' = [f \in Folders |-> IF f \in op[o].folders THEN op[o].target ELSE want[f]]
    /\ UNCHANGED <<tree, cancel, faults, mixed, raced>>

\* Faulty variant: only the folders that were not reached are restored.
FailMoveRest(o) ==
    /\ op[o].pc = "move" /\ faults < MaxFaults
    /\ Become(o, [op[o] EXCEPT !.pc = "back", !.status = "rolling_back"])
    /\ faults' = faults + 1
    /\ UNCHANGED <<tree, cancel, history>>

\* Any error, of an update or of the inheritance, starts the rollback of all.
FailMove(o) ==
    /\ op[o].pc = "move" /\ faults < MaxFaults
    /\ Become(o, [op[o] EXCEPT !.pc = "back", !.status = "rolling_back", !.todo = op[o].folders])
    /\ faults' = faults + 1
    /\ UNCHANGED <<tree, cancel, history>>

\* The rollback of one folder, to the parent it had when the operation began.
MoveBack(o) ==
    /\ op[o].pc = "back"
    /\ \E f \in op[o].todo :
          /\ parent' = IF Live(f) THEN [parent EXCEPT ![f] = op[o].orig[f]] ELSE parent
          /\ Overtake(o, [op[o] EXCEPT !.todo = @ \ {f}], TRUE)
    /\ raced' = (raced \/ op[o].moved)
    /\ UNCHANGED <<st, owner, archived, cancel, faults, want, mixed>>

\* Faulty variant: a status that MoveOperationStatus does not have.
EndRollbackNamed(o) ==
    /\ op[o].pc = "back" /\ op[o].todo = {}
    /\ Become(o, Ended(o, "rolled_back"))
    /\ UNCHANGED <<tree, cancel, faults, history>>

EndRollback(o) ==
    /\ op[o].pc = "back" /\ op[o].todo = {}
    /\ Become(o, Ended(o, "failed"))
    /\ UNCHANGED <<tree, cancel, faults, history>>

GiveUp(o) == mixed' = [f \in Folders |-> mixed[f] \/ (Working(o) /\ f \in op[o].folders)]

\* "Manual intervention required": an update of the rollback fails.
FailRollback(o) ==
    /\ op[o].pc = "back" /\ op[o].todo # {} /\ faults < MaxFaults
    /\ Become(o, Ended(o, "failed"))
    /\ GiveUp(o)
    /\ faults' = faults + 1
    /\ UNCHANGED <<tree, cancel, want, raced>>

\* The instance stops in the middle (elsewhere it just takes no more steps).
\* The rollback state that was stored is read by nobody.
StopInstance(o) ==
    /\ Working(o) /\ faults < MaxFaults
    /\ Become(o, Ended(o, op[o].status))
    /\ GiveUp(o)
    /\ faults' = faults + 1
    /\ UNCHANGED <<tree, cancel, want, raced>>

\* The cancel handler: a check of the status and, later, a write of it. The
\* processor never looks at the status.
CheckCancel(o) ==
    /\ ~cancel[o] /\ op[o].status = "processing"
    /\ cancel' = [cancel EXCEPT ![o] = TRUE]
    /\ UNCHANGED <<tree, op, faults, history>>

MarkCancelled(o) ==
    /\ cancel[o]
    /\ cancel' = [cancel EXCEPT ![o] = FALSE]
    /\ Become(o, [op[o] EXCEPT !.status = "cancelled"])
    /\ UNCHANGED <<tree, faults, history>>

-----------------------------------------------------------------------------
\* Create, delete, archive, restore.

\* create: the parent is looked for first, and the row inserted later.
StartCreate(o) ==
    /\ op[o].pc = "new"
    /\ \E u \in Users, p \in {f \in Folders : Usable(f)} \cup {Root} :
          Become(o, [NoOp EXCEPT !.pc = "insert", !.kind = "create", !.user = u, !.target = p])
    /\ UNCHANGED <<tree, cancel, faults, history>>

InsertFolder(o) ==
    /\ op[o].pc = "insert"
    /\ \E f \in Folders :
          /\ st[f] = "new"
          /\ st' = [st EXCEPT ![f] = "live"]
          /\ parent' = [parent EXCEPT ![f] = op[o].target]
          /\ want' = [want EXCEPT ![f] = op[o].target]
          /\ owner' = [owner EXCEPT ![f] = op[o].user]
          /\ archived' = [archived EXCEPT ![f] = FALSE]
    /\ Overtake(o, Ended(o, "none"), FALSE)
    /\ UNCHANGED <<cancel, faults, mixed, raced>>

\* deleteSingleFolder, bulkArchive, bulkRestore: the folder, which is there, and
\* the user whose folders are collected: the owner of the folder for a delete,
\* whoever makes the request for the others.
StartCollect(o) ==
    /\ op[o].pc = "new"
    /\ \E kind \in {"delete", "archive", "restore"}, u \in Users, f \in Folders :
          /\ Live(f) /\ (kind = "delete" => u = owner[f])
          /\ Become(o, [NoOp EXCEPT !.pc = "collect", !.kind = kind, !.user = u,
                                    !.folders = {f}, !.front = {f}, !.found = {f}])
    /\ UNCHANGED <<tree, cancel, faults, history>>

\* Faulty variant: the children of the folder and no further.
CollectOneLevel(o) ==
    /\ op[o].pc = "collect"
    /\ LET next == {g \in Children(op[o].front) : owner[g] = op[o].user}
       IN Become(o, [op[o] EXCEPT !.found = @ \cup next, !.front = {}, !.pc = "apply"])
    /\ UNCHANGED <<tree, cancel, faults, history>>

\* getDescendantFolderIds, getAllDescendants(IncludingArchived): a level per
\* query, only of folders of that user, archived ones for a restore only.
CollectLevel(o) ==
    /\ op[o].pc = "collect"
    /\ LET next == {g \in Folders : /\ Live(g) /\ parent[g] \in op[o].front /\ owner[g] = op[o].user
                                    /\ archived[g] => op[o].kind = "restore"} \ op[o].found
       IN Become(o, IF next = {} THEN [op[o] EXCEPT !.pc = "apply", !.front = {}]
                    ELSE [op[o] EXCEPT !.front = next, !.found = @ \cup next])
    /\ UNCHANGED <<tree, cancel, faults, history>>

\* The transaction that deletes the rows that were collected.
DeleteFolders(o) ==
    /\ op[o].pc = "apply" /\ op[o].kind = "delete"
    /\ st' = [f \in Folders |-> IF f \in op[o].found THEN "gone" ELSE st[f]]
    /\ parent' = [f \in Folders |-> IF f \in op[o].found THEN Root ELSE parent[f]]
    /\ Overtake(o, Ended(o, "none"), FALSE)
    /\ UNCHANGED <<owner, archived, cancel, faults, history>>

SetArchived(o) ==
    /\ op[o].pc = "apply" /\ op[o].kind \in {"archive", "restore"}
    /\ archived' = [f \in Folders |-> IF f \in op[o].found /\ Live(f)
                                      THEN op[o].kind = "archive" ELSE archived[f]]
    /\ Overtake(o, Ended(o, "none"), FALSE)
    /\ UNCHANGED <<st, parent, owner, cancel, faults, history>>

-----------------------------------------------------------------------------
Validate(o) ==
    \/ StartMove(o) \/ PickFolder(o) \/ WalkUp(o)
    \/ FindTarget(o) \/ DepthUp(o) \/ DepthDown(o) \/ FailDepth(o)
Process(o) ==
    \/ ReadOriginal(o) \/ FailRead(o) \/ MoveFolder(o) \/ CompleteMove(o)
    \/ FailMove(o) \/ MoveBack(o) \/ EndRollback(o) \/ FailRollback(o)
Other(o) ==
    \/ StartCreate(o) \/ InsertFolder(o) \/ StartCollect(o) \/ CollectLevel(o)
    \/ DeleteFolders(o) \/ SetArchived(o)

Next == \E o \in Ops : \/ Validate(o) \/ Process(o) \/ Other(o)
                       \/ StopInstance(o) \/ CheckCancel(o) \/ MarkCancelled(o)

Spec == Init /\ [][Next]_vars

-----------------------------------------------------------------------------
\* Validated moves keep the folders a forest, also when folders are created,
\* deleted and archived in between, a move takes several folders and fails
\* half-way: only a move, or the rollback of one, that writes after another
\* has written since it was validated can close a circle.
ForestUnlessRaced == raced \/ Acyclic

\* What folder-move.service.ts promises without that condition.
Forest == Acyclic

\* A folder is where the last move that completed put it, or where it was
\* created: a move that fails leaves no trace, whatever it had moved by then -
\* unless two moves worked on the folder at the same time, the instance stopped,
\* the rollback itself failed, or the original parent could not be read.
OutcomeTrue ==
    \A f \in Folders : Live(f) /\ ~mixed[f] /\ (\A o \in Ops : Working(o) => f \notin op[o].folders)
                         => parent[f] = want[f]

\* How deep f is, in a forest: the number of folders above it.
Level(f) == LET up[n \in 0 .. N] == IF n = 0 THEN {f}
                                    ELSE up[n - 1] \cup {parent[g] : g \in up[n - 1] \ {Root}}
            IN Cardinality(up[N] \ {Root}) - 1
\* f is g or above it, with nothing archived on the way.
Plain(f, g) == LET up[n \in 0 .. N] ==
                      IF n = 0 THEN {g}
                      ELSE up[n - 1] \cup {parent[h] : h \in {i \in up[n - 1] \ {Root, f} : Usable(i)}}
               IN f \in up[N]

\* A single move nothing has overtaken that writes the new parent.
MovesAlone(o) ==
    /\ op[o].pc = "move" /\ op'[o].pc = "move" /\ op'[o].todo # op[o].todo
    /\ op[o].kind = "single" /\ ~op[o].changed /\ op[o].target # Root
\* Nothing that it moves along ends deeper than the limit (what is archived, or
\* below that, is not looked at).
WithinLimit(o) ==
    \A f \in op[o].folders, g \in Folders : Plain(f, g)' /\ Live(g) => Level(g)' <= MaxDepth

\* So it is, unless the count of the levels below the folder has failed and was
\* taken for 0.
DepthKept == \A o \in Ops : MovesAlone(o) /\ ~op[o].uncounted => WithinLimit(o)

\* A delete nothing has overtaken leaves no folder behind whose parent it
\* deleted, save the archived ones and those of other owners.
SubtreeGone ==
    \A o \in Ops : op[o].pc = "apply" /\ op[o].kind = "delete" /\ op'[o].pc = "done" /\ ~op[o].changed =>
        \A g \in Folders : Live(g)' /\ parent[g] # Root /\ st[parent[g]] = "live" /\ st'[parent[g]] = "gone"
                             => archived[g] \/ owner[g] # op[o].user

\* A move nothing overtakes keeps the limit, and a delete takes what is below.
StepsSound == [][DepthKept /\ SubtreeGone]_vars
=============================================================================
