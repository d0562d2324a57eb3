--------------------------- MODULE FolderTreeProofs ---------------------------
(***************************************************************************)
(* Why moves keep the folders a forest, where a folder ends up, how deep,  *)
(* and what a delete takes, for any number of folders, users and requests. *)
(***************************************************************************)
EXTENDS FolderTree, FiniteSetTheorems, WellFoundedInduction, TLAPS

-----------------------------------------------------------------------------
(* The invariant *)

\* What a request has in hand at each of its stages
Staged(q) ==
    /\ q.pc \notin {"new", "insert", "done"} => q.folders # {}
    /\ q.todo \subseteq q.folders
    /\ q.pc = "walk" => q.target \in Folders /\ q.cursor \in Folders /\ q.at \in q.todo
    /\ q.pc = "target" => q.target \in Folders
    /\ q.pc = "up" => q.cursor \in Folders
    /\ q.pc \notin {"move", "back"} => \A f \in Folders : q.orig[f] = Root

\* Neither the tree nor a request refers to a row that is yet to be inserted,
\* and a row that is not there has no parent
Inserted(n) == n = Root \/ st[n] # "new"
Sound ==
    /\ \A f \in Folders : ~Live(f) => parent[f] = Root
    /\ \A f \in Folders : Inserted(parent[f])
    /\ \A o \in Ops : /\ Staged(op[o])
                      /\ Inserted(op[o].target)
                      /\ \A f \in op[o].folders : Inserted(f)
                      /\ \A f \in Folders : Inserted(op[o].orig[f])

\* p, a function that gives parents, leads from every folder to the root
NoLoop(p) == \A S \in SUBSET Folders : S # {} => \E f \in S : p[f] \notin S

\* A holds n and all that is above n
Upwards(A, n, p) ==
    /\ n \in A \cup {Root}
    /\ \A f \in A : Inserted(f) /\ p[f] \in A \cup {Root}

\* The folders of a move that have been validated
Validated(q) == IF q.pc \in {"pick", "walk"} THEN q.folders \ q.todo ELSE q.folders
Moving(q) == q.pc \in {"pick", "walk", "target", "up", "down", "read", "move", "back"}

\* None of them is the target or above it
Clear(q) ==
    Moving(q) => \E A \in SUBSET Folders : /\ Upwards(A, q.target, parent)
                                           /\ A \cap Validated(q) = {}

\* The walk from the target has come to the cursor without meeting the folder
OnTheWay(q) ==
    q.pc = "walk" => /\ q.target \in q.seen \cup {q.cursor}
                     /\ \A f \in q.seen : parent[f] \in q.seen \cup {q.cursor, Root}
                     /\ \A f \in q.seen \cup {q.cursor} : Inserted(f)
                     /\ q.at \notin q.seen \cup {q.cursor}

\* The parents as they were, but for what other requests have changed
Original(q) == [f \in Folders |-> IF f \in q.folders THEN q.orig[f] ELSE parent[f]]

\* The rollback goes back to a forest, in whatever order
Restorable(q) ==
    q.pc \in {"move", "back"} =>
        \/ \A f \in Folders : q.orig[f] = Root
        \/ /\ NoLoop(Original(q))
           /\ \A f \in q.folders : parent[f] \in {q.target, q.orig[f], Root}

\* Until two moves have raced: the folders are a forest, and so they are after
\* the next write of a move that no other has overtaken
ForestInv ==
    ~raced => /\ Acyclic
              /\ \A o \in Ops : ~op[o].moved =>
                    Clear(op[o]) /\ OnTheWay(op[o]) /\ Restorable(op[o])

\* One move at a time answers for a folder: it knows where the folder was,
\* and has put the folder where it says
Answers(o, f) == Working(o) /\ f \in op[o].folders
Accounted(f) ==
    /\ \A o, p \in Ops : Answers(o, f) /\ Answers(p, f) => o = p
    /\ \A o \in Ops : Answers(o, f) =>
          /\ op[o].orig[f] = want[f]
          /\ f \notin op[o].todo =>
                parent[f] = IF op[o].pc = "move" THEN op[o].target ELSE want[f]
    /\ (\A o \in Ops : ~Answers(o, f)) => parent[f] = want[f]
OutcomeInv == \A f \in Folders : Live(f) /\ ~mixed[f] => Accounted(f)

FolderInv == TypeOK /\ Sound /\ ForestInv /\ OutcomeInv

-----------------------------------------------------------------------------
(* Types *)

LEMMA Constants == /\ 0 \in Nodes /\ Root \in Nodes /\ Root \notin Folders
                   /\ Folders \subseteq Nodes /\ Folders \subseteq Nat
                   /\ (CHOOSE u \in Users : TRUE) \in Users
BY FolderAssumption DEF Root, Nodes, Folders

LEMMA NoOpTyped == NoOp \in OpSet /\ Staged(NoOp) /\ ~NoOp.moved
<1>1. [f \in Folders |-> Root] \in [Folders -> Nodes]
  BY Constants
<1> QED BY <1>1, Constants DEF NoOp, OpSet, Staged

LEMMA Typed ==
    ASSUME TypeOK
    PROVE  /\ \A o \in Ops : op[o] \in OpSet
           /\ parent \in [Folders -> Nodes] /\ st \in [Folders -> {"new", "live", "gone"}]
           /\ \A n \in Folders : Above(n) \in Nodes
BY Constants DEF TypeOK, Above


LEMMA EndedTyped ==
    ASSUME TypeOK, NEW o \in Ops,
           NEW s \in {"none", "processing", "rolling_back", "failed", "completed", "cancelled"}
    PROVE  /\ Ended(o, s) \in OpSet /\ Staged(Ended(o, s)) /\ Ended(o, s).pc = "done"
           /\ Ended(o, s).folders = {} /\ Ended(o, s).target = Root
           /\ \A f \in Folders : Ended(o, s).orig[f] = Root
<1>1. op[o].kind \in {"single", "bulk", "delete", "archive", "restore", "create"}
  BY Typed DEF OpSet
<1>2. Ended(o, s) \in OpSet
  BY <1>1, NoOpTyped DEF Ended, OpSet
<1>3. /\ Ended(o, s).pc = "done" /\ Ended(o, s).folders = {} /\ Ended(o, s).target = Root
      /\ Ended(o, s).todo = {} /\ Ended(o, s).orig = NoOp.orig
  BY NoOpTyped DEF Ended, NoOp
<1>4. \A f \in Folders : Ended(o, s).orig[f] = Root
  BY <1>3 DEF NoOp
<1> QED BY <1>2, <1>3, <1>4 DEF Staged

LEMMA InitiatedTyped ==
    ASSUME TypeOK, NEW o \in Ops, Staged(op[o]), op[o].pc \in {"pick", "walk", "target",
    "up", "down"}
    PROVE  /\ Initiated(o) \in OpSet /\ Staged(Initiated(o)) /\ Initiated(o).pc = "read"
<1>1. op[o] \in OpSet
  BY Typed
<1>2. Initiated(o) \in OpSet
  BY <1>1, Constants DEF Initiated, OpSet
<1>3. /\ Initiated(o).pc = "read" /\ Initiated(o).folders = op[o].folders
      /\ Initiated(o).todo = {} /\ Initiated(o).orig = op[o].orig
  BY <1>1 DEF Initiated, OpSet
<1> QED BY <1>2, <1>3 DEF Staged

LEMMA ValidTyped ==
    ASSUME TypeOK, NEW o \in Ops, Staged(op[o]), NEW f \in op[o].todo, op[o].pc \in {"pick",
    "walk"}
    PROVE  Valid(o, f) \in OpSet /\ Staged(Valid(o, f))
<1>1. op[o] \in OpSet /\ op[o].target \in Nodes
  BY Typed DEF OpSet
<1>2. CASE op[o].todo # {f}
  BY <1>1, <1>2, Constants DEF Valid, OpSet, Staged
<1>3. CASE op[o].todo = {f} /\ (op[o].kind = "bulk" \/ op[o].target = Root)
  BY <1>3, InitiatedTyped DEF Valid
<1>4. CASE op[o].todo = {f} /\ op[o].target # Root
  <2> DEFINE r == [op[o] EXCEPT !.todo = {}, !.pc = "target", !.at = Root, !.cursor = Root,
                                !.seen = {}]
  <2>1. r \in OpSet
    BY <1>1, Constants DEF OpSet
  <2>2. /\ r.pc = "target" /\ r.folders = op[o].folders /\ r.target = op[o].target
        /\ r.todo = {} /\ r.orig = op[o].orig
    BY <1>1 DEF OpSet
  <2>3. Staged(r)
    BY <1>1, <1>4, <2>2 DEF Staged, Nodes
  <2>4. CASE op[o].kind = "bulk"
    BY <1>4, <2>4, InitiatedTyped DEF Valid
  <2>5. CASE op[o].kind # "bulk"
    BY <1>4, <2>1, <2>3, <2>5 DEF Valid
  <2> QED BY <2>4, <2>5
<1> QED BY <1>2, <1>3, <1>4


-----------------------------------------------------------------------------
(* The request that takes a step, and the others *)

\* r is q, overtaken or not
Alike(r, q) ==
    /\ r.pc = q.pc /\ r.kind = q.kind /\ r.folders = q.folders /\ r.target = q.target
    /\ r.todo = q.todo /\ r.at = q.at /\ r.cursor = q.cursor /\ r.seen = q.seen
    /\ r.orig = q.orig /\ (q.moved => r.moved)

Steps(o, r) ==
    /\ op' \in [Ops -> OpSet] /\ op'[o] = r
    /\ \A p \in Ops \ {o} : Alike(op'[p], op[p])

LEMMA BecomeSteps ==
    ASSUME TypeOK, NEW o \in Ops, NEW r \in OpSet, Become(o, r)
    PROVE  Steps(o, r)
BY Typed DEF TypeOK, Become, Steps, Alike

LEMMA OvertakeSteps ==
    ASSUME TypeOK, NEW o \in Ops, NEW r \in OpSet, NEW b \in BOOLEAN, Overtake(o, r, b)
    PROVE  /\ Steps(o, r)
           /\ b => \A p \in Ops \ {o} : Active(p) => op'[p].moved
<1>1. \A p \in Ops \ {o} : op'[p] \in OpSet /\ Alike(op'[p],
op[p]) /\ (b /\ Active(p) => op'[p].moved)
  <2> TAKE p \in Ops \ {o}
  <2> DEFINE q == op[p]
  <2>1. q \in OpSet
    BY Typed
  <2>2. CASE ~Active(p)
    BY <2>1, <2>2 DEF Overtake, Alike
  <2>3. CASE Active(p)
    <3>1. op'[p] = [q EXCEPT !.changed = TRUE, !.moved = q.moved \/ b]
      BY <2>3 DEF Overtake
    <3> HIDE DEF q
    <3>2. op'[p] \in OpSet /\ Alike(op'[p], q) /\ (b => op'[p].moved)
      BY <2>1, <3>1 DEF OpSet, Alike
    <3> QED BY <3>2 DEF q
  <2> QED BY <2>2, <2>3
<1>2. op' = [p \in Ops |-> op'[p]] /\ op'[o] = r
  BY DEF Overtake
<1> QED BY <1>1, <1>2 DEF Steps


\* What a request becomes in a step of its own
Became(o) == \E r \in OpSet : /\ Staged(r)
                              /\ Become(o, r) \/ \E b \in BOOLEAN : Overtake(o, r, b)

LEMMA StartBecame ==
    ASSUME TypeOK, Sound, NEW o \in Ops
    PROVE  /\ StartMove(o) => Became(o)
           /\ StartCreate(o) => Became(o)
           /\ StartCollect(o) => Became(o)
<1>1. ASSUME StartMove(o) PROVE Became(o)
  <2>1. PICK kind \in {"single", "bulk"}, S \in SUBSET {f \in Folders : Usable(f)},
             t \in {f \in Folders : Usable(f)} \cup {Root} :
          S # {} /\ Become(o, [NoOp EXCEPT !.pc = "pick", !.kind = kind, !.folders = S,
                                           !.target = t, !.todo = S])
    BY <1>1 DEF StartMove
  <2> DEFINE r == [NoOp EXCEPT !.pc = "pick", !.kind = kind, !.folders = S,
                               !.target = t, !.todo = S]
  <2>2. r \in OpSet
    BY NoOpTyped, Constants DEF OpSet
  <2>3. r.pc = "pick" /\ r.folders = S /\ r.todo = S /\ r.orig = NoOp.orig
    BY NoOpTyped DEF OpSet
  <2>4. Staged(r)
    BY <2>1, <2>3 DEF Staged, NoOp
  <2> QED BY <2>1, <2>2, <2>4 DEF Became
<1>2. ASSUME StartCreate(o) PROVE Became(o)
  <2>1. PICK u \in Users, p \in {f \in Folders : Usable(f)} \cup {Root} :
          Become(o, [NoOp EXCEPT !.pc = "insert", !.kind = "create", !.user = u, !.target = p])
    BY <1>2 DEF StartCreate
  <2> DEFINE r == [NoOp EXCEPT !.pc = "insert", !.kind = "create", !.user = u, !.target = p]
  <2>2. r \in OpSet
    BY NoOpTyped, Constants DEF OpSet
  <2>3. r.pc = "insert" /\ r.folders = {} /\ r.todo = {} /\ r.orig = NoOp.orig
    BY NoOpTyped DEF OpSet, NoOp
  <2>4. Staged(r)
    BY <2>3 DEF Staged, NoOp
  <2> QED BY <2>1, <2>2, <2>4 DEF Became
<1>3. ASSUME StartCollect(o) PROVE Became(o)
  <2>1. PICK kind \in {"delete", "archive", "restore"}, u \in Users, f \in Folders :
          Become(o, [NoOp EXCEPT !.pc = "collect", !.kind = kind, !.user = u,
                                 !.folders = {f}, !.front = {f}, !.found = {f}])
    BY <1>3 DEF StartCollect
  <2> DEFINE r == [NoOp EXCEPT !.pc = "collect", !.kind = kind, !.user = u,
                               !.folders = {f}, !.front = {f}, !.found = {f}]
  <2>2. r \in OpSet
    BY NoOpTyped, Constants DEF OpSet
  <2>3. r.pc = "collect" /\ r.folders = {f} /\ r.todo = {} /\ r.orig = NoOp.orig
    BY NoOpTyped DEF OpSet, NoOp
  <2>4. Staged(r)
    BY <2>3 DEF Staged, NoOp
  <2> QED BY <2>1, <2>2, <2>4 DEF Became
<1> QED BY <1>1, <1>2, <1>3

LEMMA ValidateBecame ==
    ASSUME TypeOK, Sound, NEW o \in Ops
    PROVE  /\ PickFolder(o) => Became(o)
           /\ WalkUp(o) => Became(o)
           /\ FindTarget(o) => Became(o)
           /\ DepthUp(o) => Became(o)
           /\ DepthDown(o) => Became(o)
           /\ FailDepth(o) => Became(o)
<1>a. op[o] \in OpSet /\ Staged(op[o]) /\ op[o].target \in Nodes /\ op[o].todo \subseteq Folders
  BY Typed DEF Sound, OpSet
<1>b. Refused(o) \in OpSet /\ Staged(Refused(o))
  BY EndedTyped DEF Refused
<1>1. ASSUME PickFolder(o) PROVE Became(o)
  <2>1. PICK f \in op[o].todo :
          Become(o, IF ~Usable(f) \/ op[o].target = f THEN Refused(o)
                    ELSE IF op[o].target = Root THEN Valid(o, f)
                    ELSE [op[o] EXCEPT !.pc = "walk", !.at = f, !.cursor = op[o].target,
                    !.seen = {}])
    BY <1>1 DEF PickFolder
  <2>2. op[o].pc = "pick"
    BY <1>1 DEF PickFolder
  <2> DEFINE r == [op[o] EXCEPT !.pc = "walk", !.at = f, !.cursor = op[o].target, !.seen = {}]
  <2>3. r \in OpSet
    BY <1>a, Constants DEF OpSet
  <2>4. /\ r.pc = "walk" /\ r.folders = op[o].folders /\ r.todo = op[o].todo /\ r.orig = op[o].orig
        /\ r.target = op[o].target /\ r.cursor = op[o].target /\ r.at = f
    BY <1>a DEF OpSet
  <2>5. op[o].target # Root => Staged(r)
    BY <1>a, <2>2, <2>4 DEF Staged, Nodes
  <2> HIDE DEF r
  <2>6. CASE ~Usable(f) \/ op[o].target = f
    BY <1>b, <2>1, <2>6 DEF Became
  <2>7. CASE ~(~Usable(f) \/ op[o].target = f) /\ op[o].target = Root
    BY <1>a, <2>1, <2>2, <2>7, ValidTyped DEF Became
  <2>8. CASE ~(~Usable(f) \/ op[o].target = f) /\ op[o].target # Root
    BY <2>1, <2>3, <2>5, <2>8 DEF Became, r
  <2> QED BY <2>6, <2>7, <2>8
<1>2. ASSUME WalkUp(o) PROVE Became(o)
  <2> DEFINE q == Above(op[o].cursor)
             seen == op[o].seen \cup {op[o].cursor}
             r == [op[o] EXCEPT !.seen = seen, !.cursor = q]
  <2>1. op[o].pc = "walk" /\ Become(o, IF q = Root THEN Valid(o, op[o].at)
                                       ELSE IF q = op[o].at \/ q \in seen THEN Refused(o) ELSE r)
    BY <1>2 DEF WalkUp
  <2>2. op[o].cursor \in Folders /\ op[o].at \in op[o].todo /\ q \in Nodes
    BY <1>a, <2>1, Typed DEF Staged
  <2> HIDE DEF q
  <2>3. r \in OpSet
    BY <1>a, <2>2 DEF OpSet
  <2>4. /\ r.pc = "walk" /\ r.folders = op[o].folders /\ r.todo = op[o].todo /\ r.orig = op[o].orig
        /\ r.target = op[o].target /\ r.cursor = q /\ r.at = op[o].at
    BY <1>a, <2>1 DEF OpSet
  <2>5. q # Root => Staged(r)
    BY <1>a, <2>1, <2>2, <2>4 DEF Staged, Nodes
  <2> HIDE DEF r
  <2>6. CASE q = Root
    BY <1>a, <2>1, <2>2, <2>6, ValidTyped DEF Became
  <2>7. CASE q # Root
    BY <1>b, <2>1, <2>3, <2>5, <2>7 DEF Became
  <2> QED BY <2>6, <2>7
<1>3. ASSUME FindTarget(o) PROVE Became(o)
  <2> DEFINE r == [op[o] EXCEPT !.pc = "up", !.cursor = op[o].target, !.found = {}, !.depth = 1]
  <2>1. op[o].pc = "target" /\ Become(o, IF ~Usable(op[o].target) THEN Refused(o) ELSE r)
    BY <1>3 DEF FindTarget
  <2>2. r \in OpSet
    BY <1>a DEF OpSet
  <2>3. /\ r.pc = "up" /\ r.folders = op[o].folders /\ r.todo = op[o].todo /\ r.orig = op[o].orig
        /\ r.cursor = op[o].target
    BY <1>a DEF OpSet
  <2>4. Staged(r)
    BY <1>a, <2>1, <2>3 DEF Staged
  <2> HIDE DEF r
  <2> QED BY <1>b, <2>1, <2>2, <2>4 DEF Became
<1>4. ASSUME DepthUp(o) PROVE Became(o)
  <2> DEFINE q == Above(op[o].cursor)
             found == op[o].found \cup {op[o].cursor}
             f == CHOOSE f \in op[o].folders : TRUE
             r == [op[o] EXCEPT !.pc = "down", !.front = {f}, !.found = {f}, !.below = 0]
             s == [op[o] EXCEPT !.found = found, !.cursor = q, !.depth = op[o].depth + 1]
  <2>1. op[o].pc = "up" /\ Become(o,
  IF q = Root THEN r ELSE IF q \in found THEN Refused(o) ELSE s)
    BY <1>4 DEF DepthUp
  <2>2. op[o].cursor \in Folders /\ op[o].folders # {} /\ q \in Nodes
    BY <1>a, <2>1, Typed DEF Staged
  <2>3. f \in Folders
    BY <1>a, <2>2 DEF OpSet
  <2> HIDE DEF q, f
  <2>a. found \in SUBSET Folders /\ op[o].depth + 1 \in Nat /\ {f} \in SUBSET Folders
    BY <1>a, <2>2, <2>3 DEF OpSet
  <2> HIDE DEF found
  <2>4. r \in OpSet /\ s \in OpSet
    <3>1. r \in OpSet
      BY <1>a, <2>a DEF OpSet
    <3>2. s \in OpSet
      BY <1>a, <2>2, <2>a DEF OpSet
    <3> QED BY <3>1, <3>2
  <2>5. /\ r.pc = "down" /\ r.folders = op[o].folders /\ r.todo = op[o].todo /\ r.orig = op[o].orig
        /\ s.pc = "up" /\ s.folders = op[o].folders /\ s.todo = op[o].todo /\ s.orig = op[o].orig
        /\ s.cursor = q
    BY <1>a, <2>1 DEF OpSet
  <2>6. Staged(r) /\ (q # Root => Staged(s))
    BY <1>a, <2>1, <2>2, <2>5 DEF Staged, Nodes
  <2> HIDE DEF r, s
  <2> QED BY <1>b, <2>1, <2>4, <2>6 DEF Became
<1>5. ASSUME DepthDown(o) PROVE Became(o)
  <2> DEFINE next == Children(op[o].front) \ op[o].found
             r == [op[o] EXCEPT !.front = next, !.found = op[o].found \cup next,
                                !.below = op[o].below + 1]
  <2>1. op[o].pc = "down" /\ Become(o, IF next # {} THEN r
                                       ELSE IF op[o].depth + op[o].below > MaxDepth THEN Refused(o)
                                       ELSE Initiated(o))
    BY <1>5 DEF DepthDown
  <2>2. next \subseteq Folders
    BY DEF Children
  <2>a. /\ next \in SUBSET Folders /\ op[o].found \cup next \in SUBSET Folders
        /\ op[o].below + 1 \in Nat
    BY <1>a, <2>2 DEF OpSet
  <2> HIDE DEF next
  <2>3. r \in OpSet
    BY <1>a, <2>a DEF OpSet
  <2>4. r.pc = "down" /\ r.folders = op[o].folders /\ r.todo = op[o].todo /\ r.orig = op[o].orig
    BY <1>a, <2>1 DEF OpSet
  <2>5. Staged(r)
    BY <1>a, <2>1, <2>4 DEF Staged
  <2>6. Initiated(o) \in OpSet /\ Staged(Initiated(o))
    BY <1>a, <2>1, InitiatedTyped
  <2> HIDE DEF r
  <2> QED BY <1>b, <2>1, <2>3, <2>5, <2>6 DEF Became
<1>6. ASSUME FailDepth(o) PROVE Became(o)
  <2> DEFINE r == [Initiated(o) EXCEPT !.uncounted = TRUE]
  <2>1. op[o].pc = "down" /\ Become(o, IF op[o].depth > MaxDepth THEN Refused(o) ELSE r)
    BY <1>6 DEF FailDepth
  <2>2. Initiated(o) \in OpSet /\ Staged(Initiated(o))
    BY <1>a, <2>1, InitiatedTyped
  <2>3. /\ r \in OpSet /\ r.pc = Initiated(o).pc /\ r.folders = Initiated(o).folders
        /\ r.todo = Initiated(o).todo /\ r.orig = Initiated(o).orig
        /\ r.cursor = Initiated(o).cursor /\ r.at = Initiated(o).at
        /\ r.target = Initiated(o).target
    BY <2>2 DEF OpSet
  <2>4. Staged(r)
    BY <2>2, <2>3 DEF Staged
  <2> HIDE DEF r
  <2> QED BY <1>b, <2>1, <2>3, <2>4 DEF Became
<1> QED BY <1>1, <1>2, <1>3, <1>4, <1>5, <1>6


LEMMA ProcessBecame ==
    ASSUME TypeOK, Sound, NEW o \in Ops
    PROVE  /\ ReadOriginal(o) => Became(o)
           /\ FailRead(o) => Became(o)
           /\ MoveFolder(o) => Became(o)
           /\ FailMove(o) => Became(o)
           /\ MoveBack(o) => Became(o)
<1>a. /\ op[o] \in OpSet /\ Staged(op[o]) /\ op[o].folders \in SUBSET Folders
      /\ op[o].todo \in SUBSET Folders
  BY Typed DEF Sound, OpSet
<1>1. ASSUME ReadOriginal(o) PROVE Became(o)
  <2> DEFINE g == [f \in Folders |-> IF f \in op[o].folders THEN parent[f] ELSE Root]
             r == [op[o] EXCEPT !.pc = "move", !.todo = op[o].folders, !.orig = g]
  <2>1. op[o].pc = "read" /\ Become(o, r)
    BY <1>1 DEF ReadOriginal
  <2>2. g \in [Folders -> Nodes]
    BY Typed, Constants
  <2> HIDE DEF g
  <2>3. r \in OpSet
    BY <1>a, <2>2 DEF OpSet
  <2>4. r.pc = "move" /\ r.folders = op[o].folders /\ r.todo = op[o].folders
    BY <1>a DEF OpSet
  <2>5. Staged(r)
    BY <1>a, <2>1, <2>4 DEF Staged
  <2> QED BY <2>1, <2>3, <2>5 DEF Became
<1>2. ASSUME FailRead(o) \/ FailMove(o) PROVE Became(o)
  <2>1. PICK F \in {{}, op[o].folders} :
          /\ op[o].pc \in {"read", "move"}
          /\ Become(o, [op[o] EXCEPT !.pc = "back", !.status = "rolling_back", !.todo = F])
    BY <1>2 DEF FailRead, FailMove
  <2> DEFINE r == [op[o] EXCEPT !.pc = "back", !.status = "rolling_back", !.todo = F]
  <2>2. r \in OpSet
    BY <1>a DEF OpSet
  <2>3. r.pc = "back" /\ r.folders = op[o].folders /\ r.todo = F
    BY <1>a DEF OpSet
  <2>4. Staged(r)
    BY <1>a, <2>1, <2>3 DEF Staged
  <2> QED BY <2>1, <2>2, <2>4 DEF Became
<1>3. ASSUME MoveFolder(o) \/ MoveBack(o) PROVE Became(o)
  <2>1. PICK f \in op[o].todo :
          /\ op[o].pc \in {"move", "back"}
          /\ Overtake(o, [op[o] EXCEPT !.todo = op[o].todo \ {f}], TRUE)
    BY <1>3 DEF MoveFolder, MoveBack
  <2> DEFINE r == [op[o] EXCEPT !.todo = op[o].todo \ {f}]
  <2>2. r \in OpSet
    BY <1>a DEF OpSet
  <2>3. r.pc = op[o].pc /\ r.folders = op[o].folders /\ r.todo = op[o].todo \ {f}
    BY <1>a DEF OpSet
  <2>4. Staged(r)
    BY <1>a, <2>1, <2>3 DEF Staged
  <2> QED BY <2>1, <2>2, <2>4 DEF Became
<1> QED BY <1>1, <1>2, <1>3

LEMMA EndBecame ==
    ASSUME TypeOK, Sound, NEW o \in Ops
    PROVE  /\ CompleteMove(o) \/ EndRollback(o) \/ FailRollback(o) \/ StopInstance(o)
                \/ InsertFolder(o) \/ DeleteFolders(o) \/ SetArchived(o) => Became(o)
           /\ CollectLevel(o) => Became(o)
           /\ MarkCancelled(o) => Became(o)
           /\ CheckCancel(o) => Became(o)
<1>a. op[o] \in OpSet /\ Staged(op[o]) /\ op[o].found \in SUBSET Folders
  BY Typed DEF Sound, OpSet
<1>1. ASSUME \/ CompleteMove(o) \/ EndRollback(o) \/ FailRollback(o) \/ StopInstance(o)
             \/ InsertFolder(o) \/ DeleteFolders(o) \/ SetArchived(o)
      PROVE  Became(o)
  <2>1. op[o].status \in {"none", "processing", "rolling_back", "failed", "completed",
  "cancelled"}
    BY <1>a DEF OpSet
  <2>2. PICK s \in {"none", "processing", "rolling_back", "failed", "completed", "cancelled"} :
          Become(o, Ended(o, s)) \/ Overtake(o, Ended(o, s), FALSE)
    BY <1>1, <2>1 DEF CompleteMove, EndRollback, FailRollback, StopInstance, InsertFolder,
       DeleteFolders, SetArchived
  <2> QED BY <2>2, EndedTyped DEF Became
<1>2. ASSUME CollectLevel(o) PROVE Became(o)
  <2>1. op[o].pc = "collect" /\ \E F \in SUBSET Folders :
          \/ Become(o, [op[o] EXCEPT !.pc = "apply", !.front = {}])
          \/ Become(o, [op[o] EXCEPT !.front = F, !.found = op[o].found \cup F])
    <3> DEFINE next == {g \in Folders : /\ Live(g) /\ parent[g] \in op[o].front
                                        /\ owner[g] = op[o].user
                                        /\ archived[g] => op[o].kind = "restore"} \ op[o].found
    <3>1. next \in SUBSET Folders
      OBVIOUS
    <3> QED BY <1>2, <3>1 DEF CollectLevel
  <2>2. PICK F \in SUBSET Folders :
          \/ Become(o, [op[o] EXCEPT !.pc = "apply", !.front = {}])
          \/ Become(o, [op[o] EXCEPT !.front = F, !.found = op[o].found \cup F])
    BY <2>1
  <2> DEFINE r == [op[o] EXCEPT !.pc = "apply", !.front = {}]
             s == [op[o] EXCEPT !.front = F, !.found = op[o].found \cup F]
  <2>3. op[o].found \cup F \in SUBSET Folders
    BY <1>a
  <2>4. r \in OpSet
    BY <1>a DEF OpSet
  <2>5. s \in OpSet
    BY <1>a, <2>3 DEF OpSet
  <2>6. /\ r.pc = "apply" /\ r.folders = op[o].folders /\ r.todo = op[o].todo /\ r.orig = op[o].orig
        /\ s.pc = "collect" /\ s.folders = op[o].folders /\ s.todo = op[o].todo
        /\ s.orig = op[o].orig
    BY <1>a, <2>1 DEF OpSet
  <2>7. Staged(r) /\ Staged(s)
    BY <1>a, <2>1, <2>6 DEF Staged
  <2> HIDE DEF r, s
  <2> QED BY <2>2, <2>4, <2>5, <2>7 DEF Became, r, s
<1>3. ASSUME MarkCancelled(o) PROVE Became(o)
  <2> DEFINE r == [op[o] EXCEPT !.status = "cancelled"]
  <2>1. r \in OpSet
    BY <1>a DEF OpSet
  <2>2. /\ r.pc = op[o].pc /\ r.folders = op[o].folders /\ r.todo = op[o].todo
        /\ r.orig = op[o].orig
        /\ r.target = op[o].target /\ r.cursor = op[o].cursor /\ r.at = op[o].at
    BY <1>a DEF OpSet
  <2>3. Staged(r)
    BY <1>a, <2>2 DEF Staged
  <2> QED BY <1>3, <2>1, <2>3 DEF MarkCancelled, Became
<1>4. ASSUME CheckCancel(o) PROVE Became(o)
  <2>1. op' = [op EXCEPT ![o] = op[o]]
    BY <1>4, Typed DEF CheckCancel, TypeOK
  <2> QED BY <1>a, <2>1 DEF Became, Become
<1> QED BY <1>1, <1>2, <1>3, <1>4

LEMMA AllBecome ==
    ASSUME TypeOK, Sound, Next
    PROVE  /\ op' \in [Ops -> OpSet]
           /\ \A p \in Ops : Staged(op'[p])
<1>1. PICK o \in Ops : Became(o)
  <2>1. PICK o \in Ops : \/ Validate(o) \/ Process(o) \/ Other(o)
                         \/ StopInstance(o) \/ CheckCancel(o) \/ MarkCancelled(o)
    BY DEF Next
  <2>2. CASE Validate(o)
    BY <2>2, StartBecame, ValidateBecame DEF Validate
  <2>3. CASE Process(o)
    BY <2>3, ProcessBecame, EndBecame DEF Process
  <2>4. CASE Other(o)
    BY <2>4, StartBecame, EndBecame DEF Other
  <2> QED BY <2>1, <2>2, <2>3, <2>4, EndBecame
<1>2. PICK r \in OpSet : Staged(r) /\ Steps(o, r)
  BY <1>1, BecomeSteps, OvertakeSteps DEF Became
<1> QED BY <1>2 DEF Steps, Alike, Staged, Sound


LEMMA TypingNext == TypeOK /\ Sound /\ Next => TypeOK'
<1> SUFFICES ASSUME TypeOK, Sound, Next PROVE TypeOK'
  OBVIOUS
<1> DEFINE Rest ==
      /\ st' \in [Folders -> {"new", "live", "gone"}]
      /\ parent' \in [Folders -> Nodes]
      /\ owner' \in [Folders -> Users]
      /\ archived' \in [Folders -> BOOLEAN]
      /\ cancel' \in [Ops -> BOOLEAN]
      /\ faults' \in 0 .. MaxFaults
      /\ want' \in [Folders -> Nodes]
      /\ mixed' \in [Folders -> BOOLEAN]
      /\ raced' \in BOOLEAN
<1> SUFFICES ASSUME NEW o \in Ops,
                    \/ Validate(o) \/ Process(o) \/ Other(o)
                    \/ StopInstance(o) \/ CheckCancel(o) \/ MarkCancelled(o)
             PROVE  Rest
  BY AllBecome DEF Next, TypeOK
<1>a. /\ op[o].target \in Nodes /\ op[o].user \in Users /\ op[o].orig \in [Folders -> Nodes]
      /\ op[o].todo \subseteq Folders /\ op[o].moved \in BOOLEAN /\ Root \in Nodes
  BY Typed, Constants DEF OpSet
<1>1. ASSUME StartMove(o) PROVE Rest
  BY <1>a, Typed, FolderAssumption, <1>1 DEF StartMove, GiveUp, TypeOK, tree, history
<1>2. ASSUME PickFolder(o) PROVE Rest
  BY <1>a, Typed, FolderAssumption, <1>2 DEF PickFolder, GiveUp, TypeOK, tree, history
<1>3. ASSUME WalkUp(o) PROVE Rest
  BY <1>a, Typed, FolderAssumption, <1>3 DEF WalkUp, GiveUp, TypeOK, tree, history
<1>4. ASSUME FindTarget(o) PROVE Rest
  BY <1>a, Typed, FolderAssumption, <1>4 DEF FindTarget, GiveUp, TypeOK, tree, history
<1>5. ASSUME DepthUp(o) PROVE Rest
  BY <1>a, Typed, FolderAssumption, <1>5 DEF DepthUp, GiveUp, TypeOK, tree, history
<1>6. ASSUME DepthDown(o) PROVE Rest
  BY <1>a, Typed, FolderAssumption, <1>6 DEF DepthDown, GiveUp, TypeOK, tree, history
<1>24. ASSUME FailDepth(o) PROVE Rest
  BY <1>a, Typed, FolderAssumption, <1>24 DEF FailDepth, GiveUp, TypeOK, tree, history
<1>7. ASSUME ReadOriginal(o) PROVE Rest
  BY <1>a, Typed, FolderAssumption, <1>7 DEF ReadOriginal, GiveUp, TypeOK, tree, history
<1>8. ASSUME FailRead(o) PROVE Rest
  BY <1>a, Typed, FolderAssumption, <1>8 DEF FailRead, GiveUp, TypeOK, tree, history
<1>9. ASSUME MoveFolder(o) PROVE Rest
  BY <1>a, Typed, FolderAssumption, <1>9 DEF MoveFolder, GiveUp, TypeOK, tree, history
<1>10. ASSUME CompleteMove(o) PROVE Rest
  BY <1>a, Typed, FolderAssumption, <1>10 DEF CompleteMove, GiveUp, TypeOK, tree, history
<1>11. ASSUME FailMove(o) PROVE Rest
  BY <1>a, Typed, FolderAssumption, <1>11 DEF FailMove, GiveUp, TypeOK, tree, history
<1>12. ASSUME MoveBack(o) PROVE Rest
  BY <1>a, Typed, FolderAssumption, <1>12 DEF MoveBack, GiveUp, TypeOK, tree, history
<1>13. ASSUME EndRollback(o) PROVE Rest
  BY <1>a, Typed, FolderAssumption, <1>13 DEF EndRollback, GiveUp, TypeOK, tree, history
<1>14. ASSUME FailRollback(o) PROVE Rest
  BY <1>a, Typed, FolderAssumption, <1>14 DEF FailRollback, GiveUp, TypeOK, tree, history
<1>15. ASSUME StartCreate(o) PROVE Rest
  BY <1>a, Typed, FolderAssumption, <1>15 DEF StartCreate, GiveUp, TypeOK, tree, history
<1>16. ASSUME InsertFolder(o) PROVE Rest
  <2>1. PICK f \in Folders :
            /\ st' = [st EXCEPT ![f] = "live"]
            /\ parent' = [parent EXCEPT ![f] = op[o].target]
            /\ want' = [want EXCEPT ![f] = op[o].target]
            /\ owner' = [owner EXCEPT ![f] = op[o].user]
            /\ archived' = [archived EXCEPT ![f] = FALSE]
    BY <1>16 DEF InsertFolder
  <2>2. UNCHANGED <<cancel, faults, mixed, raced>>
    BY <1>16 DEF InsertFolder
  <2>3. st' \in [Folders -> {"new", "live", "gone"}] /\ parent' \in [Folders -> Nodes]
    BY <1>a, <2>1, Typed
  <2>4. want' \in [Folders -> Nodes]
    BY <1>a, <2>1 DEF TypeOK
  <2>5. owner' \in [Folders -> Users] /\ archived' \in [Folders -> BOOLEAN]
    BY <1>a, <2>1 DEF TypeOK
  <2> QED BY <2>2, <2>3, <2>4, <2>5 DEF TypeOK
<1>17. ASSUME StartCollect(o) PROVE Rest
  BY <1>a, Typed, FolderAssumption, <1>17 DEF StartCollect, GiveUp, TypeOK, tree, history
<1>18. ASSUME CollectLevel(o) PROVE Rest
  BY <1>a, Typed, FolderAssumption, <1>18 DEF CollectLevel, GiveUp, TypeOK, tree, history
<1>19. ASSUME DeleteFolders(o) PROVE Rest
  BY <1>a, Typed, FolderAssumption, <1>19 DEF DeleteFolders, GiveUp, TypeOK, tree, history
<1>20. ASSUME SetArchived(o) PROVE Rest
  <2>1. UNCHANGED <<st, parent, owner, cancel, faults, history>>
    BY <1>20 DEF SetArchived
  <2>2. \A f \in Folders : (op[o].kind = "archive") \in BOOLEAN /\ archived[f] \in BOOLEAN
    BY DEF TypeOK
  <2>3. archived' \in [Folders -> BOOLEAN]
    BY <2>2, <1>20 DEF SetArchived
  <2> QED BY <2>1, <2>3 DEF TypeOK, history
<1>21. ASSUME StopInstance(o) PROVE Rest
  BY <1>a, Typed, FolderAssumption, <1>21 DEF StopInstance, GiveUp, TypeOK, tree, history
<1>22. ASSUME CheckCancel(o) PROVE Rest
  BY <1>a, Typed, FolderAssumption, <1>22 DEF CheckCancel, GiveUp, TypeOK, tree, history
<1>23. ASSUME MarkCancelled(o) PROVE Rest
  BY <1>a, Typed, FolderAssumption, <1>23 DEF MarkCancelled, GiveUp, TypeOK, tree, history
<1> QED
  BY <1>1, <1>2, <1>3, <1>4, <1>5, <1>6, <1>7, <1>8, <1>9, <1>10, <1>11, <1>12, <1>13, <1>14,
     <1>15, <1>16, <1>17, <1>18, <1>19, <1>20, <1>21, <1>22, <1>23, <1>24
  DEF Validate, Process, Other


-----------------------------------------------------------------------------
(* References *)

\* The request refers to nothing it has not referred to
Keeps(o) == /\ op'[o].target \in {op[o].target, Root}
            /\ op'[o].folders \in {op[o].folders, {}}
            /\ \A f \in Folders : op'[o].orig[f] \in {op[o].orig[f], Root}

LEMMA MostKeep ==
    ASSUME TypeOK, NEW o \in Ops,
           \/ Validate(o) \/ Process(o) \/ Other(o)
           \/ StopInstance(o) \/ CheckCancel(o) \/ MarkCancelled(o),
           ~StartMove(o), ~StartCreate(o), ~StartCollect(o), ~ReadOriginal(o)
    PROVE  Keeps(o)
<1>a. op[o] \in OpSet /\ op[o].target \in Nodes /\ op[o].orig \in [Folders -> Nodes]
  BY Typed DEF OpSet
<1>1. ASSUME PickFolder(o) PROVE Keeps(o)
  BY <1>a, <1>1 DEF PickFolder, Keeps, Become, Overtake, Refused, Ended, Valid, Initiated,
     TypeOK, OpSet, NoOp
<1>2. ASSUME WalkUp(o) PROVE Keeps(o)
  BY <1>a, <1>2 DEF WalkUp, Keeps, Become, Overtake, Refused, Ended, Valid, Initiated,
     TypeOK, OpSet, NoOp
<1>3. ASSUME FindTarget(o) PROVE Keeps(o)
  BY <1>a, <1>3 DEF FindTarget, Keeps, Become, Overtake, Refused, Ended, Valid, Initiated,
     TypeOK, OpSet, NoOp
<1>4. ASSUME DepthUp(o) PROVE Keeps(o)
  BY <1>a, <1>4 DEF DepthUp, Keeps, Become, Overtake, Refused, Ended, Valid, Initiated,
     TypeOK, OpSet, NoOp
<1>5. ASSUME DepthDown(o) PROVE Keeps(o)
  BY <1>a, <1>5 DEF DepthDown, Keeps, Become, Overtake, Refused, Ended, Valid, Initiated,
     TypeOK, OpSet, NoOp
<1>20. ASSUME FailDepth(o) PROVE Keeps(o)
  BY <1>a, <1>20 DEF FailDepth, Keeps, Become, Overtake, Refused, Ended, Valid, Initiated,
     TypeOK, OpSet, NoOp
<1>6. ASSUME FailRead(o) PROVE Keeps(o)
  BY <1>a, <1>6 DEF FailRead, Keeps, Become, Overtake, Refused, Ended, Valid, Initiated,
     TypeOK, OpSet, NoOp
<1>7. ASSUME MoveFolder(o) PROVE Keeps(o)
  <2>1. PICK f \in op[o].todo : Overtake(o, [op[o] EXCEPT !.todo = op[o].todo \ {f}], TRUE)
    BY <1>7 DEF MoveFolder
  <2>2. op'[o] = [op[o] EXCEPT !.todo = op[o].todo \ {f}]
    BY <2>1 DEF Overtake
  <2> QED BY <1>a, <2>2 DEF Keeps, OpSet
<1>8. ASSUME CompleteMove(o) PROVE Keeps(o)
  BY <1>a, <1>8 DEF CompleteMove, Keeps, Become, Overtake, Refused, Ended, Valid, Initiated,
     TypeOK, OpSet, NoOp
<1>9. ASSUME FailMove(o) PROVE Keeps(o)
  BY <1>a, <1>9 DEF FailMove, Keeps, Become, Overtake, Refused, Ended, Valid, Initiated,
     TypeOK, OpSet, NoOp
<1>10. ASSUME MoveBack(o) PROVE Keeps(o)
  <2>1. PICK f \in op[o].todo : Overtake(o, [op[o] EXCEPT !.todo = op[o].todo \ {f}], TRUE)
    BY <1>10 DEF MoveBack
  <2>2. op'[o] = [op[o] EXCEPT !.todo = op[o].todo \ {f}]
    BY <2>1 DEF Overtake
  <2> QED BY <1>a, <2>2 DEF Keeps, OpSet
<1>11. ASSUME EndRollback(o) PROVE Keeps(o)
  BY <1>a, <1>11 DEF EndRollback, Keeps, Become, Overtake, Refused, Ended, Valid, Initiated,
     TypeOK, OpSet, NoOp
<1>12. ASSUME FailRollback(o) PROVE Keeps(o)
  BY <1>a, <1>12 DEF FailRollback, Keeps, Become, Overtake, Refused, Ended, Valid, Initiated,
     TypeOK, OpSet, NoOp
<1>13. ASSUME InsertFolder(o) PROVE Keeps(o)
  BY <1>a, <1>13 DEF InsertFolder, Keeps, Become, Overtake, Refused, Ended, Valid, Initiated,
     TypeOK, OpSet, NoOp
<1>14. ASSUME CollectLevel(o) PROVE Keeps(o)
  BY <1>a, <1>14 DEF CollectLevel, Keeps, Become, Overtake, Refused, Ended, Valid, Initiated,
     TypeOK, OpSet, NoOp
<1>15. ASSUME DeleteFolders(o) PROVE Keeps(o)
  BY <1>a, <1>15 DEF DeleteFolders, Keeps, Become, Overtake, Refused, Ended, Valid,
     Initiated, TypeOK, OpSet, NoOp
<1>16. ASSUME SetArchived(o) PROVE Keeps(o)
  BY <1>a, <1>16 DEF SetArchived, Keeps, Become, Overtake, Refused, Ended, Valid, Initiated,
     TypeOK, OpSet, NoOp
<1>17. ASSUME StopInstance(o) PROVE Keeps(o)
  BY <1>a, <1>17 DEF StopInstance, Keeps, Become, Overtake, Refused, Ended, Valid, Initiated,
     TypeOK, OpSet, NoOp
<1>18. ASSUME CheckCancel(o) PROVE Keeps(o)
  BY <1>a, <1>18 DEF CheckCancel, Keeps
<1>19. ASSUME MarkCancelled(o) PROVE Keeps(o)
  BY <1>a, <1>19 DEF MarkCancelled, Keeps, Become, Overtake, Refused, Ended, Valid,
     Initiated, TypeOK, OpSet, NoOp
<1> QED
  BY <1>1, <1>2, <1>3, <1>4, <1>5, <1>6, <1>7, <1>8, <1>9, <1>10, <1>11, <1>12, <1>13, <1>14,
     <1>15, <1>16, <1>17, <1>18, <1>19, <1>20 DEF Validate, Process, Other

\* Rows are inserted, and never taken out of use again
Grows == \A n \in Nodes : Inserted(n) => Inserted(n)'

LEMMA TreeGrows ==
    ASSUME TypeOK, NEW o \in Ops,
           \/ Validate(o) \/ Process(o) \/ Other(o)
           \/ StopInstance(o) \/ CheckCancel(o) \/ MarkCancelled(o)
    PROVE  Grows
<1>a. st \in [Folders -> {"new", "live", "gone"}] /\ Nodes = Folders \cup {Root}
  BY DEF TypeOK, Nodes
<1>1. ASSUME StartMove(o) PROVE Grows
  BY <1>a, <1>1 DEF StartMove, Grows, Inserted, tree, Live, TypeOK
<1>2. ASSUME PickFolder(o) PROVE Grows
  BY <1>a, <1>2 DEF PickFolder, Grows, Inserted, tree, Live, TypeOK
<1>3. ASSUME WalkUp(o) PROVE Grows
  BY <1>a, <1>3 DEF WalkUp, Grows, Inserted, tree, Live, TypeOK
<1>4. ASSUME FindTarget(o) PROVE Grows
  BY <1>a, <1>4 DEF FindTarget, Grows, Inserted, tree, Live, TypeOK
<1>5. ASSUME DepthUp(o) PROVE Grows
  BY <1>a, <1>5 DEF DepthUp, Grows, Inserted, tree, Live, TypeOK
<1>6. ASSUME DepthDown(o) PROVE Grows
  BY <1>a, <1>6 DEF DepthDown, Grows, Inserted, tree, Live, TypeOK
<1>24. ASSUME FailDepth(o) PROVE Grows
  BY <1>a, <1>24 DEF FailDepth, Grows, Inserted, tree, Live, TypeOK
<1>7. ASSUME ReadOriginal(o) PROVE Grows
  BY <1>a, <1>7 DEF ReadOriginal, Grows, Inserted, tree, Live, TypeOK
<1>8. ASSUME FailRead(o) PROVE Grows
  BY <1>a, <1>8 DEF FailRead, Grows, Inserted, tree, Live, TypeOK
<1>9. ASSUME MoveFolder(o) PROVE Grows
  BY <1>a, <1>9 DEF MoveFolder, Grows, Inserted, tree, Live, TypeOK
<1>10. ASSUME CompleteMove(o) PROVE Grows
  BY <1>a, <1>10 DEF CompleteMove, Grows, Inserted, tree, Live, TypeOK
<1>11. ASSUME FailMove(o) PROVE Grows
  BY <1>a, <1>11 DEF FailMove, Grows, Inserted, tree, Live, TypeOK
<1>12. ASSUME MoveBack(o) PROVE Grows
  BY <1>a, <1>12 DEF MoveBack, Grows, Inserted, tree, Live, TypeOK
<1>13. ASSUME EndRollback(o) PROVE Grows
  BY <1>a, <1>13 DEF EndRollback, Grows, Inserted, tree, Live, TypeOK
<1>14. ASSUME FailRollback(o) PROVE Grows
  BY <1>a, <1>14 DEF FailRollback, Grows, Inserted, tree, Live, TypeOK
<1>15. ASSUME StartCreate(o) PROVE Grows
  BY <1>a, <1>15 DEF StartCreate, Grows, Inserted, tree, Live, TypeOK
<1>16. ASSUME InsertFolder(o) PROVE Grows
  BY <1>a, <1>16 DEF InsertFolder, Grows, Inserted, tree, Live, TypeOK
<1>17. ASSUME StartCollect(o) PROVE Grows
  BY <1>a, <1>17 DEF StartCollect, Grows, Inserted, tree, Live, TypeOK
<1>18. ASSUME CollectLevel(o) PROVE Grows
  BY <1>a, <1>18 DEF CollectLevel, Grows, Inserted, tree, Live, TypeOK
<1>19. ASSUME DeleteFolders(o) PROVE Grows
  BY <1>a, <1>19 DEF DeleteFolders, Grows, Inserted, tree, Live, TypeOK
<1>20. ASSUME SetArchived(o) PROVE Grows
  BY <1>a, <1>20 DEF SetArchived, Grows, Inserted, tree, Live, TypeOK
<1>21. ASSUME StopInstance(o) PROVE Grows
  BY <1>a, <1>21 DEF StopInstance, Grows, Inserted, tree, Live, TypeOK
<1>22. ASSUME CheckCancel(o) PROVE Grows
  BY <1>a, <1>22 DEF CheckCancel, Grows, Inserted, tree, Live, TypeOK
<1>23. ASSUME MarkCancelled(o) PROVE Grows
  BY <1>a, <1>23 DEF MarkCancelled, Grows, Inserted, tree, Live, TypeOK
<1> QED
  BY <1>1, <1>2, <1>3, <1>4, <1>5, <1>6, <1>7, <1>8, <1>9, <1>10, <1>11, <1>12, <1>13, <1>14,
     <1>15, <1>16, <1>17, <1>18, <1>19, <1>20, <1>21, <1>22, <1>23, <1>24
  DEF Validate, Process, Other


LEMMA SoundNext == TypeOK /\ Sound /\ Next => Sound'
<1> SUFFICES ASSUME TypeOK, Sound, Next PROVE Sound'
  OBVIOUS
<1> DEFINE Known(q) == /\ Inserted(q.target)
                       /\ \A f \in q.folders : Inserted(f)
                       /\ \A f \in Folders : Inserted(q.orig[f])
           Rows == {n \in Nodes : Inserted(n)}
           Up == /\ \A f \in Folders : ~Live(f)' => parent'[f] = Root
                 /\ \A f \in Folders : Inserted(parent[f])'
<1>1. PICK o \in Ops : \/ Validate(o) \/ Process(o) \/ Other(o)
                       \/ StopInstance(o) \/ CheckCancel(o) \/ MarkCancelled(o)
  BY DEF Next
<1>2. Grows /\ Inserted(Root)
  BY <1>1, TreeGrows DEF Inserted
<1>3. /\ op[o] \in OpSet /\ op[o].target \in Nodes /\ op[o].todo \subseteq op[o].folders
      /\ op[o].orig \in [Folders -> Nodes] /\ op[o].folders \subseteq Folders
      /\ \A p \in Ops : Known(op[p])
  BY Typed DEF OpSet, Sound, Staged
<1>4. Known(op'[o])
  <2>1. CASE StartMove(o)
    <3>1. PICK S \in SUBSET {f \in Folders : Usable(f)},
    t \in {f \in Folders : Usable(f)} \cup {Root},
               kind \in {"single", "bulk"} :
            Become(o, [NoOp EXCEPT !.pc = "pick", !.kind = kind, !.folders = S,
                                   !.target = t, !.todo = S])
      BY <2>1 DEF StartMove
    <3>2. op'[o].folders = S /\ op'[o].target = t /\ op'[o].orig = NoOp.orig
      BY <3>1, NoOpTyped DEF OpSet, Become, TypeOK
    <3> QED BY <1>2, <3>2 DEF Usable, Live, Inserted, NoOp
  <2>2. CASE StartCreate(o)
    <3>1. PICK u \in Users, t \in {f \in Folders : Usable(f)} \cup {Root} :
            op'[o] = [NoOp EXCEPT !.pc = "insert", !.kind = "create", !.user = u, !.target = t]
      BY <2>2 DEF StartCreate, Become, TypeOK
    <3>2. op'[o].folders = {} /\ op'[o].target = t /\ op'[o].orig = NoOp.orig
      BY <3>1, NoOpTyped DEF OpSet, NoOp
    <3> QED BY <1>2, <3>2 DEF Usable, Live, Inserted, NoOp
  <2>3. CASE StartCollect(o)
    <3>1. PICK kind \in {"delete", "archive", "restore"}, u \in Users, f \in Folders :
            Live(f) /\ Become(o, [NoOp EXCEPT !.pc = "collect", !.kind = kind, !.user = u,
                                              !.folders = {f}, !.front = {f}, !.found = {f}])
      BY <2>3 DEF StartCollect
    <3>2. op'[o].folders = {f} /\ op'[o].target = Root /\ op'[o].orig = NoOp.orig
      BY <3>1, NoOpTyped DEF OpSet, NoOp, Become, TypeOK
    <3> QED BY <1>2, <3>1, <3>2 DEF Live, Inserted, NoOp
  <2>4. CASE ReadOriginal(o)
    <3>1. /\ op'[o].folders = op[o].folders /\ op'[o].target = op[o].target
          /\ op'[o].orig = [f \in Folders |-> IF f \in op[o].folders THEN parent[f] ELSE Root]
      BY <1>3, <2>4 DEF ReadOriginal, Become, TypeOK, OpSet
    <3> QED BY <1>2, <1>3, <3>1 DEF Sound
  <2>5. CASE ~(StartMove(o) \/ StartCreate(o) \/ StartCollect(o) \/ ReadOriginal(o))
    <3>1. Keeps(o)
      BY <1>1, <2>5, MostKeep
    <3> QED BY <1>2, <1>3, <3>1 DEF Keeps
  <2> QED BY <2>1, <2>2, <2>3, <2>4, <2>5
<1>5. \A p \in Ops : Known(op'[p])
  <2>1. PICK r \in OpSet : Steps(o, r)
    <3>1. Became(o)
      BY <1>1, StartBecame, ValidateBecame, ProcessBecame, EndBecame DEF Validate, Process,
         Other
    <3> QED BY <3>1, BecomeSteps, OvertakeSteps DEF Became
  <2> QED BY <1>3, <1>4, <2>1 DEF Steps, Alike
<1>6. Up
  <2>a. /\ parent \in [Folders -> Nodes] /\ st \in [Folders -> {"new", "live", "gone"}]
        /\ \A f \in Folders : ~Live(f) => parent[f] = Root
        /\ \A f \in Folders : parent[f] \in Nodes /\ Inserted(parent[f])
    BY Typed DEF Sound
  <2>1. CASE UNCHANGED <<st, parent>>
    BY <2>a, <2>1 DEF Live, Inserted
  <2>2. CASE InsertFolder(o)
    <3>1. PICK f \in Folders : /\ st' = [st EXCEPT ![f] = "live"]
                               /\ parent' = [parent EXCEPT ![f] = op[o].target]
      BY <2>2 DEF InsertFolder
    <3>2. op[o].target \in Rows'
      BY <1>2, <1>3 DEF Grows
    <3>3. \A g \in Folders : Inserted(parent[g])'
      <4> TAKE g \in Folders
      <4>1. CASE g = f
        BY <2>a, <3>1, <3>2, <4>1 DEF Inserted
      <4>2. CASE g # f
        BY <1>2, <2>a, <3>1, <4>2 DEF Grows, Inserted
      <4> QED BY <4>1, <4>2
    <3> QED BY <2>a, <3>1, <3>3 DEF Live
  <2>3. CASE DeleteFolders(o)
    <3>1. \A g \in Folders : parent'[g] = Root \/ (g \notin op[o].found /\ parent'[g] = parent[g])
      BY <2>3 DEF DeleteFolders
    <3>2. \A g \in Folders : Inserted(parent[g])'
      BY <1>2, <2>a, <3>1 DEF Grows, Inserted
    <3>3. \A g \in Folders : Live(g)' \/ parent'[g] = Root
      BY <2>3, <2>a DEF DeleteFolders, Live
    <3> QED BY <3>2, <3>3
  <2>4. CASE MoveFolder(o) \/ MoveBack(o)
    <3>1. PICK f \in Folders, n \in Nodes :
            /\ Inserted(n) /\ st' = st
            /\ parent' = IF Live(f) THEN [parent EXCEPT ![f] = n] ELSE parent
      BY <1>3, <2>4 DEF MoveFolder, MoveBack
    <3> QED BY <2>a, <3>1 DEF Live, Inserted
  <2> QED
    BY <1>1, <2>1, <2>2, <2>3, <2>4
    DEF Validate, Process, Other, StartMove, PickFolder, WalkUp, FindTarget, DepthUp, DepthDown,
      FailDepth,
        ReadOriginal, FailRead, CompleteMove, FailMove, EndRollback, FailRollback, StartCreate,
        StartCollect, CollectLevel, SetArchived, StopInstance, CheckCancel, MarkCancelled, tree
<1>7. \A p \in Ops : op'[p].target \in Nodes /\ op'[p].folders \subseteq Folders
                     /\ op'[p].orig \in [Folders -> Nodes] /\ Staged(op'[p])
  BY AllBecome DEF OpSet
<1>8. \A p \in Ops : /\ op'[p].target \in Rows'
                     /\ \A f \in op'[p].folders : f \in Rows'
                     /\ \A f \in Folders : op'[p].orig[f] \in Rows'
  BY <1>2, <1>5, <1>7, Constants DEF Grows
<1> QED BY <1>6, <1>7, <1>8 DEF Sound, Inserted


-----------------------------------------------------------------------------
(* Functions that lead to the root *)

\* What leads to the root still does when some folders are sent to a place
\* above which none of them is
LEMMA Mixture ==
    ASSUME NEW p, NEW q, NoLoop(q), NEW A \in SUBSET Folders, NEW F, NEW t \in A \cup {Root},
           A \cap F = {},
           \A f \in A : p[f] \in A \cup {Root},
           \A f \in Folders : p[f] = q[f] \/ p[f] = Root \/ (f \in F /\ p[f] = t)
    PROVE  NoLoop(p)
<1> SUFFICES ASSUME NEW S \in SUBSET Folders, S # {}, \A f \in S : p[f] \in S
             PROVE  FALSE
  BY DEF NoLoop
<1>1. \A f \in S : p[f] # Root
  BY Constants
<1>2. CASE \E f \in S : f \in F /\ p[f] = t
  <2> DEFINE T == S \cap A
  <2>1. t \in T
    BY <1>1, <1>2
  <2>2. \A f \in T : f \notin F /\ p[f] \in T
    BY <1>1
  <2>3. \A f \in T : q[f] \in T
    BY <1>1, <2>2
  <2>4. T \in SUBSET Folders /\ T # {}
    BY <2>1
  <2> HIDE DEF T
  <2> QED BY <2>3, <2>4 DEF NoLoop
<1>3. CASE \A f \in S : ~(f \in F /\ p[f] = t)
  <2>1. \A f \in S : q[f] \in S
    BY <1>1, <1>3
  <2> QED BY <2>1 DEF NoLoop
<1> QED BY <1>2, <1>3

\* ... and when folders are sent to the root
LEMMA Cut ==
    ASSUME NEW p, NEW q, NoLoop(q), \A f \in Folders : p[f] = q[f] \/ p[f] = Root
    PROVE  NoLoop(p)
<1> SUFFICES ASSUME NEW S \in SUBSET Folders, S # {}, \A f \in S : p[f] \in S
             PROVE  FALSE
  BY DEF NoLoop
<1>1. \A f \in S : q[f] \in S
  BY Constants
<1> QED BY <1>1 DEF NoLoop

\* ... and when a folder is added that is above nothing
LEMMA Leaf ==
    ASSUME NEW p, NEW q, NoLoop(q), NEW n \in Folders, NEW t, t # n,
           \A f \in Folders : q[f] # n,
           \A f \in Folders : p[f] = IF f = n THEN t ELSE q[f]
    PROVE  NoLoop(p)
<1> SUFFICES ASSUME NEW S \in SUBSET Folders, S # {}, \A f \in S : p[f] \in S
             PROVE  FALSE
  BY DEF NoLoop
<1> DEFINE T == S \ {n}
<1>1. \A f \in T : q[f] \in T
  OBVIOUS
<1>2. T # {}
  OBVIOUS
<1> QED BY <1>1, <1>2 DEF NoLoop

-----------------------------------------------------------------------------
(* Steps that move nothing *)

\* Folders lose their parent, or one that refers to nothing new is inserted
Pruned == \A f \in Folders : parent'[f] \in {parent[f], Root}
Grown == \E f \in Folders, t \in Nodes : /\ ~Inserted(f) /\ Inserted(t)
                                         /\ parent' = [parent EXCEPT ![f] = t]
Gentle == Grows /\ (Pruned \/ Grown)

LEMMA GentleInserted ==
    ASSUME TypeOK, Gentle
    PROVE  \A f \in Folders : Inserted(f) => parent'[f] \in {parent[f], Root}
BY Typed DEF Gentle, Pruned, Grown

LEMMA StillNoLoop ==
    ASSUME TypeOK, Sound, Gentle, NEW F, NEW g,
           \A f \in F : Inserted(f),
           \A f \in Folders : Inserted(g[f]),
           NoLoop([f \in Folders |-> IF f \in F THEN g[f] ELSE parent[f]])
    PROVE  NoLoop([f \in Folders |-> IF f \in F THEN g[f] ELSE parent'[f]])
<1> DEFINE q == [f \in Folders |-> IF f \in F THEN g[f] ELSE parent[f]]
           p == [f \in Folders |-> IF f \in F THEN g[f] ELSE parent'[f]]
<1>1. NoLoop(q)
  OBVIOUS
<1>2. CASE Pruned
  <2>1. \A f \in Folders : p[f] = q[f] \/ p[f] = Root
    BY <1>2 DEF Pruned
  <2> HIDE DEF p, q
  <2>3. NoLoop(p)
    BY <1>1, <2>1, Cut
  <2> QED BY <2>3 DEF p
<1>3. CASE Grown
  <2>1. PICK n \in Folders, t \in Nodes : /\ ~Inserted(n) /\ Inserted(t)
                                          /\ parent' = [parent EXCEPT ![n] = t]
    BY <1>3 DEF Grown
  <2>2. t # n /\ n \notin F /\ \A f \in Folders : q[f] # n
    BY <2>1 DEF Sound
  <2>3. \A f \in Folders : p[f] = IF f = n THEN t ELSE q[f]
    BY <2>1, <2>2, Typed
  <2> HIDE DEF p, q
  <2>4. NoLoop(p)
    BY <1>1, <2>2, <2>3, Leaf
  <2> QED BY <2>4 DEF p
<1> QED BY <1>2, <1>3 DEF Gentle

Fit(q) == Clear(q) /\ OnTheWay(q) /\ Restorable(q)

\* A request they overtake is as fit to write as before
LEMMA FitCarried ==
    ASSUME TypeOK, Sound, Gentle, NEW p \in Ops, Alike(op'[p], op[p]), Fit(op[p])
    PROVE  Fit(op[p])'
<1> DEFINE q == op[p]
           r == op'[p]
<1>1. /\ r.pc = q.pc /\ r.folders = q.folders /\ r.target = q.target /\ r.todo = q.todo
      /\ r.at = q.at /\ r.cursor = q.cursor /\ r.seen = q.seen /\ r.orig = q.orig
  BY DEF Alike
<1>2. \A f \in Folders : Inserted(f) => parent'[f] \in {parent[f], Root}
  BY GentleInserted
<1>3. /\ q.folders \subseteq Folders /\ q.seen \subseteq Folders /\ q.target \in Nodes
      /\ q.cursor \in Nodes /\ \A f \in q.folders : Inserted(f)
      /\ \A f \in Folders : Inserted(q.orig[f])
      /\ \A n \in Nodes : Inserted(n) => Inserted(n)'
      /\ Folders \subseteq Nodes
  BY Typed, Constants DEF OpSet, Sound, Gentle, Grows
<1>4. Clear(op[p])'
  <2> SUFFICES ASSUME Moving(q)
               PROVE  \E A \in SUBSET Folders : /\ Upwards(A, q.target, parent)'
                                                /\ A \cap Validated(q) = {}
    BY <1>1 DEF Clear, Moving, Validated, Upwards
  <2>1. PICK A \in SUBSET Folders : Upwards(A, q.target, parent) /\ A \cap Validated(q) = {}
    BY DEF Fit, Clear
  <2>2. \A f \in A : Inserted(f)' /\ parent'[f] \in A \cup {Root}
    BY <1>2, <1>3, <2>1 DEF Upwards
  <2> QED BY <1>1, <2>1, <2>2 DEF Upwards
<1>5. OnTheWay(op[p])'
  <2> SUFFICES ASSUME q.pc = "walk"
               PROVE  /\ q.target \in q.seen \cup {q.cursor}
                      /\ \A f \in q.seen : parent'[f] \in q.seen \cup {q.cursor, Root}
                      /\ \A f \in q.seen \cup {q.cursor} : Inserted(f)'
                      /\ q.at \notin q.seen \cup {q.cursor}
    BY <1>1 DEF OnTheWay
  <2>1. /\ q.target \in q.seen \cup {q.cursor}
        /\ \A f \in q.seen : parent[f] \in q.seen \cup {q.cursor, Root}
        /\ \A f \in q.seen \cup {q.cursor} : Inserted(f)
        /\ q.at \notin q.seen \cup {q.cursor}
    BY DEF Fit, OnTheWay
  <2> QED BY <1>2, <1>3, <2>1
<1>6. Restorable(op[p])'
  <2> SUFFICES ASSUME q.pc \in {"move", "back"}, ~\A f \in Folders : q.orig[f] = Root
               PROVE  /\ NoLoop([f \in Folders |-> IF f \in q.folders THEN q.orig[f] ELSE parent'[f]])
                      /\ \A f \in q.folders : parent'[f] \in {q.target, q.orig[f], Root}
    BY <1>1 DEF Restorable, Original, NoLoop
  <2>1. /\ NoLoop([f \in Folders |-> IF f \in q.folders THEN q.orig[f] ELSE parent[f]])
        /\ \A f \in q.folders : parent[f] \in {q.target, q.orig[f], Root}
    BY DEF Fit, Restorable, Original
  <2>2. NoLoop([f \in Folders |-> IF f \in q.folders THEN q.orig[f] ELSE parent'[f]])
    <3> DEFINE F == q.folders
               g == q.orig
    <3>1. /\ \A f \in F : Inserted(f)
          /\ \A f \in Folders : Inserted(g[f])
          /\ NoLoop([f \in Folders |-> IF f \in F THEN g[f] ELSE parent[f]])
      BY <1>3, <2>1
    <3> HIDE DEF F, g
    <3>2. NoLoop([f \in Folders |-> IF f \in F THEN g[f] ELSE parent'[f]])
      BY <3>1, StillNoLoop
    <3> QED BY <3>2 DEF F, g
  <2>3. \A f \in q.folders : parent'[f] \in {q.target, q.orig[f], Root}
    BY <1>2, <1>3, <2>1
  <2> QED BY <2>2, <2>3
<1> QED BY <1>4, <1>5, <1>6 DEF Fit

LEMMA AcyclicCarried == ASSUME TypeOK, Sound, Gentle, Acyclic PROVE Acyclic'
<1>1. NoLoop(parent)
  BY DEF Acyclic, NoLoop
<1>2. CASE Pruned
  <2>1. NoLoop(parent')
    BY <1>1, <1>2, Cut DEF Pruned
  <2> QED BY <2>1 DEF Acyclic, NoLoop
<1>3. CASE Grown
  <2>1. PICK n \in Folders, t \in Nodes : /\ ~Inserted(n) /\ Inserted(t)
                                          /\ parent' = [parent EXCEPT ![n] = t]
    BY <1>3 DEF Grown
  <2>2. t # n /\ \A f \in Folders : parent[f] # n
    BY <2>1 DEF Sound
  <2>3. \A f \in Folders : parent'[f] = IF f = n THEN t ELSE parent[f]
    BY <2>1, Typed
  <2>4. NoLoop(parent')
    BY <1>1, <2>2, <2>3, Leaf
  <2> QED BY <2>4 DEF Acyclic, NoLoop
<1> QED BY <1>2, <1>3 DEF Gentle


-----------------------------------------------------------------------------
(* The request itself, in a step that leaves the tree alone *)

LEMMA Idle ==
    ASSUME NEW o \in Ops,
           op'[o].pc \notin {"pick", "walk", "target", "up", "down", "read", "move", "back"}
    PROVE  Fit(op[o])'
BY DEF Fit, Clear, Moving, OnTheWay, Restorable

LEMMA FitSame ==
    ASSUME UNCHANGED <<st, parent>>, NEW o \in Ops, NEW r, op'[o] = r, Fit(r)
    PROVE  Fit(op[o])'
<1>1. Clear(op[o])'
  BY DEF Fit, Clear, Moving, Validated, Upwards, Inserted
<1>2. OnTheWay(op[o])'
  BY DEF Fit, OnTheWay, Inserted
<1>3. Restorable(op[o])'
  BY DEF Fit, Restorable, Original, NoLoop
<1> QED BY <1>1, <1>2, <1>3 DEF Fit

LEMMA ClearOn ==
    ASSUME NEW q, NEW r, Moving(q), Clear(q), r.target = q.target,
           Validated(r) \subseteq Validated(q)
    PROVE  Clear(r)
BY DEF Clear

LEMMA AboveParent == ASSUME Sound, NEW c \in Folders PROVE Above(c) = parent[c]
BY DEF Sound, Above

LEMMA ValidFit ==
    ASSUME TypeOK, Sound, NEW o \in Ops, NEW f \in op[o].todo, op[o].pc \in {"pick", "walk"},
           NEW A \in SUBSET Folders, Upwards(A, op[o].target, parent),
           A \cap ((op[o].folders \ op[o].todo) \cup {f}) = {}
    PROVE  Fit(Valid(o, f)) /\ Valid(o, f).moved = op[o].moved
<1>1. op[o] \in OpSet
  BY Typed
<1> DEFINE r == Valid(o, f)
<1>2. /\ r.target = op[o].target /\ r.folders = op[o].folders /\ r.moved = op[o].moved
      /\ \/ r.pc = "pick" /\ r.todo = op[o].todo \ {f}
         \/ r.pc \in {"target", "read"} /\ op[o].todo = {f}
  <2>1. CASE op[o].todo # {f}
    BY <1>1, <2>1 DEF Valid, OpSet
  <2>2. CASE op[o].todo = {f} /\ (op[o].kind = "bulk" \/ op[o].target = Root)
    BY <1>1, <2>2 DEF Valid, Initiated, OpSet
  <2>3. CASE op[o].todo = {f} /\ ~(op[o].kind = "bulk" \/ op[o].target = Root)
    BY <1>1, <2>3 DEF Valid, OpSet
  <2> QED BY <2>1, <2>2, <2>3
<1> HIDE DEF r
<1>3. Validated(r) \subseteq (op[o].folders \ op[o].todo) \cup {f}
  BY <1>2 DEF Validated
<1>4. Clear(r)
  BY <1>2, <1>3 DEF Clear
<1>5. OnTheWay(r) /\ Restorable(r)
  BY <1>2 DEF OnTheWay, Restorable
<1> QED BY <1>2, <1>4, <1>5 DEF Fit, r

LEMMA StartFit ==
    ASSUME TypeOK, Sound, NEW o \in Ops, StartMove(o)
    PROVE  Fit(op[o])'
<1>1. PICK kind \in {"single", "bulk"}, S \in SUBSET {f \in Folders : Usable(f)},
           t \in {f \in Folders : Usable(f)} \cup {Root} :
        S # {} /\ Become(o, [NoOp EXCEPT !.pc = "pick", !.kind = kind, !.folders = S,
                                         !.target = t, !.todo = S])
  BY DEF StartMove
<1> DEFINE r == op'[o]
<1>2. r.pc = "pick" /\ r.folders = S /\ r.todo = S /\ r.target = t
  BY <1>1, NoOpTyped DEF OpSet, Become, TypeOK
<1>3. UNCHANGED <<st, parent>>
  BY DEF StartMove, tree
<1> HIDE DEF r
<1> DEFINE A == {f \in Folders : Inserted(f)}
<1>4. t \in A \cup {Root}
  BY DEF Usable, Live, Inserted
<1>5. \A f \in A : parent[f] \in A \cup {Root}
  BY Typed DEF Sound, Inserted, Nodes
<1>6. Validated(r) = {}
  BY <1>2 DEF Validated
<1>7. Clear(r)
  <2>1. A \in SUBSET Folders /\ \A f \in A : Inserted(f)
    OBVIOUS
  <2> HIDE DEF A
  <2> QED BY <1>2, <1>4, <1>5, <1>6, <2>1 DEF Clear, Upwards
<1>8. OnTheWay(r) /\ Restorable(r)
  BY <1>2 DEF OnTheWay, Restorable
<1>9. Fit(r)
  BY <1>7, <1>8 DEF Fit
<1> QED BY <1>3, <1>9, FitSame DEF r

LEMMA PickFit ==
    ASSUME TypeOK, Sound, NEW o \in Ops, ~op[o].moved => Fit(op[o]), ~op'[o].moved,
    PickFolder(o)
    PROVE  Fit(op[o])'
<1>a. /\ op[o] \in OpSet /\ op[o].pc = "pick" /\ UNCHANGED <<st, parent>>
      /\ op[o].target \in Nodes /\ Inserted(op[o].target)
  BY Typed DEF PickFolder, tree, Sound, OpSet
<1>1. PICK f \in op[o].todo :
        Become(o, IF ~Usable(f) \/ op[o].target = f THEN Refused(o)
                  ELSE IF op[o].target = Root THEN Valid(o, f)
                  ELSE [op[o] EXCEPT !.pc = "walk", !.at = f, !.cursor = op[o].target,
                  !.seen = {}])
  BY DEF PickFolder
<1> DEFINE r == [op[o] EXCEPT !.pc = "walk", !.at = f, !.cursor = op[o].target, !.seen = {}]
<1>2. CASE ~Usable(f) \/ op[o].target = f
  <2>1. op'[o] = Refused(o)
    BY <1>1, <1>2 DEF Become, TypeOK
  <2> QED BY <2>1, EndedTyped, Idle DEF Refused
<1>3. CASE ~(~Usable(f) \/ op[o].target = f) /\ op[o].target = Root
  <2>1. op'[o] = Valid(o, f)
    BY <1>1, <1>3 DEF Become, TypeOK
  <2> DEFINE A == {}
  <2>2. /\ A \in SUBSET Folders /\ Upwards(A, op[o].target, parent)
        /\ A \cap ((op[o].folders \ op[o].todo) \cup {f}) = {}
    BY <1>3 DEF Upwards
  <2> HIDE DEF A
  <2>3. Fit(Valid(o, f))
    BY <1>a, <2>2, ValidFit
  <2> QED BY <1>a, <2>1, <2>3, FitSame
<1>4. CASE ~(~Usable(f) \/ op[o].target = f) /\ op[o].target # Root
  <2>1. op'[o] = r
    BY <1>1, <1>4 DEF Become, TypeOK
  <2>2. /\ r.pc = "walk" /\ r.folders = op[o].folders /\ r.todo = op[o].todo
        /\ r.target = op[o].target /\ r.cursor = op[o].target /\ r.at = f /\ r.seen = {}
        /\ r.moved = op[o].moved
    BY <1>a DEF OpSet
  <2> HIDE DEF r
  <2>3. Clear(op[o]) /\ Moving(op[o])
    BY <1>a, <2>1, <2>2 DEF Fit, Moving
  <2>4. Validated(r) = Validated(op[o])
    BY <1>a, <2>2 DEF Validated
  <2>5. Clear(r)
    BY <2>2, <2>3, <2>4, ClearOn
  <2>6. OnTheWay(r)
    BY <1>a, <1>4, <2>2 DEF OnTheWay
  <2>7. Restorable(r)
    BY <2>2 DEF Restorable
  <2> QED BY <1>a, <2>1, <2>5, <2>6, <2>7, FitSame DEF Fit
<1> QED BY <1>2, <1>3, <1>4

LEMMA WalkFit ==
    ASSUME TypeOK, Sound, NEW o \in Ops, ~op[o].moved => Fit(op[o]), ~op'[o].moved, WalkUp(o)
    PROVE  Fit(op[o])'
<1> DEFINE q == Above(op[o].cursor)
           seen == op[o].seen \cup {op[o].cursor}
           r == [op[o] EXCEPT !.seen = seen, !.cursor = q]
<1>a. /\ op[o] \in OpSet /\ op[o].pc = "walk" /\ UNCHANGED <<st, parent>>
      /\ op[o].cursor \in Folders /\ op[o].at \in op[o].todo /\ op[o].seen \subseteq Folders
      /\ op[o].todo \subseteq op[o].folders
  BY Typed DEF WalkUp, tree, Sound, OpSet, Staged
<1>b. q = parent[op[o].cursor] /\ Inserted(q)
  BY <1>a, AboveParent DEF Sound
<1>1. Become(o, IF q = Root THEN Valid(o, op[o].at)
                ELSE IF q = op[o].at \/ q \in seen THEN Refused(o) ELSE r)
  BY DEF WalkUp
<1> HIDE DEF q
<1>2. CASE q = Root
  <2>1. op'[o] = Valid(o, op[o].at)
    BY <1>1, <1>2 DEF Become, TypeOK
  <2>2. Valid(o, op[o].at).moved = op[o].moved
    BY <1>a DEF Valid, Initiated, OpSet
  <2>3. Clear(op[o]) /\ OnTheWay(op[o]) /\ Moving(op[o])
    BY <1>a, <2>1, <2>2 DEF Fit, Moving
  <2>4. PICK B \in SUBSET Folders : /\ Upwards(B, op[o].target, parent)
                                    /\ B \cap Validated(op[o]) = {}
    BY <2>3 DEF Clear
  <2> DEFINE A == B \cap seen
  <2>5. A \in SUBSET Folders /\ op[o].target \in A \cup {Root}
    BY <1>a, <2>3, <2>4 DEF OnTheWay, Upwards
  <2>6. \A f \in A : Inserted(f) /\ parent[f] \in A \cup {Root}
    BY <1>a, <1>b, <1>2, <2>3, <2>4 DEF OnTheWay, Upwards
  <2>7. A \cap ((op[o].folders \ op[o].todo) \cup {op[o].at}) = {}
    BY <1>a, <2>3, <2>4 DEF OnTheWay, Validated
  <2> HIDE DEF A
  <2>8. Fit(Valid(o, op[o].at))
    BY <1>a, <2>5, <2>6, <2>7, ValidFit DEF Upwards
  <2> QED BY <1>a, <2>1, <2>8, FitSame
<1>3. CASE q # Root /\ (q = op[o].at \/ q \in seen)
  <2>1. op'[o] = Refused(o)
    BY <1>1, <1>3 DEF Become, TypeOK
  <2> QED BY <2>1, EndedTyped, Idle DEF Refused
<1>4. CASE q # Root /\ ~(q = op[o].at \/ q \in seen)
  <2>1. op'[o] = r
    BY <1>1, <1>4 DEF Become, TypeOK
  <2>2. /\ r.pc = "walk" /\ r.folders = op[o].folders /\ r.todo = op[o].todo
        /\ r.target = op[o].target /\ r.cursor = q /\ r.at = op[o].at /\ r.seen = seen
        /\ r.moved = op[o].moved
    BY <1>a DEF OpSet
  <2> HIDE DEF r
  <2>3. Clear(op[o]) /\ OnTheWay(op[o]) /\ Moving(op[o])
    BY <1>a, <2>1, <2>2 DEF Fit, Moving
  <2>4. Validated(r) = Validated(op[o])
    BY <1>a, <2>2 DEF Validated
  <2>5. Clear(r)
    BY <2>2, <2>3, <2>4, ClearOn
  <2>6. OnTheWay(r)
    BY <1>a, <1>b, <1>4, <2>2, <2>3 DEF OnTheWay
  <2>7. Restorable(r)
    BY <2>2 DEF Restorable
  <2> QED BY <1>a, <2>1, <2>5, <2>6, <2>7, FitSame DEF Fit
<1> QED BY <1>2, <1>3, <1>4

\* What is left of a move that has been validated
LEMMA ProcessFit ==
    ASSUME TypeOK, Sound, Acyclic, NEW o \in Ops, ~op[o].moved => Fit(op[o]), ~op'[o].moved,
           \/ FindTarget(o) \/ DepthUp(o) \/ DepthDown(o) \/ FailDepth(o)
           \/ ReadOriginal(o) \/ FailRead(o) \/ FailMove(o)
    PROVE  Fit(op[o])'
<1> DEFINE q == op[o]
           r == op'[o]
<1>a. q \in OpSet /\ Staged(q) /\ UNCHANGED <<st, parent>> /\ q.folders \subseteq Folders
  BY Typed DEF Sound, FindTarget, DepthUp, DepthDown, FailDepth, ReadOriginal, FailRead,
    FailMove, tree,
     OpSet
<1>b. q.pc \in {"target", "up", "down", "read", "move"}
  BY DEF FindTarget, DepthUp, DepthDown, FailDepth, ReadOriginal, FailRead, FailMove
<1>1. CASE r.pc = "done"
  BY <1>1, Idle
<1>2. CASE /\ r.target = q.target /\ r.folders = q.folders /\ r.moved = q.moved
           /\ \/ r.pc \in {"up", "down", "read"}
              \/ r.pc = "back" /\ r.orig = q.orig
              \/ /\ r.pc = "move"
                 /\ r.orig = [f \in Folders |-> IF f \in q.folders THEN parent[f] ELSE Root]
  <2>1. Fit(q) /\ Moving(q)
    BY <1>b, <1>2 DEF Moving
  <2>2. Validated(r) = Validated(q)
    BY <1>b, <1>2 DEF Validated
  <2>3. Clear(r)
    <3> HIDE DEF q, r
    <3> QED BY <1>2, <2>1, <2>2, ClearOn DEF Fit
  <2>4. OnTheWay(r)
    BY <1>2 DEF OnTheWay
  <2>5. Restorable(r)
    <3>1. CASE r.pc = "back" /\ r.orig = q.orig
      <4>1. CASE q.pc = "move"
        BY <1>2, <2>1, <3>1, <4>1 DEF Fit, Restorable, Original, NoLoop
      <4>2. CASE q.pc # "move"
        BY <1>a, <1>b, <3>1, <4>2 DEF Staged, Restorable
      <4> QED BY <4>1, <4>2
    <3>2. CASE r.pc = "move"
                             /\ r.orig = [f \in Folders |-> IF f \in q.folders THEN parent[f] ELSE Root]
      <4>1. \A f \in q.folders : r.orig[f] = parent[f]
        BY <1>a, <3>2
      <4> HIDE DEF r, q
      <4>2. Original(r) = parent
        BY <1>2, <4>1, Typed DEF Original
      <4> QED BY <1>2, <4>1, <4>2 DEF Restorable, NoLoop, Acyclic
    <3>3. CASE r.pc \in {"up", "down", "read"}
      BY <3>3 DEF Restorable
    <3> QED BY <1>2, <3>1, <3>2, <3>3
  <2>6. Fit(r)
    BY <2>3, <2>4, <2>5 DEF Fit
  <2> HIDE DEF r
  <2> QED BY <1>a, <2>6, FitSame DEF r
<1>3. \/ r.pc = "done"
      \/ /\ r.target = q.target /\ r.folders = q.folders /\ r.moved = q.moved
         /\ \/ r.pc \in {"up", "down", "read"}
            \/ r.pc = "back" /\ r.orig = q.orig
            \/ /\ r.pc = "move"
               /\ r.orig = [f \in Folders |-> IF f \in q.folders THEN parent[f] ELSE Root]
  <2>1. Refused(o).pc = "done"
    BY EndedTyped DEF Refused
  <2>2. CASE FindTarget(o)
    BY <1>a, <2>1, <2>2 DEF FindTarget, Become, TypeOK, OpSet
  <2>3. CASE DepthUp(o)
    BY <1>a, <2>1, <2>3 DEF DepthUp, Become, TypeOK, OpSet
  <2>4. CASE DepthDown(o)
    BY <1>a, <2>1, <2>4 DEF DepthDown, Initiated, Become, TypeOK, OpSet
  <2>5. CASE ReadOriginal(o)
    BY <1>a, <2>5 DEF ReadOriginal, Become, TypeOK, OpSet
  <2>6. CASE FailRead(o)
    BY <1>a, <2>6 DEF FailRead, Become, TypeOK, OpSet
  <2>7. CASE FailMove(o)
    BY <1>a, <2>7 DEF FailMove, Become, TypeOK, OpSet
  <2>8. CASE FailDepth(o)
    BY <1>a, <2>1, <2>8 DEF FailDepth, Initiated, Become, TypeOK, OpSet
  <2> QED BY <2>2, <2>3, <2>4, <2>5, <2>6, <2>7, <2>8
<1> QED BY <1>1, <1>2, <1>3


-----------------------------------------------------------------------------
(* The moves *)

\* After the write of a move that none has overtaken: the folders are a
\* forest, and the move is fit for the next write
LEMMA WriteFit ==
    ASSUME TypeOK, Sound, ForestInv, NEW o \in Ops, ~raced, ~op[o].moved,
           op[o].pc \in {"move", "back"}, NEW f \in op[o].todo,
           NEW t \in {op[o].target, op[o].orig[f]}, op[o].pc = "move" => t = op[o].target,
           op[o].pc = "back" => t = op[o].orig[f],
           parent' = IF Live(f) THEN [parent EXCEPT ![f] = t] ELSE parent, st' = st,
           op'[o] = [op[o] EXCEPT !.todo = @ \ {f}]
    PROVE  Acyclic' /\ Fit(op[o])'
<1> DEFINE q == op[o]
           r == op'[o]
<1>1. /\ q \in OpSet /\ q.folders \subseteq Folders /\ f \in q.folders /\ f \in Folders
      /\ q.target \in Nodes /\ parent \in [Folders -> Nodes]
  BY Typed DEF Sound, Staged, OpSet
<1>2. r.pc = q.pc /\ r.folders = q.folders /\ r.target = q.target /\ r.orig = q.orig
  BY <1>1 DEF OpSet
<1>3. Clear(q) /\ Restorable(q) /\ Moving(q) /\ Validated(q) = q.folders /\ NoLoop(parent)
  BY DEF ForestInv, Moving, Validated, Acyclic, NoLoop
<1>4. PICK A \in SUBSET Folders : Upwards(A, q.target, parent) /\ A \cap q.folders = {}
  BY <1>3 DEF Clear
<1>5. /\ q.target \in A \cup {Root}
      /\ \A g \in A : Inserted(g) /\ parent[g] \in A \cup {Root} /\ parent'[g] = parent[g]
  BY <1>1, <1>4 DEF Upwards
<1>6. \A g \in Folders : parent'[g] = parent[g] \/ (g = f /\ parent'[g] = t)
  BY <1>1
<1> HIDE DEF q, r
<1>7. Clear(op[o])'
  <2>1. op'[o].target \in A \cup {Root} /\ \A g \in A : Inserted(g)' /\ parent'[g] \in A \cup {Root}
    BY <1>2, <1>5 DEF Inserted, r
  <2>2. A \cap Validated(op'[o]) = {}
    BY <1>2, <1>4 DEF Validated, q, r
  <2> QED BY <2>1, <2>2 DEF Clear, Upwards
<1>8. OnTheWay(op[o])'
  BY <1>2 DEF OnTheWay, q, r
<1> DEFINE pn == parent'
           po == parent
           to == q.target
<1>9. CASE \A g \in Folders : q.orig[g] = Root
  <2>1. Restorable(op[o])'
    BY <1>2, <1>9 DEF Restorable, r
  <2>2. CASE q.pc = "move"
    <3> DEFINE F == {f}
    <3>1. A \cap F = {} /\ NoLoop(po) /\ to \in A \cup {Root}
      BY <1>1, <1>3, <1>4, <1>5
    <3>2. \A g \in Folders : pn[g] = po[g] \/ pn[g] = Root \/ (g \in F /\ pn[g] = to)
      BY <1>6, <2>2 DEF q
    <3>3. \A g \in A : pn[g] \in A \cup {Root}
      BY <1>5
    <3> HIDE DEF F, pn, po, to
    <3>4. NoLoop(pn)
      BY <3>1, <3>2, <3>3, Mixture
    <3> QED BY <1>7, <1>8, <2>1, <3>4 DEF Fit, Acyclic, NoLoop, pn
  <2>3. CASE q.pc # "move"
    <3>1. \A g \in Folders : parent'[g] = parent[g] \/ parent'[g] = Root
      BY <1>1, <1>6, <1>9, <2>3 DEF q
    <3>2. NoLoop(parent')
      BY <1>3, <3>1, Cut
    <3> QED BY <1>7, <1>8, <2>1, <3>2 DEF Fit, Acyclic, NoLoop
  <2> QED BY <2>2, <2>3
<1>10. CASE ~\A g \in Folders : q.orig[g] = Root
  <2> DEFINE w == Original(q)
             F == q.folders
  <2>1. NoLoop(w) /\ \A g \in F : parent[g] \in {q.target, q.orig[g], Root}
    BY <1>3, <1>10 DEF Restorable, q
  <2>2. \A g \in F : parent'[g] \in {q.target, q.orig[g], Root}
    BY <1>6, <2>1 DEF q
  <2>3. \A g \in Folders : w[g] = IF g \in F THEN q.orig[g] ELSE parent[g]
    BY DEF Original
  <2>4. \A g \in Folders : pn[g] = w[g] \/ pn[g] = Root \/ (g \in F /\ pn[g] = to)
    BY <1>1, <1>6, <2>2, <2>3
  <2>5. \A g \in A : pn[g] \in A \cup {Root}
    BY <1>5
  <2>6. A \cap F = {} /\ to \in A \cup {Root}
    BY <1>4, <1>5
  <2>7. Original(op[o])' = w
    BY <1>1, <1>2, <1>6 DEF Original, r
  <2>8. NoLoop(pn)
    <3> HIDE DEF w, F, pn, to
    <3> QED BY <2>1, <2>4, <2>5, <2>6, Mixture
  <2>9. Restorable(op[o])'
    <3> HIDE DEF w
    <3>1. NoLoop(Original(op[o])')
      BY <2>1, <2>7
    <3>2. \A g \in op'[o].folders : parent'[g] \in {op'[o].target, op'[o].orig[g], Root}
      BY <1>2, <2>2 DEF r
    <3> QED BY <3>1, <3>2 DEF Restorable, NoLoop
  <2> HIDE DEF w
  <2> QED BY <1>7, <1>8, <2>8, <2>9 DEF Fit, Acyclic, NoLoop
<1> QED BY <1>9, <1>10

LEMMA MoveForest ==
    ASSUME TypeOK, Sound, ForestInv, NEW o \in Ops, MoveFolder(o) \/ MoveBack(o)
    PROVE  ForestInv'
<1> SUFFICES ASSUME ~raced'
             PROVE  Acyclic' /\ \A p \in Ops : ~op'[p].moved => Fit(op[p])'
  BY DEF ForestInv, Fit
<1>1. ~raced /\ ~op[o].moved /\ op[o].pc \in {"move", "back"} /\ st' = st
  BY DEF MoveFolder, MoveBack
<1>2. /\ op[o] \in OpSet /\ op[o].todo \subseteq Folders /\ op[o].target \in Nodes
      /\ \A f \in Folders : op[o].orig[f] \in Nodes
  BY Typed DEF OpSet
<1>3. PICK f \in op[o].todo, t \in Nodes :
        /\ t \in {op[o].target, op[o].orig[f]}
        /\ op[o].pc = "move" => t = op[o].target
        /\ op[o].pc = "back" => t = op[o].orig[f]
        /\ parent' = IF Live(f) THEN [parent EXCEPT ![f] = t] ELSE parent
        /\ Overtake(o, [op[o] EXCEPT !.todo = @ \ {f}], TRUE)
  <2>1. CASE MoveFolder(o)
    BY <1>2, <2>1 DEF MoveFolder
  <2>2. CASE MoveBack(o)
    BY <1>2, <2>2 DEF MoveBack
  <2> QED BY <2>1, <2>2
<1> DEFINE r == [op[o] EXCEPT !.todo = @ \ {f}]
<1>4. r \in OpSet
  BY <1>2 DEF OpSet
<1>5. op'[o] = r /\ \A p \in Ops \ {o} : Alike(op'[p], op[p]) /\ (Active(p) => op'[p].moved)
  BY <1>3, <1>4, OvertakeSteps DEF Steps
<1>6. Acyclic' /\ Fit(op[o])'
  BY <1>1, <1>3, <1>5, WriteFit
<1>7. ASSUME NEW p \in Ops \ {o}, ~op'[p].moved PROVE Fit(op[p])'
  <2>1. op'[p].pc \in {"new", "done"}
    BY <1>5, <1>7 DEF Active, Alike
  <2> QED BY <2>1, Idle
<1> QED BY <1>6, <1>7

LEMMA ForestNext == TypeOK /\ Sound /\ ForestInv /\ Next => ForestInv'
<1> SUFFICES ASSUME TypeOK, Sound, ForestInv, Next PROVE ForestInv'
  OBVIOUS
<1>1. PICK o \in Ops : \/ Validate(o) \/ Process(o) \/ Other(o)
                       \/ StopInstance(o) \/ CheckCancel(o) \/ MarkCancelled(o)
  BY DEF Next
<1>2. CASE MoveFolder(o) \/ MoveBack(o)
  BY <1>2, MoveForest
<1>3. CASE ~(MoveFolder(o) \/ MoveBack(o))
  <2>1. raced' = raced
    BY <1>1, <1>3
    DEF Validate, Process, Other, StartMove, PickFolder, WalkUp, FindTarget, DepthUp, DepthDown,
      FailDepth,
        ReadOriginal, FailRead, CompleteMove, FailMove, EndRollback, FailRollback, StartCreate,
        StartCollect, CollectLevel, SetArchived, StopInstance, CheckCancel, MarkCancelled,
        InsertFolder, DeleteFolders, history
  <2> SUFFICES ASSUME ~raced
               PROVE  Acyclic' /\ \A p \in Ops : ~op'[p].moved => Fit(op[p])'
    BY <2>1 DEF ForestInv, Fit
  <2>2. Acyclic /\ \A p \in Ops : ~op[p].moved => Fit(op[p])
    BY DEF ForestInv, Fit
  <2>3. UNCHANGED <<st, parent>> \/ InsertFolder(o) \/ DeleteFolders(o)
    BY <1>1, <1>3
    DEF Validate, Process, Other, StartMove, PickFolder, WalkUp, FindTarget, DepthUp, DepthDown,
      FailDepth,
        ReadOriginal, FailRead, CompleteMove, FailMove, EndRollback, FailRollback, StartCreate,
        StartCollect, CollectLevel, SetArchived, StopInstance, CheckCancel, MarkCancelled, tree
  <2>4. Gentle
    <3>1. Grows
      BY <1>1, TreeGrows
    <3>2. CASE UNCHANGED <<st, parent>>
      BY <3>1, <3>2 DEF Gentle, Pruned
    <3>3. CASE InsertFolder(o)
      <4>1. op[o].target \in Nodes /\ Inserted(op[o].target)
        BY Typed DEF OpSet, Sound
      <4>2. PICK f \in Folders : st[f] = "new" /\ parent' = [parent EXCEPT ![f] = op[o].target]
        BY <3>3 DEF InsertFolder
      <4>3. ~Inserted(f)
        BY <4>2, Constants DEF Inserted
      <4> QED BY <3>1, <4>1, <4>2, <4>3 DEF Gentle, Grown
    <3>4. CASE DeleteFolders(o)
      BY <3>1, <3>4 DEF Gentle, Pruned, DeleteFolders
    <3> QED BY <2>3, <3>2, <3>3, <3>4
  <2>5. Acyclic'
    BY <2>2, <2>4, AcyclicCarried
  <2>6. PICK r \in OpSet : Steps(o, r)
    <3>1. Became(o)
      BY <1>1, StartBecame, ValidateBecame, ProcessBecame, EndBecame DEF Validate, Process,
         Other
    <3> QED BY <3>1, BecomeSteps, OvertakeSteps DEF Became
  <2>7. ASSUME NEW p \in Ops \ {o}, ~op'[p].moved PROVE Fit(op[p])'
    <3>1. Alike(op'[p], op[p])
      BY <2>6 DEF Steps
    <3>2. Fit(op[p])
      BY <2>2, <2>7, <3>1 DEF Alike
    <3> QED BY <2>4, <3>1, <3>2, FitCarried
  <2>8. ASSUME ~op'[o].moved PROVE Fit(op[o])'
    <3>a. op[o] \in OpSet /\ op'[o] \in OpSet
      BY <2>6, Typed DEF Steps
    <3>1. CASE StartMove(o)
      BY <3>1, StartFit
    <3>2. CASE PickFolder(o)
      BY <2>2, <2>8, <3>2, PickFit
    <3>3. CASE WalkUp(o)
      BY <2>2, <2>8, <3>3, WalkFit
    <3>4. CASE \/ FindTarget(o) \/ DepthUp(o) \/ DepthDown(o) \/ FailDepth(o)
               \/ ReadOriginal(o) \/ FailRead(o) \/ FailMove(o)
      BY <2>2, <2>8, <3>4, ProcessFit
    <3>5. CASE \/ CompleteMove(o) \/ EndRollback(o) \/ FailRollback(o) \/ StopInstance(o)
               \/ InsertFolder(o) \/ DeleteFolders(o) \/ SetArchived(o)
      <4>1. op[o].status \in {"none", "processing", "rolling_back", "failed", "completed",
                              "cancelled"}
        BY <3>a DEF OpSet
      <4>2. PICK s \in {"none", "processing", "rolling_back", "failed", "completed",
                        "cancelled"} : op'[o] = Ended(o, s)
        BY <3>5, <4>1
        DEF CompleteMove, EndRollback, FailRollback, StopInstance, InsertFolder, DeleteFolders,
            SetArchived, Become, Overtake, TypeOK
      <4>3. op'[o].pc = "done"
        BY <4>2, EndedTyped
      <4> QED BY <4>3, Idle
    <3>6. CASE StartCreate(o) \/ StartCollect(o) \/ CollectLevel(o)
      <4>1. op'[o].pc \in {"insert", "collect", "apply"}
        <5>1. CASE StartCreate(o)
          <6>1. PICK u \in Users, t \in {f \in Folders : Usable(f)} \cup {Root} :
                  Become(o, [NoOp EXCEPT !.pc = "insert", !.kind = "create", !.user = u,
                                         !.target = t])
            BY <5>1 DEF StartCreate
          <6> QED BY <6>1, NoOpTyped DEF Become, TypeOK, OpSet
        <5>2. CASE StartCollect(o)
          <6>1. PICK kind \in {"delete", "archive", "restore"}, u \in Users, f \in Folders :
                  Become(o, [NoOp EXCEPT !.pc = "collect", !.kind = kind, !.user = u,
                                         !.folders = {f}, !.front = {f}, !.found = {f}])
            BY <5>2 DEF StartCollect
          <6> QED BY <6>1, NoOpTyped DEF Become, TypeOK, OpSet
        <5>3. CASE CollectLevel(o)
          BY <3>a, <5>3 DEF CollectLevel, Become, TypeOK, OpSet
        <5> QED BY <3>6, <5>1, <5>2, <5>3
      <4> QED BY <4>1, Idle
    <3>7. CASE CheckCancel(o) \/ MarkCancelled(o)
      <4>1. Alike(op'[o], op[o])
        BY <3>a, <3>7 DEF CheckCancel, MarkCancelled, Become, TypeOK, OpSet, Alike
      <4>2. Fit(op[o])
        BY <2>2, <2>8, <4>1, <3>a, <3>7 DEF CheckCancel, MarkCancelled, Become, TypeOK, OpSet
      <4> QED BY <2>4, <4>1, <4>2, FitCarried
    <3> QED
      BY <1>1, <1>3, <3>1, <3>2, <3>3, <3>4, <3>5, <3>6, <3>7 DEF Validate, Process, Other
  <2> QED BY <2>5, <2>7, <2>8
<1> QED BY <1>2, <1>3


-----------------------------------------------------------------------------
(* Where a folder ends up *)

\* A folder that no other request answers for
LEMMA AccountedOwn ==
    ASSUME TypeOK, NEW o \in Ops, NEW r \in OpSet, Steps(o, r), NEW f \in Folders,
           \A p \in Ops \ {o} : ~Answers(p, f),
           r.pc \in {"move", "back"} /\ f \in r.folders =>
              /\ r.orig[f] = want'[f]
              /\ f \notin r.todo => parent'[f] = IF r.pc = "move" THEN r.target ELSE want'[f],
           ~(r.pc \in {"move", "back"} /\ f \in r.folders) => parent'[f] = want'[f]
    PROVE  Accounted(f)'
<1>1. \A p \in Ops \ {o} : ~Answers(p, f)'
  BY DEF Steps, Alike, Answers, Working
<1>2. op'[o] = r
  BY DEF Steps
<1> QED BY <1>1, <1>2 DEF Accounted, Answers, Working

\* ... and one for which the step does nothing
LEMMA AccountedOther ==
    ASSUME TypeOK, NEW o \in Ops, NEW r \in OpSet, Steps(o, r), NEW f \in Folders, Accounted(f),
           parent'[f] = parent[f], want'[f] = want[f],
           \/ Alike(r, op[o])
           \/ /\ ~Answers(o, f)
              /\ ~(r.pc \in {"move", "back"} /\ f \in r.folders)
    PROVE  Accounted(f)'
<1>1. op'[o] = r /\ \A p \in Ops \ {o} : Alike(op'[p], op[p])
  BY DEF Steps
<1>2. \A p \in Ops : Answers(p, f)' = Answers(p, f)
  BY <1>1 DEF Alike, Answers, Working
<1>3. \A p \in Ops : Answers(p, f) => /\ op'[p].orig = op[p].orig /\ op'[p].todo = op[p].todo
                                      /\ op'[p].pc = op[p].pc /\ op'[p].target = op[p].target
  BY <1>1 DEF Alike
<1> QED BY <1>2, <1>3 DEF Accounted

\* f is answered for by o alone
LEMMA Sole ==
    ASSUME NEW o \in Ops, NEW f \in Folders, Accounted(f), Answers(o, f)
    PROVE  /\ \A p \in Ops \ {o} : ~Answers(p, f)
           /\ op[o].orig[f] = want[f]
           /\ f \notin op[o].todo => parent[f] = IF op[o].pc = "move" THEN op[o].target ELSE want[f]
BY DEF Accounted

\* Steps of a request that is not carrying out a move
LEMMA AsideOutcome ==
    ASSUME TypeOK, Sound, OutcomeInv, NEW o \in Ops, NEW r \in OpSet, Steps(o, r),
           \/ Validate(o) \/ StartCreate(o) \/ StartCollect(o) \/ CollectLevel(o)
           \/ DeleteFolders(o) \/ SetArchived(o) \/ CheckCancel(o) \/ MarkCancelled(o)
    PROVE  OutcomeInv'
<1>a. op[o] \in OpSet /\ op'[o] = r /\ Staged(r)
  <2>1. Became(o)
    BY StartBecame, ValidateBecame, EndBecame DEF Validate
  <2> QED BY <2>1, Typed DEF Steps, Became, Become, Overtake, TypeOK
<1>1. want' = want /\ mixed' = mixed
  BY DEF Validate, StartMove, PickFolder, WalkUp, FindTarget, DepthUp, DepthDown, FailDepth,
    StartCreate,
     StartCollect, CollectLevel, DeleteFolders, SetArchived, CheckCancel, MarkCancelled, history
<1>2. \A f \in Folders : Live(f)' => Live(f) /\ parent'[f] = parent[f]
  <2>1. CASE DeleteFolders(o)
    BY <2>1 DEF DeleteFolders, Live
  <2>2. CASE ~DeleteFolders(o)
    BY <2>2 DEF Validate, StartMove, PickFolder, WalkUp, FindTarget, DepthUp, DepthDown, FailDepth,
       StartCreate, StartCollect, CollectLevel, SetArchived, CheckCancel, MarkCancelled,
       tree, Live
  <2> QED BY <2>1, <2>2
<1>3. Alike(r, op[o]) \/ (~Working(o) /\ r.pc \notin {"move", "back"})
  <2>1. CASE CheckCancel(o) \/ MarkCancelled(o)
    BY <1>a, <2>1 DEF CheckCancel, MarkCancelled, Become, TypeOK, OpSet, Alike
  <2>2. CASE StartMove(o)
    <3>1. PICK kind \in {"single", "bulk"}, S \in SUBSET {f \in Folders : Usable(f)},
               t \in {f \in Folders : Usable(f)} \cup {Root} :
            Become(o, [NoOp EXCEPT !.pc = "pick", !.kind = kind, !.folders = S,
                                   !.target = t, !.todo = S])
      BY <2>2 DEF StartMove
    <3>2. op'[o].pc = "pick"
      BY <3>1, NoOpTyped DEF Become, TypeOK, OpSet
    <3> QED BY <1>a, <2>2, <3>2 DEF StartMove, Working
  <2>3. CASE StartCreate(o)
    <3>1. PICK u \in Users, t \in {f \in Folders : Usable(f)} \cup {Root} :
            Become(o, [NoOp EXCEPT !.pc = "insert", !.kind = "create", !.user = u,
                                   !.target = t])
      BY <2>3 DEF StartCreate
    <3>2. op'[o].pc = "insert"
      BY <3>1, NoOpTyped DEF Become, TypeOK, OpSet
    <3> QED BY <1>a, <2>3, <3>2 DEF StartCreate, Working
  <2>4. CASE StartCollect(o)
    <3>1. PICK kind \in {"delete", "archive", "restore"}, u \in Users, f \in Folders :
            Become(o, [NoOp EXCEPT !.pc = "collect", !.kind = kind, !.user = u,
                                   !.folders = {f}, !.front = {f}, !.found = {f}])
      BY <2>4 DEF StartCollect
    <3>2. op'[o].pc = "collect"
      BY <3>1, NoOpTyped DEF Become, TypeOK, OpSet
    <3> QED BY <1>a, <2>4, <3>2 DEF StartCollect, Working
  <2>5. CASE CollectLevel(o)
    <3>1. op'[o].pc \in {"collect", "apply"}
      BY <1>a, <2>5 DEF CollectLevel, Become, TypeOK, OpSet
    <3> QED BY <1>a, <2>5, <3>1 DEF CollectLevel, Working
  <2>6. CASE DeleteFolders(o) \/ SetArchived(o)
    <3>1. r.pc = "done"
      BY <1>a, <2>6, EndedTyped DEF DeleteFolders, SetArchived, Overtake
    <3> QED BY <2>6, <3>1 DEF DeleteFolders, SetArchived, Working
  <2>7. CASE PickFolder(o)
    <3>1. PICK f \in op[o].todo :
            Become(o, IF ~Usable(f) \/ op[o].target = f THEN Refused(o)
                      ELSE IF op[o].target = Root THEN Valid(o, f)
                      ELSE [op[o] EXCEPT !.pc = "walk", !.at = f, !.cursor = op[o].target,
                      !.seen = {}])
      BY <2>7 DEF PickFolder
    <3>2. op'[o].pc \in {"done", "pick", "target", "read", "walk"}
      <4>1. Refused(o).pc = "done"
        BY EndedTyped DEF Refused
      <4>2. Valid(o, f).pc \in {"pick", "target", "read"}
        BY <1>a DEF Valid, Initiated, OpSet
      <4> QED BY <1>a, <2>7, <3>1, <4>1, <4>2 DEF Become, TypeOK, OpSet
    <3> QED BY <1>a, <2>7, <3>2 DEF PickFolder, Working
  <2>8. CASE WalkUp(o)
    <3>1. op'[o].pc \in {"done", "pick", "target", "read", "walk"}
      <4>1. Refused(o).pc = "done"
        BY EndedTyped DEF Refused
      <4>2. Valid(o, op[o].at).pc \in {"pick", "target", "read"}
        BY <1>a DEF Valid, Initiated, OpSet
      <4> QED BY <1>a, <2>8, <4>1, <4>2 DEF WalkUp, Become, TypeOK, OpSet
    <3> QED BY <1>a, <2>8, <3>1 DEF WalkUp, Working
  <2>9. CASE FindTarget(o) \/ DepthUp(o) \/ DepthDown(o) \/ FailDepth(o)
    <3>1. op'[o].pc \in {"done", "read", "up", "down"}
      <4>1. Refused(o).pc = "done" /\ Initiated(o).pc = "read"
        BY <1>a, EndedTyped DEF Refused, Initiated, OpSet
      <4>2. CASE FindTarget(o)
        BY <1>a, <4>1, <4>2 DEF FindTarget, Become, TypeOK, OpSet
      <4>3. CASE DepthUp(o)
        BY <1>a, <4>1, <4>3 DEF DepthUp, Become, TypeOK, OpSet
      <4>4. CASE DepthDown(o)
        BY <1>a, <4>1, <4>4 DEF DepthDown, Become, TypeOK, OpSet
      <4>5. CASE FailDepth(o)
        <5>1. [Initiated(o) EXCEPT !.uncounted = TRUE].pc = "read"
          BY <1>a DEF Initiated, OpSet
        <5>2. op'[o] \in {Refused(o), [Initiated(o) EXCEPT !.uncounted = TRUE]}
          BY <4>5 DEF FailDepth, Become, TypeOK
        <5> QED BY <4>1, <5>1, <5>2
      <4> QED BY <2>9, <4>2, <4>3, <4>4, <4>5
    <3> QED BY <1>a, <2>9, <3>1 DEF FindTarget, DepthUp, DepthDown, FailDepth, Working
  <2> QED BY <2>1, <2>2, <2>3, <2>4, <2>5, <2>6, <2>7, <2>8, <2>9 DEF Validate
<1>4. ASSUME NEW f \in Folders, Live(f)', ~mixed'[f] PROVE Accounted(f)'
  <2>1. Accounted(f) /\ parent'[f] = parent[f] /\ want'[f] = want[f]
    BY <1>1, <1>2, <1>4 DEF OutcomeInv
  <2> QED BY <1>3, <2>1, AccountedOther DEF Answers
<1> QED BY <1>4 DEF OutcomeInv

LEMMA InsertOutcome ==
    ASSUME TypeOK, Sound, OutcomeInv, NEW o \in Ops, NEW r \in OpSet, Steps(o, r),
    InsertFolder(o)
    PROVE  OutcomeInv'
<1>a. op'[o] = r /\ r.pc = "done" /\ ~Working(o)
  <2>1. Ended(o, "none").pc = "done"
    BY EndedTyped
  <2>2. op'[o] = Ended(o, "none")
    BY DEF InsertFolder, Overtake
  <2> QED BY <2>1, <2>2 DEF InsertFolder, Working, Steps
<1>1. PICK n \in Folders : /\ st[n] = "new" /\ st' = [st EXCEPT ![n] = "live"]
                           /\ parent' = [parent EXCEPT ![n] = op[o].target]
                           /\ want' = [want EXCEPT ![n] = op[o].target]
  BY DEF InsertFolder
<1>2. mixed' = mixed
  BY DEF InsertFolder
<1>3. ASSUME NEW f \in Folders, Live(f)', ~mixed'[f] PROVE Accounted(f)'
  <2>1. CASE f = n
    <3>1. parent'[f] = want'[f]
      BY <1>1, <2>1 DEF TypeOK
    <3>2. \A p \in Ops : ~Answers(p, f)
      BY <1>1, <2>1, Constants DEF Sound, Inserted, Answers
    <3> QED BY <1>a, <3>1, <3>2, AccountedOwn
  <2>2. CASE f # n
    <3>1. Live(f) /\ parent'[f] = parent[f] /\ want'[f] = want[f]
      BY <1>1, <1>3, <2>2 DEF TypeOK, Live
    <3>2. Accounted(f)
      BY <1>2, <1>3, <3>1 DEF OutcomeInv
    <3> QED BY <1>a, <3>1, <3>2, AccountedOther DEF Answers
  <2> QED BY <2>1, <2>2
<1> QED BY <1>3 DEF OutcomeInv

\* Steps of the processor that write no parent
LEMMA ProcessOutcome ==
    ASSUME TypeOK, Sound, OutcomeInv, NEW o \in Ops, NEW r \in OpSet, Steps(o, r),
           \/ ReadOriginal(o) \/ FailRead(o) \/ CompleteMove(o) \/ FailMove(o)
           \/ EndRollback(o) \/ FailRollback(o) \/ StopInstance(o)
    PROVE  OutcomeInv'
<1>a. /\ op[o] \in OpSet /\ op'[o] = r /\ op[o].folders \subseteq Folders
      /\ st' = st /\ parent' = parent /\ want \in [Folders -> Nodes]
  BY Typed DEF OpSet, Steps, ReadOriginal, FailRead, CompleteMove, FailMove, EndRollback,
     FailRollback, StopInstance, tree, TypeOK
<1>b. op[o].status \in {"none", "processing", "rolling_back", "failed", "completed",
"cancelled"}
  BY <1>a DEF OpSet
<1> SUFFICES ASSUME NEW f \in Folders, Live(f)', ~mixed'[f] PROVE Accounted(f)'
  BY DEF OutcomeInv
<1>1. Live(f)
  BY <1>a DEF Live
<1>2. CASE ReadOriginal(o)
  <2>1. /\ r.pc = "move" /\ r.folders = op[o].folders /\ r.todo = op[o].folders
        /\ r.orig = [g \in Folders |-> IF g \in op[o].folders THEN parent[g] ELSE Root]
        /\ want' = want /\ ~Working(o)
    <3>1. op'[o] = [op[o] EXCEPT !.pc = "move", !.todo = op[o].folders,
                      !.orig = [g \in Folders |-> IF g \in op[o].folders THEN parent[g] ELSE Root]]
      BY <1>2 DEF ReadOriginal, Become, TypeOK
    <3> QED BY <1>a, <1>2, <3>1 DEF ReadOriginal, OpSet, Working
  <2>2. ~mixed[f] /\ (f \in op[o].folders => \A p \in Ops \ {o} : ~Answers(p, f))
    BY <1>2 DEF ReadOriginal, Answers
  <2>3. Accounted(f)
    BY <1>1, <2>2 DEF OutcomeInv
  <2>4. CASE f \in op[o].folders
    <3>1. \A p \in Ops : ~Answers(p, f)
      BY <2>1, <2>2, <2>4 DEF Answers
    <3>2. parent[f] = want[f]
      BY <2>3, <3>1 DEF Accounted
    <3>3. r.orig[f] = want'[f] /\ f \in r.todo
      BY <2>1, <2>4, <3>2
    <3> QED BY <2>1, <2>4, <3>1, <3>3, AccountedOwn
  <2>5. CASE f \notin op[o].folders
    <3>1. ~Answers(o, f) /\ ~(r.pc \in {"move", "back"} /\ f \in r.folders)
      BY <2>1, <2>5 DEF Answers
    <3> QED BY <1>a, <2>1, <2>3, <3>1, AccountedOther
  <2> QED BY <2>4, <2>5
<1>3. CASE FailRead(o)
  <2>1. r.folders = op[o].folders /\ want' = want
    <3>1. op'[o].folders = op[o].folders
      BY <1>a, <1>3 DEF FailRead, Become, TypeOK, OpSet
    <3> QED BY <1>a, <1>3, <3>1 DEF FailRead
  <2>2. ~mixed[f] /\ f \notin op[o].folders
    BY <1>3 DEF FailRead
  <2>3. Accounted(f)
    BY <1>1, <2>2 DEF OutcomeInv
  <2>4. ~Answers(o, f) /\ ~(r.pc \in {"move", "back"} /\ f \in r.folders)
    BY <2>1, <2>2 DEF Answers
  <2> QED BY <1>a, <2>1, <2>3, <2>4, AccountedOther
<1>4. CASE CompleteMove(o)
  <2>1. /\ r.pc = "done" /\ op[o].pc = "move" /\ op[o].todo = {} /\ mixed' = mixed
        /\ want' = [g \in Folders |-> IF g \in op[o].folders THEN op[o].target ELSE want[g]]
    BY <1>a, <1>4, EndedTyped DEF CompleteMove, Become, TypeOK
  <2>2. Accounted(f)
    BY <1>1, <2>1 DEF OutcomeInv
  <2>3. CASE f \in op[o].folders
    <3>1. Answers(o, f)
      BY <2>1, <2>3 DEF Answers, Working
    <3>2. /\ \A p \in Ops \ {o} : ~Answers(p, f)
          /\ parent[f] = op[o].target
      BY <2>1, <2>2, <3>1, Sole
    <3>3. parent'[f] = want'[f]
      BY <1>a, <2>1, <2>3, <3>2
    <3> QED BY <2>1, <3>2, <3>3, AccountedOwn
  <2>4. CASE f \notin op[o].folders
    <3>1. ~Answers(o, f) /\ want'[f] = want[f]
      BY <2>1, <2>4 DEF Answers
    <3> QED BY <1>a, <2>1, <2>2, <3>1, AccountedOther
  <2> QED BY <2>3, <2>4
<1>5. CASE FailMove(o)
  <2>1. /\ r.pc = "back" /\ op[o].pc = "move" /\ r.todo = op[o].folders /\ mixed' = mixed
        /\ r.folders = op[o].folders /\ r.orig = op[o].orig /\ want' = want
    <3>1. op'[o] = [op[o] EXCEPT !.pc = "back", !.status = "rolling_back",
    !.todo = op[o].folders]
      BY <1>5 DEF FailMove, Become, TypeOK
    <3> QED BY <1>a, <1>5, <3>1 DEF FailMove, OpSet, history
  <2>2. Accounted(f)
    BY <1>1, <2>1 DEF OutcomeInv
  <2>3. CASE f \in op[o].folders
    <3>1. Answers(o, f)
      BY <2>1, <2>3 DEF Answers, Working
    <3>2. /\ \A p \in Ops \ {o} : ~Answers(p, f)
          /\ r.orig[f] = want'[f] /\ f \in r.todo
      BY <2>1, <2>2, <2>3, <3>1, Sole
    <3> QED BY <2>1, <2>3, <3>2, AccountedOwn
  <2>4. CASE f \notin op[o].folders
    <3>1. ~Answers(o, f) /\ ~(r.pc \in {"move", "back"} /\ f \in r.folders)
      BY <2>1, <2>4 DEF Answers
    <3> QED BY <1>a, <2>1, <2>2, <3>1, AccountedOther
  <2> QED BY <2>3, <2>4
<1>6. CASE EndRollback(o)
  <2>1. /\ r.pc = "done" /\ op[o].pc = "back" /\ op[o].todo = {} /\ mixed' = mixed /\ want' = want
    BY <1>a, <1>6, EndedTyped DEF EndRollback, Become, TypeOK, history
  <2>2. Accounted(f)
    BY <1>1, <2>1 DEF OutcomeInv
  <2>3. CASE f \in op[o].folders
    <3>1. Answers(o, f)
      BY <2>1, <2>3 DEF Answers, Working
    <3>2. (\A p \in Ops \ {o} : ~Answers(p, f)) /\ parent'[f] = want'[f]
      BY <1>a, <2>1, <2>2, <3>1, Sole
    <3> QED BY <2>1, <3>2, AccountedOwn
  <2>4. CASE f \notin op[o].folders
    BY <1>a, <2>1, <2>2, <2>4, AccountedOther DEF Answers
  <2> QED BY <2>3, <2>4
<1>7. CASE FailRollback(o) \/ StopInstance(o)
  <2>1. r.pc = "done" /\ want' = want /\ GiveUp(o) /\ Working(o)
    BY <1>a, <1>b, <1>7, EndedTyped DEF FailRollback, StopInstance, Become, TypeOK, Working
  <2>2. ~mixed[f] /\ f \notin op[o].folders
    BY <2>1 DEF GiveUp
  <2>3. Accounted(f)
    BY <1>1, <2>2 DEF OutcomeInv
  <2> QED BY <1>a, <2>1, <2>2, <2>3, AccountedOther DEF Answers
<1> QED BY <1>2, <1>3, <1>4, <1>5, <1>6, <1>7

LEMMA MoveOutcome ==
    ASSUME TypeOK, Sound, OutcomeInv, NEW o \in Ops, NEW r \in OpSet, Steps(o, r),
           MoveFolder(o) \/ MoveBack(o)
    PROVE  OutcomeInv'
<1>a. /\ op[o] \in OpSet /\ op'[o] = r /\ op[o].todo \subseteq op[o].folders
      /\ op[o].folders \subseteq Folders /\ parent \in [Folders -> Nodes]
      /\ st' = st /\ want' = want /\ mixed' = mixed /\ op[o].pc \in {"move", "back"}
  BY Typed DEF OpSet, Steps, MoveFolder, MoveBack, Sound, Staged
<1>1. PICK g \in op[o].todo :
        /\ parent' = IF Live(g)
                     THEN [parent EXCEPT ![g] = IF op[o].pc = "move" THEN op[o].target ELSE op[o].orig[g]]
                     ELSE parent
        /\ op'[o] = [op[o] EXCEPT !.todo = @ \ {g}]
  <2>1. CASE MoveFolder(o)
    BY <2>1 DEF MoveFolder, Overtake
  <2>2. CASE MoveBack(o)
    BY <2>2 DEF MoveBack, Overtake
  <2> QED BY <2>1, <2>2
<1>2. /\ r.pc = op[o].pc /\ r.folders = op[o].folders /\ r.target = op[o].target
      /\ r.orig = op[o].orig /\ r.todo = op[o].todo \ {g}
  BY <1>a, <1>1 DEF OpSet
<1> SUFFICES ASSUME NEW f \in Folders, Live(f)', ~mixed'[f] PROVE Accounted(f)'
  BY DEF OutcomeInv
<1>3. Live(f) /\ Accounted(f)
  BY <1>a DEF Live, OutcomeInv
<1>4. CASE f \in op[o].folders
  <2>1. Answers(o, f)
    BY <1>a, <1>4 DEF Answers, Working
  <2>2. /\ \A p \in Ops \ {o} : ~Answers(p, f)
        /\ op[o].orig[f] = want[f]
        /\ f \notin op[o].todo => parent[f] = IF op[o].pc = "move" THEN op[o].target ELSE want[f]
    BY <1>3, <2>1, Sole
  <2>3. f \notin r.todo => parent'[f] = IF r.pc = "move" THEN r.target ELSE want'[f]
    <3>1. CASE f = g
      BY <1>a, <1>1, <1>2, <1>3, <2>2, <3>1
    <3>2. CASE f # g
      BY <1>a, <1>1, <1>2, <2>2, <3>2
    <3> QED BY <3>1, <3>2
  <2> QED BY <1>a, <1>2, <1>4, <2>2, <2>3, AccountedOwn
<1>5. CASE f \notin op[o].folders
  <2>1. parent'[f] = parent[f]
    BY <1>a, <1>1, <1>5
  <2> QED BY <1>a, <1>2, <1>3, <1>5, <2>1, AccountedOther DEF Answers
<1> QED BY <1>4, <1>5

LEMMA OutcomeNext == TypeOK /\ Sound /\ OutcomeInv /\ Next => OutcomeInv'
<1> SUFFICES ASSUME TypeOK, Sound, OutcomeInv, Next PROVE OutcomeInv'
  OBVIOUS
<1>1. PICK o \in Ops : \/ Validate(o) \/ Process(o) \/ Other(o)
                       \/ StopInstance(o) \/ CheckCancel(o) \/ MarkCancelled(o)
  BY DEF Next
<1>2. PICK r \in OpSet : Steps(o, r)
  <2>1. Became(o)
    BY <1>1, StartBecame, ValidateBecame, ProcessBecame, EndBecame DEF Validate, Process, Other
  <2> QED BY <2>1, BecomeSteps, OvertakeSteps DEF Became
<1> QED
  BY <1>1, <1>2, AsideOutcome, InsertOutcome, ProcessOutcome, MoveOutcome DEF Process, Other

-----------------------------------------------------------------------------
(* The theorems *)

LEMMA InvInit == Init => FolderInv
<1> SUFFICES ASSUME Init PROVE FolderInv
  OBVIOUS
<1>1. TypeOK
  <2>1. op \in [Ops -> OpSet] /\ cancel \in [Ops -> BOOLEAN] /\ faults \in 0 .. MaxFaults
    BY NoOpTyped, FolderAssumption DEF Init
  <2>2. /\ st \in [Folders -> {"new", "live", "gone"}] /\ parent \in [Folders -> Nodes]
        /\ owner \in [Folders -> Users] /\ archived \in [Folders -> BOOLEAN]
        /\ want \in [Folders -> Nodes] /\ mixed \in [Folders -> BOOLEAN] /\ raced \in BOOLEAN
    BY DEF Init
  <2> QED BY <2>1, <2>2 DEF TypeOK
<1>2. \A o \in Ops : /\ op[o].pc = "new" /\ op[o].folders = {} /\ op[o].target = Root
                     /\ \A f \in Folders : op[o].orig[f] = Root
  BY DEF Init, NoOp
<1>3. Sound
  <2>1. \A o \in Ops : Staged(op[o])
    BY NoOpTyped DEF Init
  <2>2. \A f \in Folders : ~Live(f) => parent[f] = Root
    BY DEF Init, Live
  <2>3. \A f \in Folders : Inserted(parent[f])
    BY DEF Init, Inserted
  <2> QED BY <1>2, <2>1, <2>2, <2>3 DEF Sound, Inserted
<1>4. ForestInv
  BY <1>2 DEF Init, ForestInv, Clear, Moving, OnTheWay, Restorable
<1>5. OutcomeInv
  BY <1>2 DEF Init, OutcomeInv, Accounted, Answers, Working
<1> QED BY <1>1, <1>3, <1>4, <1>5 DEF FolderInv

LEMMA InvNext == FolderInv /\ [Next]_vars => FolderInv'
<1> SUFFICES ASSUME FolderInv, [Next]_vars PROVE FolderInv'
  OBVIOUS
<1>1. CASE Next
  BY <1>1, TypingNext, SoundNext, ForestNext, OutcomeNext DEF FolderInv
<1>2. CASE UNCHANGED vars
  <2>1. UNCHANGED <<st, parent, owner, archived, op, cancel, faults, want, mixed, raced>>
    BY <1>2 DEF vars, tree, history
  <2>2. TypeOK' /\ Sound'
    BY <2>1 DEF FolderInv, TypeOK, Sound, Live, Inserted
  <2>3. ForestInv'
    BY <2>1 DEF FolderInv, ForestInv, Acyclic, Clear, Moving, Validated, Upwards, Inserted,
       OnTheWay, Restorable, Original, NoLoop
  <2>4. OutcomeInv'
    BY <2>1 DEF FolderInv, OutcomeInv, Accounted, Answers, Working, Live
  <2> QED BY <2>2, <2>3, <2>4 DEF FolderInv
<1> QED BY <1>1, <1>2

LEMMA Invariance == Spec => []FolderInv
BY InvInit, InvNext, PTL DEF Spec

\* The values of the rows and of the requests of folder-move.service.ts and
\* move-operations.processor.ts are what the model says they are
THEOREM Typing == Spec => []TypeOK
<1>1. FolderInv => TypeOK
  BY DEF FolderInv
<1> QED BY <1>1, Invariance, PTL

\* validateMove, which reads one row after the other while folders are created,
\* deleted and archived, is enough for moveFolders and its rollback to keep the
\* folders a forest, however many folders they take and wherever they fail, as
\* long as no move writes after another has since it was validated
THEOREM ForestKept == Spec => []ForestUnlessRaced
<1>1. FolderInv => ForestUnlessRaced
  BY DEF FolderInv, ForestInv, ForestUnlessRaced
<1> QED BY <1>1, Invariance, PTL

\* A folder is where the last move that completed put it, or where it was
\* created: the rollback of a move that fails restores every parent, whatever
\* had been moved by then, unless two moves worked on the folder at the same
\* time, the instance stopped, the rollback failed or the parent was not read
THEOREM OutcomeKept == Spec => []OutcomeTrue
<1>1. FolderInv => OutcomeTrue
  <2> SUFFICES ASSUME FolderInv, NEW f \in Folders, Live(f), ~mixed[f],
                      \A o \in Ops : Working(o) => f \notin op[o].folders
               PROVE  parent[f] = want[f]
    BY DEF OutcomeTrue
  <2>1. \A o \in Ops : ~Answers(o, f)
    BY DEF Answers
  <2> QED BY <2>1 DEF FolderInv, OutcomeInv, Accounted
<1> QED BY <1>1, Invariance, PTL

-----------------------------------------------------------------------------
(* What the checks of a single move and the levels of a delete have counted *)

\* A holds n and all that is above it, C holds h and what is above it, up to F
Upper(A, n) == n \in A /\ \A f \in A : parent[f] \in A \cup {Root}
Chain(C, h, F) == h \in C /\ \A f \in C \ F : parent[f] \in C \cup {Root}

\* The rows a walk downwards finds next have their parent in front
Below(D, front) ==
    \A g \in Folders : Usable(g) /\ parent[g] \in D => g \in D \/ parent[g] \in front

\* With A above it, nothing in D is more than n folders down when F moves there
Within(A, D, F, n) ==
    \A h \in D : \E C \in SUBSET Folders :
        Chain(C, h, F) /\ Cardinality(C) + Cardinality(A) <= n + 1

\* A single move has one folder. As long as the tree is as it has read it, depth
\* counts the way up from the target, and from there down to the last level;
\* when the move is initiated what is below the folder is within the limit.
Lone(q) == q.kind = "single" /\ Moving(q) => \E f \in Folders : q.folders = {f}
Counted(q) ==
    q.kind = "single" /\ ~q.changed /\ ~q.uncounted /\ q.target # Root =>
      /\ q.pc = "up" =>
            /\ q.target \in q.found \cup {q.cursor}
            /\ \A f \in q.found : parent[f] \in q.found \cup {q.cursor, Root}
            /\ Cardinality(q.found \cup {q.cursor}) <= q.depth
      /\ q.pc = "down" =>
            /\ q.folders \cup q.front \subseteq q.found /\ Below(q.found, q.front)
            /\ \E A \in SUBSET Folders : Upper(A, q.target) /\ Within(A, q.found, q.folders, q.depth + q.below)
      /\ q.pc = "read" \/ (q.pc = "move" /\ q.todo # {}) =>
            \E A, D \in SUBSET Folders :
                /\ Upper(A, q.target) /\ q.folders \subseteq D /\ Below(D, {})
                /\ Within(A, D, q.folders, MaxDepth)

\* A delete has found all that is below what it has found, save the last level
Collected(q) ==
    q.kind = "delete" /\ ~q.changed /\ q.pc \in {"collect", "apply"} =>
      \A g \in Folders : Usable(g) /\ owner[g] = q.user /\ parent[g] \in q.found =>
          g \in q.found \/ (q.pc = "collect" /\ parent[g] \in q.front)

Looked(q) == Lone(q) /\ Counted(q) /\ Collected(q)
WalksInv == \A o \in Ops : Looked(op[o])

\* A request of which they say nothing
Quiet(q) ==
    /\ Lone(q)
    /\ q.kind = "single" /\ q.target # Root =>
          q.pc \notin {"up", "down", "read"} /\ (q.pc = "move" => q.todo = {})
    /\ q.kind = "delete" => q.pc \notin {"collect", "apply"}

-----------------------------------------------------------------------------
(* Recursion over the levels of the tree *)

\* A set of naturals that is not empty has a least element
LEMMA LeastNat ==
    ASSUME NEW S \in SUBSET Nat, S # {}
    PROVE  \E n \in S : \A m \in S : n <= m
<1> DEFINE R == {ss \in Nat \X Nat : ss[1] < ss[2]}
<1>1. IsWellFoundedOn(R, Nat)
  BY NatLessThanWellFounded DEF OpToRel
<1> HIDE DEF R
<1>2. PICK n \in S : \A m \in S : ~ (<<m, n>> \in R)
  BY <1>1, WFMin, Zenon
<1>3. ASSUME NEW m \in S PROVE n <= m
  <2>1. m \in Nat /\ n \in Nat
    OBVIOUS
  <2>2. m < n => <<m, n>> \in R
    BY <2>1 DEF R
  <2> QED BY <1>2, <2>1, <2>2
<1> QED BY <1>3

LEMMA UpTo ==
    ASSUME NEW n \in Nat, NEW P, 0 \in P, \A i \in 1 .. n : i - 1 \in P => i \in P
    PROVE  n \in P
<1> DEFINE Bad == {i \in 0 .. n : i \notin P}
<1>1. SUFFICES ASSUME n \notin P PROVE FALSE
  OBVIOUS
<1>2. Bad \in SUBSET Nat /\ n \in Bad
  BY <1>1
<1>3. PICK m \in Bad : \A i \in Bad : m <= i
  BY <1>2, LeastNat, Zenon
<1>4. m # 0
  OBVIOUS
<1>5. m \in 1 .. n /\ m - 1 \in 0 .. n /\ ~ (m <= m - 1)
  BY <1>4
<1>6. m - 1 \in P
  BY <1>3, <1>5
<1> QED BY <1>5, <1>6

\* T can be iterated
LEMMA Iterates ==
    ASSUME NEW D, NEW x \in D, NEW T \in [D -> D]
    PROVE  \E h \in [0 .. N -> D] : h[0] = x /\ \A i \in 1 .. N : h[i] = T[h[i - 1]]
<1> DEFINE Runs(n) == {h \in [0 .. n -> D] : h[0] = x /\ \A i \in 1 .. n : h[i] = T[h[i - 1]]}
           P == {n \in Nat : Runs(n) # {}}
<1>1. 0 \in P
  <2>1. [i \in 0 .. 0 |-> x] \in Runs(0)
    OBVIOUS
  <2> QED BY <2>1
<1>2. \A i \in 1 .. N : i - 1 \in P => i \in P
  <2> TAKE i \in 1 .. N
  <2> HAVE i - 1 \in P
  <2>1. i \in Nat /\ i - 1 \in Nat /\ i # i - 1 /\ 0 \in 0 .. i - 1 /\ i # 0 /\ i - 1 \in 0 .. i - 1
    BY FolderAssumption
  <2>2. PICK h \in Runs(i - 1) : TRUE
    OBVIOUS
  <2> DEFINE g == [j \in 0 .. i |-> IF j = i THEN T[h[i - 1]] ELSE h[j]]
  <2>3. \A j \in 0 .. i : j # i => j \in 0 .. i - 1
    BY <2>1
  <2>4. \A j \in 0 .. i - 1 : h[j] \in D
    BY <2>2
  <2>5. T[h[i - 1]] \in D
    BY <2>1, <2>4
  <2>6. g \in [0 .. i -> D]
    BY <2>3, <2>4, <2>5
  <2>7. g[0] = x
    BY <2>1, <2>2
  <2>8. \A j \in 1 .. i : g[j] = T[g[j - 1]]
    <3> TAKE j \in 1 .. i
    <3>1. j \in 0 .. i /\ j - 1 \in 0 .. i /\ j - 1 # i
      BY <2>1
    <3>2. CASE j = i
      BY <3>1, <3>2
    <3>3. CASE j # i
      <4>1. j \in 1 .. i - 1
        BY <2>1, <3>3
      <4>2. h[j] = T[h[j - 1]]
        BY <2>2, <4>1
      <4> QED BY <3>1, <3>3, <4>2
    <3> QED BY <3>2, <3>3
  <2>9. g \in Runs(i)
    BY <2>6, <2>7, <2>8
  <2> QED BY <2>1, <2>9
<1>3. N \in P
  <2> HIDE DEF P
  <2> QED BY <1>1, <1>2, UpTo, FolderAssumption
<1> QED BY <1>3

\* Level and Plain, as functions of the rows they look at
LevelOf(p, g) ==
    LET up[n \in 0 .. N] == IF n = 0 THEN {g}
                            ELSE up[n - 1] \cup {p[h] : h \in up[n - 1] \ {Root}}
    IN Cardinality(up[N] \ {Root}) - 1
PlainOf(p, s, a, f, g) ==
    LET up[n \in 0 .. N] ==
            IF n = 0 THEN {g}
            ELSE up[n - 1] \cup {p[h] : h \in {i \in up[n - 1] \ {Root,
              f} : s[i] = "live" /\ ~a[i]}}
    IN f \in up[N]

LEMMA FoldersFinite ==
    ASSUME NEW S \in SUBSET Folders
    PROVE  IsFiniteSet(S) /\ Cardinality(S) \in Nat
<1>1. IsFiniteSet(Folders)
  BY FS_Interval, FolderAssumption DEF Folders
<1>2. IsFiniteSet(S)
  BY <1>1, FS_Subset
<1> QED BY <1>2, FS_CardinalityType

\* What is above g is in any set that holds g and the parents of what it holds
LEMMA LevelBound ==
    ASSUME NEW p \in [Folders -> Nodes], NEW g \in Folders, NEW S \in SUBSET Folders, g \in S,
           \A f \in S : p[f] \in S \cup {Root}
    PROVE  LevelOf(p, g) \in Int /\ LevelOf(p, g) + 1 <= Cardinality(S)
<1> DEFINE Up(X) == X \cup {p[h] : h \in X \ {Root}}
           Rec(h) == h = [n \in 0 .. N |-> IF n = 0 THEN {g}
                                           ELSE h[n - 1] \cup {p[i] : i \in h[n - 1] \ {Root}}]
           up == CHOOSE h : Rec(h)
<1>1. LevelOf(p, g) = Cardinality(up[N] \ {Root}) - 1
  BY DEF LevelOf
<1>2. N \in Nat /\ 0 \in 0 .. N /\ \A i \in 1 .. N : i \in 0 .. N /\ i # 0 /\ i - 1 \in 0 .. N
  BY FolderAssumption
<1>3. \E h : Rec(h)
  <2> DEFINE T == [X \in SUBSET Nodes |-> Up(X)]
  <2>1. \A X \in SUBSET Nodes : Up(X) \in SUBSET Nodes
    BY DEF Nodes
  <2>2. T \in [SUBSET Nodes -> SUBSET Nodes] /\ {g} \in SUBSET Nodes
    BY <2>1 DEF Nodes
  <2>3. \A X \in SUBSET Nodes : T[X] = Up(X)
    OBVIOUS
  <2> HIDE DEF T
  <2>4. PICK h \in [0 .. N -> SUBSET Nodes] :
            h[0] = {g} /\ \A i \in 1 .. N : h[i] = T[h[i - 1]]
    <3> DEFINE E == SUBSET Nodes
    <3>1. T \in [E -> E] /\ {g} \in E
      BY <2>2
    <3> HIDE DEF E
    <3>2. \E h \in [0 .. N -> E] : h[0] = {g} /\ \A i \in 1 .. N : h[i] = T[h[i - 1]]
      BY <3>1, Iterates
    <3> QED BY <3>2 DEF E
  <2>5. \A n \in 0 .. N : n # 0 => n \in 1 .. N
    BY <1>2
  <2> DEFINE F(n) == IF n = 0 THEN {g} ELSE Up(h[n - 1])
  <2>6. \A n \in 0 .. N : h[n] = F(n)
    <3> TAKE n \in 0 .. N
    <3>1. CASE n = 0
      BY <2>4, <3>1
    <3>2. CASE n # 0
      <4>1. n \in 1 .. N /\ h[n - 1] \in SUBSET Nodes
        BY <1>2, <2>4, <2>5, <3>2
      <4>2. h[n] = Up(h[n - 1])
        BY <2>3, <2>4, <4>1
      <4> QED BY <3>2, <4>2
    <3> QED BY <3>1, <3>2
  <2>7. h = [n \in 0 .. N |-> F(n)]
    <3> HIDE DEF F
    <3> QED BY <2>4, <2>6
  <2>8. Rec(h)
    BY <2>7, Zenon
  <2> QED BY <2>8
<1>4. Rec(up)
  BY <1>3, Zenon
<1> HIDE DEF up
<1>5. \A n \in 0 .. N : up[n] = IF n = 0 THEN {g} ELSE Up(up[n - 1])
  <2> DEFINE F(n) == IF n = 0 THEN {g} ELSE Up(up[n - 1])
  <2>1. up = [n \in 0 .. N |-> F(n)]
    BY <1>4, Zenon
  <2> HIDE DEF F
  <2>2. \A n \in 0 .. N : up[n] = F(n)
    BY <2>1
  <2> QED BY <2>2, Zenon DEF F
<1> HIDE DEF Rec
<1> DEFINE P == {n \in 0 .. N : up[n] \subseteq S \cup {Root}}
<1>6. N \in P
  <2>1. 0 \in P
    BY <1>2, <1>5
  <2>2. ASSUME NEW i \in 1 .. N, i - 1 \in P PROVE i \in P
    <3>1. up[i] = Up(up[i - 1]) /\ up[i - 1] \subseteq S \cup {Root} /\ i \in 0 .. N
      BY <1>2, <1>5, <2>2
    <3>2. \A h \in up[i - 1] \ {Root} : p[h] \in S \cup {Root}
      BY <3>1
    <3> QED BY <3>1, <3>2
  <2> HIDE DEF P
  <2> QED BY <1>2, <2>1, <2>2, UpTo
<1>7. up[N] \ {Root} \in SUBSET S
  BY <1>6
<1>8. IsFiniteSet(S) /\ Cardinality(S) \in Nat /\ Cardinality(up[N] \ {Root}) \in Nat
  BY <1>7, FoldersFinite
<1>9. Cardinality(up[N] \ {Root}) <= Cardinality(S)
  BY <1>7, <1>8, FS_Subset
<1> QED BY <1>1, <1>8, <1>9

\* The way up from g meets f only if g is in a set that f is in, and with a
\* folder that is not archived whatever has that folder as its parent
LEMMA PlainWithin ==
    ASSUME NEW p \in [Folders -> Nodes], NEW s, NEW a, NEW f \in Folders, NEW g \in Folders,
           NEW D \in SUBSET Folders, f \in D,
           \A h \in Folders \ {f} : s[h] = "live" /\ ~a[h] /\ p[h] \in D => h \in D,
           PlainOf(p, s, a, f, g)
    PROVE  g \in D
<1> DEFINE On(X) == {i \in X \ {Root, f} : s[i] = "live" /\ ~a[i]}
           Up(X) == X \cup {p[h] : h \in {i \in X \ {Root, f} : s[i] = "live" /\ ~a[i]}}
           Rec(h) == h = [n \in 0 .. N |->
                            IF n = 0 THEN {g}
                            ELSE h[n - 1] \cup {p[j] : j \in {i \in h[n - 1] \ {Root, f} :
                                                                s[i] = "live" /\ ~a[i]}}]
           up == CHOOSE h : Rec(h)
<1>1. f \in up[N]
  BY DEF PlainOf
<1>2. N \in Nat /\ 0 \in 0 .. N /\ \A i \in 1 .. N : i \in 0 .. N /\ i # 0 /\ i - 1 \in 0 .. N
  BY FolderAssumption
<1>a. \A X \in SUBSET Nodes : \A h \in On(X) : h \in X /\ h \in Folders \ {f} /\ p[h] \in Nodes
                                                /\ s[h] = "live" /\ ~a[h]
  BY DEF Nodes
<1>3. \E h : Rec(h)
  <2> DEFINE T == [X \in SUBSET Nodes |-> Up(X)]
  <2>1. \A X \in SUBSET Nodes : Up(X) \in SUBSET Nodes
    <3> TAKE X \in SUBSET Nodes
    <3>1. \A h \in On(X) : p[h] \in Nodes
      BY <1>a
    <3> QED BY <3>1
  <2>2. T \in [SUBSET Nodes -> SUBSET Nodes] /\ {g} \in SUBSET Nodes
    BY <2>1 DEF Nodes
  <2>3. \A X \in SUBSET Nodes : T[X] = Up(X)
    OBVIOUS
  <2> HIDE DEF T
  <2>4. PICK h \in [0 .. N -> SUBSET Nodes] :
            h[0] = {g} /\ \A i \in 1 .. N : h[i] = T[h[i - 1]]
    <3> DEFINE E == SUBSET Nodes
    <3>1. T \in [E -> E] /\ {g} \in E
      BY <2>2
    <3> HIDE DEF E
    <3>2. \E h \in [0 .. N -> E] : h[0] = {g} /\ \A i \in 1 .. N : h[i] = T[h[i - 1]]
      BY <3>1, Iterates
    <3> QED BY <3>2 DEF E
  <2>5. \A n \in 0 .. N : n # 0 => n \in 1 .. N
    BY <1>2
  <2> DEFINE F(n) == IF n = 0 THEN {g} ELSE Up(h[n - 1])
  <2>6. \A n \in 0 .. N : h[n] = F(n)
    <3> TAKE n \in 0 .. N
    <3>1. CASE n = 0
      BY <2>4, <3>1
    <3>2. CASE n # 0
      <4>1. n \in 1 .. N /\ h[n - 1] \in SUBSET Nodes
        BY <1>2, <2>4, <2>5, <3>2
      <4>2. h[n] = Up(h[n - 1])
        BY <2>3, <2>4, <4>1
      <4> QED BY <3>2, <4>2
    <3> QED BY <3>1, <3>2
  <2>7. h = [n \in 0 .. N |-> F(n)]
    <3> HIDE DEF F
    <3> QED BY <2>4, <2>6
  <2>8. Rec(h)
    BY <2>7, Zenon
  <2> QED BY <2>8
<1>4. Rec(up)
  BY <1>3, Zenon
<1> HIDE DEF up
<1>5. \A n \in 0 .. N : up[n] = IF n = 0 THEN {g} ELSE Up(up[n - 1])
  <2> DEFINE F(n) == IF n = 0 THEN {g} ELSE Up(up[n - 1])
  <2>1. up = [n \in 0 .. N |-> F(n)]
    BY <1>4, Zenon
  <2> HIDE DEF F
  <2>2. \A n \in 0 .. N : up[n] = F(n)
    BY <2>1
  <2> QED BY <2>2, Zenon DEF F
<1> HIDE DEF Rec
<1>6. SUFFICES ASSUME g \notin D PROVE FALSE
  OBVIOUS
<1> DEFINE P == {n \in 0 .. N : up[n] \subseteq Nodes \ D}
<1>7. N \in P
  <2>1. 0 \in P
    BY <1>2, <1>5, <1>6 DEF Nodes
  <2>2. ASSUME NEW i \in 1 .. N, i - 1 \in P PROVE i \in P
    <3>1. up[i] = Up(up[i - 1]) /\ up[i - 1] \subseteq Nodes \ D /\ i \in 0 .. N
      BY <1>2, <1>5, <2>2
    <3>2. \A h \in On(up[i - 1]) : p[h] \in Nodes \ D
      BY <1>a, <3>1
    <3> QED BY <3>1, <3>2
  <2> HIDE DEF P
  <2> QED BY <1>2, <2>1, <2>2, UpTo
<1> QED BY <1>1, <1>7

LEMMA CountBoth ==
    ASSUME NEW A \in SUBSET Folders, NEW C \in SUBSET Folders
    PROVE  Cardinality(C \cup A) <= Cardinality(C) + Cardinality(A)
<1>1. /\ IsFiniteSet(A) /\ Cardinality(A) \in Nat /\ IsFiniteSet(C) /\ Cardinality(C) \in Nat
      /\ Cardinality(C \cap A) \in Nat
  BY FoldersFinite
<1>2. Cardinality(C \cup A) = Cardinality(C) + Cardinality(A) - Cardinality(C \cap A)
  BY <1>1, FS_Union
<1> QED BY <1>1, <1>2

LEMMA CountOne ==
    ASSUME NEW C \in SUBSET Folders, NEW h \in Folders
    PROVE  Cardinality(C \cup {h}) <= Cardinality(C) + 1 /\ Cardinality({h}) = 1
<1>1. IsFiniteSet(C) /\ Cardinality(C) \in Nat
  BY FoldersFinite
<1>2. Cardinality(C \cup {h}) = IF h \in C THEN Cardinality(C) ELSE Cardinality(C) + 1
  BY <1>1, FS_AddElement
<1>3. Cardinality({h}) = 1
  BY FS_Singleton
<1> QED BY <1>1, <1>2, <1>3

-----------------------------------------------------------------------------
(* The steps of a request *)

LEMMA QuietLooked ==
    ASSUME NEW q, Quiet(q)
    PROVE  Looked(q) /\ Looked(q)'
BY DEF Quiet, Looked, Lone, Counted, Collected, Moving

LEMMA LookedCarried ==
    ASSUME NEW q, Looked(q), UNCHANGED tree
    PROVE  Looked(q)'
BY DEF Looked, Lone, Counted, Collected, Upper, Chain, Below, Within, Usable, Live, Moving, tree

LEMMA EndedQuiet ==
    ASSUME TypeOK, NEW o \in Ops,
           NEW s \in {"none", "processing", "rolling_back", "failed", "completed", "cancelled"}
    PROVE  Quiet(Ended(o, s))
BY EndedTyped DEF Quiet, Lone, Moving

\* The requests that take no step
LEMMA WalksOthers ==
    ASSUME TypeOK, WalksInv, NEW o \in Ops, NEW r \in OpSet, NEW p \in Ops \ {o},
           \/ Become(o, r) /\ UNCHANGED tree
           \/ \E b \in BOOLEAN : Overtake(o, r, b)
    PROVE  Looked(op[p])'
<1>1. op[p] \in OpSet /\ Looked(op[p])
  BY Typed DEF WalksInv
<1>2. CASE Become(o, r) /\ UNCHANGED tree
  <2>1. op'[p] = op[p]
    BY <1>2 DEF Become, TypeOK
  <2>2. PICK q : q = op[p]
    OBVIOUS
  <2>3. Looked(q)'
    BY <1>1, <1>2, <2>2, LookedCarried
  <2> QED BY <2>1, <2>2, <2>3
<1>3. CASE \E b \in BOOLEAN : Overtake(o, r, b)
  <2>1. PICK b \in BOOLEAN : Overtake(o, r, b)
    BY <1>3
  <2>2. PICK q : q = op[p]
    OBVIOUS
  <2>3. CASE ~Active(p)
    <3>1. op'[p] = q
      BY <2>1, <2>2, <2>3 DEF Overtake
    <3>2. Quiet(q)
      BY <2>2, <2>3 DEF Active, Quiet, Lone, Moving
    <3> QED BY <3>1, <3>2, QuietLooked
  <2>4. CASE Active(p)
    <3>1. op'[p] = [q EXCEPT !.changed = TRUE, !.moved = q.moved \/ b]
      BY <2>1, <2>2, <2>4 DEF Overtake
    <3> DEFINE s == [q EXCEPT !.changed = TRUE, !.moved = q.moved \/ b]
    <3>2. s.changed /\ s.kind = q.kind /\ s.pc = q.pc /\ s.folders = q.folders
      BY <1>1, <2>2 DEF OpSet
    <3>3. Lone(q)
      BY <1>1, <2>2 DEF Looked
    <3> HIDE DEF s
    <3>4. Lone(s)' /\ Counted(s)' /\ Collected(s)'
      BY <3>2, <3>3 DEF Lone, Moving, Counted, Collected
    <3> QED BY <3>1, <3>4 DEF Looked, s
  <2> QED BY <2>3, <2>4
<1> QED BY <1>2, <1>3

\* Nothing has been counted before the target has been validated
LEMMA ValidQuiet ==
    ASSUME TypeOK, NEW o \in Ops, Looked(op[o]), NEW f,
           op[o].pc \in {"pick", "walk"}, Staged(op[o])
    PROVE  Quiet(Valid(o, f))
<1>a. op[o] \in OpSet /\ Lone(op[o]) /\ Moving(op[o])
  BY Typed DEF Looked, Moving
<1>1. CASE op[o].todo # {f}
  <2> DEFINE r == [op[o] EXCEPT !.todo = op[o].todo \ {f}, !.pc = "pick", !.at = Root,
                                !.cursor = Root, !.seen = {}]
  <2>1. Valid(o, f) = r
    BY <1>1 DEF Valid
  <2>2. r.pc = "pick" /\ r.kind = op[o].kind /\ r.folders = op[o].folders
    BY <1>a DEF OpSet
  <2> HIDE DEF r
  <2> QED BY <1>a, <2>1, <2>2 DEF Quiet, Lone
<1>2. CASE op[o].todo = {f} /\ (op[o].kind = "bulk" \/ op[o].target = Root)
  <2>1. Valid(o, f) = Initiated(o)
    BY <1>2 DEF Valid
  <2>2. /\ Initiated(o).pc = "read" /\ Initiated(o).kind = op[o].kind
        /\ Initiated(o).folders = op[o].folders /\ Initiated(o).target = op[o].target
    BY <1>a DEF Initiated, OpSet
  <2> QED BY <1>a, <1>2, <2>1, <2>2 DEF Quiet, Lone
<1>3. CASE op[o].todo = {f} /\ ~(op[o].kind = "bulk" \/ op[o].target = Root)
  <2> DEFINE r == [op[o] EXCEPT !.todo = {}, !.pc = "target", !.at = Root, !.cursor = Root,
                                !.seen = {}]
  <2>1. Valid(o, f) = r
    BY <1>3 DEF Valid
  <2>2. r.pc = "target" /\ r.kind = op[o].kind /\ r.folders = op[o].folders
    BY <1>a DEF OpSet
  <2> HIDE DEF r
  <2> QED BY <1>a, <2>1, <2>2 DEF Quiet, Lone
<1> QED BY <1>1, <1>2, <1>3

LEMMA StartQuiet ==
    ASSUME TypeOK, Sound, WalksInv, NEW o \in Ops,
           StartMove(o) \/ PickFolder(o) \/ WalkUp(o) \/ StartCreate(o)
    PROVE  Quiet(op'[o]) /\ UNCHANGED tree
<1>a. op[o] \in OpSet /\ Looked(op[o]) /\ Staged(op[o])
  BY Typed DEF WalksInv, Sound
<1>b. \A r : Become(o, r) => op'[o] = r
  BY DEF Become, TypeOK
<1>c. Quiet(Refused(o))
  BY EndedQuiet DEF Refused
<1>1. CASE StartMove(o)
  <2>1. PICK kind \in {"single", "bulk"}, S \in SUBSET {f \in Folders : Usable(f)},
             t \in {f \in Folders : Usable(f)} \cup {Root} :
          /\ kind = "single" => Cardinality(S) = 1
          /\ Become(o, [NoOp EXCEPT !.pc = "pick", !.kind = kind, !.folders = S,
                                    !.target = t, !.todo = S])
    BY <1>1 DEF StartMove
  <2> DEFINE r == [NoOp EXCEPT !.pc = "pick", !.kind = kind, !.folders = S,
                               !.target = t, !.todo = S]
  <2>2. r.pc = "pick" /\ r.kind = kind /\ r.folders = S /\ op'[o] = r
    BY <1>b, <2>1, NoOpTyped DEF OpSet
  <2>3. kind = "single" => \E f \in Folders : S = {f}
    <3>1. S \in SUBSET Folders /\ IsFiniteSet(S)
      BY FoldersFinite
    <3> QED BY <2>1, <3>1, FS_Singleton
  <2> HIDE DEF r
  <2> QED BY <1>1, <2>2, <2>3 DEF StartMove, Quiet, Lone
<1>2. CASE PickFolder(o)
  <2>1. PICK f \in op[o].todo :
          \/ op'[o] = Refused(o) \/ op'[o] = Valid(o, f)
          \/ op'[o] = [op[o] EXCEPT !.pc = "walk", !.at = f, !.cursor = op[o].target, !.seen = {}]
    BY <1>2, <1>b DEF PickFolder
  <2> DEFINE r == [op[o] EXCEPT !.pc = "walk", !.at = f, !.cursor = op[o].target, !.seen = {}]
  <2>2. op[o].pc = "pick"
    BY <1>2 DEF PickFolder
  <2>3. r.pc = "walk" /\ r.kind = op[o].kind /\ r.folders = op[o].folders
    BY <1>a DEF OpSet
  <2> HIDE DEF r
  <2>4. Quiet(r)
    BY <1>a, <2>2, <2>3 DEF Quiet, Looked, Lone, Moving
  <2>5. Quiet(Valid(o, f))
    BY <1>a, <2>2, ValidQuiet
  <2> QED BY <1>2, <1>c, <2>1, <2>4, <2>5 DEF PickFolder, r
<1>3. CASE WalkUp(o)
  <2> DEFINE c == Above(op[o].cursor)
             s == op[o].seen \cup {op[o].cursor}
             r == [op[o] EXCEPT !.seen = s, !.cursor = c]
  <2>1. op[o].pc = "walk" /\ (op'[o] = Refused(o) \/ op'[o] = Valid(o, op[o].at) \/ op'[o] = r)
    BY <1>3, <1>b DEF WalkUp
  <2>2. r.pc = "walk" /\ r.kind = op[o].kind /\ r.folders = op[o].folders
    BY <1>a, <2>1 DEF OpSet
  <2> HIDE DEF r
  <2>3. Quiet(r)
    BY <1>a, <2>1, <2>2 DEF Quiet, Looked, Lone, Moving
  <2>4. Quiet(Valid(o, op[o].at))
    BY <1>a, <2>1, ValidQuiet
  <2> QED BY <1>3, <1>c, <2>1, <2>3, <2>4 DEF WalkUp
<1>4. CASE StartCreate(o)
  <2>1. PICK u, p : Become(o, [NoOp EXCEPT !.pc = "insert", !.kind = "create", !.user = u,
                                           !.target = p])
    BY <1>4 DEF StartCreate
  <2> DEFINE r == [NoOp EXCEPT !.pc = "insert", !.kind = "create", !.user = u, !.target = p]
  <2>2. r.pc = "insert" /\ r.kind = "create" /\ op'[o] = r
    BY <1>b, <2>1, NoOpTyped DEF OpSet
  <2> HIDE DEF r
  <2> QED BY <1>4, <2>2 DEF StartCreate, Quiet, Lone, Moving
<1> QED BY <1>1, <1>2, <1>3, <1>4

\* calculateDepth: a folder more above the target is one more counted
LEMMA UpLooked ==
    ASSUME TypeOK, Sound, WalksInv, NEW o \in Ops, NEW r \in OpSet, op'[o] = r,
           FindTarget(o) \/ DepthUp(o)
    PROVE  Looked(r)
<1>a. /\ op[o] \in OpSet /\ Looked(op[o]) /\ Staged(op[o])
      /\ op[o].found \in SUBSET Folders /\ op[o].folders \in SUBSET Folders /\ op[o].depth \in Nat
  BY Typed DEF WalksInv, Sound, OpSet
<1>b. \A q : Become(o, q) => r = q
  BY DEF Become, TypeOK
<1>c. Looked(Refused(o))
  BY EndedQuiet, QuietLooked DEF Refused
<1>1. CASE FindTarget(o)
  <2> DEFINE s == [op[o] EXCEPT !.pc = "up", !.cursor = op[o].target, !.found = {}, !.depth = 1]
  <2>1. op[o].pc = "target" /\ (r = Refused(o) \/ r = s)
    BY <1>1, <1>b DEF FindTarget
  <2>2. /\ s.pc = "up" /\ s.kind = op[o].kind /\ s.folders = op[o].folders /\ s.found = {}
        /\ s.target = op[o].target /\ s.cursor = op[o].target /\ s.depth = 1
    BY <1>a DEF OpSet
  <2> HIDE DEF s
  <2>3. Lone(s) /\ Collected(s)
    BY <1>a, <2>1, <2>2 DEF Looked, Lone, Collected, Moving
  <2>4. Counted(s)
    <3>1. op[o].target \in Folders /\ s.found \cup {s.cursor} = {op[o].target}
      BY <1>a, <2>1, <2>2 DEF Staged
    <3>2. Cardinality(s.found \cup {s.cursor}) <= s.depth
      BY <2>2, <3>1, CountOne
    <3> QED BY <2>2, <3>1, <3>2 DEF Counted
  <2> QED BY <1>c, <2>1, <2>3, <2>4 DEF Looked
<1>2. CASE DepthUp(o)
  <2> DEFINE q == Above(op[o].cursor)
             found == op[o].found \cup {op[o].cursor}
             f == CHOOSE f \in op[o].folders : TRUE
             s == [op[o] EXCEPT !.pc = "down", !.front = {f}, !.found = {f}, !.below = 0]
             t == [op[o] EXCEPT !.found = found, !.cursor = q, !.depth = op[o].depth + 1]
  <2>1. /\ op[o].pc = "up"
        /\ \/ r = Refused(o)
           \/ q = Root /\ r = s
           \/ q # Root /\ r = t
    BY <1>2, <1>b DEF DepthUp
  <2>2. op[o].cursor \in Folders /\ q = parent[op[o].cursor] /\ q \in Nodes
    BY <1>a, <2>1, Typed, AboveParent DEF Staged
  <2>3. /\ s.pc = "down" /\ s.kind = op[o].kind /\ s.folders = op[o].folders
        /\ s.front = {f} /\ s.found = {f} /\ s.changed = op[o].changed
        /\ s.uncounted = op[o].uncounted
        /\ s.target = op[o].target /\ s.depth = op[o].depth /\ s.below = 0
    BY <1>a DEF OpSet
  <2>4. /\ t.pc = "up" /\ t.kind = op[o].kind /\ t.folders = op[o].folders
        /\ t.found = found /\ t.cursor = q /\ t.changed = op[o].changed
        /\ t.uncounted = op[o].uncounted
        /\ t.target = op[o].target /\ t.depth = op[o].depth + 1
    BY <1>a, <2>1 DEF OpSet
  <2>5. Lone(op[o]) /\ Lone(s) /\ Lone(t) /\ Collected(s) /\ Collected(t)
    BY <1>a, <2>1, <2>3, <2>4 DEF Looked, Lone, Collected, Moving
  <2> HIDE DEF q, s, t, f
  <2>6. ASSUME op[o].kind = "single", ~op[o].changed, ~op[o].uncounted, op[o].target # Root
        PROVE  /\ op[o].target \in found
               /\ \A g \in op[o].found : parent[g] \in found \cup {Root}
               /\ Cardinality(found) <= op[o].depth /\ found \in SUBSET Folders
    BY <1>a, <2>1, <2>2, <2>6 DEF Looked, Counted
  <2>7. ASSUME q = Root PROVE Counted(s)
    <3> SUFFICES ASSUME op[o].kind = "single", ~op[o].changed, ~op[o].uncounted, op[o].target # Root
                 PROVE  /\ s.folders \cup s.front \subseteq s.found /\ Below(s.found, s.front)
                        /\ \E A \in SUBSET Folders :
                              Upper(A, s.target) /\ Within(A, s.found, s.folders, s.depth + s.below)
      BY <2>3 DEF Counted
    <3>1. op[o].folders = {f} /\ f \in Folders
      <4>1. PICK g \in Folders : op[o].folders = {g}
        BY <2>1, <2>5 DEF Lone, Moving
      <4> QED BY <4>1 DEF f
    <3>2. Upper(found, op[o].target)
      BY <2>2, <2>6, <2>7 DEF Upper
    <3>3. Chain({f}, f, {f}) /\ Cardinality({f}) = 1
      BY <3>1, CountOne DEF Chain
    <3>4. Cardinality(found) \in Nat
      BY <2>6, FoldersFinite
    <3>5. Cardinality({f}) + Cardinality(found) <= op[o].depth + 1
      BY <1>a, <2>6, <3>3, <3>4
    <3>6. Within(found, {f}, {f}, op[o].depth)
      BY <3>1, <3>3, <3>5 DEF Within
    <3>7. s.depth + s.below = op[o].depth
      BY <1>a, <2>3
    <3> QED BY <2>3, <2>6, <3>1, <3>2, <3>6, <3>7 DEF Below
  <2>8. ASSUME q # Root PROVE Counted(t)
    <3> SUFFICES ASSUME op[o].kind = "single", ~op[o].changed, ~op[o].uncounted, op[o].target # Root
                 PROVE  /\ t.target \in t.found \cup {t.cursor}
                        /\ \A g \in t.found : parent[g] \in t.found \cup {t.cursor, Root}
                        /\ Cardinality(t.found \cup {t.cursor}) <= t.depth
      BY <2>4 DEF Counted
    <3>1. q \in Folders
      BY <2>2, <2>8 DEF Nodes
    <3>2. Cardinality(found) \in Nat /\ Cardinality(found \cup {q}) \in Nat
      BY <2>6, <3>1, FoldersFinite
    <3>3. Cardinality(found \cup {q}) <= Cardinality(found) + 1
      BY <2>6, <3>1, CountOne
    <3>4. Cardinality(t.found \cup {t.cursor}) <= t.depth
      BY <1>a, <2>4, <2>6, <3>2, <3>3
    <3> QED BY <2>2, <2>4, <2>6, <3>4
  <2> QED BY <1>c, <2>1, <2>5, <2>7, <2>8 DEF Looked
<1> QED BY <1>1, <1>2

\* getMaxDescendantDepth: one level more below the folder is one more counted,
\* and after the last level the limit is compared with all of it
LEMMA DownLooked ==
    ASSUME TypeOK, Sound, WalksInv, NEW o \in Ops, NEW r \in OpSet, op'[o] = r, DepthDown(o)
    PROVE  Looked(r)
<1> DEFINE next == Children(op[o].front) \ op[o].found
           D == op[o].found
           F == op[o].folders
           s == [op[o] EXCEPT !.front = next, !.found = op[o].found \cup next,
                              !.below = op[o].below + 1]
           n == op[o].depth + op[o].below
<1>a. /\ op[o] \in OpSet /\ Looked(op[o]) /\ op[o].depth \in Nat /\ op[o].below \in Nat
      /\ D \in SUBSET Folders /\ F \in SUBSET Folders
  BY Typed DEF WalksInv, OpSet
<1>b. next \in SUBSET Folders
  BY DEF Children
<1>1. op[o].pc = "down"
  BY DEF DepthDown
<1>2. \/ next # {} /\ r = s
      \/ r = Refused(o)
      \/ next = {} /\ n <= MaxDepth /\ r = Initiated(o)
  <2>1. op'[o] = IF next # {} THEN s
                 ELSE IF n > MaxDepth THEN Refused(o) ELSE Initiated(o)
    BY DEF DepthDown, Become, TypeOK
  <2>a. n \in Nat
    BY <1>a
  <2> HIDE DEF next, s, n
  <2>2. ~ (n > MaxDepth) => n <= MaxDepth
    BY <2>a, FolderAssumption
  <2> QED BY <2>1, <2>2
<1>n. n \in Nat
  BY <1>a
<1>3. /\ s.pc = "down" /\ s.kind = op[o].kind /\ s.folders = F /\ s.changed = op[o].changed
      /\ s.uncounted = op[o].uncounted
      /\ s.front = next /\ s.found = D \cup next /\ s.target = op[o].target
      /\ s.depth = op[o].depth /\ s.below = op[o].below + 1
  BY <1>a, <1>b, <1>1 DEF OpSet
<1>4. LET i == Initiated(o)
      IN /\ i.pc = "read" /\ i.kind = op[o].kind /\ i.folders = F
         /\ i.changed = op[o].changed /\ i.uncounted = op[o].uncounted
         /\ i.target = op[o].target
  BY <1>a DEF Initiated, OpSet
<1>m. s.depth + s.below = n + 1
  BY <1>a, <1>3
<1> HIDE DEF s
<1>5. /\ Lone(s) /\ Collected(s) /\ Lone(Initiated(o)) /\ Collected(Initiated(o))
  BY <1>a, <1>1, <1>3, <1>4 DEF Looked, Lone, Collected, Moving
<1>6. ASSUME op[o].kind = "single", ~op[o].changed, ~op[o].uncounted, op[o].target # Root
      PROVE  /\ F \cup op[o].front \subseteq D /\ Below(D, op[o].front)
             /\ \E A \in SUBSET Folders : Upper(A, op[o].target) /\ Within(A, D, F, n)
  BY <1>a, <1>1, <1>6 DEF Looked, Counted
<1> HIDE DEF n
<1>7. \A g \in Folders : Usable(g) /\ parent[g] \in op[o].front => g \in D \/ g \in next
  BY DEF Children
<1>8. Counted(s)
  <2> SUFFICES ASSUME op[o].kind = "single", ~op[o].changed, ~op[o].uncounted, op[o].target # Root
               PROVE  /\ s.folders \cup s.front \subseteq s.found /\ Below(s.found, s.front)
                      /\ \E A \in SUBSET Folders :
                            Upper(A, s.target) /\ Within(A, s.found, s.folders, s.depth + s.below)
    BY <1>3 DEF Counted
  <2>1. PICK A \in SUBSET Folders : Upper(A, op[o].target) /\ Within(A, D, F, n)
    BY <1>6
  <2>2. Below(D \cup next, next)
    BY <1>6, <1>7 DEF Below
  <2>3. Within(A, D \cup next, F, n + 1)
    <3> SUFFICES ASSUME NEW h \in D \cup next
                 PROVE  \E C \in SUBSET Folders :
                            Chain(C, h, F) /\ Cardinality(C) + Cardinality(A) <= n + 1 + 1
      BY DEF Within
    <3>1. Cardinality(A) \in Nat
      BY FoldersFinite
    <3>2. CASE h \in D
      <4>1. PICK C \in SUBSET Folders :
                Chain(C, h, F) /\ Cardinality(C) + Cardinality(A) <= n + 1
        BY <2>1, <3>2 DEF Within
      <4>2. Cardinality(C) \in Nat
        BY FoldersFinite
      <4>3. Cardinality(C) + Cardinality(A) <= n + 1 + 1
        BY <1>n, <3>1, <4>1, <4>2
      <4> QED BY <4>1, <4>3
    <3>3. CASE h \in next
      <4>1. h \in Folders /\ parent[h] \in op[o].front
        BY <3>3 DEF Children
      <4>2. parent[h] \in D
        BY <1>6, <4>1
      <4>4. PICK C \in SUBSET Folders :
                Chain(C, parent[h], F) /\ Cardinality(C) + Cardinality(A) <= n + 1
        BY <2>1, <4>2 DEF Within
      <4>5. C \cup {h} \in SUBSET Folders /\ Chain(C \cup {h}, h, F)
        BY <4>1, <4>4 DEF Chain
      <4>6. /\ Cardinality(C) \in Nat /\ Cardinality(C \cup {h}) \in Nat
            /\ Cardinality(C \cup {h}) <= Cardinality(C) + 1
        BY <4>1, <4>5, FoldersFinite, CountOne
      <4>7. Cardinality(C \cup {h}) + Cardinality(A) <= n + 1 + 1
        BY <1>n, <3>1, <4>4, <4>6
      <4> QED BY <4>5, <4>7
    <3> QED BY <3>2, <3>3
  <2> QED BY <1>3, <1>m, <1>6, <2>1, <2>2, <2>3
<1>9. ASSUME next = {}, n <= MaxDepth PROVE Counted(Initiated(o))
  <2> SUFFICES ASSUME op[o].kind = "single", ~op[o].changed, ~op[o].uncounted, op[o].target # Root
               PROVE  \E A, E \in SUBSET Folders :
                         /\ Upper(A, op[o].target) /\ F \subseteq E /\ Below(E, {})
                         /\ Within(A, E, F, MaxDepth)
    BY <1>4 DEF Counted
  <2>1. PICK A \in SUBSET Folders : Upper(A, op[o].target) /\ Within(A, D, F, n)
    BY <1>6
  <2>2. Below(D, {})
    BY <1>6, <1>7, <1>9 DEF Below
  <2>3. Within(A, D, F, MaxDepth)
    <3> SUFFICES ASSUME NEW h \in D
                 PROVE  \E C \in SUBSET Folders :
                            Chain(C, h, F) /\ Cardinality(C) + Cardinality(A) <= MaxDepth + 1
      BY DEF Within
    <3>1. PICK C \in SUBSET Folders :
              Chain(C, h, F) /\ Cardinality(C) + Cardinality(A) <= n + 1
      BY <2>1 DEF Within
    <3>2. Cardinality(C) \in Nat /\ Cardinality(A) \in Nat
      BY FoldersFinite
    <3>3. Cardinality(C) + Cardinality(A) <= MaxDepth + 1
      BY <1>n, <1>9, <3>1, <3>2, FolderAssumption
    <3> QED BY <3>1, <3>3
  <2> QED BY <1>a, <1>6, <2>1, <2>2, <2>3
<1>10. Looked(Refused(o))
  BY EndedQuiet, QuietLooked DEF Refused
<1> QED BY <1>2, <1>5, <1>8, <1>9, <1>10 DEF Looked

\* When the count fails nothing is claimed of the move
LEMMA UncountedLooked ==
    ASSUME TypeOK, WalksInv, NEW o \in Ops, NEW r \in OpSet, op'[o] = r, FailDepth(o)
    PROVE  Looked(r)
<1> DEFINE s == [Initiated(o) EXCEPT !.uncounted = TRUE]
<1>1. op[o] \in OpSet /\ Looked(op[o]) /\ op[o].pc = "down" /\ (r = Refused(o) \/ r = s)
  BY Typed DEF WalksInv, FailDepth, Become, TypeOK
<1>2. s.pc = "read" /\ s.kind = op[o].kind /\ s.folders = op[o].folders /\ s.uncounted
  BY <1>1 DEF Initiated, OpSet
<1> HIDE DEF s
<1>3. Looked(s)
  BY <1>1, <1>2 DEF Looked, Lone, Counted, Collected, Moving
<1> QED BY <1>1, <1>3, EndedQuiet, QuietLooked DEF Refused

\* What has been counted holds when the original parents are read
LEMMA ReadLooked ==
    ASSUME TypeOK, WalksInv, NEW o \in Ops, NEW r \in OpSet, op'[o] = r, ReadOriginal(o)
    PROVE  Looked(r)
<1> DEFINE g == [f \in Folders |-> IF f \in op[o].folders THEN parent[f] ELSE Root]
           s == [op[o] EXCEPT !.pc = "move", !.todo = op[o].folders, !.orig = g]
<1>1. op[o] \in OpSet /\ Looked(op[o])
  BY Typed DEF WalksInv
<1>2. op[o].pc = "read" /\ r = s
  BY DEF ReadOriginal, Become, TypeOK
<1> HIDE DEF g
<1>3. /\ s.pc = "move" /\ s.kind = op[o].kind /\ s.folders = op[o].folders
      /\ s.changed = op[o].changed /\ s.uncounted = op[o].uncounted /\ s.target = op[o].target
  BY <1>1 DEF OpSet
<1> HIDE DEF s
<1> QED BY <1>1, <1>2, <1>3 DEF Looked, Lone, Counted, Collected, Moving

\* Steps after which there is nothing to be said of the request
LEMMA EndQuiet ==
    ASSUME TypeOK, Sound, WalksInv, NEW o \in Ops,
           \/ FailRead(o) \/ MoveFolder(o) \/ CompleteMove(o) \/ FailMove(o) \/ MoveBack(o)
           \/ EndRollback(o) \/ FailRollback(o) \/ StopInstance(o) \/ InsertFolder(o)
           \/ DeleteFolders(o) \/ SetArchived(o)
    PROVE  Quiet(op'[o])
<1>a. /\ op[o] \in OpSet /\ Looked(op[o]) /\ op[o].todo \subseteq op[o].folders
      /\ op[o].status \in {"none", "processing", "rolling_back", "failed", "completed", "cancelled"}
  BY Typed DEF WalksInv, OpSet, Sound, Staged
<1>1. CASE \/ CompleteMove(o) \/ EndRollback(o) \/ FailRollback(o) \/ StopInstance(o)
           \/ InsertFolder(o) \/ DeleteFolders(o) \/ SetArchived(o)
  <2>1. PICK s \in {"none", "processing", "rolling_back", "failed", "completed", "cancelled"} :
            op'[o] = Ended(o, s)
    BY <1>1, <1>a DEF CompleteMove, EndRollback, FailRollback, StopInstance, InsertFolder,
       DeleteFolders, SetArchived, Become, Overtake, TypeOK
  <2> QED BY <2>1, EndedQuiet
<1>2. CASE FailRead(o) \/ FailMove(o)
  <2> DEFINE Back(S) == [op[o] EXCEPT !.pc = "back", !.status = "rolling_back", !.todo = S]
  <2>0. op[o].pc \in {"read", "move"} /\ \E S : Become(o, Back(S))
    BY <1>2 DEF FailRead, FailMove
  <2>1. PICK S : op[o].pc \in {"read", "move"} /\ op'[o] = Back(S)
    <3> HIDE DEF Back
    <3>1. PICK S : op[o].pc \in {"read", "move"} /\ Become(o, Back(S))
      BY <2>0
    <3>2. op'[o] = Back(S)
      BY <3>1 DEF Become, TypeOK
    <3> QED BY <3>1, <3>2
  <2>2. op'[o].pc = "back" /\ op'[o].kind = op[o].kind /\ op'[o].folders = op[o].folders
    BY <1>a, <2>1 DEF OpSet
  <2> QED BY <1>a, <2>1, <2>2 DEF Looked, Lone, Quiet, Moving
<1>3. CASE MoveFolder(o) \/ MoveBack(o)
  <2>1. PICK f \in op[o].todo :
            op[o].pc \in {"move", "back"} /\ op'[o] = [op[o] EXCEPT !.todo = op[o].todo \ {f}]
    BY <1>3 DEF MoveFolder, MoveBack, Overtake
  <2>2. /\ op'[o].pc = op[o].pc /\ op'[o].kind = op[o].kind /\ op'[o].folders = op[o].folders
        /\ op'[o].todo = op[o].todo \ {f}
    BY <1>a, <2>1 DEF OpSet
  <2>3. Lone(op'[o])
    BY <1>a, <2>1, <2>2 DEF Looked, Lone, Moving
  <2>4. op[o].kind = "single" => op'[o].todo = {}
    BY <1>a, <2>1, <2>2 DEF Looked, Lone, Moving
  <2> QED BY <2>1, <2>2, <2>3, <2>4 DEF Quiet
<1> QED BY <1>1, <1>2, <1>3

\* getDescendantFolderIds: what is below the last level is the next one
LEMMA CollectLooked ==
    ASSUME TypeOK, WalksInv, NEW o \in Ops, NEW r \in OpSet, op'[o] = r,
           StartCollect(o) \/ CollectLevel(o)
    PROVE  Looked(r)
<1>a. op[o] \in OpSet /\ Looked(op[o]) /\ op[o].found \in SUBSET Folders
  BY Typed DEF WalksInv, OpSet
<1>1. CASE StartCollect(o)
  <2>1. PICK kind \in {"delete", "archive", "restore"}, u \in Users, f \in Folders :
          Become(o, [NoOp EXCEPT !.pc = "collect", !.kind = kind, !.user = u,
                                 !.folders = {f}, !.front = {f}, !.found = {f}])
    BY <1>1 DEF StartCollect
  <2> DEFINE s == [NoOp EXCEPT !.pc = "collect", !.kind = kind, !.user = u,
                               !.folders = {f}, !.front = {f}, !.found = {f}]
  <2>2. s.pc = "collect" /\ s.kind = kind /\ s.front = {f} /\ s.found = {f}
    BY NoOpTyped DEF OpSet
  <2>3. r = s
    BY <2>1 DEF Become, TypeOK
  <2> HIDE DEF s
  <2> QED BY <2>2, <2>3 DEF Looked, Lone, Counted, Collected, Moving
<1>2. CASE CollectLevel(o)
  <2> DEFINE next == {g \in Folders : /\ Live(g) /\ parent[g] \in op[o].front
                                      /\ owner[g] = op[o].user
                                      /\ archived[g] => op[o].kind = "restore"} \ op[o].found
             s == [op[o] EXCEPT !.pc = "apply", !.front = {}]
             t == [op[o] EXCEPT !.front = next, !.found = op[o].found \cup next]
  <2>1. op[o].pc = "collect" /\ r = IF next = {} THEN s ELSE t
    BY <1>2 DEF CollectLevel, Become, TypeOK
  <2>2. /\ s.pc = "apply" /\ s.kind = op[o].kind /\ s.changed = op[o].changed
        /\ s.uncounted = op[o].uncounted
        /\ s.user = op[o].user /\ s.found = op[o].found
    BY <1>a DEF OpSet
  <2>3. /\ t.pc = "collect" /\ t.kind = op[o].kind /\ t.changed = op[o].changed
        /\ t.uncounted = op[o].uncounted
        /\ t.user = op[o].user /\ t.found = op[o].found \cup next /\ t.front = next
    BY <1>a, <2>1 DEF OpSet
  <2>4. \A g \in Folders : Usable(g) /\ owner[g] = op[o].user /\ parent[g] \in op[o].front
                             => g \in op[o].found \/ g \in next
    BY DEF Usable
  <2>5. Collected(op[o])
    BY <1>a DEF Looked
  <2> HIDE DEF next, s, t
  <2>6. next = {} => Collected(s)
    BY <2>1, <2>2, <2>4, <2>5 DEF Collected
  <2>7. Collected(t)
    BY <2>1, <2>3, <2>4, <2>5 DEF Collected
  <2>8. Lone(s) /\ Lone(t) /\ Counted(s) /\ Counted(t)
    BY <2>2, <2>3 DEF Lone, Counted, Moving
  <2> QED BY <2>1, <2>6, <2>7, <2>8 DEF Looked
<1> QED BY <1>1, <1>2

LEMMA CancelLooked ==
    ASSUME TypeOK, WalksInv, NEW o \in Ops, NEW r \in OpSet, op'[o] = r,
           CheckCancel(o) \/ MarkCancelled(o)
    PROVE  Looked(r)
<1>1. op[o] \in OpSet /\ Looked(op[o])
  BY Typed DEF WalksInv
<1>2. r = op[o] \/ r = [op[o] EXCEPT !.status = "cancelled"]
  BY DEF CheckCancel, MarkCancelled, Become, TypeOK
<1>3. /\ r.pc = op[o].pc /\ r.kind = op[o].kind /\ r.folders = op[o].folders
      /\ r.changed = op[o].changed /\ r.uncounted = op[o].uncounted
      /\ r.target = op[o].target /\ r.found = op[o].found
      /\ r.front = op[o].front /\ r.cursor = op[o].cursor /\ r.depth = op[o].depth
      /\ r.below = op[o].below
      /\ r.todo = op[o].todo /\ r.user = op[o].user
  BY <1>1, <1>2 DEF OpSet
<1> QED BY <1>1, <1>3 DEF Looked, Lone, Counted, Collected, Moving

LEMMA WalksNext == TypeOK /\ Sound /\ WalksInv /\ Next => WalksInv'
<1> SUFFICES ASSUME TypeOK, Sound, WalksInv, Next PROVE WalksInv'
  OBVIOUS
<1>1. PICK o \in Ops : \/ Validate(o) \/ Process(o) \/ Other(o)
                       \/ StopInstance(o) \/ CheckCancel(o) \/ MarkCancelled(o)
  BY DEF Next
<1> DEFINE Writes == MoveFolder(o) \/ MoveBack(o) \/ InsertFolder(o) \/ DeleteFolders(o)
                       \/ SetArchived(o)
<1>2. PICK r \in OpSet : \/ Become(o, r) \/ \E b \in BOOLEAN : Overtake(o, r, b)
  <2>1. Became(o)
    BY <1>1, StartBecame, ValidateBecame, ProcessBecame, EndBecame DEF Validate, Process, Other
  <2> QED BY <2>1 DEF Became
<1>3. op'[o] = r
  BY <1>2 DEF Become, Overtake, TypeOK
<1>4. CASE Writes
  <2>1. Looked(r)'
    BY <1>3, <1>4, EndQuiet, QuietLooked
  <2>2. \E s \in OpSet, b \in BOOLEAN : Overtake(o, s, b)
    <3>1. \E s, b : b \in BOOLEAN /\ Overtake(o, s, b)
      BY <1>4 DEF MoveFolder, MoveBack, InsertFolder, DeleteFolders, SetArchived
    <3> QED BY <1>3, <3>1 DEF Overtake
  <2> QED BY <1>3, <2>1, <2>2, WalksOthers DEF WalksInv
<1>5. CASE ~Writes
  <2>1. UNCHANGED tree
    BY <1>1, <1>5 DEF Validate, Process, Other, StartMove, PickFolder, WalkUp, FindTarget, DepthUp,
       DepthDown, FailDepth, ReadOriginal, FailRead, CompleteMove, FailMove, EndRollback,
         FailRollback,
       StartCreate, StartCollect, CollectLevel, StopInstance, CheckCancel, MarkCancelled
  <2>2. Become(o, r)
    <3>1. \E s : Become(o, s)
      <4>1. ASSUME CheckCancel(o) PROVE Become(o, op[o])
        BY <4>1 DEF CheckCancel, Become, TypeOK
      <4> QED
        BY <1>1, <1>5, <4>1 DEF Validate, Process, Other, StartMove, PickFolder, WalkUp, FindTarget,
           DepthUp, DepthDown, FailDepth, ReadOriginal, FailRead, CompleteMove, FailMove,
             EndRollback,
           FailRollback, StartCreate, StartCollect, CollectLevel, StopInstance, MarkCancelled
    <3> QED BY <1>3, <3>1 DEF Become, TypeOK
  <2>3. Looked(r)
    BY <1>1, <1>3, <1>5, StartQuiet, EndQuiet, QuietLooked, UpLooked, DownLooked, UncountedLooked,
       ReadLooked,
       CollectLooked, CancelLooked DEF Validate, Process, Other
  <2>4. Looked(r)'
    BY <2>1, <2>3, LookedCarried
  <2> QED BY <1>3, <2>1, <2>2, <2>4, WalksOthers DEF WalksInv
<1> QED BY <1>4, <1>5

-----------------------------------------------------------------------------
(* The two facts of single steps *)

\* What moves along is no deeper than what was counted
LEMMA DepthNext == TypeOK /\ Sound /\ WalksInv /\ Next => DepthKept
<1> SUFFICES ASSUME TypeOK, Sound, WalksInv, Next, NEW o \in Ops,
                    op[o].pc = "move", op'[o].pc = "move", op'[o].todo # op[o].todo,
                    op[o].kind = "single", ~op[o].changed, ~op[o].uncounted, op[o].target # Root,
                    NEW f \in op[o].folders, NEW g \in Folders, Plain(f, g)', Live(g)
             PROVE  Level(g)' <= MaxDepth
  BY DEF DepthKept, MovesAlone, WithinLimit
<1>a. /\ op[o] \in OpSet /\ op[o].target \in Folders /\ op[o].todo \in SUBSET Folders
      /\ op[o].folders \in SUBSET Folders /\ Staged(op[o]) /\ Looked(op[o])
  BY Typed DEF OpSet, Nodes, Sound, WalksInv
<1>1. MoveFolder(o)
  <2>1. PICK p \in Ops : \/ Validate(p) \/ Process(p) \/ Other(p)
                         \/ StopInstance(p) \/ CheckCancel(p) \/ MarkCancelled(p)
    BY DEF Next
  <2>2. PICK r \in OpSet : Steps(p, r)
    <3>1. Became(p)
      BY <2>1, StartBecame, ValidateBecame, ProcessBecame, EndBecame DEF Validate, Process, Other
    <3> QED BY <3>1, BecomeSteps, OvertakeSteps DEF Became
  <2>3. p = o
    BY <2>2 DEF Steps, Alike
  <2>4. \A s : Ended(o, s).pc = "done"
    BY DEF Ended, NoOp
  <2>5. CASE StopInstance(o)
    BY <2>4, <2>5 DEF StopInstance, Become, TypeOK
  <2>6. CASE CheckCancel(o)
    BY <2>6 DEF CheckCancel
  <2>7. CASE MarkCancelled(o)
    BY <1>a, <2>7 DEF MarkCancelled, Become, TypeOK, OpSet
  <2>8. CASE Process(o) \/ Validate(o) \/ Other(o)
    <3>1. CASE CompleteMove(o)
      BY <2>4, <3>1 DEF CompleteMove, Become, TypeOK
    <3>2. CASE FailMove(o)
      <4>1. op'[o].pc = "back"
        BY <1>a, <3>2 DEF FailMove, Become, TypeOK, OpSet
      <4> QED BY <4>1
    <3>3. CASE MoveFolder(o)
      BY <3>3
    <3>4. \/ CompleteMove(o) \/ FailMove(o) \/ MoveFolder(o)
      BY <2>8 DEF Process, Validate, Other, StartMove, PickFolder, WalkUp, FindTarget, DepthUp,
         DepthDown, FailDepth, ReadOriginal, FailRead, MoveBack, EndRollback, FailRollback,
           StartCreate,
         InsertFolder, StartCollect, CollectLevel, DeleteFolders, SetArchived
    <3> QED BY <3>1, <3>2, <3>3, <3>4
  <2> QED BY <2>1, <2>3, <2>5, <2>6, <2>7, <2>8
<1>2. op[o].folders = {f} /\ f \in Folders
  BY <1>a DEF Looked, Lone, Moving
<1>3. /\ parent' \in {parent, [parent EXCEPT ![f] = op[o].target]}
      /\ Live(f) => parent' = [parent EXCEPT ![f] = op[o].target]
      /\ st' = st /\ archived' = archived /\ op[o].todo # {}
  BY <1>1, <1>2, <1>a DEF MoveFolder, Staged
<1>4. PICK A, D \in SUBSET Folders :
          /\ Upper(A, op[o].target) /\ {f} \subseteq D /\ Below(D, {})
          /\ Within(A, D, {f}, MaxDepth)
  BY <1>a, <1>2, <1>3 DEF Looked, Counted
<1>5. /\ parent' \in [Folders -> Nodes] /\ \A h \in Folders \ {f} : parent'[h] = parent[h]
      /\ parent'[f] \in {op[o].target, Root}
  <2>1. ~Live(f) => parent[f] = Root
    BY <1>2 DEF Sound
  <2> QED BY <1>2, <1>3, <1>a, <2>1, Typed DEF Nodes
<1>6. g \in D
  <2>1. PlainOf(parent', st', archived', f, g)
    BY DEF Plain, PlainOf, Usable, Live
  <2>2. \A h \in Folders \ {f} : st'[h] = "live" /\ ~archived'[h] /\ parent'[h] \in D => h \in D
    BY <1>3, <1>4, <1>5 DEF Below, Usable, Live
  <2> QED BY <1>2, <1>4, <1>5, <2>1, <2>2, PlainWithin
<1>7. PICK C \in SUBSET Folders : Chain(C, g, {f})
                                                   /\ Cardinality(C) + Cardinality(A) <= MaxDepth + 1
  BY <1>4, <1>6 DEF Within
<1>8. C \cup A \in SUBSET Folders /\ g \in C \cup A
  BY <1>7 DEF Chain
<1>9. \A h \in C \cup A : parent'[h] \in (C \cup A) \cup {Root}
  <2> TAKE h \in C \cup A
  <2>1. CASE h = f
    BY <1>4, <1>5, <2>1 DEF Upper
  <2>2. CASE h # f
    BY <1>4, <1>5, <1>7, <1>8, <2>2 DEF Upper, Chain
  <2> QED BY <2>1, <2>2
<1>10. LevelOf(parent', g) \in Int /\ LevelOf(parent', g) + 1 <= Cardinality(C \cup A)
  BY <1>5, <1>8, <1>9, LevelBound
<1>11. Level(g)' = LevelOf(parent', g)
  BY DEF Level, LevelOf
<1>12. Cardinality(C \cup A) <= Cardinality(C) + Cardinality(A)
  BY CountBoth
<1>13. Cardinality(C \cup A) \in Nat /\ Cardinality(C) \in Nat /\ Cardinality(A) \in Nat
  BY <1>8, FoldersFinite
<1> QED BY <1>7, <1>10, <1>11, <1>12, <1>13, FolderAssumption

\* What a delete has collected holds whatever has a parent in it
LEMMA SubtreeNext == TypeOK /\ Sound /\ WalksInv /\ Next => SubtreeGone
<1> SUFFICES ASSUME TypeOK, Sound, WalksInv, Next, NEW o \in Ops,
                    op[o].pc = "apply", op[o].kind = "delete", op'[o].pc = "done", ~op[o].changed,
                    NEW g \in Folders, Live(g)', parent[g] # Root, st[parent[g]] = "live",
                    st'[parent[g]] = "gone", ~archived[g], owner[g] = op[o].user
             PROVE  FALSE
  BY DEF SubtreeGone
<1>a. op[o] \in OpSet /\ Looked(op[o]) /\ parent[g] \in Folders
  BY Typed DEF WalksInv, TypeOK, Nodes
<1>1. DeleteFolders(o)
  <2>1. PICK p \in Ops : \/ Validate(p) \/ Process(p) \/ Other(p)
                         \/ StopInstance(p) \/ CheckCancel(p) \/ MarkCancelled(p)
    BY DEF Next
  <2>2. PICK r \in OpSet : Steps(p, r)
    <3>1. Became(p)
      BY <2>1, StartBecame, ValidateBecame, ProcessBecame, EndBecame DEF Validate, Process, Other
    <3> QED BY <3>1, BecomeSteps, OvertakeSteps DEF Became
  <2>3. p = o
    BY <2>2 DEF Steps, Alike
  <2>4. CASE MarkCancelled(o)
    BY <1>a, <2>4 DEF MarkCancelled, Become, TypeOK, OpSet
  <2>5. CASE CheckCancel(o)
    BY <2>5 DEF CheckCancel
  <2> QED
    BY <2>1, <2>3, <2>4, <2>5 DEF StopInstance, Working, Process, Validate, Other, StartMove,
       PickFolder, WalkUp, FindTarget, DepthUp, DepthDown, FailDepth, ReadOriginal, FailRead,
         MoveFolder,
       CompleteMove, FailMove, MoveBack, EndRollback, FailRollback, StartCreate, InsertFolder,
       StartCollect, CollectLevel, SetArchived
<1>2. \A f \in Folders : st'[f] = IF f \in op[o].found THEN "gone" ELSE st[f]
  BY <1>1 DEF DeleteFolders
<1>3. parent[g] \in op[o].found /\ g \notin op[o].found /\ Live(g)
  BY <1>a, <1>2 DEF Live
<1> QED BY <1>a, <1>3 DEF Looked, Collected, Usable

LEMMA WalksInit == Init => WalksInv
<1>1. Init => \A o \in Ops : op[o].pc = "new"
  BY DEF Init, NoOp
<1> QED BY <1>1, QuietLooked DEF WalksInv, Quiet, Lone, Moving

LEMMA WalksInvariance == Spec => []WalksInv
<1>1. Init => WalksInv
  BY WalksInit
<1>2. FolderInv /\ WalksInv /\ [Next]_vars => WalksInv'
  <2> SUFFICES ASSUME FolderInv, WalksInv, [Next]_vars PROVE WalksInv'
    OBVIOUS
  <2>1. CASE Next
    BY <2>1, WalksNext DEF FolderInv
  <2>2. CASE UNCHANGED vars
    <3>1. UNCHANGED tree /\ op' = op
      BY <2>2 DEF vars
    <3>2. ASSUME NEW o \in Ops PROVE Looked(op[o])'
      <4>1. PICK q : q = op[o]
        OBVIOUS
      <4>2. Looked(q)'
        BY <3>1, <4>1, LookedCarried DEF WalksInv
      <4> QED BY <3>1, <4>1, <4>2
    <3> QED BY <3>2 DEF WalksInv
  <2> QED BY <2>1, <2>2
<1> QED BY <1>1, <1>2, Invariance, PTL DEF Spec

\* A single move that is carried out while nothing else writes the tree puts
\* nothing deeper than the limit: calculateDepth and getMaxDescendantDepth, which
\* read a row and a level at a time, have counted all there is. And a delete
\* that nothing has overtaken leaves no folder of the same owner, save archived
\* ones, behind whose parent it has deleted
THEOREM StepsKept == Spec => StepsSound
<1>1. FolderInv /\ WalksInv /\ [Next]_vars => [DepthKept /\ SubtreeGone]_vars
  BY DepthNext, SubtreeNext DEF FolderInv
<1> QED BY <1>1, Invariance, WalksInvariance, PTL DEF Spec, StepsSound

=============================================================================
