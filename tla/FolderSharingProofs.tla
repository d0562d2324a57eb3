------------------------- MODULE FolderSharingProofs -------------------------
(***************************************************************************)
(* Why a revocation takes what it revokes, and why whoever a folder is     *)
(* shared with can read what is in it, for any number of folders,          *)
(* documents, users and requests.                                          *)
(***************************************************************************)
EXTENDS FolderSharing, SequenceTheorems, WellFoundedInduction, TLAPS

-----------------------------------------------------------------------------
(* The invariant *)

\* Granted, Readable and Descendants, as functions of the rows they look at
On(rows) == TRUE \in Range(rows)
Active(rows) == \E r \in Range(rows) : r.active
Below(fo, f) ==
    LET level[n \in 0 .. NFolders] ==
            IF n = 0 THEN {f}
            ELSE level[n - 1] \cup {g \in Folders : /\ fo[g].there /\ fo[g].owner = fo[f].owner
                                                    /\ fo[g].up \in level[n - 1]}
    IN level[NFolders] \ {f}

\* What a request has in hand at each of its stages, and the folders and
\* documents it refers to
Staged(q, fo, do) ==
    /\ q.pc \in {"grant", "write", "list", "find", "below"} => q.kind \in {"share", "update"}
    /\ \/ q.pc \in {"off", "tree", "suboff", "held", "keysoff", "remain", "unflag",
                    "inherit", "shared", "parent"}
       \/ q.pc \notin {"new", "done"} /\ q.kind \in {"share", "update"}
       => q.folder \in Folders /\ fo[q.folder].there
    /\ q.pc = "parent" => fo[q.folder].up # Root
    /\ \/ q.pc \in {"stream", "place", "back", "inherit", "shared"}
       \/ q.pc \notin {"new", "done"} /\ q.kind = "move"
       => do[q.doc].st # "new"
    /\ q.pc \in {"stream", "place"} /\ q.folder # Root => fo[q.folder].there
    /\ q.orig # Root => fo[q.orig].there
    /\ q.pc = "key" => <<q.doc, q.user>> \in q.pairs
    /\ \A du \in q.pairs : do[du[1]].st # "new" /\ du[2] # do[du[1]].owner
    /\ \A gu \in q.subs : fo[gu[1]].there

\* What is not there has no rows, and nothing there is below it or in it
Sound ==
    /\ \A f \in Folders :
          /\ folder[f].up < f
          /\ There(f) /\ folder[f].up # Root => There(folder[f].up)
          /\ \A u \in Users : /\ ~There(f) => grant[f][u] = << >>
                              /\ direct[f][u] => On(grant[f][u])
    /\ \A d \in Docs :
          /\ doc[d].folder # Root => There(doc[d].folder)
          /\ doc[d].st = "new" => \A u \in Users : key[d][u] = << >>
          /\ doc[d].st # "new" => key[d][doc[d].owner] # << >>
    /\ \A o \in Ops : Staged(op[o], folder, doc)

In(d, f) == doc[d].st # "new" /\ doc[d].folder = f
\* The user reads the document, which is in the folder and not the user's own
Reads(d, g, u, do, ke) ==
    do[d].st # "new" /\ do[d].folder = g /\ Active(ke[d][u]) /\ do[d].owner # u

\* How far a revocation that no grant has met has come
Taken(q, fo, gr, do, ke) ==
    LET f == q.folder
        u == q.user
        B == Below(fo, f)
    IN /\ q.pc \in {"tree", "suboff", "held", "keysoff", "remain", "unflag"} => ~On(gr[f][u])
       /\ q.pc = "suboff" => \A g \in B \ q.below : ~On(gr[g][u])
       /\ q.pc \in {"held", "keysoff", "remain", "unflag"} => \A g \in B : ~On(gr[g][u])
       /\ q.pc \in {"suboff", "held"} => \A g \in B \ q.below, d \in Docs : ~Reads(d, g, u, do, ke)
       /\ q.pc = "keysoff" => \A g \in {f} \cup B, d \in Docs \ q.held : ~Reads(d, g, u, do, ke)
       /\ q.pc \in {"remain", "unflag"} => \A g \in {f} \cup B, d \in Docs : ~Reads(d, g, u, do, ke)
RevokeInv ==
    \A o \in Ops : Revokes(o) /\ ~op[o].met /\ ~op[o].failed =>
      Taken(op[o], folder, grant, doc, key)

\* A revocation that no grant has overlapped: what it has been through is not
\* shared with the user
Apart(q, di) ==
    /\ q.pc \in {"tree", "suboff", "held", "keysoff", "remain", "unflag"} => ~di[q.folder][q.user]
    /\ q.pc \in {"held", "keysoff", "remain", "unflag"} => \A g \in q.below : ~di[g][q.user]
ApartInv == \A o \in Ops : Revokes(o) /\ ~mixed[op[o].user] => Apart(op[o], direct)

\* A folder that has been given to a user has its flag, or a share will set it
Flagging(q, f) == q.pc \in {"grant", "write"} /\ q.folder = f
FlagInv ==
    \A f \in Folders, u \in Users :
        direct[f][u] /\ ~lost[f] => folder[f].shared \/ \E o \in Ops : Flagging(op[o], f)

\* The request will give the key of d, which is in the folder f, to u
Gives(q, d, u, f) ==
    \/ q.pc \in {"grant", "write", "list"} /\ q.folder = f
    \/ q.pc = "find" /\ q.folder = f /\ u \in q.list
    \/ q.pc \in {"stream", "inherit", "shared"} /\ q.folder = f /\ q.doc = d
    \/ q.pc \in {"docs", "key"} /\ <<d, u>> \in q.pairs
\* ... or take it
Takes(q, d, u) == q.pc = "keysoff" /\ q.user = u /\ d \in q.held

\* Whoever a folder has been given to reads a document in it, or will
Owed(d, u) ==
    /\ doc[d].st # "new" /\ doc[d].folder # Root /\ u # doc[d].owner
    /\ direct[doc[d].folder][u] /\ ~mixed[u] /\ ~lost[doc[d].folder] /\ ~taken[d][u]
    /\ Active(key[d][doc[d].owner])
Given(d, u) ==
    \/ Active(key[d][u]) /\ \A o \in Ops : ~Takes(op[o], d, u)
    \/ \E o \in Ops : Gives(op[o], d, u, doc[d].folder)
GivenInv == \A d \in Docs, u \in Users : Owed(d, u) => Given(d, u)

\* No move is rolled back
NoneBack == \A o \in Ops : op[o].pc # "back"

SharingInv ==
    /\ TypeOK /\ Sound /\ RevokeInv
    /\ faults = 0 => ApartInv /\ FlagInv /\ GivenInv /\ NoneBack

-----------------------------------------------------------------------------
(* Constants and rows *)

LEMMA Constants == /\ 0 \in 0 .. NFolders /\ Root \in 0 .. NFolders /\ Root \notin Folders
                   /\ Folders \subseteq 0 .. NFolders /\ Folders \subseteq Nat
                   /\ \A f \in 0 .. NFolders : f # Root => f \in Folders
                   /\ (CHOOSE u \in Users : TRUE) \in Users
                   /\ (CHOOSE d \in Docs : TRUE) \in Docs
BY SharingAssumption DEF Root, Folders

LEMMA NoOpTyped == NoOp \in OpSet
BY Constants DEF NoOp, OpSet

\* A function on 1 .. n is a list of n
LEMMA Listed == ASSUME NEW S, NEW n \in Nat, NEW s \in [1 .. n -> S]
                PROVE  s \in Seq(S) /\ Len(s) = n
<1>1. s \in Seq(S)
  BY SeqDef
<1>2. DOMAIN s = 1 .. Len(s) /\ Len(s) \in Nat
  BY <1>1, LenProperties
<1>3. 1 .. Len(s) = 1 .. n
  BY <1>2
<1>4. Len(s) \in 1 .. Len(s) \/ Len(s) = 0
  BY <1>2
<1>5. n \in 1 .. n \/ n = 0
  OBVIOUS
<1>6. Len(s) = n
  BY <1>2, <1>3, <1>4, <1>5
<1> QED BY <1>1, <1>6

LEMMA RowsTyped ==
    ASSUME NEW rows \in Seq(BOOLEAN)
    PROVE  /\ AnyOf(rows) \subseteq 0 .. Len(rows)
           /\ \A i \in 0 .. Len(rows) : /\ Activated(rows, i) \in Seq(BOOLEAN)
                                        /\ Len(rows) <= Len(Activated(rows, i))
                                        /\ On(Activated(rows, i))
           /\ Append(rows, TRUE) \in Seq(BOOLEAN) /\ Len(rows) <= Len(Append(rows, TRUE))
           /\ Off(rows) \in Seq(BOOLEAN) /\ Len(rows) <= Len(Off(rows))
           /\ ~On(Off(rows))
           /\ rows = << >> => ~On(rows) /\ Off(rows) = << >>
           /\ On(Append(rows, TRUE))
           /\ Len(rows) \in Nat /\ (rows = << >> <=> Len(rows) = 0)
<1>1. Len(rows) \in Nat /\ DOMAIN rows = 1 .. Len(rows)
  OBVIOUS
<1>2. AnyOf(rows) \subseteq 0 .. Len(rows)
  BY <1>1 DEF AnyOf
<1>3. /\ Append(rows, TRUE) \in Seq(BOOLEAN) /\ Len(Append(rows, TRUE)) = Len(rows) + 1
      /\ Append(rows, TRUE)[Len(rows) + 1] = TRUE
      /\ DOMAIN Append(rows, TRUE) = 1 .. Len(rows) + 1
  BY AppendProperties
<1>4. ASSUME NEW i \in 1 .. Len(rows)
      PROVE  /\ [rows EXCEPT ![i] = TRUE] \in Seq(BOOLEAN)
             /\ Len([rows EXCEPT ![i] = TRUE]) = Len(rows)
             /\ DOMAIN [rows EXCEPT ![i] = TRUE] = 1 .. Len(rows)
             /\ [rows EXCEPT ![i] = TRUE][i] = TRUE
  BY <1>1, ExceptSeq
<1>5. ASSUME NEW i \in 0 .. Len(rows)
      PROVE  /\ Activated(rows, i) \in Seq(BOOLEAN)
             /\ Len(rows) <= Len(Activated(rows, i))
             /\ On(Activated(rows, i))
  <2>1. CASE i = 0
    <3> DEFINE w == Append(rows, TRUE)
    <3>1. Len(rows) + 1 \in 1 .. Len(rows) + 1 /\ Len(rows) <= Len(rows) + 1
      BY <1>1
    <3>2. w[Len(rows) + 1] = TRUE /\ Len(rows) + 1 \in DOMAIN w
      BY <1>3, <3>1
    <3>3. Activated(rows, i) = w
      BY <2>1 DEF Activated
    <3> HIDE DEF w
    <3>4. On(w)
      BY <3>2, Zenon DEF On, Range
    <3> QED BY <1>3, <3>1, <3>3, <3>4, Zenon DEF w
  <2>2. CASE i # 0
    <3> DEFINE w == [rows EXCEPT ![i] = TRUE]
    <3>1. i \in 1 .. Len(rows)
      BY <1>1, <2>2
    <3>2. w \in Seq(BOOLEAN) /\ Len(w) = Len(rows) /\ w[i] = TRUE /\ i \in DOMAIN w
      BY <1>4, <3>1
    <3>3. Activated(rows, i) = w
      BY <2>2 DEF Activated
    <3> HIDE DEF w
    <3>4. On(w)
      BY <3>2, Zenon DEF On, Range
    <3>5. Len(rows) <= Len(w)
      BY <1>1, <3>2
    <3> QED BY <3>2, <3>3, <3>4, <3>5
  <2> QED BY <2>1, <2>2
<1>6. Off(rows) = [i \in 1 .. Len(rows) |-> FALSE]
  BY <1>1 DEF Off
<1>7. Off(rows) \in Seq(BOOLEAN) /\ Len(Off(rows)) = Len(rows)
  <2>1. Off(rows) \in [1 .. Len(rows) -> BOOLEAN]
    BY <1>6
  <2> HIDE DEF Off
  <2> QED BY <1>1, <2>1, Listed
<1>8. ~On(Off(rows))
  BY <1>6 DEF On, Range
<1>9. rows = << >> => ~On(rows) /\ Off(rows) = << >>
  BY DEF On, Range, Off
<1>13. On(Append(rows, TRUE))
  <2> DEFINE w == Append(rows, TRUE)
  <2>1. w[Len(rows) + 1] = TRUE /\ Len(rows) + 1 \in DOMAIN w
    BY <1>1, <1>3
  <2> HIDE DEF w
  <2> QED BY <2>1, Zenon DEF On, Range, w
<1>14. rows = << >> <=> Len(rows) = 0
  BY EmptySeq
<1>10. Len(rows) <= Len(rows) + 1 /\ Len(rows) <= Len(rows)
  BY <1>1
<1>11. Append(rows, TRUE) \in Seq(BOOLEAN) /\ Len(rows) <= Len(Append(rows, TRUE))
  BY <1>3, <1>10
<1>12. Len(rows) <= Len(Off(rows))
  BY <1>7, <1>10
<1> QED BY <1>1, <1>2, <1>5, <1>7, <1>8, <1>9, <1>11, <1>12, <1>13, <1>14, Zenon

\* What CopyKey and RecordKey do to the rows of a user
Copied(rows, i, g) == IF i = 0 THEN Append(rows, [good |-> g, active |-> TRUE])
                      ELSE [rows EXCEPT ![i].active = TRUE]
Recorded(rows) == [rows EXCEPT ![1].good = TRUE]

LEMMA KeysTyped ==
    ASSUME NEW rows \in Seq(KeySet)
    PROVE  /\ AnyOf(rows) \subseteq 0 .. Len(rows)
           /\ \A i \in 0 .. Len(rows), g \in BOOLEAN :
                 /\ Copied(rows, i, g) \in Seq(KeySet)
                 /\ Len(rows) <= Len(Copied(rows, i, g))
                 /\ Active(Copied(rows, i, g))
           /\ KeysOff(rows) \in Seq(KeySet) /\ Len(rows) <= Len(KeysOff(rows))
           /\ ~Active(KeysOff(rows))
           /\ \A g \in BOOLEAN : <<[good |-> g, active |-> TRUE]>> \in Seq(KeySet)
           /\ Range(rows) \subseteq KeySet
           /\ rows = << >> => ~Active(rows) /\ KeysOff(rows) = << >>
           /\ Len(rows) \in Nat /\ (rows = << >> <=> Len(rows) = 0)
<1>1. Len(rows) \in Nat /\ DOMAIN rows = 1 .. Len(rows) /\
      \A i \in 1 .. Len(rows) : rows[i] \in KeySet
  BY ElementOfSeq
<1>2. AnyOf(rows) \subseteq 0 .. Len(rows)
  BY <1>1 DEF AnyOf
<1>3. ASSUME NEW i \in 0 .. Len(rows), NEW g \in BOOLEAN
      PROVE  /\ Copied(rows, i, g) \in Seq(KeySet)
             /\ Len(rows) <= Len(Copied(rows, i, g))
             /\ Active(Copied(rows, i, g))
  <2> DEFINE k == [good |-> g, active |-> TRUE]
             w == Append(rows, k)
             s == [rows EXCEPT ![i].active = TRUE]
  <2>1. CASE i = 0
    <3>1. k \in KeySet /\ k.active
      BY DEF KeySet
    <3>2. /\ w \in Seq(KeySet) /\ Len(w) = Len(rows) + 1
          /\ w[Len(rows) + 1] = k
      <4> HIDE DEF k
      <4> QED BY <3>1, AppendProperties
    <3>3. DOMAIN w = 1 .. Len(rows) + 1 /\ Len(rows) + 1 \in 1 .. Len(rows) + 1
      BY <1>1, <3>2
    <3>4. Copied(rows, i, g) = w
      BY <2>1 DEF Copied
    <3> HIDE DEF k, w
    <3>5. Active(w)
      BY <3>1, <3>2, <3>3 DEF Active, Range
    <3> QED BY <1>1, <3>2, <3>4, <3>5
  <2>2. CASE i # 0
    <3>1. i \in 1 .. Len(rows)
      BY <1>1, <2>2
    <3>2. rows[i] \in KeySet
      BY <1>1, <3>1
    <3> DEFINE e == [rows[i] EXCEPT !.active = TRUE]
    <3>3. e \in KeySet /\ e.active
      BY <3>2, Zenon DEF KeySet
    <3>4. s = [rows EXCEPT ![i] = e]
      OBVIOUS
    <3>5. Copied(rows, i, g) = s
      BY <2>2 DEF Copied
    <3> HIDE DEF e, s
    <3>6. s \in Seq(KeySet) /\ Len(s) = Len(rows) /\ s[i] = e /\ DOMAIN s = 1 .. Len(rows)
      BY <1>1, <3>1, <3>3, <3>4, ExceptSeq
    <3>7. Active(s)
      BY <3>1, <3>3, <3>6 DEF Active, Range
    <3> QED BY <1>1, <3>5, <3>6, <3>7
  <2> QED BY <2>1, <2>2
<1>4. /\ KeysOff(rows) \in Seq(KeySet) /\ Len(KeysOff(rows)) = Len(rows)
      /\ ~Active(KeysOff(rows))
  <2> DEFINE e(i) == [rows[i] EXCEPT !.active = FALSE]
             w == [i \in 1 .. Len(rows) |-> e(i)]
  <2>1. \A i \in 1 .. Len(rows) : e(i) \in KeySet /\ ~e(i).active
    BY <1>1, Zenon DEF KeySet
  <2>2. KeysOff(rows) = w
    BY <1>1 DEF KeysOff
  <2> HIDE DEF e
  <2>3. w \in [1 .. Len(rows) -> KeySet]
    BY <2>1
  <2>4. ~Active(w)
    BY <2>1 DEF Active, Range
  <2> HIDE DEF w
  <2>5. w \in Seq(KeySet) /\ Len(w) = Len(rows)
    BY <1>1, <2>3, Listed
  <2> QED BY <2>2, <2>4, <2>5
<1>5. \A g \in BOOLEAN : <<[good |-> g, active |-> TRUE]>> \in Seq(KeySet)
  <2>1. \A g \in BOOLEAN : [good |-> g, active |-> TRUE] \in KeySet
    BY DEF KeySet
  <2>2. \A k \in KeySet : <<k>> \in Seq(KeySet)
    OBVIOUS
  <2> QED BY <2>1, <2>2, Zenon
<1>6. Range(rows) \subseteq KeySet
  BY <1>1 DEF Range
<1>7. rows = << >> => ~Active(rows) /\ KeysOff(rows) = << >>
  BY DEF Active, Range, KeysOff
<1>8. rows = << >> <=> Len(rows) = 0
  BY EmptySeq
<1>9. Len(rows) <= Len(rows)
  BY <1>1
<1> QED BY <1>1, <1>2, <1>3, <1>4, <1>5, <1>6, <1>7, <1>8, <1>9

LEMMA KeyRecorded ==
    ASSUME NEW rows \in Seq(KeySet)
    PROVE  /\ Recorded(rows) \in Seq(KeySet) /\ Len(Recorded(rows)) = Len(rows)
           /\ Active(Recorded(rows)) <=> Active(rows)
<1>1. Len(rows) \in Nat /\ DOMAIN rows = 1 .. Len(rows) /\
      \A i \in 1 .. Len(rows) : rows[i] \in KeySet
  BY ElementOfSeq
<1> DEFINE w == Recorded(rows)
<1>2. DOMAIN w = 1 .. Len(rows) /\ w = [i \in 1 .. Len(rows) |-> w[i]]
  BY <1>1, Zenon DEF Recorded
<1>3. \A i \in 1 .. Len(rows) : w[i] \in KeySet /\ w[i].active = rows[i].active
  BY <1>1, Zenon DEF Recorded, KeySet
<1> HIDE DEF w
<1>4. w \in Seq(KeySet) /\ Len(w) = Len(rows)
  <2>1. w \in [1 .. Len(rows) -> KeySet]
    BY <1>2, <1>3
  <2> QED BY <1>1, <2>1, Listed
<1>5. Active(w) <=> Active(rows)
  BY <1>1, <1>2, <1>3 DEF Active, Range
<1> QED BY <1>4, <1>5 DEF w


-----------------------------------------------------------------------------
(* What is below a folder *)

\* A set of naturals that is not empty has a least element
LEMMA LeastNat ==
    ASSUME NEW S \in SUBSET Nat, S # {}
    PROVE  \E n \in S : \A m \in S : n <= m
<1> DEFINE R == {ss \in Nat \X Nat : ss[1] < ss[2]}
<1>1. IsWellFoundedOn(R, Nat)
  BY NatLessThanWellFounded DEF OpToRel
<1> HIDE DEF R
<1>2. PICK n \in S : \A m \in S : ~ (<<m, n>> \in R)
  BY <1>1, WFMin, Zenon
<1>3. ASSUME NEW m \in S PROVE n <= m
  <2>1. m \in Nat /\ n \in Nat
    OBVIOUS
  <2>2. m < n => <<m, n>> \in R
    BY <2>1 DEF R
  <2> QED BY <1>2, <2>1, <2>2
<1> QED BY <1>3

NextLevel(fo, f, S) == {g \in Folders : /\ fo[g].there /\ fo[g].owner = fo[f].owner
                                        /\ fo[g].up \in S}
IsLevels(h, fo, f) ==
    /\ h[0] = {f}
    /\ \A n \in 1 .. NFolders : h[n] = h[n - 1] \cup NextLevel(fo, f, h[n - 1])

\* The recursion of Descendants is well defined
LEMMA Levels ==
    ASSUME NEW fo, NEW f
    PROVE  \E h : IsLevels(h, fo, f) /\ Below(fo, f) = h[NFolders] \ {f}
<1> DEFINE N == NFolders
           S(h, i) == IF i = 0 THEN {f}
                      ELSE h[i - 1] \cup {g \in Folders : /\ fo[g].there
                                                          /\ fo[g].owner = fo[f].owner
                                                          /\ fo[g].up \in h[i - 1]}
           Rec(h, n) == h = [i \in 0 .. n |-> S(h, i)]
           level == CHOOSE h : Rec(h, N)
<1>1. N \in Nat
  BY SharingAssumption
<1>2. Below(fo, f) = level[N] \ {f}
  BY DEF Below
<1> HIDE DEF N
<1>3. \E h : Rec(h, N)
  <2> DEFINE Bad == {n \in 0 .. N : ~ \E h : Rec(h, n)}
  <2> HIDE DEF Rec
  <2>0. Bad \in SUBSET Nat /\ (N \notin Bad => \E h : Rec(h, N))
    BY <1>1
  <2>1. SUFFICES ASSUME Bad # {} PROVE FALSE
    BY <2>0
  <2>2. PICK n \in Bad : \A k \in Bad : n <= k
    BY <2>0, <2>1, LeastNat, Zenon
  <2>3. n \in 0 .. N /\ ~ \E h : Rec(h, n)
    OBVIOUS
  <2> HIDE DEF Bad
  <2>4. CASE n = 0
    <3>1. Rec([i \in 0 .. 0 |-> {f}], 0)
      BY DEF Rec
    <3> QED BY <2>3, <2>4, <3>1
  <2>5. CASE n # 0
    <3>1. n - 1 \in 0 .. N /\ ~ (n <= n - 1)
      BY <1>1, <2>3, <2>5
    <3>2. PICK h : Rec(h, n - 1)
      BY <2>2, <3>1 DEF Bad
    <3> DEFINE g == [i \in 0 .. n |-> IF i = n THEN S(h, n) ELSE h[i]]
    <3>3. \A i \in 0 .. n - 1 : h[i] = S(h, i)
      <4> DEFINE T(i) == S(h, i)
      <4>1. h = [i \in 0 .. n - 1 |-> T(i)]
        BY <3>2, Zenon DEF Rec
      <4> HIDE DEF T
      <4>2. \A i \in 0 .. n - 1 : h[i] = T(i)
        BY <4>1
      <4> QED BY <4>2, Zenon DEF T
    <3>4. \A i \in 0 .. n : g[i] = S(g, i)
      <4> TAKE i \in 0 .. n
      <4>1. CASE i = n
        BY <1>1, <2>3, <2>5, <4>1
      <4>2. CASE i # n
        <5>1. i \in 0 .. n - 1 /\ (i # 0 => i - 1 \in 0 .. n /\ i - 1 # n)
          BY <1>1, <2>3, <4>2
        <5>2. g[i] = h[i] /\ (i # 0 => g[i - 1] = h[i - 1])
          BY <5>1, <4>2
        <5> QED BY <3>3, <5>1, <5>2, Zenon
      <4> QED BY <4>1, <4>2
    <3>5. Rec(g, n)
      <4>1. g = [i \in 0 .. n |-> g[i]]
        OBVIOUS
      <4> HIDE DEF g
      <4> QED BY <3>4, <4>1 DEF Rec
    <3> QED BY <2>3, <3>5
  <2> QED BY <2>4, <2>5
<1>4. Rec(level, N)
  BY <1>3, Zenon
<1> HIDE DEF level
<1>5. \A i \in 0 .. N : level[i] = S(level, i)
  <2> DEFINE T(i) == S(level, i)
  <2>1. level = [i \in 0 .. N |-> T(i)]
    BY <1>4, Zenon
  <2> HIDE DEF T
  <2>2. \A i \in 0 .. N : level[i] = T(i)
    BY <2>1
  <2> QED BY <2>2, Zenon DEF T
<1>6. 0 \in 0 .. N /\ \A i \in 1 .. N : i \in 0 .. N /\ i # 0
  BY <1>1
<1>7. level[0] = {f}
  BY <1>5, <1>6, Zenon
<1>8. \A n \in 1 .. N : level[n] = level[n - 1] \cup NextLevel(fo, f, level[n - 1])
  <2> TAKE n \in 1 .. N
  <2>1. level[n] = S(level, n) /\ n # 0
    BY <1>5, <1>6, Zenon
  <2> QED BY <2>1 DEF NextLevel
<1>9. IsLevels(level, fo, f)
  BY <1>7, <1>8 DEF IsLevels, N
<1> QED BY <1>2, <1>9 DEF N

LEMMA DescendantsBelow == \A f : Descendants(f) = Below(folder, f)
BY DEF Descendants, Below, There

\* By the least level where it would be wrong: what is below is there, and a
\* new folder with nothing below it is all that can come to it
LEMMA BelowThere ==
    ASSUME NEW fo, NEW f
    PROVE  \A g \in Below(fo, f) : g \in Folders /\ fo[g].there
<1>1. PICK h : IsLevels(h, fo, f) /\ Below(fo, f) = h[NFolders] \ {f}
  BY Levels
<1> DEFINE Right(n) == \A g \in h[n] : g = f \/ (g \in Folders /\ fo[g].there)
           Bad == {n \in 0 .. NFolders : ~Right(n)}
<1>2. NFolders \in Nat
  BY SharingAssumption
<1> HIDE DEF Right
<1>3. Bad \in SUBSET Nat /\ (Bad = {} => Right(NFolders))
  BY <1>2
<1>4. ASSUME Bad # {} PROVE FALSE
  <2>1. PICK n \in Bad : \A k \in Bad : n <= k
    BY <1>3, <1>4, LeastNat, Zenon
  <2>2. n \in 0 .. NFolders /\ ~Right(n)
    OBVIOUS
  <2>3. CASE n = 0
    BY <1>1, <2>2, <2>3 DEF Right, IsLevels
  <2>4. CASE n # 0
    <3>1. n \in 1 .. NFolders /\ n - 1 \in 0 .. NFolders /\ ~ (n <= n - 1)
      BY <1>2, <2>2, <2>4
    <3>2. Right(n - 1)
      BY <2>1, <3>1
    <3> QED BY <1>1, <2>2, <3>1, <3>2 DEF Right, IsLevels, NextLevel
  <2> QED BY <2>3, <2>4
<1> QED BY <1>1, <1>3, <1>4 DEF Right

LEMMA BelowMostly ==
    ASSUME NEW fo, NEW ho, NEW f \in Folders, NEW G \in SUBSET Folders, f \notin G,
           \A g \in Folders \ G : /\ ho[g].up = fo[g].up /\ ho[g].owner = fo[g].owner
                                  /\ fo[g].there /\ fo[g].up \notin G
    PROVE  Below(ho, f) \subseteq Below(fo, f) \cup G
<1>1. PICK h : IsLevels(h, fo, f) /\ Below(fo, f) = h[NFolders] \ {f}
  BY Levels
<1>2. PICK k : IsLevels(k, ho, f) /\ Below(ho, f) = k[NFolders] \ {f}
  BY Levels
<1> DEFINE Right(n) == k[n] \subseteq h[n] \cup G
           Bad == {n \in 0 .. NFolders : ~Right(n)}
<1>3. NFolders \in Nat
  BY SharingAssumption
<1> HIDE DEF Right
<1>4. Bad \in SUBSET Nat /\ (Bad = {} => Right(NFolders))
  BY <1>3
<1>5. ASSUME Bad # {} PROVE FALSE
  <2>1. PICK n \in Bad : \A m \in Bad : n <= m
    BY <1>4, <1>5, LeastNat, Zenon
  <2>2. n \in 0 .. NFolders /\ ~Right(n)
    OBVIOUS
  <2>3. CASE n = 0
    BY <1>1, <1>2, <2>2, <2>3 DEF Right, IsLevels
  <2>4. CASE n # 0
    <3>1. n \in 1 .. NFolders /\ n - 1 \in 0 .. NFolders /\ ~ (n <= n - 1)
      BY <1>3, <2>2, <2>4
    <3>2. k[n - 1] \subseteq h[n - 1] \cup G
      BY <2>1, <3>1 DEF Right
    <3>3. /\ k[n] = k[n - 1] \cup NextLevel(ho, f, k[n - 1])
          /\ h[n] = h[n - 1] \cup NextLevel(fo, f, h[n - 1])
      BY <1>1, <1>2, <3>1 DEF IsLevels
    <3>4. NextLevel(ho, f, k[n - 1]) \subseteq NextLevel(fo, f, h[n - 1]) \cup G
      BY <3>2 DEF NextLevel
    <3>5. Right(n)
      BY <3>2, <3>3, <3>4 DEF Right
    <3> QED BY <2>2, <3>5
  <2> QED BY <2>3, <2>4
<1> QED BY <1>1, <1>2, <1>4, <1>5 DEF Right


-----------------------------------------------------------------------------
(* What an action does to the tables, row by row *)

LEMMA Nested ==
    ASSUME NEW A, NEW B, NEW C, NEW t \in [A -> [B -> C]],
           NEW a \in A, NEW b \in B, NEW c \in C
    PROVE  /\ [t EXCEPT ![a][b] = c] \in [A -> [B -> C]]
           /\ \A x \in A, y \in B :
                 [t EXCEPT ![a][b] = c][x][y] = IF x = a /\ y = b THEN c ELSE t[x][y]
OBVIOUS

LEMMA Typed ==
    ASSUME TypeOK
    PROVE  /\ \A f \in Folders : folder[f] \in FolderSet
           /\ \A f \in Folders, u \in Users : grant[f][u] \in Seq(BOOLEAN)
           /\ \A d \in Docs : doc[d] \in DocSet
           /\ \A d \in Docs, u \in Users : key[d][u] \in Seq(KeySet)
           /\ \A o \in Ops : op[o] \in OpSet
BY DEF TypeOK

\* The rows of the folder and the user, and whether it was the folder itself
Rows == [Folders -> [Users -> Seq(BOOLEAN)]]
Flags == [Folders -> [Users -> BOOLEAN]]
KeyRows == [Docs -> [Users -> Seq(KeySet)]]
Takings == [Docs -> [Users -> BOOLEAN]]

LEMMA WriteGrantEffect ==
    ASSUME TypeOK, Sound, NEW o \in Ops, WriteGrant(o)
    PROVE  /\ op[o].folder \in Folders /\ op[o].user \in Users
           /\ grant' \in Rows /\ direct' \in Flags
           /\ \A g \in Folders, w \in Users :
                 IF g = op[o].folder /\ w = op[o].user
                 THEN /\ grant'[g][w] = Activated(grant[g][w], op[o].row)
                      /\ Len(grant[g][w]) <= Len(grant'[g][w]) /\ On(grant'[g][w])
                      /\ direct'[g][w]
                 ELSE grant'[g][w] = grant[g][w] /\ direct'[g][w] = direct[g][w]
<1> DEFINE f == op[o].folder
           u == op[o].user
           c == Activated(grant[f][u], op[o].row)
<1>1. op[o] \in OpSet /\ op[o].pc = "write" /\ Staged(op[o], folder, doc)
  BY Typed DEF WriteGrant, Sound
<1>2. f \in Folders /\ u \in Users
  BY <1>1 DEF OpSet, Staged
<1>3. op[o].row \in 0 .. Len(grant[f][u])
  BY <1>1 DEF TypeOK
<1>4. c \in Seq(BOOLEAN) /\ Len(grant[f][u]) <= Len(c) /\ On(c)
  BY <1>2, <1>3, Typed, RowsTyped, Zenon
<1>5. grant' = [grant EXCEPT ![f][u] = c] /\ direct' = [direct EXCEPT ![f][u] = TRUE]
  BY DEF WriteGrant
<1> HIDE DEF c, f, u
<1>6. grant \in Rows /\ direct \in Flags
  BY DEF TypeOK, Rows, Flags
<1>7. /\ grant' \in Rows
      /\ \A x \in Folders, y \in Users : grant'[x][y] = IF x = f /\ y = u THEN c ELSE grant[x][y]
  BY <1>2, <1>4, <1>5, <1>6, Nested DEF Rows
<1>8. /\ direct' \in Flags
      /\ \A x \in Folders, y \in Users :
            direct'[x][y] = IF x = f /\ y = u THEN TRUE ELSE direct[x][y]
  BY <1>2, <1>5, <1>6, Zenon DEF Flags
<1> QED BY <1>2, <1>4, <1>7, <1>8, Zenon DEF c, f, u

Inserted(gu) == grant' = [grant EXCEPT ![gu[1]][gu[2]] = Append(@, TRUE)]

LEMMA InsertRowEffect ==
    ASSUME TypeOK, Sound, NEW o \in Ops, NEW gu \in op[o].subs, Inserted(gu)
    PROVE  /\ gu[1] \in Folders /\ gu[2] \in Users /\ There(gu[1])
           /\ grant' \in Rows
           /\ \A g \in Folders, w \in Users :
                 IF g = gu[1] /\ w = gu[2]
                 THEN Len(grant[g][w]) <= Len(grant'[g][w]) /\ On(grant'[g][w])
                 ELSE grant'[g][w] = grant[g][w]
<1> DEFINE f == gu[1]
           u == gu[2]
           c == Append(grant[f][u], TRUE)
<1>1. op[o] \in OpSet /\ Staged(op[o], folder, doc)
  BY Typed DEF Sound
<1>2. f \in Folders /\ u \in Users /\ There(f)
  BY <1>1 DEF OpSet, Staged, There
<1>3. c \in Seq(BOOLEAN) /\ Len(grant[f][u]) <= Len(c) /\ On(c)
  BY <1>2, Typed, RowsTyped, Zenon
<1>4. grant' = [grant EXCEPT ![f][u] = c]
  BY DEF Inserted
<1> HIDE DEF c, f, u
<1>5. grant \in Rows
  BY DEF TypeOK, Rows
<1> DEFINE s == [grant EXCEPT ![f][u] = c]
<1>6. /\ s \in Rows
      /\ \A x \in Folders, y \in Users : s[x][y] = IF x = f /\ y = u THEN c ELSE grant[x][y]
  BY <1>2, <1>3, <1>5, Nested DEF Rows
<1>7. grant' = s
  BY <1>4
<1> HIDE DEF s
<1>8. \A g \in Folders, w \in Users :
         IF g = f /\ w = u
         THEN Len(grant[g][w]) <= Len(s[g][w]) /\ On(s[g][w])
         ELSE s[g][w] = grant[g][w]
  BY <1>3, <1>6
<1>9. /\ f \in Folders /\ u \in Users /\ There(f) /\ grant' \in Rows
      /\ \A g \in Folders, w \in Users :
            IF g = f /\ w = u
            THEN Len(grant[g][w]) <= Len(grant'[g][w]) /\ On(grant'[g][w])
            ELSE grant'[g][w] = grant[g][w]
  BY <1>2, <1>6, <1>7, <1>8
<1> QED BY <1>9 DEF f, u

LEMMA DeactivateEffect ==
    ASSUME TypeOK, Sound, NEW o \in Ops, Deactivate(o)
    PROVE  /\ op[o].folder \in Folders /\ op[o].user \in Users
           /\ grant' \in Rows /\ direct' \in Flags
           /\ \A g \in Folders, w \in Users :
                 IF g = op[o].folder /\ w = op[o].user
                 THEN /\ grant'[g][w] = Off(grant[g][w]) /\ ~On(grant'[g][w])
                      /\ Len(grant[g][w]) <= Len(grant'[g][w])
                      /\ ~direct'[g][w]
                 ELSE grant'[g][w] = grant[g][w] /\ direct'[g][w] = direct[g][w]
<1> DEFINE f == op[o].folder
           u == op[o].user
           c == Off(grant[f][u])
<1>1. op[o] \in OpSet /\ op[o].pc = "off" /\ Staged(op[o], folder, doc)
  BY Typed DEF Deactivate, Sound
<1>2. f \in Folders /\ u \in Users
  BY <1>1 DEF OpSet, Staged
<1>3. c \in Seq(BOOLEAN) /\ Len(grant[f][u]) <= Len(c) /\ ~On(c)
  BY <1>2, Typed, RowsTyped, Zenon
<1>4. grant' = [grant EXCEPT ![f][u] = c] /\ direct' = [direct EXCEPT ![f][u] = FALSE]
  BY DEF Deactivate
<1> HIDE DEF c, f, u
<1>5. grant \in Rows /\ direct \in Flags
  BY DEF TypeOK, Rows, Flags
<1>6. /\ grant' \in Rows
      /\ \A x \in Folders, y \in Users : grant'[x][y] = IF x = f /\ y = u THEN c ELSE grant[x][y]
  BY <1>2, <1>3, <1>4, <1>5, Nested DEF Rows
<1>7. /\ direct' \in Flags
      /\ \A x \in Folders, y \in Users :
            direct'[x][y] = IF x = f /\ y = u THEN FALSE ELSE direct[x][y]
  BY <1>2, <1>4, <1>5, Zenon DEF Flags
<1>8. \A g \in Folders, w \in Users :
         IF g = f /\ w = u
         THEN /\ grant'[g][w] = Off(grant[g][w]) /\ ~On(grant'[g][w])
              /\ Len(grant[g][w]) <= Len(grant'[g][w])
              /\ ~direct'[g][w]
         ELSE grant'[g][w] = grant[g][w] /\ direct'[g][w] = direct[g][w]
  BY <1>3, <1>6, <1>7, Zenon DEF c
<1> QED BY <1>2, <1>6, <1>7, <1>8 DEF f, u

LEMMA DeactivateBelowEffect ==
    ASSUME TypeOK, Sound, NEW o \in Ops, DeactivateBelow(o)
    PROVE  /\ op[o].folder \in Folders /\ op[o].user \in Users
           /\ grant' \in Rows /\ direct' \in Flags
           /\ \A g \in Folders, w \in Users :
                 IF g \in op[o].below /\ w = op[o].user
                 THEN /\ grant'[g][w] = Off(grant[g][w]) /\ ~On(grant'[g][w])
                      /\ Len(grant[g][w]) <= Len(grant'[g][w])
                      /\ ~direct'[g][w]
                 ELSE grant'[g][w] = grant[g][w] /\ direct'[g][w] = direct[g][w]
<1> DEFINE u == op[o].user
           B == op[o].below
<1>1. op[o] \in OpSet /\ op[o].pc = "suboff" /\ Staged(op[o], folder, doc)
  BY Typed DEF DeactivateBelow, Sound
<1>2. op[o].folder \in Folders /\ u \in Users
  BY <1>1 DEF OpSet, Staged
<1>3. /\ grant' = [f \in Folders |-> IF f \in B THEN [grant[f] EXCEPT ![u] = Off(@)] ELSE grant[f]]
      /\ direct' = [f \in Folders |-> IF f \in B THEN [direct[f] EXCEPT ![u] = FALSE] ELSE direct[f]]
  BY DEF DeactivateBelow
<1> HIDE DEF B, u
<1>4. \A f \in Folders : /\ grant[f] \in [Users -> Seq(BOOLEAN)] /\ direct[f] \in [Users -> BOOLEAN]
                         /\ Off(grant[f][u]) \in Seq(BOOLEAN) /\ ~On(Off(grant[f][u]))
                         /\ Len(grant[f][u]) <= Len(Off(grant[f][u]))
  BY <1>2, Typed, RowsTyped, Zenon DEF TypeOK
<1>5. \A f \in Folders : /\ [grant[f] EXCEPT ![u] = Off(@)] \in [Users -> Seq(BOOLEAN)]
                         /\ [direct[f] EXCEPT ![u] = FALSE] \in [Users -> BOOLEAN]
  BY <1>4, Zenon
<1>6. grant' \in Rows /\ direct' \in Flags
  BY <1>3, <1>4, <1>5 DEF Rows, Flags
<1>7. \A g \in Folders, w \in Users :
         /\ grant'[g][w] = IF g \in B /\ w = u THEN Off(grant[g][w]) ELSE grant[g][w]
         /\ direct'[g][w] = IF g \in B /\ w = u THEN FALSE ELSE direct[g][w]
  BY <1>3, <1>4, Zenon
<1>8. \A g \in Folders, w \in Users :
         IF g \in B /\ w = u
         THEN /\ grant'[g][w] = Off(grant[g][w]) /\ ~On(grant'[g][w])
              /\ Len(grant[g][w]) <= Len(grant'[g][w])
              /\ ~direct'[g][w]
         ELSE grant'[g][w] = grant[g][w] /\ direct'[g][w] = direct[g][w]
  BY <1>4, <1>7, Zenon
<1> QED BY <1>2, <1>6, <1>8 DEF B, u


\* The folders are the same but for their flags
Stand == /\ folder' \in [Folders -> FolderSet]
         /\ \A g \in Folders : /\ folder'[g].up = folder[g].up /\ folder'[g].owner = folder[g].owner
                               /\ folder'[g].there = folder[g].there

LEMMA FlagsEffect ==
    ASSUME TypeOK, Sound, NEW o \in Ops
    PROVE  /\ SetFlag(o) => /\ Stand /\ op[o].folder \in Folders
                            /\ \A g \in Folders : folder[g].shared => folder'[g].shared
                            /\ folder'[op[o].folder].shared
           /\ FlagSubfolders(o) => /\ Stand
                                   /\ \A g \in Folders : folder[g].shared => folder'[g].shared
           /\ ClearFlag(o) =>
                 /\ Stand /\ op[o].folder \in Folders
                 /\ lost' \in [Folders -> BOOLEAN]
                 /\ \A g \in Folders : lost[g] => lost'[g]
                 /\ \A g \in Folders \ {op[o].folder} : folder[g].shared => folder'[g].shared
                 /\ (\E u \in Users : On(grant[op[o].folder][u])) => lost'[op[o].folder]
<1>1. op[o] \in OpSet /\ Staged(op[o], folder, doc) /\ folder \in [Folders -> FolderSet]
  BY Typed DEF Sound, TypeOK
<1>2. \A g \in Folders, b \in BOOLEAN :
         /\ [folder[g] EXCEPT !.shared = b] \in FolderSet
         /\ [folder[g] EXCEPT !.shared = b].up = folder[g].up
         /\ [folder[g] EXCEPT !.shared = b].owner = folder[g].owner
         /\ [folder[g] EXCEPT !.shared = b].there = folder[g].there
         /\ [folder[g] EXCEPT !.shared = b].shared = b
  BY <1>1 DEF FolderSet
<1>3. ASSUME SetFlag(o)
      PROVE  /\ Stand /\ op[o].folder \in Folders
             /\ \A g \in Folders : folder[g].shared => folder'[g].shared
             /\ folder'[op[o].folder].shared
  <2>1. op[o].folder \in Folders
    BY <1>1, <1>3 DEF SetFlag, Staged
  <2>2. \A g \in Folders : folder'[g] = IF g = op[o].folder THEN [folder[g] EXCEPT !.shared = TRUE]
                                        ELSE folder[g]
    BY <1>1, <1>3, <2>1, Zenon DEF SetFlag
  <2>3. folder' \in [Folders -> FolderSet]
    <3>1. folder' = [g \in Folders |-> folder'[g]]
      BY <1>1, <1>3, Zenon DEF SetFlag
    <3> QED BY <1>1, <1>2, <2>2, <3>1, Zenon
  <2> QED BY <1>2, <2>1, <2>2, <2>3, Zenon DEF Stand
<1>4. ASSUME FlagSubfolders(o)
      PROVE  Stand /\ \A g \in Folders : folder[g].shared => folder'[g].shared
  <2>1. \A g \in Folders : folder'[g] = IF g \in op[o].below THEN [folder[g] EXCEPT !.shared = TRUE]
                                        ELSE folder[g]
    BY <1>1, <1>4 DEF FlagSubfolders
  <2>2. folder' \in [Folders -> FolderSet]
    <3>1. folder' = [g \in Folders |-> folder'[g]]
      BY <1>1, <1>4 DEF FlagSubfolders
    <3> QED BY <1>1, <1>2, <2>1, <3>1, Zenon
  <2> QED BY <1>2, <2>1, <2>2, Zenon DEF Stand
<1>5. ASSUME ClearFlag(o)
      PROVE  /\ Stand /\ op[o].folder \in Folders
             /\ lost' \in [Folders -> BOOLEAN]
             /\ \A g \in Folders : lost[g] => lost'[g]
             /\ \A g \in Folders \ {op[o].folder} : folder[g].shared => folder'[g].shared
             /\ (\E u \in Users : On(grant[op[o].folder][u])) => lost'[op[o].folder]
  <2>1. op[o].folder \in Folders
    BY <1>1, <1>5 DEF ClearFlag, Staged
  <2>2. \A g \in Folders : folder'[g] = IF g = op[o].folder THEN [folder[g] EXCEPT !.shared = FALSE]
                                        ELSE folder[g]
    BY <1>1, <1>5, <2>1, Zenon DEF ClearFlag
  <2>3. folder' \in [Folders -> FolderSet]
    <3>1. folder' = [g \in Folders |-> folder'[g]]
      BY <1>1, <1>5, Zenon DEF ClearFlag
    <3> QED BY <1>1, <1>2, <2>2, <3>1, Zenon
  <2> DEFINE b == SharedUsers(op[o].folder) # {}
  <2>4. lost \in [Folders -> BOOLEAN] /\ b \in BOOLEAN
    BY DEF TypeOK
  <2>5. lost' = [lost EXCEPT ![op[o].folder] = lost[op[o].folder] \/ b]
    BY <1>5 DEF ClearFlag
  <2>6. (\E u \in Users : On(grant[op[o].folder][u])) => b
    BY Zenon DEF SharedUsers, Granted, On
  <2> HIDE DEF b
  <2>7. /\ lost' \in [Folders -> BOOLEAN] /\ \A g \in Folders : lost[g] => lost'[g]
        /\ b => lost'[op[o].folder]
    BY <2>1, <2>4, <2>5, Zenon
  <2> QED BY <1>2, <2>1, <2>2, <2>3, <2>6, <2>7, Zenon DEF Stand
<1> QED BY <1>3, <1>4, <1>5

LEMMA CreateFolderEffect ==
    ASSUME TypeOK, Sound, NEW f \in Folders,
           folder' = [folder EXCEPT ![f].there = TRUE, ![f].shared = TRUE]
    PROVE  /\ folder' \in [Folders -> FolderSet]
           /\ \A g \in Folders : /\ folder'[g].up = folder[g].up
                                 /\ folder'[g].owner = folder[g].owner
                                 /\ folder[g].shared => folder'[g].shared
                                 /\ folder'[g].there <=> folder[g].there \/ g = f
<1>1. folder \in [Folders -> FolderSet]
  BY DEF TypeOK
<1>2. folder' = [folder EXCEPT ![f] = [folder[f] EXCEPT !.there = TRUE, !.shared = TRUE]]
  BY Zenon
<1> DEFINE e == [folder[f] EXCEPT !.there = TRUE, !.shared = TRUE]
<1>3. /\ e \in FolderSet /\ e.up = folder[f].up /\ e.owner = folder[f].owner
      /\ e.there = TRUE /\ e.shared = TRUE
  BY <1>1, Zenon DEF FolderSet
<1> HIDE DEF e
<1>4. folder' = [folder EXCEPT ![f] = e]
  BY <1>2, Zenon DEF e
<1>5. \A g \in Folders : folder'[g] = IF g = f THEN e ELSE folder[g]
  BY <1>1, <1>4, Zenon
<1>6. folder' \in [Folders -> FolderSet]
  BY <1>1, <1>3, <1>4, Zenon
<1>7. \A g \in Folders : folder[g] \in FolderSet
  BY <1>1
<1> QED BY <1>3, <1>5, <1>6, <1>7 DEF FolderSet

LEMMA StartUploadEffect ==
    ASSUME TypeOK, Sound, NEW d \in Docs, NEW u \in Users, NEW f \in 0 .. NFolders,
           NEW good \in BOOLEAN, doc[d].st = "new",
           doc' = [doc EXCEPT ![d] = [st |-> "open", owner |-> u, folder |-> f]],
           key' = [key EXCEPT ![d][u] = <<[good |-> good, active |-> TRUE]>>]
    PROVE  /\ doc' \in [Docs -> DocSet] /\ key' \in KeyRows
           /\ \A e \in Docs :
                 IF e = d THEN doc'[e].st = "open" /\ doc'[e].owner = u /\ doc'[e].folder = f
                 ELSE doc'[e] = doc[e]
           /\ \A e \in Docs, w \in Users :
                 IF e = d
                 THEN IF w = u THEN key'[e][w] # << >> ELSE key'[e][w] = << >>
                 ELSE key'[e][w] = key[e][w]
           /\ \A e \in Docs, w \in Users : Len(key[e][w]) <= Len(key'[e][w])
<1> DEFINE r == [st |-> "open", owner |-> u, folder |-> f]
           k == <<[good |-> good, active |-> TRUE]>>
<1>1. r \in DocSet /\ r.st = "open" /\ r.owner = u /\ r.folder = f
  BY DEF DocSet
<1>2. k \in Seq(KeySet) /\ k # << >>
  BY EmptySeq, KeysTyped, Zenon
<1>3. doc' = [doc EXCEPT ![d] = r] /\ key' = [key EXCEPT ![d][u] = k]
  OBVIOUS
<1> HIDE DEF r, k
<1>4. doc \in [Docs -> DocSet] /\ key \in KeyRows
  BY DEF TypeOK, KeyRows
<1>5. doc' \in [Docs -> DocSet] /\ \A e \in Docs : doc'[e] = IF e = d THEN r ELSE doc[e]
  BY <1>1, <1>3, <1>4
<1> DEFINE s == [key EXCEPT ![d][u] = k]
<1>a. /\ s \in KeyRows
      /\ \A e \in Docs, w \in Users : s[e][w] = IF e = d /\ w = u THEN k ELSE key[e][w]
  BY <1>2, <1>4, Nested DEF KeyRows
<1>b. key' = s
  BY <1>3, Zenon
<1> HIDE DEF s
<1>6. /\ key' \in KeyRows
      /\ \A e \in Docs, w \in Users : key'[e][w] = IF e = d /\ w = u THEN k ELSE key[e][w]
  BY <1>a, <1>b, Zenon
<1>7. \A w \in Users : key[d][w] = << >>
  BY DEF Sound
<1>8. /\ \A e \in Docs, w \in Users : Len(key[e][w]) \in Nat
      /\ Len(<< >>) = 0 /\ Len(k) \in Nat
  BY <1>2, Typed, LenProperties
<1>9. \A e \in Docs, w \in Users : Len(key[e][w]) <= Len(key'[e][w])
  BY <1>6, <1>7, <1>8
<1> QED BY <1>1, <1>2, <1>5, <1>6, <1>7, <1>9

LEMMA StoreFileEffect ==
    ASSUME TypeOK, Sound, NEW o \in Ops, StoreFile(o)
    PROVE  /\ doc' \in [Docs -> DocSet] /\ op[o].doc \in Docs /\ doc[op[o].doc].st # "new"
           /\ \A e \in Docs : /\ doc'[e].owner = doc[e].owner /\ doc'[e].folder = doc[e].folder
                              /\ doc'[e].st = "new" <=> doc[e].st = "new"
<1>1. op[o] \in OpSet /\ op[o].pc = "stream" /\ Staged(op[o], folder, doc)
  BY Typed DEF Sound, StoreFile
<1>2. op[o].doc \in Docs /\ doc[op[o].doc].st # "new"
  BY <1>1 DEF OpSet, Staged
<1> DEFINE d == op[o].doc
           r == [doc[d] EXCEPT !.st = "done"]
<1>3. r \in DocSet /\ r.st = "done" /\ r.owner = doc[d].owner /\ r.folder = doc[d].folder
  BY <1>2, Typed DEF DocSet
<1>4. doc' = [doc EXCEPT ![d] = r]
  BY DEF StoreFile
<1> HIDE DEF r
<1>5. doc' \in [Docs -> DocSet] /\ \A e \in Docs : doc'[e] = IF e = d THEN r ELSE doc[e]
  BY <1>2, <1>3, <1>4 DEF TypeOK
<1> QED BY <1>2, <1>3, <1>5

LEMMA MoveDocumentEffect ==
    ASSUME TypeOK, NEW d \in Docs, NEW f \in 0 .. NFolders,
           doc' = [doc EXCEPT ![d].folder = f]
    PROVE  /\ doc' \in [Docs -> DocSet]
           /\ \A e \in Docs : /\ doc'[e].owner = doc[e].owner /\ doc'[e].st = doc[e].st
                              /\ doc'[e].folder = IF e = d THEN f ELSE doc[e].folder
<1> DEFINE r == [doc[d] EXCEPT !.folder = f]
<1>1. r \in DocSet /\ r.st = doc[d].st /\ r.owner = doc[d].owner /\ r.folder = f
  BY Typed DEF DocSet
<1>2. doc' = [doc EXCEPT ![d] = r]
  OBVIOUS
<1> HIDE DEF r
<1>3. doc' \in [Docs -> DocSet] /\ \A e \in Docs : doc'[e] = IF e = d THEN r ELSE doc[e]
  BY <1>1, <1>2, Zenon DEF TypeOK
<1> QED BY <1>1, <1>3

LEMMA CopyKeyEffect ==
    ASSUME TypeOK, Sound, NEW o \in Ops, CopyKey(o)
    PROVE  /\ op[o].doc \in Docs /\ op[o].user \in Users
           /\ <<op[o].doc, op[o].user>> \in op[o].pairs
           /\ doc[op[o].doc].st # "new" /\ op[o].user # doc[op[o].doc].owner
           /\ key' \in KeyRows
           /\ \A e \in Docs, w \in Users :
                 /\ Len(key[e][w]) <= Len(key'[e][w])
                 /\ IF e = op[o].doc /\ w = op[o].user THEN Active(key'[e][w])
                    ELSE key'[e][w] = key[e][w]
<1> DEFINE d == op[o].doc
           u == op[o].user
           c == Copied(key[d][u], op[o].row, op[o].good)
<1>1. op[o] \in OpSet /\ op[o].pc = "key" /\ Staged(op[o], folder, doc)
  BY Typed, Zenon DEF CopyKey, Sound
<1>2. d \in Docs /\ u \in Users /\ op[o].good \in BOOLEAN
  BY <1>1 DEF OpSet
<1>3. <<d, u>> \in op[o].pairs
  BY <1>1 DEF Staged
<1>4. doc[d].st # "new" /\ u # doc[d].owner
  BY <1>1, <1>3 DEF Staged
<1>5. op[o].row \in 0 .. Len(key[d][u])
  BY <1>1 DEF TypeOK
<1>6. c \in Seq(KeySet) /\ Len(key[d][u]) <= Len(c) /\ Active(c)
  BY <1>2, <1>5, Typed, KeysTyped, Zenon
<1>7. key' = [key EXCEPT ![d][u] = c]
  BY Zenon DEF CopyKey, Copied
<1> DEFINE s == [key EXCEPT ![d][u] = c]
<1> HIDE DEF d, u, c
<1>8. key \in KeyRows
  BY DEF TypeOK, KeyRows
<1>9. /\ s \in KeyRows
      /\ \A e \in Docs, w \in Users : s[e][w] = IF e = d /\ w = u THEN c ELSE key[e][w]
  BY <1>2, <1>6, <1>8, Nested DEF KeyRows
<1>10. \A e \in Docs, w \in Users : Len(key[e][w]) <= Len(key[e][w])
  BY Typed, KeysTyped
<1>11. key' = s
  BY <1>7
<1> HIDE DEF s
<1>12. /\ key' \in KeyRows
       /\ \A e \in Docs, w \in Users : /\ Len(key[e][w]) <= Len(key'[e][w])
                                       /\ IF e = d /\ w = u THEN Active(key'[e][w])
                                          ELSE key'[e][w] = key[e][w]
  BY <1>6, <1>9, <1>10, <1>11
<1> QED BY <1>2, <1>3, <1>4, <1>12 DEF d, u

LEMMA DeactivateKeysEffect ==
    ASSUME TypeOK, NEW o \in Ops, DeactivateKeys(o)
    PROVE  /\ op[o].user \in Users /\ key' \in KeyRows
           /\ \A e \in Docs, w \in Users :
                 /\ Len(key[e][w]) <= Len(key'[e][w])
                 /\ key[e][w] = << >> => key'[e][w] = << >>
                 /\ IF e \in op[o].held /\ w = op[o].user THEN ~Active(key'[e][w])
                    ELSE key'[e][w] = key[e][w]
<1> DEFINE u == op[o].user
           H == op[o].held
<1>1. u \in Users
  BY Typed DEF OpSet
<1>2. key' = [d \in Docs |-> IF d \in H THEN [key[d] EXCEPT ![u] = KeysOff(@)] ELSE key[d]]
  BY DEF DeactivateKeys
<1> HIDE DEF u, H
<1>4. \A d \in Docs : key'[d] = IF d \in H THEN [key[d] EXCEPT ![u] = KeysOff(key[d][u])]
                                 ELSE key[d]
  BY <1>2
<1>5. \A d \in Docs : /\ KeysOff(key[d][u]) \in Seq(KeySet) /\ ~Active(KeysOff(key[d][u]))
                      /\ Len(key[d][u]) <= Len(KeysOff(key[d][u]))
                      /\ key[d][u] = << >> => KeysOff(key[d][u]) = << >>
                      /\ key[d] \in [Users -> Seq(KeySet)]
  BY <1>1, Typed, KeysTyped, Zenon DEF TypeOK
<1>6. \A d \in Docs : /\ key'[d] \in [Users -> Seq(KeySet)]
                      /\ \A w \in Users : key'[d][w] = IF d \in H /\ w = u THEN KeysOff(key[d][u])
                                                        ELSE key[d][w]
  <2> TAKE d \in Docs
  <2> DEFINE t == key[d]
             c == KeysOff(key[d][u])
  <2>1. t \in [Users -> Seq(KeySet)] /\ c \in Seq(KeySet)
    BY <1>5
  <2>2. key'[d] = IF d \in H THEN [t EXCEPT ![u] = c] ELSE t
    BY <1>4
  <2> HIDE DEF t, c
  <2>3. /\ key'[d] \in [Users -> Seq(KeySet)]
        /\ \A w \in Users : key'[d][w] = IF d \in H /\ w = u THEN c ELSE t[w]
    BY <1>1, <2>1, <2>2
  <2> QED BY <2>3 DEF t, c
<1>7. key' \in KeyRows
  <2>1. key' = [d \in Docs |-> key'[d]]
    BY <1>2
  <2> QED BY <1>6, <2>1 DEF KeyRows
<1>8. \A e \in Docs, w \in Users : Len(key[e][w]) <= Len(key[e][w])
  BY Typed, KeysTyped
<1>9. \A e \in Docs, w \in Users :
         key'[e][w] = IF e \in H /\ w = u THEN KeysOff(key[e][u]) ELSE key[e][w]
  BY <1>6
<1>10. \A e \in Docs, w \in Users :
          /\ Len(key[e][w]) <= Len(key'[e][w])
          /\ key[e][w] = << >> => key'[e][w] = << >>
          /\ IF e \in H /\ w = u THEN ~Active(key'[e][w]) ELSE key'[e][w] = key[e][w]
  <2> TAKE e \in Docs, w \in Users
  <2>1. CASE e \in H /\ w = u
    BY <1>5, <1>9, <2>1
  <2>2. CASE ~(e \in H /\ w = u)
    BY <1>8, <1>9, <2>2
  <2> QED BY <2>1, <2>2
<1> QED BY <1>1, <1>7, <1>10 DEF u, H

\* What TakeDocument does
Withdrawn(d, u) ==
    /\ doc[d].st # "new" /\ u # doc[d].owner
    /\ key' = [key EXCEPT ![d][u] = KeysOff(@)]
    /\ taken' = [taken EXCEPT ![d][u] = TRUE]

LEMMA TakeDocumentEffect ==
    ASSUME TypeOK, NEW d \in Docs, NEW u \in Users, Withdrawn(d, u)
    PROVE  /\ key' \in KeyRows /\ taken' \in Takings
           /\ \A e \in Docs, w \in Users :
                 /\ Len(key[e][w]) <= Len(key'[e][w])
                 /\ key[e][w] = << >> => key'[e][w] = << >>
                 /\ IF e = d /\ w = u THEN ~Active(key'[e][w]) /\ taken'[e][w]
                    ELSE key'[e][w] = key[e][w] /\ taken'[e][w] = taken[e][w]
<1> DEFINE c == KeysOff(key[d][u])
           s == [key EXCEPT ![d][u] = c]
           t == [taken EXCEPT ![d][u] = TRUE]
<1>1. /\ c \in Seq(KeySet) /\ ~Active(c) /\ Len(key[d][u]) <= Len(c)
      /\ key[d][u] = << >> => c = << >>
  BY Typed, KeysTyped, Zenon
<1>2. key' = s /\ taken' = t
  BY DEF Withdrawn
<1> HIDE DEF c
<1>3. key \in KeyRows /\ taken \in Takings
  BY DEF TypeOK, KeyRows, Takings
<1>4. /\ s \in KeyRows
      /\ \A e \in Docs, w \in Users : s[e][w] = IF e = d /\ w = u THEN c ELSE key[e][w]
  BY <1>1, <1>3, Nested DEF KeyRows
<1>5. /\ t \in Takings
      /\ \A e \in Docs, w \in Users : t[e][w] = IF e = d /\ w = u THEN TRUE ELSE taken[e][w]
  BY <1>3, Zenon DEF Takings
<1> HIDE DEF s, t
<1>6. \A e \in Docs, w \in Users : Len(key[e][w]) <= Len(key[e][w])
  BY Typed, KeysTyped
<1>7. ASSUME NEW e \in Docs, NEW w \in Users
      PROVE  /\ Len(key[e][w]) <= Len(s[e][w])
             /\ key[e][w] = << >> => s[e][w] = << >>
             /\ IF e = d /\ w = u THEN ~Active(s[e][w]) /\ t[e][w]
                ELSE s[e][w] = key[e][w] /\ t[e][w] = taken[e][w]
  <2>1. CASE e = d /\ w = u
    BY <1>1, <1>4, <1>5, <2>1, Zenon DEF c
  <2>2. CASE ~(e = d /\ w = u)
    BY <1>4, <1>5, <1>6, <2>2, Zenon
  <2> QED BY <2>1, <2>2
<1> QED BY <1>2, <1>4, <1>5, <1>7, Zenon

LEMMA RecordKeyEffect ==
    ASSUME TypeOK, Sound, NEW d \in Docs, RecordKey(d)
    PROVE  /\ key' \in KeyRows
           /\ \A e \in Docs, w \in Users :
                 /\ Len(key'[e][w]) = Len(key[e][w])
                 /\ Active(key'[e][w]) <=> Active(key[e][w])
<1> DEFINE u == doc[d].owner
           c == Recorded(key[d][u])
<1>1. u \in Users
  BY Typed DEF DocSet
<1>2. c \in Seq(KeySet) /\ Len(c) = Len(key[d][u]) /\ (Active(c) <=> Active(key[d][u]))
  BY <1>1, Typed, KeyRecorded
<1>3. key' = [key EXCEPT ![d][u] = c]
  BY DEF RecordKey, Recorded
<1> DEFINE s == [key EXCEPT ![d][u] = c]
<1> HIDE DEF u, c
<1>4. key \in KeyRows
  BY DEF TypeOK, KeyRows
<1>5. /\ s \in KeyRows
      /\ \A e \in Docs, w \in Users : s[e][w] = IF e = d /\ w = u THEN c ELSE key[e][w]
  BY <1>1, <1>2, <1>4, Nested DEF KeyRows
<1>6. key' = s
  BY <1>3
<1> HIDE DEF s
<1> QED BY <1>2, <1>5, <1>6


-----------------------------------------------------------------------------
(* The tables keep their types, and nothing that is there goes *)

FolderPart == /\ folder' \in [Folders -> FolderSet]
              /\ \A f \in Folders : /\ folder'[f].up = folder[f].up
                                    /\ folder'[f].owner = folder[f].owner
                                    /\ folder[f].there => folder'[f].there
GrantPart == /\ grant' \in Rows
             /\ \A f \in Folders, u \in Users : Len(grant[f][u]) <= Len(grant'[f][u])
DocPart == /\ doc' \in [Docs -> DocSet]
           /\ \A d \in Docs : doc[d].st # "new" => /\ doc'[d].st # "new"
                                                   /\ doc'[d].owner = doc[d].owner
KeyPart == /\ key' \in KeyRows
           /\ \A d \in Docs, u \in Users : Len(key[d][u]) <= Len(key'[d][u])
Persist == FolderPart /\ GrantPart /\ DocPart /\ KeyPart
           /\ direct' \in Flags /\ lost' \in [Folders -> BOOLEAN]

LEMMA Unchanged ==
    ASSUME TypeOK
    PROVE  /\ folder' = folder => FolderPart
           /\ grant' = grant => GrantPart
           /\ doc' = doc => DocPart
           /\ key' = key => KeyPart
           /\ direct' = direct => direct' \in Flags
           /\ lost' = lost => lost' \in [Folders -> BOOLEAN]
           /\ UNCHANGED <<tables, direct, lost>> => Persist
<1>1. /\ \A f \in Folders, u \in Users : Len(grant[f][u]) <= Len(grant[f][u])
      /\ \A d \in Docs, u \in Users : Len(key[d][u]) <= Len(key[d][u])
  BY Typed, RowsTyped, KeysTyped
<1>2. folder' = folder => FolderPart
  BY DEF TypeOK, FolderPart
<1>3. grant' = grant => GrantPart
  BY <1>1 DEF TypeOK, GrantPart, Rows
<1>4. doc' = doc => DocPart
  BY DEF TypeOK, DocPart
<1>5. key' = key => KeyPart
  BY <1>1 DEF TypeOK, KeyPart, KeyRows
<1>6. /\ direct' = direct => direct' \in Flags
      /\ lost' = lost => lost' \in [Folders -> BOOLEAN]
  BY DEF TypeOK, Flags
<1> QED BY <1>2, <1>3, <1>4, <1>5, <1>6 DEF tables, Persist


LEMMA QuietPersist ==
    ASSUME TypeOK, NEW o \in Ops,
           \/ StartShare(o) \/ FindGrant(o) \/ ReadSharedUsers(o) \/ ApplyToExistingDocuments(o)
           \/ ReadKeys(o) \/ EndDocuments(o) \/ FindSubfolders(o) \/ StartRevoke(o) \/ FindTree(o)
           \/ FindHeld(o) \/ ReadRemaining(o) \/ ReadFolder(o) \/ ReadRecipients(o)
           \/ ReadParent(o) \/ StartGive(o) \/ StartMove(o) \/ EndStrays(o) \/ Fail(o)
    PROVE  UNCHANGED <<tables, direct, lost>>
BY Zenon DEF StartShare, FindGrant, ReadSharedUsers, ApplyToExistingDocuments, ReadKeys,
   EndDocuments, FindSubfolders, StartRevoke, FindTree, FindHeld, ReadRemaining, ReadFolder,
   ReadRecipients, ReadParent, StartGive, StartMove, EndStrays, Fail, FailQuery, FailMove,
   FailOriginal, StopRequest

LEMMA TablesPersist ==
    ASSUME TypeOK, Sound, NEW o \in Ops, Share(o) \/ Revoke(o) \/ Inherit(o) \/ Fail(o)
    PROVE  Persist
<1>1. ASSUME WriteGrant(o) PROVE Persist
  <2>1. folder' = folder /\ doc' = doc /\ key' = key /\ lost' = lost
    BY <1>1 DEF WriteGrant
  <2>2. GrantPart /\ direct' \in Flags
    <3>1. /\ \A g \in Folders, w \in Users : Len(grant[g][w]) <= Len(grant[g][w])
          /\ grant' \in Rows /\ direct' \in Flags
      BY <1>1, Typed, RowsTyped, WriteGrantEffect
    <3>2. \A g \in Folders, w \in Users :
             grant'[g][w] = grant[g][w] \/ Len(grant[g][w]) <= Len(grant'[g][w])
      BY <1>1, WriteGrantEffect
    <3> QED BY <3>1, <3>2 DEF GrantPart
  <2> QED BY <2>1, <2>2, Unchanged DEF Persist
<1>2. ASSUME InsertRow(o) PROVE Persist
  <2>1. folder' = folder /\ doc' = doc /\ key' = key /\ lost' = lost /\ direct' = direct
    BY <1>2 DEF InsertRow
  <2>2. PICK gu \in op[o].subs : Inserted(gu)
    BY <1>2, Zenon DEF InsertRow, Inserted
  <2>3. GrantPart
    <3>1. /\ \A g \in Folders, w \in Users : Len(grant[g][w]) <= Len(grant[g][w])
          /\ grant' \in Rows
      BY <2>2, Typed, RowsTyped, InsertRowEffect
    <3>2. \A g \in Folders, w \in Users :
             grant'[g][w] = grant[g][w] \/ Len(grant[g][w]) <= Len(grant'[g][w])
      BY <2>2, InsertRowEffect
    <3> QED BY <3>1, <3>2 DEF GrantPart
  <2> QED BY <2>1, <2>3, Unchanged DEF Persist
<1>3. ASSUME Deactivate(o) PROVE Persist
  <2>1. folder' = folder /\ doc' = doc /\ key' = key /\ lost' = lost
    BY <1>3 DEF Deactivate
  <2>2. GrantPart /\ direct' \in Flags
    <3>1. /\ \A g \in Folders, w \in Users : Len(grant[g][w]) <= Len(grant[g][w])
          /\ grant' \in Rows /\ direct' \in Flags
      BY <1>3, Typed, RowsTyped, DeactivateEffect
    <3>2. \A g \in Folders, w \in Users :
             grant'[g][w] = grant[g][w] \/ Len(grant[g][w]) <= Len(grant'[g][w])
      BY <1>3, DeactivateEffect
    <3> QED BY <3>1, <3>2 DEF GrantPart
  <2> QED BY <2>1, <2>2, Unchanged DEF Persist
<1>4. ASSUME DeactivateBelow(o) PROVE Persist
  <2>1. folder' = folder /\ doc' = doc /\ key' = key /\ lost' = lost
    BY <1>4 DEF DeactivateBelow
  <2>2. GrantPart /\ direct' \in Flags
    <3>1. /\ \A g \in Folders, w \in Users : Len(grant[g][w]) <= Len(grant[g][w])
          /\ grant' \in Rows /\ direct' \in Flags
      BY <1>4, Typed, RowsTyped, DeactivateBelowEffect
    <3>2. \A g \in Folders, w \in Users :
             grant'[g][w] = grant[g][w] \/ Len(grant[g][w]) <= Len(grant'[g][w])
      BY <1>4, DeactivateBelowEffect
    <3> QED BY <3>1, <3>2 DEF GrantPart
  <2> QED BY <2>1, <2>2, Unchanged DEF Persist
<1>5. ASSUME SetFlag(o) \/ FlagSubfolders(o) PROVE Persist
  <2>1. grant' = grant /\ doc' = doc /\ key' = key /\ lost' = lost /\ direct' = direct
    BY <1>5 DEF SetFlag, FlagSubfolders
  <2>2. FolderPart
    BY <1>5, FlagsEffect DEF FolderPart, Stand
  <2> QED BY <2>1, <2>2, Unchanged DEF Persist
<1>6. ASSUME ClearFlag(o) PROVE Persist
  <2>1. grant' = grant /\ doc' = doc /\ key' = key /\ direct' = direct
    BY <1>6 DEF ClearFlag
  <2>2. FolderPart /\ lost' \in [Folders -> BOOLEAN]
    BY <1>6, FlagsEffect DEF FolderPart, Stand
  <2> QED BY <2>1, <2>2, Unchanged DEF Persist
<1>7. ASSUME CreateFolder(o) PROVE Persist
  <2>1. grant' = grant /\ doc' = doc /\ key' = key /\ lost' = lost /\ direct' = direct
    BY <1>7 DEF CreateFolder
  <2>2. PICK f \in Folders : folder' = [folder EXCEPT ![f].there = TRUE, ![f].shared = TRUE]
    BY <1>7, Zenon DEF CreateFolder
  <2>3. FolderPart
    BY <2>2, CreateFolderEffect, Zenon DEF FolderPart
  <2> QED BY <2>1, <2>3, Unchanged DEF Persist
<1>8. ASSUME StartUpload(o) PROVE Persist
  <2>1. grant' = grant /\ folder' = folder /\ lost' = lost /\ direct' = direct
    BY <1>8 DEF StartUpload
  <2>2. PICK d \in Docs, u \in Users, f \in 0 .. NFolders, good \in BOOLEAN :
           /\ doc[d].st = "new"
           /\ doc' = [doc EXCEPT ![d] = [st |-> "open", owner |-> u, folder |-> f]]
           /\ key' = [key EXCEPT ![d][u] = <<[good |-> good, active |-> TRUE]>>]
    BY <1>8, Constants, Zenon DEF StartUpload
  <2>3. DocPart /\ KeyPart
    BY <2>2, StartUploadEffect, Zenon DEF DocPart, KeyPart
  <2> QED BY <2>1, <2>3, Unchanged DEF Persist
<1>9. ASSUME StoreFile(o) PROVE Persist
  <2>1. grant' = grant /\ folder' = folder /\ key' = key /\ lost' = lost /\ direct' = direct
    BY <1>9 DEF StoreFile
  <2>2. DocPart
    BY <1>9, StoreFileEffect DEF DocPart
  <2> QED BY <2>1, <2>2, Unchanged DEF Persist
<1>10. ASSUME MoveDocument(o) \/ RestoreDocument(o) PROVE Persist
  <2>1. grant' = grant /\ folder' = folder /\ key' = key /\ lost' = lost /\ direct' = direct
    BY <1>10 DEF MoveDocument, RestoreDocument, Put, history
  <2>2. PICK d \in Docs, f \in 0 .. NFolders : doc' = [doc EXCEPT ![d].folder = f]
    <3>1. /\ op[o].doc \in Docs /\ op[o].folder \in 0 .. NFolders /\ op[o].orig \in 0 .. NFolders
      BY Typed DEF OpSet
    <3>2. \/ doc' = [doc EXCEPT ![op[o].doc].folder = op[o].folder]
          \/ doc' = [doc EXCEPT ![op[o].doc].folder = op[o].orig]
      BY <1>10 DEF MoveDocument, RestoreDocument, Put
    <3> QED BY <3>1, <3>2
  <2>3. DocPart
    BY <2>2, MoveDocumentEffect, Zenon DEF DocPart
  <2> QED BY <2>1, <2>3, Unchanged DEF Persist
<1>11. ASSUME CopyKey(o) PROVE Persist
  <2>1. grant' = grant /\ folder' = folder /\ doc' = doc /\ lost' = lost /\ direct' = direct
    BY <1>11, Zenon DEF CopyKey
  <2>2. KeyPart
    BY <1>11, CopyKeyEffect, Zenon DEF KeyPart
  <2> QED BY <2>1, <2>2, Unchanged DEF Persist
<1>12. ASSUME DeactivateKeys(o) PROVE Persist
  <2>1. grant' = grant /\ folder' = folder /\ doc' = doc /\ lost' = lost /\ direct' = direct
    BY <1>12 DEF DeactivateKeys
  <2>2. KeyPart
    BY <1>12, DeactivateKeysEffect DEF KeyPart
  <2> QED BY <2>1, <2>2, Unchanged DEF Persist
<1>13. ASSUME TakeDocument(o) PROVE Persist
  <2>1. grant' = grant /\ folder' = folder /\ doc' = doc /\ lost' = lost /\ direct' = direct
    BY <1>13 DEF TakeDocument
  <2>2. PICK d \in Docs, u \in Users : Withdrawn(d, u)
    BY <1>13, Zenon DEF TakeDocument, Withdrawn
  <2>3. KeyPart
    BY <2>2, TakeDocumentEffect DEF KeyPart
  <2> QED BY <2>1, <2>3, Unchanged DEF Persist
<1> QED BY <1>1, <1>2, <1>3, <1>4, <1>5, <1>6, <1>7, <1>8, <1>9, <1>10, <1>11, <1>12, <1>13,
           QuietPersist, Unchanged DEF Share, Revoke, Inherit

LEMMA RecordPersist ==
    ASSUME TypeOK, Sound, NEW d \in Docs, RecordKey(d)
    PROVE  Persist
<1>1. grant' = grant /\ folder' = folder /\ doc' = doc /\ lost' = lost /\ direct' = direct
  BY DEF RecordKey, history
<1>2. KeyPart
  <2>1. \A e \in Docs, w \in Users : Len(key[e][w]) <= Len(key[e][w])
    BY Typed, KeysTyped
  <2> QED BY <2>1, RecordKeyEffect DEF KeyPart
<1> QED BY <1>1, <1>2, Unchanged DEF Persist


-----------------------------------------------------------------------------
(* What a request becomes, and what the others see of it *)

\* The requests that begin as something
Kinds == {"none", "share", "revoke", "update", "upload", "move", "create", "give", "take"}

LEMMA StartedAt ==
    ASSUME NEW pc \in {"parent", "done"}, NEW kind \in Kinds, NEW f \in 0 .. NFolders
    PROVE  [NoOp EXCEPT !.pc = pc, !.kind = kind, !.folder = f] \in OpSet
BY NoOpTyped, ZenonT(60) DEF OpSet, Kinds

LEMMA StartedWith ==
    ASSUME NEW kind \in Kinds, NEW f \in 0 .. NFolders, NEW U \in SUBSET Users
    PROVE  [NoOp EXCEPT !.pc = "grant", !.kind = kind, !.folder = f, !.todo = U] \in OpSet
BY NoOpTyped, ZenonT(60) DEF OpSet, Kinds

LEMMA StartedFor ==
    ASSUME NEW pc \in {"stream", "inherit", "done"}, NEW kind \in Kinds,
           NEW f \in 0 .. NFolders, NEW d \in Docs
    PROVE  [NoOp EXCEPT !.pc = pc, !.kind = kind, !.doc = d, !.folder = f] \in OpSet
BY NoOpTyped, ZenonT(60) DEF OpSet, Kinds

LEMMA StartedMoving ==
    ASSUME NEW pc \in {"place", "back"}, NEW f \in 0 .. NFolders, NEW g \in 0 .. NFolders,
           NEW d \in Docs
    PROVE  /\ [NoOp EXCEPT !.pc = pc, !.kind = "move", !.doc = d, !.folder = f, !.orig = g] \in OpSet
           /\ [NoOp EXCEPT !.pc = pc, !.kind = "move", !.doc = d] \in OpSet
BY NoOpTyped, ZenonT(60) DEF OpSet

LEMMA StartedTaking == [NoOp EXCEPT !.pc = "done", !.kind = "take"] \in OpSet
BY NoOpTyped, ZenonT(60) DEF OpSet

LEMMA StartedGiving ==
    ASSUME NEW d \in Docs, NEW P \in SUBSET (Docs \X Users)
    PROVE  [NoOp EXCEPT !.pc = "docs", !.kind = "give", !.doc = d, !.pairs = P] \in OpSet
BY NoOpTyped, ZenonT(60) DEF OpSet

\* A request has met another, or has not
Alike(r, q) == r = q \/ r = [q EXCEPT !.met = TRUE]

LEMMA AlikeFields ==
    ASSUME NEW q \in OpSet, NEW r, Alike(r, q)
    PROVE  /\ r \in OpSet /\ r.pc = q.pc /\ r.kind = q.kind /\ r.folder = q.folder
           /\ r.user = q.user /\ r.doc = q.doc /\ r.orig = q.orig /\ r.todo = q.todo /\ r.list = q.list
           /\ r.pairs = q.pairs /\ r.below = q.below /\ r.subs = q.subs /\ r.held = q.held
           /\ r.row = q.row /\ r.failed = q.failed /\ (q.met => r.met)
<1>1. CASE r = q
  BY <1>1
<1>2. CASE r = [q EXCEPT !.met = TRUE]
  <2>1. r.met = TRUE
    BY <1>2 DEF OpSet
  <2>2. r \in OpSet
    BY <1>2, ZenonT(60) DEF OpSet
  <2>3. /\ r.pc = q.pc /\ r.kind = q.kind /\ r.folder = q.folder
        /\ r.user = q.user /\ r.doc = q.doc /\ r.orig = q.orig /\ r.todo = q.todo /\ r.list = q.list
        /\ r.pairs = q.pairs /\ r.below = q.below /\ r.subs = q.subs /\ r.held = q.held
        /\ r.row = q.row /\ r.failed = q.failed
    BY <1>2 DEF OpSet
  <2> QED BY <2>1, <2>2, <2>3
<1> QED BY <1>1, <1>2 DEF Alike

Steps(o) == /\ op' \in [Ops -> OpSet] /\ \A p \in Ops \ {o} : Alike(op'[p], op[p])
            /\ mixed' \in [Users -> BOOLEAN] /\ \A u \in Users : mixed[u] => mixed'[u]
Warned(o, u) ==
    \A p \in Ops \ {o} : Revokes(p) /\ op[p].user = u => op'[p].met /\ mixed'[u]

LEMMA StepFacts ==
    ASSUME TypeOK, NEW o \in Ops, NEW r \in OpSet, NEW U, Step(o, r, U)
    PROVE  /\ Steps(o) /\ op'[o] = r
           /\ \A u \in Users : u \in U => Warned(o, u)
<1>1. op \in [Ops -> OpSet] /\ mixed \in [Users -> BOOLEAN]
  BY DEF TypeOK
<1>2. /\ op' = [p \in Ops |-> op'[p]] /\ op'[o] = r
      /\ \A p \in Ops \ {o} :
            op'[p] = IF Revokes(p) /\ op[p].user \in U THEN [op[p] EXCEPT !.met = TRUE] ELSE op[p]
  BY DEF Step
<1>3. \A p \in Ops \ {o} : Alike(op'[p], op[p])
  BY <1>2 DEF Alike
<1>4. \A p \in Ops \ {o} : op'[p] \in OpSet
  BY <1>1, <1>3, AlikeFields
<1>5. op' \in [Ops -> OpSet]
  BY <1>2, <1>4
<1> DEFINE b(u) == u \in U /\ \E p \in Ops \ {o} : Revokes(p) /\ op[p].user = u
<1>6. mixed' = [u \in Users |-> mixed[u] \/ b(u)]
  BY DEF Step
<1>7. \A u \in Users : b(u) \in BOOLEAN
  OBVIOUS
<1>8. \A u \in Users, p \in Ops \ {o} : u \in U /\ Revokes(p) /\ op[p].user = u => b(u)
  OBVIOUS
<1> HIDE DEF b
<1>9. /\ mixed' \in [Users -> BOOLEAN]
      /\ \A u \in Users : (mixed[u] => mixed'[u]) /\ (b(u) => mixed'[u])
  BY <1>1, <1>6, <1>7, Zenon
<1>10. ASSUME NEW u \in Users, u \in U PROVE Warned(o, u)
  <2>1. ASSUME NEW p \in Ops \ {o}, Revokes(p), op[p].user = u PROVE op'[p].met /\ mixed'[u]
    <3>1. mixed'[u]
      BY <1>8, <1>9, <1>10, <2>1
    <3>2. op'[p] = [op[p] EXCEPT !.met = TRUE] /\ op[p] \in OpSet
      BY <1>1, <1>2, <1>10, <2>1
    <3> QED BY <3>1, <3>2 DEF OpSet
  <2> QED BY <2>1 DEF Warned
<1> QED BY <1>2, <1>3, <1>5, <1>9, <1>10 DEF Steps

LEMMA StagedCarried ==
    ASSUME Persist, NEW q \in OpSet, Staged(q, folder, doc)
    PROVE  Staged(q, folder', doc')
<1>1. /\ q.folder \in 0 .. NFolders /\ q.doc \in Docs
      /\ \A du \in q.pairs : du[1] \in Docs
  BY DEF OpSet
<1>2. q.folder # Root => q.folder \in Folders
  BY <1>1, Constants
<1>3. /\ \A f \in Folders : folder'[f].up = folder[f].up /\ (folder[f].there => folder'[f].there)
      /\ \A d \in Docs : doc[d].st # "new" => doc'[d].st # "new" /\ doc'[d].owner = doc[d].owner
  BY DEF Persist, FolderPart, DocPart
<1>4. \A gu \in q.subs : gu[1] \in Folders
  BY DEF OpSet
<1>5. q.orig # Root => q.orig \in Folders
  BY Constants DEF OpSet
<1> QED BY <1>1, <1>2, <1>3, <1>4, <1>5 DEF Staged

LEMMA StagedAlike ==
    ASSUME NEW q \in OpSet, NEW r, Alike(r, q), NEW fo, NEW do, Staged(q, fo, do)
    PROVE  Staged(r, fo, do)
BY AlikeFields DEF Staged

InRange(q, gr, ke) == /\ q.pc = "write" => q.row \in 0 .. Len(gr[q.folder][q.user])
                      /\ q.pc = "key" => q.row \in 0 .. Len(ke[q.doc][q.user])

Became(o) == /\ Steps(o) /\ Staged(op'[o], folder', doc') /\ InRange(op'[o], grant', key')


LEMMA RowTyped ==
    ASSUME TypeOK, NEW o \in Ops, op[o].pc = "grant", Staged(op[o], folder, doc)
    PROVE  /\ op[o].folder \in Folders /\ op[o].todo \subseteq Users
           /\ \A u \in Users : \A i \in AnyOf(grant[op[o].folder][u]) :
                 i \in Nat /\ i \in 0 .. Len(grant[op[o].folder][u])
<1>1. op[o] \in OpSet /\ op[o].kind \in {"share", "update"} /\ op[o].folder \in Folders
  BY Typed DEF Staged
<1>2. \A u \in Users : /\ AnyOf(grant[op[o].folder][u]) \subseteq 0 .. Len(grant[op[o].folder][u])
                       /\ Len(grant[op[o].folder][u]) \in Nat
  BY <1>1, Typed, RowsTyped, Zenon
<1> QED BY <1>1, <1>2 DEF OpSet

LEMMA SharedTyped == \A f : SharedUsers(f) \in SUBSET Users /\ \A u \in Users :
                        u \in SharedUsers(f) <=> On(grant[f][u])
BY Zenon DEF SharedUsers, Granted, On


LEMMA FindGrantBecomes ==
    ASSUME TypeOK, Sound, NEW o \in Ops, FindGrant(o)
    PROVE  Became(o) /\ op'[o].pc = "write" /\ op'[o].folder = op[o].folder
<1>1. op[o] \in OpSet /\ Staged(op[o], folder, doc) /\ op[o].pc = "grant"
  BY Typed DEF FindGrant, Sound
<1>2. Persist
  BY TablesPersist DEF Share
<1>20. PICK u \in op[o].todo : \E i \in AnyOf(grant[op[o].folder][u]) :
           Go(o, [op[o] EXCEPT !.pc = "write", !.user = u, !.row = i, !.todo = @ \ {u}])
  BY Zenon DEF FindGrant
<1>3. PICK i \in AnyOf(grant[op[o].folder][u]) :
           u \in op[o].todo /\ Go(o, [op[o] EXCEPT !.pc = "write", !.user = u, !.row = i,
             !.todo = @ \ {u}])
  BY <1>20, Zenon DEF FindGrant
<1> DEFINE r == [op[o] EXCEPT !.pc = "write", !.user = u, !.row = i, !.todo = op[o].todo \ {u}]
<1>4. u \in Users /\ op[o].folder \in Folders /\ i \in Nat /\ i \in 0 .. Len(grant[op[o].folder][u])
  BY <1>1, <1>3, RowTyped
<1>5. r \in OpSet
  BY <1>1, <1>3, <1>4, ZenonT(60) DEF OpSet
<1>6. /\ r.pc = "write" /\ r.kind = op[o].kind /\ r.folder = op[o].folder /\ r.user = u
      /\ r.doc = op[o].doc /\ r.orig = op[o].orig /\ r.todo = op[o].todo \ {u} /\ r.list = op[o].list
      /\ r.pairs = op[o].pairs /\ r.below = op[o].below /\ r.subs = op[o].subs
      /\ r.held = op[o].held /\ r.row = i /\ r.good = op[o].good /\ r.failed = op[o].failed
      /\ r.met = op[o].met
  BY <1>1 DEF OpSet
<1>7. Step(o, r, {})
  BY <1>3 DEF FindGrant, Go, At
<1> HIDE DEF r
<1>8. Staged(r, folder, doc)
  BY <1>1, <1>3, <1>4, <1>6 DEF Staged
<1>9. Staged(r, folder', doc')
  BY <1>2, <1>5, <1>8, StagedCarried
<1>10. InRange(r, grant', key')
  <2>1. grant' = grant
    BY DEF FindGrant, tables
  <2> QED BY <1>4, <1>6, <2>1 DEF InRange
<1>11. Steps(o) /\ op'[o] = r
  BY <1>5, <1>7, StepFacts
<1> QED BY <1>1, <1>3, <1>4, <1>6, <1>9, <1>10, <1>11 DEF Became

LEMMA WriteGrantBecomes ==
    ASSUME TypeOK, Sound, NEW o \in Ops, WriteGrant(o)
    PROVE  Became(o) /\ op'[o].pc = "grant" /\ op'[o].folder = op[o].folder /\ Warned(o, op[o].user)
<1>1. op[o] \in OpSet /\ Staged(op[o], folder, doc) /\ op[o].pc = "write"
  BY Typed DEF WriteGrant, Sound
<1>2. Persist
  BY TablesPersist DEF Share
<1> DEFINE r == [op[o] EXCEPT !.pc = "grant", !.row = 0]
<1>4. op[o].user \in Users
  BY <1>1, WriteGrantEffect
<1>5. r \in OpSet
  BY <1>1, <1>4, ZenonT(60) DEF OpSet
<1>6. /\ r.pc = "grant" /\ r.kind = op[o].kind /\ r.folder = op[o].folder
      /\ r.user = op[o].user /\ r.doc = op[o].doc /\ r.orig = op[o].orig /\ r.todo = op[o].todo
      /\ r.list = op[o].list /\ r.pairs = op[o].pairs /\ r.below = op[o].below
      /\ r.subs = op[o].subs /\ r.held = op[o].held /\ r.row = 0 /\ r.good = op[o].good
      /\ r.failed = op[o].failed /\ r.met = op[o].met
  BY <1>1 DEF OpSet
<1>7. Step(o, r, {op[o].user})
  BY DEF WriteGrant, Go, At
<1> HIDE DEF r
<1>8. Staged(r, folder, doc)
  BY <1>1, <1>4, <1>6 DEF Staged
<1>9. Staged(r, folder', doc')
  BY <1>2, <1>5, <1>8, StagedCarried
<1>10. InRange(r, grant', key')
  BY <1>1, <1>6 DEF InRange
<1>11. Steps(o) /\ op'[o] = r /\ \A u \in Users : u \in {op[o].user} => Warned(o, u)
  BY <1>5, <1>7, StepFacts
<1> QED BY <1>1, <1>4, <1>6, <1>9, <1>10, <1>11 DEF Became

LEMMA SetFlagBecomes ==
    ASSUME TypeOK, Sound, NEW o \in Ops, SetFlag(o)
    PROVE  Became(o) /\ op'[o].pc = "list" /\ op'[o].folder = op[o].folder
<1>1. op[o] \in OpSet /\ Staged(op[o], folder, doc) /\ op[o].pc = "grant"
  BY Typed DEF SetFlag, Sound
<1>2. Persist
  BY TablesPersist DEF Share
<1> DEFINE r == [op[o] EXCEPT !.pc = "list"]
<1>5. r \in OpSet
  BY <1>1 DEF OpSet
<1>6. /\ r.pc = "list" /\ r.kind = op[o].kind /\ r.folder = op[o].folder
      /\ r.user = op[o].user /\ r.doc = op[o].doc /\ r.orig = op[o].orig /\ r.todo = op[o].todo
      /\ r.list = op[o].list /\ r.pairs = op[o].pairs /\ r.below = op[o].below
      /\ r.subs = op[o].subs /\ r.held = op[o].held /\ r.row = op[o].row
      /\ r.good = op[o].good /\ r.failed = op[o].failed /\ r.met = op[o].met
  BY <1>1 DEF OpSet
<1>7. Step(o, r, {})
  BY DEF SetFlag, Go, At
<1> HIDE DEF r
<1>8. Staged(r, folder, doc)
  BY <1>1, <1>6 DEF Staged
<1>9. Staged(r, folder', doc')
  BY <1>2, <1>5, <1>8, StagedCarried
<1>10. InRange(r, grant', key')
  BY <1>1, <1>6 DEF InRange
<1>11. Steps(o) /\ op'[o] = r
  BY <1>5, <1>7, StepFacts
<1> QED BY <1>1, <1>6, <1>9, <1>10, <1>11 DEF Became

LEMMA ReadSharedUsersBecomes ==
    ASSUME TypeOK, Sound, NEW o \in Ops, ReadSharedUsers(o)
    PROVE  Became(o) /\ op'[o].pc = "find" /\ op'[o].folder = op[o].folder /\
          op'[o].list = SharedUsers(op[o].folder)
<1>1. op[o] \in OpSet /\ Staged(op[o], folder, doc) /\ op[o].pc = "list"
  BY Typed DEF ReadSharedUsers, Sound
<1>2. Persist
  BY TablesPersist DEF Share
<1> DEFINE r == [op[o] EXCEPT !.pc = "find", !.list = SharedUsers(op[o].folder)]
<1>4. SharedUsers(op[o].folder) \in SUBSET Users
  BY <1>1, SharedTyped
<1>5. r \in OpSet
  BY <1>1, <1>4, ZenonT(60) DEF OpSet
<1>6. /\ r.pc = "find" /\ r.kind = op[o].kind /\ r.folder = op[o].folder
      /\ r.user = op[o].user /\ r.doc = op[o].doc /\ r.orig = op[o].orig /\ r.todo = op[o].todo
      /\ r.list = SharedUsers(op[o].folder) /\ r.pairs = op[o].pairs /\ r.below = op[o].below
      /\ r.subs = op[o].subs /\ r.held = op[o].held /\ r.row = op[o].row
      /\ r.good = op[o].good /\ r.failed = op[o].failed /\ r.met = op[o].met
  BY <1>1 DEF OpSet
<1>7. Step(o, r, {})
  BY DEF ReadSharedUsers, Go, At
<1> HIDE DEF r
<1>8. Staged(r, folder, doc)
  BY <1>1, <1>4, <1>6 DEF Staged
<1>9. Staged(r, folder', doc')
  BY <1>2, <1>5, <1>8, StagedCarried
<1>10. InRange(r, grant', key')
  BY <1>1, <1>6 DEF InRange
<1>11. Steps(o) /\ op'[o] = r
  BY <1>5, <1>7, StepFacts
<1> QED BY <1>1, <1>4, <1>6, <1>9, <1>10, <1>11 DEF Became

LEMMA StepBecomes ==
    ASSUME TypeOK, Persist, NEW o \in Ops, NEW r \in OpSet, NEW U, Step(o, r, U),
           Staged(r, folder, doc), InRange(r, grant', key')
    PROVE  Became(o) /\ op'[o] = r
<1>1. Steps(o) /\ op'[o] = r
  BY StepFacts
<1>2. Staged(r, folder', doc')
  BY StagedCarried
<1> QED BY <1>1, <1>2 DEF Became

LEMMA EndedFacts ==
    ASSUME TypeOK, NEW o \in Ops
    PROVE  /\ Ended(o) \in OpSet /\ Ended(o).pc = "done"
           /\ \A fo, do : Staged(Ended(o), fo, do)
           /\ \A gr, ke : InRange(Ended(o), gr, ke)
<1>1. op[o] \in OpSet
  BY Typed
<1>2. Ended(o) = [NoOp EXCEPT !.pc = "done", !.kind = op[o].kind]
  BY DEF Ended
<1>3. Ended(o) \in OpSet
  BY <1>1, <1>2, NoOpTyped, ZenonT(60) DEF OpSet
<1>4. Ended(o).pc = "done" /\ Ended(o).pairs = {} /\ Ended(o).subs = {} /\ Ended(o).orig = Root
  BY <1>2 DEF NoOp
<1> HIDE DEF Ended
<1>5. \A fo, do : Staged(Ended(o), fo, do)
  BY <1>4 DEF Staged
<1> QED BY <1>3, <1>4, <1>5 DEF InRange

LEMMA GoEnds ==
    ASSUME TypeOK, Persist, NEW o \in Ops, Go(o, Ended(o))
    PROVE  Became(o) /\ op'[o].pc = "done"
<1>1. Ended(o) \in OpSet /\ Ended(o).pc = "done" /\ Staged(Ended(o), folder, doc)
      /\ InRange(Ended(o), grant', key')
  BY EndedFacts
<1>2. Step(o, Ended(o), {})
  BY DEF Go
<1> HIDE DEF Ended
<1> QED BY <1>1, <1>2, StepBecomes

LEMMA SharingWithFacts ==
    ASSUME TypeOK, NEW o \in Ops, NEW f \in Folders, NEW U \in SUBSET Users,
           op[o].kind \in {"share", "update"}, There(f)
    PROVE  LET r == SharingWith(o, f, U) IN
           /\ r \in OpSet /\ r.pc = "grant" /\ r.folder = f
           /\ Staged(r, folder, doc) /\ \A gr, ke : InRange(r, gr, ke)
<1> DEFINE r == SharingWith(o, f, U)
<1>1. op[o] \in OpSet
  BY Typed
<1>2. r = [NoOp EXCEPT !.pc = "grant", !.kind = op[o].kind, !.folder = f, !.todo = U]
  BY DEF SharingWith
<1>3. r \in OpSet
  <2>1. op[o].kind \in Kinds /\ f \in 0 .. NFolders
    BY <1>1, Constants DEF OpSet, Kinds
  <2>2. [NoOp EXCEPT !.pc = "grant", !.kind = op[o].kind, !.folder = f, !.todo = U] \in OpSet
    BY <2>1, StartedWith, Zenon
  <2> QED BY <1>2, <2>2
<1>4. /\ r.pc = "grant" /\ r.kind = op[o].kind /\ r.folder = f /\ r.pairs = {} /\ r.subs = {}
      /\ r.orig = Root
  BY <1>2 DEF NoOp
<1> HIDE DEF r
<1>5. Staged(r, folder, doc)
  BY <1>4 DEF Staged, There
<1>6. \A gr, ke : InRange(r, gr, ke)
  BY <1>4 DEF InRange
<1> QED BY <1>3, <1>4, <1>5, <1>6 DEF r

LEMMA RevokedFacts ==
    ASSUME TypeOK, Sound, Persist, NEW o \in Ops, op[o].pc \in {"remain", "unflag"},
           Go(o, Revoked(o))
    PROVE  Became(o) /\ op'[o].pc \in {"grant", "done"}
<1>1. /\ op[o] \in OpSet /\ Staged(op[o], folder, doc) /\ op[o].user \in Users
      /\ op[o].folder \in Folders /\ There(op[o].folder)
  BY Typed, Zenon DEF Sound, Staged, OpSet, There
<1>2. CASE op[o].kind = "update"
  <2>1. Step(o, SharingWith(o, op[o].folder, {op[o].user}), {})
    BY <1>2 DEF Go, Revoked
  <2> DEFINE r == SharingWith(o, op[o].folder, {op[o].user})
  <2>2. {op[o].user} \in SUBSET Users
    BY <1>1
  <2>3. /\ r \in OpSet /\ r.pc = "grant" /\ Staged(r, folder, doc)
        /\ InRange(r, grant', key')
    BY <1>1, <1>2, <2>2, SharingWithFacts
  <2> HIDE DEF r
  <2>4. Step(o, r, {})
    BY <2>1 DEF r
  <2> QED BY <2>3, <2>4, StepBecomes
<1>3. CASE op[o].kind # "update"
  <2>1. Go(o, Ended(o))
    BY <1>3 DEF Revoked
  <2> QED BY <2>1, GoEnds
<1> QED BY <1>2, <1>3

\* What a share passes on, what a revocation takes
Due(o) == {du \in Held(op[o].folder) \X op[o].list : du[2] # doc[du[1]].owner}
HeldBy(o) == UNION {Held(f) : f \in {op[o].folder} \cup op[o].below}

LEMMA DueFacts ==
    ASSUME TypeOK, NEW o \in Ops
    PROVE  /\ Due(o) \in SUBSET (Docs \X Users)
           /\ \A du \in Due(o) : doc[du[1]].st # "new" /\ du[2] # doc[du[1]].owner
           /\ \A d \in Docs, u \in op[o].list :
                 In(d, op[o].folder) /\ u # doc[d].owner => <<d, u>> \in Due(o)
           /\ HeldBy(o) \in SUBSET Docs
           /\ \A d \in Docs : d \in HeldBy(o) <=>
                 doc[d].st # "new" /\ doc[d].folder \in {op[o].folder} \cup op[o].below
<1>1. op[o].list \subseteq Users
  BY Typed DEF OpSet
<1>2. \A f : \A d : d \in Held(f) <=> d \in Docs /\ doc[d].st # "new" /\ doc[d].folder = f
  BY DEF Held
<1>3. \A d : d \in HeldBy(o) <=> \E f \in {op[o].folder} \cup op[o].below : d \in Held(f)
  BY DEF HeldBy
<1>4. /\ Due(o) \in SUBSET (Docs \X Users)
      /\ \A du \in Due(o) : doc[du[1]].st # "new" /\ du[2] # doc[du[1]].owner
  <2> SUFFICES ASSUME NEW du \in Due(o)
               PROVE  du \in Docs \X Users /\ doc[du[1]].st # "new" /\ du[2] # doc[du[1]].owner
    OBVIOUS
  <2>1. du \in Held(op[o].folder) \X op[o].list /\ du[2] # doc[du[1]].owner
    BY DEF Due
  <2>2. du[1] \in Held(op[o].folder) /\ du[2] \in op[o].list /\ du = <<du[1], du[2]>>
    BY <2>1
  <2> QED BY <1>1, <1>2, <2>1, <2>2
<1>5. ASSUME NEW d \in Docs, NEW u \in op[o].list, In(d, op[o].folder), u # doc[d].owner
      PROVE  <<d, u>> \in Due(o)
  <2>1. <<d, u>> \in Held(op[o].folder) \X op[o].list /\ <<d, u>>[1] = d /\ <<d, u>>[2] = u
    BY <1>2, <1>5 DEF In
  <2> QED BY <1>5, <2>1 DEF Due
<1> QED BY <1>2, <1>3, <1>4, <1>5


LEMMA StartShareBecomes ==
    ASSUME TypeOK, Sound, NEW o \in Ops, StartShare(o)
    PROVE  Became(o) /\ op'[o].pc = "grant"
<1>1. op[o] \in OpSet /\ op[o].kind \in Kinds
  BY Typed DEF OpSet, Kinds
<1>2. Persist
  BY TablesPersist DEF Share
<1>3. PICK f \in Folders, U \in SUBSET Users :
         There(f) /\ Go(o, [SharingWith(o, f, U) EXCEPT !.kind = "share"])
  BY DEF StartShare
<1> DEFINE s == SharingWith(o, f, U)
           r == [s EXCEPT !.kind = "share"]
<1>4. s \in OpSet
  BY <1>1, StartedWith, Constants, Zenon DEF SharingWith
<1>5. s.pc = "grant" /\ s.folder = f /\ s.pairs = {} /\ s.subs = {} /\ s.orig = Root
  BY DEF SharingWith, NoOp
<1>6. Step(o, r, {})
  BY <1>3 DEF Go
<1> HIDE DEF s
<1>7. r \in OpSet
  BY <1>4 DEF OpSet
<1>8. /\ r.pc = "grant" /\ r.kind = "share" /\ r.folder = f /\ r.pairs = {} /\ r.subs = {}
      /\ r.orig = Root
  BY <1>4, <1>5 DEF OpSet
<1> HIDE DEF r
<1>9. Staged(r, folder, doc)
  BY <1>3, <1>8 DEF Staged, There
<1>10. InRange(r, grant', key')
  BY <1>8 DEF InRange
<1>11. Became(o) /\ op'[o] = r
  BY <1>2, <1>6, <1>7, <1>9, <1>10, StepBecomes
<1> QED BY <1>8, <1>11

LEMMA ApplyToExistingDocumentsBecomes ==
    ASSUME TypeOK, Sound, NEW o \in Ops, ApplyToExistingDocuments(o)
    PROVE  Became(o) /\ op'[o].pc = "docs" /\ op'[o].pairs = Due(o)
<1>1. op[o] \in OpSet /\ Staged(op[o], folder, doc) /\ op[o].pc = "find"
  BY Typed DEF ApplyToExistingDocuments, Sound
<1>2. Persist
  BY TablesPersist DEF Share
<1> DEFINE r == [op[o] EXCEPT !.pc = "docs", !.pairs = Due(o)]
<1>4. /\ Due(o) \in SUBSET (Docs \X Users)
      /\ \A du \in Due(o) : doc[du[1]].st # "new" /\ du[2] # doc[du[1]].owner
  BY <1>1, DueFacts
<1>5. r \in OpSet
  BY <1>1, <1>4, ZenonT(60) DEF OpSet
<1>6. /\ r.pc = "docs" /\ r.kind = op[o].kind /\ r.folder = op[o].folder
      /\ r.user = op[o].user /\ r.doc = op[o].doc /\ r.orig = op[o].orig /\ r.todo = op[o].todo
      /\ r.list = op[o].list /\ r.pairs = Due(o) /\ r.below = op[o].below
      /\ r.subs = op[o].subs /\ r.held = op[o].held /\ r.row = op[o].row
      /\ r.good = op[o].good /\ r.failed = op[o].failed /\ r.met = op[o].met
  BY <1>1 DEF OpSet
<1>7. Step(o, r, {})
  BY DEF ApplyToExistingDocuments, Go, At, Due
<1> HIDE DEF r
<1>8. Staged(r, folder, doc)
  BY <1>1, <1>4, <1>6 DEF Staged
<1>9. Staged(r, folder', doc')
  BY <1>2, <1>5, <1>8, StagedCarried
<1>10. InRange(r, grant', key')
  BY <1>1, <1>6 DEF InRange
<1>11. Steps(o) /\ op'[o] = r
  BY <1>5, <1>7, StepFacts
<1> QED BY <1>1, <1>4, <1>6, <1>9, <1>10, <1>11 DEF Became

\* The two outcomes of ReadKeys
Skipped(o, du) == Go(o, [op[o] EXCEPT !.pairs = @ \ {du}, !.failed = TRUE])
Fetched(o, du, i, g) ==
    Go(o, [op[o] EXCEPT !.pc = "key", !.doc = du[1], !.user = du[2], !.row = i, !.good = g])


LEMMA SkippedBecomes ==
    ASSUME TypeOK, Sound, NEW o \in Ops, ReadKeys(o), NEW du \in op[o].pairs, Skipped(o, du)
    PROVE  Became(o) /\ op'[o].pc = "docs" /\ op'[o].pairs = op[o].pairs \ {du}
<1>1. op[o] \in OpSet /\ Staged(op[o], folder, doc) /\ op[o].pc = "docs"
  BY Typed, Zenon DEF ReadKeys, Sound
<1>2. Persist
  BY TablesPersist DEF Share
<1> DEFINE r == [op[o] EXCEPT !.pairs = op[o].pairs \ {du}, !.failed = TRUE]
<1>5. r \in OpSet
  BY <1>1, ZenonT(60) DEF OpSet
<1>6. /\ r.pc = op[o].pc /\ r.kind = op[o].kind /\ r.folder = op[o].folder
      /\ r.user = op[o].user /\ r.doc = op[o].doc /\ r.orig = op[o].orig /\ r.todo = op[o].todo
      /\ r.list = op[o].list /\ r.pairs = op[o].pairs \ {du} /\ r.below = op[o].below
      /\ r.subs = op[o].subs /\ r.held = op[o].held /\ r.row = op[o].row
      /\ r.good = op[o].good /\ r.failed = TRUE /\ r.met = op[o].met
  BY <1>1 DEF OpSet
<1>7. Step(o, r, {})
  BY Zenon DEF ReadKeys, Go, At, Skipped
<1> HIDE DEF r
<1>8. Staged(r, folder, doc)
  BY <1>1, <1>6 DEF Staged
<1>9. Staged(r, folder', doc')
  BY <1>2, <1>5, <1>8, StagedCarried
<1>10. InRange(r, grant', key')
  BY <1>1, <1>6 DEF InRange
<1>11. Steps(o) /\ op'[o] = r
  BY <1>5, <1>7, StepFacts
<1> QED BY <1>1, <1>6, <1>9, <1>10, <1>11 DEF Became

LEMMA FetchedBecomes ==
    ASSUME TypeOK, Sound, NEW o \in Ops, ReadKeys(o), NEW du \in op[o].pairs,
           NEW i \in AnyOf(key[du[1]][du[2]]), NEW g \in BOOLEAN, Fetched(o, du, i, g)
    PROVE  Became(o) /\ op'[o].pc = "key" /\ op'[o].pairs = op[o].pairs
<1>1. op[o] \in OpSet /\ Staged(op[o], folder, doc) /\ op[o].pc = "docs"
  BY Typed, Zenon DEF ReadKeys, Sound
<1>2. Persist
  BY TablesPersist DEF Share
<1> DEFINE r == [op[o] EXCEPT !.pc = "key", !.doc = du[1], !.user = du[2], !.row = i, !.good = g]
<1>20. du[1] \in Docs /\ du[2] \in Users /\ du = <<du[1], du[2]>>
  BY <1>1 DEF OpSet
<1>21. i \in 0 .. Len(key[du[1]][du[2]]) /\ Len(key[du[1]][du[2]]) \in Nat
  BY <1>20, Typed, KeysTyped, Zenon
<1>4. /\ du[1] \in Docs /\ du[2] \in Users /\ du = <<du[1], du[2]>> /\ i \in Nat
      /\ i \in 0 .. Len(key[du[1]][du[2]])
  BY <1>1, <1>20, <1>21
<1>5. r \in OpSet
  BY <1>1, <1>4, ZenonT(60) DEF OpSet
<1>6. /\ r.pc = "key" /\ r.kind = op[o].kind /\ r.folder = op[o].folder /\ r.user = du[2]
      /\ r.doc = du[1] /\ r.orig = op[o].orig /\ r.todo = op[o].todo /\ r.list = op[o].list
      /\ r.pairs = op[o].pairs
      /\ r.below = op[o].below /\ r.subs = op[o].subs /\ r.held = op[o].held /\ r.row = i
      /\ r.good = g /\ r.failed = op[o].failed /\ r.met = op[o].met
  BY <1>1 DEF OpSet
<1>7. Step(o, r, {})
  BY Zenon DEF ReadKeys, Go, At, Fetched
<1> HIDE DEF r
<1>8. Staged(r, folder, doc)
  BY <1>1, <1>4, <1>6 DEF Staged
<1>9. Staged(r, folder', doc')
  BY <1>2, <1>5, <1>8, StagedCarried
<1>10. InRange(r, grant', key')
  <2>1. key' = key
    BY Zenon DEF ReadKeys, tables
  <2> QED BY <1>4, <1>6, <2>1 DEF InRange
<1>11. Steps(o) /\ op'[o] = r
  BY <1>5, <1>7, StepFacts
<1> QED BY <1>1, <1>4, <1>6, <1>9, <1>10, <1>11 DEF Became

LEMMA ReadKeysBecomes ==
    ASSUME TypeOK, Sound, NEW o \in Ops, ReadKeys(o)
    PROVE  /\ Became(o)
           /\ \/ op'[o].pc = "key" /\ op'[o].pairs = op[o].pairs
              \/ /\ op'[o].pc = "docs"
                 /\ \E du \in op[o].pairs : /\ op'[o].pairs = op[o].pairs \ {du}
                                            /\ ~Active(key[du[1]][doc[du[1]].owner])
<1> DEFINE owned(du) == {r \in Range(key[du[1]][doc[du[1]].owner]) : r.active}
<1>1. PICK du \in op[o].pairs :
         IF owned(du) = {} THEN Skipped(o, du)
         ELSE \E r \in owned(du), i \in AnyOf(key[du[1]][du[2]]) : Fetched(o, du, i, r.good)
  BY Zenon DEF ReadKeys, Skipped, Fetched
<1>2. CASE owned(du) = {}
  <2>1. Skipped(o, du)
    BY <1>1, <1>2
  <2>2. ~Active(key[du[1]][doc[du[1]].owner])
    BY <1>2 DEF Active
  <2> QED BY <2>1, <2>2, SkippedBecomes
<1>3. CASE owned(du) # {}
  <2>1. PICK r \in owned(du) : \E i \in AnyOf(key[du[1]][du[2]]) : Fetched(o, du, i, r.good)
    BY <1>1, <1>3
  <2>2. PICK i \in AnyOf(key[du[1]][du[2]]) : Fetched(o, du, i, r.good)
    BY <2>1
  <2>3. r.good \in BOOLEAN
    <3>1. du[1] \in Docs
      BY Typed DEF OpSet
    <3>2. doc[du[1]].owner \in Users
      BY <3>1, Typed DEF DocSet
    <3>3. Range(key[du[1]][doc[du[1]].owner]) \subseteq KeySet
      BY <3>1, <3>2, Typed, KeysTyped
    <3> QED BY <3>3 DEF KeySet
  <2> QED BY <2>2, <2>3, FetchedBecomes
<1> QED BY <1>2, <1>3


LEMMA CopyKeyBecomes ==
    ASSUME TypeOK, Sound, NEW o \in Ops, CopyKey(o)
    PROVE  Became(o) /\ op'[o].pc = "docs" /\
          op'[o].pairs = op[o].pairs \ {<<op[o].doc, op[o].user>>} /\ Warned(o, op[o].user)
<1>1. op[o] \in OpSet /\ Staged(op[o], folder, doc) /\ op[o].pc = "key"
  BY Typed, Zenon DEF CopyKey, Sound
<1>2. Persist
  BY TablesPersist DEF Share
<1> DEFINE r == [op[o] EXCEPT !.pc = "docs", !.pairs = op[o].pairs \ {<<op[o].doc, op[o].user>>},
      !.row = 0]
<1>4. op[o].user \in Users
  BY <1>1, CopyKeyEffect, Zenon
<1>5. r \in OpSet
  BY <1>1, <1>4, ZenonT(60) DEF OpSet
<1>6. /\ r.pc = "docs" /\ r.kind = op[o].kind /\ r.folder = op[o].folder
      /\ r.user = op[o].user /\ r.doc = op[o].doc /\ r.orig = op[o].orig /\ r.todo = op[o].todo
      /\ r.list = op[o].list /\ r.pairs = op[o].pairs \ {<<op[o].doc, op[o].user>>}
      /\ r.below = op[o].below /\ r.subs = op[o].subs /\ r.held = op[o].held /\ r.row = 0
      /\ r.good = op[o].good /\ r.failed = op[o].failed /\ r.met = op[o].met
  BY <1>1 DEF OpSet
<1>7. Step(o, r, {op[o].user})
  BY Zenon DEF CopyKey, Go, At
<1> HIDE DEF r
<1>8. Staged(r, folder, doc)
  BY <1>1, <1>4, <1>6 DEF Staged
<1>9. Staged(r, folder', doc')
  BY <1>2, <1>5, <1>8, StagedCarried
<1>10. InRange(r, grant', key')
  BY <1>1, <1>6 DEF InRange
<1>11. Steps(o) /\ op'[o] = r /\ \A u \in Users : u \in {op[o].user} => Warned(o, u)
  BY <1>5, <1>7, StepFacts
<1> QED BY <1>1, <1>4, <1>6, <1>9, <1>10, <1>11 DEF Became

LEMMA AtFacts ==
    ASSUME TypeOK, NEW o \in Ops,
           NEW pc \in {"list", "below", "tree", "held", "remain", "unflag", "inherit", "shared",
                   "docs", "back"}
    PROVE  LET r == At(o, pc)
               q == op[o] IN
           /\ r \in OpSet /\ r.pc = pc /\ r.kind = q.kind /\ r.folder = q.folder
           /\ r.user = q.user /\ r.doc = q.doc /\ r.orig = q.orig /\ r.todo = q.todo /\ r.list = q.list
           /\ r.pairs = q.pairs /\ r.below = q.below /\ r.subs = q.subs /\ r.held = q.held
           /\ r.row = q.row /\ r.failed = q.failed /\ r.met = q.met
           /\ \A gr, ke : InRange(r, gr, ke)
<1>1. op[o] \in OpSet
  BY Typed
<1> QED BY <1>1 DEF At, OpSet, InRange

LEMMA EndDocumentsBecomes ==
    ASSUME TypeOK, Sound, NEW o \in Ops, EndDocuments(o)
    PROVE  Became(o) /\ op'[o].pc \in {"below", "done"} /\ op[o].pairs = {}
<1>1. op[o] \in OpSet /\ Staged(op[o], folder, doc) /\ op[o].pc = "docs" /\ op[o].pairs = {}
  BY Typed DEF EndDocuments, Sound
<1>2. Persist
  BY TablesPersist DEF Share
<1>3. CASE op[o].kind \in {"share", "update"}
  <2> DEFINE r == At(o, "below")
  <2>1. /\ r \in OpSet /\ r.pc = "below" /\ r.kind = op[o].kind /\ r.folder = op[o].folder
        /\ r.pairs = op[o].pairs /\ r.subs = op[o].subs /\ InRange(r, grant', key')
        /\ r.doc = op[o].doc /\ r.orig = op[o].orig
    BY AtFacts
  <2>2. Step(o, r, {})
    BY <1>3 DEF EndDocuments, Go
  <2> HIDE DEF r
  <2>3. Staged(r, folder, doc)
    BY <1>1, <1>3, <2>1 DEF Staged
  <2>4. Became(o) /\ op'[o] = r
    BY <1>2, <2>1, <2>2, <2>3, StepBecomes
  <2> QED BY <1>1, <2>1, <2>4
<1>4. CASE op[o].kind \notin {"share", "update"}
  <2>1. Go(o, Ended(o))
    BY <1>4 DEF EndDocuments
  <2> QED BY <1>1, <1>2, <2>1, GoEnds
<1> QED BY <1>3, <1>4


\* What FindSubfolders goes on with
Spread(o, S, U) == Go(o, [op[o] EXCEPT !.pc = "subs", !.below = S, !.subs = S \X U])

LEMMA SpreadBecomes ==
    ASSUME TypeOK, Sound, Persist, NEW o \in Ops, op[o].pc \in {"below", "parent"},
           op[o].kind \in {"share", "update"} => There(op[o].folder) /\ op[o].folder \in Folders,
           NEW S \in SUBSET Folders, NEW U \in SUBSET Users, Spread(o, S, U), \A g \in S : There(g)
    PROVE  Became(o) /\ op'[o].pc = "subs"
<1>1. op[o] \in OpSet /\ Staged(op[o], folder, doc)
  BY Typed DEF Sound
<1> DEFINE r == [op[o] EXCEPT !.pc = "subs", !.below = S, !.subs = S \X U]
<1>2. r \in OpSet
  BY <1>1, ZenonT(60) DEF OpSet
<1>3. /\ r.pc = "subs" /\ r.subs = S \X U /\ r.kind = op[o].kind /\ r.folder = op[o].folder
      /\ r.pairs = op[o].pairs /\ r.doc = op[o].doc /\ r.orig = op[o].orig
  BY <1>1 DEF OpSet
<1>4. Step(o, r, {})
  BY DEF Spread, Go
<1> HIDE DEF r
<1>5. \A gu \in r.subs : gu[1] \in S
  BY <1>3
<1>6. Staged(r, folder, doc)
  BY <1>1, <1>3, <1>5 DEF Staged, There
<1>7. InRange(r, grant', key')
  BY <1>3 DEF InRange
<1>8. Became(o) /\ op'[o] = r
  BY <1>2, <1>4, <1>6, <1>7, StepBecomes
<1> QED BY <1>3, <1>8

LEMMA FindSubfoldersBecomes ==
    ASSUME TypeOK, Sound, NEW o \in Ops, FindSubfolders(o)
    PROVE  Became(o) /\ op'[o].pc \in {"subs", "done"}
<1>1. op[o] \in OpSet /\ Staged(op[o], folder, doc) /\ op[o].pc = "below"
  BY Typed DEF FindSubfolders, Sound
<1>2. Persist
  BY TablesPersist DEF Share
<1> DEFINE S == Descendants(op[o].folder)
<1>3. S \subseteq Folders /\ \A g \in S : There(g)
  BY DescendantsBelow, BelowThere DEF There
<1>4. op[o].list \subseteq Users
  BY <1>1 DEF OpSet
<1>5. op[o].kind \in {"share", "update"} => There(op[o].folder) /\ op[o].folder \in Folders
  BY <1>1 DEF Staged, There
<1>6. IF S = {} THEN Go(o, Ended(o)) ELSE Spread(o, S, op[o].list)
  BY DEF FindSubfolders, Spread
<1> HIDE DEF S
<1>7. CASE S = {}
  BY <1>2, <1>6, <1>7, GoEnds
<1>8. CASE S # {}
  BY <1>1, <1>2, <1>3, <1>4, <1>5, <1>6, <1>8, SpreadBecomes
<1> QED BY <1>7, <1>8


LEMMA InsertRowBecomes ==
    ASSUME TypeOK, Sound, NEW o \in Ops, InsertRow(o)
    PROVE  Became(o) /\ op'[o].pc \in {"subs", "strays"} /\ \E gu \in op[o].subs : Inserted(gu) /\
          Warned(o, gu[2])
<1>1. op[o] \in OpSet /\ Staged(op[o], folder, doc) /\ op[o].pc \in {"subs", "strays"}
  BY Typed DEF InsertRow, Sound
<1>2. Persist
  BY TablesPersist DEF Share
<1>3. PICK gu \in op[o].subs : Inserted(gu) /\ Step(o, [op[o] EXCEPT !.subs = @ \ {gu}], {gu[2]})
  BY Zenon DEF InsertRow, Inserted
<1> DEFINE r == [op[o] EXCEPT !.subs = op[o].subs \ {gu}]
<1>4. gu[2] \in Users
  BY <1>1, <1>3, InsertRowEffect
<1>5. r \in OpSet
  BY <1>1, <1>3, <1>4 DEF OpSet
<1>6. /\ r.pc = op[o].pc /\ r.kind = op[o].kind /\ r.folder = op[o].folder
      /\ r.user = op[o].user /\ r.doc = op[o].doc /\ r.orig = op[o].orig /\ r.todo = op[o].todo
      /\ r.list = op[o].list /\ r.pairs = op[o].pairs /\ r.below = op[o].below
      /\ r.subs = op[o].subs \ {gu} /\ r.held = op[o].held /\ r.row = op[o].row
      /\ r.good = op[o].good /\ r.failed = op[o].failed /\ r.met = op[o].met
  BY <1>1 DEF OpSet
<1>7. Step(o, r, {gu[2]})
  BY <1>3 DEF InsertRow, Go, At
<1> HIDE DEF r
<1>8. Staged(r, folder, doc)
  BY <1>1, <1>3, <1>4, <1>6 DEF Staged
<1>9. Staged(r, folder', doc')
  BY <1>2, <1>5, <1>8, StagedCarried
<1>10. InRange(r, grant', key')
  BY <1>1, <1>6 DEF InRange
<1>11. Steps(o) /\ op'[o] = r /\ \A u \in Users : u \in {gu[2]} => Warned(o, u)
  BY <1>5, <1>7, StepFacts
<1> QED BY <1>1, <1>3, <1>4, <1>6, <1>9, <1>10, <1>11 DEF Became

LEMMA FlagSubfoldersBecomes ==
    ASSUME TypeOK, Sound, NEW o \in Ops, FlagSubfolders(o) \/ EndStrays(o)
    PROVE  Became(o) /\ op'[o].pc = "done"
<1>1. Persist
  BY TablesPersist DEF Share
<1>2. Go(o, Ended(o))
  BY DEF FlagSubfolders, EndStrays
<1> QED BY <1>1, <1>2, GoEnds


LEMMA StartRevokeBecomes ==
    ASSUME TypeOK, Sound, NEW o \in Ops, StartRevoke(o)
    PROVE  Became(o) /\ op'[o].pc = "off"
<1>1. op \in [Ops -> OpSet] /\ mixed \in [Users -> BOOLEAN]
  BY DEF TypeOK
<1>2. Persist
  BY TablesPersist DEF Revoke
<1>3. PICK kind \in {"revoke", "update"}, f \in Folders, u \in Users :
         /\ There(f)
         /\ op' = [op EXCEPT ![o] = [NoOp EXCEPT !.pc = "off", !.kind = kind, !.folder = f,
            !.user = u,
                                        !.met = \E p \in Ops : Grants(p, u)]]
         /\ mixed' = [mixed EXCEPT ![u] = @ \/ \E p \in Ops : Grants(p, u)]
  BY Zenon DEF StartRevoke
<1> DEFINE b == \E p \in Ops : Grants(p, u)
           r == [NoOp EXCEPT !.pc = "off", !.kind = kind, !.folder = f, !.user = u, !.met = b]
<1>4. b \in BOOLEAN
  OBVIOUS
<1>5. op' = [op EXCEPT ![o] = r] /\ mixed' = [mixed EXCEPT ![u] = @ \/ b]
  BY <1>3
<1> HIDE DEF b
<1>6. r \in OpSet
  BY <1>4, NoOpTyped, Constants, ZenonT(60) DEF OpSet
<1>7. /\ r.pc = "off" /\ r.kind = kind /\ r.folder = f /\ r.pairs = {} /\ r.subs = {}
      /\ r.orig = Root
  BY DEF NoOp
<1> HIDE DEF r
<1>8. op' \in [Ops -> OpSet] /\ op'[o] = r /\ \A p \in Ops \ {o} : op'[p] = op[p]
  BY <1>1, <1>5, <1>6
<1>9. mixed' \in [Users -> BOOLEAN] /\ \A w \in Users : mixed[w] => mixed'[w]
  BY <1>1, <1>4, <1>5, Zenon
<1>10. Staged(r, folder, doc)
  BY <1>3, <1>7 DEF Staged, There
<1>11. Staged(r, folder', doc')
  BY <1>2, <1>6, <1>10, StagedCarried
<1> QED BY <1>7, <1>8, <1>9, <1>11 DEF Became, Steps, Alike, InRange

LEMMA NextStage ==
    ASSUME TypeOK, Sound, Persist, NEW o \in Ops,
           NEW pc \in {"list", "below", "tree", "held", "remain", "unflag", "inherit", "shared",
                   "docs", "back"},
           Go(o, At(o, pc)), Staged(At(o, pc), folder, doc)
    PROVE  /\ Became(o) /\ op'[o].pc = pc
           /\ op'[o].folder = op[o].folder /\ op'[o].user = op[o].user
           /\ op'[o].met = op[o].met /\ op'[o].failed = op[o].failed
           /\ op'[o].below = op[o].below /\ op'[o].doc = op[o].doc
<1>1. LET r == At(o, pc) IN
      /\ r \in OpSet /\ r.pc = pc /\ r.folder = op[o].folder /\ r.user = op[o].user
      /\ r.doc = op[o].doc /\ r.below = op[o].below /\ r.met = op[o].met /\ r.failed = op[o].failed
      /\ InRange(r, grant', key')
  BY AtFacts
<1>2. Step(o, At(o, pc), {})
  BY DEF Go
<1>3. Became(o) /\ op'[o] = At(o, pc)
  BY <1>1, <1>2, StepBecomes
<1> QED BY <1>1, <1>3

LEMMA RevokesStaged ==
    ASSUME TypeOK, Sound, NEW o \in Ops,
           NEW pc \in {"tree", "held", "remain", "unflag"}, Revokes(o)
    PROVE  Staged(At(o, pc), folder, doc)
<1>1. op[o] \in OpSet /\ Staged(op[o], folder, doc)
  BY Typed DEF Sound
<1>2. LET r == At(o, pc) IN
      /\ r.pc = pc /\ r.kind = op[o].kind /\ r.folder = op[o].folder
      /\ r.pairs = op[o].pairs /\ r.subs = op[o].subs
      /\ r.doc = op[o].doc /\ r.orig = op[o].orig
  BY AtFacts
<1> HIDE DEF At
<1> QED BY <1>1, <1>2 DEF Revokes, Staged


LEMMA DeactivateBecomes ==
    ASSUME TypeOK, Sound, NEW o \in Ops, Deactivate(o)
    PROVE  /\ Became(o) /\ op'[o].pc = "tree" /\ op'[o].below = op[o].below
           /\ op'[o].folder = op[o].folder /\ op'[o].user = op[o].user
           /\ op'[o].met = op[o].met /\ op'[o].failed = op[o].failed
<1>1. Persist
  BY TablesPersist DEF Revoke
<1>2. Revokes(o) /\ Go(o, At(o, "tree"))
  BY DEF Deactivate, Revokes
<1> QED BY <1>1, <1>2, RevokesStaged, NextStage


LEMMA DeactivateBelowBecomes ==
    ASSUME TypeOK, Sound, NEW o \in Ops, DeactivateBelow(o)
    PROVE  /\ Became(o) /\ op'[o].pc = "held" /\ op'[o].below = op[o].below
           /\ op'[o].folder = op[o].folder /\ op'[o].user = op[o].user
           /\ op'[o].met = op[o].met /\ op'[o].failed = op[o].failed
<1>1. Persist
  BY TablesPersist DEF Revoke
<1>2. Revokes(o) /\ Go(o, At(o, "held"))
  BY DEF DeactivateBelow, Revokes
<1> QED BY <1>1, <1>2, RevokesStaged, NextStage


LEMMA DeactivateKeysBecomes ==
    ASSUME TypeOK, Sound, NEW o \in Ops, DeactivateKeys(o)
    PROVE  /\ Became(o) /\ op'[o].pc = "remain" /\ op'[o].below = op[o].below
           /\ op'[o].folder = op[o].folder /\ op'[o].user = op[o].user
           /\ op'[o].met = op[o].met /\ op'[o].failed = op[o].failed
<1>1. Persist
  BY TablesPersist DEF Revoke
<1>2. Revokes(o) /\ Go(o, At(o, "remain"))
  BY DEF DeactivateKeys, Revokes
<1> QED BY <1>1, <1>2, RevokesStaged, NextStage


LEMMA FindTreeBecomes ==
    ASSUME TypeOK, Sound, NEW o \in Ops, FindTree(o)
    PROVE  Became(o) /\ op'[o].pc = "suboff" /\ op'[o].below = Descendants(op[o].folder)
           /\ op'[o].folder = op[o].folder /\ op'[o].user = op[o].user
           /\ op'[o].met = op[o].met /\ op'[o].failed = op[o].failed
<1>1. op[o] \in OpSet /\ Staged(op[o], folder, doc) /\ op[o].pc = "tree"
  BY Typed DEF FindTree, Sound
<1>2. Persist
  BY TablesPersist DEF Revoke
<1> DEFINE r == [op[o] EXCEPT !.pc = "suboff", !.below = Descendants(op[o].folder)]
<1>4. Descendants(op[o].folder) \subseteq Folders
  BY <1>1, DescendantsBelow, BelowThere
<1>5. r \in OpSet
  BY <1>1, <1>4, ZenonT(60) DEF OpSet
<1>6. /\ r.pc = "suboff" /\ r.kind = op[o].kind /\ r.folder = op[o].folder
      /\ r.user = op[o].user /\ r.doc = op[o].doc /\ r.orig = op[o].orig /\ r.todo = op[o].todo
      /\ r.list = op[o].list /\ r.pairs = op[o].pairs /\ r.below = Descendants(op[o].folder)
      /\ r.subs = op[o].subs /\ r.held = op[o].held /\ r.row = op[o].row
      /\ r.good = op[o].good /\ r.failed = op[o].failed /\ r.met = op[o].met
  BY <1>1 DEF OpSet
<1>7. Step(o, r, {})
  BY DEF FindTree, Go, At
<1> HIDE DEF r
<1>8. Staged(r, folder, doc)
  BY <1>1, <1>4, <1>6 DEF Staged
<1>9. Staged(r, folder', doc')
  BY <1>2, <1>5, <1>8, StagedCarried
<1>10. InRange(r, grant', key')
  BY <1>1, <1>6 DEF InRange
<1>11. Steps(o) /\ op'[o] = r
  BY <1>5, <1>7, StepFacts
<1> QED BY <1>1, <1>4, <1>6, <1>9, <1>10, <1>11 DEF Became

LEMMA FindHeldBecomes ==
    ASSUME TypeOK, Sound, NEW o \in Ops, FindHeld(o)
    PROVE  Became(o) /\ op'[o].pc = "keysoff" /\ op'[o].held = HeldBy(o) /\
          op'[o].below = op[o].below
           /\ op'[o].folder = op[o].folder /\ op'[o].user = op[o].user
           /\ op'[o].met = op[o].met /\ op'[o].failed = op[o].failed
<1>1. op[o] \in OpSet /\ Staged(op[o], folder, doc) /\ op[o].pc = "held"
  BY Typed DEF FindHeld, Sound
<1>2. Persist
  BY TablesPersist DEF Revoke
<1> DEFINE r == [op[o] EXCEPT !.pc = "keysoff", !.held = HeldBy(o)]
<1>4. HeldBy(o) \in SUBSET Docs
  BY <1>1, DueFacts
<1>5. r \in OpSet
  BY <1>1, <1>4, ZenonT(60) DEF OpSet
<1>6. /\ r.pc = "keysoff" /\ r.kind = op[o].kind /\ r.folder = op[o].folder
      /\ r.user = op[o].user /\ r.doc = op[o].doc /\ r.orig = op[o].orig /\ r.todo = op[o].todo
      /\ r.list = op[o].list /\ r.pairs = op[o].pairs /\ r.below = op[o].below
      /\ r.subs = op[o].subs /\ r.held = HeldBy(o) /\ r.row = op[o].row
      /\ r.good = op[o].good /\ r.failed = op[o].failed /\ r.met = op[o].met
  BY <1>1 DEF OpSet
<1>7. Step(o, r, {})
  BY DEF FindHeld, Go, At, HeldBy
<1> HIDE DEF r
<1>8. Staged(r, folder, doc)
  BY <1>1, <1>4, <1>6 DEF Staged
<1>9. Staged(r, folder', doc')
  BY <1>2, <1>5, <1>8, StagedCarried
<1>10. InRange(r, grant', key')
  BY <1>1, <1>6 DEF InRange
<1>11. Steps(o) /\ op'[o] = r
  BY <1>5, <1>7, StepFacts
<1> QED BY <1>1, <1>4, <1>6, <1>9, <1>10, <1>11 DEF Became

LEMMA ReadRemainingBecomes ==
    ASSUME TypeOK, Sound, NEW o \in Ops, ReadRemaining(o)
    PROVE  /\ Became(o)
           /\ \/ op'[o].pc \in {"grant", "done"}
              \/ /\ op'[o].pc = "unflag" /\ op'[o].below = op[o].below
                 /\ op'[o].folder = op[o].folder /\ op'[o].user = op[o].user
                 /\ op'[o].met = op[o].met /\ op'[o].failed = op[o].failed
<1>1. Persist
  BY TablesPersist DEF Revoke
<1>2. Revokes(o) /\ op[o].pc = "remain"
  BY DEF ReadRemaining, Revokes
<1>3. CASE SharedUsers(op[o].folder) = {}
  <2>1. Go(o, At(o, "unflag"))
    BY <1>3 DEF ReadRemaining
  <2>2. Staged(At(o, "unflag"), folder, doc)
    BY <1>2, RevokesStaged
  <2> QED BY <1>1, <2>1, <2>2, NextStage
<1>4. CASE SharedUsers(op[o].folder) # {}
  <2>1. Go(o, Revoked(o))
    BY <1>4 DEF ReadRemaining
  <2> QED BY <1>1, <1>2, <2>1, RevokedFacts
<1> QED BY <1>3, <1>4

LEMMA ClearFlagBecomes ==
    ASSUME TypeOK, Sound, NEW o \in Ops, ClearFlag(o)
    PROVE  Became(o) /\ op'[o].pc \in {"grant", "done"}
<1>1. Persist
  BY TablesPersist DEF Revoke
<1>2. op[o].pc = "unflag" /\ Go(o, Revoked(o))
  BY DEF ClearFlag
<1> QED BY <1>1, <1>2, RevokedFacts


\* What StartUpload does, and MoveDocument and RestoreDocument
Uploaded(o, d, u, f) ==
    /\ doc[d].st = "new"
    /\ Go(o, [NoOp EXCEPT !.pc = "stream", !.kind = "upload", !.doc = d, !.folder = f])
    /\ \E good \in BOOLEAN :
          /\ doc' = [doc EXCEPT ![d] = [st |-> "open", owner |-> u, folder |-> f]]
          /\ key' = [key EXCEPT ![d][u] = <<[good |-> good, active |-> TRUE]>>]
Moved(d, f) == doc[d].st # "new" /\ doc' = [doc EXCEPT ![d].folder = f]


LEMMA StartUploadBecomes ==
    ASSUME TypeOK, Sound, NEW o \in Ops, StartUpload(o)
    PROVE  Became(o) /\ op'[o].pc = "stream"
           /\ \E d \in Docs, u \in Users, f \in 0 .. NFolders :
                 Uploaded(o, d, u, f) /\ op'[o].doc = d /\ op'[o].folder = f /\
                   (f # Root => There(f))
<1>1. op[o] \in OpSet /\ Staged(op[o], folder, doc) /\ op[o].pc = "new"
  BY Typed DEF StartUpload, Sound
<1>2. Persist
  BY TablesPersist DEF Inherit
<1>3. PICK d \in Docs, u \in Users, f \in 0 .. NFolders : Uploaded(o, d, u, f) /\
      (f # Root => There(f))
  BY Constants, Zenon DEF StartUpload, Uploaded
<1> DEFINE r == [NoOp EXCEPT !.pc = "stream", !.kind = "upload", !.doc = d, !.folder = f]
<1>5. r \in OpSet
  BY <1>1, <1>3, StartedFor, Constants, Zenon DEF Kinds
<1>6. /\ r.pc = "stream" /\ r.kind = "upload" /\ r.folder = f /\ r.doc = d
      /\ r.orig = Root /\ r.todo = {}
      /\ r.list = {} /\ r.pairs = {} /\ r.below = {} /\ r.subs = {} /\ r.held = {}
      /\ r.row = 0 /\ r.good = FALSE /\ r.failed = FALSE /\ r.met = FALSE
  BY DEF NoOp
<1>7. Step(o, r, {})
  BY <1>3 DEF StartUpload, Go, At, Uploaded
<1> HIDE DEF r
<1>21. doc'[d].st # "new" /\ FolderPart
  <2>1. PICK good \in BOOLEAN :
           /\ doc[d].st = "new"
           /\ doc' = [doc EXCEPT ![d] = [st |-> "open", owner |-> u, folder |-> f]]
           /\ key' = [key EXCEPT ![d][u] = <<[good |-> good, active |-> TRUE]>>]
    BY <1>3, Zenon DEF Uploaded
  <2>2. doc'[d].st = "open"
    BY <2>1, StartUploadEffect, Zenon
  <2> QED BY <1>2, <2>2 DEF Persist
<1>8. Staged(r, folder', doc')
  BY <1>1, <1>3, <1>6, <1>21, Constants DEF Staged, There, FolderPart
<1>9. Staged(r, folder', doc')
  BY <1>8
<1>10. InRange(r, grant', key')
  BY <1>1, <1>6 DEF InRange
<1>11. Steps(o) /\ op'[o] = r
  BY <1>5, <1>7, StepFacts
<1> QED BY <1>1, <1>3, <1>6, <1>9, <1>10, <1>11 DEF Became

LEMMA StoreFileBecomes ==
    ASSUME TypeOK, Sound, NEW o \in Ops, StoreFile(o)
    PROVE  /\ Became(o) /\ op[o].pc = "stream"
           /\ \/ op'[o].pc = "done" /\ op[o].folder = Root
              \/ op'[o].pc = "inherit" /\ op'[o].folder = op[o].folder /\ op'[o].doc = op[o].doc
<1>1. op[o] \in OpSet /\ Staged(op[o], folder, doc) /\ op[o].pc = "stream"
  BY Typed DEF StoreFile, Sound
<1>2. Persist
  BY TablesPersist DEF Inherit
<1>3. CASE op[o].folder = Root
  <2>1. Go(o, Ended(o))
    BY <1>3 DEF StoreFile
  <2> QED BY <1>1, <1>2, <1>3, <2>1, GoEnds
<1>4. CASE op[o].folder # Root
  <2>1. Go(o, At(o, "inherit"))
    BY <1>4 DEF StoreFile
  <2>2. /\ At(o, "inherit").pc = "inherit" /\ At(o, "inherit").kind = op[o].kind
        /\ At(o, "inherit").folder = op[o].folder /\ At(o, "inherit").doc = op[o].doc
        /\ At(o, "inherit").pairs = op[o].pairs /\ At(o, "inherit").subs = op[o].subs
        /\ At(o, "inherit").orig = op[o].orig
    BY AtFacts
  <2>3. op[o].folder \in Folders
    BY <1>1, <1>4, Constants DEF OpSet
  <2>4. Staged(At(o, "inherit"), folder, doc)
    BY <1>1, <1>4, <2>2, <2>3 DEF Staged
  <2> QED BY <1>1, <1>2, <2>1, <2>4, NextStage
<1> QED BY <1>3, <1>4

LEMMA PutBecomes ==
    ASSUME TypeOK, Persist, NEW o \in Ops, NEW f, NEW r \in OpSet, Put(o, f, r),
           Staged(r, folder, doc), r.pc \notin {"write", "key"}
    PROVE  Became(o) /\ op'[o] = r /\ \A p \in Ops \ {o} : Revokes(p) => op'[p].met
<1>1. op \in [Ops -> OpSet] /\ mixed \in [Users -> BOOLEAN] /\ mixed' = mixed
  BY DEF TypeOK, Put, history
<1>2. /\ op' = [p \in Ops |-> op'[p]] /\ op'[o] = r
      /\ \A p \in Ops \ {o} : op'[p] = IF Revokes(p) THEN [op[p] EXCEPT !.met = TRUE] ELSE op[p]
  BY DEF Put
<1>3. \A p \in Ops \ {o} : Alike(op'[p], op[p])
  BY <1>2 DEF Alike
<1>4. \A p \in Ops \ {o} : op'[p] \in OpSet
  BY <1>1, <1>3, AlikeFields
<1>5. op' \in [Ops -> OpSet]
  BY <1>2, <1>4
<1>6. \A p \in Ops \ {o} : Revokes(p) => op'[p].met
  <2> SUFFICES ASSUME NEW p \in Ops \ {o}, Revokes(p) PROVE op'[p].met
    OBVIOUS
  <2>1. op'[p] = [op[p] EXCEPT !.met = TRUE] /\ op[p] \in OpSet
    BY <1>1, <1>2
  <2> QED BY <2>1 DEF OpSet
<1>7. Staged(r, folder', doc')
  BY StagedCarried
<1>8. Became(o)
  BY <1>1, <1>2, <1>3, <1>5, <1>7 DEF Became, Steps, InRange
<1> QED BY <1>2, <1>6, <1>8

LEMMA StartMoveBecomes ==
    ASSUME TypeOK, Sound, NEW o \in Ops, StartMove(o)
    PROVE  Became(o) /\ op'[o].pc = "place"
<1>1. Persist
  BY TablesPersist DEF Inherit
<1>2. PICK d \in Docs, f \in 0 .. NFolders :
         /\ doc[d].st # "new" /\ (f # Root => There(f))
         /\ Go(o, [NoOp EXCEPT !.pc = "place", !.kind = "move", !.doc = d, !.folder = f,
                               !.orig = doc[d].folder])
  BY Constants, Zenon DEF StartMove
<1> DEFINE g == doc[d].folder
           r == [NoOp EXCEPT !.pc = "place", !.kind = "move", !.doc = d, !.folder = f, !.orig = g]
<1>3. g \in 0 .. NFolders /\ (g # Root => There(g))
  BY Typed DEF DocSet, Sound
<1> HIDE DEF g
<1>4. r \in OpSet
  BY <1>3, StartedMoving, Zenon
<1>5. /\ r.pc = "place" /\ r.kind = "move" /\ r.doc = d /\ r.folder = f /\ r.orig = g
      /\ r.pairs = {} /\ r.subs = {}
  BY DEF NoOp
<1>6. Step(o, r, {})
  BY <1>2 DEF Go, g
<1> HIDE DEF r
<1>7. Staged(r, folder, doc) /\ InRange(r, grant', key')
  BY <1>2, <1>3, <1>5 DEF Staged, There, InRange
<1>8. Became(o) /\ op'[o] = r
  BY <1>1, <1>4, <1>6, <1>7, StepBecomes
<1> QED BY <1>5, <1>8

LEMMA MoveDocumentBecomes ==
    ASSUME TypeOK, Sound, NEW o \in Ops, MoveDocument(o)
    PROVE  /\ Became(o) /\ \A p \in Ops \ {o} : Revokes(p) => op'[p].met
           /\ \E d \in Docs, f \in 0 .. NFolders :
                 /\ Moved(d, f) /\ (f # Root => There(f))
                 /\ \/ op'[o].pc = "docs" /\ f = Root
                    \/ op'[o].pc = "inherit" /\ op'[o].doc = d /\ op'[o].folder = f
<1>1. op[o] \in OpSet /\ Staged(op[o], folder, doc) /\ op[o].pc = "place"
  BY Typed DEF MoveDocument, Sound
<1>2. Persist
  BY TablesPersist DEF Inherit
<1> DEFINE d == op[o].doc
           f == op[o].folder
           pc == IF f = Root THEN "docs" ELSE "inherit"
           r == At(o, pc)
<1>3. d \in Docs /\ f \in 0 .. NFolders /\ (f # Root => f \in Folders /\ There(f))
  BY <1>1, Constants DEF OpSet, Staged, There
<1>4. Put(o, f, r)
  BY DEF MoveDocument
<1>5. Moved(d, f)
  BY <1>1, <1>4 DEF Moved, Put, Staged
<1>6. /\ r \in OpSet /\ r.pc = pc /\ r.kind = op[o].kind /\ r.doc = d /\ r.folder = f
      /\ r.orig = op[o].orig /\ r.pairs = op[o].pairs /\ r.subs = op[o].subs
  <2>1. pc \in {"docs", "inherit"}
    OBVIOUS
  <2> HIDE DEF pc
  <2> QED BY <2>1, AtFacts
<1> HIDE DEF r
<1>7. Staged(r, folder, doc) /\ r.pc \notin {"write", "key"}
  <2>1. CASE f = Root
    BY <1>1, <1>6, <2>1 DEF Staged
  <2>2. CASE f # Root
    BY <1>1, <1>3, <1>6, <2>2 DEF Staged, There
  <2> QED BY <2>1, <2>2
<1>8. Became(o) /\ op'[o] = r /\ \A p \in Ops \ {o} : Revokes(p) => op'[p].met
  BY <1>2, <1>4, <1>6, <1>7, PutBecomes
<1> QED BY <1>3, <1>5, <1>6, <1>8

LEMMA RestoreDocumentBecomes ==
    ASSUME TypeOK, Sound, NEW o \in Ops, RestoreDocument(o)
    PROVE  /\ Became(o) /\ op'[o].pc = "done" /\ \A p \in Ops \ {o} : Revokes(p) => op'[p].met
           /\ \E d \in Docs, f \in 0 .. NFolders : Moved(d, f) /\ (f # Root => There(f))
<1>1. op[o] \in OpSet /\ Staged(op[o], folder, doc) /\ op[o].pc = "back"
  BY Typed DEF RestoreDocument, Sound
<1>2. Persist
  BY TablesPersist DEF Inherit
<1>3. /\ op[o].doc \in Docs /\ op[o].orig \in 0 .. NFolders
      /\ op[o].orig # Root => There(op[o].orig)
  BY <1>1 DEF OpSet, Staged, There
<1>4. Put(o, op[o].orig, Ended(o))
  BY DEF RestoreDocument
<1>5. Moved(op[o].doc, op[o].orig)
  BY <1>1, <1>4 DEF Moved, Put, Staged
<1>6. Ended(o) \in OpSet /\ Ended(o).pc = "done" /\ Staged(Ended(o), folder, doc)
  BY EndedFacts
<1> HIDE DEF Ended
<1>7. Became(o) /\ op'[o] = Ended(o) /\ \A p \in Ops \ {o} : Revokes(p) => op'[p].met
  BY <1>2, <1>4, <1>6, PutBecomes
<1> QED BY <1>3, <1>5, <1>6, <1>7

LEMMA TakeDocumentBecomes ==
    ASSUME TypeOK, Sound, NEW o \in Ops, TakeDocument(o)
    PROVE  Became(o) /\ op'[o].pc = "done" /\ \E d \in Docs, u \in Users : Withdrawn(d, u)
<1>1. Persist
  BY TablesPersist DEF Revoke
<1> DEFINE r == [NoOp EXCEPT !.pc = "done", !.kind = "take"]
<1>2. r \in OpSet
  BY StartedTaking
<1>3. r.pc = "done" /\ r.pairs = {} /\ r.subs = {} /\ r.orig = Root
  BY DEF NoOp
<1>4. Step(o, r, {})
  BY DEF TakeDocument, Go
<1> HIDE DEF r
<1>5. Staged(r, folder, doc) /\ InRange(r, grant', key')
  BY <1>3 DEF Staged, InRange
<1>6. Became(o) /\ op'[o] = r
  BY <1>1, <1>2, <1>4, <1>5, StepBecomes
<1>7. \E d \in Docs, u \in Users : Withdrawn(d, u)
  BY Zenon DEF TakeDocument, Withdrawn
<1> QED BY <1>3, <1>6, <1>7

LEMMA ReadFolderBecomes ==
    ASSUME TypeOK, Sound, NEW o \in Ops, ReadFolder(o)
    PROVE  /\ Became(o) /\ op[o].pc = "inherit"
           /\ \/ op'[o].pc = "done" /\ ~folder[op[o].folder].shared
              \/ op'[o].pc = "shared" /\ op'[o].folder = op[o].folder /\ op'[o].doc = op[o].doc
<1>1. op[o] \in OpSet /\ Staged(op[o], folder, doc) /\ op[o].pc = "inherit"
  BY Typed DEF ReadFolder, Sound
<1>2. Persist
  BY TablesPersist DEF Inherit
<1>3. CASE ~folder[op[o].folder].shared
  <2>1. Go(o, Ended(o))
    BY <1>3 DEF ReadFolder
  <2> QED BY <1>1, <1>2, <1>3, <2>1, GoEnds
<1>4. CASE folder[op[o].folder].shared
  <2>1. Go(o, At(o, "shared"))
    BY <1>4 DEF ReadFolder
  <2>2. /\ At(o, "shared").pc = "shared" /\ At(o, "shared").kind = op[o].kind
        /\ At(o, "shared").folder = op[o].folder /\ At(o, "shared").doc = op[o].doc
        /\ At(o, "shared").pairs = op[o].pairs /\ At(o, "shared").subs = op[o].subs
        /\ At(o, "shared").orig = op[o].orig
    BY AtFacts
  <2>3. Staged(At(o, "shared"), folder, doc)
    BY <1>1, <2>2 DEF Staged
  <2> QED BY <1>1, <1>2, <2>1, <2>3, NextStage
<1> QED BY <1>3, <1>4

\* Those who get the key of a document that was put into the folder
Recipients(o) == {op[o].doc} \X ((SharedUsers(op[o].folder) \cup {folder[op[o].folder].owner})
                                 \ {doc[op[o].doc].owner})

LEMMA RecipientsFacts ==
    ASSUME TypeOK, NEW o \in Ops, op[o].folder \in Folders
    PROVE  /\ Recipients(o) \in SUBSET (Docs \X Users)
           /\ \A du \in Recipients(o) : du[1] = op[o].doc /\ du[2] # doc[op[o].doc].owner
           /\ \A u \in Users : On(grant[op[o].folder][u]) /\ u # doc[op[o].doc].owner
                                 => <<op[o].doc, u>> \in Recipients(o)
<1>1. op[o].doc \in Docs /\ folder[op[o].folder].owner \in Users
  BY Typed DEF OpSet, FolderSet
<1>2. SharedUsers(op[o].folder) \subseteq Users
  BY SharedTyped
<1>3. \A u \in Users : On(grant[op[o].folder][u]) => u \in SharedUsers(op[o].folder)
  BY SharedTyped
<1> QED BY <1>1, <1>2, <1>3 DEF Recipients


LEMMA ReadRecipientsBecomes ==
    ASSUME TypeOK, Sound, NEW o \in Ops, ReadRecipients(o)
    PROVE  Became(o) /\ op'[o].pc = "docs" /\ op'[o].pairs = Recipients(o) /\
          op[o].pc = "shared" /\ op[o].folder \in Folders
<1>1. op[o] \in OpSet /\ Staged(op[o], folder, doc) /\ op[o].pc = "shared"
  BY Typed DEF ReadRecipients, Sound
<1>2. Persist
  BY TablesPersist DEF Inherit
<1> DEFINE r == [op[o] EXCEPT !.pc = "docs", !.pairs = Recipients(o)]
<1>20. op[o].folder \in Folders /\ doc[op[o].doc].st # "new"
  BY <1>1 DEF Staged
<1>4. /\ Recipients(o) \in SUBSET (Docs \X Users) /\ op[o].folder \in Folders
      /\ \A du \in Recipients(o) : doc[du[1]].st # "new" /\ du[2] # doc[du[1]].owner
  BY <1>1, <1>20, RecipientsFacts
<1>5. r \in OpSet
  BY <1>1, <1>4, ZenonT(60) DEF OpSet
<1>6. /\ r.pc = "docs" /\ r.kind = op[o].kind /\ r.folder = op[o].folder
      /\ r.user = op[o].user /\ r.doc = op[o].doc /\ r.orig = op[o].orig /\ r.todo = op[o].todo
      /\ r.list = op[o].list /\ r.pairs = Recipients(o) /\ r.below = op[o].below
      /\ r.subs = op[o].subs /\ r.held = op[o].held /\ r.row = op[o].row
      /\ r.good = op[o].good /\ r.failed = op[o].failed /\ r.met = op[o].met
  BY <1>1 DEF OpSet
<1>7. Step(o, r, {})
  BY DEF ReadRecipients, Go, At, Recipients
<1> HIDE DEF r
<1>8. Staged(r, folder, doc)
  BY <1>1, <1>4, <1>6 DEF Staged
<1>9. Staged(r, folder', doc')
  BY <1>2, <1>5, <1>8, StagedCarried
<1>10. InRange(r, grant', key')
  BY <1>1, <1>6 DEF InRange
<1>11. Steps(o) /\ op'[o] = r
  BY <1>5, <1>7, StepFacts
<1> QED BY <1>1, <1>4, <1>6, <1>9, <1>10, <1>11 DEF Became

\* What CreateFolder does
Created(f) == folder' = [folder EXCEPT ![f].there = TRUE, ![f].shared = TRUE]

LEMMA CreateFolderBecomes ==
    ASSUME TypeOK, Sound, NEW o \in Ops, CreateFolder(o)
    PROVE  /\ Became(o) /\ op'[o].pc \in {"parent", "done"}
           /\ \E f \in Folders : /\ ~There(f) /\ Created(f)
                                 /\ folder[f].up # Root => There(folder[f].up)
<1>1. Persist
  BY TablesPersist DEF Inherit
<1>2. PICK f \in Folders :
         /\ ~There(f) /\ Created(f)
         /\ folder[f].up # Root => There(folder[f].up)
         /\ Go(o, [NoOp EXCEPT !.pc = IF folder[f].up = Root THEN "done" ELSE "parent",
                               !.kind = "create", !.folder = f])
  BY Zenon DEF CreateFolder, Created
<1> DEFINE r == [NoOp EXCEPT !.pc = IF folder[f].up = Root THEN "done" ELSE "parent",
                             !.kind = "create", !.folder = f]
<1>3. r \in OpSet
  <2>1. (IF folder[f].up = Root THEN "done" ELSE "parent") \in {"parent", "done"}
    OBVIOUS
  <2> QED BY <2>1, StartedAt, Constants, Zenon DEF Kinds
<1>4. /\ r.pc = IF folder[f].up = Root THEN "done" ELSE "parent"
      /\ r.kind = "create" /\ r.folder = f /\ r.pairs = {} /\ r.subs = {} /\ r.orig = Root
  BY DEF NoOp
<1>5. Step(o, r, {})
  BY <1>2 DEF Go
<1> HIDE DEF r
<1>6. \A g \in Folders : /\ folder'[g].up = folder[g].up
                         /\ folder'[g].there <=> folder[g].there \/ g = f
  BY <1>2, CreateFolderEffect, Zenon DEF Created
<1>7. Staged(r, folder', doc')
  BY <1>4, <1>6 DEF Staged
<1>8. Steps(o) /\ op'[o] = r
  BY <1>3, <1>5, StepFacts
<1> QED BY <1>2, <1>4, <1>7, <1>8 DEF Became, InRange

LEMMA ReadParentBecomes ==
    ASSUME TypeOK, Sound, NEW o \in Ops, ReadParent(o)
    PROVE  Became(o) /\ op'[o].pc \in {"subs", "done"}
<1>1. op[o] \in OpSet /\ Staged(op[o], folder, doc) /\ op[o].pc = "parent"
  BY Typed, Zenon DEF ReadParent, Sound
<1>2. Persist
  BY TablesPersist DEF Inherit
<1>3. op[o].folder \in Folders /\ There(op[o].folder) /\ folder[op[o].folder].up # Root
  BY <1>1 DEF Staged, There
<1> DEFINE f == op[o].folder
           p == folder[f].up
           U == SharedUsers(p) \cup (IF folder[p].owner # folder[f].owner THEN {folder[p].owner} ELSE {})
<1>4. p \in Folders
  BY <1>3, Typed, Constants, Zenon DEF FolderSet
<1>5. U \in SUBSET Users
  <2>1. folder[p].owner \in Users /\ SharedUsers(p) \subseteq Users
    BY <1>4, Typed, SharedTyped DEF FolderSet
  <2> QED BY <2>1
<1>6. IF U = {} THEN Go(o, Ended(o)) ELSE Spread(o, {f}, U)
  BY Zenon DEF ReadParent, Spread
<1> HIDE DEF U
<1>7. CASE U = {}
  BY <1>2, <1>6, <1>7, GoEnds
<1>8. CASE U # {}
  <2>1. {f} \in SUBSET Folders /\ \A g \in {f} : There(g)
    BY <1>3
  <2>2. Spread(o, {f}, U)
    BY <1>6, <1>8
  <2> QED BY <1>1, <1>2, <1>3, <1>5, <2>1, <2>2, SpreadBecomes
<1> QED BY <1>7, <1>8


LEMMA StartGiveBecomes ==
    ASSUME TypeOK, Sound, NEW o \in Ops, StartGive(o)
    PROVE  Became(o) /\ op'[o].pc = "docs"
<1>1. op[o] \in OpSet /\ Staged(op[o], folder, doc) /\ op[o].pc = "new"
  BY Typed DEF StartGive, Sound
<1>2. Persist
  BY TablesPersist DEF Inherit
<1>3. PICK d \in Docs, u \in Users :
         /\ doc[d].st # "new" /\ u # doc[d].owner
         /\ Go(o, [NoOp EXCEPT !.pc = "docs", !.kind = "give", !.doc = d, !.pairs = {<<d, u>>}])
  BY Zenon DEF StartGive
<1> DEFINE r == [NoOp EXCEPT !.pc = "docs", !.kind = "give", !.doc = d, !.pairs = {<<d, u>>}]
<1>4. {<<d, u>>} \in SUBSET (Docs \X Users)
  BY <1>1, <1>3
<1>5. r \in OpSet
  BY <1>1, <1>3, <1>4, StartedGiving, Constants, Zenon DEF Kinds
<1>6. /\ r.pc = "docs" /\ r.kind = "give" /\ r.folder = Root /\ r.doc = d
      /\ r.orig = Root /\ r.todo = {}
      /\ r.list = {} /\ r.pairs = {<<d, u>>} /\ r.below = {} /\ r.subs = {} /\ r.held = {}
      /\ r.row = 0 /\ r.good = FALSE /\ r.failed = FALSE /\ r.met = FALSE
  BY DEF NoOp
<1>7. Step(o, r, {})
  BY <1>3 DEF StartGive, Go, At
<1> HIDE DEF r
<1>8. Staged(r, folder, doc)
  BY <1>1, <1>3, <1>4, <1>6 DEF Staged
<1>9. Staged(r, folder', doc')
  BY <1>2, <1>5, <1>8, StagedCarried
<1>10. InRange(r, grant', key')
  BY <1>1, <1>6 DEF InRange
<1>11. Steps(o) /\ op'[o] = r
  BY <1>5, <1>7, StepFacts
<1> QED BY <1>1, <1>3, <1>4, <1>6, <1>9, <1>10, <1>11 DEF Became

\* What a failed query leaves
WriteFails(o) == op[o].pc = "write" /\
  Go(o, [op[o] EXCEPT !.pc = "grant", !.row = 0, !.failed = TRUE])
KeyFails(o) ==
    /\ op[o].pc = "key"
    /\ Go(o, [op[o] EXCEPT !.pc = "docs", !.row = 0, !.failed = TRUE,
       !.pairs = @ \ {<<op[o].doc, op[o].user>>}])
TakeFails(o) ==
    /\ op[o].pc \in {"tree", "suboff", "held", "keysoff"}
    /\ Go(o, [op[o] EXCEPT !.pc = "remain", !.failed = TRUE])
FindFails(o) == op[o].pc = "find" /\ Go(o, At(o, "below"))
\* The pairs of one owner's documents with one user are dropped
OthersThan(o, du) == {ev \in op[o].pairs : ev[2] # du[2] \/ doc[ev[1]].owner # doc[du[1]].owner}
CopyFails(o) ==
    /\ op[o].pc = "docs"
    /\ \E du \in op[o].pairs : Go(o, [op[o] EXCEPT !.pairs = OthersThan(o, du)])
StrayFails(o) ==
    /\ op[o].pc \in {"subs", "strays"}
    /\ \E gu \in op[o].subs : Go(o, [op[o] EXCEPT !.pc = "strays", !.subs = @ \ {gu}])

LEMMA FailPersist ==
    ASSUME TypeOK, Sound, NEW o \in Ops, Fail(o)
    PROVE  Persist /\ faults' # 0 /\ faults' = faults + 1 /\ faults < MaxFaults
<1>1. Persist
  BY TablesPersist
<1>2. faults < MaxFaults /\ faults' = faults + 1
  BY DEF Fail, FailQuery, FailMove, FailOriginal, StopRequest
<1> QED BY <1>1, <1>2, SharingAssumption DEF TypeOK

LEMMA WriteFailsBecomes ==
    ASSUME TypeOK, Sound, NEW o \in Ops, FailQuery(o), WriteFails(o)
    PROVE  Became(o) /\ op'[o].pc = "grant"
<1>1. op[o] \in OpSet /\ Staged(op[o], folder, doc) /\ op[o].pc = "write"
  BY Typed DEF WriteFails, Sound
<1>2. Persist
  BY FailPersist DEF Fail
<1> DEFINE r == [op[o] EXCEPT !.pc = "grant", !.row = 0, !.failed = TRUE]
<1>5. r \in OpSet
  BY <1>1, ZenonT(60) DEF OpSet
<1>6. /\ r.pc = "grant" /\ r.kind = op[o].kind /\ r.folder = op[o].folder
      /\ r.user = op[o].user /\ r.doc = op[o].doc /\ r.orig = op[o].orig /\ r.todo = op[o].todo
      /\ r.list = op[o].list /\ r.pairs = op[o].pairs /\ r.below = op[o].below
      /\ r.subs = op[o].subs /\ r.held = op[o].held /\ r.row = 0 /\ r.good = op[o].good
      /\ r.failed = TRUE /\ r.met = op[o].met
  BY <1>1 DEF OpSet
<1>7. Step(o, r, {})
  BY DEF FailQuery, Go, At, WriteFails
<1> HIDE DEF r
<1>8. Staged(r, folder, doc)
  BY <1>1, <1>6 DEF Staged
<1>9. Staged(r, folder', doc')
  BY <1>2, <1>5, <1>8, StagedCarried
<1>10. InRange(r, grant', key')
  BY <1>1, <1>6 DEF InRange
<1>11. Steps(o) /\ op'[o] = r
  BY <1>5, <1>7, StepFacts
<1> QED BY <1>1, <1>6, <1>9, <1>10, <1>11 DEF Became

LEMMA KeyFailsBecomes ==
    ASSUME TypeOK, Sound, NEW o \in Ops, FailQuery(o), KeyFails(o)
    PROVE  Became(o) /\ op'[o].pc = "docs"
<1>1. op[o] \in OpSet /\ Staged(op[o], folder, doc) /\ op[o].pc = "key"
  BY Typed DEF KeyFails, Sound
<1>2. Persist
  BY FailPersist DEF Fail
<1> DEFINE r == [op[o] EXCEPT !.pc = "docs", !.row = 0, !.failed = TRUE,
      !.pairs = op[o].pairs \ {<<op[o].doc, op[o].user>>}]
<1>5. r \in OpSet
  BY <1>1, ZenonT(60) DEF OpSet
<1>6. /\ r.pc = "docs" /\ r.kind = op[o].kind /\ r.folder = op[o].folder
      /\ r.user = op[o].user /\ r.doc = op[o].doc /\ r.orig = op[o].orig /\ r.todo = op[o].todo
      /\ r.list = op[o].list /\ r.pairs = op[o].pairs \ {<<op[o].doc, op[o].user>>}
      /\ r.below = op[o].below /\ r.subs = op[o].subs /\ r.held = op[o].held /\ r.row = 0
      /\ r.good = op[o].good /\ r.failed = TRUE /\ r.met = op[o].met
  BY <1>1 DEF OpSet
<1>7. Step(o, r, {})
  BY DEF FailQuery, Go, At, KeyFails
<1> HIDE DEF r
<1>8. Staged(r, folder, doc)
  BY <1>1, <1>6 DEF Staged
<1>9. Staged(r, folder', doc')
  BY <1>2, <1>5, <1>8, StagedCarried
<1>10. InRange(r, grant', key')
  BY <1>1, <1>6 DEF InRange
<1>11. Steps(o) /\ op'[o] = r
  BY <1>5, <1>7, StepFacts
<1> QED BY <1>1, <1>6, <1>9, <1>10, <1>11 DEF Became

LEMMA TakeFailsBecomes ==
    ASSUME TypeOK, Sound, NEW o \in Ops, FailQuery(o), TakeFails(o)
    PROVE  Became(o) /\ op'[o].pc = "remain" /\ op'[o].failed
<1>1. op[o] \in OpSet /\ Staged(op[o], folder, doc) /\
      op[o].pc \in {"tree", "suboff", "held", "keysoff"}
  BY Typed DEF TakeFails, Sound
<1>2. Persist
  BY FailPersist DEF Fail
<1> DEFINE r == [op[o] EXCEPT !.pc = "remain", !.failed = TRUE]
<1>5. r \in OpSet
  BY <1>1, ZenonT(60) DEF OpSet
<1>6. /\ r.pc = "remain" /\ r.kind = op[o].kind /\ r.folder = op[o].folder
      /\ r.user = op[o].user /\ r.doc = op[o].doc /\ r.orig = op[o].orig /\ r.todo = op[o].todo
      /\ r.list = op[o].list /\ r.pairs = op[o].pairs /\ r.below = op[o].below
      /\ r.subs = op[o].subs /\ r.held = op[o].held /\ r.row = op[o].row
      /\ r.good = op[o].good /\ r.failed = TRUE /\ r.met = op[o].met
  BY <1>1 DEF OpSet
<1>7. Step(o, r, {})
  BY DEF FailQuery, Go, At, TakeFails
<1> HIDE DEF r
<1>8. Staged(r, folder, doc)
  BY <1>1, <1>6 DEF Staged
<1>9. Staged(r, folder', doc')
  BY <1>2, <1>5, <1>8, StagedCarried
<1>10. InRange(r, grant', key')
  BY <1>1, <1>6 DEF InRange
<1>11. Steps(o) /\ op'[o] = r
  BY <1>5, <1>7, StepFacts
<1> QED BY <1>1, <1>6, <1>9, <1>10, <1>11 DEF Became

LEMMA CopyFailsBecomes ==
    ASSUME TypeOK, Sound, NEW o \in Ops, FailQuery(o), CopyFails(o)
    PROVE  Became(o) /\ op'[o].pc = "docs"
<1>1. op[o] \in OpSet /\ Staged(op[o], folder, doc) /\ op[o].pc = "docs"
  BY Typed DEF CopyFails, Sound
<1>2. Persist
  BY FailPersist DEF Fail
<1>3. PICK du \in op[o].pairs : Go(o, [op[o] EXCEPT !.pairs = OthersThan(o, du)])
  BY DEF CopyFails
<1> DEFINE D == OthersThan(o, du)
           r == [op[o] EXCEPT !.pairs = D]
<1>4. D \subseteq op[o].pairs
  BY DEF OthersThan
<1>5. Step(o, r, {})
  BY <1>3 DEF Go
<1> HIDE DEF D
<1>6. op[o].pairs \in SUBSET (Docs \X Users)
  BY <1>1 DEF OpSet
<1>7. D \in SUBSET (Docs \X Users)
  BY <1>4, <1>6
<1>8. r \in OpSet
  BY <1>1, <1>7, ZenonT(60) DEF OpSet
<1>9. /\ r.pc = "docs" /\ r.kind = op[o].kind /\ r.folder = op[o].folder
      /\ r.doc = op[o].doc /\ r.orig = op[o].orig /\ r.pairs = D /\ r.subs = op[o].subs
  BY <1>1 DEF OpSet
<1> HIDE DEF r
<1>10. Staged(r, folder, doc) /\ InRange(r, grant', key')
  BY <1>1, <1>4, <1>9 DEF Staged, InRange
<1>11. Became(o) /\ op'[o] = r
  BY <1>2, <1>5, <1>8, <1>10, StepBecomes
<1> QED BY <1>9, <1>11

LEMMA StrayFailsBecomes ==
    ASSUME TypeOK, Sound, NEW o \in Ops, FailQuery(o), StrayFails(o)
    PROVE  Became(o) /\ op'[o].pc = "strays"
<1>1. op[o] \in OpSet /\ Staged(op[o], folder, doc) /\ op[o].pc \in {"subs", "strays"}
  BY Typed DEF StrayFails, Sound
<1>2. Persist
  BY FailPersist DEF Fail
<1>3. PICK gu \in op[o].subs : Go(o, [op[o] EXCEPT !.pc = "strays", !.subs = @ \ {gu}])
  BY DEF StrayFails
<1> DEFINE D == op[o].subs \ {gu}
           r == [op[o] EXCEPT !.pc = "strays", !.subs = D]
<1>4. D \subseteq op[o].subs
  OBVIOUS
<1>5. Step(o, r, {})
  BY <1>3 DEF Go
<1> HIDE DEF D
<1>6. op[o].subs \in SUBSET (Folders \X Users)
  BY <1>1 DEF OpSet
<1>7. D \in SUBSET (Folders \X Users)
  BY <1>4, <1>6
<1>8. r \in OpSet
  BY <1>1, <1>7, ZenonT(60) DEF OpSet
<1>9. /\ r.pc = "strays" /\ r.kind = op[o].kind /\ r.folder = op[o].folder
      /\ r.doc = op[o].doc /\ r.orig = op[o].orig /\ r.pairs = op[o].pairs /\ r.subs = D
  BY <1>1 DEF OpSet
<1> HIDE DEF r
<1>10. Staged(r, folder, doc) /\ InRange(r, grant', key')
  BY <1>1, <1>4, <1>9 DEF Staged, InRange
<1>11. Became(o) /\ op'[o] = r
  BY <1>2, <1>5, <1>8, <1>10, StepBecomes
<1> QED BY <1>9, <1>11

LEMMA FindFailsBecomes ==
    ASSUME TypeOK, Sound, NEW o \in Ops, FailQuery(o), FindFails(o)
    PROVE  Became(o) /\ op'[o].pc = "below"
<1>1. op[o] \in OpSet /\ Staged(op[o], folder, doc) /\ op[o].pc = "find"
  BY Typed DEF FindFails, Sound
<1>2. Persist
  BY FailPersist DEF Fail
<1>3. LET r == At(o, "below") IN
      /\ r.pc = "below" /\ r.kind = op[o].kind /\ r.folder = op[o].folder
      /\ r.doc = op[o].doc /\ r.orig = op[o].orig /\ r.pairs = op[o].pairs /\ r.subs = op[o].subs
  BY AtFacts
<1>4. Go(o, At(o, "below"))
  BY DEF FindFails
<1> HIDE DEF At
<1>5. Staged(At(o, "below"), folder, doc)
  BY <1>1, <1>3 DEF Staged
<1> QED BY <1>2, <1>4, <1>5, NextStage

LEMMA FailQueryBecomes ==
    ASSUME TypeOK, Sound, NEW o \in Ops, FailQuery(o)
    PROVE  /\ Became(o)
           /\ \/ op'[o].pc \in {"grant", "docs", "below", "strays"}
              \/ op'[o].pc = "remain" /\ op'[o].failed
<1>1. \/ WriteFails(o) \/ FindFails(o) \/ CopyFails(o) \/ KeyFails(o) \/ StrayFails(o)
      \/ TakeFails(o)
  BY Zenon DEF FailQuery, WriteFails, FindFails, CopyFails, OthersThan, KeyFails, StrayFails, TakeFails
<1> QED BY <1>1, WriteFailsBecomes, FindFailsBecomes, CopyFailsBecomes, KeyFailsBecomes,
           StrayFailsBecomes, TakeFailsBecomes

LEMMA FailMoveBecomes ==
    ASSUME TypeOK, Sound, NEW o \in Ops, FailMove(o)
    PROVE  Became(o) /\ op'[o].pc = "back"
<1>1. /\ op[o] \in OpSet /\ Staged(op[o], folder, doc) /\ op[o].kind = "move"
      /\ op[o].pc \in {"place", "inherit", "shared", "docs"} /\ Go(o, At(o, "back"))
  BY Typed DEF FailMove, Sound
<1>2. Persist
  BY FailPersist DEF Fail
<1>3. LET r == At(o, "back") IN
      /\ r.pc = "back" /\ r.kind = op[o].kind /\ r.folder = op[o].folder
      /\ r.doc = op[o].doc /\ r.orig = op[o].orig /\ r.pairs = op[o].pairs /\ r.subs = op[o].subs
  BY AtFacts
<1> HIDE DEF At
<1>4. Staged(At(o, "back"), folder, doc)
  BY <1>1, <1>3 DEF Staged
<1> QED BY <1>1, <1>2, <1>4, NextStage

LEMMA FailOriginalBecomes ==
    ASSUME TypeOK, Sound, NEW o \in Ops, FailOriginal(o)
    PROVE  Became(o) /\ op'[o].pc = "back"
<1>1. Persist
  BY FailPersist DEF Fail
<1>2. PICK d \in Docs : /\ doc[d].st # "new"
                       /\ Go(o, [NoOp EXCEPT !.pc = "back", !.kind = "move", !.doc = d])
  BY Zenon DEF FailOriginal
<1> DEFINE r == [NoOp EXCEPT !.pc = "back", !.kind = "move", !.doc = d]
<1>3. r \in OpSet
  BY StartedMoving, Constants
<1>4. /\ r.pc = "back" /\ r.kind = "move" /\ r.doc = d /\ r.orig = Root
      /\ r.pairs = {} /\ r.subs = {}
  BY DEF NoOp
<1>5. Step(o, r, {})
  BY <1>2 DEF Go
<1> HIDE DEF r
<1>6. Staged(r, folder, doc) /\ InRange(r, grant', key')
  BY <1>2, <1>4 DEF Staged, InRange
<1>7. Became(o) /\ op'[o] = r
  BY <1>1, <1>3, <1>5, <1>6, StepBecomes
<1> QED BY <1>4, <1>7

LEMMA StopRequestBecomes ==
    ASSUME TypeOK, Sound, NEW o \in Ops, StopRequest(o)
    PROVE  Became(o) /\ op'[o].pc = "done"
<1>1. Persist
  BY FailPersist DEF Fail
<1>2. Go(o, Ended(o))
  BY DEF StopRequest
<1> QED BY <1>1, <1>2, GoEnds

LEMMA FailBecomes ==
    ASSUME TypeOK, Sound, NEW o \in Ops, Fail(o)
    PROVE  /\ Became(o) /\ faults' # 0
           /\ \/ op'[o].pc \in {"grant", "docs", "below", "strays", "back", "done"}
              \/ op'[o].pc = "remain" /\ op'[o].failed
BY FailPersist, FailQueryBecomes, FailMoveBecomes, FailOriginalBecomes, StopRequestBecomes DEF Fail

LEMMA Becomes ==
    ASSUME TypeOK, Sound, NEW o \in Ops, Share(o) \/ Revoke(o) \/ Inherit(o) \/ Fail(o)
    PROVE  Became(o)
<1>1. Share(o) => Became(o)
  BY StartShareBecomes, FindGrantBecomes, WriteGrantBecomes, SetFlagBecomes,
     ReadSharedUsersBecomes, ApplyToExistingDocumentsBecomes, ReadKeysBecomes, CopyKeyBecomes,
     EndDocumentsBecomes, FindSubfoldersBecomes, InsertRowBecomes, FlagSubfoldersBecomes DEF Share
<1>2. Revoke(o) => Became(o)
  BY StartRevokeBecomes, DeactivateBecomes, FindTreeBecomes, DeactivateBelowBecomes,
     FindHeldBecomes, DeactivateKeysBecomes, ReadRemainingBecomes, ClearFlagBecomes,
     TakeDocumentBecomes DEF Revoke
<1>3. Inherit(o) => Became(o)
  BY StartUploadBecomes, StoreFileBecomes, StartMoveBecomes, MoveDocumentBecomes,
     RestoreDocumentBecomes, ReadFolderBecomes, ReadRecipientsBecomes, CreateFolderBecomes,
     ReadParentBecomes, StartGiveBecomes DEF Inherit
<1> QED BY <1>1, <1>2, <1>3, FailBecomes

\* The stages that the steps of each kind lead to
LEMMA Turns ==
    ASSUME TypeOK, Sound, NEW o \in Ops
    PROVE  /\ Share(o) => op'[o].pc \in {"grant", "write", "list", "find", "docs", "key", "below",
                                         "subs", "strays", "done"}
           /\ Inherit(o) => op'[o].pc \in {"stream", "place", "inherit", "shared", "docs", "parent",
                                           "subs", "done"}
           /\ Revoke(o) => \/ FindHeld(o)
                           \/ op'[o].pc \in {"off", "tree", "suboff", "held", "remain", "unflag",
                                             "grant", "done"}
<1>1. ASSUME Share(o)
      PROVE  op'[o].pc \in {"grant", "write", "list", "find", "docs", "key", "below", "subs",
                           "strays", "done"}
  BY <1>1, StartShareBecomes, FindGrantBecomes, WriteGrantBecomes, SetFlagBecomes,
     ReadSharedUsersBecomes, ApplyToExistingDocumentsBecomes, ReadKeysBecomes, CopyKeyBecomes,
     EndDocumentsBecomes, FindSubfoldersBecomes, InsertRowBecomes, FlagSubfoldersBecomes DEF Share
<1>2. ASSUME Inherit(o)
      PROVE  op'[o].pc \in {"stream", "place", "inherit", "shared", "docs", "parent", "subs", "done"}
  BY <1>2, StartUploadBecomes, StoreFileBecomes, StartMoveBecomes, MoveDocumentBecomes,
     RestoreDocumentBecomes, ReadFolderBecomes, ReadRecipientsBecomes, CreateFolderBecomes,
     ReadParentBecomes, StartGiveBecomes DEF Inherit
<1>3. ASSUME Revoke(o), ~FindHeld(o)
      PROVE  op'[o].pc \in {"off", "tree", "suboff", "held", "remain", "unflag", "grant", "done"}
  BY <1>3, StartRevokeBecomes, DeactivateBecomes, FindTreeBecomes, DeactivateBelowBecomes,
     DeactivateKeysBecomes, ReadRemainingBecomes, ClearFlagBecomes, TakeDocumentBecomes DEF Revoke
<1> QED BY <1>1, <1>2, <1>3

-----------------------------------------------------------------------------
(* Type correctness, and what is there *)

LEMMA FaultsKept ==
    ASSUME NEW o \in Ops, Share(o) \/ Revoke(o) \/ Inherit(o)
    PROVE  faults' = faults
<1>1. ASSUME Share(o) PROVE faults' = faults
  BY <1>1, Zenon DEF Share, StartShare, FindGrant, WriteGrant, SetFlag,
     ReadSharedUsers, ApplyToExistingDocuments, ReadKeys, CopyKey, EndDocuments, FindSubfolders,
     InsertRow, FlagSubfolders, EndStrays
<1>2. ASSUME Revoke(o) PROVE faults' = faults
  BY <1>2, Zenon DEF Revoke, StartRevoke, Deactivate, FindTree, DeactivateBelow, FindHeld,
     DeactivateKeys, ReadRemaining, ClearFlag, TakeDocument
<1>3. ASSUME Inherit(o) PROVE faults' = faults
  BY <1>3, Zenon DEF Inherit, StartUpload, StoreFile, StartMove, MoveDocument, RestoreDocument,
     Put, ReadFolder, ReadRecipients, CreateFolder, ReadParent, StartGive, history
<1> QED BY <1>1, <1>2, <1>3

LEMMA CountersTyped ==
    ASSUME TypeOK, NEW o \in Ops, Share(o) \/ Revoke(o) \/ Inherit(o) \/ Fail(o)
    PROVE  faults' \in 0 .. MaxFaults /\ (faults' = 0 => faults = 0)
<1>1. faults \in 0 .. MaxFaults
  BY DEF TypeOK
<1>2. Fail(o) => faults < MaxFaults /\ faults' = faults + 1
  BY DEF Fail, FailQuery, FailMove, FailOriginal, StopRequest
<1>3. Share(o) \/ Revoke(o) \/ Inherit(o) => faults' = faults
  BY FaultsKept
<1> QED BY <1>1, <1>2, <1>3, SharingAssumption

\* Documents are taken by TakeDocument alone, and given back by CopyKey alone
LEMMA TakenStep ==
    ASSUME NEW o \in Ops, Share(o) \/ Revoke(o) \/ Inherit(o) \/ Fail(o)
    PROVE  taken' = taken \/ CopyKey(o) \/ TakeDocument(o)
<1>1. ASSUME Share(o) PROVE taken' = taken \/ CopyKey(o)
  BY <1>1, Zenon DEF Share, StartShare, FindGrant, WriteGrant, SetFlag,
     ReadSharedUsers, ApplyToExistingDocuments, ReadKeys, EndDocuments, FindSubfolders,
     InsertRow, FlagSubfolders, EndStrays
<1>2. ASSUME Revoke(o) PROVE taken' = taken \/ TakeDocument(o)
  BY <1>2, Zenon DEF Revoke, StartRevoke, Deactivate, FindTree, DeactivateBelow, FindHeld,
     DeactivateKeys, ReadRemaining, ClearFlag
<1>3. ASSUME Inherit(o) PROVE taken' = taken
  BY <1>3, Zenon DEF Inherit, StartUpload, StoreFile, StartMove, MoveDocument, RestoreDocument,
     Put, ReadFolder, ReadRecipients, CreateFolder, ReadParent, StartGive, history
<1>4. ASSUME Fail(o) PROVE taken' = taken
  BY <1>4, Zenon DEF Fail, FailQuery, FailMove, FailOriginal, StopRequest
<1> QED BY <1>1, <1>2, <1>3, <1>4

LEMMA TakenTyped ==
    ASSUME TypeOK, Sound, NEW o \in Ops, Share(o) \/ Revoke(o) \/ Inherit(o) \/ Fail(o)
    PROVE  taken' \in Takings
<1>1. taken \in Takings
  BY DEF TypeOK, Takings
<1>2. CASE CopyKey(o)
  <2>1. PICK d \in Docs, u \in Users : taken' = [taken EXCEPT ![d][u] = FALSE]
    <3>1. op[o].doc \in Docs /\ op[o].user \in Users
      BY Typed DEF OpSet
    <3> QED BY <1>2, <3>1 DEF CopyKey
  <2> QED BY <1>1, <2>1 DEF Takings
<1>3. CASE TakeDocument(o)
  <2>1. PICK d \in Docs, u \in Users : taken' = [taken EXCEPT ![d][u] = TRUE]
    BY <1>3, Zenon DEF TakeDocument
  <2> QED BY <1>1, <2>1 DEF Takings
<1> QED BY <1>1, <1>2, <1>3, TakenStep

LEMMA TypingNext ==
    ASSUME TypeOK, Sound, NEW o \in Ops, Share(o) \/ Revoke(o) \/ Inherit(o) \/ Fail(o)
    PROVE  TypeOK'
<1>1. Persist /\ Became(o)
  BY TablesPersist, Becomes
<1>2. /\ op' \in [Ops -> OpSet] /\ mixed' \in [Users -> BOOLEAN]
      /\ \A p \in Ops \ {o} : Alike(op'[p], op[p])
      /\ InRange(op'[o], grant', key')
  BY <1>1 DEF Became, Steps
<1>3. ASSUME NEW p \in Ops \ {o} PROVE InRange(op'[p], grant', key')
  <2>1. op[p] \in OpSet /\ InRange(op[p], grant, key)
    BY Typed DEF TypeOK, InRange
  <2>2. /\ op'[p].pc = op[p].pc /\ op'[p].folder = op[p].folder /\ op'[p].user = op[p].user
        /\ op'[p].doc = op[p].doc /\ op'[p].row = op[p].row
    BY <1>2, <2>1, AlikeFields
  <2>3. op[p].user \in Users /\ op[p].doc \in Docs /\ op[p].row \in Nat
    BY <2>1 DEF OpSet
  <2>4. op[p].pc = "write" => op[p].folder \in Folders
    BY Zenon DEF Sound, Staged
  <2>5. op[p].pc = "write" => op[p].row \in 0 .. Len(grant'[op[p].folder][op[p].user])
    <3> SUFFICES ASSUME op[p].pc = "write"
                 PROVE  op[p].row \in 0 .. Len(grant'[op[p].folder][op[p].user])
      OBVIOUS
    <3> DEFINE a == Len(grant[op[p].folder][op[p].user])
               b == Len(grant'[op[p].folder][op[p].user])
    <3>1. a \in Nat /\ op[p].row \in 0 .. a
      BY <2>1, <2>3, <2>4, Typed, RowsTyped DEF InRange
    <3>2. b \in Nat /\ a <= b
      <4>1. grant'[op[p].folder][op[p].user] \in Seq(BOOLEAN)
        BY <1>1, <2>3, <2>4 DEF Persist, GrantPart, Rows
      <4> QED BY <1>1, <2>3, <2>4, <4>1, RowsTyped DEF Persist, GrantPart
    <3> HIDE DEF a, b
    <3>3. op[p].row \in 0 .. b
      BY <2>3, <3>1, <3>2
    <3> QED BY <3>3 DEF b
  <2>6. op[p].pc = "key" => op[p].row \in 0 .. Len(key'[op[p].doc][op[p].user])
    <3> SUFFICES ASSUME op[p].pc = "key"
                 PROVE  op[p].row \in 0 .. Len(key'[op[p].doc][op[p].user])
      OBVIOUS
    <3> DEFINE a == Len(key[op[p].doc][op[p].user])
               b == Len(key'[op[p].doc][op[p].user])
    <3>1. a \in Nat /\ op[p].row \in 0 .. a
      BY <2>1, <2>3, Typed, KeysTyped, Zenon DEF InRange
    <3>2. b \in Nat /\ a <= b
      <4>1. key'[op[p].doc][op[p].user] \in Seq(KeySet)
        BY <1>1, <2>3 DEF Persist, KeyPart, KeyRows
      <4> QED BY <1>1, <2>3, <4>1, KeysTyped, Zenon DEF Persist, KeyPart
    <3> HIDE DEF a, b
    <3>3. op[p].row \in 0 .. b
      BY <2>3, <3>1, <3>2
    <3> QED BY <3>3 DEF b
  <2> QED BY <2>2, <2>5, <2>6 DEF InRange
<1>4. \A p \in Ops : InRange(op'[p], grant', key')
  BY <1>2, <1>3
<1>5. faults' \in 0 .. MaxFaults /\ taken' \in Takings
  BY CountersTyped, TakenTyped
<1> QED BY <1>1, <1>2, <1>4, <1>5
     DEF TypeOK, Takings, InRange, Persist, FolderPart, GrantPart, DocPart, KeyPart, Rows, Flags, KeyRows

LEMMA TypingRecord ==
    ASSUME TypeOK, Sound, NEW d \in Docs, RecordKey(d)
    PROVE  TypeOK'
<1>1. Persist
  BY RecordPersist
<1>2. op' = op /\ faults' = faults /\ mixed' = mixed /\ grant' = grant /\ taken' = taken
  BY DEF RecordKey, history
<1>3. \A e \in Docs, u \in Users : Len(key'[e][u]) = Len(key[e][u])
  BY RecordKeyEffect
<1>4. \A o \in Ops : op[o].doc \in Docs /\ op[o].user \in Users
  BY Typed DEF OpSet
<1> QED BY <1>1, <1>2, <1>3, <1>4
     DEF TypeOK, Persist, FolderPart, GrantPart, DocPart, KeyPart, Rows, Flags, KeyRows


\* The parts of Sound
SoundFolders == \A f \in Folders : /\ folder[f].up < f
                                   /\ There(f) /\ folder[f].up # Root => There(folder[f].up)
SoundGrants == \A f \in Folders, u \in Users : /\ ~There(f) => grant[f][u] = << >>
                                               /\ direct[f][u] => On(grant[f][u])
SoundDocs == \A d \in Docs : doc[d].folder # Root => There(doc[d].folder)
SoundKeys == \A d \in Docs :
                /\ doc[d].st = "new" => \A u \in Users : key[d][u] = << >>
                /\ doc[d].st # "new" => key[d][doc[d].owner] # << >>

LEMMA SoundParts ==
    /\ Sound => SoundFolders /\ SoundGrants /\ SoundDocs /\ SoundKeys
    /\ SoundFolders /\ SoundGrants /\ SoundDocs /\ SoundKeys /\
       (\A o \in Ops : Staged(op[o], folder, doc))
          => Sound
BY DEF Sound, SoundFolders, SoundGrants, SoundDocs, SoundKeys

LEMMA StagedNext ==
    ASSUME TypeOK, Sound, NEW o \in Ops, Share(o) \/ Revoke(o) \/ Inherit(o) \/ Fail(o)
    PROVE  \A p \in Ops : Staged(op'[p], folder', doc')
<1>1. Persist /\ Became(o)
  BY TablesPersist, Becomes
<1>2. Staged(op'[o], folder', doc') /\ \A p \in Ops \ {o} : Alike(op'[p], op[p])
  BY <1>1 DEF Became, Steps
<1>3. ASSUME NEW p \in Ops \ {o} PROVE Staged(op'[p], folder', doc')
  <2>1. op[p] \in OpSet /\ Staged(op[p], folder, doc)
    BY Typed DEF Sound
  <2>2. Staged(op[p], folder', doc')
    BY <1>1, <2>1, StagedCarried
  <2> QED BY <1>2, <2>1, <2>2, StagedAlike
<1> QED BY <1>2, <1>3

LEMMA FoldersSame ==
    ASSUME TypeOK, Sound, folder' = folder \/ Stand
    PROVE  /\ SoundFolders'
           /\ grant' = grant /\ direct' = direct => SoundGrants'
           /\ doc' = doc => SoundDocs'
<1>1. SoundFolders /\ SoundGrants /\ SoundDocs
  BY SoundParts
<1>2. \A g \in Folders : folder'[g].up = folder[g].up /\ folder'[g].there = folder[g].there
  BY DEF Stand
<1>3. /\ \A f \in Folders : folder[f].up # Root => folder[f].up \in Folders
      /\ \A d \in Docs : doc[d].folder # Root => doc[d].folder \in Folders
  BY Typed, Constants DEF FolderSet, DocSet
<1>4. SoundFolders'
  BY <1>1, <1>2, <1>3 DEF SoundFolders, There
<1>5. grant' = grant /\ direct' = direct => SoundGrants'
  BY <1>1, <1>2 DEF SoundGrants, There
<1>6. doc' = doc => SoundDocs'
  BY <1>1, <1>2, <1>3 DEF SoundDocs, There
<1> QED BY <1>4, <1>5, <1>6


SoundTables == SoundFolders /\ SoundGrants /\ SoundDocs /\ SoundKeys

LEMMA TablesSame ==
    ASSUME Sound
    PROVE  /\ folder' = folder => SoundFolders'
           /\ folder' = folder /\ grant' = grant /\ direct' = direct => SoundGrants'
           /\ folder' = folder /\ doc' = doc => SoundDocs'
           /\ doc' = doc /\ key' = key => SoundKeys'
           /\ UNCHANGED <<tables, direct, lost>> => SoundTables'
<1>1. SoundFolders /\ SoundGrants /\ SoundDocs /\ SoundKeys
  BY SoundParts
<1>2. folder' = folder => SoundFolders'
  BY <1>1 DEF SoundFolders, There
<1>3. folder' = folder /\ grant' = grant /\ direct' = direct => SoundGrants'
  BY <1>1 DEF SoundGrants, There
<1>4. folder' = folder /\ doc' = doc => SoundDocs'
  BY <1>1 DEF SoundDocs, There
<1>5. doc' = doc /\ key' = key => SoundKeys'
  BY <1>1 DEF SoundKeys
<1> QED BY <1>2, <1>3, <1>4, <1>5 DEF tables, SoundTables

LEMMA GrantsSound ==
    ASSUME TypeOK, Sound, NEW o \in Ops,
           WriteGrant(o) \/ InsertRow(o) \/ Deactivate(o) \/ DeactivateBelow(o)
    PROVE  SoundTables'
<1>1. SoundGrants /\ Staged(op[o], folder, doc)
  BY SoundParts DEF Sound
<1>2. folder' = folder /\ doc' = doc /\ key' = key
  BY Zenon DEF WriteGrant, InsertRow, Deactivate, DeactivateBelow
<1>3. ASSUME WriteGrant(o) PROVE SoundGrants'
  <2>1. op[o].folder \in Folders /\ folder[op[o].folder].there
    BY <1>1, <1>3 DEF WriteGrant, Staged
  <2>2. \A g \in Folders, w \in Users :
           \/ g = op[o].folder /\ w = op[o].user /\ On(grant'[g][w])
           \/ grant'[g][w] = grant[g][w] /\ direct'[g][w] = direct[g][w]
    BY <1>3, WriteGrantEffect
  <2> QED BY <1>1, <1>2, <2>1, <2>2 DEF SoundGrants, There
<1>4. ASSUME InsertRow(o) PROVE SoundGrants'
  <2>1. PICK gu \in op[o].subs : Inserted(gu)
    BY <1>4, Zenon DEF InsertRow, Inserted
  <2>2. gu[1] \in Folders /\ There(gu[1])
    BY <2>1, InsertRowEffect
  <2>3. \A g \in Folders, w \in Users :
           \/ g = gu[1] /\ w = gu[2] /\ On(grant'[g][w])
           \/ grant'[g][w] = grant[g][w]
    BY <2>1, InsertRowEffect
  <2>4. direct' = direct
    BY <1>4 DEF InsertRow
  <2> QED BY <1>1, <1>2, <2>2, <2>3, <2>4 DEF SoundGrants, There
<1>5. ASSUME Deactivate(o) PROVE SoundGrants'
  <2>1. \A g \in Folders, w \in Users :
           \/ grant'[g][w] = Off(grant[g][w]) /\ ~direct'[g][w]
           \/ grant'[g][w] = grant[g][w] /\ direct'[g][w] = direct[g][w]
    BY <1>5, DeactivateEffect
  <2>2. \A g \in Folders, w \in Users : grant[g][w] = << >> => Off(grant[g][w]) = << >>
    BY Typed, RowsTyped, Zenon
  <2> QED BY <1>1, <1>2, <2>1, <2>2 DEF SoundGrants, There
<1>6. ASSUME DeactivateBelow(o) PROVE SoundGrants'
  <2>1. \A g \in Folders, w \in Users :
           \/ grant'[g][w] = Off(grant[g][w]) /\ ~direct'[g][w]
           \/ grant'[g][w] = grant[g][w] /\ direct'[g][w] = direct[g][w]
    BY <1>6, DeactivateBelowEffect
  <2>2. \A g \in Folders, w \in Users : grant[g][w] = << >> => Off(grant[g][w]) = << >>
    BY Typed, RowsTyped, Zenon
  <2> QED BY <1>1, <1>2, <2>1, <2>2 DEF SoundGrants, There
<1> QED BY <1>2, <1>3, <1>4, <1>5, <1>6, TablesSame DEF SoundTables

LEMMA FoldersSound ==
    ASSUME TypeOK, Sound, NEW o \in Ops,
           SetFlag(o) \/ FlagSubfolders(o) \/ ClearFlag(o) \/ CreateFolder(o)
    PROVE  SoundTables'
<1>1. grant' = grant /\ doc' = doc /\ key' = key /\ direct' = direct
  BY Zenon DEF SetFlag, FlagSubfolders, ClearFlag, CreateFolder
<1>2. ASSUME SetFlag(o) \/ FlagSubfolders(o) \/ ClearFlag(o) PROVE SoundTables'
  <2>1. Stand
    BY <1>2, FlagsEffect
  <2> QED BY <1>1, <2>1, FoldersSame, TablesSame DEF SoundTables
<1>3. ASSUME CreateFolder(o) PROVE SoundTables'
  <2>1. PICK f \in Folders : /\ Created(f) /\ (folder[f].up # Root => There(folder[f].up))
    BY <1>3, CreateFolderBecomes
  <2>2. \A g \in Folders : /\ folder'[g].up = folder[g].up
                           /\ folder'[g].there <=> folder[g].there \/ g = f
    BY <2>1, CreateFolderEffect, Zenon DEF Created
  <2>3. SoundFolders /\ SoundGrants /\ SoundDocs
    BY SoundParts
  <2>4. /\ \A g \in Folders : folder[g].up # Root => folder[g].up \in Folders
        /\ \A d \in Docs : doc[d].folder # Root => doc[d].folder \in Folders
    BY Typed, Constants DEF FolderSet, DocSet
  <2>5. SoundFolders'
    BY <2>1, <2>2, <2>3, <2>4 DEF SoundFolders, There
  <2>6. SoundGrants'
    BY <1>1, <2>2, <2>3 DEF SoundGrants, There
  <2>7. SoundDocs'
    BY <1>1, <2>2, <2>3, <2>4 DEF SoundDocs, There
  <2> QED BY <1>1, <2>5, <2>6, <2>7, TablesSame DEF SoundTables
<1> QED BY <1>2, <1>3

LEMMA DocsSound ==
    ASSUME TypeOK, Sound, NEW o \in Ops,
           StartUpload(o) \/ StoreFile(o) \/ MoveDocument(o) \/ RestoreDocument(o)
    PROVE  SoundTables'
<1>1. folder' = folder /\ grant' = grant /\ direct' = direct
  BY Zenon DEF StartUpload, StoreFile, MoveDocument, RestoreDocument, Put, history
<1>2. SoundDocs /\ SoundKeys
  BY SoundParts
<1>3. ASSUME StartUpload(o) PROVE SoundDocs' /\ SoundKeys'
  <2>1. PICK d \in Docs, u \in Users, f \in 0 .. NFolders :
           Uploaded(o, d, u, f) /\ (f # Root => There(f))
    BY <1>3, StartUploadBecomes
  <2>2. PICK good \in BOOLEAN :
           /\ doc[d].st = "new"
           /\ doc' = [doc EXCEPT ![d] = [st |-> "open", owner |-> u, folder |-> f]]
           /\ key' = [key EXCEPT ![d][u] = <<[good |-> good, active |-> TRUE]>>]
    BY <2>1, Zenon DEF Uploaded
  <2>3. /\ \A e \in Docs : e # d => doc'[e] = doc[e]
        /\ doc'[d].st = "open" /\ doc'[d].owner = u /\ doc'[d].folder = f
    BY <2>2, StartUploadEffect, Zenon
  <2>4. key'[d][u] # << >> /\ \A e \in Docs, w \in Users : e # d => key'[e][w] = key[e][w]
    <3>1. \A e \in Docs, w \in Users :
             IF e = d THEN IF w = u THEN key'[e][w] # << >> ELSE key'[e][w] = << >>
             ELSE key'[e][w] = key[e][w]
      BY <2>2, StartUploadEffect, Zenon
    <3> QED BY <3>1
  <2>5. SoundDocs'
    BY <1>1, <1>2, <2>1, <2>3 DEF SoundDocs, There
  <2>6. \A e \in Docs : doc[e].owner \in Users
    BY Typed DEF DocSet
  <2>7. SoundKeys'
    BY <1>2, <2>3, <2>4, <2>6 DEF SoundKeys
  <2> QED BY <2>5, <2>7
<1>4. ASSUME StoreFile(o) PROVE SoundDocs' /\ SoundKeys'
  <2>1. \A e \in Docs : /\ doc'[e].owner = doc[e].owner /\ doc'[e].folder = doc[e].folder
                        /\ doc'[e].st = "new" <=> doc[e].st = "new"
    BY <1>4, StoreFileEffect
  <2>2. key' = key
    BY <1>4 DEF StoreFile
  <2> QED BY <1>1, <1>2, <2>1, <2>2 DEF SoundDocs, SoundKeys, There
<1>5. ASSUME MoveDocument(o) \/ RestoreDocument(o) PROVE SoundDocs' /\ SoundKeys'
  <2>1. PICK d \in Docs, f \in 0 .. NFolders : Moved(d, f) /\ (f # Root => There(f))
    BY <1>5, MoveDocumentBecomes, RestoreDocumentBecomes
  <2>2. \A e \in Docs : /\ doc'[e].owner = doc[e].owner /\ doc'[e].st = doc[e].st
                        /\ doc'[e].folder = IF e = d THEN f ELSE doc[e].folder
    BY <2>1, MoveDocumentEffect, Zenon DEF Moved
  <2>3. key' = key
    BY <1>5, Zenon DEF MoveDocument, RestoreDocument, Put
  <2>4. SoundDocs'
    BY <1>1, <1>2, <2>1, <2>2 DEF SoundDocs, There
  <2>5. SoundKeys'
    BY <1>2, <2>2, <2>3 DEF SoundKeys
  <2> QED BY <2>4, <2>5
<1> QED BY <1>1, <1>3, <1>4, <1>5, TablesSame DEF SoundTables

LEMMA KeysKept ==
    ASSUME TypeOK, Sound, doc' = doc, key' \in KeyRows,
           \A e \in Docs, w \in Users :
              /\ Len(key[e][w]) <= Len(key'[e][w])
              /\ doc[e].st = "new" /\ key[e][w] = << >> => key'[e][w] = << >>
    PROVE  SoundKeys'
<1>1. SoundKeys
  BY SoundParts
<1>2. \A e \in Docs, w \in Users :
         /\ key[e][w] \in Seq(KeySet) /\ key'[e][w] \in Seq(KeySet)
  BY Typed DEF KeyRows
<1>3. \A e \in Docs, w \in Users : key[e][w] # << >> => key'[e][w] # << >>
  <2> SUFFICES ASSUME NEW e \in Docs, NEW w \in Users, key[e][w] # << >>, key'[e][w] = << >>
               PROVE  FALSE
    OBVIOUS
  <2>1. Len(key'[e][w]) = 0 /\ Len(key[e][w]) \in Nat /\ Len(key[e][w]) # 0
    BY <1>2, KeysTyped
  <2> QED BY <2>1
<1>4. \A e \in Docs : doc[e].owner \in Users
  BY Typed DEF DocSet
<1> QED BY <1>1, <1>3, <1>4 DEF SoundKeys

LEMMA KeysSound ==
    ASSUME TypeOK, Sound, NEW o \in Ops,
           CopyKey(o) \/ DeactivateKeys(o) \/ TakeDocument(o)
    PROVE  SoundTables'
<1>1. folder' = folder /\ grant' = grant /\ direct' = direct /\ doc' = doc
  BY Zenon DEF CopyKey, DeactivateKeys, TakeDocument
<1>2. ASSUME CopyKey(o) PROVE SoundKeys'
  <2>1. key' \in KeyRows /\ doc[op[o].doc].st # "new"
    BY <1>2, CopyKeyEffect, Zenon
  <2>2. \A e \in Docs, w \in Users : Len(key[e][w]) <= Len(key'[e][w])
    BY <1>2, CopyKeyEffect, Zenon
  <2>3. \A e \in Docs, w \in Users : e # op[o].doc => key'[e][w] = key[e][w]
    BY <1>2, CopyKeyEffect, Zenon
  <2> QED BY <1>1, <2>1, <2>2, <2>3, KeysKept
<1>3. ASSUME DeactivateKeys(o) PROVE SoundKeys'
  BY <1>1, <1>3, DeactivateKeysEffect, KeysKept
<1>4. ASSUME TakeDocument(o) PROVE SoundKeys'
  <2>1. PICK d \in Docs, u \in Users : Withdrawn(d, u)
    BY <1>4, TakeDocumentBecomes
  <2> QED BY <1>1, <2>1, TakeDocumentEffect, KeysKept
<1> QED BY <1>1, <1>2, <1>3, <1>4, TablesSame DEF SoundTables

LEMMA SoundNext ==
    ASSUME TypeOK, Sound, NEW o \in Ops, Share(o) \/ Revoke(o) \/ Inherit(o) \/ Fail(o)
    PROVE  Sound'
<1>1. SoundTables'
  BY GrantsSound, FoldersSound, DocsSound, KeysSound, QuietPersist, TablesSame DEF Share,
     Revoke, Inherit
<1>2. \A p \in Ops : Staged(op'[p], folder', doc')
  BY StagedNext
<1> QED BY <1>1, <1>2 DEF Sound, SoundTables, SoundFolders, SoundGrants, SoundDocs, SoundKeys

LEMMA SoundRecord ==
    ASSUME TypeOK, Sound, NEW d \in Docs, RecordKey(d)
    PROVE  Sound'
<1>1. folder' = folder /\ grant' = grant /\ direct' = direct /\ doc' = doc /\ op' = op
  BY DEF RecordKey, history
<1>2. SoundKeys'
  <2>1. \A e \in Docs, w \in Users : key[e][w] = << >> => key'[e][w] = << >>
    <3>1. \A e \in Docs, w \in Users : key[e][w] \in Seq(KeySet) /\ key'[e][w] \in Seq(KeySet)
      BY Typed, RecordKeyEffect DEF KeyRows
    <3> QED BY <3>1, RecordKeyEffect, KeysTyped
  <2>2. \A e \in Docs, w \in Users : Len(key[e][w]) <= Len(key'[e][w]) /\ key' \in KeyRows
    <3>1. \A e \in Docs, w \in Users : Len(key[e][w]) \in Nat /\ Len(key'[e][w]) = Len(key[e][w])
      BY Typed, KeysTyped, RecordKeyEffect
    <3> QED BY <3>1, RecordKeyEffect
  <2>3. key' \in KeyRows
    BY RecordKeyEffect
  <2> QED BY <1>1, <2>1, <2>2, <2>3, KeysKept
<1>3. SoundTables'
  BY <1>1, <1>2, TablesSame DEF SoundTables
<1>4. \A p \in Ops : Staged(op'[p], folder', doc')
  BY <1>1 DEF Sound
<1> QED BY <1>3, <1>4 DEF Sound, SoundTables, SoundFolders, SoundGrants, SoundDocs, SoundKeys


-----------------------------------------------------------------------------
(* Revocations *)

\* Folders that were not there may have come below a folder, and nothing else
LEMMA BelowGrows ==
    ASSUME TypeOK, Sound, Persist, NEW f \in Folders, There(f)
    PROVE  Below(folder', f) \subseteq Below(folder, f) \cup {g \in Folders : ~There(g)}
<1> DEFINE G == {g \in Folders : ~There(g)}
<1>1. G \in SUBSET Folders /\ f \notin G
  OBVIOUS
<1>2. SoundFolders
  BY SoundParts
<1>3. \A g \in Folders \ G : /\ folder'[g].up = folder[g].up /\ folder'[g].owner = folder[g].owner
                             /\ folder[g].there /\ folder[g].up \notin G
  BY <1>2, Constants DEF Persist, FolderPart, SoundFolders, There
<1> HIDE DEF G
<1>4. Below(folder', f) \subseteq Below(folder, f) \cup G
  BY <1>1, <1>3, BelowMostly
<1> QED BY <1>4 DEF G

LEMMA TakenAlike ==
    ASSUME NEW q \in OpSet, NEW r, Alike(r, q), NEW fo, NEW gr, NEW do, NEW ke,
           Taken(q, fo, gr, do, ke)
    PROVE  Taken(r, fo, gr, do, ke)
BY AlikeFields DEF Taken

\* The user gets hold of nothing by the step
Calm(u) ==
    /\ \A g \in Folders : On(grant'[g][u]) => On(grant[g][u])
    /\ \A d \in Docs, g \in Folders : Reads(d, g, u, doc', key') => Reads(d, g, u, doc, key)

LEMMA TakenKept ==
    ASSUME TypeOK, Sound, Persist, NEW q \in OpSet, There(q.folder), q.folder \in Folders,
           Calm(q.user), Taken(q, folder, grant, doc, key)
    PROVE  Taken(q, folder', grant', doc', key')
<1> DEFINE f == q.folder
           u == q.user
           G == {g \in Folders : ~There(g)}
           B == Below(folder, f)
           C == Below(folder', f)
           A(g) == On(grant[g][u])
           A2(g) == On(grant'[g][u])
           R(d, g) == Reads(d, g, u, doc, key)
           R2(d, g) == Reads(d, g, u, doc', key')
<1>1. C \subseteq B \cup G
  BY BelowGrows
<1>2. ASSUME NEW g \in G PROVE ~A(g) /\ \A d \in Docs : ~R(d, g)
  <2>1. SoundGrants /\ SoundDocs /\ u \in Users
    BY SoundParts DEF OpSet
  <2>2. ~A(g)
    BY <2>1, Typed, RowsTyped, Zenon DEF SoundGrants
  <2>3. \A d \in Docs : ~R(d, g)
    BY <2>1, Constants DEF SoundDocs, Reads
  <2> QED BY <2>2, <2>3
<1>3. /\ q.pc \in {"tree", "suboff", "held", "keysoff", "remain", "unflag"} => ~A(f)
      /\ q.pc = "suboff" => \A g \in B \ q.below : ~A(g)
      /\ q.pc \in {"held", "keysoff", "remain", "unflag"} => \A g \in B : ~A(g)
      /\ q.pc \in {"suboff", "held"} => \A g \in B \ q.below, d \in Docs : ~R(d, g)
      /\ q.pc = "keysoff" => \A g \in {f} \cup B, d \in Docs \ q.held : ~R(d, g)
      /\ q.pc \in {"remain", "unflag"} => \A g \in {f} \cup B, d \in Docs : ~R(d, g)
  BY DEF Taken
<1>4. /\ \A g \in C : g \in B \cup G /\ g \in Folders
      /\ f \in Folders
  BY <1>1, BelowThere
<1>5. /\ \A g \in Folders : A2(g) => A(g)
      /\ \A d \in Docs, g \in Folders : R2(d, g) => R(d, g)
      /\ \A g \in G : ~A(g) /\ \A d \in Docs : ~R(d, g)
  BY <1>2 DEF Calm
<1> HIDE DEF A, A2, R, R2, B, C, G
<1>6. /\ q.pc \in {"tree", "suboff", "held", "keysoff", "remain", "unflag"} => ~A2(f)
      /\ q.pc = "suboff" => \A g \in C \ q.below : ~A2(g)
      /\ q.pc \in {"held", "keysoff", "remain", "unflag"} => \A g \in C : ~A2(g)
  BY <1>3, <1>4, <1>5
<1>7. q.pc \in {"suboff", "held"} => \A g \in C \ q.below, d \in Docs : ~R2(d, g)
  BY <1>3, <1>4, <1>5
<1>8. q.pc = "keysoff" => \A g \in {f} \cup C, d \in Docs \ q.held : ~R2(d, g)
  BY <1>3, <1>4, <1>5
<1>9. q.pc \in {"remain", "unflag"} => \A g \in {f} \cup C, d \in Docs : ~R2(d, g)
  BY <1>3, <1>4, <1>5
<1> QED BY <1>6, <1>7, <1>8, <1>9 DEF Taken, A2, R2, C

LEMMA CalmWhen ==
    ASSUME NEW u
    PROVE  /\ UNCHANGED <<tables, direct, lost>> => Calm(u)
           /\ (\A g \in Folders : On(grant'[g][u]) => On(grant[g][u])) /\ doc' = doc /\
              key' = key => Calm(u)
           /\ grant' = grant /\ doc' = doc /\
              (\A d \in Docs : Active(key'[d][u]) => Active(key[d][u]))
                 => Calm(u)
BY DEF Calm, Reads, tables

LEMMA CalmNext ==
    ASSUME TypeOK, Sound, NEW o \in Ops, Share(o) \/ Revoke(o) \/ Inherit(o) \/ Fail(o),
           NEW p \in Ops \ {o}, Revokes(p)
    PROVE  op'[p].met \/ Calm(op[p].user)
<1> DEFINE u == op[p].user
<1>1. u \in Users
  BY Typed DEF OpSet
<1>2. ASSUME WriteGrant(o) PROVE op'[p].met \/ Calm(u)
  <2>1. CASE op[o].user = u
    BY <1>2, <2>1, WriteGrantBecomes DEF Warned
  <2>2. CASE op[o].user # u
    <3>1. doc' = doc /\ key' = key
      BY <1>2 DEF WriteGrant
    <3>2. \A g \in Folders : grant'[g][u] = grant[g][u]
      BY <1>1, <1>2, <2>2, WriteGrantEffect
    <3> QED BY <3>1, <3>2, CalmWhen
  <2> QED BY <2>1, <2>2
<1>3. ASSUME InsertRow(o) PROVE op'[p].met \/ Calm(u)
  <2>1. PICK gu \in op[o].subs : Inserted(gu) /\ Warned(o, gu[2])
    BY <1>3, InsertRowBecomes
  <2>2. CASE gu[2] = u
    BY <2>1, <2>2 DEF Warned
  <2>3. CASE gu[2] # u
    <3>1. doc' = doc /\ key' = key
      BY <1>3 DEF InsertRow
    <3>2. \A g \in Folders : grant'[g][u] = grant[g][u]
      BY <1>1, <2>1, <2>3, InsertRowEffect
    <3> QED BY <3>1, <3>2, CalmWhen
  <2> QED BY <2>2, <2>3
<1>4. ASSUME Deactivate(o) PROVE Calm(u)
  <2>1. doc' = doc /\ key' = key
    BY <1>4 DEF Deactivate
  <2>2. \A g \in Folders : grant'[g][u] = grant[g][u] \/ ~On(grant'[g][u])
    BY <1>1, <1>4, DeactivateEffect
  <2> QED BY <2>1, <2>2, CalmWhen
<1>5. ASSUME DeactivateBelow(o) PROVE Calm(u)
  <2>1. doc' = doc /\ key' = key
    BY <1>5 DEF DeactivateBelow
  <2>2. \A g \in Folders : grant'[g][u] = grant[g][u] \/ ~On(grant'[g][u])
    BY <1>1, <1>5, DeactivateBelowEffect
  <2> QED BY <2>1, <2>2, CalmWhen
<1>6. ASSUME SetFlag(o) \/ FlagSubfolders(o) \/ ClearFlag(o) \/ CreateFolder(o) PROVE Calm(u)
  <2>1. grant' = grant /\ doc' = doc /\ key' = key
    BY <1>6, Zenon DEF SetFlag, FlagSubfolders, ClearFlag, CreateFolder
  <2> QED BY <2>1, CalmWhen
<1>7. ASSUME StartUpload(o) PROVE Calm(u)
  <2>1. grant' = grant
    BY <1>7 DEF StartUpload
  <2>2. PICK d \in Docs, w \in Users, f \in 0 .. NFolders : Uploaded(o, d, w, f)
    BY <1>7, StartUploadBecomes
  <2>3. PICK good \in BOOLEAN :
           /\ doc[d].st = "new"
           /\ doc' = [doc EXCEPT ![d] = [st |-> "open", owner |-> w, folder |-> f]]
           /\ key' = [key EXCEPT ![d][w] = <<[good |-> good, active |-> TRUE]>>]
    BY <2>2, Zenon DEF Uploaded
  <2>4. /\ \A e \in Docs : e # d => doc'[e] = doc[e]
        /\ doc'[d].owner = w
    BY <2>3, StartUploadEffect, Zenon
  <2>5. \A e \in Docs, v \in Users :
           IF e = d THEN IF v = w THEN key'[e][v] # << >> ELSE key'[e][v] = << >>
           ELSE key'[e][v] = key[e][v]
    BY <2>3, StartUploadEffect, Zenon
  <2>6. \A e \in Docs : e # d => key'[e][u] = key[e][u]
    BY <1>1, <2>5
  <2>7. w # u => ~Active(key'[d][u])
    <3>1. w # u => key'[d][u] = << >>
      BY <1>1, <2>5
    <3>2. << >> \in Seq(KeySet)
      OBVIOUS
    <3>3. ~Active(<< >>)
      BY <3>2, KeysTyped, Zenon
    <3> QED BY <3>1, <3>3
  <2>8. \A e \in Docs, g \in Folders : Reads(e, g, u, doc', key') => Reads(e, g, u, doc, key)
    BY <2>4, <2>6, <2>7 DEF Reads
  <2> QED BY <2>1, <2>8 DEF Calm
<1>8. ASSUME StoreFile(o) PROVE Calm(u)
  <2>1. grant' = grant /\ key' = key
    BY <1>8 DEF StoreFile
  <2>2. \A e \in Docs, g \in Folders : Reads(e, g, u, doc', key') => Reads(e, g, u, doc, key)
    BY <1>8, <2>1, StoreFileEffect DEF Reads
  <2> QED BY <2>1, <2>2 DEF Calm
<1>9. ASSUME MoveDocument(o) \/ RestoreDocument(o) PROVE op'[p].met
  BY <1>9, MoveDocumentBecomes, RestoreDocumentBecomes
<1>10. ASSUME CopyKey(o) PROVE op'[p].met \/ Calm(u)
  <2>1. CASE op[o].user = u
    BY <1>10, <2>1, CopyKeyBecomes DEF Warned
  <2>2. CASE op[o].user # u
    <3>1. doc' = doc /\ grant' = grant
      BY <1>10, Zenon DEF CopyKey
    <3>2. \A d \in Docs : key'[d][u] = key[d][u]
      BY <1>1, <1>10, <2>2, CopyKeyEffect, Zenon
    <3> QED BY <3>1, <3>2, CalmWhen
  <2> QED BY <2>1, <2>2
<1>11. ASSUME DeactivateKeys(o) PROVE Calm(u)
  <2>1. doc' = doc /\ grant' = grant
    BY <1>11 DEF DeactivateKeys
  <2>2. \A d \in Docs : key'[d][u] = key[d][u] \/ ~Active(key'[d][u])
    BY <1>1, <1>11, DeactivateKeysEffect
  <2> QED BY <2>1, <2>2, CalmWhen
<1>12. ASSUME TakeDocument(o) PROVE Calm(u)
  <2>1. doc' = doc /\ grant' = grant
    BY <1>12 DEF TakeDocument
  <2>2. PICK e \in Docs, w \in Users : Withdrawn(e, w)
    BY <1>12, TakeDocumentBecomes
  <2>3. \A d \in Docs : key'[d][u] = key[d][u] \/ ~Active(key'[d][u])
    BY <1>1, <2>2, TakeDocumentEffect
  <2> QED BY <2>1, <2>3, CalmWhen
<1>13. ASSUME UNCHANGED <<tables, direct, lost>> PROVE Calm(u)
  BY <1>13, CalmWhen
<1> QED BY <1>2, <1>3, <1>4, <1>5, <1>6, <1>7, <1>8, <1>9, <1>10, <1>11, <1>12, <1>13,
           QuietPersist DEF Share, Revoke, Inherit


RevokeStages == {"off", "tree", "suboff", "held", "keysoff", "remain", "unflag"}

LEMMA RevokeOthers ==
    ASSUME TypeOK, Sound, RevokeInv, NEW o \in Ops, Share(o) \/ Revoke(o) \/ Inherit(o) \/ Fail(o),
           NEW p \in Ops \ {o}, op'[p].pc \in RevokeStages, ~op'[p].met, ~op'[p].failed
    PROVE  Taken(op'[p], folder', grant', doc', key')
<1>1. Persist /\ Became(o)
  BY TablesPersist, Becomes
<1>2. Alike(op'[p], op[p])
  BY <1>1 DEF Became, Steps
<1>3. op[p] \in OpSet /\ Staged(op[p], folder, doc)
  BY Typed DEF Sound
<1>4. op[p].pc \in RevokeStages /\ ~op[p].met /\ ~op[p].failed
  BY <1>2, <1>3, AlikeFields
<1>5. Revokes(p) /\ op[p].folder \in Folders /\ There(op[p].folder)
  BY <1>3, <1>4 DEF Revokes, RevokeStages, Staged, There
<1>6. Taken(op[p], folder, grant, doc, key)
  BY <1>4, <1>5 DEF RevokeInv
<1>7. Calm(op[p].user)
  BY <1>5, CalmNext
<1>8. Taken(op[p], folder', grant', doc', key')
  BY <1>1, <1>3, <1>5, <1>6, <1>7, TakenKept
<1> QED BY <1>2, <1>3, <1>8, TakenAlike

LEMMA TakenOff == ASSUME NEW q, q.pc = "off", NEW fo, NEW gr, NEW do, NEW ke
                  PROVE  Taken(q, fo, gr, do, ke)
BY DEF Taken

LEMMA DeactivateTakes ==
    ASSUME TypeOK, Sound, RevokeInv, NEW o \in Ops, Deactivate(o)
    PROVE  Taken(op'[o], folder', grant', doc', key')
<1>1. /\ op'[o].pc = "tree" /\ op'[o].folder = op[o].folder /\ op'[o].user = op[o].user
  BY DeactivateBecomes
<1>2. ~On(grant'[op[o].folder][op[o].user])
  BY DeactivateEffect
<1> QED BY <1>1, <1>2 DEF Taken

LEMMA FindTreeTakes ==
    ASSUME TypeOK, Sound, RevokeInv, NEW o \in Ops, FindTree(o), ~op'[o].met, ~op'[o].failed
    PROVE  Taken(op'[o], folder', grant', doc', key')
<1>1. /\ op'[o].pc = "suboff" /\ op'[o].folder = op[o].folder /\ op'[o].user = op[o].user
      /\ op'[o].below = Below(folder, op[o].folder)
      /\ op'[o].met = op[o].met /\ op'[o].failed = op[o].failed
  BY FindTreeBecomes, DescendantsBelow
<1>2. op[o].pc = "tree" /\ Taken(op[o], folder, grant, doc, key)
  BY <1>1 DEF FindTree, RevokeInv, Revokes
<1>3. ~On(grant[op[o].folder][op[o].user])
  BY <1>2 DEF Taken
<1>4. folder' = folder /\ grant' = grant
  BY DEF FindTree, tables
<1> QED BY <1>1, <1>3, <1>4 DEF Taken

LEMMA DeactivateBelowTakes ==
    ASSUME TypeOK, Sound, RevokeInv, NEW o \in Ops, DeactivateBelow(o), ~op'[o].met, ~op'[o].failed
    PROVE  Taken(op'[o], folder', grant', doc', key')
<1> DEFINE f == op[o].folder
           u == op[o].user
           B == Below(folder, f)
           S == op[o].below
           R(d, g) == Reads(d, g, u, doc, key)
<1>1. /\ op'[o].pc = "held" /\ op'[o].folder = f /\ op'[o].user = u /\ op'[o].below = S
      /\ op'[o].met = op[o].met /\ op'[o].failed = op[o].failed
  BY DeactivateBelowBecomes
<1>2. op[o].pc = "suboff" /\ Taken(op[o], folder, grant, doc, key)
  BY <1>1 DEF DeactivateBelow, RevokeInv, Revokes
<1>3. /\ ~On(grant[f][u]) /\ \A g \in B \ S : ~On(grant[g][u])
      /\ \A g \in B \ S, d \in Docs : ~R(d, g)
  BY <1>2 DEF Taken
<1>4. folder' = folder /\ doc' = doc /\ key' = key
  BY DEF DeactivateBelow
<1>5. \A g \in Folders : IF g \in S THEN ~On(grant'[g][u]) ELSE grant'[g][u] = grant[g][u]
  BY DeactivateBelowEffect
<1>6. f \in Folders /\ \A g \in B : g \in Folders
  BY DeactivateBelowEffect, BelowThere
<1>7. ~On(grant'[f][u]) /\ \A g \in B : ~On(grant'[g][u])
  BY <1>3, <1>5, <1>6
<1> HIDE DEF R
<1>8. \A g \in B \ S, d \in Docs : ~Reads(d, g, u, doc', key')
  BY <1>3, <1>4 DEF R
<1> QED BY <1>1, <1>4, <1>7, <1>8 DEF Taken

LEMMA FindHeldTakes ==
    ASSUME TypeOK, Sound, RevokeInv, NEW o \in Ops, FindHeld(o), ~op'[o].met, ~op'[o].failed
    PROVE  Taken(op'[o], folder', grant', doc', key')
<1> DEFINE f == op[o].folder
           u == op[o].user
           B == Below(folder, f)
           S == op[o].below
<1>1. /\ op'[o].pc = "keysoff" /\ op'[o].folder = f /\ op'[o].user = u
      /\ op'[o].held = HeldBy(o)
      /\ op'[o].met = op[o].met /\ op'[o].failed = op[o].failed
  BY FindHeldBecomes
<1>2. op[o].pc = "held" /\ Taken(op[o], folder, grant, doc, key)
  BY <1>1 DEF FindHeld, RevokeInv, Revokes
<1>3. /\ ~On(grant[f][u]) /\ \A g \in B : ~On(grant[g][u])
      /\ \A g \in B \ S, d \in Docs : ~Reads(d, g, u, doc, key)
  BY <1>2 DEF Taken
<1>4. folder' = folder /\ grant' = grant /\ doc' = doc /\ key' = key
  BY DEF FindHeld, tables
<1>5. \A d \in Docs : d \in HeldBy(o) <=> doc[d].st # "new" /\ doc[d].folder \in {f} \cup S
  BY DueFacts
<1>6. \A g \in {f} \cup B, d \in Docs \ HeldBy(o) : ~Reads(d, g, u, doc, key)
  <2> SUFFICES ASSUME NEW g \in {f} \cup B, NEW d \in Docs \ HeldBy(o), Reads(d, g, u, doc, key)
               PROVE  FALSE
    OBVIOUS
  <2>1. doc[d].st # "new" /\ doc[d].folder = g
    BY DEF Reads
  <2>2. g \in B \ S
    BY <1>5, <2>1
  <2> QED BY <1>3, <2>2
<1> QED BY <1>1, <1>3, <1>4, <1>6 DEF Taken

LEMMA DeactivateKeysTakes ==
    ASSUME TypeOK, Sound, RevokeInv, NEW o \in Ops, DeactivateKeys(o), ~op'[o].met, ~op'[o].failed
    PROVE  Taken(op'[o], folder', grant', doc', key')
<1> DEFINE f == op[o].folder
           u == op[o].user
           B == Below(folder, f)
<1>1. /\ op'[o].pc = "remain" /\ op'[o].folder = f /\ op'[o].user = u
      /\ op'[o].met = op[o].met /\ op'[o].failed = op[o].failed
  BY DeactivateKeysBecomes
<1>2. op[o].pc = "keysoff" /\ Taken(op[o], folder, grant, doc, key)
  BY <1>1 DEF DeactivateKeys, RevokeInv, Revokes
<1>3. /\ ~On(grant[f][u]) /\ \A g \in B : ~On(grant[g][u])
      /\ \A g \in {f} \cup B, d \in Docs \ op[o].held : ~Reads(d, g, u, doc, key)
  BY <1>2 DEF Taken
<1>4. folder' = folder /\ grant' = grant /\ doc' = doc
  BY DEF DeactivateKeys
<1>5. \A d \in Docs : IF d \in op[o].held THEN ~Active(key'[d][u]) ELSE key'[d][u] = key[d][u]
  BY DeactivateKeysEffect
<1>6. \A g \in {f} \cup B, d \in Docs : ~Reads(d, g, u, doc', key')
  <2> SUFFICES ASSUME NEW g \in {f} \cup B, NEW d \in Docs, Reads(d, g, u, doc', key')
               PROVE  FALSE
    OBVIOUS
  <2>1. d \notin op[o].held /\ Reads(d, g, u, doc, key)
    BY <1>4, <1>5 DEF Reads
  <2> QED BY <1>3, <2>1
<1> QED BY <1>1, <1>3, <1>4, <1>6 DEF Taken

LEMMA ReadRemainingTakes ==
    ASSUME TypeOK, Sound, RevokeInv, NEW o \in Ops, ReadRemaining(o),
           op'[o].pc = "unflag", ~op'[o].met, ~op'[o].failed
    PROVE  Taken(op'[o], folder', grant', doc', key')
<1>1. /\ op'[o].folder = op[o].folder /\ op'[o].user = op[o].user
      /\ op'[o].met = op[o].met /\ op'[o].failed = op[o].failed
  BY ReadRemainingBecomes
<1>2. op[o].pc = "remain" /\ Taken(op[o], folder, grant, doc, key)
  BY <1>1 DEF ReadRemaining, RevokeInv, Revokes
<1>3. folder' = folder /\ grant' = grant /\ doc' = doc /\ key' = key
  BY DEF ReadRemaining, tables
<1>4. Taken(op'[o], folder, grant, doc, key)
  BY <1>1, <1>2 DEF Taken
<1> QED BY <1>3, <1>4

LEMMA RevokeOwn ==
    ASSUME TypeOK, Sound, RevokeInv, NEW o \in Ops, Share(o) \/ Revoke(o) \/ Inherit(o) \/ Fail(o),
           op'[o].pc \in RevokeStages, ~op'[o].met, ~op'[o].failed
    PROVE  Taken(op'[o], folder', grant', doc', key')
<1>1. Revoke(o)
  BY Turns, FailBecomes DEF RevokeStages
<1>2. CASE StartRevoke(o)
  BY <1>2, StartRevokeBecomes, TakenOff
<1>3. CASE ReadRemaining(o)
  BY <1>3, ReadRemainingBecomes, ReadRemainingTakes DEF RevokeStages
<1>4. ~ClearFlag(o) /\ ~TakeDocument(o)
  BY ClearFlagBecomes, TakeDocumentBecomes DEF RevokeStages
<1> QED BY <1>1, <1>2, <1>3, <1>4, DeactivateTakes, FindTreeTakes, DeactivateBelowTakes,
           FindHeldTakes, DeactivateKeysTakes DEF Revoke

LEMMA RevokeNext ==
    ASSUME TypeOK, Sound, RevokeInv, NEW o \in Ops, Share(o) \/ Revoke(o) \/ Inherit(o) \/ Fail(o)
    PROVE  RevokeInv'
<1>1. ASSUME NEW p \in Ops, op'[p].pc \in RevokeStages, ~op'[p].met, ~op'[p].failed
      PROVE  Taken(op'[p], folder', grant', doc', key')
  BY <1>1, RevokeOthers, RevokeOwn
<1> QED BY <1>1 DEF RevokeInv, Revokes, RevokeStages

LEMMA RevokeRecord ==
    ASSUME TypeOK, Sound, RevokeInv, NEW d \in Docs, RecordKey(d)
    PROVE  RevokeInv'
<1>1. op' = op /\ grant' = grant /\ doc' = doc /\ Persist
  BY RecordPersist, Zenon DEF RecordKey, history
<1>2. ASSUME NEW p \in Ops, op[p].pc \in RevokeStages, ~op[p].met, ~op[p].failed
      PROVE  Taken(op[p], folder', grant', doc', key')
  <2>1. op[p] \in OpSet /\ op[p].user \in Users
    BY Typed DEF OpSet
  <2>2. Revokes(p) /\ op[p].folder \in Folders /\ There(op[p].folder)
    BY <1>2, Zenon DEF Sound, Revokes, RevokeStages, Staged, There
  <2>3. Taken(op[p], folder, grant, doc, key)
    BY <1>2, <2>2 DEF RevokeInv
  <2>4. \A e \in Docs : Active(key'[e][op[p].user]) => Active(key[e][op[p].user])
    BY <2>1, RecordKeyEffect
  <2>5. Calm(op[p].user)
    BY <1>1, <2>4, CalmWhen
  <2> QED BY <1>1, <2>1, <2>2, <2>3, <2>5, TakenKept
<1> QED BY <1>1, <1>2 DEF RevokeInv, Revokes, RevokeStages


-----------------------------------------------------------------------------
(* Grants: who has been given a folder, and the folder's flag *)

LEMMA DirectNext ==
    ASSUME TypeOK, Sound, NEW o \in Ops, Share(o) \/ Revoke(o) \/ Inherit(o) \/ Fail(o),
           NEW f \in Folders, NEW u \in Users, direct'[f][u]
    PROVE  \/ WriteGrant(o) /\ f = op[o].folder /\ u = op[o].user
           \/ direct[f][u]
<1>1. CASE WriteGrant(o)
  BY <1>1, WriteGrantEffect
<1>2. CASE Deactivate(o)
  BY <1>2, DeactivateEffect
<1>3. CASE DeactivateBelow(o)
  BY <1>3, DeactivateBelowEffect
<1>4. CASE InsertRow(o) \/ SetFlag(o) \/ FlagSubfolders(o) \/ ClearFlag(o) \/ CreateFolder(o)
           \/ StartUpload(o) \/ StoreFile(o) \/ MoveDocument(o) \/ RestoreDocument(o) \/ CopyKey(o)
           \/ DeactivateKeys(o) \/ TakeDocument(o)
  <2>1. direct' = direct
    BY <1>4, Zenon DEF InsertRow, SetFlag, FlagSubfolders, ClearFlag, CreateFolder, StartUpload,
       StoreFile, MoveDocument, RestoreDocument, Put, CopyKey, DeactivateKeys, TakeDocument, history
  <2> QED BY <2>1
<1>5. CASE UNCHANGED <<tables, direct, lost>>
  BY <1>5
<1> QED BY <1>1, <1>2, <1>3, <1>4, <1>5, QuietPersist DEF Share, Revoke, Inherit

LEMMA LostNext ==
    ASSUME TypeOK, Sound, NEW o \in Ops, Share(o) \/ Revoke(o) \/ Inherit(o) \/ Fail(o),
           NEW f \in Folders, lost[f]
    PROVE  lost'[f]
<1>1. CASE ClearFlag(o)
  BY <1>1, FlagsEffect
<1>2. CASE WriteGrant(o) \/ Deactivate(o) \/ DeactivateBelow(o) \/ InsertRow(o) \/ SetFlag(o)
           \/ FlagSubfolders(o) \/ CreateFolder(o) \/ StartUpload(o) \/ StoreFile(o)
           \/ MoveDocument(o) \/ RestoreDocument(o) \/ CopyKey(o) \/ DeactivateKeys(o)
           \/ TakeDocument(o)
  <2>1. lost' = lost
    BY <1>2, Zenon DEF WriteGrant, Deactivate, DeactivateBelow, InsertRow, SetFlag,
       FlagSubfolders, CreateFolder, StartUpload, StoreFile, MoveDocument, RestoreDocument, Put,
       CopyKey, DeactivateKeys, TakeDocument, history
  <2> QED BY <2>1
<1>3. CASE UNCHANGED <<tables, direct, lost>>
  BY <1>3
<1> QED BY <1>1, <1>2, <1>3, QuietPersist DEF Share, Revoke, Inherit

LEMMA OtherSame ==
    ASSUME TypeOK, Sound, NEW o \in Ops, Share(o) \/ Revoke(o) \/ Inherit(o) \/ Fail(o),
           NEW p \in Ops \ {o}
    PROVE  /\ op[p] \in OpSet /\ Alike(op'[p], op[p])
           /\ op'[p].pc = op[p].pc /\ op'[p].folder = op[p].folder /\ op'[p].user = op[p].user
           /\ op'[p].doc = op[p].doc /\ op'[p].list = op[p].list /\ op'[p].pairs = op[p].pairs
           /\ op'[p].below = op[p].below /\ op'[p].held = op[p].held
<1>1. Alike(op'[p], op[p]) /\ op[p] \in OpSet
  BY Becomes, Typed DEF Became, Steps
<1> QED BY <1>1, AlikeFields

LEMMA MixedNext ==
    ASSUME TypeOK, Sound, NEW o \in Ops, Share(o) \/ Revoke(o) \/ Inherit(o) \/ Fail(o),
           NEW u \in Users, mixed[u]
    PROVE  mixed'[u]
BY Becomes DEF Became, Steps

LEMMA ApartOthers ==
    ASSUME TypeOK, Sound, ApartInv, NEW o \in Ops, Share(o) \/ Revoke(o) \/ Inherit(o) \/ Fail(o),
           NEW p \in Ops \ {o}, op'[p].pc \in RevokeStages, ~mixed'[op'[p].user]
    PROVE  Apart(op'[p], direct')
<1> DEFINE u == op[p].user
<1>1. /\ op[p] \in OpSet /\ op'[p].pc = op[p].pc /\ op'[p].folder = op[p].folder
      /\ op'[p].user = u /\ op'[p].below = op[p].below
  BY OtherSame
<1>2. u \in Users /\ op[p].below \subseteq Folders
  BY <1>1 DEF OpSet
<1>3. Revokes(p) /\ ~mixed[u] /\ op[p].folder \in Folders
  BY <1>1, <1>2, MixedNext, Zenon DEF Revokes, RevokeStages, Sound, Staged
<1>4. Apart(op[p], direct)
  BY <1>3 DEF ApartInv
<1>5. ASSUME NEW g \in Folders, direct'[g][u] PROVE direct[g][u]
  <2>1. ~(WriteGrant(o) /\ u = op[o].user)
    BY <1>1, <1>3, WriteGrantBecomes DEF Warned
  <2> QED BY <1>2, <1>5, <2>1, DirectNext
<1> QED BY <1>1, <1>2, <1>3, <1>4, <1>5 DEF Apart

LEMMA ApartOwn ==
    ASSUME TypeOK, Sound, ApartInv, NEW o \in Ops, Share(o) \/ Revoke(o) \/ Inherit(o),
           op'[o].pc \in RevokeStages, ~mixed'[op'[o].user]
    PROVE  Apart(op'[o], direct')
<1> DEFINE u == op[o].user
           f == op[o].folder
           Same == /\ op'[o].folder = f /\ op'[o].user = u
<1>1. Revoke(o)
  BY Turns DEF RevokeStages
<1>3. ~ClearFlag(o) /\ ~TakeDocument(o)
  BY ClearFlagBecomes, TakeDocumentBecomes DEF RevokeStages
<1>4. u \in Users /\ op[o].below \subseteq Folders
  BY Typed DEF OpSet
<1>5. Revokes(o) /\ op'[o].user = u => Apart(op[o], direct) /\ f \in Folders
  BY <1>4, MixedNext, Zenon DEF ApartInv, Revokes, Sound, Staged
<1>6. CASE StartRevoke(o)
  <2>1. op'[o].pc = "off"
    BY <1>6, StartRevokeBecomes
  <2> QED BY <2>1 DEF Apart
<1>7. CASE Deactivate(o)
  <2>1. Same /\ op'[o].pc = "tree"
    BY <1>7, DeactivateBecomes
  <2>2. ~direct'[f][u]
    BY <1>7, DeactivateEffect
  <2> QED BY <2>1, <2>2 DEF Apart
<1>8. CASE FindTree(o)
  <2>1. Same /\ op'[o].pc = "suboff" /\ direct' = direct
    BY <1>8, FindTreeBecomes, Zenon DEF FindTree
  <2>2. op[o].pc = "tree" /\ Revokes(o)
    BY <1>8 DEF FindTree, Revokes
  <2>3. ~direct[f][u]
    BY <1>5, <2>1, <2>2 DEF Apart
  <2> QED BY <2>1, <2>3 DEF Apart
<1>9. CASE DeactivateBelow(o)
  <2>1. Same /\ op'[o].pc = "held" /\ op'[o].below = op[o].below
    BY <1>9, DeactivateBelowBecomes
  <2>2. op[o].pc = "suboff" /\ Revokes(o)
    BY <1>9 DEF DeactivateBelow, Revokes
  <2>3. f \in Folders /\ ~direct[f][u]
    BY <1>5, <2>1, <2>2 DEF Apart
  <2>4. \A g \in Folders : IF g \in op[o].below THEN ~direct'[g][u] ELSE direct'[g][u] = direct[g][u]
    BY <1>4, <1>9, DeactivateBelowEffect
  <2> QED BY <1>4, <2>1, <2>3, <2>4 DEF Apart
<1>10. CASE FindHeld(o) \/ DeactivateKeys(o) \/ ReadRemaining(o)
  <2>1. Same /\ op'[o].pc \in {"keysoff", "remain", "unflag"} /\ op'[o].below = op[o].below
    BY <1>10, FindHeldBecomes, DeactivateKeysBecomes, ReadRemainingBecomes DEF RevokeStages
  <2>2. direct' = direct
    BY <1>10 DEF FindHeld, DeactivateKeys, ReadRemaining
  <2>3. op[o].pc \in {"held", "keysoff", "remain"} /\ Revokes(o)
    BY <1>10 DEF FindHeld, DeactivateKeys, ReadRemaining, Revokes
  <2>4. Apart(op[o], direct)
    BY <1>5, <2>1, <2>3
  <2> QED BY <2>1, <2>2, <2>3, <2>4 DEF Apart
<1> QED BY <1>1, <1>3, <1>6, <1>7, <1>8, <1>9, <1>10 DEF Revoke

LEMMA ApartNext ==
    ASSUME TypeOK, Sound, ApartInv, NEW o \in Ops, Share(o) \/ Revoke(o) \/ Inherit(o)
    PROVE  ApartInv'
<1>1. ASSUME NEW p \in Ops, op'[p].pc \in RevokeStages, ~mixed'[op'[p].user]
      PROVE  Apart(op'[p], direct')
  BY <1>1, ApartOthers, ApartOwn
<1> QED BY <1>1 DEF ApartInv, Revokes, RevokeStages

LEMMA SharedStays ==
    ASSUME TypeOK, Sound, NEW o \in Ops, Share(o) \/ Revoke(o) \/ Inherit(o) \/ Fail(o),
           NEW f \in Folders, NEW u \in Users, direct[f][u], ~lost'[f], folder[f].shared
    PROVE  folder'[f].shared
<1>1. On(grant[f][u])
  BY SoundParts DEF SoundGrants
<1>2. CASE SetFlag(o) \/ FlagSubfolders(o)
  BY <1>2, FlagsEffect
<1>3. CASE ClearFlag(o)
  <2>1. f # op[o].folder
    BY <1>1, <1>3, FlagsEffect
  <2> QED BY <1>3, <2>1, FlagsEffect
<1>4. CASE CreateFolder(o)
  <2>1. PICK g \in Folders : Created(g)
    BY <1>4, CreateFolderBecomes
  <2> QED BY <2>1, CreateFolderEffect, Zenon DEF Created
<1>5. CASE WriteGrant(o) \/ Deactivate(o) \/ DeactivateBelow(o) \/ InsertRow(o) \/ StartUpload(o)
           \/ StoreFile(o) \/ MoveDocument(o) \/ RestoreDocument(o) \/ CopyKey(o) \/ DeactivateKeys(o)
           \/ TakeDocument(o)
  <2>1. folder' = folder
    BY <1>5, Zenon DEF WriteGrant, Deactivate, DeactivateBelow, InsertRow, StartUpload,
       StoreFile, MoveDocument, RestoreDocument, Put, CopyKey, DeactivateKeys, TakeDocument
  <2> QED BY <2>1
<1>6. CASE UNCHANGED <<tables, direct, lost>>
  BY <1>6 DEF tables
<1> QED BY <1>2, <1>3, <1>4, <1>5, <1>6, QuietPersist DEF Share, Revoke, Inherit

\* What a request does at a stage
LEMMA Moments ==
    ASSUME NEW o \in Ops, Share(o) \/ Revoke(o) \/ Inherit(o)
    PROVE  /\ op[o].pc = "grant" => FindGrant(o) \/ SetFlag(o)
           /\ op[o].pc = "write" => WriteGrant(o)
           /\ op[o].pc = "list" => ReadSharedUsers(o)
           /\ op[o].pc = "find" => ApplyToExistingDocuments(o)
           /\ op[o].pc = "docs" => ReadKeys(o) \/ EndDocuments(o)
           /\ op[o].pc = "key" => CopyKey(o)
           /\ op[o].pc = "stream" => StoreFile(o)
           /\ op[o].pc = "inherit" => ReadFolder(o)
           /\ op[o].pc = "shared" => ReadRecipients(o)
<1> DEFINE Others == {"new", "below", "subs", "strays", "off", "tree", "suboff", "held", "keysoff",
                      "remain", "unflag", "place", "back", "parent"}
<1>1. ASSUME Share(o)
      PROVE  \/ FindGrant(o) \/ SetFlag(o) \/ WriteGrant(o) \/ ReadSharedUsers(o)
             \/ ApplyToExistingDocuments(o) \/ ReadKeys(o) \/ EndDocuments(o) \/ CopyKey(o)
             \/ op[o].pc \in Others
  BY <1>1, Zenon DEF Share, StartShare, FindSubfolders, InsertRow, FlagSubfolders, EndStrays
<1>2. ASSUME Revoke(o) PROVE op[o].pc \in Others
  BY <1>2, Zenon DEF Revoke, StartRevoke, Deactivate, FindTree, DeactivateBelow, FindHeld,
     DeactivateKeys, ReadRemaining, ClearFlag, TakeDocument
<1>3. ASSUME Inherit(o)
      PROVE  StoreFile(o) \/ ReadFolder(o) \/ ReadRecipients(o) \/ op[o].pc \in Others
  BY <1>3, Zenon DEF Inherit, StartUpload, StartMove, MoveDocument, RestoreDocument, CreateFolder,
     ReadParent, StartGive
<1>4. /\ FindGrant(o) \/ SetFlag(o) => op[o].pc = "grant"
      /\ WriteGrant(o) => op[o].pc = "write"
      /\ ReadSharedUsers(o) => op[o].pc = "list"
      /\ ApplyToExistingDocuments(o) => op[o].pc = "find"
      /\ ReadKeys(o) \/ EndDocuments(o) => op[o].pc = "docs"
      /\ CopyKey(o) => op[o].pc = "key"
      /\ StoreFile(o) => op[o].pc = "stream"
      /\ ReadFolder(o) => op[o].pc = "inherit"
      /\ ReadRecipients(o) => op[o].pc = "shared"
  BY Zenon DEF FindGrant, SetFlag, WriteGrant, ReadSharedUsers, ApplyToExistingDocuments, ReadKeys,
     EndDocuments, CopyKey, StoreFile, ReadFolder, ReadRecipients
<1> QED BY <1>1, <1>2, <1>3, <1>4

LEMMA FlaggingStays ==
    ASSUME TypeOK, Sound, NEW o \in Ops, Share(o) \/ Revoke(o) \/ Inherit(o),
           NEW f \in Folders, Flagging(op[o], f)
    PROVE  Flagging(op'[o], f) \/ folder'[f].shared
<1>1. op[o].pc \in {"grant", "write"} /\ op[o].folder = f
  BY DEF Flagging
<1>2. FindGrant(o) \/ WriteGrant(o) \/ SetFlag(o)
  BY <1>1, Moments
<1>3. FindGrant(o) \/ WriteGrant(o) => op'[o].pc \in {"grant", "write"} /\ op'[o].folder = f
  BY <1>1, FindGrantBecomes, WriteGrantBecomes
<1>4. SetFlag(o) => folder'[f].shared
  BY <1>1, FlagsEffect
<1> QED BY <1>2, <1>3, <1>4 DEF Flagging

LEMMA FlagNext ==
    ASSUME TypeOK, Sound, FlagInv, NEW o \in Ops, Share(o) \/ Revoke(o) \/ Inherit(o)
    PROVE  FlagInv'
<1> SUFFICES ASSUME NEW f \in Folders, NEW u \in Users, direct'[f][u], ~lost'[f]
             PROVE  folder'[f].shared \/ \E p \in Ops : Flagging(op'[p], f)
  BY DEF FlagInv, Flagging
<1>1. CASE WriteGrant(o) /\ f = op[o].folder
  <2>1. op'[o].pc = "grant" /\ op'[o].folder = f
    BY <1>1, WriteGrantBecomes
  <2> QED BY <2>1 DEF Flagging
<1>2. CASE ~(WriteGrant(o) /\ f = op[o].folder)
  <2>1. direct[f][u] /\ ~lost[f]
    BY <1>2, DirectNext, LostNext
  <2>2. CASE folder[f].shared
    BY <2>1, <2>2, SharedStays
  <2>3. CASE ~folder[f].shared
    <3>1. PICK p \in Ops : Flagging(op[p], f)
      BY <2>1, <2>3 DEF FlagInv
    <3>2. CASE p = o
      BY <3>1, <3>2, FlaggingStays
    <3>3. CASE p # o
      <4>1. op'[p].pc = op[p].pc /\ op'[p].folder = op[p].folder
        BY <3>3, OtherSame
      <4> QED BY <3>1, <4>1 DEF Flagging
    <3> QED BY <3>2, <3>3
  <2> QED BY <2>2, <2>3
<1> QED BY <1>1, <1>2


-----------------------------------------------------------------------------
(* What the users of a folder are owed *)

\* The document is put where it is by the step
Placed(o, d) == op'[o].pc \in {"stream", "inherit"} /\ op'[o].folder = doc'[d].folder /\
  op'[o].doc = d

LEMMA DocBefore ==
    ASSUME TypeOK, Sound, NEW o \in Ops, Share(o) \/ Revoke(o) \/ Inherit(o),
           op[o].pc # "back", NEW d \in Docs, doc'[d].st # "new", doc'[d].folder # Root
    PROVE  \/ Placed(o, d)
           \/ /\ doc[d].st # "new" /\ doc'[d].owner = doc[d].owner
              /\ doc'[d].folder = doc[d].folder
<1>1. CASE StartUpload(o)
  <2>1. PICK e \in Docs, w \in Users, f \in 0 .. NFolders :
           /\ Uploaded(o, e, w, f) /\ op'[o].pc = "stream" /\ op'[o].doc = e /\ op'[o].folder = f
    BY <1>1, StartUploadBecomes
  <2>2. PICK good \in BOOLEAN :
           /\ doc[e].st = "new"
           /\ doc' = [doc EXCEPT ![e] = [st |-> "open", owner |-> w, folder |-> f]]
           /\ key' = [key EXCEPT ![e][w] = <<[good |-> good, active |-> TRUE]>>]
    BY <2>1, Zenon DEF Uploaded
  <2>3. doc'[e].folder = f /\ \A x \in Docs : x # e => doc'[x] = doc[x]
    BY <2>2, StartUploadEffect, Zenon
  <2> QED BY <2>1, <2>3 DEF Placed
<1>2. CASE MoveDocument(o)
  <2>1. PICK e \in Docs, f \in 0 .. NFolders :
           /\ Moved(e, f)
           /\ \/ op'[o].pc = "docs" /\ f = Root
              \/ op'[o].pc = "inherit" /\ op'[o].doc = e /\ op'[o].folder = f
    BY <1>2, MoveDocumentBecomes
  <2>2. \A x \in Docs : /\ doc'[x].owner = doc[x].owner /\ doc'[x].st = doc[x].st
                        /\ doc'[x].folder = IF x = e THEN f ELSE doc[x].folder
    <3>1. doc' = [doc EXCEPT ![e].folder = f]
      BY <2>1 DEF Moved
    <3> QED BY <3>1, MoveDocumentEffect, Zenon
  <2> QED BY <2>1, <2>2 DEF Placed
<1>3. CASE StoreFile(o)
  BY <1>3, StoreFileEffect
<1>4. CASE WriteGrant(o) \/ Deactivate(o) \/ DeactivateBelow(o) \/ InsertRow(o) \/ SetFlag(o)
           \/ FlagSubfolders(o) \/ ClearFlag(o) \/ CreateFolder(o) \/ CopyKey(o)
           \/ DeactivateKeys(o) \/ TakeDocument(o)
  <2>1. doc' = doc
    BY <1>4, Zenon DEF WriteGrant, Deactivate, DeactivateBelow, InsertRow, SetFlag,
       FlagSubfolders, ClearFlag, CreateFolder, CopyKey, DeactivateKeys, TakeDocument
  <2> QED BY <2>1
<1>5. CASE UNCHANGED <<tables, direct, lost>>
  BY <1>5 DEF tables
<1>6. ~RestoreDocument(o)
  BY DEF RestoreDocument
<1> QED BY <1>1, <1>2, <1>3, <1>4, <1>5, <1>6, QuietPersist DEF Share, Revoke, Inherit

\* Keys come by CopyKey and go by DeactivateKeys and TakeDocument, if the
\* document is not new
LEMMA KeysNext ==
    ASSUME TypeOK, Sound, NEW o \in Ops, Share(o) \/ Revoke(o) \/ Inherit(o),
           NEW d \in Docs, NEW u \in Users, doc[d].st # "new"
    PROVE  \/ key'[d][u] = key[d][u]
           \/ CopyKey(o) /\ d = op[o].doc /\ u = op[o].user /\ Active(key'[d][u])
           \/ DeactivateKeys(o) /\ Takes(op[o], d, u) /\ ~Active(key'[d][u])
           \/ taken'[d][u] /\ u # doc[d].owner /\ ~Active(key'[d][u])
<1>1. CASE StartUpload(o)
  <2>1. PICK e \in Docs, w \in Users, f \in 0 .. NFolders : Uploaded(o, e, w, f)
    BY <1>1, StartUploadBecomes
  <2>2. PICK good \in BOOLEAN :
           /\ doc[e].st = "new"
           /\ doc' = [doc EXCEPT ![e] = [st |-> "open", owner |-> w, folder |-> f]]
           /\ key' = [key EXCEPT ![e][w] = <<[good |-> good, active |-> TRUE]>>]
    BY <2>1, Zenon DEF Uploaded
  <2>3. \A x \in Docs, v \in Users :
           IF x = e THEN IF v = w THEN key'[x][v] # << >> ELSE key'[x][v] = << >>
           ELSE key'[x][v] = key[x][v]
    BY <2>2, StartUploadEffect, Zenon
  <2> QED BY <2>2, <2>3
<1>2. CASE CopyKey(o)
  BY <1>2, CopyKeyEffect, Zenon
<1>3. CASE DeactivateKeys(o)
  <2>1. IF d \in op[o].held /\ u = op[o].user THEN ~Active(key'[d][u]) ELSE key'[d][u] = key[d][u]
    BY <1>3, DeactivateKeysEffect
  <2>2. op[o].pc = "keysoff"
    BY <1>3 DEF DeactivateKeys
  <2> QED BY <1>3, <2>1, <2>2 DEF Takes
<1>4. CASE WriteGrant(o) \/ Deactivate(o) \/ DeactivateBelow(o) \/ InsertRow(o) \/ SetFlag(o)
           \/ FlagSubfolders(o) \/ ClearFlag(o) \/ CreateFolder(o) \/ StoreFile(o)
           \/ MoveDocument(o) \/ RestoreDocument(o)
  <2>1. key' = key
    BY <1>4, Zenon DEF WriteGrant, Deactivate, DeactivateBelow, InsertRow, SetFlag,
       FlagSubfolders, ClearFlag, CreateFolder, StoreFile, MoveDocument, RestoreDocument, Put
  <2> QED BY <2>1
<1>5. CASE UNCHANGED <<tables, direct, lost>>
  BY <1>5 DEF tables
<1>6. CASE TakeDocument(o)
  <2>1. PICK e \in Docs, w \in Users : Withdrawn(e, w)
    BY <1>6, TakeDocumentBecomes
  <2>2. CASE d = e /\ u = w
    <3>1. w # doc[e].owner
      BY <2>1 DEF Withdrawn
    <3>2. ~Active(key'[e][w]) /\ taken'[e][w]
      BY <2>1, TakeDocumentEffect
    <3> QED BY <2>2, <3>1, <3>2
  <2>3. CASE ~(d = e /\ u = w)
    BY <2>1, <2>3, TakeDocumentEffect
  <2> QED BY <2>2, <2>3
<1> QED BY <1>1, <1>2, <1>3, <1>4, <1>5, <1>6, QuietPersist DEF Share, Revoke, Inherit

\* A document that was taken from a user on its own is given back by CopyKey
LEMMA TakenNext ==
    ASSUME TypeOK, Sound, NEW o \in Ops, Share(o) \/ Revoke(o) \/ Inherit(o),
           NEW d \in Docs, NEW u \in Users, taken[d][u], ~taken'[d][u]
    PROVE  CopyKey(o) /\ d = op[o].doc /\ u = op[o].user
<1>1. taken \in Takings
  BY DEF TypeOK, Takings
<1>2. ~TakeDocument(o)
  BY TakeDocumentBecomes, TakeDocumentEffect
<1>3. CopyKey(o)
  BY <1>2, TakenStep
<1>4. taken' = [taken EXCEPT ![op[o].doc][op[o].user] = FALSE]
  BY <1>3, Zenon DEF CopyKey
<1> QED BY <1>1, <1>3, <1>4 DEF Takings

\* A key that is copied stays, as no revocation is about to take it
LEMMA CopyGives ==
    ASSUME TypeOK, Sound, NEW o \in Ops, CopyKey(o), ~mixed'[op[o].user]
    PROVE  /\ Active(key'[op[o].doc][op[o].user])
           /\ \A p \in Ops : ~Takes(op'[p], op[o].doc, op[o].user)
<1>1. Active(key'[op[o].doc][op[o].user])
  BY CopyKeyEffect, Zenon
<1>2. op'[o].pc = "docs" /\ Warned(o, op[o].user)
  BY CopyKeyBecomes
<1>3. ASSUME NEW p \in Ops \ {o}, Takes(op'[p], op[o].doc, op[o].user) PROVE FALSE
  <2>1. op[p].pc = "keysoff" /\ op[p].user = op[o].user
    BY <1>3, OtherSame DEF Takes, Share
  <2> QED BY <1>2, <2>1 DEF Warned, Revokes
<1> QED BY <1>1, <1>2, <1>3 DEF Takes

LEMMA OwedBefore ==
    ASSUME TypeOK, Sound, NEW o \in Ops, Share(o) \/ Revoke(o) \/ Inherit(o), op[o].pc # "back",
           NEW d \in Docs, NEW u \in Users, Owed(d, u)'
    PROVE  \/ Gives(op'[o], d, u, doc'[d].folder)
           \/ Active(key'[d][u]) /\ \A p \in Ops : ~Takes(op'[p], d, u)
           \/ Owed(d, u) /\ doc'[d].folder = doc[d].folder
<1> DEFINE f == doc'[d].folder
<1>1. /\ doc'[d].st # "new" /\ f # Root /\ u # doc'[d].owner
      /\ direct'[f][u] /\ ~mixed'[u] /\ ~lost'[f] /\ ~taken'[d][u]
      /\ Active(key'[d][doc'[d].owner])
  BY DEF Owed
<1>2. Placed(o, d) => Gives(op'[o], d, u, f)
  BY DEF Placed, Gives
<1>3. WriteGrant(o) /\ f = op[o].folder => Gives(op'[o], d, u, f)
  BY WriteGrantBecomes DEF Gives
<1>4. CopyKey(o) /\ d = op[o].doc /\ u = op[o].user =>
         Active(key'[d][u]) /\ \A p \in Ops : ~Takes(op'[p], d, u)
  BY <1>1, CopyGives
<1>5. ASSUME ~Placed(o, d), ~(WriteGrant(o) /\ f = op[o].folder),
             ~(CopyKey(o) /\ d = op[o].doc /\ u = op[o].user)
      PROVE  Owed(d, u) /\ f = doc[d].folder
  <2>1. doc[d].st # "new" /\ doc'[d].owner = doc[d].owner /\ f = doc[d].folder
    BY <1>1, <1>5, DocBefore
  <2>2. f \in Folders /\ doc[d].owner \in Users
    BY <1>1, <2>1, Typed, Constants DEF DocSet
  <2>3. direct[f][u] /\ ~mixed[u] /\ ~lost[f] /\ ~taken[d][u]
    BY <1>1, <1>5, <2>2, DirectNext, MixedNext, LostNext, TakenNext
  <2>4. Active(key[d][doc[d].owner])
    <3>1. ~(CopyKey(o) /\ d = op[o].doc /\ doc[d].owner = op[o].user)
      BY CopyKeyEffect, Zenon
    <3>2. key'[d][doc[d].owner] = key[d][doc[d].owner]
      BY <1>1, <2>1, <2>2, <3>1, KeysNext
    <3> QED BY <1>1, <2>1, <3>2
  <2> QED BY <1>1, <2>1, <2>3, <2>4 DEF Owed
<1> QED BY <1>2, <1>3, <1>4, <1>5

\* A revocation that no grant has overlapped never comes to the documents of a
\* folder that has been given to its user
LEMMA NewTakes ==
    ASSUME TypeOK, Sound, ApartInv, NEW o \in Ops, Share(o) \/ Revoke(o) \/ Inherit(o),
           NEW d \in Docs, NEW u \in Users, Owed(d, u)
    PROVE  ~Takes(op'[o], d, u)
<1> SUFFICES ASSUME op'[o].pc = "keysoff", op'[o].user = u, d \in op'[o].held
             PROVE  FALSE
  BY DEF Takes
<1>1. FindHeld(o)
  BY Turns
<1>2. op[o].user = u /\ d \in HeldBy(o) /\ op[o].pc = "held"
  BY <1>1, FindHeldBecomes, Zenon DEF FindHeld
<1>3. doc[d].folder \in {op[o].folder} \cup op[o].below
  BY <1>2, DueFacts
<1>4. direct[doc[d].folder][u] /\ ~mixed[u]
  BY DEF Owed
<1>5. Apart(op[o], direct)
  BY <1>2, <1>4 DEF ApartInv, Revokes
<1> QED BY <1>2, <1>3, <1>4, <1>5 DEF Apart

LEMMA GivesNext ==
    ASSUME TypeOK, Sound, FlagInv, NEW o \in Ops, Share(o) \/ Revoke(o) \/ Inherit(o),
           NEW d \in Docs, NEW u \in Users, Owed(d, u), ~mixed'[u],
           Gives(op[o], d, u, doc[d].folder)
    PROVE  \/ Gives(op'[o], d, u, doc[d].folder)
           \/ \E p \in Ops \ {o} : Gives(op[p], d, u, doc[d].folder)
           \/ Active(key'[d][u]) /\ op'[o].pc = "docs" /\ \A p \in Ops \ {o} : ~Takes(op'[p], d, u)
<1> DEFINE f == doc[d].folder
<1>1. /\ doc[d].st # "new" /\ f # Root /\ u # doc[d].owner /\ direct[f][u] /\ ~lost[f]
      /\ Active(key[d][doc[d].owner])
  BY DEF Owed
<1>2. f \in Folders /\ On(grant[f][u])
  <2>1. f \in Folders
    BY <1>1, Typed, Constants DEF DocSet
  <2> QED BY <1>1, <2>1, SoundParts DEF SoundGrants
<1>3. CASE op[o].pc \in {"grant", "write", "list"} /\ op[o].folder = f
  <2>1. FindGrant(o) \/ WriteGrant(o) \/ SetFlag(o) \/ ReadSharedUsers(o)
    BY <1>3, Moments
  <2>2. FindGrant(o) \/ WriteGrant(o) \/ SetFlag(o) =>
           op'[o].pc \in {"grant", "write", "list"} /\ op'[o].folder = f
    BY <1>3, FindGrantBecomes, WriteGrantBecomes, SetFlagBecomes
  <2>3. ReadSharedUsers(o) => op'[o].pc = "find" /\ op'[o].folder = f /\ u \in op'[o].list
    BY <1>2, <1>3, ReadSharedUsersBecomes, SharedTyped
  <2> QED BY <2>1, <2>2, <2>3 DEF Gives
<1>4. CASE op[o].pc = "find" /\ op[o].folder = f /\ u \in op[o].list
  <2>1. ApplyToExistingDocuments(o)
    BY <1>4, Moments
  <2>2. op'[o].pc = "docs" /\ op'[o].pairs = Due(o)
    BY <2>1, ApplyToExistingDocumentsBecomes
  <2>3. <<d, u>> \in Due(o)
    BY <1>1, <1>4, DueFacts DEF In
  <2> QED BY <2>2, <2>3 DEF Gives
<1>5. CASE op[o].pc = "stream" /\ op[o].folder = f /\ op[o].doc = d
  <2>1. StoreFile(o)
    BY <1>5, Moments
  <2>2. op'[o].pc = "inherit" /\ op'[o].folder = f /\ op'[o].doc = d
    BY <1>1, <1>5, <2>1, StoreFileBecomes
  <2> QED BY <2>2 DEF Gives
<1>6. CASE op[o].pc = "inherit" /\ op[o].folder = f /\ op[o].doc = d
  <2>1. ReadFolder(o)
    BY <1>6, Moments
  <2>2. CASE op'[o].pc = "shared" /\ op'[o].folder = f /\ op'[o].doc = d
    BY <2>2 DEF Gives
  <2>3. CASE ~folder[f].shared
    <3>1. PICK p \in Ops : Flagging(op[p], f)
      BY <1>1, <1>2, <2>3 DEF FlagInv
    <3>2. p # o
      BY <1>6, <3>1 DEF Flagging
    <3> QED BY <3>1, <3>2 DEF Flagging, Gives
  <2> QED BY <1>6, <2>1, <2>2, <2>3, ReadFolderBecomes
<1>7. CASE op[o].pc = "shared" /\ op[o].folder = f /\ op[o].doc = d
  <2>1. ReadRecipients(o)
    BY <1>7, Moments
  <2>2. op'[o].pc = "docs" /\ op'[o].pairs = Recipients(o)
    BY <2>1, ReadRecipientsBecomes
  <2>3. <<d, u>> \in Recipients(o)
    BY <1>1, <1>2, <1>7, RecipientsFacts
  <2> QED BY <2>2, <2>3 DEF Gives
<1>8. CASE op[o].pc = "docs" /\ <<d, u>> \in op[o].pairs
  <2>1. ReadKeys(o)
    <3>1. ~EndDocuments(o)
      BY <1>8, EndDocumentsBecomes
    <3> QED BY <1>8, <3>1, Moments
  <2>2. CASE op'[o].pc = "key" /\ op'[o].pairs = op[o].pairs
    BY <1>8, <2>2 DEF Gives
  <2>3. CASE /\ op'[o].pc = "docs"
             /\ \E du \in op[o].pairs : /\ op'[o].pairs = op[o].pairs \ {du}
                                        /\ ~Active(key[du[1]][doc[du[1]].owner])
    <3>1. PICK du \in op[o].pairs : /\ op'[o].pairs = op[o].pairs \ {du}
                                    /\ ~Active(key[du[1]][doc[du[1]].owner])
      BY <2>3
    <3>2. du # <<d, u>>
      BY <1>1, <3>1
    <3> QED BY <1>8, <2>3, <3>1, <3>2 DEF Gives
  <2> QED BY <2>1, <2>2, <2>3, ReadKeysBecomes
<1>9. CASE op[o].pc = "key" /\ <<d, u>> \in op[o].pairs
  <2>1. CopyKey(o)
    BY <1>9, Moments
  <2>2. /\ op'[o].pc = "docs" /\ op'[o].pairs = op[o].pairs \ {<<op[o].doc, op[o].user>>}
        /\ Warned(o, op[o].user)
    BY <2>1, CopyKeyBecomes
  <2>3. CASE <<d, u>> # <<op[o].doc, op[o].user>>
    BY <1>9, <2>2, <2>3 DEF Gives
  <2>4. CASE d = op[o].doc /\ u = op[o].user
    <3>1. Active(key'[d][u])
      BY <2>1, <2>4, CopyKeyEffect, Zenon
    <3>2. ASSUME NEW p \in Ops \ {o}, Takes(op'[p], d, u) PROVE FALSE
      <4>1. op[p].pc = "keysoff" /\ op[p].user = u
        BY <3>2, OtherSame DEF Takes
      <4> QED BY <2>2, <2>4, <4>1 DEF Warned, Revokes
    <3> QED BY <2>2, <3>1, <3>2
  <2> QED BY <2>3, <2>4
<1> QED BY <1>3, <1>4, <1>5, <1>6, <1>7, <1>8, <1>9 DEF Gives

LEMMA GivenNext ==
    ASSUME TypeOK, Sound, ApartInv, FlagInv, GivenInv, NoneBack,
           NEW o \in Ops, Share(o) \/ Revoke(o) \/ Inherit(o)
    PROVE  GivenInv'
<1> SUFFICES ASSUME NEW d \in Docs, NEW u \in Users, Owed(d, u)'
             PROVE  Given(d, u)'
  BY DEF GivenInv
<1> DEFINE f == doc[d].folder
<1>1. ASSUME NEW p \in Ops, Gives(op'[p], d, u, doc'[d].folder) PROVE Given(d, u)'
  BY <1>1 DEF Given
<1>2. ASSUME Active(key'[d][u]), \A p \in Ops : ~Takes(op'[p], d, u) PROVE Given(d, u)'
  BY <1>2 DEF Given
<1>3. CASE Gives(op'[o], d, u, doc'[d].folder)
  BY <1>1, <1>3
<1>4. CASE Owed(d, u) /\ doc'[d].folder = f
  <2>1. Given(d, u) /\ doc[d].st # "new" /\ ~mixed'[u]
    BY <1>4 DEF GivenInv, Owed
  <2>2. ~Takes(op'[o], d, u)
    BY <1>4, NewTakes
  <2>3. ASSUME NEW p \in Ops \ {o}, Gives(op[p], d, u, f) PROVE Given(d, u)'
    <3>1. Gives(op'[p], d, u, f)
      BY <2>3, OtherSame DEF Gives
    <3> QED BY <1>1, <1>4, <3>1
  <2>4. CASE Active(key[d][u]) /\ \A p \in Ops : ~Takes(op[p], d, u)
    <3>1. Active(key'[d][u])
      <4>1. ~taken'[d][u]
        BY DEF Owed
      <4> QED BY <2>1, <2>4, <4>1, KeysNext
    <3>2. \A p \in Ops \ {o} : ~Takes(op'[p], d, u)
      BY <2>4, OtherSame DEF Takes
    <3> QED BY <1>2, <2>2, <3>1, <3>2
  <2>5. CASE Gives(op[o], d, u, f)
    <3>1. CASE Gives(op'[o], d, u, f)
      BY <1>1, <1>4, <3>1
    <3>2. CASE \E p \in Ops \ {o} : Gives(op[p], d, u, f)
      BY <2>3, <3>2
    <3>3. CASE Active(key'[d][u]) /\ \A p \in Ops \ {o} : ~Takes(op'[p], d, u)
      BY <1>2, <2>2, <3>3
    <3> QED BY <1>4, <2>1, <2>5, <3>1, <3>2, <3>3, GivesNext
  <2> QED BY <2>1, <2>3, <2>4, <2>5 DEF Given
<1>5. op[o].pc # "back"
  BY DEF NoneBack
<1> QED BY <1>2, <1>3, <1>4, <1>5, OwedBefore

LEMMA NoneBackNext ==
    ASSUME TypeOK, Sound, NoneBack, NEW o \in Ops, Share(o) \/ Revoke(o) \/ Inherit(o)
    PROVE  NoneBack'
<1>1. op'[o].pc # "back"
  BY Turns, FindHeldBecomes
<1>2. \A p \in Ops \ {o} : op'[p].pc # "back"
  BY OtherSame DEF NoneBack
<1> QED BY <1>1, <1>2 DEF NoneBack

LEMMA RecordNext ==
    ASSUME TypeOK, Sound, ApartInv, FlagInv, GivenInv, NoneBack, NEW e \in Docs, RecordKey(e)
    PROVE  ApartInv' /\ FlagInv' /\ GivenInv' /\ NoneBack'
<1>1. /\ op' = op /\ direct' = direct /\ mixed' = mixed /\ lost' = lost /\ taken' = taken
      /\ folder' = folder /\ doc' = doc
  BY DEF RecordKey, history
<1>2. ApartInv'
  BY <1>1 DEF ApartInv, Revokes
<1>3. FlagInv'
  BY <1>1 DEF FlagInv
<1>4. ASSUME NEW d \in Docs, NEW u \in Users, Owed(d, u)' PROVE Given(d, u)'
  <2>1. \A w \in Users : Active(key'[d][w]) <=> Active(key[d][w])
    BY RecordKeyEffect
  <2>2. doc[d].owner \in Users
    BY Typed DEF DocSet
  <2>3. Owed(d, u)
    BY <1>1, <1>4, <2>1, <2>2 DEF Owed
  <2>4. Given(d, u)
    BY <2>3 DEF GivenInv
  <2> QED BY <1>1, <2>1, <2>4 DEF Given
<1>5. NoneBack'
  BY <1>1 DEF NoneBack
<1> QED BY <1>2, <1>3, <1>4, <1>5 DEF GivenInv


-----------------------------------------------------------------------------
(* The invariant holds in every reachable state *)

LEMMA InitInv == Init => SharingInv
<1> SUFFICES ASSUME Init PROVE SharingInv
  OBVIOUS
<1>1. /\ folder \in [Folders -> FolderSet] /\ faults = 0
      /\ grant = [f \in Folders |-> [u \in Users |-> << >>]]
      /\ doc = [d \in Docs |-> [st |-> "new", owner |-> NoOp.user, folder |-> Root]]
      /\ key = [d \in Docs |-> [u \in Users |-> << >>]]
      /\ op = [o \in Ops |-> NoOp]
      /\ direct = [f \in Folders |-> [u \in Users |-> FALSE]]
      /\ mixed = [u \in Users |-> FALSE]
      /\ lost = [f \in Folders |-> FALSE]
      /\ taken = [d \in Docs |-> [u \in Users |-> FALSE]]
  BY DEF Init
<1>2. /\ NoOp \in OpSet /\ NoOp.pc = "new" /\ NoOp.pairs = {} /\ NoOp.subs = {}
      /\ NoOp.orig = Root /\ NoOp.user \in Users
  <2>1. NoOp \in OpSet
    BY NoOpTyped
  <2>2. NoOp.pc = "new" /\ NoOp.pairs = {} /\ NoOp.subs = {} /\ NoOp.orig = Root
    BY DEF NoOp
  <2> QED BY <2>1, <2>2 DEF OpSet
<1>3. /\ \A f \in Folders, u \in Users : grant[f][u] = << >> /\ ~direct[f][u]
      /\ \A d \in Docs : doc[d].st = "new" /\ doc[d].folder = Root
      /\ \A d \in Docs, u \in Users : key[d][u] = << >>
      /\ \A o \in Ops : op[o] = NoOp
  BY <1>1
<1>4. TypeOK
  <2>1. [st |-> "new", owner |-> NoOp.user, folder |-> Root] \in DocSet
    BY <1>2, Constants DEF DocSet
  <2>2. /\ grant \in [Folders -> [Users -> Seq(BOOLEAN)]]
        /\ key \in [Docs -> [Users -> Seq(KeySet)]]
    BY <1>1
  <2>3. doc \in [Docs -> DocSet] /\ op \in [Ops -> OpSet]
    BY <1>1, <1>2, <2>1
  <2>4. \A o \in Ops : op[o].pc = "new"
    BY <1>2, <1>3
  <2>5. /\ direct \in [Folders -> [Users -> BOOLEAN]]
        /\ mixed \in [Users -> BOOLEAN] /\ lost \in [Folders -> BOOLEAN]
        /\ taken \in [Docs -> [Users -> BOOLEAN]]
    BY <1>1
  <2>6. faults \in 0 .. MaxFaults
    BY <1>1, SharingAssumption
  <2> QED BY <1>1, <2>2, <2>3, <2>4, <2>5, <2>6 DEF TypeOK
<1>5. Sound
  <2>1. SoundFolders
    BY DEF Init, SoundFolders, There
  <2>2. SoundGrants /\ SoundDocs /\ SoundKeys
    BY <1>3 DEF SoundGrants, SoundDocs, SoundKeys
  <2>3. \A o \in Ops : Staged(op[o], folder, doc)
    BY <1>2, <1>3 DEF Staged
  <2> QED BY <2>1, <2>2, <2>3, SoundParts
<1>6. RevokeInv
  BY <1>2, <1>3 DEF RevokeInv, Revokes
<1>7. ApartInv
  BY <1>2, <1>3 DEF ApartInv, Revokes
<1>8. FlagInv
  BY <1>3 DEF FlagInv
<1>9. GivenInv
  BY <1>3 DEF GivenInv, Owed
<1>10. NoneBack
  BY <1>2, <1>3 DEF NoneBack
<1> QED BY <1>4, <1>5, <1>6, <1>7, <1>8, <1>9, <1>10 DEF SharingInv

LEMMA FaultFree ==
    ASSUME TypeOK, NEW o \in Ops, Fail(o)
    PROVE  faults' # 0
<1>1. faults' = faults + 1
  BY DEF Fail, FailQuery, FailMove, FailOriginal, StopRequest
<1> QED BY <1>1, SharingAssumption DEF TypeOK

LEMMA StepInv ==
    ASSUME SharingInv, NEW o \in Ops, Share(o) \/ Revoke(o) \/ Inherit(o) \/ Fail(o)
    PROVE  SharingInv'
<1>1. TypeOK /\ Sound /\ RevokeInv
  BY DEF SharingInv
<1>2. TypeOK' /\ Sound' /\ RevokeInv'
  BY <1>1, TypingNext, SoundNext, RevokeNext
<1>3. ASSUME faults' = 0 PROVE ApartInv' /\ FlagInv' /\ GivenInv' /\ NoneBack'
  <2>1. faults = 0
    BY <1>1, <1>3, CountersTyped
  <2>2. Share(o) \/ Revoke(o) \/ Inherit(o)
    BY <1>1, <1>3, FaultFree
  <2>3. ApartInv /\ FlagInv /\ GivenInv /\ NoneBack
    BY <2>1 DEF SharingInv
  <2> QED BY <1>1, <2>2, <2>3, ApartNext, FlagNext, GivenNext, NoneBackNext
<1> QED BY <1>2, <1>3 DEF SharingInv

LEMMA RecordInv ==
    ASSUME SharingInv, NEW d \in Docs, RecordKey(d)
    PROVE  SharingInv'
<1>1. TypeOK /\ Sound /\ RevokeInv
  BY DEF SharingInv
<1>2. TypeOK' /\ Sound' /\ RevokeInv'
  BY <1>1, TypingRecord, SoundRecord, RevokeRecord
<1>3. faults' = faults
  BY DEF RecordKey
<1>4. faults = 0 => ApartInv' /\ FlagInv' /\ GivenInv' /\ NoneBack'
  BY <1>1, RecordNext DEF SharingInv
<1> QED BY <1>2, <1>3, <1>4 DEF SharingInv

LEMMA StutterInv ==
    ASSUME SharingInv, UNCHANGED vars
    PROVE  SharingInv'
<1>1. /\ folder' = folder /\ grant' = grant /\ doc' = doc /\ key' = key /\ op' = op
      /\ faults' = faults /\ direct' = direct /\ mixed' = mixed /\ lost' = lost
      /\ taken' = taken
  BY DEF vars, tables, history
<1>2. TypeOK' /\ Sound'
  BY <1>1 DEF SharingInv, TypeOK, Sound, There
<1>3. RevokeInv'
  BY <1>1 DEF SharingInv, RevokeInv, Revokes
<1>4. faults = 0 => ApartInv' /\ FlagInv' /\ NoneBack'
  BY <1>1 DEF SharingInv, ApartInv, FlagInv, NoneBack, Revokes
<1>5. faults = 0 => GivenInv'
  BY <1>1 DEF SharingInv, GivenInv, Owed, Given
<1> QED BY <1>1, <1>2, <1>3, <1>4, <1>5 DEF SharingInv

LEMMA Invariance == Spec => []SharingInv
<1>1. SharingInv /\ [Next]_vars => SharingInv'
  BY StepInv, RecordInv, StutterInv DEF Next
<1> QED BY InitInv, <1>1, PTL DEF Spec

-----------------------------------------------------------------------------
(* The theorems *)

\* Tables, requests and what the requests have read keep their types, and a row
\* that batchShare or shareWithUsers has found is there when it is updated by
\* its id: sharing and revoking write a row or set its flags and delete none.
THEOREM Typing == Spec => []TypeOK
<1>1. SharingInv => TypeOK
  BY DEF SharingInv
<1> QED BY Invariance, <1>1, PTL

LEMMA TakenAll ==
    ASSUME SharingInv, NEW o \in Ops, Cascaded(o),
           NEW f \in {op[o].folder} \cup Descendants(op[o].folder)
    PROVE  Lost(o, f)
<1>1. Taken(op[o], folder, grant, doc, key) /\ op[o].pc \in {"remain", "unflag"}
  BY DEF Cascaded, SharingInv, RevokeInv, Revokes
<1>2. f \in {op[o].folder} \cup Below(folder, op[o].folder)
  BY DescendantsBelow
<1>3. ~On(grant[f][op[o].user]) /\ \A d \in Docs : ~Reads(d, f, op[o].user, doc, key)
  BY <1>1, <1>2 DEF Taken
<1> QED BY <1>3, Zenon DEF Lost, Granted, On, Held, Readable, Reads, Active

\* revokeUserAccess of sharing.service.ts: once it has been through the folder,
\* the folders of its owner below it and the documents in them, the user has no
\* active row of any of these folders and no key of any of these documents, the
\* user's own aside, whatever is shared, uploaded or created meanwhile - unless
\* a grant to the user overlaps, a document is moved, or a query of the cascade
\* fails. Folders of other owners below keep the rows they have inherited.
THEOREM RevocationTakes == Spec => []RevokeTakes
<1>1. SharingInv => RevokeTakes
  BY TakenAll DEF RevokeTakes
<1> QED BY Invariance, <1>1, PTL

LEMMA AllGiven ==
    ASSUME SharingInv, Rest, faults = 0, NEW d \in Docs, NEW u \in Users,
           doc[d].folder # Root, doc[d].st = "done", direct[doc[d].folder][u], ~mixed[u],
           ~lost[doc[d].folder], ~taken[d][u], Readable(d, doc[d].owner)
    PROVE  Readable(d, u)
<1>1. CASE u = doc[d].owner
  BY <1>1
<1>2. CASE u # doc[d].owner
  <2>1. Owed(d, u)
    BY <1>2 DEF Owed, Readable, Active
  <2>2. Given(d, u)
    BY <2>1 DEF SharingInv, GivenInv
  <2>3. \A o \in Ops : ~Gives(op[o], d, u, doc[d].folder)
    BY DEF Rest, Gives
  <2>4. Active(key[d][u])
    BY <2>2, <2>3 DEF Given
  <2> QED BY <2>4 DEF Readable, Active
<1> QED BY <1>1, <1>2

\* shareWithUsers of sharing.service.ts and handleNewDocumentInheritance of
\* permission-inheritance.service.ts: between them they miss no document. When
\* everything has come to rest, whom a folder was given to reads every document
\* in it, also one that was uploaded or moved there during the share: the row
\* is written before the documents are looked for, the document is put into the
\* folder before its users are looked for, and whoever finds the folder without
\* its flag can rely on a share that has yet to set it. What revokeUserAccess of
\* document-sharing.service.ts took from the user alone stays taken until it is
\* shared again.
THEOREM SharedIsRead == Spec => []Covered
<1>1. SharingInv => Covered
  BY AllGiven DEF Covered
<1> QED BY Invariance, <1>1, PTL

=============================================================================
