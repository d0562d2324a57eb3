----------------------------- MODULE MCSharing ------------------------------
(***************************************************************************)
(* FolderSharing for TLC: a folder with one below it, a document, and      *)
(* requests of which two are under way at a time.                          *)
(***************************************************************************)
EXTENDS FolderSharing, FiniteSets, TLC

CONSTANTS a, b, c, d1, o1, o2, o3

Symmetry == Permutations(Ops)

\* a owns the folder at the top, which is there.
MCInit ==
    /\ Init
    /\ folder[1].there /\ folder[1].owner = a
    /\ \A f \in Folders : folder[f].up = f - 1
    /\ \A f \in Folders : folder[f].owner # c

Started(kinds) == Cardinality({o \in Ops : op'[o].pc # "new" /\ op'[o].kind \in kinds})
UnderWay == Cardinality({o \in Ops : op'[o].pc \notin {"new", "done"}})
AllGood == \A d \in Docs, u \in Users, r \in BOOLEAN : [good |-> FALSE, active |-> r] \notin Range(key'[d][u])

\* One user per share, other than a; c owns nothing. Any two requests, one
\* after the other when something fails; or two that share, revoke or take a
\* document, with an upload from chunks or a move; or three that share with c,
\* revoke c or create the folder below: if it is there they come one after the
\* other, save a revocation that a create overlaps.
Alone(kinds) == \A o \in Ops : op'[o].pc \notin {"new", "done"} => op'[o].kind \in kinds
InShape ==
    /\ UnderWay < 3
    /\ \A o \in Ops : a \notin op'[o].todo /\ Cardinality(op'[o].todo) < 2
    /\ \A d \in Docs : doc'[d].owner # c
    /\ \/ (\E o \in Ops : op'[o].pc = "new") /\ (faults' > 0 => UnderWay < 2)
       \/ faults' = 0 /\ AllGood /\ Started({"share", "revoke", "take"}) = 2 /\ Started({"upload", "move"}) = 1
       \/ /\ faults' = 0 /\ Started({"share", "revoke", "create"}) = 3
          /\ UnderWay < 2 \/ ~folder'[2].there \/ Alone({"revoke", "create"})
          /\ \A f \in Folders : grant'[f][b] = << >>

MCSpec == MCInit /\ [][Next /\ InShape]_vars
=============================================================================
