----------------------------- MODULE MCFolders ------------------------------
(***************************************************************************)
(* FolderTree for TLC: two operations on three folders, one of which may   *)
(* not be there at the start, in trees given up to a renaming of folders.  *)
(***************************************************************************)
EXTENDS FolderTree, TLC

CONSTANTS u1, u2, o1, o2

Symmetry == Permutations(Ops)

\* Ids in the order of creation: a parent is older than its folders. At the
\* start at most one folder is archived or the other user's.
MCInit ==
    /\ Init
    /\ \A f \in Folders : parent[f] < f
    /\ \A f \in Folders : st[f] = "new" => f = N
    /\ Cardinality({f \in Folders : archived[f]}) + Cardinality({f \in Folders : owner[f] = u2}) < 2

\* Who starts what: two moves and bulk moves on folders of one user that are
\* not archived, bulk moves of several folders, everything else by that user;
\* a cancel where no other operation is under way.
Plainly == \A f \in Folders : owner[f] = u1 /\ ~archived[f]
IsMove(k) == k \in {"single", "bulk"}
InShape ==
    /\ \A o \in Ops : op[o].pc = "new" /\ op'[o].pc # "new" =>
          /\ op'[o].kind = "bulk" => Plainly /\ Cardinality(op'[o].folders) > 1
          /\ IsMove(op'[o].kind) /\ (\E p \in Ops \ {o} : op[p].pc # "new" /\ IsMove(op[p].kind)) => Plainly
          /\ op'[o].kind # "delete" => op'[o].user = u1
    /\ \A o \in Ops : cancel'[o] => \A p \in Ops \ {o} : op'[p].pc = "new"

MCNext == Next /\ InShape
MCSpec == MCInit /\ [][MCNext]_vars
=============================================================================
