------------------------------ MODULE MCBackup ------------------------------
(***************************************************************************)
(* ObjectBackup for TLC: two shapes of instance in one run, chosen at the  *)
(* start. In one, a document with its thumbnail and two runs that overlap; *)
(* in the other, two documents without thumbnails and a single run, for    *)
(* the order and the limit of the selection.                               *)
(***************************************************************************)
EXTENDS ObjectBackup

Shapes == { [docs |-> 1, runs |-> 2, thumbs |-> FALSE, destroyed |-> TRUE],
            [docs |-> 1, runs |-> 1, thumbs |-> TRUE, destroyed |-> TRUE],
            [docs |-> 2, runs |-> 1, thumbs |-> FALSE, destroyed |-> FALSE] }

VARIABLE shape

mcvars == <<vars, shape>>

\* What the chosen shape leaves out of the instance stays as it is.
InShape ==
    /\ shape' = shape
    /\ \A d \in Docs \ (1 .. shape.docs) : row'[d] = row[d]
    /\ \A r \in Runs \ (1 .. shape.runs) : run'[r] = run[r]
    /\ ~shape.thumbs => \A d \in Docs : Shows(d) \notin live'
    /\ ~shape.destroyed => env'.up

MCInit == Init /\ shape \in Shapes
MCNext == Next /\ InShape

MCFairness ==
    /\ \A d \in Docs : /\ WF_mcvars((StoreFile(d) \/ RecordFile(d)) /\ InShape)
                       /\ WF_mcvars(RecordThumbnail(d) /\ InShape)
    /\ \A r \in Runs : WF_mcvars(RunStep(r) /\ InShape)
    /\ SF_mcvars(Tick /\ InShape)

MCSpec == MCInit /\ [][MCNext]_mcvars /\ MCFairness
=============================================================================
