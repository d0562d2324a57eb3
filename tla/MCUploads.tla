------------------------------- MODULE MCUploads -------------------------------
\* UploadSession with interchangeable chunk requests (and hence data keys),
\* thumbnails and completions.  Only safety is checked under this symmetry.
EXTENDS UploadSession, TLC

UploadSymmetry == Permutations(Chunkers) \cup Permutations(Thumbs)
                    \cup Permutations(Completers)

\* Thumbnails and an abort together when nothing unusual happens; with a fault,
\* or with a request out of turn, one of the two.
NoneSent(R) == \A o \in R : pc'[o] = "idle"
InShape ==
  /\ strays' = 0 \/ faults' = 0
  /\ strays' + faults' > 0 => NoneSent(Thumbs) \/ NoneSent(Aborters)

MCSpec == Init /\ [][Next /\ InShape]_vars
=============================================================================
