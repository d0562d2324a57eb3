------------------------------- MODULE MCJobs -------------------------------
\* Jobs with interchangeable instances and interchangeable calls.  Only safety
\* is checked under this symmetry.
EXTENDS Jobs, TLC

JobSymmetry == Permutations(Instances) \cup Permutations(Copies)
=============================================================================
