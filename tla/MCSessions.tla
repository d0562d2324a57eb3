------------------------------ MODULE MCSessions ------------------------------
\* SessionRegistry with interchangeable logins, rotations and wipes.  Only
\* safety is checked under this symmetry.
EXTENDS SessionRegistry, TLC

RequestSymmetry ==
  Permutations(Logins) \cup Permutations(Rotations) \cup Permutations(Wipes)
=============================================================================
