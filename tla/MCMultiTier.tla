------------------------------ MODULE MCMultiTier ------------------------------
\* MultiTierCache with interchangeable instances and calls.  Only safety is
\* checked under this symmetry.
EXTENDS MultiTierCache, TLC

CacheSymmetry == Permutations(Instances) \cup Permutations(Requests)
=============================================================================
