---------------------------- MODULE MCSharedCache ----------------------------
EXTENDS SharedCache, TLC
Symmetric == Permutations(Writers)
================================================================================
