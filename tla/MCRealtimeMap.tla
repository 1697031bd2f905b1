----------------------------- MODULE MCRealtimeMap -----------------------------
EXTENDS RealtimeMap, TLC

Symmetry == Permutations(Routes) \cup Permutations(Tasks)
===============================================================================
