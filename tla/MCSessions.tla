----------------------------- MODULE MCSessions -----------------------------
EXTENDS Sessions, TLC

Symmetric == Permutations(Sessions) \cup Permutations(Calls)
=============================================================================
