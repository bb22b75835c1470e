---------------------------- MODULE MCScanIntake ----------------------------
\* Requests, keys, persons and the two actions are interchangeable.
EXTENDS ScanIntake, TLC

MCSymmetry ==
  Permutations(Requests) \cup Permutations(Keys) \cup Permutations(Persons) \cup Permutations(Actions)
=============================================================================
