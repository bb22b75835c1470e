------------------------------- MODULE MCPages ------------------------------
\* Three pages that share nothing, the workbench, the page of the operators and that
\* of the people, checked in one run: "part" is the page that moves, the others stay
\* as they start.
EXTENDS Workspace, Assignments, Directory, TLC

VARIABLE part

\* Locations are interchangeable, and so are managers and what is assigned.
MCSymmetry == Permutations(Locations) \cup Permutations(Managers) \cup Permutations(Sites)

NoOperators == InitAssignments /\ ~operator /\ active = {}
NoPeople == InitDirectory /\ \A p \in Persons : home[p] = Nowhere

InitWorkbench == part = "workbench" /\ Init /\ NoOperators /\ NoPeople
InitOperators == part = "operators" /\ Init /\ InitAssignments /\ NoPeople
InitPeople == part = "people" /\ Init /\ NoOperators /\ InitDirectory

MCInit == InitWorkbench \/ InitOperators \/ InitPeople

MCNext ==
  /\ UNCHANGED part
  /\ \/ part = "workbench" /\ Next /\ UNCHANGED <<assignmentVars, directoryVars>>
     \/ part = "operators" /\ NextAssignments /\ UNCHANGED <<vars, directoryVars>>
     \/ part = "people" /\ NextDirectory /\ UNCHANGED <<vars, assignmentVars>>

MCSpec == MCInit /\ [][MCNext]_<<part, vars, assignmentVars, directoryVars>>
=============================================================================
