----------------------------- MODULE MCLocations -----------------------------
\* The person lives in the first location.
EXTENDS Locations

CONSTANT Here

MCHome == [p \in People |-> Here]
=============================================================================
