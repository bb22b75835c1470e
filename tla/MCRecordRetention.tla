-------------------------- MODULE MCRecordRetention --------------------------
\* The destruction of a family against its delivery, and the lists and passes of
\* the records at large: they share nothing, and each is checked on its own within
\* one run. "part" is the one that moves, the other stays as it starts.
EXTENDS RecordRetention, Records

VARIABLE part

\* One tick for every retry: their order matters, not their length.
MCRetryDelay == [n \in {0, 1, 2} |-> 1]

\* Some ids belong to no table.
MCLayouts ==
  {[kind |-> <<"scan", "scan", "business", Nothing>>, own |-> {1, 2, 3}],
   [kind |-> <<"scan", "business", "platform", Nothing>>, own |-> {1, 2}],
   [kind |-> <<"business", "business", "business", Nothing>>, own |-> {1, 2, 3}],
   [kind |-> [r \in Rows |-> "platform"], own |-> {4}]}

\* The delivery alone.
MCNoLayouts == {[kind |-> [r \in Rows |-> Nothing], own |-> {}]}

MCInit ==
  /\ part \in {"families", "records"}
  /\ RetentionInit /\ InitRecords
  /\ part = "families" => unsettled = {} /\ \A r \in Own : r = 4

MCNext ==
  /\ UNCHANGED part
  /\ \/ part = "families" /\ RetentionNext /\ UNCHANGED recordsVars
     \/ part = "records" /\ NextRecords /\ UNCHANGED allVars

\* The fairness of RetentionFairSpec, without senders, and of SpecRecords.
Families == part = "families"
MCFairness ==
  /\ \A p \in Pollers :
       /\ WF_vars(Families /\ (Recovery(p) \/ Claiming(p) \/ Skipping(p) \/ Handling(p)))
       /\ WF_allVars(Families /\ LosePoll(p))
  /\ WF_vars(Families /\ Tick)
  /\ \A j \in Jobs :
       /\ WF_allVars(Families /\ Age(j))
       /\ WF_allVars(Families /\ DestroyFamily(j))
  /\ WF_recordsVars(~Families /\ PassStep)

MCSpec == MCInit /\ [][MCNext]_<<part, allVars, recordsVars>> /\ MCFairness
=============================================================================
