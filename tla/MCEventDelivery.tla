--------------------------- MODULE MCEventDelivery ---------------------------
(* Instances of EventDelivery for TLC. *)
EXTENDS EventDelivery

CONSTANT MaxTopic  \* bound: messages on the topic

\* The states ClaimPending and the marks write.
AllStates == {"pending", "publishing", "published", "failed"}

\* None of the events is in the partition that is read, or one is.
NoneOrOne == {{}, {CHOOSE e \in Events : TRUE}}

\* In a behaviour either all events are recorded and the group has nothing to
\* read, or only the event of its partition is.
MCNext ==
    /\ PipelineNext
    /\ Len(topic') <= MaxTopic
    /\ partition # {} => \A e \in Events \ partition : state'[e] = "none"

MCSpec == PipelineInit /\ [][MCNext]_allVars
=============================================================================
