--------------------------- MODULE MCKafkaConsumer ---------------------------
(* Instances of KafkaConsumer for TLC. *)
EXTENDS KafkaConsumer

\* The dead letter topic is up, is down at times, or is not configured.
Up         == {TRUE}
Unreliable == BOOLEAN
Missing    == {FALSE}
=============================================================================
