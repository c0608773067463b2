----------------------------- MODULE MCTopicDemand -----------------------------
(* Two datasets, of two topics, and two slots of each signal. *)
EXTENDS TopicDemand

CONSTANTS x, y

MCTopics == {x, y}
=============================================================================
