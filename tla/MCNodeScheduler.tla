-------------------------- MODULE MCNodeScheduler --------------------------
(* Small graphs of nodes for TLC. *)
EXTENDS NodeScheduler, TLC

CONSTANTS a, b, c

ChainOrder == <<a, b>>
ChainReads == (a :> <<>>) @@ (b :> <<a>>)
ForkOrder == <<a, b, c>>
ForkReads == (a :> <<>>) @@ (b :> <<a>>) @@ (c :> <<a, b>>)
NoPins == [n \in Nodes |-> NoTime]
PinnedReader == [n \in Nodes |-> IF n = b THEN 2 ELSE NoTime]
=============================================================================
