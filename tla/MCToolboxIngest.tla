--------------------------- MODULE MCToolboxIngest ---------------------------
(* The GUI thread and the plugin's own, one or two. *)
EXTENDS ToolboxIngest, TLC

CONSTANTS gui, worker, worker2

MCThreads == {gui, worker, worker2}
MCPair == {gui, worker}
=============================================================================
