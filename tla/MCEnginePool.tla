---------------------------- MODULE MCEnginePool ----------------------------
(* Three runs, one of them on the Python lane, one shared thread, passes of *)
(* one publish (so that results are left over), and a call stack deep       *)
(* enough for a pass inside a waitIdle or a dialog inside a pass.           *)
EXTENDS EnginePool, TLC

CONSTANTS t1, t2, t3

MCTasks == {t1, t2, t3}
MCPython == {t3}
=============================================================================
