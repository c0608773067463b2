------------------------------ MODULE MCRecorder ------------------------------
(* Two push threads, two that stop, and a budget of two bytes: two small      *)
(* messages fill it, or a big one, which a small newcomer evicts, and a       *)
(* message of three is oversized.                                             *)
EXTENDS Recorder, TLC

CONSTANTS p1, p2, s1, s2, b1

MCProducers == {p1, p2}
MCStoppers == {s1, s2}
MCBindings == {b1}
=============================================================================
