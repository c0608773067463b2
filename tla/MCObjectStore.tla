---------------------------- MODULE MCObjectStore ----------------------------
(* The decoder's topic, and a pool of eight bytes of which one is kept for    *)
(* the small class: a payload of one byte is small, one of eight is large and *)
(* fills the pool.                                                            *)
EXTENDS ObjectStore

CONSTANTS video, slot1, slot2

MCTopics == {video}
MCSlots == {slot1, slot2}
MCNoSlots == {}
MCKeepTwo == {[window |-> 0, bytes |-> 0, entries |-> 2]}
MCKeepThree == {[window |-> 0, bytes |-> 0, entries |-> 3]}
=============================================================================
