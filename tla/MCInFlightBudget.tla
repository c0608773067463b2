-------------------------- MODULE MCInFlightBudget --------------------------
(* Small instances of InFlightBudget.  Capacity 3 with requests of 1, 2 and *)
(* 4 bytes: two small runs fit together, a small and a middle one fill it,  *)
(* the large one only ever runs alone.  A copy of 2 fits beside one run and *)
(* not beside two.                                                          *)
EXTENDS InFlightBudget

CONSTANTS c1, c2, c3

MCClients == {c1, c2, c3}
MCSizes == {1, 2, 4}
MCCopies == {1, 2}
=============================================================================
