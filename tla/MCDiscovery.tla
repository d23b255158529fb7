---------------------------- MODULE MCDiscovery ----------------------------
(* Small instances of Discovery for TLC. *)
EXTENDS Discovery

CONSTANTS d1, d2, a1, a2

TwoDevices == {d1, d2}
TwoAddrs == {a1, a2}
OwnAddr == [d \in Device |-> IF d = d1 THEN {a1} ELSE {a2}]
=============================================================================
