--------------------------- MODULE MCConnection ----------------------------
(* Small instances of Connection for TLC. *)
EXTENDS Connection

CONSTANTS a, b

TwoFiles == {a, b}
OneFile == {a}
Sizes == [f \in Files |-> IF f = a THEN 2 ELSE 1]
GrownByOne == [f \in Files |-> IF f = a THEN Sizes[f] + 1 ELSE Sizes[f]]

NoFault == {{}}
AllFaults == {{"Stop", "Crash", "Disk"}}
SomeFaults == {{}, {"Disk", "Grown"}, {"Stop", "Crash", "Disk"}}
=============================================================================
