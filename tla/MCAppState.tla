----------------------------- MODULE MCAppState -----------------------------
(* Small instances of AppState for TLC: one transfer is received, and one   *)
(* or two are sent, to the same device.                                     *)
EXTENDS AppState

CONSTANTS in1, out1, out2, front

Two == {in1, out1}
Three == {in1, out1, out2}
Received == {in1}
Ids == [t \in Task |-> IF t \in Received THEN "connection" ELSE "device"]
=============================================================================
