---------------------------- MODULE MCDownloads ----------------------------
(* Small instances of Downloads for TLC. *)
EXTENDS Downloads

CONSTANTS t1, t2, a, b, c, x, y

Two == {t1, t2}
ThreeFiles == {a, b, c}

(* t1 brings "x" and "y", t2 another "x". *)
SecondSameName == [f \in Files |-> IF f = b THEN <<y>> ELSE <<x>>]
ByTransfer == [f \in Files |-> IF f = c THEN t2 ELSE t1]

Lengths == [f \in Files |-> IF f = a THEN 2 ELSE 1]
HasX == {<<x>>}
Elsewhere == {<<y>>, <<1, x>>, <<1, y>>}
=============================================================================
