---------------------------- MODULE MCTcpServer ----------------------------
(* Small instances of TcpServer for TLC. *)
EXTENDS TcpServer

CONSTANTS p1, p2, p3

Three == {p1, p2, p3}
Two == {p1, p2}

(* p1 sends to the others, p2 to p3: nobody sends in a circle. *)
Downhill == [p \in Peer |-> CASE p = p1 -> {p2, p3} [] p = p2 -> {p3} [] OTHER -> {}]
EachOther == [p \in Peer |-> Peer \ {p}]
=============================================================================
