--------------------------- MODULE MCKeyExchange ---------------------------
(* A small instance of KeyExchange for TLC: two bytes of four values stand  *)
(* for 32 of 256; the 32 bytes of a PIN are mixed from what goes into it.   *)
EXTENDS KeyExchange

(* No byte, a byte or a bit short, the largest with each, and in between. *)
Chosen == {0, 1, 2, 3, 7, 8, 15}

Mixed(auth) ==
    LET a == FoldSet(LAMBDA key, sum : sum + 5 * key.x + 11 * key.y, 0, auth.secret)
        b == Value(auth.info.x) + 3 * Value(auth.info.y)
    IN  [i \in 1..32 |-> (i * i * (a + 1) + 37 * b + 101 * i) % 256]
=============================================================================
