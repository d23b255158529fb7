------------------------------ MODULE MCStream ------------------------------
(* A small instance of Stream for TLC. *)
EXTENDS Stream
=============================================================================
