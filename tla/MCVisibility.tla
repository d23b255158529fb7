---------------------------- MODULE MCVisibility ----------------------------
(* Small instances of Visibility for TLC. *)
EXTENDS Visibility
=============================================================================
