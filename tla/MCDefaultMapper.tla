-------------------------- MODULE MCDefaultMapper --------------------------
(* A small instance of DefaultMapper for TLC. *)
EXTENDS DefaultMapper
=============================================================================
