-------------------------- MODULE MCTypeMapCache --------------------------
(* A small instance of TypeMapCache for TLC. *)
EXTENDS TypeMapCache
=============================================================================
