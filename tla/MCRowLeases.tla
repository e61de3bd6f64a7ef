---------------------------- MODULE MCRowLeases ----------------------------
(* Small instances of RowLeases for TLC. *)
EXTENDS RowLeases
=============================================================================
