--------------------------- MODULE MCTxLifecycle ---------------------------
(* Small instances of TxLifecycle for TLC. *)
EXTENDS TxLifecycle
=============================================================================
