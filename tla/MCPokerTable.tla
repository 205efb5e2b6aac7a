--------------------------- MODULE MCPokerTable ---------------------------
(* PokerTable on a small table: values of its constants for TLC. *)
EXTENDS PokerTable
=============================================================================
