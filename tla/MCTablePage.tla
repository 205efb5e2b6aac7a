---------------------------- MODULE MCTablePage ----------------------------
(* The instance of TablePage that TLC checks.                               *)
EXTENDS TablePage
=============================================================================
