--------------------------- MODULE MCMessageGate ---------------------------
(* MessageGate for TLC: a player with two tabs. *)
EXTENDS MessageGate, TLC

CONSTANTS t1, t2

TwoTabs == {t1, t2}
Symmetry == Permutations(TwoTabs)
=============================================================================
