----------------------------- MODULE MCPdhMatch -----------------------------
(* PdhMatch for TLC: three players, one of whom plays with two tabs open. *)
EXTENDS PdhMatch

CONSTANTS p1, p2, p3

ThreePlayers == {p1, p2, p3}
OneWithTwoTabs == {<<p1, "tab 1">>, <<p1, "tab 2">>, <<p2, "tab 1">>, <<p3, "tab 1">>}
=============================================================================
