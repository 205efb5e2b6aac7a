---------------------------- MODULE MCLobbyPage ----------------------------
(* The instance of LobbyPage that TLC checks.  A browser that has been here *)
(* before has joined table A by its code, under session 1.                  *)
EXTENDS LobbyPage
CONSTANTS A, B
OneTable == <<[code |-> A, quick |-> FALSE, buyIn |-> DefaultBuyIn]>>
=============================================================================
