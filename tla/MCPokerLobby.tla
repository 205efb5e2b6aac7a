---------------------------- MODULE MCPokerLobby ----------------------------
(* PokerLobby for TLC.  *)
EXTENDS PokerLobby

OneInput == {[buyIn |-> 2, tier |-> 1]}
=============================================================================
