---------------------------- MODULE HandContract ----------------------------
(***************************************************************************)
(* What a hand of Bondi Poker promises its players, without chips, turns,  *)
(* clocks or cards' faces: the streets come in order, a betting round may  *)
(* be skipped but a discard never is, nobody joins a hand or comes back to *)
(* it, and it ends with one player left or with two cards in every hand.   *)
(* This is the promise among players who stay connected to the end.        *)
(***************************************************************************)
EXTENDS Integers, FiniteSets

CONSTANT Players

\* The stages of a hand, in order.  Betting and discard alternate from the flop on.
NoStage == 0
PreflopBetting == 1
Over == 8
BettingStages == {1, 2, 4, 6}
DiscardStages == {3, 5, 7}

VARIABLES stage, live, owing, held

contractVars == <<stage, live, owing, held>>

Playing == stage \in BettingStages \cup DiscardStages

\* The stages that can follow: the next one, or the discard that skips its betting.
Following == {stage + 1} \cup {q \in DiscardStages : q = stage + 2 /\ q - 1 \in BettingStages}

ContractInit ==
    /\ stage = NoStage
    /\ live = {} /\ owing = {}
    /\ held = [p \in Players |-> 0]

DealIn(in) ==
    /\ ~Playing
    /\ Cardinality(in) >= 2
    /\ stage' = PreflopBetting
    /\ live' = in
    /\ owing' = {}
    /\ held' = [p \in Players |-> IF p \in in THEN 5 ELSE 0]

Clear ==
    /\ ~Playing
    /\ stage' = NoStage
    /\ live' = {} /\ owing' = {}
    /\ held' = [p \in Players |-> 0]

GiveUp(p) ==
    /\ stage \in BettingStages
    /\ p \in live
    /\ live' = live \ {p}
    /\ held' = [held EXCEPT ![p] = 0]
    /\ owing' = {}
    /\ stage' = IF Cardinality(live') = 1 THEN Over ELSE stage

EnterStage(q) ==
    /\ stage' = q
    /\ owing' = IF q \in DiscardStages THEN live ELSE {}

BettingEnds ==
    /\ stage \in BettingStages
    /\ \E q \in Following : EnterStage(q)
    /\ UNCHANGED <<live, held>>

\* Some of those who owe a card give it; when nobody owes one the hand goes on.
Give(some) ==
    /\ stage \in DiscardStages
    /\ some # {} /\ some \subseteq owing
    /\ held' = [p \in Players |-> IF p \in some THEN held[p] - 1 ELSE held[p]]
    /\ IF some = owing THEN \E q \in Following : EnterStage(q)
       ELSE stage' = stage /\ owing' = owing \ some
    /\ live' = live

ContractNext ==
    \/ \E in \in SUBSET Players : DealIn(in)
    \/ Clear
    \/ \E p \in Players : GiveUp(p)
    \/ BettingEnds
    \/ \E some \in SUBSET Players : Give(some)

Contract == ContractInit /\ [][ContractNext]_contractVars
=============================================================================
