----------------------------- MODULE TableView -----------------------------
(***************************************************************************)
(* A table as its match sees it: who sits, who sits out or is out of       *)
(* chips, who is dealt in and how far the hand is.  Chips and cards are    *)
(* left out, so what depends on them is a free choice: an operation that   *)
(* goes through the hand gives the set of tables it can lead to.           *)
(* PokerTable, with all the rules, implements this view (HostView there);  *)
(* PdhMatch is built on it.                                                *)
(***************************************************************************)
EXTENDS Naturals, FiniteSets

CONSTANTS People, \* who may sit at the table
          NoOne

ASSUME NoOneAssumption == NoOne \notin People

Phases == {"none", "betting", "pause", "discard", "showdown"}

MinimumToPlay == 2

TableViews ==
    [seated : SUBSET People, out : SUBSET People, broke : SUBSET People,
     dealt : SUBSET People,   \* hand.players
     live : SUBSET People,    \* those still in it
     phase : Phases, turn : People \cup {NoOne}, pending : SUBSET People,
     first : BOOLEAN,         \* no hand was dealt yet (buttonSeat = -1)
     gate : BOOLEAN, ready : SUBSET People]

NewTable ==
    [seated |-> {}, out |-> {}, broke |-> {}, dealt |-> {}, live |-> {}, phase |-> "none",
     turn |-> NoOne, pending |-> {}, first |-> TRUE, gate |-> FALSE, ready |-> {}]

Playing(t) == t.phase \in {"betting", "pause", "discard"}

\* who can be dealt in
Playable(t) == t.seated \ (t.out \cup t.broke)

-----------------------------------------------------------------------------
(* A hand.                                                                  *)

\* Nobody is short of chips while playing: that is settled with the hand.
DealHand(t) ==
    {[t EXCEPT !.phase = "betting", !.dealt = Playable(t), !.live = Playable(t),
               !.turn = p, !.first = FALSE, !.gate = FALSE, !.ready = {}] : p \in Playable(t)}

\* The hand is over; some players, but not all, are left without chips.
Settle(t) ==
    {[t EXCEPT !.phase = "showdown", !.turn = NoOne, !.pending = {}, !.live = {},
               !.broke = (@ \ t.dealt) \cup b, !.out = @ \cup b] :
        b \in (SUBSET t.dealt) \ {t.dealt}}

\* The next street is bet on, or discarded on, or all that is left is the showdown.
\* Those who sit out discard at once.
OpenNext(t) ==
    {[t EXCEPT !.phase = "betting", !.turn = p, !.pending = {}] : p \in t.live}
    \cup {u \in {[t EXCEPT !.phase = "discard", !.turn = NoOne, !.pending = t.live \ t.out]} :
             u.pending # {}}
    \cup Settle(t)

\* Somebody has bet or folded: another player's turn, or the pause before what is next.
GoOn(t) ==
    {[t EXCEPT !.turn = p] : p \in t.live} \cup {[t EXCEPT !.phase = "pause", !.turn = NoOne]}

LeaveHand(t, p) ==
    LET u == [t EXCEPT !.live = @ \ {p}]
    IN IF Cardinality(u.live) <= 1 THEN Settle(u)
       ELSE IF u.phase # "betting" THEN {u}
       ELSE IF u.turn = p THEN GoOn(u)
       ELSE {u, [u EXCEPT !.phase = "pause", !.turn = NoOne]}

OnTurnNow(t, p) == t.phase = "betting" /\ t.turn = p

ActNow(t, p) == GoOn(t) \cup LeaveHand(t, p)

\* The clock of a player on turn who is all-in runs out without effect.
ClockRunsOut(t) == {t} \cup (IF t.phase = "betting" /\ t.turn # NoOne THEN ActNow(t, t.turn) ELSE {})

PauseIsOver(t) == OpenNext(t)

GiveCard(t, p) ==
    LET u == [t EXCEPT !.pending = @ \ {p}]
    IN IF u.pending = {} THEN OpenNext(u) ELSE {u}

GiveAllCards(t) == OpenNext([t EXCEPT !.pending = {}])

\* handleDisconnect: the card that is owed is given; who is all-in stays in the hand.
Vanish(t, p) ==
    LET away == [t EXCEPT !.out = @ \cup {p}]
        given == IF t.phase = "discard" /\ p \in t.pending THEN GiveCard(away, p) ELSE {away}
    IN given \cup UNION {IF Playing(u) /\ p \in u.live THEN LeaveHand(u, p) ELSE {u} : u \in given}

-----------------------------------------------------------------------------
(* Seats, and from hand to hand.                                            *)

TakesSeat(t, p) ==
    [t EXCEPT !.seated = @ \cup {p}]

GivesUpSeat(t, P) ==
    [t EXCEPT !.seated = @ \ P, !.out = @ \ P, !.broke = @ \ P]

\* setSittingOut; without chips nobody comes back, but in a hand that counts later
SitsOut(t, p) == [t EXCEPT !.out = @ \cup {p}]

ComesBack(t, p) ==
    IF p \notin t.seated THEN t
    ELSE IF p \in t.broke /\ ~(Playing(t) /\ p \in t.dealt) THEN SitsOut(t, p)
    ELSE [t EXCEPT !.out = @ \ {p}]

\* a rebuy, open to who is shown as busted
BuysIn(t, p) == [t EXCEPT !.broke = @ \ {p}, !.out = @ \ {p}]

FirstHandWaiting(t) == t.phase = "none" /\ t.first

OpenGate(t) ==
    IF ~FirstHandWaiting(t) \/ Cardinality(Playable(t)) < MinimumToPlay
    THEN [t EXCEPT !.gate = FALSE, !.ready = {}]
    ELSE [t EXCEPT !.gate = TRUE, !.ready = @ \cap Playable(t)]

SaysReady(t, p, ready) ==
    LET g == OpenGate(t)
    IN IF ~g.gate \/ p \notin Playable(t) THEN g
       ELSE [g EXCEPT !.ready = IF ready THEN @ \cup {p} ELSE @ \ {p}]

PassGate(t, elapsed) ==
    LET g == OpenGate(t)
    IN IF g.gate /\ (Playable(t) = g.ready \/ (t.gate /\ elapsed)) THEN DealHand(g) ELSE {g}

DealsNext(t) ==
    IF t.phase # "none" THEN {t}
    ELSE IF FirstHandWaiting(t) THEN {OpenGate(t)}
    ELSE IF Cardinality(Playable(t)) >= MinimumToPlay THEN DealHand(t) ELSE {t}

ClearsHand(t) == DealsNext([t EXCEPT !.phase = "none", !.dealt = {}, !.live = {}])

-----------------------------------------------------------------------------
(* What one call of an engine operation, followed by a look at the next     *)
(* hand where its callers do that, can make of the table.                   *)

SeatSteps(t) ==
    UNION {
      {DealsNext(TakesSeat(t, p)) : p \in People \ t.seated},
      {DealsNext(GivesUpSeat(t, {p})) : p \in t.seated \ t.dealt},
      {DealsNext(ComesBack(t, p)) : p \in t.seated},
      IF Playing(t) THEN {} ELSE {{SitsOut(t, p)} : p \in t.seated},
      IF Playing(t) THEN {} ELSE {{BuysIn(t, p)} : p \in t.out \cup t.broke},
      {PassGate(SaysReady(t, p, ready), elapsed) : p \in t.seated, ready, elapsed \in BOOLEAN},
      {PassGate(t, TRUE)},
      IF Playing(t) THEN {} ELSE {ClearsHand(t)} }

HandSteps(t) ==
    UNION {
      {ActNow(t, p) : p \in {q \in t.live : OnTurnNow(t, q)}},
      {ClockRunsOut(t)},
      IF t.phase = "pause" THEN {PauseIsOver(t)} ELSE {},
      IF t.phase = "discard" THEN {GiveCard(t, p) : p \in t.pending} \cup {GiveAllCards(t)} ELSE {},
      {Vanish(t, p) : p \in t.seated} }

TableSteps(t) == UNION (SeatSteps(t) \cup HandSteps(t))
=============================================================================
