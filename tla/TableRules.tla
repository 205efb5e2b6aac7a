----------------------------- MODULE TableRules -----------------------------
(***************************************************************************)
(* The rules of one Bondi Poker table: the PokerTable class of             *)
(* packages/engine/src/table.ts, as operators from table to table.         *)
(*                                                                         *)
(* A table is a record with the seats (by field, a function over seat      *)
(* numbers), the button, the first-hand start gate and the hand.  A seat   *)
(* is never released while its player is dealt in, so a player of the hand *)
(* is named by the seat number.  Clocks are Booleans: whether a deadline   *)
(* is set.  Cards are counted, not named; what a showdown compares is the  *)
(* strength every player turns out to hold.  An operator that can reach a  *)
(* showdown gives the set of tables it can lead to, one for every ranking. *)
(***************************************************************************)
EXTENDS Integers, FiniteSets

CONSTANTS NumSeats,     \* seats.length
          SmallBlind,   \* config.smallBlind
          BigBlind,     \* config.bigBlind
          Strengths     \* hand strengths told apart at a showdown

ASSUME NumSeatsAssumption == NumSeats \in Nat \ {0}
ASSUME BlindsAssumption == SmallBlind \in Nat \ {0} /\ BigBlind \in Nat \ {0}
ASSUME StrengthsAssumption == Strengths \subseteq Nat

Seats == 0 .. NumSeats - 1
NoSeat == -1
HoleCards == 5      \* cards dealt to each player
KeptCards == 2      \* cards a player shows down
RaiseCap == 2       \* raises allowed on a street
MinPlayers == 2     \* FIRST_HAND_MIN_PLAYERS
NoAmount == -1      \* an action without an amount

\* evaluateSeven: what the players turn out to hold
Ranks == [Seats -> Strengths]
NoRank == [s \in Seats |-> 0]

\* f with x for s
Put(f, s, x) == [f EXCEPT ![s] = x]

AtMost(x, y) == IF x <= y THEN x ELSE y

\* The number of chips in all stacks of f: a stack of n chips is the chips 1..n.
Total(f) == Cardinality(UNION {{x} \X (1 .. f[x]) : x \in DOMAIN f})

\* How far seat s is after seat `start`, going round the table; `start` is last.
Distance(start, s) == (s - start - 1) % NumSeats

\* The seat of S that comes first after `start` (seatOrderFrom, nextReadySeat).
FirstAfter(start, S) ==
    CHOOSE s \in S : \A r \in S : Distance(start, s) <= Distance(start, r)

-----------------------------------------------------------------------------
(* Readings of the table and of a hand h.                                   *)

\* seats that can be dealt in
Ready(t) == {s \in Seats : t.seatStatus[s] = "active" /\ t.seatStack[s] > 0 /\ ~t.sittingOut[s]}

\* hand === null, and: the hand is being played
NoHand(t) == t.hand.phase = "none"
InPlay(t) == t.hand.phase \in {"betting", "discard"}

Dealt(h) == {s \in Seats : h.status[s] # "none"}
Contenders(h) == {s \in Seats : h.status[s] \in {"active", "allIn"}}
Active(h) == {s \in Seats : h.status[s] = "active"}
WithChips(h) == {s \in Active(h) : h.stack[s] > 0}
Alone(h) == Cardinality(Contenders(h)) = 1

ToCall(h, s) == h.currentBet - h.bet[s]
AllChips(h, s) == h.bet[s] + h.stack[s]

\* A bet of `amount` on this street that s can pay and some opponent can still match.
Contestable(h, s, amount) ==
    /\ amount <= AllChips(h, s)
    /\ LET opponents == WithChips(h) \ {s}
       IN IF opponents = {} THEN amount <= h.currentBet
          ELSE \E o \in opponents : amount <= AllChips(h, o)

\* No player with chips owes a call or could win more by betting.
BettingLocked(h) ==
    \A s \in WithChips(h) : h.bet[s] >= h.currentBet /\ ~Contestable(h, s, h.currentBet + 1)

RoundComplete(h) ==
    \/ BettingLocked(h)
    \/ \A s \in WithChips(h) : h.bet[s] = h.currentBet /\ h.acted[s]

NextToAct(h) ==
    LET waiting == {s \in Active(h) : h.bet[s] < h.currentBet \/ ~h.acted[s]}
    IN IF waiting = {} THEN h.turn ELSE FirstAfter(h.turn, waiting)

SeatAfterButton(h) == IF Active(h) = {} THEN h.button ELSE FirstAfter(h.button, Active(h))

-----------------------------------------------------------------------------
(* Hands are dealt and settled.                                             *)

\* the table t with the hand h
WithHand(t, h) == [t EXCEPT !.hand = h]

NullHand ==
    [phase |-> "none", street |-> "preflop", button |-> NoSeat, board |-> 0,
     status |-> [s \in Seats |-> "none"], stack |-> [s \in Seats |-> 0],
     bet |-> [s \in Seats |-> 0], committed |-> [s \in Seats |-> 0],
     cards |-> [s \in Seats |-> 0], acted |-> [s \in Seats |-> FALSE],
     currentBet |-> 0, minRaise |-> BigBlind, raises |-> 0,
     turn |-> NoSeat, clock |-> FALSE, waiting |-> FALSE,
     pending |-> {}, discardClock |-> FALSE]

EmptyTable ==
    [seatStatus |-> [s \in Seats |-> "empty"], seatStack |-> [s \in Seats |-> 0],
     sittingOut |-> [s \in Seats |-> FALSE], button |-> NoSeat,
     gateOpen |-> FALSE, gateReady |-> {}, hand |-> NullHand]

\* Mutant of CommitBet: the seat's copy of the stack is left as it was.
CommitBetHandOnly(t, s, amount) ==
    LET pay == AtMost(amount, t.hand.stack[s])
        allIn == t.hand.stack[s] = pay
    IN [t EXCEPT !.hand.stack[s] = @ - pay,
                 !.hand.bet[s] = @ + pay,
                 !.hand.committed[s] = @ + pay,
                 !.hand.status[s] = IF allIn THEN "allIn" ELSE @,
                 !.hand.acted[s] = @ \/ allIn]

\* s puts up to `amount` more chips in the pot (commitBet).
CommitBet(t, s, amount) ==
    LET h == t.hand
        pay == AtMost(amount, h.stack[s])
        allIn == h.stack[s] = pay /\ h.status[s] = "active"
        paid == [h EXCEPT !.stack = Put(@, s, @[s] - pay),
                          !.bet = Put(@, s, @[s] + pay),
                          !.committed = Put(@, s, @[s] + pay),
                          !.status = Put(@, s, IF allIn THEN "allIn" ELSE @[s]),
                          !.acted = Put(@, s, @[s] \/ allIn)]
        seat == IF t.seatStack[s] >= pay THEN t.seatStack[s] - pay ELSE 0
    IN [t EXCEPT !.seatStack = Put(@, s, seat), !.hand = paid]

\* A new hand for the players `in`, before the blinds.
NewHand(t, in, button) ==
    [NullHand EXCEPT
        !.phase = "betting",
        !.button = button,
        !.status = [s \in Seats |-> IF s \in in THEN "active" ELSE "none"],
        !.stack = [s \in Seats |-> IF s \in in THEN t.seatStack[s] ELSE 0],
        !.cards = [s \in Seats |-> IF s \in in THEN HoleCards ELSE 0],
        !.clock = TRUE]

Deal(t, in, button) ==
    [t EXCEPT !.gateOpen = FALSE, !.gateReady = {}, !.button = button,
              !.hand = NewHand(t, in, button)]

PostBlinds(t, sb, bb) ==
    LET u == CommitBet(CommitBet(t, sb, SmallBlind), bb, BigBlind)
    IN WithHand(u, [u.hand EXCEPT !.currentBet = AtMost(BigBlind, u.hand.bet[bb])])

StartHand(t) ==
    LET in == Ready(t)
        headsUp == Cardinality(in) = 2
        button == FirstAfter(t.button, in)
        sb == IF headsUp THEN button ELSE FirstAfter(button, in)
        bb == FirstAfter(sb, in)
        u == PostBlinds(Deal(t, in, button), sb, bb)
        first == IF headsUp \/ Active(u.hand) = {} THEN button
                 ELSE FirstAfter(bb, Active(u.hand))
    IN WithHand(u, [u.hand EXCEPT !.turn = first])

\* The levels at which some player's commitment ends, one side pot each, who
\* paid into the pot of level l, its chips, and who can win it.
Levels(h) == {h.committed[s] : s \in Seats} \ {0}
PaidInto(h, l) == {s \in Seats : h.committed[s] >= l}
PotChips(h, l) ==
    {c \in PaidInto(h, l) \X (1 .. l) : \A m \in Levels(h) : m < l => m < c[2]}
\* Mutant of Eligible: every contender wins every pot.
EligibleForAll(h, l) == Contenders(h)
Eligible(h, l) == PaidInto(h, l) \cap Contenders(h)
PotWinners(h, rank, l) ==
    {s \in Eligible(h, l) : \A r \in Eligible(h, l) : rank[r] <= rank[s]}

\* Mutant of PotShare: chips that cannot be shared are dropped.
PotShareRoundedDown(h, rank, l, s) ==
    LET winners == PotWinners(h, rank, l)
    IN IF s \notin winners THEN 0
       ELSE Cardinality(PotChips(h, l)) \div Cardinality(winners)

\* What s wins of the pot of level l: an equal share, and what cannot be
\* shared goes to the first winner after the button.
PotShare(h, rank, l, s) ==
    LET winners == PotWinners(h, rank, l)
        amount == Cardinality(PotChips(h, l))
        n == Cardinality(winners)
    IN IF s \notin winners THEN 0
       ELSE (amount \div n) + (IF s = FirstAfter(h.button, winners) THEN amount % n ELSE 0)

Award(h, rank, s) ==
    IF Alone(h) THEN IF s \in Contenders(h) THEN Total(h.committed) ELSE 0
    ELSE Total([l \in Levels(h) |-> PotShare(h, rank, l, s)])

\* The pot is paid out and players without chips are busted (finishHand).
FinishHand(t, rank) ==
    LET h == t.hand
        stack == [s \in Seats |-> t.seatStack[s] + Award(h, rank, s)]
        broke == {s \in Dealt(h) : stack[s] = 0}
        stay == {s \in Dealt(h) : stack[s] > 0 /\ ~t.sittingOut[s]
                                  /\ t.seatStatus[s] # "sitting_out"}
        settled ==
            [h EXCEPT !.phase = "showdown",
                      !.clock = FALSE,
                      !.stack = [s \in Seats |-> IF s \in Dealt(h) THEN stack[s] ELSE 0],
                      !.status = [s \in Seats |-> IF s \in broke THEN "busted" ELSE @[s]],
                      !.acted = [s \in Seats |-> s \in broke \/ @[s]]]
    IN [t EXCEPT
          !.seatStack = stack,
          !.seatStatus = [s \in Seats |-> IF s \in broke THEN "busted"
                                          ELSE IF s \in stay THEN "active" ELSE @[s]],
          !.sittingOut = [s \in Seats |-> s \in broke \/ @[s]],
          !.hand = settled]

-----------------------------------------------------------------------------
(* Streets: betting, then one discard each.                                 *)

\* resetStreetState
OpenBetting(t, street) ==
    LET h == [t.hand EXCEPT !.street = street, !.phase = "betting",
                            !.currentBet = 0, !.minRaise = BigBlind, !.raises = 0,
                            !.waiting = FALSE, !.clock = TRUE,
                            !.bet = [s \in Seats |-> 0],
                            !.acted = [s \in Seats |-> t.hand.status[s] # "active"]]
    IN WithHand(t, [h EXCEPT !.turn = SeatAfterButton(h)])

\* s loses one card and owes no discard any more (discardCard and the filter).
Discarded(t, s) ==
    WithHand(t, [t.hand EXCEPT !.cards = Put(@, s, @[s] - 1), !.pending = @ \ {s}])

\* Mutant of OpenDiscard: all-in players are not asked for a card.
OpenDiscardActive(t) ==
    [t EXCEPT !.hand.phase = "discard", !.hand.clock = FALSE, !.hand.discardClock = TRUE,
              !.hand.pending = {s \in Active(t.hand) : t.hand.cards[s] > KeptCards}]

\* Mutant of OpenDiscard: seats that sit out owe no card and keep theirs.
OpenDiscardPresent(t) ==
    [t EXCEPT !.hand.phase = "discard", !.hand.clock = FALSE, !.hand.discardClock = TRUE,
              !.hand.pending = {s \in Contenders(t.hand) : ~t.sittingOut[s]}]

\* Every contender owes a card; seats that sit out give theirs at once (beginDiscardPhase).
OpenDiscard(t) ==
    LET h == t.hand
        owing == {s \in Contenders(h) : h.cards[s] > KeptCards}
        absent == {s \in owing : t.sittingOut[s]}
    IN WithHand(t, [h EXCEPT !.phase = "discard",
                             !.clock = FALSE,
                             !.cards = [s \in Seats |-> IF s \in absent THEN @[s] - 1 ELSE @[s]],
                             !.pending = owing \ absent,
                             !.discardClock = TRUE])

\* A street's cards are on the board: betting, or straight to its discard.
OpenStreet(t, street, cards) ==
    LET h == [t.hand EXCEPT !.board = @ + cards]
    IN IF BettingLocked(h) THEN OpenDiscard(WithHand(t, [h EXCEPT !.street = street]))
       ELSE OpenBetting(WithHand(t, h), street)

\* completeDiscardPhase, once nobody owes a card; otherwise nothing.
CloseDiscard(t) ==
    LET h == [t.hand EXCEPT !.discardClock = FALSE]
        u == WithHand(t, h)
        over == WithHand(t, [h EXCEPT !.street = "showdown"])
    IN IF t.hand.phase # "discard" \/ t.hand.pending # {} THEN {t}
       ELSE CASE t.hand.street = "flop" -> {OpenStreet(u, "turn", 1)}
              [] t.hand.street = "turn" -> {OpenStreet(u, "river", 1)}
              [] OTHER -> {FinishHand(over, rank) : rank \in Ranks}

\* The discards of one street may all be automatic and open the next, up to the showdown.
RunDiscards(t) ==
    UNION {CloseDiscard(v) : v \in UNION {CloseDiscard(u) : u \in CloseDiscard(t)}}

\* queueBettingRoundAdvance: nobody acts until the pause is over
Queue(t) ==
    IF t.hand.waiting THEN t
    ELSE WithHand(t, [t.hand EXCEPT !.waiting = TRUE, !.turn = NoSeat, !.clock = FALSE])

PassTurn(t) == WithHand(t, [t.hand EXCEPT !.turn = NextToAct(t.hand), !.clock = TRUE])

\* advancePendingPhase when the pause is over, with finishBettingRound
AdvancePendingPhase(t) ==
    LET h == [t.hand EXCEPT !.waiting = FALSE]
        v == WithHand(t, [h EXCEPT !.clock = FALSE])
    IN IF h.phase # "betting" THEN {WithHand(t, h)}
       ELSE IF t.hand.street = "preflop" THEN RunDiscards(OpenStreet(v, "flop", 3))
       ELSE RunDiscards(OpenDiscard(v))

-----------------------------------------------------------------------------
(* What a player does in a hand.                                            *)

\* it is the turn of s, and s can act
OnTurn(h, s) ==
    h.phase = "betting" /\ ~h.waiting /\ h.turn = s /\ h.status[s] = "active"

\* The total an all-in names: all chips of s, or fewer when it states an amount.
AllInTotal(h, s, amount) ==
    IF amount = NoAmount THEN AllChips(h, s) ELSE AtMost(amount, AllChips(h, s))

AllInIsCheck(h, s, amount) == ToCall(h, s) = 0 /\ AllInTotal(h, s, amount) <= h.currentBet
AllInIsRaise(h, s, amount) == AllInTotal(h, s, amount) > h.currentBet

CanRaiseTo(h, s, amount) == Contestable(h, s, amount) /\ h.raises < RaiseCap

\* applyAction does not throw
Accepts(h, s, action) ==
    /\ OnTurn(h, s)
    /\ CASE action.type = "fold" -> TRUE
         [] action.type = "check" -> ToCall(h, s) = 0
         [] action.type = "call" -> ToCall(h, s) > 0
         [] action.type = "bet" ->
               h.currentBet = 0 /\ action.amount >= BigBlind /\ CanRaiseTo(h, s, action.amount)
         [] action.type = "raise" ->
               /\ action.amount > h.currentBet
               /\ action.amount - h.currentBet >= h.minRaise
               /\ CanRaiseTo(h, s, action.amount)
         [] action.type = "allIn" ->
               /\ action.amount # NoAmount =>
                     action.amount >= h.bet[s] /\ (ToCall(h, s) > 0 => action.amount > h.bet[s])
               /\ AllInIsRaise(h, s, action.amount) =>
                     CanRaiseTo(h, s, AllInTotal(h, s, action.amount))

\* computeLegalActionsForPlayer in a hand: who is told to act, and what is offered
IsActor(h, s) == OnTurn(h, s) /\ ~BettingLocked(h)

Offers(h, s, action) ==
    /\ IsActor(h, s)
    /\ CASE action.type = "fold" -> TRUE
         [] action.type = "check" -> ToCall(h, s) <= 0
         [] action.type = "call" -> ToCall(h, s) > 0
         [] action.type = "bet" ->
               h.currentBet = 0 /\ action.amount >= BigBlind /\ CanRaiseTo(h, s, action.amount)
         [] action.type = "raise" ->
               /\ h.currentBet > 0
               /\ action.amount >= h.currentBet + h.minRaise
               /\ CanRaiseTo(h, s, action.amount)
         [] action.type = "allIn" ->
               IF AllChips(h, s) > h.currentBet
               THEN action.amount = NoAmount /\ CanRaiseTo(h, s, AllChips(h, s))
               ELSE action.amount = NoAmount /\ ToCall(h, s) > 0

\* and in a discard phase: who is told to give a card
OffersDiscard(h, s) ==
    /\ h.phase = "discard" /\ s \in h.pending
    /\ h.status[s] \in {"active", "allIn"} /\ h.cards[s] > KeptCards

\* resolveBettingActionControls: where the page's raise drawer begins.  Its top is the
\* largest total s can pay and some opponent can match.
DrawerFrom(h) == IF h.currentBet = 0 THEN BigBlind ELSE h.currentBet + h.minRaise
DrawerOpens(h, s) == Offers(h, s, [type |-> IF h.currentBet = 0 THEN "bet" ELSE "raise",
                                   amount |-> DrawerFrom(h)])
CallIsAllIn(h, s) == ToCall(h, s) > 0 /\ h.stack[s] <= ToCall(h, s)

\* Mutant of DrawerSends: the top of the drawer names the whole stack.
DrawerSendsStack(h, s, action) ==
    /\ DrawerOpens(h, s)
    /\ IF action.type = "allIn" THEN action.amount = AllChips(h, s)
       ELSE /\ action.type = (IF h.currentBet = 0 THEN "bet" ELSE "raise")
            /\ action.amount >= DrawerFrom(h) /\ Contestable(h, s, action.amount + 1)

\* submitRaiseAction: the top of the drawer is sent as an all-in of that total
DrawerSends(h, s, action) ==
    /\ DrawerOpens(h, s)
    /\ action.amount >= DrawerFrom(h) /\ Contestable(h, s, action.amount)
    /\ action.type = (IF ~Contestable(h, s, action.amount + 1) THEN "allIn"
                      ELSE IF h.currentBet = 0 THEN "bet" ELSE "raise")

\* What the buttons and keys of the page's betting controls send.
Buttons(h, s, action) ==
    \/ action.type \in {"fold", "check"} /\ Offers(h, s, action)
    \/ action.type = "call" /\ Offers(h, s, action) /\ ~CallIsAllIn(h, s)
    \/ /\ action = [type |-> "allIn", amount |-> NoAmount]
       /\ CallIsAllIn(h, s) /\ Offers(h, s, action)
    \/ DrawerSends(h, s, action)
    \/ /\ action = [type |-> "allIn", amount |-> AllChips(h, s)]
       /\ h.currentBet = 0 /\ ~DrawerOpens(h, s)
       /\ Offers(h, s, [action EXCEPT !.amount = NoAmount])

Acts(t, s) == WithHand(t, [t.hand EXCEPT !.acted = Put(@, s, TRUE)])

Fold(t, s) ==
    WithHand(t, [t.hand EXCEPT !.status = Put(@, s, "folded"), !.acted = Put(@, s, TRUE)])

\* placeRaise: only a raise of at least minRaise reopens the betting
PlaceRaise(t, s, total) ==
    LET raiseBy == total - t.hand.currentBet
        full == raiseBy >= t.hand.minRaise
        u == CommitBet(t, s, total - t.hand.bet[s])
    IN WithHand(u, [u.hand EXCEPT
                      !.currentBet = total,
                      !.raises = @ + 1,
                      !.minRaise = IF full THEN raiseBy ELSE @,
                      !.acted = [r \in Seats |->
                          r = s \/ (IF full THEN u.hand.status[r] # "active" ELSE @[r])]])

\* What an accepted action does to the chips.
Move(t, s, action) ==
    LET h == t.hand
        target == IF action.type = "allIn" THEN AllInTotal(h, s, action.amount) ELSE action.amount
    IN CASE action.type = "fold" -> Fold(t, s)
         [] action.type = "check" \/ (action.type = "allIn" /\ AllInIsCheck(h, s, action.amount)) ->
               Acts(t, s)
         [] action.type = "call" -> Acts(CommitBet(t, s, ToCall(h, s)), s)
         [] action.type = "allIn" /\ target <= h.currentBet /\ ToCall(h, s) # 0 ->
               Acts(CommitBet(t, s, target - h.bet[s]), s)
         [] OTHER -> PlaceRaise(t, s, target)

\* Whoever is left alone wins; a complete round waits for the next phase.
\* No showdown can happen here, so no strengths are asked for.
ApplyAction(t, s, action) ==
    LET u == Move(t, s, action)
    IN IF Alone(u.hand) THEN FinishHand(u, NoRank)
       ELSE IF RoundComplete(u.hand) THEN Queue(u) ELSE PassTurn(u)

\* autoAction past the deadline: check, or fold to a bet.  Without an actor
\* only the deadline moves.  A negative amount to call makes the check throw.
AutoActionThrows(h) == \E s \in Seats : OnTurn(h, s) /\ ToCall(h, s) < 0

TimeoutAction(h) ==
    [type |-> IF ToCall(h, h.turn) > 0 THEN "fold" ELSE "check", amount |-> NoAmount]

AutoAction(t) ==
    IF \E s \in Seats : OnTurn(t.hand, s)
    THEN ApplyAction(t, t.hand.turn, TimeoutAction(t.hand)) ELSE t

ApplyDiscard(t, s) == RunDiscards(Discarded(t, s))

AutoDiscard(t) ==
    LET h == t.hand
        given == [h EXCEPT !.cards = [s \in Seats |-> IF s \in h.pending THEN @[s] - 1 ELSE @[s]],
                           !.pending = {}]
    IN RunDiscards(WithHand(t, given))

-----------------------------------------------------------------------------
(* Seats.                                                                   *)

Seated(t, s) == t.seatStatus[s] # "empty"
BetweenHands(t) == ~InPlay(t)

CanSeat(t, s) == ~Seated(t, s)

SeatPlayer(t, s, stack) ==
    [t EXCEPT !.seatStatus[s] = IF stack > 0 THEN "active" ELSE "busted",
              !.seatStack[s] = stack,
              !.sittingOut[s] = (stack = 0)]

RemovePlayer(t, s) ==
    [t EXCEPT !.seatStatus[s] = "empty", !.seatStack[s] = 0, !.sittingOut[s] = FALSE]

\* Mutant of SetSittingOut: coming back is always taken at its word.
SetSittingOutOnly(t, s, out) ==
    [t EXCEPT !.sittingOut[s] = out, !.seatStatus[s] = IF out THEN "sitting_out" ELSE "active"]

\* setSittingOut: in a hand that is being played, coming back makes the seat
\* active whatever is left in its stack
SetSittingOut(t, s, out) ==
    LET broke == t.seatStack[s] = 0
        playing == InPlay(t) /\ s \in Dealt(t.hand)
    IN CASE out -> [t EXCEPT !.sittingOut[s] = TRUE,
                             !.seatStatus[s] = IF broke THEN "busted" ELSE "sitting_out"]
         [] ~out /\ broke /\ ~playing -> [t EXCEPT !.sittingOut[s] = TRUE, !.seatStatus[s] = "busted"]
         [] OTHER -> [t EXCEPT !.sittingOut[s] = FALSE, !.seatStatus[s] = "active"]

CanRebuy(t, s) ==
    Seated(t, s) /\ BetweenHands(t) /\ (t.seatStack[s] = 0 \/ t.seatStatus[s] = "busted")

Rebuy(t, s, amount) ==
    [t EXCEPT !.seatStack[s] = amount, !.seatStatus[s] = "active", !.sittingOut[s] = FALSE]

CanSitOut(t, s) == Seated(t, s) /\ BetweenHands(t)

SitOut(t, s) == [t EXCEPT !.sittingOut[s] = TRUE, !.seatStatus[s] = "sitting_out"]

\* Mutant of FoldsAway: the turn stays with the player who is gone.
FoldsAwayOnTurn(t, s) ==
    LET v == Fold(t, s)
    IN IF t.hand.status[s] # "active" THEN t
       ELSE IF Alone(v.hand) THEN FinishHand(v, NoRank)
       ELSE IF v.hand.phase = "betting" /\ RoundComplete(v.hand) THEN Queue(v) ELSE v

\* Mutant of FoldsAway: a fold out of turn ends the betting round.
FoldsAwayEndsRound(t, s) ==
    LET v == Fold(t, s)
    IN IF t.hand.status[s] # "active" THEN t
       ELSE IF Alone(v.hand) THEN FinishHand(v, NoRank)
       ELSE IF v.hand.phase = "betting" THEN Queue(v) ELSE v

\* A player is gone for good: the seat sits out, an owed discard is made, and
\* a player who could still act folds (handleDisconnect).
FoldsAway(t, s) ==
    LET v == Fold(t, s)
    IN IF t.hand.status[s] # "active" THEN t
       ELSE IF Alone(v.hand) THEN FinishHand(v, NoRank)
       ELSE IF v.hand.phase # "betting" THEN v
       ELSE IF RoundComplete(v.hand) THEN Queue(v)
       ELSE IF v.hand.turn = s THEN PassTurn(v) ELSE v

HandleDisconnect(t, s) ==
    LET out == SetSittingOut(t, s, TRUE)
        owes == t.hand.phase = "discard" /\ s \in t.hand.pending
    IN {FoldsAway(u, s) : u \in IF owes THEN RunDiscards(Discarded(out, s)) ELSE {out}}

-----------------------------------------------------------------------------
(* From hand to hand.                                                       *)

FirstHandPending(t) == NoHand(t) /\ t.button = NoSeat

CloseGate(t) == [t EXCEPT !.gateOpen = FALSE, !.gateReady = {}]

\* The gate before a table's first hand is open while enough seats are ready,
\* and forgets who is no longer ready (ensureStartGate).
EnsureStartGate(t) ==
    IF ~FirstHandPending(t) \/ Cardinality(Ready(t)) < MinPlayers THEN CloseGate(t)
    ELSE [t EXCEPT !.gateOpen = TRUE, !.gateReady = @ \cap Ready(t)]

SetReadyForHand(t, s, ready) ==
    LET g == EnsureStartGate(t)
    IN IF ~g.gateOpen \/ s \notin Ready(t) THEN g
       ELSE [g EXCEPT !.gateReady = IF ready THEN @ \cup {s} ELSE @ \ {s}]

\* Mutant of AdvanceStartGate: the minimum of ready players is enough.
AdvanceStartGateAtMinimum(t, elapsed) ==
    LET g == EnsureStartGate(t)
    IN IF g.gateOpen /\ (Cardinality(g.gateReady) >= MinPlayers \/ (t.gateOpen /\ elapsed))
       THEN StartHand(g) ELSE g

\* advanceStartGate; the countdown can only have run out on a gate that was open
AdvanceStartGate(t, elapsed) ==
    LET g == EnsureStartGate(t)
    IN IF g.gateOpen /\ (Ready(t) = g.gateReady \/ (t.gateOpen /\ elapsed))
       THEN StartHand(g) ELSE g

BeginNextHandIfReady(t) ==
    IF ~NoHand(t) THEN t
    ELSE IF FirstHandPending(t) THEN EnsureStartGate(t)
    ELSE IF Cardinality(Ready(t)) >= MinPlayers THEN StartHand(t) ELSE t

\* between a hand that is over and the next one
CanAdvanceToNextHand(t) == ~InPlay(t)

AdvanceToNextHand(t) == BeginNextHandIfReady([t EXCEPT !.hand = NullHand])
=============================================================================
