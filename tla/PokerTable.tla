----------------------------- MODULE PokerTable -----------------------------
(***************************************************************************)
(* One table driven by its host: every public operation of the PokerTable  *)
(* class (packages/engine/src/table.ts) is an action.  The host calls them *)
(* for what players send, for lost and returning connections, and on every *)
(* tick for the deadlines that have passed; which deadlines have passed is *)
(* a free choice.  A rejected call throws and leaves the table as it is,   *)
(* so an action exists only where the operation does not throw.            *)
(***************************************************************************)
EXTENDS TableRules

CONSTANTS InitialStacks, \* stacks the first players sit down with; 0 is an empty seat
          BuyIns,        \* stacks of late joiners and rebuys
          MaxAmount,     \* bound: largest amount a bet or a raise names
          AllInAmounts,  \* amounts named with an all-in, which may also name none
          MaxHands,      \* bound: hands dealt
          Departures     \* what the host does about lost players: "never" lost, "in_play"
                         \* as apps/nakama does, "any_time" as apps/server does

ASSUME StacksAssumption == InitialStacks \subseteq Nat /\ BuyIns \subseteq Nat \ {0}
ASSUME BoundsAssumption == MaxAmount \in Nat /\ MaxHands \in Nat /\ AllInAmounts \subseteq Nat
ASSUME DeparturesAssumption == Departures \in {"never", "in_play", "any_time"}

VARIABLES table, \* TableState
          away,  \* seats whose player the host has reported lost
          hands, \* history: hands dealt
          stake, \* history: each player's stack when the hand was dealt
          bank   \* history: chips brought to the table and not taken away

vars == <<table, away, hands, stake, bank>>

Actions ==
    [type : {"fold", "check", "call", "allIn"}, amount : {NoAmount}]
        \cup [type : {"bet", "raise"}, amount : 0 .. MaxAmount]
        \cup [type : {"allIn"}, amount : AllInAmounts]

Hand == table.hand

\* The table becomes one of `results`; if that deals a hand, it is counted and
\* the stacks noted.
BecomesOneOf(results) ==
    \E u \in results :
        LET deals == InPlay(u) /\ ~InPlay(table)
        IN /\ table' = u
           /\ deals => hands < MaxHands
           /\ hands' = IF deals THEN hands + 1 ELSE hands
           /\ stake' = IF deals THEN [s \in Seats |-> u.hand.stack[s] + u.hand.committed[s]]
                       ELSE stake

Becomes(u) == BecomesOneOf({u})

\* Players have sat down at a new table with the stacks f (seatPlayer, repeatedly).
SeatedTable(f) ==
    [EmptyTable EXCEPT !.seatStatus = [s \in Seats |-> IF f[s] > 0 THEN "active" ELSE "empty"],
                       !.seatStack = f]

Init ==
    \E f \in [Seats -> InitialStacks] :
       /\ table = SeatedTable(f)
       /\ away = {}
       /\ hands = 0
       /\ stake = [s \in Seats |-> 0]
       /\ bank = Total(f)

Present(s) == Seated(table, s) /\ s \notin away

-----------------------------------------------------------------------------
(* Players.                                                                 *)

Join(s, stack) ==
    /\ CanSeat(table, s)
    /\ Becomes(BeginNextHandIfReady(SeatPlayer(table, s, stack)))
    /\ bank' = bank + stack
    /\ UNCHANGED away

Act(s, action) ==
    /\ Present(s)
    /\ Accepts(Hand, s, action)
    /\ Becomes(ApplyAction(table, s, action))
    /\ UNCHANGED <<away, bank>>

Discard(s) ==
    /\ Present(s)
    /\ Hand.phase = "discard"
    /\ s \in Hand.pending
    /\ BecomesOneOf(ApplyDiscard(table, s))
    /\ UNCHANGED <<away, bank>>

ReadyForHand(s, ready) ==
    /\ Present(s)
    /\ Becomes(AdvanceStartGate(SetReadyForHand(table, s, ready), FALSE))
    /\ UNCHANGED <<away, bank>>

LeaveSeat(s) ==
    /\ Present(s)
    /\ CanSitOut(table, s)
    /\ Becomes(SitOut(table, s))
    /\ UNCHANGED <<away, bank>>

\* What is left of a busted stack is replaced by the rebuy.
BuyBackIn(s, amount) ==
    /\ Present(s)
    /\ CanRebuy(table, s)
    /\ Becomes(Rebuy(table, s, amount))
    /\ bank' = bank + amount
    /\ UNCHANGED away

NextHand ==
    /\ CanAdvanceToNextHand(table)
    /\ Becomes(AdvanceToNextHand(table))
    /\ UNCHANGED <<away, bank>>

-----------------------------------------------------------------------------
(* Connections.                                                             *)

\* What the host makes of a lost player.  apps/nakama asks for handleDisconnect only
\* while the player is in a hand that is played, and else lets the seat sit out.
LosesPlayer(t, s) ==
    IF Departures = "in_play" /\ (~InPlay(t) \/ s \notin Dealt(t.hand))
    THEN {SetSittingOut(t, s, TRUE)}
    ELSE HandleDisconnect(t, s)

Disconnect(s) ==
    /\ Departures # "never"
    /\ Present(s)
    /\ BecomesOneOf(LosesPlayer(table, s))
    /\ away' = away \cup {s}
    /\ UNCHANGED bank

Return(s) ==
    /\ Seated(table, s)
    /\ Becomes(BeginNextHandIfReady(SetSittingOut(table, s, FALSE)))
    /\ away' = away \ {s}
    /\ UNCHANGED bank

\* The seat of a lost player who is not in the hand is given up, and the tick
\* that does it ends by looking for a next hand.
Release(s) ==
    /\ s \in away
    /\ s \notin Dealt(Hand)
    /\ Becomes(BeginNextHandIfReady(RemovePlayer(table, s)))
    /\ away' = away \ {s}
    /\ bank' = bank - table.seatStack[s]

-----------------------------------------------------------------------------
(* Deadlines.                                                               *)

StartCountdownEnds ==
    /\ table.gateOpen
    /\ Becomes(AdvanceStartGate(table, TRUE))
    /\ UNCHANGED <<away, bank>>

PauseEnds ==
    /\ Hand.waiting
    /\ BecomesOneOf(AdvancePendingPhase(table))
    /\ UNCHANGED <<away, bank>>

ActionTimeout ==
    /\ Hand.phase = "betting"
    /\ ~Hand.waiting
    /\ Hand.clock
    /\ ~AutoActionThrows(Hand)
    /\ Becomes(AutoAction(table))
    /\ UNCHANGED <<away, bank>>

DiscardTimeout ==
    /\ Hand.phase = "discard"
    /\ Hand.discardClock
    /\ BecomesOneOf(AutoDiscard(table))
    /\ UNCHANGED <<away, bank>>

Deadlines ==
    \/ StartCountdownEnds
    \/ PauseEnds
    \/ ActionTimeout
    \/ DiscardTimeout

Next ==
    \/ \E s \in Seats, stack \in BuyIns : Join(s, stack)
    \/ \E s \in Seats, action \in Actions : Act(s, action)
    \/ \E s \in Seats : Discard(s)
    \/ \E s \in Seats, ready \in BOOLEAN : ReadyForHand(s, ready)
    \/ \E s \in Seats : LeaveSeat(s)
    \/ \E s \in Seats, amount \in BuyIns : BuyBackIn(s, amount)
    \/ NextHand
    \/ \E s \in Seats : Disconnect(s)
    \/ \E s \in Seats : Return(s)
    \/ \E s \in Seats : Release(s)
    \/ Deadlines

Spec == Init /\ [][Next]_vars

\* The host ticks for ever, so a deadline that can change something does not stay
\* due for ever; players, connections and joins owe nothing.  (Weak fairness of
\* Deadlines with what enables it written out: ENABLED of it is costly for TLC.)
DeadlineDue ==
    \/ table.gateOpen
    \/ Hand.waiting
    \/ Hand.phase = "discard" /\ Hand.discardClock
    \/ Hand.clock /\ ~AutoActionThrows(Hand) /\ \E s \in Seats : OnTurn(Hand, s)

FairSpec == Spec /\ ([]<>~DeadlineDue \/ []<><<Deadlines>>_vars)

\* The same fairness in the usual form, for two-seat tables.
HeadsUpSpec == Spec /\ WF_vars(Deadlines)

-----------------------------------------------------------------------------
(* Properties.                                                              *)

Phases == {"none", "betting", "discard", "showdown"}
Streets == {"preflop", "flop", "turn", "river", "showdown"}
SeatStatuses == {"empty", "active", "sitting_out", "busted"}
PlayerStatuses == {"none", "active", "folded", "allIn", "busted"}

\* the least raises there can be
MinRaises == {amount \in Nat : amount >= BigBlind}

HandType ==
    [phase : Phases, street : Streets, button : Seats \cup {NoSeat}, board : Nat,
     status : [Seats -> PlayerStatuses], stack : [Seats -> Nat], bet : [Seats -> Nat],
     committed : [Seats -> Nat], cards : [Seats -> Int], acted : [Seats -> BOOLEAN],
     currentBet : Nat, minRaise : MinRaises, raises : Nat, turn : Seats \cup {NoSeat},
     clock : BOOLEAN, waiting : BOOLEAN, pending : SUBSET Seats, discardClock : BOOLEAN]

TableType ==
    [seatStatus : [Seats -> SeatStatuses], seatStack : [Seats -> Nat],
     sittingOut : [Seats -> BOOLEAN], button : Seats \cup {NoSeat},
     gateOpen : BOOLEAN, gateReady : SUBSET Seats, hand : HandType]

\* Every field keeps its type: no stack goes negative, no seat number is invented, and
\* no short raise brings the least raise below the big blind.
TypeOK ==
    /\ table \in TableType
    /\ away \subseteq Seats
    /\ hands \in Nat
    /\ stake \in [Seats -> Nat]
    /\ bank \in Int

\* While a hand is played the chips of every player are those dealt in, some in
\* the pot and the rest in two copies that agree, the seat's and the hand's
\* (commitBet updates both): nothing seats do mid-hand touches them.
StakesIntact ==
    InPlay(table) =>
        \A s \in Dealt(Hand) :
            /\ Hand.stack[s] + Hand.committed[s] = stake[s]
            /\ table.seatStack[s] = Hand.stack[s]

\* Streets on which the discard is behind every contender.
DiscardsMade(street) ==
    CASE street \in {"preflop", "flop"} -> 0
      [] street = "turn" -> 1
      [] street = "river" -> 2
      [] street = "showdown" -> 3

BoardSize(street) ==
    CASE street = "preflop" -> 0
      [] street = "flop" -> 3
      [] street = "turn" -> 4
      [] street \in {"river", "showdown"} -> 5

\* One discard per street and none before the flop: who is still in holds five
\* cards less one for each discard made, whoever owes today's is exactly who is
\* pending, and the board has the cards of the street.  The automatic discards
\* of absent seats may run through several streets in one call, and players who compare
\* hands hold two cards.
DiscardDiscipline ==
    /\ InPlay(table) =>
        /\ Hand.board = BoardSize(Hand.street)
        /\ \A s \in Contenders(Hand) :
              Hand.cards[s] = HoleCards - DiscardsMade(Hand.street)
                              - (IF Hand.phase = "discard" /\ s \notin Hand.pending THEN 1 ELSE 0)
    /\ Hand.street = "showdown" => \A s \in Contenders(Hand) : Hand.cards[s] = KeptCards

\* When a betting round is over, nobody who could still pay owes a bet, even when
\* it was a disconnect or a short all-in that ended it.
RoundIsPaid ==
    Hand.phase = "discard" \/ (InPlay(table) /\ Hand.waiting) =>
        \A s \in Active(Hand) : Hand.bet[s] >= Hand.currentBet

\* Chips are neither made nor lost.
ChipsConserved ==
    Total(table.seatStack) + (IF InPlay(table) THEN Total(Hand.committed) ELSE 0) = bank

\* Table stakes: when hands are compared, a hand wins from each opponent at most
\* what its player had put in himself, whatever the side pots, splits and odd chips.
TableStakes ==
    Hand.street = "showdown" =>
        \A s \in Dealt(Hand) :
            Hand.stack[s] <= stake[s] - Hand.committed[s]
                + Total([r \in Seats |-> AtMost(Hand.committed[r], Hand.committed[s])])

\* Between hands the seat of a player who is there tells the truth, whatever
\* disconnects, returns and rebuys there were during the hand: shown as active it
\* has chips and is not sitting out, shown as busted it has none, so that a rebuy
\* (which sets the stack, and is open to every busted seat) destroys no chips.
SeatsAreHonest ==
    BetweenHands(table) =>
        \A s \in Seats \ away :
            /\ table.seatStatus[s] = "active" => table.seatStack[s] > 0 /\ ~table.sittingOut[s]
            /\ table.seatStatus[s] = "busted" => table.seatStack[s] = 0

\* Whatever the legal actions of a snapshot offer, and whatever the page's buttons
\* make of them, the engine accepts.  Whoever owes a card is told so; and every total
\* the engine accepts as a bet or a raise, the page's drawer can send, be it as an
\* all-in of less than the stack.
OffersAreAccepted ==
    \A s \in Seats :
        /\ Hand.phase = "discard" /\ s \in Hand.pending => OffersDiscard(Hand, s)
        /\ \A action \in Actions :
              /\ Offers(Hand, s, action) \/ Buttons(Hand, s, action) => Accepts(Hand, s, action)
              /\ action.type \in {"bet", "raise"} /\ Accepts(Hand, s, action) =>
                     \E type \in {"bet", "raise", "allIn"} :
                        Buttons(Hand, s, [action EXCEPT !.type = type])

\* Saying to be ready deals the first hand of a table before the countdown ends
\* only if everyone dealt in has said so, the last of them just now: a seat that
\* joins, leaves, comes back or changes its mind meanwhile is not dealt in unasked.
FirstHandWaits ==
    [][ ~InPlay(table) /\ InPlay(table)' =>
            \A s \in Seats, ready \in BOOLEAN :
                ReadyForHand(s, ready) => Dealt(Hand)' \subseteq table.gateReady \cup {s} ]_vars

\* What the table shows of HandContract.  A player who ends with no chips has
\* been in the hand to the end.
StageOf(h) ==
    LET betting == CASE h.street = "preflop" -> 1 [] h.street = "flop" -> 2
                     [] h.street = "turn" -> 4 [] h.street = "river" -> 6
    IN CASE h.phase = "none" -> 0
         [] h.phase = "betting" -> betting
         [] h.phase = "discard" -> betting + 1
         [] h.phase = "showdown" -> 8

StillIn(h) == {s \in Seats : h.status[s] \in {"active", "allIn", "busted"}}

Promise ==
    INSTANCE HandContract WITH
        Players <- Seats,
        stage <- StageOf(Hand),
        live <- StillIn(Hand),
        owing <- Hand.pending,
        held <- [s \in Seats |-> IF s \in StillIn(Hand) THEN Hand.cards[s] ELSE 0]

\* The table keeps the promise of HandContract while nobody is lost: streets in
\* order, one discard from every contender on each, an end by folds or at two cards.
KeepsPromise == Promise!Contract

\* What the table shows of TableView, which the match host is modelled on.
ShownPhase(h) ==
    IF h.phase = "betting" /\ h.waiting THEN "pause" ELSE h.phase

HostSees ==
    [seated |-> {s \in Seats : Seated(table, s)},
     out |-> {s \in Seats : table.sittingOut[s]},
     broke |-> {s \in Seats : /\ Seated(table, s)
                              /\ table.seatStack[s] = 0
                              /\ ~(InPlay(table) /\ s \in Dealt(Hand))},
     dealt |-> Dealt(Hand),
     live |-> IF InPlay(table) THEN Contenders(Hand) ELSE {},
     phase |-> ShownPhase(Hand),
     turn |-> IF ShownPhase(Hand) = "betting" THEN Hand.turn ELSE NoSeat,
     pending |-> IF InPlay(table) THEN Hand.pending ELSE {},
     first |-> table.button = NoSeat,
     gate |-> table.gateOpen,
     ready |-> table.gateReady]

HostView == INSTANCE TableView WITH People <- Seats, NoOne <- NoSeat

\* The table does nothing but what its match expects of it: every operation, with all
\* that follows from it in the same call, is one of TableView's, whatever the chips and
\* cards are.
KeepsToView ==
    [][ HostSees' = HostSees \/ HostSees' \in HostView!TableSteps(HostSees) ]_vars

\* A hand that has been dealt is played to its end, by timeouts alone if need be.
HandEnds == InPlay(table) ~> ~InPlay(table)
=============================================================================
