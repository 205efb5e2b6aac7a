------------------------- MODULE PokerTable_proofs --------------------------
(***************************************************************************)
(* Proofs about PokerTable, for every number of seats, blinds and stacks:  *)
(* what a table is made of, and what a hand looks like at every point, the *)
(* cards each contender holds, the cards on the board, and that a betting  *)
(* round which is over has been paid.  Then what a table promises: to the  *)
(* players of a hand, that it implements HandContract while none of them   *)
(* is lost; and between hands, for every policy for lost players, that     *)
(* what the seats say is true, and that a first hand is dealt to nobody    *)
(* who has not asked for it.                                               *)
(***************************************************************************)
EXTENDS PokerTable, FiniteSetTheorems, WellFoundedInduction, TLAPS

-----------------------------------------------------------------------------
(* Seats, distances, and the chips of a set of stacks.                      *)

\* A set of naturals that is not empty has a least element.
LEMMA LeastNatural ==
    ASSUME NEW S \in SUBSET Nat, S # {}
    PROVE  \E x \in S : \A y \in S : x <= y
<1> DEFINE R == {p \in Nat \X Nat : p[1] < p[2]}
<1>1. IsWellFoundedOn(R, Nat)
  BY NatLessThanWellFounded DEF OpToRel
<1>2. \E x \in S : \A y \in S : ~ (<<y, x>> \in R)
  <2> HIDE DEF R
  <2> QED BY <1>1, WFMin
<1>3. PICK x \in S : \A y \in S : ~ (<<y, x>> \in R) BY <1>2
<1>4. ASSUME NEW y \in S PROVE x <= y
  <2>1. x \in Nat /\ y \in Nat OBVIOUS
  <2>2. <<y, x>> \in R <=> y < x BY <2>1
  <2> QED BY <1>3, <2>1, <2>2
<1> QED BY <1>4

\* A distance round the table is a natural number.
LEMMA DistanceType ==
    ASSUME NEW start \in Int, NEW s \in Seats
    PROVE  Distance(start, s) \in Nat
<1>1. s \in Int BY NumSeatsAssumption DEF Seats
<1>2. \A n, k \in Int : k > 0 => n % k \in 0 .. k - 1 OBVIOUS
<1> QED BY <1>1, <1>2, NumSeatsAssumption DEF Distance

\* FirstAfter picks one of the seats it is given.
LEMMA FirstAfterIsOne ==
    ASSUME NEW start \in Seats \cup {NoSeat}, NEW S \in SUBSET Seats, S # {}
    PROVE  FirstAfter(start, S) \in S
<1>1. start \in Int BY NumSeatsAssumption DEF Seats, NoSeat
<1> DEFINE D == {Distance(start, s) : s \in S}
<1>2. D \in SUBSET Nat /\ D # {} BY <1>1, DistanceType
<1>3. \E x \in D : \A y \in D : x <= y 
  <2> HIDE DEF D
  <2> QED BY <1>2, LeastNatural
<1>4. \E s \in S : \A r \in S : Distance(start, s) <= Distance(start, r) BY <1>3
<1> QED BY <1>4 DEF FirstAfter

\* A table has finitely many seats.
LEMMA SeatsFinite == IsFiniteSet(Seats)
BY FS_Interval, NumSeatsAssumption DEF Seats

\* The chips of finitely many stacks can be counted.
LEMMA TotalType ==
    ASSUME NEW D, IsFiniteSet(D), NEW f \in [D -> Nat]
    PROVE  Total(f) \in Nat
<1> DEFINE pile == [x \in D |-> {x} \X (1 .. f[x])]
           Piles == {pile[x] : x \in D}
<1>1. \A x \in D : IsFiniteSet(pile[x])
  <2> SUFFICES ASSUME NEW x \in D PROVE IsFiniteSet({x} \X (1 .. f[x]))
    OBVIOUS
  <2>1. IsFiniteSet({x}) BY FS_Singleton
  <2>2. f[x] \in Nat OBVIOUS
  <2>3. IsFiniteSet(1 .. f[x]) BY <2>2, FS_Interval
  <2> QED BY <2>1, <2>3, FS_Product
<1>2. pile \in Surjection(D, Piles) BY DEF Surjection
<1>3. IsFiniteSet(Piles) 
  <2> HIDE DEF pile, Piles
  <2> QED BY <1>2, FS_Surjection
<1>4. IsFiniteSet(UNION Piles)
  <2>1. \A P \in Piles : IsFiniteSet(P) BY <1>1
  <2> HIDE DEF pile, Piles
  <2> QED BY <2>1, <1>3, FS_UNION
<1>5. UNION Piles = UNION {{x} \X (1 .. f[x]) : x \in DOMAIN f} OBVIOUS
<1>6. Total(f) = Cardinality(UNION Piles) BY <1>5 DEF Total
<1> QED 
  <2> HIDE DEF Piles
  <2> QED BY <1>4, <1>6, FS_CardinalityType

-----------------------------------------------------------------------------
(* What one operation on a table may change while a hand is played.         *)

Playing(h) == h.phase \in {"betting", "discard"}

\* What a player has bet on a street is part of what he has put in the pot.
BetsAreCommitted(h) == \A s \in Seats : h.bet[s] <= h.committed[s]

\* The hand h deals with the same chips of the same players as g.
SameMoney(g, h) ==
    /\ h.bet = g.bet \/ h.bet = [s \in Seats |-> 0]
    /\ h.stack = g.stack
    /\ h.committed = g.committed
    /\ \A s \in Seats : (h.status[s] = "none") <=> (g.status[s] = "none")

\* From t to u no player is dealt in or out, none has more or fewer chips, the
\* copies of a stack that agree still do, and no player's seat is emptied.
SameChips(t, u) ==
    \A s \in Seats :
        /\ u.hand.status[s] = "none" <=> t.hand.status[s] = "none"
        /\ t.hand.status[s] # "none" =>
              /\ u.hand.stack[s] + u.hand.committed[s] = t.hand.stack[s] + t.hand.committed[s]
              /\ t.seatStack[s] = t.hand.stack[s] => u.seatStack[s] = u.hand.stack[s]
              /\ t.seatStatus[s] # "empty" => u.seatStatus[s] # "empty"

\* u is a table, and if a hand is played there it is the hand of t.
Keeps(t, u) ==
    /\ u \in TableType
    /\ BetsAreCommitted(t.hand) => BetsAreCommitted(u.hand)
    /\ Playing(u.hand) => Playing(t.hand) /\ SameChips(t, u)

\* A table that is left alone keeps its hand.
LEMMA KeepsReflexive ==
    ASSUME NEW t \in TableType
    PROVE  Keeps(t, t)
BY DEF Keeps, SameChips

\* Operations that keep the hand can be chained.
LEMMA KeepsTransitive ==
    ASSUME NEW t \in TableType, NEW u, NEW v, Keeps(t, u), Keeps(u, v)
    PROVE  Keeps(t, v)
BY DEF Keeps, SameChips

\* The hand of a table is a hand.
LEMMA HandIsTyped ==
    ASSUME NEW t \in TableType
    PROVE  t.hand \in HandType
BY DEF TableType

\* A step that changes only the hand keeps it when the money in it stays.
LEMMA WithHandKeeps ==
    ASSUME NEW t \in TableType, NEW h \in HandType,
           SameMoney(t.hand, h), Playing(h) => Playing(t.hand)
    PROVE  Keeps(t, WithHand(t, h)) /\ WithHand(t, h).hand = h
<1>1. WithHand(t, h) \in TableType /\ WithHand(t, h).hand = h
  BY DEF WithHand, TableType
<1>2. /\ WithHand(t, h).seatStack = t.seatStack
      /\ WithHand(t, h).seatStatus = t.seatStatus
  BY DEF WithHand, TableType
<1>3. SameChips(t, WithHand(t, h))
  BY <1>1, <1>2 DEF SameMoney, SameChips
<1>4. BetsAreCommitted(t.hand) => BetsAreCommitted(h)
  <2>1. \A s \in Seats : h.committed[s] \in Nat BY DEF HandType
  <2> QED BY <2>1 DEF SameMoney, BetsAreCommitted
<1> QED BY <1>1, <1>3, <1>4 DEF Keeps

\* Put changes one value of a function (a seat field set by the code).
LEMMA PutType ==
    ASSUME NEW S, NEW T, NEW f \in [S -> T], NEW s \in S, NEW x \in T
    PROVE  Put(f, s, x) \in [S -> T]
BY DEF Put

\* commitBet moves chips from both copies of a stack to the pot.
LEMMA CommitBetKeeps ==
    ASSUME NEW t \in TableType, NEW s \in Seats, NEW amount \in Int,
           0 <= t.hand.bet[s] + amount, BetsAreCommitted(t.hand)
    PROVE  /\ Keeps(t, CommitBet(t, s, amount))
           /\ CommitBet(t, s, amount).hand.phase = t.hand.phase
<1> DEFINE h == t.hand
           pay == AtMost(amount, h.stack[s])
           allIn == h.stack[s] = pay /\ h.status[s] = "active"
           seat == IF t.seatStack[s] >= pay THEN t.seatStack[s] - pay ELSE 0
           paid == [h EXCEPT !.stack = Put(@, s, @[s] - pay),
                             !.bet = Put(@, s, @[s] + pay),
                             !.committed = Put(@, s, @[s] + pay),
                             !.status = Put(@, s, IF allIn THEN "allIn" ELSE @[s]),
                             !.acted = Put(@, s, @[s] \/ allIn)]
           u == [t EXCEPT !.seatStack = Put(@, s, seat), !.hand = paid]
<1>1. h \in HandType BY HandIsTyped
<1>2. pay \in Int /\ pay <= h.stack[s] /\ 0 <= h.bet[s] + pay
  BY <1>1 DEF HandType, AtMost
<1> HIDE DEF pay
<1>3. /\ h.stack[s] - pay \in Nat
      /\ h.bet[s] + pay \in Nat
      /\ h.committed[s] + pay \in Nat
  <2>1. /\ h.stack[s] \in Nat /\ h.bet[s] \in Nat /\ h.committed[s] \in Nat
        /\ h.bet[s] <= h.committed[s]
    BY <1>1 DEF HandType, BetsAreCommitted
  <2> QED BY <1>2, <2>1
<1>4. (IF allIn THEN "allIn" ELSE h.status[s]) \in PlayerStatuses
  BY <1>1 DEF HandType, PlayerStatuses
<1>5. h.acted[s] \/ allIn \in BOOLEAN OBVIOUS
<1>6. seat \in Nat BY <1>2 DEF TableType
<1>7. /\ Put(h.stack, s, h.stack[s] - pay) \in [Seats -> Nat]
      /\ Put(h.bet, s, h.bet[s] + pay) \in [Seats -> Nat]
      /\ Put(h.committed, s, h.committed[s] + pay) \in [Seats -> Nat]
  BY <1>1, <1>3, PutType DEF HandType
<1>8. Put(h.status, s, IF allIn THEN "allIn" ELSE h.status[s]) \in [Seats -> PlayerStatuses]
  BY <1>1, <1>4, PutType DEF HandType
<1>9. Put(h.acted, s, h.acted[s] \/ allIn) \in [Seats -> BOOLEAN]
  <2> HIDE DEF allIn
  <2> QED BY <1>1, <1>5, PutType DEF HandType
<1>10. paid \in HandType
  <2> HIDE DEF allIn
  <2> QED BY <1>1, <1>7, <1>8, <1>9 DEF HandType
<1>11. /\ paid.phase = h.phase
       /\ paid.stack = Put(h.stack, s, h.stack[s] - pay)
       /\ paid.bet = Put(h.bet, s, h.bet[s] + pay)
       /\ paid.committed = Put(h.committed, s, h.committed[s] + pay)
       /\ paid.status = Put(h.status, s, IF allIn THEN "allIn" ELSE h.status[s])
  <2> HIDE DEF allIn
  <2> QED BY <1>1 DEF HandType
<1> HIDE DEF paid
<1>12. Put(t.seatStack, s, seat) \in [Seats -> Nat]
  <2> HIDE DEF seat
  <2> QED BY <1>6, PutType DEF TableType
<1>13. /\ u \in TableType
       /\ u.hand = paid
       /\ u.seatStack = Put(t.seatStack, s, seat)
       /\ u.seatStatus = t.seatStatus
  <2> HIDE DEF seat
  <2> QED BY <1>10, <1>12 DEF TableType
<1>14. SameChips(t, u)
  <2> SUFFICES ASSUME NEW r \in Seats
               PROVE  /\ paid.status[r] = "none" <=> h.status[r] = "none"
                      /\ h.status[r] # "none" =>
                         /\ paid.stack[r] + paid.committed[r] = h.stack[r] + h.committed[r]
                         /\ t.seatStack[r] = h.stack[r] => u.seatStack[r] = paid.stack[r]
    BY <1>13 DEF SameChips
  <2>1. CASE r = s
    <3>1. /\ paid.stack[r] = h.stack[r] - pay
          /\ paid.committed[r] = h.committed[r] + pay
          /\ paid.status[r] = IF allIn THEN "allIn" ELSE h.status[r]
          /\ u.seatStack[r] = seat
      BY <1>1, <1>11, <1>13, <2>1 DEF Put, HandType, TableType
    <3>2. h.stack[r] \in Nat /\ h.committed[r] \in Nat BY <1>1 DEF HandType
    <3> QED BY <1>2, <2>1, <3>1, <3>2
  <2>2. CASE r # s
    BY <1>1, <1>11, <1>13, <2>2 DEF Put, HandType, TableType
  <2> QED BY <2>1, <2>2
<1>15. CommitBet(t, s, amount) = u BY DEF CommitBet, pay, paid
<1>16. Playing(u.hand) => Playing(t.hand) BY <1>11, <1>13 DEF Playing
<1>17. BetsAreCommitted(u.hand)
  <2> SUFFICES ASSUME NEW r \in Seats PROVE paid.bet[r] <= paid.committed[r]
    BY <1>13 DEF BetsAreCommitted
  <2>1. /\ h.bet[r] \in Nat /\ h.committed[r] \in Nat /\ h.bet[r] <= h.committed[r]
        /\ h.bet \in [Seats -> Nat] /\ h.committed \in [Seats -> Nat]
    BY <1>1 DEF HandType, BetsAreCommitted
  <2>2. /\ paid.bet[r] = IF r = s THEN h.bet[s] + pay ELSE h.bet[r]
        /\ paid.committed[r] = IF r = s THEN h.committed[s] + pay ELSE h.committed[r]
    BY <1>11, <2>1 DEF Put
  <2> QED BY <1>2, <2>1, <2>2
<1>18. Keeps(t, u) BY <1>13, <1>14, <1>16, <1>17 DEF Keeps
<1> HIDE DEF u
<1> QED BY <1>11, <1>13, <1>15, <1>18

-----------------------------------------------------------------------------
(* Settling a hand.                                                         *)

\* Quotients and remainders of natural numbers are natural numbers.
LEMMA QuotientType == \A a, k \in Nat : k # 0 => a \div k \in Nat /\ a % k \in Nat
OBVIOUS

\* The pot of a level is finite, so every share of it is a natural number.
LEMMA PotShareType ==
    ASSUME NEW h \in HandType, NEW rank, NEW l \in Nat, NEW s
    PROVE  PotShare(h, rank, l, s) \in Nat
<1> DEFINE winners == PotWinners(h, rank, l)
           amount == Cardinality(PotChips(h, l))
           n == Cardinality(winners)
<1>1. amount \in Nat
  <2>1. IsFiniteSet(PaidInto(h, l))
    BY SeatsFinite, FS_Subset DEF PaidInto
  <2>2. IsFiniteSet(1 .. l) BY FS_Interval
  <2>3. IsFiniteSet(PaidInto(h, l) \X (1 .. l)) BY <2>1, <2>2, FS_Product
  <2>4. PotChips(h, l) \in SUBSET (PaidInto(h, l) \X (1 .. l)) BY DEF PotChips
  <2> QED BY <2>3, <2>4, FS_Subset, FS_CardinalityType
<1>2. IsFiniteSet(winners)
  <2>1. winners \in SUBSET Seats BY DEF PotWinners, Eligible, PaidInto
  <2> QED BY <2>1, SeatsFinite, FS_Subset
<1>3. CASE s \in winners
  <2>1. n \in Nat /\ n # 0 BY <1>2, <1>3, FS_CardinalityType, FS_EmptySet
  <2> HIDE DEF amount, n
  <2>2. amount \div n \in Nat /\ amount % n \in Nat BY <1>1, <2>1, QuotientType
  <2>3. (amount \div n) + (amount % n) \in Nat BY <2>2
  <2> QED BY <1>3, <2>2, <2>3 DEF PotShare, amount, n
<1>4. CASE s \notin winners
  BY <1>4 DEF PotShare
<1> QED BY <1>3, <1>4

\* What the settlement gives a player is a natural number of chips.
LEMMA AwardType ==
    ASSUME NEW h \in HandType, NEW rank, NEW s \in Seats
    PROVE  Award(h, rank, s) \in Nat
<1>1. h.committed \in [Seats -> Nat] BY DEF HandType
<1>2. Total(h.committed) \in Nat BY <1>1, SeatsFinite, TotalType
<1>3. Levels(h) \in SUBSET Nat BY <1>1 DEF Levels
<1>4. IsFiniteSet(Levels(h))
  <2> DEFINE R == {h.committed[r] : r \in Seats}
  <2>1. h.committed \in Surjection(Seats, R) BY <1>1 DEF Surjection
  <2>2. IsFiniteSet(R)
    <3> HIDE DEF R
    <3> QED BY <2>1, SeatsFinite, FS_Surjection
  <2>3. Levels(h) \in SUBSET R BY DEF Levels
  <2> HIDE DEF R
  <2> QED BY <2>2, <2>3, FS_Subset
<1>5. [l \in Levels(h) |-> PotShare(h, rank, l, s)] \in [Levels(h) -> Nat]
  BY <1>3, PotShareType
<1>6. Total([l \in Levels(h) |-> PotShare(h, rank, l, s)]) \in Nat
  BY <1>4, <1>5, TotalType
<1> QED BY <1>2, <1>6 DEF Award

\* A hand that is settled is over.
LEMMA FinishHandKeeps ==
    ASSUME NEW t \in TableType, NEW rank
    PROVE  /\ Keeps(t, FinishHand(t, rank))
           /\ FinishHand(t, rank).hand.phase = "showdown"
<1> DEFINE h == t.hand
           stack == [s \in Seats |-> t.seatStack[s] + Award(h, rank, s)]
           broke == {s \in Dealt(h) : stack[s] = 0}
           stay == {s \in Dealt(h) : stack[s] > 0 /\ ~t.sittingOut[s]
                                     /\ t.seatStatus[s] # "sitting_out"}
           settled ==
               [h EXCEPT !.phase = "showdown",
                         !.clock = FALSE,
                         !.stack = [s \in Seats |-> IF s \in Dealt(h) THEN stack[s] ELSE 0],
                         !.status = [s \in Seats |-> IF s \in broke THEN "busted" ELSE @[s]],
                         !.acted = [s \in Seats |-> s \in broke \/ @[s]]]
           u == [t EXCEPT
                   !.seatStack = stack,
                   !.seatStatus = [s \in Seats |-> IF s \in broke THEN "busted"
                                                   ELSE IF s \in stay THEN "active" ELSE @[s]],
                   !.sittingOut = [s \in Seats |-> s \in broke \/ @[s]],
                   !.hand = settled]
<1>1. h \in HandType BY HandIsTyped
<1>2. stack \in [Seats -> Nat] BY <1>1, AwardType DEF TableType
<1> HIDE DEF stack
<1>3. /\ settled \in HandType /\ settled.phase = "showdown"
      /\ settled.bet = h.bet /\ settled.committed = h.committed
  <2> HIDE DEF broke
  <2>1. [s \in Seats |-> IF s \in Dealt(h) THEN stack[s] ELSE 0] \in [Seats -> Nat] BY <1>2
  <2>2. [s \in Seats |-> IF s \in broke THEN "busted" ELSE h.status[s]] \in [Seats -> PlayerStatuses]
    BY <1>1 DEF HandType, PlayerStatuses
  <2>3. [s \in Seats |-> s \in broke \/ h.acted[s]] \in [Seats -> BOOLEAN] OBVIOUS
  <2> QED BY <1>1, <2>1, <2>2, <2>3 DEF HandType, Phases
<1> HIDE DEF settled, stay, broke
<1>4. u \in TableType /\ u.hand = settled
  <2>1. [s \in Seats |-> IF s \in broke THEN "busted" ELSE IF s \in stay THEN "active" ELSE t.seatStatus[s]]
           \in [Seats -> SeatStatuses]
    BY DEF TableType, SeatStatuses
  <2>2. [s \in Seats |-> s \in broke \/ t.sittingOut[s]] \in [Seats -> BOOLEAN] OBVIOUS
  <2> QED BY <1>2, <1>3, <2>1, <2>2 DEF TableType
<1>5. FinishHand(t, rank) = u BY DEF FinishHand, u, settled, stay, broke, stack
<1> HIDE DEF u
<1> QED BY <1>3, <1>4, <1>5 DEF Keeps, Playing, BetsAreCommitted

-----------------------------------------------------------------------------
(* Streets.                                                                 *)

\* Players who can act sit at the table.
LEMMA ActiveAreSeats ==
    ASSUME NEW h
    PROVE  Active(h) \in SUBSET Seats /\ Contenders(h) \in SUBSET Seats
BY DEF Active, Contenders

\* seatAfterButton finds a seat when somebody has been dealt in.
LEMMA SeatAfterButtonType ==
    ASSUME NEW h \in HandType
    PROVE  SeatAfterButton(h) \in Seats \cup {NoSeat}
<1>1. h.button \in Seats \cup {NoSeat} BY DEF HandType
<1>2. CASE Active(h) = {} BY <1>1, <1>2 DEF SeatAfterButton
<1>3. CASE Active(h) # {}
  BY <1>1, <1>3, ActiveAreSeats, FirstAfterIsOne DEF SeatAfterButton
<1> QED BY <1>2, <1>3

\* nextToAct finds a seat, or leaves the turn where it is.
LEMMA NextToActType ==
    ASSUME NEW h \in HandType
    PROVE  NextToAct(h) \in Seats \cup {NoSeat}
<1> DEFINE waiting == {s \in Active(h) : h.bet[s] < h.currentBet \/ ~h.acted[s]}
<1>1. h.turn \in Seats \cup {NoSeat} BY DEF HandType
<1>2. waiting \in SUBSET Seats BY ActiveAreSeats
<1>3. NextToAct(h) = IF waiting = {} THEN h.turn ELSE FirstAfter(h.turn, waiting)
  BY DEF NextToAct
<1> HIDE DEF waiting
<1>4. CASE waiting = {} BY <1>1, <1>3, <1>4
<1>5. CASE waiting # {} BY <1>1, <1>2, <1>3, <1>5, FirstAfterIsOne
<1> QED BY <1>4, <1>5

\* A street opens with the big blind as its least raise.
LEMMA BigBlindIsMinRaise == BigBlind \in MinRaises
BY BlindsAssumption DEF MinRaises

\* resetStreetState clears the bets and keeps the money.
LEMMA OpenBettingKeeps ==
    ASSUME NEW t \in TableType, NEW street \in Streets, Playing(t.hand)
    PROVE  Keeps(t, OpenBetting(t, street))
<1> DEFINE none == [s \in Seats |-> 0]
           acted == [s \in Seats |-> t.hand.status[s] # "active"]
           h == [t.hand EXCEPT !.street = street, !.phase = "betting",
                               !.currentBet = 0, !.minRaise = BigBlind, !.raises = 0,
                               !.waiting = FALSE, !.clock = TRUE,
                               !.bet = none, !.acted = acted]
           g == [h EXCEPT !.turn = SeatAfterButton(h)]
<1>1. t.hand \in HandType BY HandIsTyped
<1>2. none \in [Seats -> Nat] /\ acted \in [Seats -> BOOLEAN] OBVIOUS
<1>3. OpenBetting(t, street) = WithHand(t, g) BY DEF OpenBetting
<1> HIDE DEF none, acted
<1>4. h \in HandType /\ SameMoney(t.hand, h)
  <2>1. h \in HandType BY <1>1, <1>2, BigBlindIsMinRaise DEF HandType, Phases
  <2>2. /\ h.bet = none /\ h.stack = t.hand.stack
        /\ h.committed = t.hand.committed /\ h.status = t.hand.status
    BY <1>1 DEF HandType
  <2> QED BY <2>1, <2>2 DEF SameMoney, none
<1> HIDE DEF h
<1>5. g \in HandType /\ SameMoney(t.hand, g)
  BY <1>4, SeatAfterButtonType DEF HandType, SameMoney
<1> HIDE DEF g
<1> QED BY <1>3, <1>5, WithHandKeeps

\* One card given by some seats.
LEMMA CardsType ==
    ASSUME NEW h \in HandType, NEW S
    PROVE  [s \in Seats |-> IF s \in S THEN h.cards[s] - 1 ELSE h.cards[s]] \in [Seats -> Int]
<1>1. \A s \in Seats : h.cards[s] \in Int BY DEF HandType
<1> QED BY <1>1

\* beginDiscardPhase takes cards, not chips.
LEMMA OpenDiscardKeeps ==
    ASSUME NEW t \in TableType, Playing(t.hand)
    PROVE  Keeps(t, OpenDiscard(t)) /\ Playing(OpenDiscard(t).hand)
<1> DEFINE h == t.hand
           owing == {s \in Contenders(h) : h.cards[s] > KeptCards}
           absent == {s \in owing : t.sittingOut[s]}
           cards == [s \in Seats |-> IF s \in absent THEN h.cards[s] - 1 ELSE h.cards[s]]
           g == [h EXCEPT !.phase = "discard",
                          !.clock = FALSE,
                          !.cards = [s \in Seats |-> IF s \in absent THEN @[s] - 1 ELSE @[s]],
                          !.pending = owing \ absent,
                          !.discardClock = TRUE]
<1>1. h \in HandType BY HandIsTyped
<1>2. OpenDiscard(t) = WithHand(t, g) BY DEF OpenDiscard
<1>3. owing \ absent \in SUBSET Seats BY ActiveAreSeats
<1> HIDE DEF absent, owing
<1>4. cards \in [Seats -> Int] BY <1>1, CardsType
<1>5. g \in HandType /\ SameMoney(h, g) /\ g.phase = "discard"
  BY <1>1, <1>3, <1>4 DEF HandType, Phases, SameMoney
<1> HIDE DEF g
<1> QED BY <1>2, <1>5, WithHandKeeps DEF Playing

\* A street is dealt without touching the chips.
LEMMA OpenStreetKeeps ==
    ASSUME NEW t \in TableType, NEW street \in Streets, NEW cards \in Nat, Playing(t.hand)
    PROVE  Keeps(t, OpenStreet(t, street, cards))
<1> DEFINE h == [t.hand EXCEPT !.board = @ + cards]
           g == [h EXCEPT !.street = street]
<1>1. t.hand \in HandType BY HandIsTyped
<1>2. h \in HandType /\ SameMoney(t.hand, h) /\ h.phase = t.hand.phase
  BY <1>1 DEF HandType, SameMoney
<1>3. OpenStreet(t, street, cards) =
        IF BettingLocked(h) THEN OpenDiscard(WithHand(t, g)) ELSE OpenBetting(WithHand(t, h), street)
  BY DEF OpenStreet
<1> HIDE DEF h
<1>4. g \in HandType /\ SameMoney(t.hand, g) /\ g.phase = t.hand.phase
  BY <1>2 DEF HandType, SameMoney
<1> HIDE DEF g
<1>5. /\ Keeps(t, WithHand(t, h)) /\ Keeps(t, WithHand(t, g))
      /\ Playing(WithHand(t, h).hand) /\ Playing(WithHand(t, g).hand)
  BY <1>2, <1>4, WithHandKeeps DEF Playing
<1>6. /\ Keeps(WithHand(t, g), OpenDiscard(WithHand(t, g)))
      /\ Keeps(WithHand(t, h), OpenBetting(WithHand(t, h), street))
  BY <1>5, OpenDiscardKeeps, OpenBettingKeeps DEF Keeps
<1> QED BY <1>3, <1>5, <1>6, KeepsTransitive

\* completeDiscardPhase opens a street or settles the hand.
LEMMA CloseDiscardKeeps ==
    ASSUME NEW t \in TableType, NEW u \in CloseDiscard(t)
    PROVE  Keeps(t, u)
<1> DEFINE h == [t.hand EXCEPT !.discardClock = FALSE]
           g == [h EXCEPT !.street = "showdown"]
           v == WithHand(t, h)
           over == WithHand(t, g)
<1>1. CASE t.hand.phase # "discard" \/ t.hand.pending # {}
  <2>1. u = t BY <1>1 DEF CloseDiscard
  <2> QED BY <2>1, KeepsReflexive
<1>2. CASE t.hand.phase = "discard" /\ t.hand.pending = {}
  <2>1. t.hand \in HandType BY HandIsTyped
  <2>2. \/ u = OpenStreet(v, "turn", 1)
        \/ u = OpenStreet(v, "river", 1)
        \/ \E rank \in Ranks : u = FinishHand(over, rank)
    BY <1>2 DEF CloseDiscard
  <2>3. h \in HandType /\ SameMoney(t.hand, h) /\ h.phase = "discard"
    BY <1>2, <2>1 DEF HandType, SameMoney
  <2>4. g \in HandType /\ SameMoney(t.hand, g) /\ g.phase = "discard"
    BY <2>3 DEF HandType, SameMoney, Streets
  <2> HIDE DEF g, h
  <2>5. /\ Keeps(t, v) /\ Keeps(t, over)
        /\ Playing(v.hand) /\ v \in TableType /\ over \in TableType
    BY <1>2, <2>3, <2>4, WithHandKeeps DEF Playing, Keeps
  <2> HIDE DEF v, over
  <2>6. CASE u = OpenStreet(v, "turn", 1) \/ u = OpenStreet(v, "river", 1)
    <3>1. "turn" \in Streets /\ "river" \in Streets BY DEF Streets
    <3>2. Keeps(v, u) BY <2>5, <2>6, <3>1, OpenStreetKeeps
    <3> QED BY <2>5, <3>2, KeepsTransitive
  <2>7. CASE \E rank \in Ranks : u = FinishHand(over, rank)
    <3>1. Keeps(over, u) BY <2>5, <2>7, FinishHandKeeps
    <3> QED BY <2>5, <3>1, KeepsTransitive
  <2> QED BY <2>2, <2>6, <2>7
<1> QED BY <1>1, <1>2

\* So do the discards that run on by themselves.
LEMMA RunDiscardsKeeps ==
    ASSUME NEW t \in TableType, NEW u \in RunDiscards(t)
    PROVE  Keeps(t, u)
<1>1. PICK v \in CloseDiscard(t) : \E w \in CloseDiscard(v) : u \in CloseDiscard(w)
  BY DEF RunDiscards
<1>2. PICK w \in CloseDiscard(v) : u \in CloseDiscard(w) BY <1>1
<1>3. Keeps(t, v) /\ v \in TableType BY CloseDiscardKeeps DEF Keeps
<1>4. Keeps(v, w) /\ w \in TableType BY <1>3, CloseDiscardKeeps DEF Keeps
<1>5. Keeps(w, u) BY <1>2, <1>4, CloseDiscardKeeps
<1> QED BY <1>3, <1>4, <1>5, KeepsTransitive

\* queueBettingRoundAdvance only stops the clock.
LEMMA QueueKeeps ==
    ASSUME NEW t \in TableType
    PROVE  Keeps(t, Queue(t))
<1> DEFINE g == [t.hand EXCEPT !.waiting = TRUE, !.turn = NoSeat, !.clock = FALSE]
<1>1. t.hand \in HandType BY HandIsTyped
<1>2. g \in HandType /\ SameMoney(t.hand, g) /\ g.phase = t.hand.phase
  BY <1>1 DEF HandType, SameMoney
<1>3. Queue(t) = t \/ Queue(t) = WithHand(t, g) BY DEF Queue
<1> HIDE DEF g
<1> QED BY <1>2, <1>3, WithHandKeeps, KeepsReflexive DEF Playing

\* The turn passes without touching the chips.
LEMMA PassTurnKeeps ==
    ASSUME NEW t \in TableType
    PROVE  Keeps(t, PassTurn(t))
<1> DEFINE next == NextToAct(t.hand)
           g == [t.hand EXCEPT !.turn = next, !.clock = TRUE]
<1>1. t.hand \in HandType /\ next \in Seats \cup {NoSeat} BY HandIsTyped, NextToActType
<1>2. PassTurn(t) = WithHand(t, g) BY DEF PassTurn
<1> HIDE DEF next
<1>3. g \in HandType /\ SameMoney(t.hand, g) /\ g.phase = t.hand.phase
  BY <1>1 DEF HandType, SameMoney
<1> HIDE DEF g
<1> QED BY <1>2, <1>3, WithHandKeeps DEF Playing

\* advancePendingPhase takes the hand on, whatever street it is.
LEMMA AdvancePendingPhaseKeeps ==
    ASSUME NEW t \in TableType, NEW u \in AdvancePendingPhase(t)
    PROVE  Keeps(t, u)
<1> DEFINE h == [t.hand EXCEPT !.waiting = FALSE]
           g == [h EXCEPT !.clock = FALSE]
           v == WithHand(t, g)
<1>1. t.hand \in HandType BY HandIsTyped
<1>2. h \in HandType /\ SameMoney(t.hand, h) /\ h.phase = t.hand.phase
  BY <1>1 DEF HandType, SameMoney
<1>3. \/ u = WithHand(t, h)
      \/ h.phase = "betting" /\ u \in RunDiscards(OpenStreet(v, "flop", 3))
      \/ h.phase = "betting" /\ u \in RunDiscards(OpenDiscard(v))
  BY DEF AdvancePendingPhase
<1> HIDE DEF h
<1>4. g \in HandType /\ SameMoney(t.hand, g) /\ g.phase = t.hand.phase
  BY <1>2 DEF HandType, SameMoney
<1> HIDE DEF g
<1>5. Keeps(t, WithHand(t, h)) /\ Keeps(t, v) /\ v.hand.phase = t.hand.phase
  BY <1>2, <1>4, WithHandKeeps DEF Playing
<1> HIDE DEF v
<1>6. CASE h.phase = "betting"
  <2>1. Playing(v.hand) /\ v \in TableType BY <1>2, <1>5, <1>6 DEF Playing, Keeps
  <2>2. Keeps(v, OpenStreet(v, "flop", 3)) /\ Keeps(v, OpenDiscard(v))
    BY <2>1, OpenStreetKeeps, OpenDiscardKeeps DEF Streets
  <2>3. Keeps(t, OpenStreet(v, "flop", 3)) /\ Keeps(t, OpenDiscard(v))
    BY <1>5, <2>2, KeepsTransitive
  <2>4. OpenStreet(v, "flop", 3) \in TableType /\ OpenDiscard(v) \in TableType
    BY <2>3 DEF Keeps
  <2> QED BY <1>3, <1>5, <2>3, <2>4, RunDiscardsKeeps, KeepsTransitive
<1> QED BY <1>3, <1>5, <1>6

-----------------------------------------------------------------------------
(* What players do.                                                         *)

\* To have acted changes no chips.
LEMMA ActsKeeps ==
    ASSUME NEW t \in TableType, NEW s \in Seats
    PROVE  Keeps(t, Acts(t, s))
<1> DEFINE acted == Put(t.hand.acted, s, TRUE)
           g == [t.hand EXCEPT !.acted = acted]
<1>1. t.hand \in HandType BY HandIsTyped
<1>2. acted \in [Seats -> BOOLEAN] BY <1>1, PutType DEF HandType
<1>3. Acts(t, s) = WithHand(t, g) BY DEF Acts
<1> HIDE DEF acted
<1>4. g \in HandType /\ SameMoney(t.hand, g) /\ g.phase = t.hand.phase
  BY <1>1, <1>2 DEF HandType, SameMoney
<1> HIDE DEF g
<1> QED BY <1>3, <1>4, WithHandKeeps DEF Playing

\* A fold leaves what was bet in the pot.
LEMMA FoldKeeps ==
    ASSUME NEW t \in TableType, NEW s \in Seats, t.hand.status[s] # "none"
    PROVE  Keeps(t, Fold(t, s)) /\ Fold(t, s).hand.phase = t.hand.phase
<1> DEFINE status == Put(t.hand.status, s, "folded")
           acted == Put(t.hand.acted, s, TRUE)
           g == [t.hand EXCEPT !.status = status, !.acted = acted]
<1>1. t.hand \in HandType BY HandIsTyped
<1>2. acted \in [Seats -> BOOLEAN] BY <1>1, PutType DEF HandType
<1>3. "folded" \in PlayerStatuses BY DEF PlayerStatuses
<1>4. status \in [Seats -> PlayerStatuses] BY <1>1, <1>3, PutType DEF HandType
<1>5. \A r \in Seats : status[r] = "none" <=> t.hand.status[r] = "none"
  BY <1>1 DEF HandType, Put
<1>6. Fold(t, s) = WithHand(t, g) BY DEF Fold
<1> HIDE DEF acted, status
<1>7. g \in HandType /\ SameMoney(t.hand, g) /\ g.phase = t.hand.phase
  BY <1>1, <1>2, <1>4, <1>5 DEF HandType, SameMoney
<1> HIDE DEF g
<1> QED BY <1>6, <1>7, WithHandKeeps DEF Playing

\* placeRaise moves the chips of the raise and nothing else.
LEMMA PlaceRaiseKeeps ==
    ASSUME NEW t \in TableType, NEW s \in Seats, NEW total \in Nat, BetsAreCommitted(t.hand)
    PROVE  Keeps(t, PlaceRaise(t, s, total))
<1> DEFINE raiseBy == total - t.hand.currentBet
           full == raiseBy >= t.hand.minRaise
           u == CommitBet(t, s, total - t.hand.bet[s])
           minRaise == IF full THEN raiseBy ELSE u.hand.minRaise
           acted == [r \in Seats |-> r = s \/ (IF full THEN u.hand.status[r] # "active"
                                              ELSE u.hand.acted[r])]
           g == [u.hand EXCEPT !.currentBet = total,
                               !.raises = @ + 1,
                               !.minRaise = IF full THEN raiseBy ELSE @,
                               !.acted = [r \in Seats |->
                                   r = s \/ (IF full THEN u.hand.status[r] # "active" ELSE @[r])]]
<1>1. t.hand \in HandType BY HandIsTyped
<1>2. Keeps(t, u) /\ u.hand.phase = t.hand.phase
  <2>1. total - t.hand.bet[s] \in Int /\ 0 <= t.hand.bet[s] + (total - t.hand.bet[s])
    <3>1. t.hand.bet[s] \in Nat BY <1>1 DEF HandType
    <3> QED BY <3>1
  <2> QED BY <2>1, CommitBetKeeps
<1>3. PlaceRaise(t, s, total) = WithHand(u, g) BY DEF PlaceRaise
<1> HIDE DEF u
<1>4. u \in TableType /\ u.hand \in HandType BY <1>2, HandIsTyped DEF Keeps
<1>5. minRaise \in MinRaises
  <2>1. t.hand.minRaise \in MinRaises /\ t.hand.currentBet \in Nat /\ u.hand.minRaise \in MinRaises
    BY <1>1, <1>4 DEF HandType
  <2> QED BY <2>1, BlindsAssumption DEF MinRaises
<1>6. acted \in [Seats -> BOOLEAN] BY <1>4 DEF HandType
<1>7. u.hand.raises + 1 \in Nat BY <1>4 DEF HandType
<1> HIDE DEF full, raiseBy
<1>8. g \in HandType /\ SameMoney(u.hand, g) /\ g.phase = t.hand.phase
  BY <1>2, <1>4, <1>5, <1>6, <1>7 DEF HandType, SameMoney
<1> HIDE DEF g
<1>9. Keeps(u, WithHand(u, g)) BY <1>2, <1>4, <1>8, WithHandKeeps DEF Playing
<1> QED BY <1>2, <1>3, <1>9, KeepsTransitive

\* Every action is of one of the types applyAction knows, with its amount a number.
LEMMA ActionsAreNamed ==
    ASSUME NEW action \in Actions
    PROVE  /\ action.type \in {"fold", "check", "call", "allIn", "bet", "raise"}
           /\ action.type \in {"bet", "raise"} => action.amount \in Nat
           /\ action.amount \in Nat \cup {NoAmount}
<1>1. 0 .. MaxAmount \subseteq Nat /\ AllInAmounts \subseteq Nat BY BoundsAssumption
<1>2. CASE action \in [type : {"fold", "check", "call", "allIn"}, amount : {NoAmount}]
  BY <1>2
<1>3. CASE action \in [type : {"bet", "raise"}, amount : 0 .. MaxAmount]
  BY <1>1, <1>3
<1>4. CASE action \in [type : {"allIn"}, amount : AllInAmounts]
  BY <1>1, <1>4
<1> QED BY <1>2, <1>3, <1>4 DEF Actions

\* An accepted action moves chips from the player to the pot and nowhere else.
LEMMA MoveKeeps ==
    ASSUME NEW t \in TableType, NEW s \in Seats, NEW action \in Actions,
           BetsAreCommitted(t.hand), Accepts(t.hand, s, action)
    PROVE  Keeps(t, Move(t, s, action))
<1> DEFINE h == t.hand
           all == AllInTotal(h, s, action.amount)
           target == IF action.type = "allIn" THEN all ELSE action.amount
<1>1. h \in HandType BY HandIsTyped
<1>2. h.bet[s] \in Nat /\ h.stack[s] \in Nat /\ h.currentBet \in Nat /\ ToCall(h, s) \in Int
  BY <1>1 DEF HandType, ToCall
<1>3. h.status[s] # "none" BY DEF Accepts, OnTurn
<1>4. CASE action.type = "fold"
  <2>1. Move(t, s, action) = Fold(t, s) BY <1>4 DEF Move
  <2> QED BY <1>3, <2>1, FoldKeeps
<1>5. CASE action.type = "check" \/ (action.type = "allIn" /\ AllInIsCheck(h, s, action.amount))
  <2>1. Move(t, s, action) = Acts(t, s) BY <1>5 DEF Move, AllInIsCheck
  <2> QED BY <2>1, ActsKeeps
<1>6. CASE action.type = "call"
  <2> DEFINE u == CommitBet(t, s, ToCall(h, s))
  <2>1. Move(t, s, action) = Acts(u, s) BY <1>6 DEF Move
  <2>2. ToCall(h, s) > 0 BY <1>6 DEF Accepts
  <2>3. Keeps(t, u) BY <1>2, <2>2, CommitBetKeeps
  <2>4. Keeps(u, Acts(u, s)) BY <2>3, ActsKeeps DEF Keeps
  <2> HIDE DEF u
  <2> QED BY <2>1, <2>3, <2>4, KeepsTransitive
<1>7. CASE action.type = "allIn" /\ ~AllInIsCheck(h, s, action.amount)
  <2>1. all \in Nat /\ h.bet[s] <= all
    <3>1. action.amount # NoAmount => action.amount \in Nat /\ action.amount >= h.bet[s]
      BY <1>7, ActionsAreNamed DEF Accepts
    <3> QED BY <1>2, <3>1 DEF AllInTotal, AllChips, AtMost
  <2>2. CASE all <= h.currentBet /\ ToCall(h, s) # 0
    <3> DEFINE u == CommitBet(t, s, all - h.bet[s])
    <3>1. Move(t, s, action) = Acts(u, s) BY <1>7, <2>2 DEF Move
    <3> HIDE DEF all
    <3>2. Keeps(t, u) BY <1>2, <2>1, CommitBetKeeps
    <3>3. Keeps(u, Acts(u, s)) BY <3>2, ActsKeeps DEF Keeps
    <3> HIDE DEF u
    <3> QED BY <3>1, <3>2, <3>3, KeepsTransitive
  <2>3. CASE ~(all <= h.currentBet /\ ToCall(h, s) # 0)
    <3>1. Move(t, s, action) = PlaceRaise(t, s, all) BY <1>7, <2>3 DEF Move
    <3> HIDE DEF all
    <3> QED BY <2>1, <3>1, PlaceRaiseKeeps
  <2> QED BY <2>2, <2>3
<1>8. CASE action.type \in {"bet", "raise"}
  <2>1. Move(t, s, action) = PlaceRaise(t, s, action.amount) BY <1>8 DEF Move
  <2>2. action.amount \in Nat BY <1>8, ActionsAreNamed
  <2> QED BY <2>1, <2>2, PlaceRaiseKeeps
<1> QED BY <1>4, <1>5, <1>6, <1>7, <1>8, ActionsAreNamed

\* applyAction as a whole: the move and what it leads to.
LEMMA ApplyActionKeeps ==
    ASSUME NEW t \in TableType, NEW s \in Seats, NEW action \in Actions,
           BetsAreCommitted(t.hand), Accepts(t.hand, s, action)
    PROVE  Keeps(t, ApplyAction(t, s, action))
<1> DEFINE u == Move(t, s, action)
<1>1. Keeps(t, u) /\ u \in TableType BY MoveKeeps DEF Keeps
<1>2. ApplyAction(t, s, action) \in {FinishHand(u, NoRank), Queue(u), PassTurn(u)}
  BY DEF ApplyAction
<1> HIDE DEF u
<1>3. Keeps(u, ApplyAction(t, s, action))
  BY <1>1, <1>2, FinishHandKeeps, QueueKeeps, PassTurnKeeps
<1> QED BY <1>1, <1>3, KeepsTransitive

\* autoAction is a fold or a check, or nothing.
LEMMA AutoActionKeeps ==
    ASSUME NEW t \in TableType, BetsAreCommitted(t.hand), ~AutoActionThrows(t.hand)
    PROVE  Keeps(t, AutoAction(t))
<1> DEFINE h == t.hand
           s == h.turn
           action == TimeoutAction(h)
<1>1. CASE ~ \E r \in Seats : OnTurn(h, r)
  <2>1. AutoAction(t) = t BY <1>1 DEF AutoAction
  <2> QED BY <2>1, KeepsReflexive
<1>2. CASE \E r \in Seats : OnTurn(h, r)
  <2>1. s \in Seats /\ OnTurn(h, s) BY <1>2 DEF OnTurn
  <2>2. ToCall(h, s) \in Int /\ ~(ToCall(h, s) < 0)
    <3>1. h.currentBet \in Nat /\ h.bet[s] \in Nat BY <2>1, HandIsTyped DEF HandType
    <3> QED BY <2>1, <3>1 DEF AutoActionThrows, ToCall
  <2>3. /\ action \in Actions
        /\ action.type = IF ToCall(h, s) > 0 THEN "fold" ELSE "check"
    <3>1. action = [type |-> IF ToCall(h, s) > 0 THEN "fold" ELSE "check", amount |-> NoAmount]
      BY DEF TimeoutAction
    <3>2. action \in [type : {"fold", "check", "call", "allIn"}, amount : {NoAmount}]
      BY <3>1
    <3> HIDE DEF action
    <3> QED BY <3>1, <3>2 DEF Actions
  <2>4. Accepts(h, s, action)
    <3> HIDE DEF action, s
    <3>1. CASE ToCall(h, s) > 0
      <4>1. action.type = "fold" BY <2>3, <3>1
      <4> QED BY <2>1, <4>1 DEF Accepts
    <3>2. CASE ~(ToCall(h, s) > 0)
      <4>1. action.type = "check" /\ ToCall(h, s) = 0 BY <2>2, <2>3, <3>2
      <4> QED BY <2>1, <4>1 DEF Accepts
    <3> QED BY <3>1, <3>2
  <2>5. AutoAction(t) = ApplyAction(t, s, action) BY <1>2 DEF AutoAction
  <2> HIDE DEF action, s
  <2> QED BY <2>1, <2>3, <2>4, <2>5, ApplyActionKeeps
<1> QED BY <1>1, <1>2

\* discardCard takes a card and no chips.
LEMMA DiscardedKeeps ==
    ASSUME NEW t \in TableType, NEW s \in Seats
    PROVE  Keeps(t, Discarded(t, s))
<1> DEFINE cards == Put(t.hand.cards, s, t.hand.cards[s] - 1)
           g == [t.hand EXCEPT !.cards = cards, !.pending = @ \ {s}]
<1>1. t.hand \in HandType BY HandIsTyped
<1>2. t.hand.cards[s] - 1 \in Int BY <1>1 DEF HandType
<1>3. cards \in [Seats -> Int] BY <1>1, <1>2, PutType DEF HandType
<1>4. Discarded(t, s) = WithHand(t, g) BY DEF Discarded
<1> HIDE DEF cards
<1>5. g \in HandType /\ SameMoney(t.hand, g) /\ g.phase = t.hand.phase
  BY <1>1, <1>3 DEF HandType, SameMoney
<1> HIDE DEF g
<1> QED BY <1>4, <1>5, WithHandKeeps DEF Playing

\* applyDiscard, up to the street it may open.
LEMMA ApplyDiscardKeeps ==
    ASSUME NEW t \in TableType, NEW s \in Seats, NEW u \in ApplyDiscard(t, s)
    PROVE  Keeps(t, u)
<1>1. Keeps(t, Discarded(t, s)) /\ Discarded(t, s) \in TableType
  BY DiscardedKeeps DEF Keeps
<1>2. Keeps(Discarded(t, s), u) BY <1>1, RunDiscardsKeeps DEF ApplyDiscard
<1> QED BY <1>1, <1>2, KeepsTransitive

\* autoDiscard, up to the street it opens.
LEMMA AutoDiscardKeeps ==
    ASSUME NEW t \in TableType, NEW u \in AutoDiscard(t)
    PROVE  Keeps(t, u)
<1> DEFINE h == t.hand
           cards == [s \in Seats |-> IF s \in h.pending THEN h.cards[s] - 1 ELSE h.cards[s]]
           g == [h EXCEPT !.cards = [s \in Seats |-> IF s \in h.pending THEN @[s] - 1 ELSE @[s]],
                          !.pending = {}]
           v == WithHand(t, g)
<1>1. h \in HandType BY HandIsTyped
<1>2. cards \in [Seats -> Int] BY <1>1, CardsType
<1>3. u \in RunDiscards(v) BY DEF AutoDiscard
<1>4. g \in HandType /\ SameMoney(h, g) /\ g.phase = h.phase
  BY <1>1, <1>2 DEF HandType, SameMoney
<1> HIDE DEF g
<1>5. Keeps(t, v) /\ v \in TableType BY <1>4, WithHandKeeps DEF Playing, Keeps
<1> HIDE DEF v
<1>6. Keeps(v, u) BY <1>3, <1>5, RunDiscardsKeeps
<1> QED BY <1>5, <1>6, KeepsTransitive

-----------------------------------------------------------------------------
(* Seats.                                                                   *)

\* A change of seats keeps the hand if the seats of its players keep their chips.
LEMMA SeatChangeKeeps ==
    ASSUME NEW t \in TableType, NEW u \in TableType, u.hand = t.hand,
           \A s \in Seats : Playing(t.hand) /\ t.hand.status[s] # "none" =>
               u.seatStack[s] = t.seatStack[s] /\ u.seatStatus[s] # "empty"
    PROVE  Keeps(t, u)
BY DEF Keeps, SameChips

\* A player who sits down is not in the hand.
LEMMA SeatPlayerKeeps ==
    ASSUME NEW t \in TableType, NEW s \in Seats, NEW stack \in Nat,
           Playing(t.hand) => t.hand.status[s] = "none",
           \A r \in Seats : Playing(t.hand) /\ t.hand.status[r] # "none" =>
               t.seatStatus[r] # "empty"
    PROVE  Keeps(t, SeatPlayer(t, s, stack))
<1> DEFINE u == SeatPlayer(t, s, stack)
<1>1. u \in TableType BY DEF SeatPlayer, TableType, SeatStatuses
<1>2. /\ u.hand = t.hand
      /\ \A r \in Seats \ {s} : /\ u.seatStack[r] = t.seatStack[r]
                                /\ u.seatStatus[r] = t.seatStatus[r]
  BY DEF SeatPlayer, TableType
<1> HIDE DEF u
<1>3. Keeps(t, u) BY <1>1, <1>2, SeatChangeKeeps
<1> QED BY <1>3 DEF u

\* A seat that is released is not in the hand.
LEMMA RemovePlayerKeeps ==
    ASSUME NEW t \in TableType, NEW s \in Seats,
           Playing(t.hand) => t.hand.status[s] = "none",
           \A r \in Seats : Playing(t.hand) /\ t.hand.status[r] # "none" =>
               t.seatStatus[r] # "empty"
    PROVE  Keeps(t, RemovePlayer(t, s))
<1> DEFINE u == RemovePlayer(t, s)
<1>1. u \in TableType BY DEF RemovePlayer, TableType, SeatStatuses
<1>2. /\ u.hand = t.hand
      /\ \A r \in Seats \ {s} : /\ u.seatStack[r] = t.seatStack[r]
                                /\ u.seatStatus[r] = t.seatStatus[r]
  BY DEF RemovePlayer, TableType
<1> HIDE DEF u
<1>3. Keeps(t, u) BY <1>1, <1>2, SeatChangeKeeps
<1> QED BY <1>3 DEF u

\* setSittingOut changes flags only.
LEMMA SetSittingOutKeeps ==
    ASSUME NEW t \in TableType, NEW s \in Seats, NEW out \in BOOLEAN,
           \A r \in Seats : Playing(t.hand) /\ t.hand.status[r] # "none" =>
               t.seatStatus[r] # "empty"
    PROVE  /\ Keeps(t, SetSittingOut(t, s, out))
           /\ SetSittingOut(t, s, out).hand = t.hand
<1> DEFINE u == SetSittingOut(t, s, out)
<1>1. PICK x \in BOOLEAN, y \in SeatStatuses \ {"empty"} :
         u = [t EXCEPT !.sittingOut[s] = x, !.seatStatus[s] = y]
  BY DEF SetSittingOut, SeatStatuses
<1> HIDE DEF u
<1>2. u \in TableType BY <1>1 DEF TableType
<1>3. /\ u.hand = t.hand /\ u.seatStack = t.seatStack
      /\ u.seatStatus[s] # "empty"
      /\ \A r \in Seats \ {s} : u.seatStatus[r] = t.seatStatus[r]
  BY <1>1 DEF TableType
<1>4. Keeps(t, u) BY <1>2, <1>3, SeatChangeKeeps
<1> QED BY <1>3, <1>4 DEF u

\* A rebuy happens between hands.
LEMMA RebuyKeeps ==
    ASSUME NEW t \in TableType, NEW s \in Seats, NEW amount \in Nat, ~Playing(t.hand)
    PROVE  Keeps(t, Rebuy(t, s, amount))
<1> DEFINE u == Rebuy(t, s, amount)
<1>1. u \in TableType /\ u.hand = t.hand BY DEF Rebuy, TableType, SeatStatuses
<1> HIDE DEF u
<1>2. Keeps(t, u) BY <1>1, SeatChangeKeeps
<1> QED BY <1>2 DEF u

\* sitOut happens between hands.
LEMMA SitOutKeeps ==
    ASSUME NEW t \in TableType, NEW s \in Seats, ~Playing(t.hand)
    PROVE  Keeps(t, SitOut(t, s))
<1> DEFINE u == SitOut(t, s)
<1>1. u \in TableType /\ u.hand = t.hand BY DEF SitOut, TableType, SeatStatuses
<1> HIDE DEF u
<1>2. Keeps(t, u) BY <1>1, SeatChangeKeeps
<1> QED BY <1>2 DEF u

\* The fold of a lost player, up to the settlement it may bring.
LEMMA FoldsAwayKeeps ==
    ASSUME NEW t \in TableType, NEW s \in Seats
    PROVE  Keeps(t, FoldsAway(t, s))
<1> DEFINE v == Fold(t, s)
           u == FoldsAway(t, s)
<1>1. CASE t.hand.status[s] # "active"
  <2>1. u = t BY <1>1 DEF FoldsAway
  <2> QED BY <2>1, KeepsReflexive
<1>2. CASE t.hand.status[s] = "active"
  <2>1. Keeps(t, v) /\ v \in TableType BY <1>2, FoldKeeps DEF Keeps
  <2>2. u \in {FinishHand(v, NoRank), v, Queue(v), PassTurn(v)} BY <1>2 DEF FoldsAway
  <2> HIDE DEF v
  <2>3. Keeps(v, u)
    BY <2>1, <2>2, FinishHandKeeps, KeepsReflexive, QueueKeeps, PassTurnKeeps
  <2> QED BY <2>1, <2>3, KeepsTransitive
<1> QED BY <1>1, <1>2

\* handleDisconnect as a whole.
LEMMA HandleDisconnectKeeps ==
    ASSUME NEW t \in TableType, NEW s \in Seats, NEW u \in HandleDisconnect(t, s),
           \A r \in Seats : Playing(t.hand) /\ t.hand.status[r] # "none" =>
               t.seatStatus[r] # "empty"
    PROVE  Keeps(t, u)
<1> DEFINE out == SetSittingOut(t, s, TRUE)
<1>1. Keeps(t, out) /\ out \in TableType BY SetSittingOutKeeps DEF Keeps
<1>2. PICK v \in RunDiscards(Discarded(out, s)) \cup {out} : u = FoldsAway(v, s)
  BY DEF HandleDisconnect
<1> HIDE DEF out
<1>3. Keeps(out, v) /\ v \in TableType
  <2>1. CASE v = out BY <1>1, <2>1, KeepsReflexive
  <2>2. CASE v \in RunDiscards(Discarded(out, s))
    <3>1. Keeps(out, v) BY <1>1, <2>2, ApplyDiscardKeeps DEF ApplyDiscard
    <3> QED BY <3>1 DEF Keeps
  <2> QED BY <1>1, <2>1, <2>2
<1>4. Keeps(v, u) BY <1>2, <1>3, FoldsAwayKeeps
<1> QED BY <1>1, <1>3, <1>4, KeepsTransitive

\* Whatever a host makes of a lost player, the hand is kept.
LEMMA LosesPlayerKeeps ==
    ASSUME NEW t \in TableType, NEW s \in Seats, NEW u \in LosesPlayer(t, s),
           \A r \in Seats : Playing(t.hand) /\ t.hand.status[r] # "none" =>
               t.seatStatus[r] # "empty"
    PROVE  Keeps(t, u)
<1>1. CASE u = SetSittingOut(t, s, TRUE) BY <1>1, SetSittingOutKeeps
<1>2. CASE u \in HandleDisconnect(t, s) BY <1>2, HandleDisconnectKeeps
<1> QED BY <1>1, <1>2 DEF LosesPlayer

-----------------------------------------------------------------------------
(* From hand to hand.                                                       *)

\* A hand just dealt: its players are seated and both copies of their stacks agree.
Fresh(u) ==
    \A s \in Seats : u.hand.status[s] # "none" =>
        u.seatStack[s] = u.hand.stack[s] /\ u.seatStatus[s] # "empty"

\* u is a table, and if a hand is played there it is the hand of t or a fresh one.
Follows(t, u) ==
    /\ u \in TableType
    /\ BetsAreCommitted(t.hand) => BetsAreCommitted(u.hand)
    /\ Playing(u.hand) => IF Playing(t.hand) THEN SameChips(t, u) ELSE Fresh(u)

\* To keep a hand is one way of following it.
LEMMA KeepsFollows ==
    ASSUME NEW t, NEW u, Keeps(t, u)
    PROVE  Follows(t, u)
BY DEF Keeps, Follows

\* The start gate has nothing to do with the hand.
LEMMA CloseGateKeeps ==
    ASSUME NEW t \in TableType
    PROVE  Keeps(t, CloseGate(t)) /\ CloseGate(t).hand = t.hand
<1> DEFINE u == CloseGate(t)
<1>1. /\ u \in TableType /\ u.hand = t.hand
      /\ u.seatStack = t.seatStack /\ u.seatStatus = t.seatStatus
  BY DEF CloseGate, TableType
<1> HIDE DEF u
<1>2. Keeps(t, u) BY <1>1 DEF Keeps, SameChips
<1> QED BY <1>1, <1>2 DEF u

\* ensureStartGate changes the gate only.
LEMMA EnsureStartGateKeeps ==
    ASSUME NEW t \in TableType
    PROVE  /\ Keeps(t, EnsureStartGate(t))
           /\ EnsureStartGate(t).hand = t.hand
           /\ EnsureStartGate(t).gateOpen =>
                NoHand(t) /\ Ready(EnsureStartGate(t)) = Ready(t)
                /\ ~(Cardinality(Ready(t)) < MinPlayers)
<1> DEFINE u == [t EXCEPT !.gateOpen = TRUE, !.gateReady = @ \cap Ready(t)]
<1>1. CASE ~FirstHandPending(t) \/ Cardinality(Ready(t)) < MinPlayers
  <2>1. EnsureStartGate(t) = CloseGate(t) BY <1>1 DEF EnsureStartGate
  <2>2. CloseGate(t).gateOpen = FALSE BY DEF CloseGate, TableType
  <2> QED BY <2>1, <2>2, CloseGateKeeps
<1>2. CASE ~(~FirstHandPending(t) \/ Cardinality(Ready(t)) < MinPlayers)
  <2>1. EnsureStartGate(t) = u BY <1>2 DEF EnsureStartGate
  <2>2. /\ u \in TableType /\ u.hand = t.hand /\ u.sittingOut = t.sittingOut
        /\ u.seatStack = t.seatStack /\ u.seatStatus = t.seatStatus
    BY DEF TableType
  <2> HIDE DEF u
  <2>3. Keeps(t, u) BY <2>2 DEF Keeps, SameChips
  <2>4. Ready(u) = Ready(t) BY <2>2 DEF Ready
  <2> QED BY <1>2, <2>1, <2>2, <2>3, <2>4 DEF FirstHandPending
<1> QED BY <1>1, <1>2

\* setReadyForHand changes the gate only.
LEMMA SetReadyForHandKeeps ==
    ASSUME NEW t \in TableType, NEW s \in Seats, NEW ready \in BOOLEAN
    PROVE  Keeps(t, SetReadyForHand(t, s, ready)) /\ SetReadyForHand(t, s, ready).hand = t.hand
<1> DEFINE g == EnsureStartGate(t)
           names == IF ready THEN g.gateReady \cup {s} ELSE g.gateReady \ {s}
           u == [g EXCEPT !.gateReady = names]
<1>1. Keeps(t, g) /\ g \in TableType /\ g.hand = t.hand BY EnsureStartGateKeeps DEF Keeps
<1>2. SetReadyForHand(t, s, ready) = g \/ SetReadyForHand(t, s, ready) = u
  BY DEF SetReadyForHand
<1> HIDE DEF g
<1>3. /\ u \in TableType /\ u.hand = g.hand
      /\ u.seatStack = g.seatStack /\ u.seatStatus = g.seatStatus
  <2>1. names \in SUBSET Seats BY <1>1 DEF TableType
  <2> HIDE DEF names
  <2> QED BY <1>1, <2>1 DEF TableType
<1> HIDE DEF u
<1>4. Keeps(g, u) BY <1>3 DEF Keeps, SameChips
<1> QED BY <1>1, <1>2, <1>3, <1>4, KeepsTransitive

\* The hand that is not there is a hand too.
LEMMA NullHandType == NullHand \in HandType /\ NullHand.phase = "none" /\ BetsAreCommitted(NullHand)
<1>1. NullHand \in HandType
  BY BigBlindIsMinRaise DEF NullHand, HandType, Phases, Streets, PlayerStatuses
<1>2. NullHand.phase = "none" /\ NullHand.bet = NullHand.committed BY DEF NullHand
<1>3. \A s \in Seats : NullHand.bet[s] \in Nat BY <1>1 DEF HandType
<1> QED BY <1>1, <1>2, <1>3 DEF BetsAreCommitted

\* The blinds are posted from a hand just dealt.
LEMMA DealFollows ==
    ASSUME NEW t \in TableType, NEW in \in SUBSET Seats, NEW button \in Seats,
           \A s \in in : t.seatStatus[s] # "empty"
    PROVE  /\ Deal(t, in, button) \in TableType
           /\ Fresh(Deal(t, in, button))
           /\ BetsAreCommitted(Deal(t, in, button).hand)
           /\ Playing(Deal(t, in, button).hand)
<1> DEFINE status == [s \in Seats |-> IF s \in in THEN "active" ELSE "none"]
           stack == [s \in Seats |-> IF s \in in THEN t.seatStack[s] ELSE 0]
           cards == [s \in Seats |-> IF s \in in THEN HoleCards ELSE 0]
           h == [NullHand EXCEPT !.phase = "betting", !.button = button, !.status = status,
                                 !.stack = stack, !.cards = cards, !.clock = TRUE]
           u == [t EXCEPT !.gateOpen = FALSE, !.gateReady = {}, !.button = button, !.hand = h]
<1>1. /\ status \in [Seats -> PlayerStatuses]
      /\ stack \in [Seats -> Nat]
      /\ cards \in [Seats -> Int]
  BY DEF TableType, PlayerStatuses, HoleCards
<1>2. \A s \in Seats : /\ status[s] = IF s \in in THEN "active" ELSE "none"
                       /\ s \in in => stack[s] = t.seatStack[s]
  OBVIOUS
<1>3. Deal(t, in, button) = u BY DEF Deal, NewHand
<1> HIDE DEF status, stack, cards
<1>4. /\ h \in HandType /\ h.status = status /\ h.stack = stack /\ h.phase = "betting"
      /\ h.bet = NullHand.bet /\ h.committed = NullHand.committed
  BY <1>1, NullHandType DEF HandType, Phases
<1> HIDE DEF h
<1>5. /\ u \in TableType /\ u.hand = h
      /\ u.seatStack = t.seatStack /\ u.seatStatus = t.seatStatus
  BY <1>4 DEF TableType
<1> HIDE DEF u
<1>6. Fresh(u) BY <1>2, <1>4, <1>5 DEF Fresh
<1>7. BetsAreCommitted(u.hand) BY <1>4, <1>5, NullHandType DEF BetsAreCommitted
<1>8. Playing(u.hand) BY <1>4, <1>5 DEF Playing
<1> QED BY <1>3, <1>5, <1>6, <1>7, <1>8

\* Fresh stays true as chips go to the pot.
LEMMA FreshKeeps ==
    ASSUME NEW t, NEW u, Fresh(t), SameChips(t, u)
    PROVE  Fresh(u)
BY DEF Fresh, SameChips

\* A blind comes out of the chips dealt in.
LEMMA CommitBetFresh ==
    ASSUME NEW t \in TableType, NEW s \in Seats, NEW amount \in Nat,
           Playing(t.hand), Fresh(t), BetsAreCommitted(t.hand)
    PROVE  LET u == CommitBet(t, s, amount)
           IN  /\ u \in TableType /\ Playing(u.hand)
               /\ Fresh(u) /\ BetsAreCommitted(u.hand)
<1> DEFINE u == CommitBet(t, s, amount)
<1>1. t.hand.bet[s] \in Nat BY HandIsTyped DEF HandType
<1>2. Keeps(t, u) /\ u.hand.phase = t.hand.phase BY <1>1, CommitBetKeeps
<1> HIDE DEF u
<1>3. Playing(u.hand) BY <1>2 DEF Playing
<1> QED BY <1>2, <1>3, FreshKeeps DEF Keeps, u

\* So do both blinds (postBlinds).
LEMMA PostBlindsFresh ==
    ASSUME NEW t \in TableType, NEW sb \in Seats, NEW bb \in Seats,
           Playing(t.hand), Fresh(t), BetsAreCommitted(t.hand)
    PROVE  LET u == PostBlinds(t, sb, bb)
           IN  /\ u \in TableType /\ Playing(u.hand)
               /\ Fresh(u) /\ BetsAreCommitted(u.hand)
<1> DEFINE v == CommitBet(t, sb, SmallBlind)
           w == CommitBet(v, bb, BigBlind)
           bet == AtMost(BigBlind, w.hand.bet[bb])
           g == [w.hand EXCEPT !.currentBet = bet]
<1>1. v \in TableType /\ Playing(v.hand) /\ Fresh(v) /\ BetsAreCommitted(v.hand)
  BY BlindsAssumption, CommitBetFresh
<1> HIDE DEF v
<1>2. w \in TableType /\ Playing(w.hand) /\ Fresh(w) /\ BetsAreCommitted(w.hand)
  BY <1>1, BlindsAssumption, CommitBetFresh
<1> HIDE DEF w
<1>3. w.hand \in HandType BY <1>2, HandIsTyped
<1>4. bet \in Nat
  <2>1. w.hand.bet[bb] \in Nat BY <1>3 DEF HandType
  <2> QED BY <2>1, BlindsAssumption DEF AtMost
<1>5. PostBlinds(t, sb, bb) = WithHand(w, g) BY DEF PostBlinds, v, w
<1> HIDE DEF bet
<1>6. g \in HandType /\ SameMoney(w.hand, g) /\ g.phase = w.hand.phase
  BY <1>3, <1>4 DEF HandType, SameMoney
<1> HIDE DEF g
<1>7. Keeps(w, WithHand(w, g)) /\ Playing(WithHand(w, g).hand)
  BY <1>2, <1>6, WithHandKeeps DEF Playing
<1> QED BY <1>2, <1>5, <1>7, FreshKeeps DEF Keeps

\* A hand is dealt to the seats that are ready, from stacks on which both copies agree.
LEMMA StartHandFresh ==
    ASSUME NEW t \in TableType, ~(Cardinality(Ready(t)) < MinPlayers)
    PROVE  LET u == StartHand(t)
           IN  u \in TableType /\ Fresh(u) /\ BetsAreCommitted(u.hand)
<1> DEFINE in == Ready(t)
           headsUp == Cardinality(in) = 2
           button == FirstAfter(t.button, in)
           sb == IF headsUp THEN button ELSE FirstAfter(button, in)
           bb == FirstAfter(sb, in)
           d == Deal(t, in, button)
           w == PostBlinds(d, sb, bb)
           first == IF headsUp \/ Active(w.hand) = {} THEN button
                    ELSE FirstAfter(bb, Active(w.hand))
           g == [w.hand EXCEPT !.turn = first]
<1>1. in \in SUBSET Seats /\ \A s \in in : t.seatStatus[s] # "empty" BY DEF Ready
<1>2. in # {} BY FS_EmptySet DEF MinPlayers
<1> HIDE DEF in, headsUp
<1>3. t.button \in Seats \cup {NoSeat} BY DEF TableType
<1>4. button \in Seats BY <1>1, <1>2, <1>3, FirstAfterIsOne
<1> HIDE DEF button
<1>5. sb \in Seats BY <1>1, <1>2, <1>4, FirstAfterIsOne
<1> HIDE DEF sb
<1>6. bb \in Seats BY <1>1, <1>2, <1>5, FirstAfterIsOne
<1> HIDE DEF bb
<1>7. d \in TableType /\ Playing(d.hand) /\ Fresh(d) /\ BetsAreCommitted(d.hand)
  BY <1>1, <1>4, DealFollows
<1> HIDE DEF d
<1>8. w \in TableType /\ Playing(w.hand) /\ Fresh(w) /\ BetsAreCommitted(w.hand)
  BY <1>5, <1>6, <1>7, PostBlindsFresh
<1> HIDE DEF w
<1>9. first \in Seats BY <1>4, <1>6, ActiveAreSeats, FirstAfterIsOne
<1>10. StartHand(t) = WithHand(w, g)
  BY DEF StartHand, in, headsUp, button, sb, bb, d, w
<1> HIDE DEF first
<1>11. w.hand \in HandType BY <1>8, HandIsTyped
<1>12. g \in HandType /\ SameMoney(w.hand, g) /\ g.phase = w.hand.phase
  BY <1>9, <1>11 DEF HandType, SameMoney
<1> HIDE DEF g
<1>13. Keeps(w, WithHand(w, g)) /\ Playing(WithHand(w, g).hand)
  BY <1>8, <1>12, WithHandKeeps DEF Playing
<1> QED BY <1>8, <1>10, <1>13, FreshKeeps DEF Keeps

\* advanceStartGate deals a fresh hand or changes the gate.
LEMMA AdvanceStartGateFollows ==
    ASSUME NEW t \in TableType, NEW elapsed \in BOOLEAN
    PROVE  Follows(t, AdvanceStartGate(t, elapsed))
<1> DEFINE g == EnsureStartGate(t)
           u == AdvanceStartGate(t, elapsed)
<1>1. Keeps(t, g) /\ g \in TableType BY EnsureStartGateKeeps DEF Keeps
<1>2. CASE u = g BY <1>1, <1>2, KeepsFollows
<1>3. CASE u # g
  <2>1. u = StartHand(g) /\ g.gateOpen BY <1>3 DEF AdvanceStartGate
  <2>2. NoHand(t) /\ ~(Cardinality(Ready(g)) < MinPlayers)
    BY <2>1, EnsureStartGateKeeps
  <2>3. u \in TableType /\ Fresh(u) /\ BetsAreCommitted(u.hand)
    BY <1>1, <2>1, <2>2, StartHandFresh
  <2>4. ~Playing(t.hand) BY <2>2 DEF NoHand, Playing
  <2> QED BY <2>3, <2>4 DEF Follows
<1> QED BY <1>2, <1>3

\* beginNextHandIfReady deals a fresh hand, or opens the gate.
LEMMA BeginNextHandFollows ==
    ASSUME NEW t \in TableType
    PROVE  Follows(t, BeginNextHandIfReady(t))
<1> DEFINE u == BeginNextHandIfReady(t)
<1>1. CASE u = t BY <1>1, KeepsReflexive, KeepsFollows
<1>2. CASE u = EnsureStartGate(t) BY <1>2, EnsureStartGateKeeps, KeepsFollows
<1>3. CASE u # t /\ u # EnsureStartGate(t)
  <2>1. u = StartHand(t) /\ NoHand(t) /\ Cardinality(Ready(t)) >= MinPlayers
    BY <1>3 DEF BeginNextHandIfReady
  <2>2. ~(Cardinality(Ready(t)) < MinPlayers)
    <3>1. IsFiniteSet(Ready(t))
      <4>1. Ready(t) \in SUBSET Seats BY DEF Ready
      <4> QED BY <4>1, SeatsFinite, FS_Subset
    <3>2. Cardinality(Ready(t)) \in Nat BY <3>1, FS_CardinalityType
    <3> QED BY <2>1, <3>2 DEF MinPlayers
  <2>3. u \in TableType /\ Fresh(u) /\ BetsAreCommitted(u.hand) BY <2>1, <2>2, StartHandFresh
  <2>4. ~Playing(t.hand) BY <2>1 DEF NoHand, Playing
  <2> QED BY <2>3, <2>4 DEF Follows
<1> QED BY <1>1, <1>2, <1>3

\* advanceToNextHand drops the settled hand before it deals.
LEMMA AdvanceToNextHandFollows ==
    ASSUME NEW t \in TableType, ~Playing(t.hand)
    PROVE  Follows(t, AdvanceToNextHand(t))
<1> DEFINE v == WithHand(t, NullHand)
<1>1. v \in TableType /\ v.hand = NullHand BY NullHandType DEF WithHand, TableType
<1>2. AdvanceToNextHand(t) = BeginNextHandIfReady(v) BY DEF AdvanceToNextHand, WithHand
<1> HIDE DEF v
<1>3. Follows(v, AdvanceToNextHand(t)) BY <1>1, <1>2, BeginNextHandFollows
<1>4. ~Playing(v.hand) /\ BetsAreCommitted(v.hand) BY <1>1, NullHandType DEF Playing
<1> QED BY <1>3, <1>4 DEF Follows

\* A step that keeps the hand and then looks for the next one.
LEMMA KeepsThenFollows ==
    ASSUME NEW t \in TableType, NEW u, NEW v, Keeps(t, u), Follows(u, v),
           Playing(t.hand) => Playing(u.hand)
    PROVE  Follows(t, v)
BY DEF Keeps, Follows, SameChips

-----------------------------------------------------------------------------
(* The inductive invariant.                                                 *)

\* Players of a hand being played keep their seats.
PlayersSeated ==
    Playing(Hand) =>
        \A s \in Seats : Hand.status[s] # "none" => table.seatStatus[s] # "empty"

Accounts ==
    Playing(Hand) =>
        \A s \in Seats : Hand.status[s] # "none" =>
            /\ Hand.stack[s] + Hand.committed[s] = stake[s]
            /\ table.seatStack[s] = Hand.stack[s]

TableInv ==
    /\ table \in TableType
    /\ hands \in Nat
    /\ stake \in [Seats -> Nat]
    /\ BetsAreCommitted(Hand)
    /\ PlayersSeated
    /\ Accounts

IInv ==
    /\ TableInv
    /\ away \subseteq Seats
    /\ bank \in Int

\* The inductive invariant implies the properties the runs check.
LEMMA AccountsAreStakes == IInv => TypeOK /\ StakesIntact
<1> SUFFICES ASSUME IInv PROVE TypeOK /\ StakesIntact OBVIOUS
<1>1. TypeOK BY DEF IInv, TableInv, TypeOK
<1>2. StakesIntact
  <2> SUFFICES ASSUME InPlay(table), NEW s \in Dealt(Hand)
               PROVE  /\ Hand.stack[s] + Hand.committed[s] = stake[s]
                      /\ table.seatStack[s] = Hand.stack[s]
    BY DEF StakesIntact
  <2>1. s \in Seats /\ Hand.status[s] # "none" BY DEF Dealt
  <2>2. Playing(Hand) BY DEF InPlay, Playing, Hand
  <2> QED BY <2>1, <2>2 DEF IInv, TableInv, Accounts
<1> QED BY <1>1, <1>2

\* Whatever table the operations lead to, the bookkeeping of the step keeps the
\* invariant.
LEMMA BecomesKeepsInvariant ==
    ASSUME TableInv, NEW R, BecomesOneOf(R), \A u \in R : Follows(table, u)
    PROVE  TableInv'
<1>1. PICK u \in R :
         LET deals == InPlay(u) /\ ~InPlay(table)
         IN  /\ table' = u
             /\ hands' = IF deals THEN hands + 1 ELSE hands
             /\ stake' = IF deals THEN [s \in Seats |-> u.hand.stack[s] + u.hand.committed[s]]
                         ELSE stake
  BY DEF BecomesOneOf
<1>2. Follows(table, u) /\ u \in TableType /\ u.hand \in HandType
  BY HandIsTyped DEF Follows
<1>3. /\ table' \in TableType
      /\ BetsAreCommitted(Hand)'
  BY <1>1, <1>2 DEF Follows, TableInv, Hand, BetsAreCommitted
<1>4. hands' \in Nat BY <1>1 DEF TableInv
<1>5. stake' \in [Seats -> Nat]
  <2>1. \A s \in Seats : u.hand.stack[s] + u.hand.committed[s] \in Nat
    BY <1>2 DEF HandType
  <2> QED BY <1>1, <2>1 DEF TableInv
<1>6. ASSUME Playing(u.hand), NEW s \in Seats, u.hand.status[s] # "none"
      PROVE  /\ u.seatStatus[s] # "empty"
             /\ u.hand.stack[s] + u.hand.committed[s] = stake'[s]
             /\ u.seatStack[s] = u.hand.stack[s]
  <2>1. CASE Playing(table.hand)
    <3>1. SameChips(table, u) BY <1>2, <1>6, <2>1 DEF Follows
    <3>2. stake' = stake BY <1>1, <2>1 DEF InPlay, Playing
    <3> QED BY <1>6, <2>1, <3>1, <3>2 DEF SameChips, TableInv, PlayersSeated, Accounts, Hand
  <2>2. CASE ~Playing(table.hand)
    <3>1. Fresh(u) BY <1>2, <1>6, <2>2 DEF Follows
    <3>2. stake' = [r \in Seats |-> u.hand.stack[r] + u.hand.committed[r]]
      BY <1>1, <1>6, <2>2 DEF InPlay, Playing
    <3> QED BY <1>6, <3>1, <3>2 DEF Fresh
  <2> QED BY <2>1, <2>2
<1>7. table' = u BY <1>1
<1>8. PlayersSeated' BY <1>6, <1>7 DEF PlayersSeated, Hand, Playing
<1>9. Accounts' BY <1>6, <1>7 DEF Accounts, Hand, Playing
<1> QED BY <1>3, <1>4, <1>5, <1>8, <1>9 DEF TableInv

\* A new table satisfies the invariant.
LEMMA InitKeepsInvariant == Init => IInv
<1> SUFFICES ASSUME NEW f \in [Seats -> InitialStacks],
                    table = SeatedTable(f), away = {}, hands = 0,
                    stake = [s \in Seats |-> 0], bank = Total(f)
             PROVE  IInv
  BY DEF Init
<1>1. f \in [Seats -> Nat] BY StacksAssumption
<1>2. bank \in Int BY <1>1, SeatsFinite, TotalType
<1> DEFINE status == [s \in Seats |-> IF f[s] > 0 THEN "active" ELSE "empty"]
<1>3. status \in [Seats -> SeatStatuses] BY DEF SeatStatuses
<1>4. EmptyTable \in TableType /\ EmptyTable.hand = NullHand
  BY NullHandType DEF EmptyTable, TableType, SeatStatuses
<1>5. table \in TableType /\ Hand = NullHand
  <2> HIDE DEF status
  <2>1. table = [EmptyTable EXCEPT !.seatStatus = status, !.seatStack = f]
    BY DEF SeatedTable, status
  <2> QED BY <1>1, <1>3, <1>4, <2>1 DEF TableType, Hand
<1>6. ~Playing(Hand) /\ BetsAreCommitted(Hand) BY <1>5, NullHandType DEF Playing
<1> QED BY <1>2, <1>5, <1>6 DEF IInv, TableInv, PlayersSeated, Accounts

\* Each action takes the table to one that follows it.
LEMMA NextKeepsInvariant == IInv /\ [Next]_vars => IInv'
<1> SUFFICES ASSUME IInv, [Next]_vars PROVE IInv' OBVIOUS
<1>1. /\ TableInv /\ table \in TableType /\ BetsAreCommitted(table.hand)
      /\ \A s \in Seats : Playing(table.hand) /\ table.hand.status[s] # "none" =>
            table.seatStatus[s] # "empty"
      /\ away \subseteq Seats /\ bank \in Int
  BY DEF IInv, TableInv, PlayersSeated, Hand
<1>2. ASSUME NEW s \in Seats, NEW stack \in BuyIns, Join(s, stack) PROVE IInv'
  <2> DEFINE u == SeatPlayer(table, s, stack)
  <2>1. stack \in Nat BY StacksAssumption
  <2>2. Playing(table.hand) => table.hand.status[s] = "none"
    BY <1>1, <1>2 DEF Join, CanSeat, Seated
  <2>3. Keeps(table, u) /\ u \in TableType BY <1>1, <2>1, <2>2, SeatPlayerKeeps DEF Keeps
  <2>4. u.hand = table.hand BY <1>1 DEF SeatPlayer, TableType
  <2> HIDE DEF u
  <2>5. Follows(table, BeginNextHandIfReady(u))
    BY <1>1, <2>3, <2>4, BeginNextHandFollows, KeepsThenFollows
  <2>6. TableInv' BY <1>1, <1>2, <2>5, BecomesKeepsInvariant DEF Join, Becomes, u
  <2> QED BY <1>1, <1>2, <2>1, <2>6 DEF Join, IInv
<1>3. ASSUME NEW s \in Seats, NEW action \in Actions, Act(s, action) PROVE IInv'
  <2>1. Follows(table, ApplyAction(table, s, action))
    BY <1>1, <1>3, ApplyActionKeeps, KeepsFollows DEF Act, Hand
  <2>2. TableInv' BY <1>1, <1>3, <2>1, BecomesKeepsInvariant DEF Act, Becomes
  <2> QED BY <1>1, <1>3, <2>2 DEF Act, IInv
<1>4. ASSUME NEW s \in Seats, Discard(s) PROVE IInv'
  <2>1. \A u \in ApplyDiscard(table, s) : Follows(table, u)
    BY <1>1, ApplyDiscardKeeps, KeepsFollows
  <2>2. TableInv' BY <1>1, <1>4, <2>1, BecomesKeepsInvariant DEF Discard
  <2> QED BY <1>1, <1>4, <2>2 DEF Discard, IInv
<1>5. ASSUME NEW s \in Seats, NEW ready \in BOOLEAN, ReadyForHand(s, ready) PROVE IInv'
  <2> DEFINE u == SetReadyForHand(table, s, ready)
  <2>1. Keeps(table, u) /\ u \in TableType /\ u.hand = table.hand
    BY <1>1, SetReadyForHandKeeps DEF Keeps
  <2>2. Follows(table, AdvanceStartGate(u, FALSE))
    BY <1>1, <2>1, AdvanceStartGateFollows, KeepsThenFollows
  <2>3. TableInv' BY <1>1, <1>5, <2>2, BecomesKeepsInvariant DEF ReadyForHand, Becomes
  <2> QED BY <1>1, <1>5, <2>3 DEF ReadyForHand, IInv
<1>6. ASSUME NEW s \in Seats, LeaveSeat(s) PROVE IInv'
  <2>1. Follows(table, SitOut(table, s))
    BY <1>1, <1>6, SitOutKeeps, KeepsFollows
       DEF LeaveSeat, CanSitOut, BetweenHands, InPlay, Playing
  <2>2. TableInv' BY <1>1, <1>6, <2>1, BecomesKeepsInvariant DEF LeaveSeat, Becomes
  <2> QED BY <1>1, <1>6, <2>2 DEF LeaveSeat, IInv
<1>7. ASSUME NEW s \in Seats, NEW amount \in BuyIns, BuyBackIn(s, amount) PROVE IInv'
  <2>1. amount \in Nat BY StacksAssumption
  <2>2. Follows(table, Rebuy(table, s, amount))
    BY <1>1, <1>7, <2>1, RebuyKeeps, KeepsFollows
       DEF BuyBackIn, CanRebuy, BetweenHands, InPlay, Playing
  <2>3. TableInv' BY <1>1, <1>7, <2>2, BecomesKeepsInvariant DEF BuyBackIn, Becomes
  <2> QED BY <1>1, <1>7, <2>1, <2>3 DEF BuyBackIn, IInv
<1>8. CASE NextHand
  <2>1. Follows(table, AdvanceToNextHand(table))
    BY <1>1, <1>8, AdvanceToNextHandFollows DEF NextHand, CanAdvanceToNextHand, InPlay, Playing
  <2>2. TableInv' BY <1>1, <1>8, <2>1, BecomesKeepsInvariant DEF NextHand, Becomes
  <2> QED BY <1>1, <1>8, <2>2 DEF NextHand, IInv
<1>9. ASSUME NEW s \in Seats, Disconnect(s) PROVE IInv'
  <2>1. \A u \in LosesPlayer(table, s) : Follows(table, u)
    BY <1>1, LosesPlayerKeeps, KeepsFollows
  <2>2. TableInv' BY <1>1, <1>9, <2>1, BecomesKeepsInvariant DEF Disconnect
  <2> QED BY <1>1, <1>9, <2>2 DEF Disconnect, IInv
<1>10. ASSUME NEW s \in Seats, Return(s) PROVE IInv'
  <2> DEFINE u == SetSittingOut(table, s, FALSE)
  <2>1. Keeps(table, u) /\ u \in TableType /\ u.hand = table.hand
    BY <1>1, SetSittingOutKeeps DEF Keeps
  <2>2. Follows(table, BeginNextHandIfReady(u))
    BY <1>1, <2>1, BeginNextHandFollows, KeepsThenFollows
  <2>3. TableInv' BY <1>1, <1>10, <2>2, BecomesKeepsInvariant DEF Return, Becomes
  <2> QED BY <1>1, <1>10, <2>3 DEF Return, IInv
<1>11. ASSUME NEW s \in Seats, Release(s) PROVE IInv'
  <2> DEFINE u == RemovePlayer(table, s)
  <2>1. table.hand.status[s] = "none" BY <1>11 DEF Release, Dealt, Hand
  <2>2. Keeps(table, u) /\ u \in TableType BY <1>1, <2>1, RemovePlayerKeeps DEF Keeps
  <2>3. u.hand = table.hand BY <1>1 DEF RemovePlayer, TableType
  <2> HIDE DEF u
  <2>4. Follows(table, BeginNextHandIfReady(u))
    BY <1>1, <2>2, <2>3, BeginNextHandFollows, KeepsThenFollows
  <2>5. TableInv' BY <1>1, <1>11, <2>4, BecomesKeepsInvariant DEF Release, Becomes, u
  <2>6. bank - table.seatStack[s] \in Int BY <1>1 DEF TableType
  <2> QED BY <1>1, <1>11, <2>5, <2>6 DEF Release, IInv
<1>12. CASE StartCountdownEnds
  <2>1. Follows(table, AdvanceStartGate(table, TRUE)) BY <1>1, AdvanceStartGateFollows
  <2>2. TableInv' BY <1>1, <1>12, <2>1, BecomesKeepsInvariant DEF StartCountdownEnds, Becomes
  <2> QED BY <1>1, <1>12, <2>2 DEF StartCountdownEnds, IInv
<1>13. CASE PauseEnds
  <2>1. \A u \in AdvancePendingPhase(table) : Follows(table, u)
    BY <1>1, AdvancePendingPhaseKeeps, KeepsFollows
  <2>2. TableInv' BY <1>1, <1>13, <2>1, BecomesKeepsInvariant DEF PauseEnds
  <2> QED BY <1>1, <1>13, <2>2 DEF PauseEnds, IInv
<1>14. CASE ActionTimeout
  <2>1. Follows(table, AutoAction(table))
    BY <1>1, <1>14, AutoActionKeeps, KeepsFollows DEF ActionTimeout, Hand
  <2>2. TableInv' BY <1>1, <1>14, <2>1, BecomesKeepsInvariant DEF ActionTimeout, Becomes
  <2> QED BY <1>1, <1>14, <2>2 DEF ActionTimeout, IInv
<1>15. CASE DiscardTimeout
  <2>1. \A u \in AutoDiscard(table) : Follows(table, u)
    BY <1>1, AutoDiscardKeeps, KeepsFollows
  <2>2. TableInv' BY <1>1, <1>15, <2>1, BecomesKeepsInvariant DEF DiscardTimeout
  <2> QED BY <1>1, <1>15, <2>2 DEF DiscardTimeout, IInv
<1>16. CASE UNCHANGED vars
  BY <1>16 DEF vars, IInv, TableInv, PlayersSeated, Accounts, Hand, Playing, BetsAreCommitted
<1> QED
  BY <1>2, <1>3, <1>4, <1>5, <1>6, <1>7, <1>8, <1>9, <1>10, <1>11, <1>12, <1>13, <1>14,
     <1>15, <1>16 DEF Next, Deadlines

\* The inductive invariant of the table holds in every reachable state.
THEOREM Invariance == Spec => []IInv
BY InitKeepsInvariant, NextKeepsInvariant, PTL DEF Spec

\* No sequence of calls, disconnects and timeouts takes a field of the table out
\* of its type: no stack, bet or commitment is ever negative (table.ts commitBet,
\* placeRaise), for any number of seats, any blinds and any stacks.
THEOREM TypeCorrect == Spec => []TypeOK
<1>1. IInv => TypeOK BY AccountsAreStakes
<1> QED BY <1>1, Invariance, PTL

\* While a hand is played every player's chips are those he was dealt in with, and
\* the seat's copy of a stack is the hand's: joins, departures, returns and
\* released seats never touch them (table.ts commitBet, seatPlayer, removePlayer).
THEOREM StakesStayIntact == Spec => []StakesIntact
<1>1. IInv => StakesIntact BY AccountsAreStakes
<1> QED BY <1>1, Invariance, PTL

-----------------------------------------------------------------------------
(* The invariant of a hand.                                                 *)

\* Cards a contender holds: one less for every discard that is behind it.
CardsDue(h, s) ==
    HoleCards - DiscardsMade(h.street)
        - (IF h.phase = "discard" /\ s \notin h.pending THEN 1 ELSE 0)

CardRules(h) ==
    /\ Playing(h) =>
         /\ h.street \in {"preflop", "flop", "turn", "river"}
         /\ h.phase = "discard" => h.street # "preflop"
         /\ h.board = BoardSize(h.street)
         /\ \A s \in Contenders(h) : h.cards[s] = CardsDue(h, s)
    /\ h.street = "showdown" => \A s \in Contenders(h) : h.cards[s] = KeptCards

\* Who has run out of chips is all-in: the others, folded or not, have some.
Chipped(h) ==
    \A s \in Seats : /\ h.status[s] # "busted"
                     /\ h.status[s] \in {"active", "folded"} => h.stack[s] > 0

Paid(h) == \A s \in Active(h) : h.bet[s] >= h.currentBet

ChipRules(h) ==
    Playing(h) => Chipped(h) /\ (h.phase = "discard" \/ h.waiting => Paid(h))

Rules(h) == CardRules(h) /\ ChipRules(h)

-----------------------------------------------------------------------------
(* What the operations leave as it is.                                      *)

\* g and h are at the same point of the hand.
SamePoint(g, h) ==
    /\ h.phase = g.phase /\ h.street = g.street /\ h.board = g.board
    /\ h.cards = g.cards /\ h.pending = g.pending

\* From g to h players have at most gone all-in.
SamePlayers(g, h) ==
    \A s \in Seats : \/ h.status[s] = g.status[s]
                     \/ g.status[s] = "active" /\ h.status[s] = "allIn"

\* Nobody comes back to a hand, so the cards stay right while the point stays.
LEMMA SamePointKeepsCards ==
    ASSUME NEW g, NEW h, SamePoint(g, h), Contenders(h) \subseteq Contenders(g), CardRules(g)
    PROVE  CardRules(h)
BY DEF SamePoint, CardRules, CardsDue, Playing

\* Contenders are told by status.
LEMMA SamePlayersContend ==
    ASSUME NEW g, NEW h, SamePlayers(g, h)
    PROVE  Contenders(h) = Contenders(g) /\ Active(h) \subseteq Active(g)
BY DEF SamePlayers, Contenders, Active

\* Only the hand of the table changes.
LEMMA WithHandEffect ==
    ASSUME NEW t \in TableType, NEW h \in HandType
    PROVE  LET u == WithHand(t, h)
           IN  /\ u \in TableType /\ u.hand = h
               /\ u.seatStack = t.seatStack /\ u.sittingOut = t.sittingOut
               /\ u.seatStatus = t.seatStatus
BY DEF WithHand, TableType

\* commitBet moves chips, and who has put in the last is all-in.
LEMMA CommitBetEffect ==
    ASSUME NEW t \in TableType, NEW s \in Seats, NEW amount \in Int,
           0 <= t.hand.bet[s] + amount, BetsAreCommitted(t.hand)
    PROVE  LET u == CommitBet(t, s, amount)
           IN  /\ SamePoint(t.hand, u.hand) /\ SamePlayers(t.hand, u.hand)
               /\ u.hand.waiting = t.hand.waiting
               /\ u.sittingOut = t.sittingOut
               /\ Chipped(t.hand) /\ t.hand.status[s] # "folded" => Chipped(u.hand)
<1> DEFINE h == t.hand
           pay == AtMost(amount, h.stack[s])
           allIn == h.stack[s] = pay /\ h.status[s] = "active"
           seat == IF t.seatStack[s] >= pay THEN t.seatStack[s] - pay ELSE 0
           stack == Put(h.stack, s, h.stack[s] - pay)
           bet == Put(h.bet, s, h.bet[s] + pay)
           committed == Put(h.committed, s, h.committed[s] + pay)
           status == Put(h.status, s, IF allIn THEN "allIn" ELSE h.status[s])
           acted == Put(h.acted, s, h.acted[s] \/ allIn)
           paid == [h EXCEPT !.stack = stack, !.bet = bet, !.committed = committed,
                             !.status = status, !.acted = acted]
           u == [t EXCEPT !.seatStack = Put(@, s, seat), !.hand = paid]
<1>1. h \in HandType BY HandIsTyped
<1>2. CommitBet(t, s, amount) = u BY DEF CommitBet
<1>3. pay \in Int /\ pay <= h.stack[s] /\ h.stack[s] \in Nat
  BY <1>1 DEF HandType, AtMost
<1> HIDE DEF pay
<1>4. /\ stack \in [Seats -> Int] /\ stack[s] = h.stack[s] - pay
      /\ \A r \in Seats \ {s} : stack[r] = h.stack[r]
  BY <1>1, <1>3 DEF HandType, Put
<1>5. /\ status[s] = IF allIn THEN "allIn" ELSE h.status[s]
      /\ \A r \in Seats \ {s} : status[r] = h.status[r]
  BY <1>1 DEF HandType, Put
<1> HIDE DEF stack, bet, committed, status, acted, seat
<1>6. /\ paid.phase = h.phase /\ paid.street = h.street /\ paid.board = h.board
      /\ paid.cards = h.cards /\ paid.pending = h.pending /\ paid.waiting = h.waiting
      /\ paid.stack = stack /\ paid.status = status
  BY <1>1 DEF HandType
<1> HIDE DEF paid
<1>7. u.hand = paid /\ u.sittingOut = t.sittingOut BY DEF TableType
<1> HIDE DEF u
<1>8. SamePlayers(h, paid) BY <1>5, <1>6 DEF SamePlayers
<1>9. ASSUME Chipped(h), h.status[s] # "folded" PROVE Chipped(paid)
  <2> SUFFICES ASSUME NEW r \in Seats
               PROVE  /\ status[r] # "busted"
                      /\ status[r] \in {"active", "folded"} => stack[r] > 0
    BY <1>6 DEF Chipped
  <2>1. CASE r # s BY <1>4, <1>5, <1>9, <2>1 DEF Chipped
  <2>2. CASE r = s
    <3>1. h.status[s] # "busted" BY <1>9 DEF Chipped
    <3>2. status[s] \in {"active", "folded"} => h.status[s] = "active" /\ h.stack[s] # pay
      BY <1>5, <1>9
    <3>3. h.stack[s] # pay => stack[s] > 0 BY <1>3, <1>4
    <3> QED BY <1>5, <2>2, <3>1, <3>2, <3>3
  <2> QED BY <2>1, <2>2
<1> QED BY <1>2, <1>6, <1>7, <1>8, <1>9 DEF SamePoint

\* To have acted changes nothing of this.
LEMMA ActsEffect ==
    ASSUME NEW t \in TableType, NEW s \in Seats
    PROVE  LET u == Acts(t, s)
           IN  /\ SamePoint(t.hand, u.hand) /\ u.hand.status = t.hand.status
               /\ u.hand.stack = t.hand.stack /\ u.hand.waiting = t.hand.waiting
               /\ u.sittingOut = t.sittingOut
<1> DEFINE acted == Put(t.hand.acted, s, TRUE)
           g == [t.hand EXCEPT !.acted = acted]
<1>1. t.hand \in HandType BY HandIsTyped
<1>2. acted \in [Seats -> BOOLEAN] BY <1>1, PutType DEF HandType
<1>3. Acts(t, s) = WithHand(t, g) BY DEF Acts
<1> HIDE DEF acted
<1>4. g \in HandType /\ SamePoint(t.hand, g) /\ g.status = t.hand.status
      /\ g.stack = t.hand.stack /\ g.waiting = t.hand.waiting
  BY <1>1, <1>2 DEF HandType, SamePoint
<1> HIDE DEF g
<1> QED BY <1>3, <1>4, WithHandEffect

\* A fold takes one player out of the hand.
LEMMA FoldEffect ==
    ASSUME NEW t \in TableType, NEW s \in Seats
    PROVE  LET u == Fold(t, s)
           IN  /\ SamePoint(t.hand, u.hand)
               /\ u.hand.status = Put(t.hand.status, s, "folded")
               /\ u.hand.stack = t.hand.stack /\ u.hand.waiting = t.hand.waiting
               /\ u.hand.bet = t.hand.bet /\ u.hand.currentBet = t.hand.currentBet
               /\ Contenders(u.hand) = Contenders(t.hand) \ {s}
               /\ Active(u.hand) \subseteq Active(t.hand)
               /\ Chipped(t.hand) /\ t.hand.status[s] = "active" => Chipped(u.hand)
               /\ u.sittingOut = t.sittingOut /\ u.seatStack = t.seatStack
<1> DEFINE status == Put(t.hand.status, s, "folded")
           acted == Put(t.hand.acted, s, TRUE)
           g == [t.hand EXCEPT !.status = status, !.acted = acted]
<1>1. t.hand \in HandType BY HandIsTyped
<1>2. acted \in [Seats -> BOOLEAN] BY <1>1, PutType DEF HandType
<1>3. "folded" \in PlayerStatuses BY DEF PlayerStatuses
<1>4. status \in [Seats -> PlayerStatuses] BY <1>1, <1>3, PutType DEF HandType
<1>5. status[s] = "folded" /\ \A r \in Seats \ {s} : status[r] = t.hand.status[r]
  BY <1>1 DEF HandType, Put
<1>6. Fold(t, s) = WithHand(t, g) BY DEF Fold
<1> HIDE DEF acted
<1>7. /\ g \in HandType /\ SamePoint(t.hand, g) /\ g.status = status
      /\ g.stack = t.hand.stack /\ g.waiting = t.hand.waiting
      /\ g.bet = t.hand.bet /\ g.currentBet = t.hand.currentBet
  <2> HIDE DEF status
  <2> QED BY <1>1, <1>2, <1>4 DEF HandType, SamePoint
<1> HIDE DEF g
<1>8. /\ Contenders(g) = Contenders(t.hand) \ {s}
      /\ Active(g) \subseteq Active(t.hand)
      /\ Chipped(t.hand) /\ t.hand.status[s] = "active" => Chipped(g)
  <2> HIDE DEF status
  <2> QED BY <1>5, <1>7 DEF Contenders, Active, Chipped
<1> QED BY <1>6, <1>7, <1>8, WithHandEffect

\* Nor does the turn, or the end of the clock.
LEMMA TurnEffect ==
    ASSUME NEW t \in TableType, NEW u \in {Queue(t), PassTurn(t)}
    PROVE  /\ SamePoint(t.hand, u.hand) /\ u.hand.status = t.hand.status
           /\ u.hand.stack = t.hand.stack /\ u.hand.bet = t.hand.bet
           /\ u.hand.currentBet = t.hand.currentBet
           /\ u = PassTurn(t) => u.hand.waiting = t.hand.waiting
           /\ u.sittingOut = t.sittingOut /\ u.seatStack = t.seatStack
<1> DEFINE next == NextToAct(t.hand)
           g == [t.hand EXCEPT !.waiting = TRUE, !.turn = NoSeat, !.clock = FALSE]
           p == [t.hand EXCEPT !.turn = next, !.clock = TRUE]
<1>1. t.hand \in HandType /\ next \in Seats \cup {NoSeat} BY HandIsTyped, NextToActType
<1>2. PassTurn(t) = WithHand(t, p) BY DEF PassTurn
<1>3. Queue(t) = t \/ (Queue(t) = WithHand(t, g) /\ ~t.hand.waiting) BY DEF Queue
<1> HIDE DEF next
<1>4. p \in HandType /\ SamePoint(t.hand, p) /\ p.status = t.hand.status
      /\ p.stack = t.hand.stack /\ p.bet = t.hand.bet /\ p.currentBet = t.hand.currentBet
      /\ p.waiting = t.hand.waiting
  BY <1>1 DEF HandType, SamePoint
<1> HIDE DEF p
<1>5. g \in HandType /\ SamePoint(t.hand, g) /\ g.status = t.hand.status
      /\ g.stack = t.hand.stack /\ g.bet = t.hand.bet /\ g.currentBet = t.hand.currentBet
      /\ g.waiting = TRUE
  BY <1>1 DEF HandType, SamePoint
<1> HIDE DEF g
<1>6. SamePoint(t.hand, t.hand) BY DEF SamePoint
<1>7. CASE u = PassTurn(t)
  <2>1. u = WithHand(t, p) BY <1>2, <1>7
  <2>2. u.hand = p /\ u.sittingOut = t.sittingOut /\ u.seatStack = t.seatStack
    BY <1>4, <2>1, WithHandEffect
  <2> QED BY <1>4, <2>2
<1>8. CASE u # PassTurn(t)
  <2>1. CASE u = t BY <1>6, <1>8, <2>1
  <2>2. CASE u = WithHand(t, g)
    <3>1. u.hand = g /\ u.sittingOut = t.sittingOut /\ u.seatStack = t.seatStack
      BY <1>5, <2>2, WithHandEffect
    <3> QED BY <1>5, <1>8, <3>1
  <2> QED BY <1>3, <1>8, <2>1, <2>2
<1> QED BY <1>7, <1>8

\* placeRaise is a bet that raises what the others have to match.
LEMMA PlaceRaiseEffect ==
    ASSUME NEW t \in TableType, NEW s \in Seats, NEW total \in Nat, BetsAreCommitted(t.hand)
    PROVE  LET u == PlaceRaise(t, s, total)
           IN  /\ SamePoint(t.hand, u.hand) /\ SamePlayers(t.hand, u.hand)
               /\ u.hand.waiting = t.hand.waiting
               /\ u.sittingOut = t.sittingOut
               /\ Chipped(t.hand) /\ t.hand.status[s] # "folded" => Chipped(u.hand)
<1> DEFINE raiseBy == total - t.hand.currentBet
           full == raiseBy >= t.hand.minRaise
           v == CommitBet(t, s, total - t.hand.bet[s])
           minRaise == IF full THEN raiseBy ELSE v.hand.minRaise
           acted == [r \in Seats |-> r = s \/ (IF full THEN v.hand.status[r] # "active"
                                              ELSE v.hand.acted[r])]
           g == [v.hand EXCEPT !.currentBet = total, !.raises = @ + 1,
                               !.minRaise = minRaise, !.acted = acted]
<1>1. t.hand \in HandType BY HandIsTyped
<1>2. /\ Keeps(t, v)
      /\ SamePoint(t.hand, v.hand) /\ SamePlayers(t.hand, v.hand)
      /\ v.hand.waiting = t.hand.waiting /\ v.sittingOut = t.sittingOut
      /\ Chipped(t.hand) /\ t.hand.status[s] # "folded" => Chipped(v.hand)
  <2>1. total - t.hand.bet[s] \in Int /\ 0 <= t.hand.bet[s] + (total - t.hand.bet[s])
    <3>1. t.hand.bet[s] \in Nat BY <1>1 DEF HandType
    <3> QED BY <3>1
  <2> QED BY <2>1, CommitBetKeeps, CommitBetEffect
<1>3. PlaceRaise(t, s, total) = WithHand(v, g) BY DEF PlaceRaise
<1> HIDE DEF v
<1>4. v \in TableType /\ v.hand \in HandType BY <1>2, HandIsTyped DEF Keeps
<1>5. minRaise \in MinRaises
  <2>1. t.hand.minRaise \in MinRaises /\ t.hand.currentBet \in Nat /\ v.hand.minRaise \in MinRaises
    BY <1>1, <1>4 DEF HandType
  <2> QED BY <2>1, BlindsAssumption DEF MinRaises
<1>6. acted \in [Seats -> BOOLEAN] BY <1>4 DEF HandType
<1>7. v.hand.raises + 1 \in Nat BY <1>4 DEF HandType
<1> HIDE DEF full, raiseBy, minRaise, acted
<1>8. g \in HandType /\ SamePoint(v.hand, g) /\ g.status = v.hand.status
      /\ g.stack = v.hand.stack /\ g.waiting = v.hand.waiting
  BY <1>4, <1>5, <1>6, <1>7 DEF HandType, SamePoint
<1> HIDE DEF g
<1>9. LET u == WithHand(v, g)
      IN  u.hand = g /\ u.sittingOut = v.sittingOut
  BY <1>4, <1>8, WithHandEffect
<1> QED BY <1>2, <1>3, <1>8, <1>9 DEF SamePoint, SamePlayers, Chipped

\* An accepted action is a fold, or leaves everybody in the hand.
LEMMA MoveEffect ==
    ASSUME NEW t \in TableType, NEW s \in Seats, NEW action \in Actions,
           BetsAreCommitted(t.hand), Accepts(t.hand, s, action)
    PROVE  LET u == Move(t, s, action)
           IN  \/ action.type = "fold" /\ u = Fold(t, s)
               \/ /\ action.type # "fold"
                  /\ SamePoint(t.hand, u.hand) /\ SamePlayers(t.hand, u.hand)
                  /\ u.hand.waiting = t.hand.waiting
                  /\ u.sittingOut = t.sittingOut
                  /\ Chipped(t.hand) => Chipped(u.hand)
<1> DEFINE h == t.hand
           all == AllInTotal(h, s, action.amount)
           target == IF action.type = "allIn" THEN all ELSE action.amount
           Stays(v) == /\ SamePoint(h, v.hand) /\ SamePlayers(h, v.hand)
                       /\ v.hand.waiting = h.waiting
                       /\ v.sittingOut = t.sittingOut
                       /\ Chipped(h) => Chipped(v.hand)
<1>1. h \in HandType BY HandIsTyped
<1>2. h.bet[s] \in Nat /\ h.stack[s] \in Nat /\ h.currentBet \in Nat /\ ToCall(h, s) \in Int
  BY <1>1 DEF HandType, ToCall
<1>3. h.status[s] = "active" BY DEF Accepts, OnTurn
<1>4. CASE action.type = "fold" BY <1>4 DEF Move
<1>5. ASSUME action.type = "check" \/ (action.type = "allIn" /\ AllInIsCheck(h, s, action.amount))
      PROVE  Stays(Move(t, s, action))
  <2>1. Move(t, s, action) = Acts(t, s) BY <1>5 DEF Move, AllInIsCheck
  <2> QED BY <2>1, ActsEffect DEF SamePlayers, Chipped
<1>6. ASSUME NEW amount \in Int, 0 <= h.bet[s] + amount,
             Move(t, s, action) = Acts(CommitBet(t, s, amount), s)
      PROVE  Stays(Move(t, s, action))
  <2> DEFINE u == CommitBet(t, s, amount)
  <2>1. Keeps(t, u) /\ Stays(u) BY <1>3, <1>6, CommitBetKeeps, CommitBetEffect
  <2>2. u \in TableType BY <2>1 DEF Keeps
  <2> HIDE DEF u
  <2>3. LET v == Acts(u, s)
        IN  /\ SamePoint(u.hand, v.hand) /\ v.hand.status = u.hand.status
            /\ v.hand.stack = u.hand.stack /\ v.hand.waiting = u.hand.waiting
            /\ v.sittingOut = u.sittingOut
    BY <2>2, ActsEffect
  <2>4. Stays(Acts(u, s)) BY <2>1, <2>3 DEF SamePoint, SamePlayers, Chipped
  <2> QED BY <1>6, <2>4 DEF u
<1>7. ASSUME action.type = "call" PROVE Stays(Move(t, s, action))
  <2>1. Move(t, s, action) = Acts(CommitBet(t, s, ToCall(h, s)), s) BY <1>7 DEF Move
  <2>2. ToCall(h, s) > 0 BY <1>7 DEF Accepts
  <2> QED BY <1>2, <1>6, <2>1, <2>2
<1>8. ASSUME action.type = "allIn", ~AllInIsCheck(h, s, action.amount)
      PROVE  Stays(Move(t, s, action))
  <2>1. all \in Nat /\ h.bet[s] <= all
    <3>1. action.amount # NoAmount => action.amount \in Nat /\ action.amount >= h.bet[s]
      BY <1>8, ActionsAreNamed DEF Accepts
    <3> QED BY <1>2, <3>1 DEF AllInTotal, AllChips, AtMost
  <2>2. CASE all <= h.currentBet /\ ToCall(h, s) # 0
    <3>1. Move(t, s, action) = Acts(CommitBet(t, s, all - h.bet[s]), s) BY <1>8, <2>2 DEF Move
    <3> HIDE DEF all, Stays
    <3>2. all - h.bet[s] \in Int /\ 0 <= h.bet[s] + (all - h.bet[s]) BY <1>2, <2>1
    <3> QED BY <1>6, <3>1, <3>2
  <2>3. CASE ~(all <= h.currentBet /\ ToCall(h, s) # 0)
    <3>1. Move(t, s, action) = PlaceRaise(t, s, all) BY <1>8, <2>3 DEF Move
    <3> HIDE DEF all
    <3> QED BY <1>3, <2>1, <3>1, PlaceRaiseEffect
  <2> QED BY <2>2, <2>3
<1>9. ASSUME action.type \in {"bet", "raise"} PROVE Stays(Move(t, s, action))
  <2>1. Move(t, s, action) = PlaceRaise(t, s, action.amount) BY <1>9 DEF Move
  <2>2. action.amount \in Nat BY <1>9, ActionsAreNamed
  <2> QED BY <1>3, <2>1, <2>2, PlaceRaiseEffect
<1> HIDE DEF Stays
<1>10. action.type # "fold" => Stays(Move(t, s, action))
  BY <1>5, <1>7, <1>8, <1>9, ActionsAreNamed
<1> QED BY <1>4, <1>10 DEF Stays

\* finishHand ends the hand; from the hand's players some may be left without chips.
LEMMA FinishHandEffect ==
    ASSUME NEW t \in TableType, NEW rank
    PROVE  LET u == FinishHand(t, rank)
           IN  /\ u.hand.phase = "showdown" /\ u.hand.street = t.hand.street
               /\ u.hand.cards = t.hand.cards /\ u.hand.pending = t.hand.pending
               /\ \A s \in Seats :
                     u.hand.status[s] =
                        IF t.hand.status[s] # "none" /\ t.seatStack[s] + Award(t.hand, rank, s) = 0
                        THEN "busted" ELSE t.hand.status[s]
               /\ Contenders(u.hand) \subseteq Contenders(t.hand)
<1> DEFINE h == t.hand
           stack == [s \in Seats |-> t.seatStack[s] + Award(h, rank, s)]
           broke == {s \in Dealt(h) : stack[s] = 0}
           stay == {s \in Dealt(h) : stack[s] > 0 /\ ~t.sittingOut[s]
                                     /\ t.seatStatus[s] # "sitting_out"}
           final == [s \in Seats |-> IF s \in Dealt(h) THEN stack[s] ELSE 0]
           status == [s \in Seats |-> IF s \in broke THEN "busted" ELSE h.status[s]]
           acted == [s \in Seats |-> s \in broke \/ h.acted[s]]
           settled == [h EXCEPT !.phase = "showdown", !.clock = FALSE, !.stack = final,
                                !.status = status, !.acted = acted]
           u == [t EXCEPT
                   !.seatStack = stack,
                   !.seatStatus = [s \in Seats |-> IF s \in broke THEN "busted"
                                                   ELSE IF s \in stay THEN "active" ELSE @[s]],
                   !.sittingOut = [s \in Seats |-> s \in broke \/ @[s]],
                   !.hand = settled]
<1>1. h \in HandType BY HandIsTyped
<1>2. FinishHand(t, rank) = u BY DEF FinishHand
<1>3. \A s \in Seats :
         status[s] = IF h.status[s] # "none" /\ t.seatStack[s] + Award(h, rank, s) = 0
                     THEN "busted" ELSE h.status[s]
  BY DEF Dealt
<1> HIDE DEF stack, broke, stay, final, status, acted
<1>4. /\ settled.phase = "showdown" /\ settled.street = h.street
      /\ settled.cards = h.cards /\ settled.pending = h.pending
      /\ settled.status = status
  BY <1>1 DEF HandType
<1> HIDE DEF settled
<1>5. u.hand = settled BY DEF TableType
<1> HIDE DEF u
<1>6. Contenders(settled) \subseteq Contenders(h) BY <1>3, <1>4 DEF Contenders
<1> QED BY <1>2, <1>3, <1>4, <1>5, <1>6

\* A settlement on a street before the showdown asks nothing of the cards.
LEMMA FinishHandRules ==
    ASSUME NEW t \in TableType, NEW rank,
           t.hand.street = "showdown" => \A s \in Contenders(t.hand) : t.hand.cards[s] = KeptCards
    PROVE  Rules(FinishHand(t, rank).hand)
BY FinishHandEffect DEF Rules, CardRules, ChipRules, Playing

-----------------------------------------------------------------------------
(* Betting.                                                                 *)

\* A round that is complete has been paid.
LEMMA CompleteIsPaid ==
    ASSUME NEW h \in HandType, Chipped(h), RoundComplete(h)
    PROVE  Paid(h)
<1> SUFFICES ASSUME NEW s \in Active(h) PROVE h.bet[s] >= h.currentBet BY DEF Paid
<1>1. s \in Seats /\ s \in WithChips(h) BY DEF Active, WithChips, Chipped
<1>2. h.bet[s] \in Nat /\ h.currentBet \in Nat BY <1>1 DEF HandType
<1> QED BY <1>1, <1>2 DEF RoundComplete, BettingLocked

\* applyAction, with the pause or the settlement it leads to.
LEMMA ApplyActionRules ==
    ASSUME NEW t \in TableType, NEW s \in Seats, NEW action \in Actions,
           BetsAreCommitted(t.hand), Accepts(t.hand, s, action), Rules(t.hand)
    PROVE  Rules(ApplyAction(t, s, action).hand)
<1> DEFINE u == Move(t, s, action)
<1>1. /\ t.hand.phase = "betting" /\ ~t.hand.waiting /\ t.hand.status[s] = "active"
      /\ Playing(t.hand)
  BY DEF Accepts, OnTurn, Playing
<1>2. u \in TableType BY MoveKeeps DEF Keeps
<1>3. u.hand \in HandType BY <1>2, HandIsTyped
<1>4. /\ SamePoint(t.hand, u.hand) /\ u.hand.waiting = t.hand.waiting /\ Chipped(u.hand)
      /\ Contenders(u.hand) \subseteq Contenders(t.hand)
  <2>1. Chipped(t.hand) BY <1>1 DEF Rules, ChipRules
  <2>2. CASE u = Fold(t, s) BY <1>1, <2>1, <2>2, FoldEffect
  <2>3. CASE u # Fold(t, s)
    <3>1. SamePlayers(t.hand, u.hand) BY <2>3, MoveEffect
    <3> QED BY <2>1, <2>3, <3>1, MoveEffect, SamePlayersContend
  <2> QED BY <2>2, <2>3
<1>5. CardRules(u.hand) BY <1>4, SamePointKeepsCards DEF Rules
<1>6. ApplyAction(t, s, action) =
         IF Alone(u.hand) THEN FinishHand(u, NoRank)
         ELSE IF RoundComplete(u.hand) THEN Queue(u) ELSE PassTurn(u)
  BY DEF ApplyAction
<1> HIDE DEF u
<1>7. CASE ApplyAction(t, s, action) = FinishHand(u, NoRank)
  BY <1>2, <1>5, <1>7, FinishHandRules DEF CardRules
<1>8. ASSUME NEW v \in {Queue(u), PassTurn(u)}, v = PassTurn(u) \/ RoundComplete(u.hand)
      PROVE  Rules(v.hand)
  <2>1. /\ SamePoint(u.hand, v.hand) /\ v.hand.status = u.hand.status
        /\ v.hand.stack = u.hand.stack /\ v.hand.bet = u.hand.bet
        /\ v.hand.currentBet = u.hand.currentBet
        /\ v = PassTurn(u) => v.hand.waiting = u.hand.waiting
    BY <1>2, TurnEffect
  <2>2. Contenders(v.hand) = Contenders(u.hand) /\ Active(v.hand) = Active(u.hand)
    BY <2>1 DEF Contenders, Active
  <2>3. CardRules(v.hand) BY <1>5, <2>1, <2>2, SamePointKeepsCards
  <2>4. Chipped(v.hand) BY <1>4, <2>1 DEF Chipped
  <2>5. v.hand.phase = "betting" BY <1>1, <1>4, <2>1 DEF SamePoint
  <2>6. v.hand.waiting => Paid(v.hand)
    <3>1. CASE v = PassTurn(u) BY <1>1, <1>4, <2>1, <3>1
    <3>2. CASE RoundComplete(u.hand)
      BY <1>3, <1>4, <2>1, <2>2, <3>2, CompleteIsPaid DEF Paid
    <3> QED BY <1>8, <3>1, <3>2
  <2> QED BY <2>3, <2>4, <2>5, <2>6 DEF Rules, ChipRules
<1> QED BY <1>6, <1>7, <1>8

\* autoAction is an accepted fold or check, or nothing.
LEMMA AutoActionIsAction ==
    ASSUME NEW t \in TableType, ~AutoActionThrows(t.hand), AutoAction(t) # t
    PROVE  \E s \in Seats, action \in Actions :
              /\ action.type # "allIn"
              /\ Accepts(t.hand, s, action) /\ AutoAction(t) = ApplyAction(t, s, action)
<1> DEFINE h == t.hand
           s == h.turn
           action == TimeoutAction(h)
<1>1. \E r \in Seats : OnTurn(h, r) BY DEF AutoAction
<1>2. s \in Seats /\ OnTurn(h, s) BY <1>1 DEF OnTurn
<1>3. ToCall(h, s) \in Int /\ ~(ToCall(h, s) < 0)
  <2>1. h.currentBet \in Nat /\ h.bet[s] \in Nat BY <1>2, HandIsTyped DEF HandType
  <2> QED BY <1>2, <2>1 DEF AutoActionThrows, ToCall
<1>4. /\ action \in Actions
      /\ action.type = IF ToCall(h, s) > 0 THEN "fold" ELSE "check"
  <2>1. action = [type |-> IF ToCall(h, s) > 0 THEN "fold" ELSE "check", amount |-> NoAmount]
    BY DEF TimeoutAction
  <2>2. action \in [type : {"fold", "check", "call", "allIn"}, amount : {NoAmount}]
    BY <2>1
  <2> HIDE DEF action
  <2> QED BY <2>1, <2>2 DEF Actions
<1>5. AutoAction(t) = ApplyAction(t, s, action) BY <1>1 DEF AutoAction
<1> HIDE DEF action, s
<1>6. Accepts(h, s, action)
  <2>1. CASE ToCall(h, s) > 0
    <3>1. action.type = "fold" BY <1>4, <2>1
    <3> QED BY <1>2, <3>1 DEF Accepts
  <2>2. CASE ~(ToCall(h, s) > 0)
    <3>1. action.type = "check" /\ ToCall(h, s) = 0 BY <1>3, <1>4, <2>2
    <3> QED BY <1>2, <3>1 DEF Accepts
  <2> QED BY <2>1, <2>2
<1> QED BY <1>2, <1>4, <1>5, <1>6

\* autoAction, which folds or checks, or does nothing.
LEMMA AutoActionRules ==
    ASSUME NEW t \in TableType, BetsAreCommitted(t.hand), ~AutoActionThrows(t.hand),
           Rules(t.hand)
    PROVE  Rules(AutoAction(t).hand)
<1>1. CASE AutoAction(t) = t BY <1>1
<1>2. CASE AutoAction(t) # t
  <2>1. PICK s \in Seats, action \in Actions :
           Accepts(t.hand, s, action) /\ AutoAction(t) = ApplyAction(t, s, action)
    BY <1>2, AutoActionIsAction
  <2> QED BY <2>1, ApplyActionRules
<1> QED BY <1>1, <1>2

-----------------------------------------------------------------------------
(* Streets and discards.                                                    *)

\* beginDiscardPhase takes a card from those who sit out.
LEMMA OpenDiscardEffect ==
    ASSUME NEW t \in TableType
    PROVE  LET h == t.hand
               owing == {s \in Contenders(h) : h.cards[s] > KeptCards}
               absent == {s \in owing : t.sittingOut[s]}
               u == OpenDiscard(t)
           IN  /\ u.hand.phase = "discard" /\ u.hand.street = h.street
               /\ u.hand.board = h.board /\ u.hand.status = h.status
               /\ u.hand.stack = h.stack /\ u.hand.bet = h.bet
               /\ u.hand.currentBet = h.currentBet
               /\ u.hand.pending = owing \ absent
               /\ \A s \in Seats :
                     u.hand.cards[s] = IF s \in absent THEN h.cards[s] - 1 ELSE h.cards[s]
               /\ u.sittingOut = t.sittingOut /\ u.seatStack = t.seatStack
<1> DEFINE h == t.hand
           owing == {s \in Contenders(h) : h.cards[s] > KeptCards}
           absent == {s \in owing : t.sittingOut[s]}
           pending == owing \ absent
           cards == [s \in Seats |-> IF s \in absent THEN h.cards[s] - 1 ELSE h.cards[s]]
           g == [h EXCEPT !.phase = "discard", !.clock = FALSE, !.cards = cards,
                          !.pending = pending, !.discardClock = TRUE]
<1>1. h \in HandType BY HandIsTyped
<1>2. OpenDiscard(t) = WithHand(t, g) BY DEF OpenDiscard
<1>3. pending \in SUBSET Seats BY ActiveAreSeats
<1>4. \A s \in Seats : cards[s] = IF s \in absent THEN h.cards[s] - 1 ELSE h.cards[s] OBVIOUS
<1>5. cards \in [Seats -> Int] BY <1>1, CardsType
<1> HIDE DEF owing, cards, pending
<1>6. /\ g \in HandType /\ g.phase = "discard" /\ g.street = h.street
      /\ g.board = h.board /\ g.status = h.status /\ g.stack = h.stack /\ g.bet = h.bet
      /\ g.currentBet = h.currentBet /\ g.pending = pending /\ g.cards = cards
  BY <1>1, <1>3, <1>5 DEF HandType, Phases
<1> HIDE DEF g
<1> USE DEF owing, pending
<1> QED BY <1>2, <1>4, <1>6, WithHandEffect

\* resetStreetState, on the street given.
LEMMA OpenBettingEffect ==
    ASSUME NEW t \in TableType, NEW street \in Streets
    PROVE  LET u == OpenBetting(t, street)
           IN  /\ u.hand.phase = "betting" /\ u.hand.street = street
               /\ u.hand.board = t.hand.board /\ u.hand.status = t.hand.status
               /\ u.hand.stack = t.hand.stack /\ u.hand.cards = t.hand.cards
               /\ u.hand.pending = t.hand.pending /\ u.hand.waiting = FALSE
               /\ u.sittingOut = t.sittingOut /\ u.seatStack = t.seatStack
<1> DEFINE none == [s \in Seats |-> 0]
           acted == [s \in Seats |-> t.hand.status[s] # "active"]
           h == [t.hand EXCEPT !.street = street, !.phase = "betting",
                               !.currentBet = 0, !.minRaise = BigBlind, !.raises = 0,
                               !.waiting = FALSE, !.clock = TRUE,
                               !.bet = none, !.acted = acted]
           g == [h EXCEPT !.turn = SeatAfterButton(h)]
<1>1. t.hand \in HandType BY HandIsTyped
<1>2. none \in [Seats -> Nat] /\ acted \in [Seats -> BOOLEAN] OBVIOUS
<1>3. OpenBetting(t, street) = WithHand(t, g) BY DEF OpenBetting
<1> HIDE DEF none, acted
<1>4. /\ h \in HandType /\ h.phase = "betting" /\ h.street = street
      /\ h.board = t.hand.board /\ h.status = t.hand.status /\ h.stack = t.hand.stack
      /\ h.cards = t.hand.cards /\ h.pending = t.hand.pending /\ h.waiting = FALSE
  BY <1>1, <1>2, BigBlindIsMinRaise DEF HandType, Phases
<1> HIDE DEF h
<1>5. /\ g \in HandType /\ g.phase = "betting" /\ g.street = street
      /\ g.board = t.hand.board /\ g.status = t.hand.status /\ g.stack = t.hand.stack
      /\ g.cards = t.hand.cards /\ g.pending = t.hand.pending /\ g.waiting = FALSE
  BY <1>4, SeatAfterButtonType DEF HandType
<1> HIDE DEF g
<1> QED BY <1>3, <1>5, WithHandEffect

\* Before the discard of a street: the cards of the street are on the board, and
\* every discard so far has been made by all contenders.
ReadyForStreet(h, street) ==
    /\ street \in {"flop", "turn", "river"}
    /\ h.board = BoardSize(street)
    /\ \A s \in Contenders(h) : h.cards[s] = HoleCards - DiscardsMade(street)

\* A discard begins as the rules want it.
LEMMA OpenDiscardRules ==
    ASSUME NEW t \in TableType, ReadyForStreet(t.hand, t.hand.street), Chipped(t.hand),
           Paid(t.hand)
    PROVE  Rules(OpenDiscard(t).hand)
<1> DEFINE h == t.hand
           owing == {s \in Contenders(h) : h.cards[s] > KeptCards}
           absent == {s \in owing : t.sittingOut[s]}
           g == OpenDiscard(t).hand
<1>1. /\ g.phase = "discard" /\ g.street = h.street
      /\ g.board = h.board /\ g.status = h.status
      /\ g.stack = h.stack /\ g.bet = h.bet
      /\ g.currentBet = h.currentBet
      /\ g.pending = owing \ absent
      /\ \A s \in Seats : g.cards[s] = IF s \in absent THEN h.cards[s] - 1 ELSE h.cards[s]
  BY OpenDiscardEffect
<1>2. Contenders(g) = Contenders(h) /\ Active(g) = Active(h) BY <1>1 DEF Contenders, Active
<1> HIDE DEF g
<1>3. ASSUME NEW s \in Contenders(g) PROVE g.cards[s] = CardsDue(g, s)
  <2>1. s \in Seats BY <1>3 DEF Contenders
  <2>2. h.cards[s] = HoleCards - DiscardsMade(h.street) BY <1>2, <1>3 DEF ReadyForStreet
  <2>3. DiscardsMade(h.street) \in {0, 1, 2} BY DEF ReadyForStreet, DiscardsMade
  <2>4. s \in owing BY <1>2, <1>3, <2>2, <2>3 DEF HoleCards, KeptCards
  <2>5. s \in g.pending <=> s \notin absent BY <1>1, <2>4
  <2>6. DiscardsMade(g.street) = DiscardsMade(h.street) BY <1>1
  <2> HIDE DEF absent, owing
  <2> QED BY <1>1, <2>1, <2>2, <2>3, <2>5, <2>6 DEF CardsDue, HoleCards
<1>4. Chipped(g) BY <1>1 DEF Chipped
<1>5. Paid(g) BY <1>1, <1>2 DEF Paid
<1>6. h.street \in {"flop", "turn", "river"} /\ h.board = BoardSize(h.street)
  BY DEF ReadyForStreet
<1>7. CardRules(g) BY <1>1, <1>3, <1>6 DEF CardRules
<1> QED BY <1>4, <1>5, <1>7 DEF Rules, ChipRules, g

\* A street is opened for betting, or for its discard when nobody can bet.
LEMMA OpenStreetRules ==
    ASSUME NEW t \in TableType, NEW street, NEW cards \in Nat, Playing(t.hand),
           ReadyForStreet([t.hand EXCEPT !.board = @ + cards], street), Chipped(t.hand)
    PROVE  Rules(OpenStreet(t, street, cards).hand)
<1> DEFINE h == [t.hand EXCEPT !.board = @ + cards]
           g == [h EXCEPT !.street = street]
           u == OpenStreet(t, street, cards)
<1>1. t.hand \in HandType BY HandIsTyped
<1>2. street \in Streets BY DEF ReadyForStreet, Streets
<1>3. h \in HandType /\ h.stack = t.hand.stack /\ h.status = t.hand.status
  BY <1>1 DEF HandType
<1>4. u = IF BettingLocked(h) THEN OpenDiscard(WithHand(t, g)) ELSE OpenBetting(WithHand(t, h), street)
  BY DEF OpenStreet
<1>5. ReadyForStreet(h, street) OBVIOUS
<1> HIDE DEF h, u
<1>6. Chipped(h) BY <1>3 DEF Chipped
<1>7. /\ g \in HandType /\ g.street = street /\ g.board = h.board /\ g.cards = h.cards
      /\ g.status = h.status /\ g.stack = h.stack /\ g.bet = h.bet
      /\ g.currentBet = h.currentBet
  BY <1>2, <1>3 DEF HandType
<1> HIDE DEF g
<1>8. CASE BettingLocked(h)
  <2> DEFINE v == WithHand(t, g)
  <2>1. v \in TableType /\ v.hand = g BY <1>7, WithHandEffect
  <2> HIDE DEF v
  <2>2. Contenders(g) = Contenders(h) /\ Active(g) = Active(h) BY <1>7 DEF Contenders, Active
  <2>3. ReadyForStreet(g, g.street) BY <1>5, <1>7, <2>2 DEF ReadyForStreet
  <2>4. Chipped(g) BY <1>6, <1>7 DEF Chipped
  <2>5. Paid(h) BY <1>3, <1>6, <1>8, CompleteIsPaid DEF RoundComplete
  <2>6. Paid(g) BY <1>7, <2>2, <2>5 DEF Paid
  <2>7. u = OpenDiscard(v) BY <1>4, <1>8 DEF v
  <2> QED BY <2>1, <2>3, <2>4, <2>6, <2>7, OpenDiscardRules DEF u
<1>9. CASE ~BettingLocked(h)
  <2> DEFINE v == WithHand(t, h)
  <2>1. v \in TableType /\ v.hand = h BY <1>3, WithHandEffect
  <2> HIDE DEF v
  <2>2. u = OpenBetting(v, street) BY <1>4, <1>9 DEF v
  <2>3. /\ u.hand.phase = "betting" /\ u.hand.street = street
        /\ u.hand.board = h.board /\ u.hand.status = h.status
        /\ u.hand.stack = h.stack /\ u.hand.cards = h.cards
        /\ u.hand.waiting = FALSE
    BY <1>2, <2>1, <2>2, OpenBettingEffect
  <2>4. Chipped(u.hand) BY <1>6, <2>3 DEF Chipped
  <2>5. Contenders(u.hand) = Contenders(h) BY <2>3 DEF Contenders
  <2>6. \A s \in Contenders(u.hand) : u.hand.cards[s] = CardsDue(u.hand, s)
    <3>1. DiscardsMade(street) \in {0, 1, 2} BY <1>5 DEF ReadyForStreet, DiscardsMade
    <3> QED BY <1>5, <2>3, <2>5, <3>1 DEF ReadyForStreet, CardsDue, HoleCards
  <2>7. street \in {"flop", "turn", "river"} /\ u.hand.board = BoardSize(street)
    BY <1>5, <2>3 DEF ReadyForStreet
  <2>8. CardRules(u.hand) BY <2>3, <2>6, <2>7 DEF CardRules
  <2> QED BY <2>3, <2>4, <2>8 DEF Rules, ChipRules, u
<1> QED BY <1>8, <1>9

\* completeDiscardPhase goes on to the next street or to a showdown with two cards.
LEMMA CloseDiscardRules ==
    ASSUME NEW t \in TableType, Rules(t.hand), NEW u \in CloseDiscard(t)
    PROVE  Rules(u.hand)
<1> DEFINE h == [t.hand EXCEPT !.discardClock = FALSE]
           g == [h EXCEPT !.street = "showdown"]
           v == WithHand(t, h)
           over == WithHand(t, g)
<1>1. CASE t.hand.phase # "discard" \/ t.hand.pending # {}
  <2>1. u = t BY <1>1 DEF CloseDiscard
  <2> QED BY <2>1
<1>2. CASE t.hand.phase = "discard" /\ t.hand.pending = {}
  <2>1. t.hand \in HandType BY HandIsTyped
  <2>2. /\ Playing(t.hand) /\ Chipped(t.hand)
        /\ t.hand.street \in {"flop", "turn", "river"}
        /\ t.hand.board = BoardSize(t.hand.street)
        /\ \A s \in Contenders(t.hand) :
              t.hand.cards[s] = HoleCards - DiscardsMade(t.hand.street) - 1
    BY <1>2 DEF Rules, CardRules, ChipRules, CardsDue, Playing
  <2>3. \/ t.hand.street = "flop" /\ u = OpenStreet(v, "turn", 1)
        \/ t.hand.street = "turn" /\ u = OpenStreet(v, "river", 1)
        \/ t.hand.street = "river" /\ \E rank \in Ranks : u = FinishHand(over, rank)
    BY <1>2, <2>2 DEF CloseDiscard
  <2>4. /\ h \in HandType /\ h.phase = "discard" /\ h.board = t.hand.board
        /\ h.status = t.hand.status /\ h.stack = t.hand.stack /\ h.cards = t.hand.cards
    BY <1>2, <2>1 DEF HandType
  <2> HIDE DEF h
  <2>5. v \in TableType /\ v.hand = h BY <2>4, WithHandEffect
  <2> HIDE DEF v
  <2>6. Chipped(h) /\ Playing(h) /\ Contenders(h) = Contenders(t.hand)
    BY <2>2, <2>4 DEF Chipped, Contenders, Playing
  <2>7. ASSUME NEW street, \/ t.hand.street = "flop" /\ street = "turn"
                           \/ t.hand.street = "turn" /\ street = "river"
        PROVE  Rules(OpenStreet(v, street, 1).hand)
    <3> DEFINE k == [v.hand EXCEPT !.board = @ + 1]
    <3>1. k.board = BoardSize(t.hand.street) + 1 /\ k.cards = h.cards /\ k.status = h.status
      BY <2>2, <2>4, <2>5 DEF HandType
    <3> HIDE DEF k
    <3>2. BoardSize(t.hand.street) + 1 = BoardSize(street) BY <2>7 DEF BoardSize
    <3>3. HoleCards - DiscardsMade(t.hand.street) - 1 = HoleCards - DiscardsMade(street)
      BY <2>7 DEF DiscardsMade, HoleCards
    <3>4. Contenders(k) = Contenders(t.hand) BY <3>1, <2>6 DEF Contenders
    <3>5. ReadyForStreet(k, street)
      BY <2>2, <2>4, <2>7, <3>1, <3>2, <3>3, <3>4 DEF ReadyForStreet
    <3> QED BY <2>5, <2>6, <3>5, OpenStreetRules DEF k
  <2>8. ASSUME t.hand.street = "river", NEW rank PROVE Rules(FinishHand(over, rank).hand)
    <3>1. g \in HandType /\ g.status = h.status /\ g.cards = h.cards
      BY <2>4 DEF HandType, Streets
    <3> HIDE DEF g
    <3>2. over \in TableType /\ over.hand = g BY <3>1, WithHandEffect
    <3> HIDE DEF over
    <3>3. Contenders(g) = Contenders(t.hand) BY <2>6, <3>1 DEF Contenders
    <3>4. HoleCards - DiscardsMade(t.hand.street) - 1 = KeptCards
      BY <2>8 DEF DiscardsMade, HoleCards, KeptCards
    <3>5. \A s \in Contenders(g) : g.cards[s] = KeptCards BY <2>2, <2>4, <3>1, <3>3, <3>4
    <3> QED BY <3>2, <3>5, FinishHandRules
  <2> HIDE DEF over
  <2>9. CASE t.hand.street = "flop" /\ u = OpenStreet(v, "turn", 1) BY <2>7, <2>9
  <2>10. CASE t.hand.street = "turn" /\ u = OpenStreet(v, "river", 1) BY <2>7, <2>10
  <2>11. CASE t.hand.street = "river" /\ \E rank \in Ranks : u = FinishHand(over, rank)
    BY <2>8, <2>11
  <2> QED BY <2>3, <2>9, <2>10, <2>11
<1> QED BY <1>1, <1>2

\* So does every discard that follows by itself.
LEMMA RunDiscardsRules ==
    ASSUME NEW t \in TableType, Rules(t.hand), NEW u \in RunDiscards(t)
    PROVE  Rules(u.hand)
<1>1. PICK v \in CloseDiscard(t) : \E w \in CloseDiscard(v) : u \in CloseDiscard(w)
  BY DEF RunDiscards
<1>2. PICK w \in CloseDiscard(v) : u \in CloseDiscard(w) BY <1>1
<1>3. v \in TableType /\ Rules(v.hand) BY CloseDiscardKeeps, CloseDiscardRules DEF Keeps
<1>4. w \in TableType /\ Rules(w.hand) BY <1>3, CloseDiscardKeeps, CloseDiscardRules DEF Keeps
<1> QED BY <1>2, <1>4, CloseDiscardRules

\* advancePendingPhase, when the pause after a betting round is over.
LEMMA AdvancePendingPhaseRules ==
    ASSUME NEW t \in TableType, t.hand.waiting, Rules(t.hand), NEW u \in AdvancePendingPhase(t)
    PROVE  Rules(u.hand)
<1> DEFINE h == [t.hand EXCEPT !.waiting = FALSE]
           g == [h EXCEPT !.clock = FALSE]
           v == WithHand(t, g)
<1>1. t.hand \in HandType BY HandIsTyped
<1>2. \/ u = WithHand(t, h) /\ h.phase # "betting"
      \/ /\ h.phase = "betting" /\ t.hand.street = "preflop"
         /\ u \in RunDiscards(OpenStreet(v, "flop", 3))
      \/ /\ h.phase = "betting" /\ t.hand.street # "preflop"
         /\ u \in RunDiscards(OpenDiscard(v))
  BY DEF AdvancePendingPhase
<1>3. /\ h \in HandType /\ SamePoint(t.hand, h) /\ h.status = t.hand.status
      /\ h.stack = t.hand.stack /\ h.bet = t.hand.bet /\ h.currentBet = t.hand.currentBet
  BY <1>1 DEF HandType, SamePoint
<1> HIDE DEF h
<1>4. /\ g \in HandType /\ SamePoint(t.hand, g) /\ g.status = t.hand.status
      /\ g.stack = t.hand.stack /\ g.bet = t.hand.bet /\ g.currentBet = t.hand.currentBet
  BY <1>3 DEF HandType, SamePoint
<1> HIDE DEF g
<1>5. v \in TableType /\ v.hand = g BY <1>4, WithHandEffect
<1> HIDE DEF v
<1>6. CASE u = WithHand(t, h) /\ h.phase # "betting"
  <2>1. u.hand = h BY <1>3, <1>6, WithHandEffect
  <2>2. Contenders(h) = Contenders(t.hand) /\ Active(h) = Active(t.hand)
    BY <1>3 DEF Contenders, Active
  <2>3. CardRules(h) BY <1>3, <2>2, SamePointKeepsCards DEF Rules
  <2>4. ChipRules(h)
    BY <1>3, <2>2 DEF Rules, ChipRules, SamePoint, Playing, Chipped, Paid
  <2> QED BY <2>1, <2>3, <2>4 DEF Rules
<1>7. CASE h.phase = "betting"
  <2>1. /\ t.hand.phase = "betting" /\ g.phase = "betting" /\ Playing(g) /\ Playing(t.hand)
    BY <1>3, <1>4, <1>7 DEF SamePoint, Playing
  <2>2. Contenders(g) = Contenders(t.hand) /\ Active(g) = Active(t.hand)
    BY <1>4 DEF Contenders, Active
  <2>3. Chipped(g) /\ Paid(g)
    BY <1>4, <2>1, <2>2 DEF Rules, ChipRules, Chipped, Paid
  <2>4. /\ t.hand.street \in {"preflop", "flop", "turn", "river"}
        /\ g.street = t.hand.street
        /\ g.board = BoardSize(g.street)
        /\ \A s \in Contenders(g) : g.cards[s] = HoleCards - DiscardsMade(g.street)
    <3>1. \A s \in Contenders(t.hand) : t.hand.cards[s] = HoleCards - DiscardsMade(t.hand.street) - 0
      BY <2>1 DEF Rules, CardRules, CardsDue
    <3>2. HoleCards - DiscardsMade(t.hand.street) - 0 = HoleCards - DiscardsMade(t.hand.street)
      <4>1. DiscardsMade(t.hand.street) \in {0, 1, 2}
        BY <2>1 DEF Rules, CardRules, DiscardsMade
      <4> QED BY <4>1 DEF HoleCards
    <3> QED BY <1>4, <2>1, <2>2, <3>1, <3>2 DEF Rules, CardRules, SamePoint
  <2>5. ASSUME t.hand.street = "preflop", u \in RunDiscards(OpenStreet(v, "flop", 3))
        PROVE  Rules(u.hand)
    <3> DEFINE k == [v.hand EXCEPT !.board = @ + 3]
    <3>1. k.board = g.board + 3 /\ k.cards = g.cards /\ k.status = g.status
      BY <1>4, <1>5 DEF HandType
    <3> HIDE DEF k
    <3>2. Contenders(k) = Contenders(g) BY <3>1 DEF Contenders
    <3>3. ReadyForStreet(k, "flop")
      BY <2>4, <2>5, <3>1, <3>2 DEF ReadyForStreet, BoardSize, DiscardsMade
    <3>4. Rules(OpenStreet(v, "flop", 3).hand)
      BY <1>5, <2>1, <2>3, <3>3, OpenStreetRules DEF k
    <3>5. OpenStreet(v, "flop", 3) \in TableType
      BY <1>5, <2>1, OpenStreetKeeps DEF Keeps, Streets
    <3> QED BY <2>5, <3>4, <3>5, RunDiscardsRules
  <2>6. ASSUME t.hand.street # "preflop", u \in RunDiscards(OpenDiscard(v))
        PROVE  Rules(u.hand)
    <3>1. ReadyForStreet(g, g.street) BY <2>4, <2>6 DEF ReadyForStreet
    <3>2. Rules(OpenDiscard(v).hand) BY <1>5, <2>3, <3>1, OpenDiscardRules
    <3>3. OpenDiscard(v) \in TableType BY <1>5, <2>1, OpenDiscardKeeps DEF Keeps
    <3> QED BY <2>6, <3>2, <3>3, RunDiscardsRules
  <2> QED BY <1>2, <1>7, <2>5, <2>6
<1> QED BY <1>2, <1>6, <1>7

\* discardCard takes one card of one player.
LEMMA DiscardedEffect ==
    ASSUME NEW t \in TableType, NEW s \in Seats
    PROVE  LET u == Discarded(t, s)
           IN  /\ u.hand.phase = t.hand.phase /\ u.hand.street = t.hand.street
               /\ u.hand.board = t.hand.board /\ u.hand.status = t.hand.status
               /\ u.hand.stack = t.hand.stack /\ u.hand.bet = t.hand.bet
               /\ u.hand.currentBet = t.hand.currentBet
               /\ u.hand.waiting = t.hand.waiting
               /\ u.hand.pending = t.hand.pending \ {s}
               /\ \A r \in Seats :
                     u.hand.cards[r] = IF r = s THEN t.hand.cards[r] - 1 ELSE t.hand.cards[r]
               /\ u.sittingOut = t.sittingOut /\ u.seatStack = t.seatStack
<1> DEFINE cards == Put(t.hand.cards, s, t.hand.cards[s] - 1)
           g == [t.hand EXCEPT !.cards = cards, !.pending = @ \ {s}]
<1>1. t.hand \in HandType BY HandIsTyped
<1>2. t.hand.cards[s] - 1 \in Int BY <1>1 DEF HandType
<1>3. cards \in [Seats -> Int] BY <1>1, <1>2, PutType DEF HandType
<1>4. \A r \in Seats : cards[r] = IF r = s THEN t.hand.cards[r] - 1 ELSE t.hand.cards[r]
  BY <1>1 DEF HandType, Put
<1>5. Discarded(t, s) = WithHand(t, g) BY DEF Discarded
<1> HIDE DEF cards
<1>6. /\ g \in HandType /\ g.phase = t.hand.phase /\ g.street = t.hand.street
      /\ g.board = t.hand.board /\ g.status = t.hand.status /\ g.stack = t.hand.stack
      /\ g.bet = t.hand.bet /\ g.currentBet = t.hand.currentBet
      /\ g.waiting = t.hand.waiting
      /\ g.pending = t.hand.pending \ {s} /\ g.cards = cards
  BY <1>1, <1>3 DEF HandType
<1> HIDE DEF g
<1> QED BY <1>4, <1>5, <1>6, WithHandEffect

\* autoDiscard takes the cards of all who owe one.
LEMMA AutoDiscardEffect ==
    ASSUME NEW t \in TableType
    PROVE  \E v \in TableType :
              /\ AutoDiscard(t) = RunDiscards(v)
              /\ v.hand.phase = t.hand.phase /\ v.hand.street = t.hand.street
              /\ v.hand.board = t.hand.board /\ v.hand.status = t.hand.status
              /\ v.hand.stack = t.hand.stack /\ v.hand.bet = t.hand.bet
              /\ v.hand.currentBet = t.hand.currentBet
              /\ v.hand.waiting = t.hand.waiting
              /\ v.hand.pending = {}
              /\ \A r \in Seats :
                    v.hand.cards[r] = IF r \in t.hand.pending THEN t.hand.cards[r] - 1
                                      ELSE t.hand.cards[r]
              /\ v.sittingOut = t.sittingOut /\ v.seatStack = t.seatStack
<1> DEFINE h == t.hand
           cards == [s \in Seats |-> IF s \in h.pending THEN h.cards[s] - 1 ELSE h.cards[s]]
           g == [h EXCEPT !.cards = cards, !.pending = {}]
           v == WithHand(t, g)
<1>1. h \in HandType BY HandIsTyped
<1>2. cards \in [Seats -> Int] BY <1>1, CardsType
<1>3. AutoDiscard(t) = RunDiscards(v) BY DEF AutoDiscard
<1>4. \A r \in Seats : cards[r] = IF r \in h.pending THEN h.cards[r] - 1 ELSE h.cards[r]
  OBVIOUS
<1> HIDE DEF cards
<1>5. /\ g \in HandType /\ g.phase = h.phase /\ g.street = h.street
      /\ g.board = h.board /\ g.status = h.status /\ g.stack = h.stack
      /\ g.bet = h.bet /\ g.currentBet = h.currentBet /\ g.waiting = h.waiting
      /\ g.pending = {} /\ g.cards = cards
  BY <1>1, <1>2 DEF HandType
<1> HIDE DEF g
<1>6. /\ v \in TableType /\ v.hand = g
      /\ v.sittingOut = t.sittingOut /\ v.seatStack = t.seatStack
  BY <1>5, WithHandEffect
<1> HIDE DEF v
<1> QED BY <1>3, <1>4, <1>5, <1>6

\* Cards that were owed have been given: by `some` of those who owe one.
LEMMA GivingKeepsRules ==
    ASSUME NEW g, NEW h, NEW some \in SUBSET Seats,
           Rules(g), g.phase = "discard",
           h.phase = g.phase, h.street = g.street, h.board = g.board, h.status = g.status,
           h.stack = g.stack, h.bet = g.bet, h.currentBet = g.currentBet,
           some \subseteq g.pending, h.pending = g.pending \ some,
           \A r \in Seats : h.cards[r] = IF r \in some THEN g.cards[r] - 1 ELSE g.cards[r]
    PROVE  Rules(h)
<1>1. Contenders(h) = Contenders(g) /\ Active(h) = Active(g) BY DEF Contenders, Active
<1>2. /\ g.street \in {"flop", "turn", "river"}
      /\ g.board = BoardSize(g.street)
      /\ \A s \in Contenders(g) : g.cards[s] = CardsDue(g, s)
  BY DEF Rules, CardRules, Playing
<1>3. ASSUME NEW s \in Contenders(h) PROVE h.cards[s] = CardsDue(h, s)
  <2>1. s \in Seats /\ g.cards[s] = CardsDue(g, s) BY <1>1, <1>2, <1>3 DEF Contenders
  <2>2. DiscardsMade(g.street) \in {0, 1, 2} BY <1>2 DEF DiscardsMade
  <2> QED BY <2>1, <2>2 DEF CardsDue, HoleCards
<1>4. CardRules(h) BY <1>2, <1>3 DEF CardRules
<1>5. ChipRules(h) BY <1>1 DEF Rules, ChipRules, Playing, Chipped, Paid
<1> QED BY <1>4, <1>5 DEF Rules

\* applyDiscard, up to the street or the showdown it leads to.
LEMMA ApplyDiscardRules ==
    ASSUME NEW t \in TableType, NEW s \in t.hand.pending, t.hand.phase = "discard",
           Rules(t.hand), NEW u \in ApplyDiscard(t, s)
    PROVE  Rules(u.hand)
<1> DEFINE v == Discarded(t, s)
<1>1. s \in Seats BY HandIsTyped DEF HandType
<1>2. v \in TableType BY <1>1, DiscardedKeeps DEF Keeps
<1>3. Rules(v.hand)
  <2> DEFINE g == t.hand
             h == v.hand
             some == {s}
  <2>1. /\ h.phase = g.phase /\ h.street = g.street /\ h.board = g.board
        /\ h.status = g.status /\ h.stack = g.stack /\ h.bet = g.bet
        /\ h.currentBet = g.currentBet /\ h.pending = g.pending \ some
        /\ \A r \in Seats : h.cards[r] = IF r \in some THEN g.cards[r] - 1 ELSE g.cards[r]
        /\ some \in SUBSET Seats /\ some \subseteq g.pending
        /\ Rules(g) /\ g.phase = "discard"
    BY <1>1, DiscardedEffect
  <2> HIDE DEF g, h, some
  <2>2. Rules(h) BY <2>1, GivingKeepsRules
  <2> QED BY <2>2 DEF h
<1>4. u \in RunDiscards(v) BY DEF ApplyDiscard
<1> HIDE DEF v
<1> QED BY <1>2, <1>3, <1>4, RunDiscardsRules

\* autoDiscard likewise.
LEMMA AutoDiscardRules ==
    ASSUME NEW t \in TableType, t.hand.phase = "discard", Rules(t.hand),
           NEW u \in AutoDiscard(t)
    PROVE  Rules(u.hand)
<1>1. PICK v \in TableType :
         /\ AutoDiscard(t) = RunDiscards(v)
         /\ v.hand.phase = t.hand.phase /\ v.hand.street = t.hand.street
         /\ v.hand.board = t.hand.board /\ v.hand.status = t.hand.status
         /\ v.hand.stack = t.hand.stack /\ v.hand.bet = t.hand.bet
         /\ v.hand.currentBet = t.hand.currentBet
         /\ v.hand.pending = {}
         /\ \A r \in Seats :
               v.hand.cards[r] = IF r \in t.hand.pending THEN t.hand.cards[r] - 1
                                 ELSE t.hand.cards[r]
  BY AutoDiscardEffect
<1>2. t.hand.pending \in SUBSET Seats BY HandIsTyped DEF HandType
<1>3. v.hand.pending = t.hand.pending \ t.hand.pending BY <1>1
<1>4. Rules(v.hand)
  <2> DEFINE g == t.hand
             h == v.hand
  <2>1. /\ h.phase = g.phase /\ h.street = g.street /\ h.board = g.board
        /\ h.status = g.status /\ h.stack = g.stack /\ h.bet = g.bet
        /\ h.currentBet = g.currentBet /\ h.pending = g.pending \ g.pending
        /\ \A r \in Seats : h.cards[r] = IF r \in g.pending THEN g.cards[r] - 1 ELSE g.cards[r]
        /\ g.pending \in SUBSET Seats /\ Rules(g) /\ g.phase = "discard"
    BY <1>1, <1>2, <1>3
  <2> HIDE DEF g, h
  <2>2. Rules(h) BY <2>1, GivingKeepsRules
  <2> QED BY <2>2 DEF h
<1> QED BY <1>1, <1>4, RunDiscardsRules

-----------------------------------------------------------------------------
(* Seats, lost players, and new hands.                                      *)

\* The fold of a lost player, in a hand or after it.
LEMMA FoldsAwayRules ==
    ASSUME NEW t \in TableType, NEW s \in Seats, Rules(t.hand)
    PROVE  Rules(FoldsAway(t, s).hand)
<1> DEFINE v == Fold(t, s)
           u == FoldsAway(t, s)
<1>1. CASE t.hand.status[s] # "active"
  <2>1. u = t BY <1>1 DEF FoldsAway
  <2> QED BY <2>1
<1>2. CASE t.hand.status[s] = "active"
  <2>1. v \in TableType BY <1>2, FoldKeeps DEF Keeps
  <2>2. v.hand \in HandType BY <2>1, HandIsTyped
  <2>3. /\ SamePoint(t.hand, v.hand)
        /\ v.hand.waiting = t.hand.waiting
        /\ v.hand.bet = t.hand.bet /\ v.hand.currentBet = t.hand.currentBet
        /\ Contenders(v.hand) \subseteq Contenders(t.hand)
        /\ Active(v.hand) \subseteq Active(t.hand)
        /\ Chipped(t.hand) => Chipped(v.hand)
    BY <1>2, FoldEffect
  <2>4. CardRules(v.hand) BY <2>3, SamePointKeepsCards DEF Rules
  <2>5. ChipRules(v.hand) BY <2>3 DEF Rules, ChipRules, SamePoint, Playing, Paid
  <2>6. \/ u = FinishHand(v, NoRank)
        \/ u = v
        \/ u = Queue(v) /\ v.hand.phase = "betting" /\ RoundComplete(v.hand)
        \/ u = PassTurn(v) /\ v.hand.phase = "betting"
    BY <1>2 DEF FoldsAway
  <2> HIDE DEF v, u
  <2>7. CASE u = FinishHand(v, NoRank)
    BY <2>1, <2>4, <2>7, FinishHandRules DEF CardRules, u
  <2>8. CASE u = v BY <2>4, <2>5, <2>8 DEF Rules, u
  <2>9. CASE \/ u = Queue(v) /\ v.hand.phase = "betting" /\ RoundComplete(v.hand)
             \/ u = PassTurn(v) /\ v.hand.phase = "betting"
    <3>1. /\ SamePoint(v.hand, u.hand) /\ u.hand.status = v.hand.status
          /\ u.hand.stack = v.hand.stack /\ u.hand.bet = v.hand.bet
          /\ u.hand.currentBet = v.hand.currentBet
          /\ u = PassTurn(v) => u.hand.waiting = v.hand.waiting
      BY <2>1, <2>9, TurnEffect
    <3>2. Contenders(u.hand) = Contenders(v.hand) /\ Active(u.hand) = Active(v.hand)
      BY <3>1 DEF Contenders, Active
    <3>3. CardRules(u.hand) BY <2>4, <3>1, <3>2, SamePointKeepsCards
    <3>4. Chipped(v.hand) BY <2>5, <2>9 DEF ChipRules, Playing
    <3>5. u.hand.phase = "betting" BY <2>9, <3>1 DEF SamePoint
    <3>6. Chipped(u.hand) BY <3>1, <3>4 DEF Chipped
    <3>7. u.hand.waiting => Paid(v.hand)
      <4>1. CASE RoundComplete(v.hand) BY <2>2, <3>4, <4>1, CompleteIsPaid
      <4>2. CASE u = PassTurn(v) BY <2>5, <2>9, <3>1, <4>2 DEF ChipRules, Playing
      <4> QED BY <2>9, <4>1, <4>2
    <3>8. u.hand.waiting => Paid(u.hand) BY <3>1, <3>2, <3>7 DEF Paid
    <3> QED BY <3>3, <3>5, <3>6, <3>8 DEF Rules, ChipRules, u
  <2> QED BY <2>6, <2>7, <2>8, <2>9
<1> QED BY <1>1, <1>2

\* What a host makes of a lost player.
LEMMA LosesPlayerRules ==
    ASSUME NEW t \in TableType, NEW s \in Seats, NEW u \in LosesPlayer(t, s), Rules(t.hand),
           \A r \in Seats : Playing(t.hand) /\ t.hand.status[r] # "none" =>
               t.seatStatus[r] # "empty"
    PROVE  Rules(u.hand)
<1> DEFINE out == SetSittingOut(t, s, TRUE)
<1>1. out \in TableType /\ out.hand = t.hand BY SetSittingOutKeeps DEF Keeps
<1>2. CASE u = out BY <1>1, <1>2
<1>3. CASE u \in HandleDisconnect(t, s)
  <2>1. PICK v : /\ u = FoldsAway(v, s)
                 /\ \/ v = out
                    \/ /\ t.hand.phase = "discard" /\ s \in t.hand.pending
                       /\ v \in ApplyDiscard(out, s)
    BY <1>3 DEF HandleDisconnect, ApplyDiscard
  <2> HIDE DEF out
  <2>2. v \in TableType /\ Rules(v.hand)
    <3>1. CASE v = out BY <1>1, <3>1
    <3>2. CASE /\ t.hand.phase = "discard" /\ s \in t.hand.pending
               /\ v \in ApplyDiscard(out, s)
      BY <1>1, <3>2, ApplyDiscardKeeps, ApplyDiscardRules DEF Keeps
    <3> QED BY <2>1, <3>1, <3>2
  <2> QED BY <2>1, <2>2, FoldsAwayRules
<1> QED BY <1>2, <1>3 DEF LosesPlayer

\* The hand of x has just been dealt to the seats of in, with five cards each.
JustDealt(x, in) ==
    /\ x.hand.phase = "betting" /\ x.hand.street = "preflop"
    /\ x.hand.board = 0 /\ x.hand.pending = {} /\ ~x.hand.waiting
    /\ \A s \in Seats : x.hand.status[s] # "folded" /\ (s \in in <=> x.hand.status[s] # "none")
    /\ \A s \in in : x.hand.cards[s] = HoleCards
    /\ Chipped(x.hand)

\* The cards are dealt before the blinds are posted.
LEMMA DealEffect ==
    ASSUME NEW t \in TableType, NEW in \in SUBSET Seats, NEW button \in Seats,
           \A s \in in : t.seatStack[s] > 0
    PROVE  JustDealt(Deal(t, in, button), in) /\ Deal(t, in, button).sittingOut = t.sittingOut
<1> DEFINE status == [s \in Seats |-> IF s \in in THEN "active" ELSE "none"]
           stack == [s \in Seats |-> IF s \in in THEN t.seatStack[s] ELSE 0]
           cards == [s \in Seats |-> IF s \in in THEN HoleCards ELSE 0]
           h == [NullHand EXCEPT !.phase = "betting", !.button = button, !.status = status,
                                 !.stack = stack, !.cards = cards, !.clock = TRUE]
           u == [t EXCEPT !.gateOpen = FALSE, !.gateReady = {}, !.button = button, !.hand = h]
<1>1. \A s \in Seats : /\ status[s] = IF s \in in THEN "active" ELSE "none"
                       /\ s \in in => cards[s] = HoleCards
                       /\ s \in in => stack[s] > 0
  OBVIOUS
<1>2. Deal(t, in, button) = u BY DEF Deal, NewHand
<1> HIDE DEF status, stack, cards
<1>3. /\ h.phase = "betting" /\ h.street = "preflop" /\ h.board = 0 /\ h.pending = {}
      /\ ~h.waiting /\ h.status = status /\ h.stack = stack /\ h.cards = cards
  BY DEF NullHand
<1> HIDE DEF h
<1>4. u.hand = h /\ u.sittingOut = t.sittingOut BY DEF TableType
<1> HIDE DEF u
<1>5. Chipped(h) BY <1>1, <1>3 DEF Chipped
<1> QED BY <1>1, <1>2, <1>3, <1>4, <1>5 DEF JustDealt

\* A hand that has just been dealt.
Opening(u) ==
    /\ u.hand.phase = "betting" /\ u.hand.street = "preflop"
    /\ u.hand.board = 0 /\ u.hand.pending = {} /\ ~u.hand.waiting
    /\ ~(Cardinality(Contenders(u.hand)) < MinPlayers)
    /\ \A s \in Seats \ Contenders(u.hand) : u.hand.status[s] = "none"
    /\ \A s \in Contenders(u.hand) : u.hand.cards[s] = HoleCards /\ ~u.sittingOut[s]
    /\ Chipped(u.hand)

\* A hand is dealt to the seats that are ready, with five cards each.
LEMMA StartHandEffect ==
    ASSUME NEW t \in TableType, ~(Cardinality(Ready(t)) < MinPlayers)
    PROVE  Opening(StartHand(t))
<1> DEFINE in == Ready(t)
           headsUp == Cardinality(in) = 2
           button == FirstAfter(t.button, in)
           sb == IF headsUp THEN button ELSE FirstAfter(button, in)
           bb == FirstAfter(sb, in)
           d == Deal(t, in, button)
           v == CommitBet(d, sb, SmallBlind)
           w == CommitBet(v, bb, BigBlind)
           bet == AtMost(BigBlind, w.hand.bet[bb])
           k == [w.hand EXCEPT !.currentBet = bet]
           p == WithHand(w, k)
           first == IF headsUp \/ Active(p.hand) = {} THEN button
                    ELSE FirstAfter(bb, Active(p.hand))
           g == [p.hand EXCEPT !.turn = first]
           Begun(x) == JustDealt(x, in) /\ x.sittingOut = t.sittingOut
<1>1. /\ in \in SUBSET Seats /\ ~(Cardinality(in) < MinPlayers)
      /\ \A s \in in : t.seatStatus[s] # "empty" /\ t.seatStack[s] > 0 /\ ~t.sittingOut[s]
  BY DEF Ready
<1>2. in # {} BY FS_EmptySet DEF MinPlayers
<1>3. t.button \in Seats \cup {NoSeat} BY DEF TableType
<1> HIDE DEF in, headsUp
<1>4. button \in Seats BY <1>1, <1>2, <1>3, FirstAfterIsOne
<1> HIDE DEF button
<1>5. sb \in Seats BY <1>1, <1>2, <1>4, FirstAfterIsOne
<1> HIDE DEF sb
<1>6. bb \in Seats BY <1>1, <1>2, <1>5, FirstAfterIsOne
<1> HIDE DEF bb
<1>7. d \in TableType /\ Playing(d.hand) /\ Fresh(d) /\ BetsAreCommitted(d.hand)
  BY <1>1, <1>4, DealFollows
<1>8. Begun(d)
  <2>1. \A s \in in : t.seatStack[s] > 0 BY <1>1
  <2> HIDE DEF d
  <2>2. JustDealt(Deal(t, in, button), in) /\ Deal(t, in, button).sittingOut = t.sittingOut
    BY <2>1, <1>1, <1>4, DealEffect
  <2> QED BY <2>2 DEF d
<1> HIDE DEF d
<1>9. ASSUME NEW x \in TableType, NEW s \in Seats, NEW amount \in Nat, Begun(x),
             BetsAreCommitted(x.hand)
      PROVE  Begun(CommitBet(x, s, amount))
  <2>1. 0 <= x.hand.bet[s] + amount
    <3>1. x.hand.bet[s] \in Nat BY HandIsTyped DEF HandType
    <3> QED BY <3>1
  <2>2. LET u == CommitBet(x, s, amount)
        IN  /\ SamePoint(x.hand, u.hand) /\ SamePlayers(x.hand, u.hand)
            /\ u.hand.waiting = x.hand.waiting
            /\ u.sittingOut = x.sittingOut
            /\ Chipped(u.hand)
    BY <1>9, <2>1, CommitBetEffect DEF JustDealt
  <2> QED BY <1>9, <2>2 DEF SamePoint, SamePlayers, JustDealt
<1>10. v \in TableType /\ Playing(v.hand) /\ Fresh(v) /\ BetsAreCommitted(v.hand)
  BY <1>5, <1>7, BlindsAssumption, CommitBetFresh
<1>11. Begun(v)
  <2> HIDE DEF Begun
  <2> QED BY <1>5, <1>7, <1>8, <1>9, BlindsAssumption
<1> HIDE DEF v
<1>12. w \in TableType BY <1>6, <1>10, BlindsAssumption, CommitBetFresh
<1>13. Begun(w)
  <2> HIDE DEF Begun
  <2> QED BY <1>6, <1>9, <1>10, <1>11, BlindsAssumption
<1> HIDE DEF w
<1>14. w.hand \in HandType BY <1>12, HandIsTyped
<1>15. bet \in Nat
  <2>1. w.hand.bet[bb] \in Nat BY <1>6, <1>14 DEF HandType
  <2> QED BY <2>1, BlindsAssumption DEF AtMost
<1> HIDE DEF bet
<1>16. /\ k \in HandType /\ SamePoint(w.hand, k) /\ k.status = w.hand.status
       /\ k.stack = w.hand.stack /\ k.waiting = w.hand.waiting
  BY <1>14, <1>15 DEF HandType, SamePoint
<1> HIDE DEF k
<1>17. p \in TableType /\ p.hand = k /\ p.sittingOut = w.sittingOut
  BY <1>12, <1>16, WithHandEffect
<1> HIDE DEF p
<1>18. first \in Seats BY <1>4, <1>6, ActiveAreSeats, FirstAfterIsOne
<1> HIDE DEF first
<1>19. /\ g \in HandType /\ SamePoint(k, g) /\ g.status = k.status
       /\ g.stack = k.stack /\ g.waiting = k.waiting
  BY <1>16, <1>17, <1>18 DEF HandType, SamePoint
<1> HIDE DEF g
<1>20. WithHand(p, g).hand = g /\ WithHand(p, g).sittingOut = p.sittingOut
  BY <1>17, <1>19, WithHandEffect
<1>21. Begun(WithHand(p, g))
  BY <1>13, <1>16, <1>17, <1>19, <1>20 DEF SamePoint, Chipped, JustDealt
<1>22. StartHand(t) = WithHand(p, g)
  BY DEF StartHand, PostBlinds, in, headsUp, button, sb, bb, d, v, w, bet, k, p, first, g
<1>23. \A s \in Seats : StartHand(t).hand.status[s] # "busted"
  BY <1>21, <1>22 DEF Chipped, JustDealt
<1>24. StartHand(t).hand \in HandType BY StartHandFresh, HandIsTyped
<1>25. Contenders(StartHand(t).hand) = in
  <2>1. \A s \in Seats : StartHand(t).hand.status[s] \in PlayerStatuses
    BY <1>24 DEF HandType
  <2> QED BY <1>1, <1>21, <1>22, <1>23, <2>1 DEF Contenders, PlayerStatuses, JustDealt
<1> QED BY <1>1, <1>21, <1>22, <1>25 DEF Opening, JustDealt

\* A new hand goes by the rules.
LEMMA OpeningRules ==
    ASSUME NEW u, Opening(u)
    PROVE  Rules(u.hand)
<1>1. u.hand.street # "showdown" BY DEF Opening
<1>2. \A s \in Contenders(u.hand) : u.hand.cards[s] = CardsDue(u.hand, s)
  BY DEF Opening, CardsDue, DiscardsMade, HoleCards
<1> QED BY <1>1, <1>2 DEF Opening, Rules, CardRules, ChipRules, BoardSize

\* ensureStartGate changes neither the hand nor who sits out.
LEMMA EnsureStartGateEffect ==
    ASSUME NEW t \in TableType
    PROVE  /\ EnsureStartGate(t) \in TableType
           /\ EnsureStartGate(t).hand = t.hand
           /\ EnsureStartGate(t).sittingOut = t.sittingOut
<1>1. EnsureStartGate(t) \in TableType /\ EnsureStartGate(t).hand = t.hand
  BY EnsureStartGateKeeps DEF Keeps
<1>2. EnsureStartGate(t).sittingOut = t.sittingOut
  BY DEF EnsureStartGate, CloseGate, TableType
<1> QED BY <1>1, <1>2

\* advanceStartGate leaves the hand alone or deals one.
LEMMA AdvanceStartGateEffect ==
    ASSUME NEW t \in TableType, NEW elapsed \in BOOLEAN
    PROVE  LET u == AdvanceStartGate(t, elapsed)
           IN  \/ u.hand = t.hand /\ u.sittingOut = t.sittingOut
               \/ NoHand(t) /\ Opening(u)
<1> DEFINE g == EnsureStartGate(t)
           u == AdvanceStartGate(t, elapsed)
<1>1. g \in TableType /\ g.hand = t.hand /\ g.sittingOut = t.sittingOut
  BY EnsureStartGateEffect
<1>2. CASE u = g BY <1>1, <1>2
<1>3. CASE u # g
  <2>1. u = StartHand(g) /\ g.gateOpen BY <1>3 DEF AdvanceStartGate
  <2>2. NoHand(t) /\ ~(Cardinality(Ready(g)) < MinPlayers)
    BY <2>1, EnsureStartGateKeeps
  <2> HIDE DEF g, u
  <2>3. Opening(u) BY <1>1, <2>1, <2>2, StartHandEffect
  <2> QED BY <2>2, <2>3 DEF u
<1> QED BY <1>2, <1>3

\* beginNextHandIfReady leaves the hand alone or deals one.
LEMMA BeginNextHandEffect ==
    ASSUME NEW t \in TableType
    PROVE  LET u == BeginNextHandIfReady(t)
           IN  \/ u.hand = t.hand /\ u.sittingOut = t.sittingOut
               \/ NoHand(t) /\ Opening(u)
<1> DEFINE u == BeginNextHandIfReady(t)
<1>1. CASE u = t BY <1>1
<1>2. CASE u = EnsureStartGate(t) BY <1>2, EnsureStartGateEffect
<1>3. CASE u # t /\ u # EnsureStartGate(t)
  <2>1. u = StartHand(t) /\ NoHand(t) /\ Cardinality(Ready(t)) >= MinPlayers
    BY <1>3 DEF BeginNextHandIfReady
  <2>2. ~(Cardinality(Ready(t)) < MinPlayers)
    <3>1. IsFiniteSet(Ready(t))
      <4>1. Ready(t) \in SUBSET Seats BY DEF Ready
      <4> QED BY <4>1, SeatsFinite, FS_Subset
    <3>2. Cardinality(Ready(t)) \in Nat BY <3>1, FS_CardinalityType
    <3> QED BY <2>1, <3>2 DEF MinPlayers
  <2> HIDE DEF u
  <2>3. Opening(u) BY <2>1, <2>2, StartHandEffect
  <2> QED BY <2>1, <2>3 DEF u
<1> QED BY <1>1, <1>2, <1>3

\* advanceToNextHand drops the settled hand, and may deal another.
LEMMA AdvanceToNextHandEffect ==
    ASSUME NEW t \in TableType
    PROVE  LET u == AdvanceToNextHand(t)
           IN  \/ u.hand = NullHand /\ u.sittingOut = t.sittingOut
               \/ Opening(u)
<1> DEFINE v == WithHand(t, NullHand)
<1>1. v \in TableType /\ v.hand = NullHand /\ v.sittingOut = t.sittingOut
  BY NullHandType, WithHandEffect
<1>2. AdvanceToNextHand(t) = BeginNextHandIfReady(v) BY DEF AdvanceToNextHand, WithHand
<1> HIDE DEF v
<1> QED BY <1>1, <1>2, BeginNextHandEffect

\* Without a hand there is nothing to go by.
LEMMA NullHandRules == Rules(NullHand)
BY DEF NullHand, Rules, CardRules, ChipRules, Playing

-----------------------------------------------------------------------------
(* The theorems.                                                            *)

HandInv == IInv /\ Rules(Hand)

\* The rules imply the properties the runs check.
LEMMA RulesAreProperties == HandInv => DiscardDiscipline /\ RoundIsPaid
<1> SUFFICES ASSUME HandInv PROVE DiscardDiscipline /\ RoundIsPaid OBVIOUS
<1>1. DiscardDiscipline
  BY DEF HandInv, Rules, CardRules, CardsDue, DiscardDiscipline, InPlay, Playing, Hand
<1>2. RoundIsPaid
  BY DEF HandInv, Rules, ChipRules, Paid, RoundIsPaid, InPlay, Playing, Hand
<1> QED BY <1>1, <1>2

\* A step to one of `results`, all of which go by the rules, keeps to them.
LEMMA BecomesKeepsRules ==
    ASSUME NEW R, BecomesOneOf(R), \A u \in R : Rules(u.hand)
    PROVE  Rules(Hand)'
BY DEF BecomesOneOf, Hand

\* Each action leads to a hand that goes by the rules.
LEMMA NextKeepsRules == HandInv /\ [Next]_vars => Rules(Hand)'
<1> SUFFICES ASSUME HandInv, [Next]_vars PROVE Rules(Hand)' OBVIOUS
<1>1. /\ table \in TableType /\ BetsAreCommitted(table.hand)
      /\ \A s \in Seats : Playing(table.hand) /\ table.hand.status[s] # "none" =>
            table.seatStatus[s] # "empty"
      /\ Rules(table.hand)
  BY DEF HandInv, IInv, TableInv, PlayersSeated, Hand
<1>2. ASSUME NEW u \in TableType, u.hand = table.hand, Becomes(BeginNextHandIfReady(u))
      PROVE  Rules(Hand)'
  <2>1. Rules(BeginNextHandIfReady(u).hand)
    BY <1>1, <1>2, BeginNextHandEffect, OpeningRules
  <2> QED BY <1>2, <2>1, BecomesKeepsRules DEF Becomes
<1>3. ASSUME NEW u, u.hand = table.hand, Becomes(u) PROVE Rules(Hand)'
  BY <1>1, <1>3, BecomesKeepsRules DEF Becomes
<1>4. ASSUME NEW s \in Seats, NEW stack \in BuyIns, Join(s, stack) PROVE Rules(Hand)'
  <2>1. stack \in Nat BY StacksAssumption
  <2>2. SeatPlayer(table, s, stack) \in TableType /\ SeatPlayer(table, s, stack).hand = table.hand
    BY <1>1, <2>1 DEF SeatPlayer, TableType, SeatStatuses
  <2> QED BY <1>2, <1>4, <2>2 DEF Join
<1>5. ASSUME NEW s \in Seats, NEW action \in Actions, Act(s, action) PROVE Rules(Hand)'
  <2>1. Rules(ApplyAction(table, s, action).hand)
    BY <1>1, <1>5, ApplyActionRules DEF Act, Hand
  <2> QED BY <1>5, <2>1, BecomesKeepsRules DEF Act, Becomes
<1>6. ASSUME NEW s \in Seats, Discard(s) PROVE Rules(Hand)'
  <2>1. \A u \in ApplyDiscard(table, s) : Rules(u.hand)
    BY <1>1, <1>6, ApplyDiscardRules DEF Discard, Hand
  <2> QED BY <1>6, <2>1, BecomesKeepsRules DEF Discard
<1>7. ASSUME NEW s \in Seats, NEW ready \in BOOLEAN, ReadyForHand(s, ready) PROVE Rules(Hand)'
  <2> DEFINE u == SetReadyForHand(table, s, ready)
  <2>1. u \in TableType /\ u.hand = table.hand BY <1>1, SetReadyForHandKeeps DEF Keeps
  <2> HIDE DEF u
  <2>2. Rules(AdvanceStartGate(u, FALSE).hand)
    BY <1>1, <2>1, AdvanceStartGateEffect, OpeningRules
  <2> QED BY <1>7, <2>2, BecomesKeepsRules DEF ReadyForHand, Becomes, u
<1>8. ASSUME NEW s \in Seats, LeaveSeat(s) PROVE Rules(Hand)'
  <2>1. SitOut(table, s).hand = table.hand BY <1>1 DEF SitOut, TableType
  <2> QED BY <1>3, <1>8, <2>1 DEF LeaveSeat
<1>9. ASSUME NEW s \in Seats, NEW amount \in BuyIns, BuyBackIn(s, amount) PROVE Rules(Hand)'
  <2>1. Rebuy(table, s, amount).hand = table.hand BY <1>1 DEF Rebuy, TableType
  <2> QED BY <1>3, <1>9, <2>1 DEF BuyBackIn
<1>10. CASE NextHand
  <2>1. Rules(AdvanceToNextHand(table).hand)
    BY <1>1, AdvanceToNextHandEffect, OpeningRules, NullHandRules
  <2> QED BY <1>10, <2>1, BecomesKeepsRules DEF NextHand, Becomes
<1>11. ASSUME NEW s \in Seats, Disconnect(s) PROVE Rules(Hand)'
  <2>1. \A u \in LosesPlayer(table, s) : Rules(u.hand) BY <1>1, LosesPlayerRules
  <2> QED BY <1>11, <2>1, BecomesKeepsRules DEF Disconnect
<1>12. ASSUME NEW s \in Seats, Return(s) PROVE Rules(Hand)'
  <2>1. /\ SetSittingOut(table, s, FALSE) \in TableType
        /\ SetSittingOut(table, s, FALSE).hand = table.hand
    BY <1>1, SetSittingOutKeeps DEF Keeps
  <2> QED BY <1>2, <1>12, <2>1 DEF Return
<1>13. ASSUME NEW s \in Seats, Release(s) PROVE Rules(Hand)'
  <2>1. RemovePlayer(table, s) \in TableType /\ RemovePlayer(table, s).hand = table.hand
    BY <1>1 DEF RemovePlayer, TableType, SeatStatuses
  <2> QED BY <1>2, <1>13, <2>1 DEF Release
<1>14. CASE StartCountdownEnds
  <2>1. Rules(AdvanceStartGate(table, TRUE).hand)
    BY <1>1, AdvanceStartGateEffect, OpeningRules
  <2> QED BY <1>14, <2>1, BecomesKeepsRules DEF StartCountdownEnds, Becomes
<1>15. CASE PauseEnds
  <2>1. \A u \in AdvancePendingPhase(table) : Rules(u.hand)
    BY <1>1, <1>15, AdvancePendingPhaseRules DEF PauseEnds, Hand
  <2> QED BY <1>15, <2>1, BecomesKeepsRules DEF PauseEnds
<1>16. CASE ActionTimeout
  <2>1. Rules(AutoAction(table).hand)
    BY <1>1, <1>16, AutoActionRules DEF ActionTimeout, Hand
  <2> QED BY <1>16, <2>1, BecomesKeepsRules DEF ActionTimeout, Becomes
<1>17. CASE DiscardTimeout
  <2>1. \A u \in AutoDiscard(table) : Rules(u.hand)
    BY <1>1, <1>17, AutoDiscardRules DEF DiscardTimeout, Hand
  <2> QED BY <1>17, <2>1, BecomesKeepsRules DEF DiscardTimeout
<1>18. CASE UNCHANGED vars BY <1>1, <1>18 DEF vars, Hand
<1> QED
  BY <1>4, <1>5, <1>6, <1>7, <1>8, <1>9, <1>10, <1>11, <1>12, <1>13, <1>14, <1>15, <1>16,
     <1>17, <1>18 DEF Next, Deadlines

\* At a new table there is no hand yet.
LEMMA InitRules == Init => Rules(Hand)
<1> SUFFICES ASSUME NEW f \in [Seats -> InitialStacks], table = SeatedTable(f)
             PROVE  Rules(Hand)
  BY DEF Init
<1>1. Hand = NullHand BY DEF Hand, SeatedTable, EmptyTable
<1> QED BY <1>1, NullHandRules

\* The rules of a hand hold in every reachable state, next to the invariant of the
\* table: at every street each contender holds the cards the discards so far have
\* left him (table.ts beginDiscardPhase, completeDiscardPhase, autoDiscard), whoever
\* can still fold has chips (commitBet), and a round that is over has been paid.
THEOREM HandInvariance == Spec => []HandInv
<1>1. Init => HandInv BY InitKeepsInvariant, InitRules DEF HandInv
<1>2. HandInv /\ [Next]_vars => HandInv'
  BY NextKeepsInvariant, NextKeepsRules DEF HandInv
<1> QED BY <1>1, <1>2, PTL DEF Spec

\* One discard on each street and none before the flop, from everyone who is still in,
\* also where absent players discard by themselves through several streets in one call
\* (table.ts beginDiscardPhase, completeDiscardPhase); hands are compared with two cards.
THEOREM DiscardsAreDisciplined == Spec => []DiscardDiscipline
<1>1. HandInv => DiscardDiscipline BY RulesAreProperties
<1> QED BY <1>1, HandInvariance, PTL

\* A betting round that is over has been paid by everyone who could pay, also when a
\* lost player or a short all-in ended it (table.ts isBettingRoundComplete,
\* isBettingActionLocked, handleDisconnect).
THEOREM RoundsArePaid == Spec => []RoundIsPaid
<1>1. HandInv => RoundIsPaid BY RulesAreProperties
<1> QED BY <1>1, HandInvariance, PTL

-----------------------------------------------------------------------------
(* What the contract sees of a hand.                                        *)

\* Nobody who plays sits out, somebody else always plays, and cards are owed only in a
\* discard, by players who are still in.
Promising(t) ==
    Playing(t.hand) =>
        /\ ~(Cardinality(Contenders(t.hand)) < 2)
        /\ t.hand.phase = "betting" => t.hand.pending = {}
        /\ t.hand.phase = "discard" =>
              t.hand.pending # {} /\ t.hand.pending \subseteq Contenders(t.hand)
        /\ \A s \in Contenders(t.hand) : ~t.sittingOut[s]

\* Both copies of a player's stack agree.
StacksAgree(t) == \A s \in Seats : t.hand.status[s] # "none" => t.seatStack[s] = t.hand.stack[s]

Held(h) == [s \in Seats |-> IF s \in StillIn(h) THEN h.cards[s] ELSE 0]

\* The contract sees no difference between g and h.
LooksSame(g, h) ==
    /\ StageOf(h) = StageOf(g) /\ StillIn(h) = StillIn(g) /\ h.pending = g.pending
    /\ \A s \in StillIn(g) : h.cards[s] = g.cards[s]

\* The hand h is dealt after g.
DealtAfter(g, h) ==
    /\ ~Playing(g)
    /\ StageOf(h) = 1 /\ h.pending = {}
    /\ ~(Cardinality(StillIn(h)) < 2)
    /\ \A s \in StillIn(h) : h.cards[s] = 5

\* s gives up g.
GivenUp(g, h, s) ==
    /\ g.phase = "betting" /\ s \in StillIn(g)
    /\ StillIn(h) = StillIn(g) \ {s} /\ h.pending = {}
    /\ \A r \in StillIn(h) : h.cards[r] = g.cards[r]
    /\ StageOf(h) = IF Cardinality(StillIn(h)) = 1 THEN 8 ELSE StageOf(g)

\* h is at a stage that may follow the one of g.
MovesOn(g, h) ==
    /\ \/ StageOf(h) = StageOf(g) + 1
       \/ StageOf(h) = StageOf(g) + 2 /\ StageOf(h) \in {3, 5, 7}
    /\ StillIn(h) = StillIn(g)
    /\ h.pending = IF StageOf(h) \in {3, 5, 7} THEN StillIn(g) ELSE {}

\* The betting of g is over.
BettingOver(g, h) ==
    /\ g.phase = "betting"
    /\ MovesOn(g, h)
    /\ \A s \in StillIn(g) : h.cards[s] = g.cards[s]

\* Some of those who owe a card in g have given it.
Given(g, h, some) ==
    /\ g.phase = "discard"
    /\ some # {} /\ some \subseteq g.pending /\ some \subseteq StillIn(g)
    /\ \A s \in StillIn(g) : h.cards[s] = IF s \in some THEN g.cards[s] - 1 ELSE g.cards[s]
    /\ IF some = g.pending THEN MovesOn(g, h)
       ELSE /\ StageOf(h) = StageOf(g) /\ StillIn(h) = StillIn(g)
            /\ h.pending = g.pending \ some

\* A step of the contract, or nothing, from g to h.
ContractStep(g, h) ==
    \/ LooksSame(g, h)
    \/ DealtAfter(g, h)
    \/ ~Playing(g) /\ h = NullHand
    \/ \E s \in Seats : GivenUp(g, h, s)
    \/ BettingOver(g, h)
    \/ \E some \in SUBSET Seats : Given(g, h, some)

-----------------------------------------------------------------------------
(* Stages.                                                                  *)

\* The stage of a hand, by phase and street.
LEMMA StageCases ==
    ASSUME NEW h
    PROVE  /\ h.phase = "none" => StageOf(h) = 0
           /\ h.phase = "showdown" => StageOf(h) = 8
           /\ h.phase = "betting" /\ h.street = "preflop" => StageOf(h) = 1
           /\ h.phase = "betting" /\ h.street = "flop" => StageOf(h) = 2
           /\ h.phase = "discard" /\ h.street = "flop" => StageOf(h) = 3
           /\ h.phase = "betting" /\ h.street = "turn" => StageOf(h) = 4
           /\ h.phase = "discard" /\ h.street = "turn" => StageOf(h) = 5
           /\ h.phase = "betting" /\ h.street = "river" => StageOf(h) = 6
           /\ h.phase = "discard" /\ h.street = "river" => StageOf(h) = 7
<1>1. h.phase = "none" => StageOf(h) = 0 BY DEF StageOf
<1>2. h.phase = "showdown" => StageOf(h) = 8 BY DEF StageOf
<1>3. h.phase = "betting" /\ h.street = "preflop" => StageOf(h) = 1 BY DEF StageOf
<1>4. h.phase = "betting" /\ h.street = "flop" => StageOf(h) = 2 BY DEF StageOf
<1>5. h.phase = "discard" /\ h.street = "flop" => StageOf(h) = 3 BY DEF StageOf
<1>6. h.phase = "betting" /\ h.street = "turn" => StageOf(h) = 4 BY DEF StageOf
<1>7. h.phase = "discard" /\ h.street = "turn" => StageOf(h) = 5 BY DEF StageOf
<1>8. h.phase = "betting" /\ h.street = "river" => StageOf(h) = 6 BY DEF StageOf
<1>9. h.phase = "discard" /\ h.street = "river" => StageOf(h) = 7 BY DEF StageOf
<1> QED BY <1>1, <1>2, <1>3, <1>4, <1>5, <1>6, <1>7, <1>8, <1>9

\* The stages of betting and of discards.
LEMMA StagesOfPlay ==
    ASSUME NEW h \in HandType, CardRules(h)
    PROVE  /\ StageOf(h) \in 0 .. 8
           /\ h.phase = "betting" <=> StageOf(h) \in {1, 2, 4, 6}
           /\ h.phase = "discard" <=> StageOf(h) \in {3, 5, 7}
<1>1. h.phase \in {"none", "betting", "discard", "showdown"} BY DEF HandType, Phases
<1>2. /\ h.phase = "betting" => h.street \in {"preflop", "flop", "turn", "river"}
      /\ h.phase = "discard" => h.street \in {"flop", "turn", "river"}
  BY DEF CardRules, Playing
<1>3. CASE h.phase \in {"none", "showdown"} BY <1>3, StageCases
<1>4. CASE h.phase = "betting" BY <1>2, <1>4, StageCases
<1>5. CASE h.phase = "discard" BY <1>2, <1>5, StageCases
<1> QED BY <1>1, <1>3, <1>4, <1>5

\* The contract counts players as the table does.
LEMMA SameCardinality ==
    ASSUME NEW S
    PROVE  Promise!Cardinality(S) = Cardinality(S)
BY DEF Promise!Cardinality, Cardinality

\* What the table shows of the contract is a step of it.
LEMMA ContractSteps ==
    ASSUME Hand \in HandType, CardRules(Hand), ContractStep(Hand, Hand')
    PROVE  [Promise!ContractNext]_(Promise!contractVars)
<1> DEFINE g == Hand
           h == Hand'
           held == [s \in Seats |-> IF s \in StillIn(g) THEN g.cards[s] ELSE 0]
           heldNow == [s \in Seats |-> IF s \in StillIn(h) THEN h.cards[s] ELSE 0]
<1>1. /\ StageOf(g) \in 0 .. 8
      /\ Promise!Playing <=> Playing(g)
      /\ StageOf(g) \in Promise!BettingStages <=> g.phase = "betting"
      /\ StageOf(g) \in Promise!DiscardStages <=> g.phase = "discard"
  BY StagesOfPlay
     DEF Playing, Promise!Playing, Promise!BettingStages, Promise!DiscardStages
<1>2. StillIn(g) \in SUBSET Seats /\ StillIn(h) \in SUBSET Seats BY DEF StillIn
<1>3. CASE LooksSame(g, h)
  <2>1. heldNow = held BY <1>3 DEF LooksSame
  <2>2. UNCHANGED Promise!contractVars
    BY <1>3, <2>1 DEF LooksSame, Promise!contractVars
  <2> QED BY <2>2
<1>4. ASSUME DealtAfter(g, h), NEW in, in = StillIn(h) PROVE Promise!ContractNext
  <2>1. heldNow = [s \in Seats |-> IF s \in in THEN 5 ELSE 0] BY <1>4 DEF DealtAfter
  <2>2. Cardinality(in) >= 2
    <3>1. IsFiniteSet(in) BY <1>2, <1>4, SeatsFinite, FS_Subset
    <3>2. Cardinality(in) \in Nat BY <3>1, FS_CardinalityType
    <3> QED BY <1>4, <3>2 DEF DealtAfter
  <2>3. Promise!DealIn(in)
    BY <1>1, <1>4, <2>1, <2>2, SameCardinality
       DEF DealtAfter, Promise!DealIn, Promise!PreflopBetting
  <2>4. in \in SUBSET Seats BY <1>2, <1>4
  <2> QED BY <2>3, <2>4 DEF Promise!ContractNext
<1>5. CASE ~Playing(g) /\ h = NullHand
  <2>1. StageOf(h) = 0 /\ StillIn(h) = {} /\ h.pending = {}
    BY <1>5, StageCases DEF NullHand, StillIn
  <2>2. heldNow = [s \in Seats |-> 0] BY <2>1
  <2>3. Promise!Clear BY <1>1, <1>5, <2>1, <2>2 DEF Promise!Clear, Promise!NoStage
  <2> QED BY <2>3 DEF Promise!ContractNext
<1>6. ASSUME NEW s \in Seats, GivenUp(g, h, s) PROVE Promise!ContractNext
  <2>1. heldNow = [held EXCEPT ![s] = 0] BY <1>6 DEF GivenUp
  <2>2. Promise!GiveUp(s)
    BY <1>1, <1>6, <2>1, SameCardinality DEF GivenUp, Promise!GiveUp, Promise!Over
  <2> QED BY <2>2 DEF Promise!ContractNext
<1>7. ASSUME MovesOn(g, h), StageOf(g) \in 1 .. 7, g.phase = "betting" \/ g.phase = "discard"
      PROVE  \E q \in Promise!Following : Promise!EnterStage(q)
  <2>1. StageOf(h) \in Promise!Following
    BY <1>1, <1>7 DEF MovesOn, Promise!Following, Promise!BettingStages, Promise!DiscardStages
  <2>2. Promise!EnterStage(StageOf(h))
    BY <1>7 DEF MovesOn, Promise!EnterStage, Promise!DiscardStages
  <2> QED BY <2>1, <2>2
<1>8. CASE BettingOver(g, h)
  <2>1. heldNow = held BY <1>8 DEF BettingOver, MovesOn
  <2>2. StillIn(h) = StillIn(g) /\ MovesOn(g, h) BY <1>8 DEF BettingOver, MovesOn
  <2>3. StageOf(g) \in 1 .. 7 BY <1>1, <1>8 DEF BettingOver, Promise!BettingStages
  <2>4. Promise!BettingEnds
    BY <1>1, <1>7, <1>8, <2>1, <2>2, <2>3 DEF BettingOver, Promise!BettingEnds
  <2> QED BY <2>4 DEF Promise!ContractNext
<1>9. ASSUME NEW some \in SUBSET Seats, Given(g, h, some) PROVE Promise!ContractNext
  <2>1. StillIn(h) = StillIn(g) BY <1>9 DEF Given, MovesOn
  <2>2. heldNow = [s \in Seats |-> IF s \in some THEN held[s] - 1 ELSE held[s]]
    BY <1>9, <2>1 DEF Given
  <2>3. StageOf(g) \in 1 .. 7 BY <1>1, <1>9 DEF Given, Promise!DiscardStages
  <2>4. Promise!Give(some)
    BY <1>1, <1>7, <1>9, <2>1, <2>2, <2>3 DEF Given, Promise!Give
  <2> QED BY <2>4 DEF Promise!ContractNext
<1> QED BY <1>3, <1>4, <1>5, <1>6, <1>8, <1>9 DEF ContractStep

-----------------------------------------------------------------------------
(* Betting.                                                                 *)

\* Who is still in, among players who have not been settled with.
LEMMA StillInContends ==
    ASSUME NEW h, Chipped(h)
    PROVE  StillIn(h) = Contenders(h)
BY DEF Chipped, StillIn, Contenders

\* Two players are at least as many after one of three has gone.
LEMMA OneGives ==
    ASSUME NEW S \in SUBSET Seats, NEW s \in S, ~(Cardinality(S) < 2), Cardinality(S \ {s}) # 1
    PROVE  ~(Cardinality(S \ {s}) < 2)
<1>1. IsFiniteSet(S) BY SeatsFinite, FS_Subset
<1>2. Cardinality(S) \in Nat /\ Cardinality(S \ {s}) = Cardinality(S) - 1
  BY <1>1, FS_CardinalityType, FS_RemoveElement
<1> QED BY <1>2

\* finishHand takes nobody out: who has folded still has chips.
LEMMA FinishHandStays ==
    ASSUME NEW t \in TableType, NEW rank, Chipped(t.hand), StacksAgree(t)
    PROVE  StillIn(FinishHand(t, rank).hand) = Contenders(t.hand)
<1> DEFINE u == FinishHand(t, rank)
<1>1. ASSUME NEW s \in Seats
      PROVE  u.hand.status[s] =
                IF t.hand.status[s] # "none" /\ t.seatStack[s] + Award(t.hand, rank, s) = 0
                THEN "busted" ELSE t.hand.status[s]
  BY FinishHandEffect
<1> HIDE DEF u
<1>2. ASSUME NEW s \in Seats, t.hand.status[s] = "folded" PROVE u.hand.status[s] = "folded"
  <2>1. t.hand \in HandType BY HandIsTyped
  <2>2. t.hand.stack[s] \in Nat /\ Award(t.hand, rank, s) \in Nat
    BY <2>1, AwardType DEF HandType
  <2>3. t.hand.stack[s] > 0 /\ t.seatStack[s] = t.hand.stack[s]
    BY <1>2 DEF Chipped, StacksAgree
  <2>4. t.seatStack[s] + Award(t.hand, rank, s) # 0 BY <2>2, <2>3
  <2> QED BY <1>1, <1>2, <2>4
<1>3. ASSUME NEW s \in Seats
      PROVE  u.hand.status[s] \in {"active", "allIn", "busted"}
                <=> t.hand.status[s] \in {"active", "allIn"}
  <2>1. t.hand.status[s] \in {"none", "active", "folded", "allIn"}
    BY HandIsTyped DEF HandType, PlayerStatuses, Chipped
  <2> QED BY <1>1, <1>2, <2>1
<1> QED BY <1>3 DEF StillIn, Contenders, u

\* A hand in play, seen by its rules.
Fair(t) ==
    /\ t \in TableType
    /\ BetsAreCommitted(t.hand)
    /\ Rules(t.hand)
    /\ Promising(t)
    /\ Playing(t.hand) => StacksAgree(t)

\* An operation on t that is a step of the contract.
Performs(t, u) == ContractStep(t.hand, u.hand) /\ Promising(u)

\* A step that keeps players and point of the hand shows nothing.
LEMMA SameIsPerformed ==
    ASSUME NEW t, NEW u, Promising(t), SamePoint(t.hand, u.hand), SamePlayers(t.hand, u.hand),
           u.sittingOut = t.sittingOut
    PROVE  Performs(t, u)
<1>1. Contenders(u.hand) = Contenders(t.hand) BY SamePlayersContend
<1>2. StillIn(u.hand) = StillIn(t.hand) BY DEF SamePlayers, StillIn
<1>3. StageOf(u.hand) = StageOf(t.hand) BY DEF SamePoint, StageOf
<1>4. LooksSame(t.hand, u.hand) BY <1>2, <1>3 DEF SamePoint, LooksSame
<1>5. Promising(u) BY <1>1 DEF Promising, SamePoint, Playing
<1> QED BY <1>4, <1>5 DEF Performs, ContractStep

\* A fold in the betting, and the settlement with a player left alone.
LEMMA FoldPerforms ==
    ASSUME NEW t, NEW s \in Seats, Fair(t), t.hand.phase = "betting",
           t.hand.status[s] = "active",
           NEW u, LET v == Fold(t, s)
                  IN  IF Alone(v.hand) THEN u = FinishHand(v, NoRank)
                      ELSE u \in {Queue(v), PassTurn(v)}
    PROVE  Performs(t, u)
<1> DEFINE v == Fold(t, s)
<1>1. /\ t \in TableType /\ Chipped(t.hand) /\ StacksAgree(t) /\ Playing(t.hand)
      /\ t.hand.pending = {} /\ ~(Cardinality(Contenders(t.hand)) < 2)
      /\ \A r \in Contenders(t.hand) : ~t.sittingOut[r]
  BY DEF Fair, Rules, ChipRules, Promising, Playing
<1>2. v \in TableType BY <1>1, FoldKeeps DEF Keeps
<1>3. /\ SamePoint(t.hand, v.hand)
      /\ v.hand.status = Put(t.hand.status, s, "folded")
      /\ v.hand.stack = t.hand.stack
      /\ Contenders(v.hand) = Contenders(t.hand) \ {s}
      /\ Chipped(v.hand)
      /\ v.sittingOut = t.sittingOut /\ v.seatStack = t.seatStack
  BY <1>1, FoldEffect
<1>4. StacksAgree(v)
  <2>1. t.hand.status \in [Seats -> PlayerStatuses] BY <1>1, HandIsTyped DEF HandType
  <2>2. \A r \in Seats : v.hand.status[r] # "none" => t.hand.status[r] # "none"
    BY <1>3, <2>1 DEF Put
  <2> QED BY <1>1, <1>3, <2>2 DEF StacksAgree
<1>5. s \in Contenders(t.hand) /\ Contenders(t.hand) \in SUBSET Seats
  BY ActiveAreSeats DEF Contenders
<1>6. StillIn(t.hand) = Contenders(t.hand) /\ StillIn(v.hand) = Contenders(v.hand)
  BY <1>1, <1>3, StillInContends
<1>7. Alone(v.hand) <=> Cardinality(Contenders(v.hand)) = 1 BY DEF Alone
<1>8. IF Alone(v.hand) THEN u = FinishHand(v, NoRank) ELSE u \in {Queue(v), PassTurn(v)}
  OBVIOUS
<1> HIDE DEF v
<1>9. CASE Alone(v.hand)
  <2>1. u = FinishHand(v, NoRank) BY <1>8, <1>9
  <2>2. StillIn(u.hand) = Contenders(v.hand) BY <1>2, <1>3, <1>4, <2>1, FinishHandStays
  <2>3. u.hand.phase = "showdown" /\ u.hand.cards = v.hand.cards
        /\ u.hand.pending = v.hand.pending
    BY <1>2, <2>1, FinishHandEffect
  <2>4. StageOf(u.hand) = 8 BY <2>3, StageCases
  <2>5. GivenUp(t.hand, u.hand, s)
    BY <1>1, <1>3, <1>5, <1>6, <1>7, <1>9, <2>2, <2>3, <2>4 DEF GivenUp, SamePoint
  <2>6. Promising(u) BY <2>3 DEF Promising, Playing
  <2> QED BY <2>5, <2>6 DEF Performs, ContractStep
<1>10. CASE ~Alone(v.hand)
  <2>1. /\ SamePoint(v.hand, u.hand) /\ u.hand.status = v.hand.status
        /\ u.sittingOut = v.sittingOut
    BY <1>2, <1>8, <1>10, TurnEffect
  <2>2. Contenders(u.hand) = Contenders(v.hand) /\ StillIn(u.hand) = StillIn(v.hand)
    BY <2>1 DEF Contenders, StillIn
  <2>3. StageOf(u.hand) = StageOf(t.hand) BY <1>3, <2>1 DEF SamePoint, StageOf
  <2>4. GivenUp(t.hand, u.hand, s)
    BY <1>1, <1>3, <1>5, <1>6, <1>7, <1>10, <2>1, <2>2, <2>3 DEF GivenUp, SamePoint
  <2>5. ~(Cardinality(Contenders(u.hand)) < 2)
    BY <1>1, <1>3, <1>5, <1>7, <1>10, <2>2, OneGives
  <2>6. Promising(u) BY <1>1, <1>3, <2>1, <2>2, <2>5 DEF Promising, SamePoint, Playing
  <2> QED BY <2>4, <2>6 DEF Performs, ContractStep
<1> QED BY <1>9, <1>10

\* applyAction is a fold, or shows nothing.
LEMMA ApplyActionPerforms ==
    ASSUME NEW t, NEW s \in Seats, NEW action \in Actions, Fair(t), Accepts(t.hand, s, action)
    PROVE  Performs(t, ApplyAction(t, s, action))
<1> DEFINE v == Move(t, s, action)
           u == ApplyAction(t, s, action)
<1>1. /\ t \in TableType /\ BetsAreCommitted(t.hand) /\ Promising(t)
      /\ t.hand.phase = "betting" /\ t.hand.status[s] = "active"
  BY DEF Fair, Accepts, OnTurn
<1>2. v \in TableType BY <1>1, MoveKeeps DEF Keeps
<1>3. u = IF Alone(v.hand) THEN FinishHand(v, NoRank)
          ELSE IF RoundComplete(v.hand) THEN Queue(v) ELSE PassTurn(v)
  BY DEF ApplyAction
<1> HIDE DEF u
<1>4. CASE v = Fold(t, s) BY <1>1, <1>3, <1>4, FoldPerforms DEF u
<1>5. CASE v # Fold(t, s)
  <2>1. /\ SamePoint(t.hand, v.hand) /\ SamePlayers(t.hand, v.hand)
        /\ v.sittingOut = t.sittingOut
    BY <1>1, <1>5, MoveEffect
  <2> HIDE DEF v
  <2>2. Contenders(v.hand) = Contenders(t.hand) BY <2>1, SamePlayersContend
  <2>3. ~Alone(v.hand)
    <3>1. ~(Cardinality(Contenders(t.hand)) < 2) BY <1>1 DEF Promising, Playing
    <3> QED BY <2>2, <3>1 DEF Alone
  <2>4. u \in {Queue(v), PassTurn(v)} BY <1>3, <2>3
  <2>5. /\ SamePoint(v.hand, u.hand) /\ u.hand.status = v.hand.status
        /\ u.sittingOut = v.sittingOut
    BY <1>2, <2>4, TurnEffect
  <2>6. SamePoint(t.hand, u.hand) /\ SamePlayers(t.hand, u.hand)
    BY <2>1, <2>5 DEF SamePoint, SamePlayers
  <2> QED BY <1>1, <2>1, <2>5, <2>6, SameIsPerformed DEF u
<1> QED BY <1>4, <1>5

\* autoAction, likewise.
LEMMA AutoActionPerforms ==
    ASSUME NEW t, Fair(t), ~AutoActionThrows(t.hand)
    PROVE  Performs(t, AutoAction(t))
<1>1. t \in TableType /\ Promising(t) BY DEF Fair
<1>2. CASE AutoAction(t) = t
  BY <1>1, <1>2, SameIsPerformed DEF SamePoint, SamePlayers
<1>3. CASE AutoAction(t) # t
  <2>1. PICK s \in Seats, action \in Actions :
           Accepts(t.hand, s, action) /\ AutoAction(t) = ApplyAction(t, s, action)
    BY <1>1, <1>3, AutoActionIsAction
  <2> QED BY <2>1, ApplyActionPerforms
<1> QED BY <1>2, <1>3

-----------------------------------------------------------------------------
(* Streets and discards.                                                    *)

\* The table u shows the betting or the discard of a street, with the players of g
\* and, in a discard, a card owed by each of them.
Opens(g, u, street) ==
    /\ u.hand.street = street
    /\ u.hand.phase \in {"betting", "discard"}
    /\ u.hand.pending = IF u.hand.phase = "discard" THEN Contenders(g) ELSE {}
    /\ u.hand.status = g.status
    /\ \A s \in Seats : u.hand.cards[s] = g.cards[s]

\* beginDiscardPhase while everybody is there: each contender owes a card.
LEMMA OpenDiscardOpens ==
    ASSUME NEW t \in TableType, ReadyForStreet(t.hand, t.hand.street),
           \A s \in Contenders(t.hand) : ~t.sittingOut[s]
    PROVE  /\ Opens(t.hand, OpenDiscard(t), t.hand.street)
           /\ OpenDiscard(t).hand.phase = "discard"
           /\ OpenDiscard(t).sittingOut = t.sittingOut
<1> DEFINE h == t.hand
           owing == {s \in Contenders(h) : h.cards[s] > KeptCards}
           absent == {s \in owing : t.sittingOut[s]}
           u == OpenDiscard(t)
<1>1. /\ u.hand.phase = "discard" /\ u.hand.street = h.street
      /\ u.hand.status = h.status
      /\ u.hand.pending = owing \ absent
      /\ \A s \in Seats : u.hand.cards[s] = IF s \in absent THEN h.cards[s] - 1 ELSE h.cards[s]
      /\ u.sittingOut = t.sittingOut
  BY OpenDiscardEffect
<1> HIDE DEF u
<1>2. absent = {} OBVIOUS
<1>3. owing = Contenders(h)
  <2>1. DiscardsMade(h.street) \in {0, 1, 2} BY DEF ReadyForStreet, DiscardsMade
  <2> QED BY <2>1 DEF ReadyForStreet, HoleCards, KeptCards
<1>4. u.hand.pending = Contenders(h) BY <1>1, <1>2, <1>3
<1> HIDE DEF owing
<1> QED BY <1>1, <1>2, <1>4 DEF Opens, u

\* A street is opened for betting, or for a discard when nobody can bet.
LEMMA OpenStreetOpens ==
    ASSUME NEW t \in TableType, NEW street, NEW cards \in Nat,
           ReadyForStreet([t.hand EXCEPT !.board = @ + cards], street),
           t.hand.pending = {},
           \A s \in Contenders(t.hand) : ~t.sittingOut[s]
    PROVE  /\ Opens(t.hand, OpenStreet(t, street, cards), street)
           /\ OpenStreet(t, street, cards).sittingOut = t.sittingOut
<1> DEFINE h == [t.hand EXCEPT !.board = @ + cards]
           g == [h EXCEPT !.street = street]
           u == OpenStreet(t, street, cards)
<1>1. t.hand \in HandType BY HandIsTyped
<1>2. street \in Streets BY DEF ReadyForStreet, Streets
<1>3. /\ h \in HandType /\ h.status = t.hand.status /\ h.cards = t.hand.cards
      /\ h.pending = t.hand.pending
  BY <1>1 DEF HandType
<1>4. u = IF BettingLocked(h) THEN OpenDiscard(WithHand(t, g)) ELSE OpenBetting(WithHand(t, h), street)
  BY DEF OpenStreet
<1>5. ReadyForStreet(h, street) OBVIOUS
<1> HIDE DEF h, u
<1>6. /\ g \in HandType /\ g.street = street /\ g.board = h.board /\ g.cards = h.cards
      /\ g.status = h.status
  BY <1>2, <1>3 DEF HandType
<1> HIDE DEF g
<1>7. Contenders(g) = Contenders(t.hand) /\ Contenders(h) = Contenders(t.hand)
  BY <1>3, <1>6 DEF Contenders
<1>8. CASE BettingLocked(h)
  <2> DEFINE v == WithHand(t, g)
  <2>1. v \in TableType /\ v.hand = g /\ v.sittingOut = t.sittingOut BY <1>6, WithHandEffect
  <2> HIDE DEF v
  <2>2. ReadyForStreet(g, g.street) BY <1>5, <1>6, <1>7 DEF ReadyForStreet
  <2>3. u = OpenDiscard(v) BY <1>4, <1>8 DEF v
  <2>4. Opens(g, u, street) /\ u.sittingOut = t.sittingOut
    BY <1>6, <1>7, <2>1, <2>2, <2>3, OpenDiscardOpens
  <2> QED BY <1>3, <1>6, <1>7, <2>4 DEF Opens, u
<1>9. CASE ~BettingLocked(h)
  <2> DEFINE v == WithHand(t, h)
  <2>1. v \in TableType /\ v.hand = h /\ v.sittingOut = t.sittingOut BY <1>3, WithHandEffect
  <2> HIDE DEF v
  <2>2. u = OpenBetting(v, street) BY <1>4, <1>9 DEF v
  <2>3. /\ u.hand.phase = "betting" /\ u.hand.street = street
        /\ u.hand.status = h.status /\ u.hand.cards = h.cards
        /\ u.hand.pending = h.pending /\ u.sittingOut = v.sittingOut
    BY <1>2, <2>1, <2>2, OpenBettingEffect
  <2> QED BY <1>3, <2>1, <2>3 DEF Opens, u
<1> QED BY <1>8, <1>9

\* Where a card is owed or no discard is open, none follows by itself.
LEMMA RunDiscardsStops ==
    ASSUME NEW t, t.hand.phase # "discard" \/ t.hand.pending # {}
    PROVE  CloseDiscard(t) = {t} /\ RunDiscards(t) = {t}
<1>1. CloseDiscard(t) = {t} BY DEF CloseDiscard
<1> QED BY <1>1 DEF RunDiscards

\* An opened street is one with the same players, and nothing happens on it by itself.
LEMMA OpenedStreet ==
    ASSUME NEW g, NEW u, NEW street \in {"flop", "turn", "river"}, Opens(g, u, street),
           Chipped(g), ~(Cardinality(Contenders(g)) < 2),
           \A s \in Contenders(g) : ~u.sittingOut[s]
    PROVE  /\ CloseDiscard(u) = {u} /\ RunDiscards(u) = {u}
           /\ Promising(u)
           /\ StillIn(u.hand) = StillIn(g) /\ StillIn(g) = Contenders(g)
           /\ \A s \in Seats : u.hand.cards[s] = g.cards[s]
           /\ u.hand.pending = IF StageOf(u.hand) \in {3, 5, 7} THEN StillIn(g) ELSE {}
           /\ street = "flop" => StageOf(u.hand) \in {2, 3}
           /\ street = "turn" => StageOf(u.hand) \in {4, 5}
           /\ street = "river" => StageOf(u.hand) \in {6, 7}
           /\ u.hand.phase = "discard" <=> StageOf(u.hand) \in {3, 5, 7}
<1>1. Contenders(u.hand) = Contenders(g) /\ StillIn(u.hand) = StillIn(g)
  BY DEF Opens, Contenders, StillIn
<1>2. StillIn(g) = Contenders(g) BY StillInContends
<1>3. Contenders(g) # {}
  <2>1. Cardinality({}) = 0 BY FS_EmptySet
  <2> QED BY <2>1
<1>4. /\ street = "flop" => StageOf(u.hand) \in {2, 3}
      /\ street = "turn" => StageOf(u.hand) \in {4, 5}
      /\ street = "river" => StageOf(u.hand) \in {6, 7}
      /\ u.hand.phase = "discard" <=> StageOf(u.hand) \in {3, 5, 7}
  BY StageCases DEF Opens
<1>5. u.hand.pending = IF StageOf(u.hand) \in {3, 5, 7} THEN StillIn(g) ELSE {}
  BY <1>2, <1>4 DEF Opens
<1>6. CloseDiscard(u) = {u} /\ RunDiscards(u) = {u} BY <1>3, RunDiscardsStops DEF Opens
<1>7. Promising(u) BY <1>1, <1>3 DEF Promising, Opens
<1> QED BY <1>1, <1>2, <1>4, <1>5, <1>6, <1>7 DEF Opens

\* advancePendingPhase ends the betting of a street, or shows nothing.
LEMMA AdvancePendingPhasePerforms ==
    ASSUME NEW t, Fair(t), t.hand.waiting, NEW u \in AdvancePendingPhase(t)
    PROVE  Performs(t, u)
<1> DEFINE h == [t.hand EXCEPT !.waiting = FALSE]
           g == [h EXCEPT !.clock = FALSE]
           v == WithHand(t, g)
<1>1. t \in TableType /\ t.hand \in HandType /\ Promising(t) BY HandIsTyped DEF Fair
<1>2. \/ u = WithHand(t, h) /\ h.phase # "betting"
      \/ /\ h.phase = "betting" /\ t.hand.street = "preflop"
         /\ u \in RunDiscards(OpenStreet(v, "flop", 3))
      \/ /\ h.phase = "betting" /\ t.hand.street # "preflop"
         /\ u \in RunDiscards(OpenDiscard(v))
  BY DEF AdvancePendingPhase
<1>3. h \in HandType /\ SamePoint(t.hand, h) /\ h.status = t.hand.status
  BY <1>1 DEF HandType, SamePoint
<1> HIDE DEF h
<1>4. g \in HandType /\ SamePoint(t.hand, g) /\ g.status = t.hand.status /\ g.stack = h.stack
  BY <1>3 DEF HandType, SamePoint
<1>5. h.stack = t.hand.stack BY <1>1 DEF HandType, h
<1> HIDE DEF g
<1>6. v \in TableType /\ v.hand = g /\ v.sittingOut = t.sittingOut BY <1>1, <1>4, WithHandEffect
<1> HIDE DEF v
<1>7. CASE u = WithHand(t, h) /\ h.phase # "betting"
  <2>1. u.hand = h /\ u.sittingOut = t.sittingOut BY <1>1, <1>3, <1>7, WithHandEffect
  <2>2. SamePlayers(t.hand, u.hand) BY <1>3, <2>1 DEF SamePlayers
  <2> QED BY <1>1, <1>3, <2>1, <2>2, SameIsPerformed
<1>8. CASE h.phase = "betting"
  <2>1. t.hand.phase = "betting" /\ Playing(t.hand) BY <1>3, <1>8 DEF SamePoint, Playing
  <2>2. /\ Chipped(t.hand) /\ t.hand.pending = {}
        /\ ~(Cardinality(Contenders(t.hand)) < 2)
        /\ \A s \in Contenders(t.hand) : ~t.sittingOut[s]
    BY <2>1 DEF Fair, Rules, ChipRules, Promising
  <2>3. /\ Contenders(g) = Contenders(t.hand) /\ StillIn(g) = StillIn(t.hand)
        /\ Chipped(g) /\ g.pending = {} /\ g.cards = t.hand.cards
    BY <1>4, <1>5, <2>2 DEF Contenders, StillIn, Chipped, SamePoint
  <2>4. /\ t.hand.street \in {"preflop", "flop", "turn", "river"}
        /\ g.street = t.hand.street
        /\ g.board = BoardSize(g.street)
        /\ \A s \in Contenders(g) : g.cards[s] = HoleCards - DiscardsMade(g.street)
    <3>1. \A s \in Contenders(t.hand) : t.hand.cards[s] = HoleCards - DiscardsMade(t.hand.street) - 0
      BY <2>1 DEF Fair, Rules, CardRules, CardsDue
    <3>2. HoleCards - DiscardsMade(t.hand.street) - 0 = HoleCards - DiscardsMade(t.hand.street)
      <4>1. DiscardsMade(t.hand.street) \in {0, 1, 2}
        BY <2>1 DEF Fair, Rules, CardRules, DiscardsMade
      <4> QED BY <4>1 DEF HoleCards
    <3> QED BY <1>4, <2>1, <2>3, <3>1, <3>2 DEF Fair, Rules, CardRules, SamePoint
  <2>5. ASSUME NEW street \in {"flop", "turn", "river"}, NEW w, Opens(g, w, street),
               w.sittingOut = t.sittingOut, u \in RunDiscards(w),
               \/ t.hand.street = "preflop" /\ street = "flop"
               \/ t.hand.street = street /\ w.hand.phase = "discard"
        PROVE  Performs(t, u)
    <3>1. \A s \in Contenders(g) : ~w.sittingOut[s] BY <2>2, <2>3, <2>5
    <3>2. /\ u = w /\ Promising(u)
          /\ StillIn(u.hand) = StillIn(g) /\ StillIn(g) = Contenders(g)
          /\ \A s \in Seats : u.hand.cards[s] = g.cards[s]
          /\ u.hand.pending = IF StageOf(u.hand) \in {3, 5, 7} THEN StillIn(g) ELSE {}
          /\ street = "flop" => StageOf(u.hand) \in {2, 3}
          /\ street = "turn" => StageOf(u.hand) \in {4, 5}
          /\ street = "river" => StageOf(u.hand) \in {6, 7}
          /\ u.hand.phase = "discard" <=> StageOf(u.hand) \in {3, 5, 7}
      BY <2>2, <2>3, <2>5, <3>1, OpenedStreet
    <3>3. \/ StageOf(u.hand) = StageOf(t.hand) + 1
          \/ StageOf(u.hand) = StageOf(t.hand) + 2 /\ StageOf(u.hand) \in {3, 5, 7}
      BY <2>1, <2>5, <3>2, StageCases
    <3>4. MovesOn(t.hand, u.hand) BY <2>3, <3>2, <3>3 DEF MovesOn
    <3>5. \A s \in StillIn(t.hand) : u.hand.cards[s] = t.hand.cards[s]
      BY <2>3, <3>2 DEF StillIn
    <3> QED BY <2>1, <3>2, <3>4, <3>5 DEF Performs, ContractStep, BettingOver
  <2>6. ASSUME t.hand.street = "preflop", u \in RunDiscards(OpenStreet(v, "flop", 3))
        PROVE  Performs(t, u)
    <3> DEFINE k == [v.hand EXCEPT !.board = @ + 3]
    <3>1. k.board = g.board + 3 /\ k.cards = g.cards /\ k.status = g.status
      BY <1>4, <1>6 DEF HandType
    <3> HIDE DEF k
    <3>2. Contenders(k) = Contenders(g) BY <3>1 DEF Contenders
    <3>3. ReadyForStreet(k, "flop")
      BY <2>4, <2>6, <3>1, <3>2 DEF ReadyForStreet, BoardSize, DiscardsMade
    <3> DEFINE w == OpenStreet(v, "flop", 3)
    <3>4. Opens(g, w, "flop") /\ w.sittingOut = t.sittingOut
      BY <1>6, <2>2, <2>3, <3>3, OpenStreetOpens DEF k
    <3> HIDE DEF w
    <3> QED BY <2>5, <2>6, <3>4 DEF w
  <2>7. ASSUME t.hand.street # "preflop", u \in RunDiscards(OpenDiscard(v))
        PROVE  Performs(t, u)
    <3>1. ReadyForStreet(g, g.street) BY <2>4, <2>7 DEF ReadyForStreet
    <3> DEFINE w == OpenDiscard(v)
    <3>2. Opens(g, w, g.street) /\ w.hand.phase = "discard" /\ w.sittingOut = t.sittingOut
      BY <1>6, <2>2, <2>3, <3>1, OpenDiscardOpens
    <3> HIDE DEF w
    <3>3. g.street \in {"flop", "turn", "river"} BY <2>4, <2>7
    <3> QED BY <2>4, <2>5, <2>7, <3>2, <3>3 DEF w
  <2> QED BY <1>2, <1>8, <2>6, <2>7
<1> QED BY <1>2, <1>7, <1>8

\* From t to v the cards of `some` players who owe one have been given.
Gives(t, v, some) ==
    /\ v \in TableType
    /\ v.hand.phase = t.hand.phase /\ v.hand.street = t.hand.street
    /\ v.hand.board = t.hand.board /\ v.hand.status = t.hand.status
    /\ v.hand.stack = t.hand.stack /\ v.hand.bet = t.hand.bet
    /\ v.hand.currentBet = t.hand.currentBet
    /\ v.hand.pending = t.hand.pending \ some
    /\ \A r \in Seats :
          v.hand.cards[r] = IF r \in some THEN t.hand.cards[r] - 1 ELSE t.hand.cards[r]
    /\ v.sittingOut = t.sittingOut /\ v.seatStack = t.seatStack

\* A discard of some who owe a card leaves the others owing one.
LEMMA SomeGive ==
    ASSUME NEW t, NEW v, NEW some \in SUBSET Seats, Fair(t), t.hand.phase = "discard",
           some # {}, some \subseteq t.hand.pending, Gives(t, v, some),
           v.hand.pending # {}, NEW u \in RunDiscards(v)
    PROVE  Performs(t, u)
<1>1. u = v BY RunDiscardsStops
<1>2. /\ Chipped(t.hand) /\ t.hand.pending \subseteq Contenders(t.hand)
      /\ ~(Cardinality(Contenders(t.hand)) < 2)
      /\ \A r \in Contenders(t.hand) : ~t.sittingOut[r]
  BY DEF Fair, Rules, ChipRules, Promising, Playing
<1>3. Contenders(v.hand) = Contenders(t.hand) /\ StillIn(v.hand) = StillIn(t.hand)
  BY DEF Gives, Contenders, StillIn
<1>4. StillIn(t.hand) = Contenders(t.hand) BY <1>2, StillInContends
<1>5. StageOf(v.hand) = StageOf(t.hand) BY DEF Gives, StageOf
<1>6. some # t.hand.pending BY DEF Gives
<1>7. \A s \in StillIn(t.hand) :
         v.hand.cards[s] = IF s \in some THEN t.hand.cards[s] - 1 ELSE t.hand.cards[s]
  BY DEF Gives, StillIn
<1>8. Given(t.hand, v.hand, some)
  BY <1>2, <1>3, <1>4, <1>5, <1>6, <1>7 DEF Given, Gives
<1>9. Promising(v) BY <1>2, <1>3 DEF Promising, Gives
<1> QED BY <1>1, <1>8, <1>9 DEF Performs, ContractStep

\* The discard of all who still owe a card opens the next street or ends the hand.
LEMMA AllGive ==
    ASSUME NEW t, NEW v, Fair(t), t.hand.phase = "discard", Gives(t, v, t.hand.pending),
           NEW u \in RunDiscards(v)
    PROVE  Performs(t, u)
<1> DEFINE owing == t.hand.pending
           h == [v.hand EXCEPT !.discardClock = FALSE]
           g == [h EXCEPT !.street = "showdown"]
           w == WithHand(v, h)
           over == WithHand(v, g)
<1>1. /\ t \in TableType /\ t.hand \in HandType /\ Rules(t.hand) /\ StacksAgree(t)
      /\ Chipped(t.hand) /\ owing # {} /\ owing \subseteq Contenders(t.hand)
      /\ ~(Cardinality(Contenders(t.hand)) < 2)
      /\ \A r \in Contenders(t.hand) : ~t.sittingOut[r]
      /\ Playing(t.hand)
  BY HandIsTyped DEF Fair, Rules, ChipRules, Promising, Playing
<1>2. owing \in SUBSET Seats BY <1>1 DEF HandType
<1>3. /\ v \in TableType /\ v.hand.phase = "discard" /\ v.hand.pending = {}
      /\ v.hand.street = t.hand.street /\ v.hand.status = t.hand.status
      /\ v.hand.stack = t.hand.stack /\ v.sittingOut = t.sittingOut
      /\ v.seatStack = t.seatStack
      /\ \A r \in Seats :
            v.hand.cards[r] = IF r \in owing THEN t.hand.cards[r] - 1 ELSE t.hand.cards[r]
  BY DEF Gives
<1>4. Rules(v.hand)
  <2> DEFINE a == t.hand
             b == v.hand
  <2>1. /\ b.phase = a.phase /\ b.street = a.street /\ b.board = a.board
        /\ b.status = a.status /\ b.stack = a.stack /\ b.bet = a.bet
        /\ b.currentBet = a.currentBet /\ b.pending = a.pending \ a.pending
        /\ \A r \in Seats : b.cards[r] = IF r \in a.pending THEN a.cards[r] - 1 ELSE a.cards[r]
        /\ a.pending \in SUBSET Seats /\ Rules(a) /\ a.phase = "discard"
    BY <1>1, <1>2 DEF Gives
  <2> HIDE DEF a, b
  <2>2. Rules(b) BY <2>1, GivingKeepsRules
  <2> QED BY <2>2 DEF b
<1>5. /\ v.hand.street \in {"flop", "turn", "river"}
      /\ v.hand.board = BoardSize(v.hand.street)
      /\ \A s \in Contenders(v.hand) :
            v.hand.cards[s] = HoleCards - DiscardsMade(v.hand.street) - 1
  BY <1>3, <1>4 DEF Rules, CardRules, CardsDue, Playing
<1>6. v.hand \in HandType BY <1>3, HandIsTyped
<1>7. /\ h \in HandType /\ h.phase = "discard" /\ h.board = v.hand.board
      /\ h.status = v.hand.status /\ h.stack = v.hand.stack /\ h.cards = v.hand.cards
      /\ h.pending = {}
  BY <1>3, <1>6 DEF HandType
<1>8. PICK x \in CloseDiscard(v) : \E y \in CloseDiscard(x) : u \in CloseDiscard(y)
  BY DEF RunDiscards
<1>9. \/ t.hand.street = "flop" /\ x = OpenStreet(w, "turn", 1)
      \/ t.hand.street = "turn" /\ x = OpenStreet(w, "river", 1)
      \/ t.hand.street = "river" /\ \E rank \in Ranks : x = FinishHand(over, rank)
  BY <1>3, <1>5 DEF CloseDiscard
<1> HIDE DEF h
<1>10. w \in TableType /\ w.hand = h /\ w.sittingOut = t.sittingOut
  BY <1>3, <1>7, WithHandEffect
<1>11. g \in HandType /\ g.status = h.status /\ g.cards = h.cards /\ g.stack = h.stack
       /\ g.pending = {}
  BY <1>7 DEF HandType, Streets
<1> HIDE DEF g
<1>12. over \in TableType /\ over.hand = g /\ over.seatStack = t.seatStack
  BY <1>3, <1>11, WithHandEffect
<1> HIDE DEF w, over
<1>13. /\ Contenders(h) = Contenders(t.hand) /\ StillIn(h) = StillIn(t.hand)
       /\ Contenders(g) = Contenders(t.hand) /\ Chipped(h) /\ Chipped(g)
       /\ StillIn(t.hand) = Contenders(t.hand) /\ Contenders(v.hand) = Contenders(t.hand)
  BY <1>1, <1>3, <1>7, <1>11, StillInContends DEF Contenders, StillIn, Chipped
<1>14. ASSUME MovesOn(t.hand, u.hand), \A s \in Seats : u.hand.cards[s] = v.hand.cards[s],
              Promising(u)
       PROVE  Performs(t, u)
  <2>1. \A s \in StillIn(t.hand) :
           u.hand.cards[s] = IF s \in owing THEN t.hand.cards[s] - 1 ELSE t.hand.cards[s]
    BY <1>3, <1>14 DEF StillIn
  <2>2. Given(t.hand, u.hand, owing) BY <1>1, <1>13, <1>14, <2>1 DEF Given
  <2> QED BY <1>2, <1>14, <2>2 DEF Performs, ContractStep
<1>15. ASSUME NEW street \in {"turn", "river"}, x = OpenStreet(w, street, 1),
              \/ t.hand.street = "flop" /\ street = "turn"
              \/ t.hand.street = "turn" /\ street = "river"
       PROVE  Performs(t, u)
  <2> DEFINE k == [w.hand EXCEPT !.board = @ + 1]
  <2>1. k.board = BoardSize(t.hand.street) + 1 /\ k.cards = h.cards /\ k.status = h.status
    BY <1>3, <1>5, <1>7, <1>10 DEF HandType
  <2> HIDE DEF k
  <2>2. BoardSize(t.hand.street) + 1 = BoardSize(street) BY <1>15 DEF BoardSize
  <2>3. HoleCards - DiscardsMade(t.hand.street) - 1 = HoleCards - DiscardsMade(street)
    BY <1>15 DEF DiscardsMade, HoleCards
  <2>4. Contenders(k) = Contenders(t.hand) BY <1>13, <2>1 DEF Contenders
  <2>5. ReadyForStreet(k, street)
    BY <1>3, <1>5, <1>7, <1>13, <1>15, <2>1, <2>2, <2>3, <2>4 DEF ReadyForStreet
  <2>6. Opens(h, x, street) /\ x.sittingOut = t.sittingOut
    BY <1>1, <1>7, <1>10, <1>13, <1>15, <2>5, OpenStreetOpens DEF k
  <2>7. \A s \in Contenders(h) : ~x.sittingOut[s] BY <1>1, <1>13, <2>6
  <2>8. /\ CloseDiscard(x) = {x} /\ Promising(x)
        /\ StillIn(x.hand) = StillIn(h)
        /\ \A s \in Seats : x.hand.cards[s] = h.cards[s]
        /\ x.hand.pending = IF StageOf(x.hand) \in {3, 5, 7} THEN StillIn(h) ELSE {}
        /\ street = "turn" => StageOf(x.hand) \in {4, 5}
        /\ street = "river" => StageOf(x.hand) \in {6, 7}
    BY <1>1, <1>13, <1>15, <2>6, <2>7, OpenedStreet
  <2>9. u = x BY <1>8, <2>8
  <2>10. \/ StageOf(u.hand) = StageOf(t.hand) + 1
         \/ StageOf(u.hand) = StageOf(t.hand) + 2 /\ StageOf(u.hand) \in {3, 5, 7}
    BY <1>15, <2>8, <2>9, StageCases
  <2>11. MovesOn(t.hand, u.hand) BY <1>13, <2>8, <2>9, <2>10 DEF MovesOn
  <2> QED BY <1>7, <1>14, <2>8, <2>9, <2>11
<1>16. ASSUME t.hand.street = "river", NEW rank, x = FinishHand(over, rank)
       PROVE  Performs(t, u)
  <2>1. StacksAgree(over) BY <1>1, <1>3, <1>7, <1>11, <1>12 DEF StacksAgree
  <2>2. StillIn(x.hand) = Contenders(t.hand) BY <1>12, <1>13, <1>16, <2>1, FinishHandStays
  <2>3. x.hand.phase = "showdown" /\ x.hand.cards = g.cards /\ x.hand.pending = {}
    BY <1>11, <1>12, <1>16, FinishHandEffect
  <2>4. u = x
    <3>1. CloseDiscard(x) = {x} BY <2>3, RunDiscardsStops
    <3> QED BY <1>8, <3>1
  <2>5. StageOf(u.hand) = 8 /\ StageOf(t.hand) = 7 BY <1>16, <2>3, <2>4, StageCases
  <2>6. MovesOn(t.hand, u.hand) BY <1>13, <2>2, <2>3, <2>4, <2>5 DEF MovesOn
  <2>7. Promising(u) BY <2>3, <2>4 DEF Promising, Playing
  <2> QED BY <1>7, <1>11, <1>14, <2>3, <2>4, <2>6, <2>7
<1> QED BY <1>9, <1>15, <1>16

\* applyDiscard, up to the street or the showdown it leads to.
LEMMA ApplyDiscardPerforms ==
    ASSUME NEW t, Fair(t), t.hand.phase = "discard", NEW s \in t.hand.pending,
           NEW u \in ApplyDiscard(t, s)
    PROVE  Performs(t, u)
<1> DEFINE v == Discarded(t, s)
           some == {s}
<1>1. t \in TableType /\ s \in Seats
  <2>1. t \in TableType BY DEF Fair
  <2> QED BY <2>1, HandIsTyped DEF HandType
<1>2. v \in TableType BY <1>1, DiscardedKeeps DEF Keeps
<1>3. Gives(t, v, some)
  <2>1. \A r \in Seats :
           v.hand.cards[r] = IF r \in some THEN t.hand.cards[r] - 1 ELSE t.hand.cards[r]
    BY <1>1, DiscardedEffect
  <2> QED BY <1>1, <1>2, <2>1, DiscardedEffect DEF Gives
<1>4. u \in RunDiscards(v) BY DEF ApplyDiscard
<1>5. some \in SUBSET Seats /\ some # {} /\ some \subseteq t.hand.pending BY <1>1
<1> HIDE DEF v, some
<1>6. CASE v.hand.pending # {} BY <1>3, <1>4, <1>5, <1>6, SomeGive
<1>7. CASE v.hand.pending = {}
  <2>1. some = t.hand.pending BY <1>3, <1>5, <1>7 DEF Gives
  <2> QED BY <1>3, <1>4, <2>1, AllGive
<1> QED BY <1>6, <1>7

\* autoDiscard gives all cards that are owed.
LEMMA AutoDiscardPerforms ==
    ASSUME NEW t, Fair(t), t.hand.phase = "discard", NEW u \in AutoDiscard(t)
    PROVE  Performs(t, u)
<1>1. t \in TableType BY DEF Fair
<1>2. PICK v \in TableType :
         /\ AutoDiscard(t) = RunDiscards(v)
         /\ v.hand.phase = t.hand.phase /\ v.hand.street = t.hand.street
         /\ v.hand.board = t.hand.board /\ v.hand.status = t.hand.status
         /\ v.hand.stack = t.hand.stack /\ v.hand.bet = t.hand.bet
         /\ v.hand.currentBet = t.hand.currentBet
         /\ v.hand.pending = {}
         /\ \A r \in Seats :
               v.hand.cards[r] = IF r \in t.hand.pending THEN t.hand.cards[r] - 1
                                 ELSE t.hand.cards[r]
         /\ v.sittingOut = t.sittingOut /\ v.seatStack = t.seatStack
  BY <1>1, AutoDiscardEffect
<1>3. Gives(t, v, t.hand.pending) BY <1>2 DEF Gives
<1> QED BY <1>2, <1>3, AllGive

-----------------------------------------------------------------------------
(* From hand to hand.                                                       *)

\* A hand is dealt.
LEMMA OpeningPerforms ==
    ASSUME NEW t, NEW u, ~Playing(t.hand), Opening(u)
    PROVE  Performs(t, u)
<1>1. Chipped(u.hand) /\ StageOf(u.hand) = 1 BY StageCases DEF Opening
<1>2. StillIn(u.hand) = Contenders(u.hand) BY <1>1, StillInContends
<1>3. DealtAfter(t.hand, u.hand)
  BY <1>1, <1>2 DEF DealtAfter, Opening, MinPlayers, HoleCards
<1>4. Promising(u) BY DEF Promising, Opening, MinPlayers
<1> QED BY <1>3, <1>4 DEF Performs, ContractStep

\* Nobody in the hand sits out in v.
AllThere(t, v) == Playing(t.hand) => \A s \in Contenders(t.hand) : ~v.sittingOut[s]

\* The hand stays what it is, or a new one is dealt.
LEMMA StaysOrOpens ==
    ASSUME NEW t, NEW v, NEW u, Promising(t), v.hand = t.hand, AllThere(t, v),
           \/ u.hand = v.hand /\ u.sittingOut = v.sittingOut
           \/ NoHand(v) /\ Opening(u)
    PROVE  Performs(t, u)
<1>1. CASE u.hand = v.hand /\ u.sittingOut = v.sittingOut
  <2>1. LooksSame(t.hand, u.hand) BY <1>1 DEF LooksSame
  <2>2. Promising(u) BY <1>1 DEF Promising, AllThere
  <2> QED BY <2>1, <2>2 DEF Performs, ContractStep
<1>2. CASE NoHand(v) /\ Opening(u)
  <2>1. ~Playing(t.hand) BY <1>2 DEF NoHand, Playing
  <2> QED BY <1>2, <2>1, OpeningPerforms
<1> QED BY <1>1, <1>2

\* setReadyForHand does not change who sits out.
LEMMA SetReadyForHandEffect ==
    ASSUME NEW t \in TableType, NEW s \in Seats, NEW ready \in BOOLEAN
    PROVE  LET u == SetReadyForHand(t, s, ready)
           IN  u \in TableType /\ u.hand = t.hand /\ u.sittingOut = t.sittingOut
<1> DEFINE g == EnsureStartGate(t)
           u == SetReadyForHand(t, s, ready)
<1>1. g \in TableType /\ g.sittingOut = t.sittingOut BY EnsureStartGateEffect
<1>2. u \in TableType /\ u.hand = t.hand BY SetReadyForHandKeeps DEF Keeps
<1>3. u = g \/ \E ready2 : u = [g EXCEPT !.gateReady = ready2] BY DEF SetReadyForHand
<1> HIDE DEF g, u
<1>4. u.sittingOut = g.sittingOut BY <1>1, <1>3 DEF TableType
<1> QED BY <1>1, <1>2, <1>4 DEF u

-----------------------------------------------------------------------------
(* The theorem.                                                             *)

PromiseInv == HandInv /\ Promising(table)

\* A step to one of `results` that perform a step of the contract is one.
LEMMA BecomesPerforms ==
    ASSUME NEW R, BecomesOneOf(R), \A u \in R : Performs(table, u)
    PROVE  ContractStep(Hand, Hand') /\ Promising(table)'
BY DEF BecomesOneOf, Hand, Performs

\* Every action of a table that loses nobody performs a step of the contract.
LEMMA NextPerforms ==
    ASSUME Departures = "never", PromiseInv, [Next]_vars
    PROVE  ContractStep(Hand, Hand') /\ Promising(table)'
<1> DEFINE Goal == ContractStep(Hand, Hand') /\ Promising(table)'
<1>1. /\ Fair(table) /\ Promising(table)
      /\ table \in TableType /\ table.hand \in HandType
      /\ \A s \in Seats : Playing(table.hand) /\ table.hand.status[s] # "none" =>
            table.seatStatus[s] # "empty"
  BY HandIsTyped
     DEF PromiseInv, HandInv, IInv, TableInv, PlayersSeated, Accounts, StacksAgree, Fair, Hand
<1>2. ASSUME NEW v, NEW u, v.hand = table.hand, AllThere(table, v), Becomes(u),
             \/ u.hand = v.hand /\ u.sittingOut = v.sittingOut
             \/ NoHand(v) /\ Opening(u)
      PROVE  Goal
  <2>1. Performs(table, u) BY <1>1, <1>2, StaysOrOpens
  <2> QED BY <1>2, <2>1, BecomesPerforms DEF Becomes
<1>3. ASSUME NEW v \in TableType, v.hand = table.hand, AllThere(table, v),
             Becomes(BeginNextHandIfReady(v))
      PROVE  Goal
  BY <1>2, <1>3, BeginNextHandEffect
<1>4. ASSUME NEW v \in TableType, NEW elapsed \in BOOLEAN, v.hand = table.hand,
             AllThere(table, v), Becomes(AdvanceStartGate(v, elapsed))
      PROVE  Goal
  BY <1>2, <1>4, AdvanceStartGateEffect
<1>5. AllThere(table, table) BY <1>1 DEF AllThere, Promising
<1>6. table.sittingOut \in [Seats -> BOOLEAN] BY <1>1 DEF TableType
<1>7. ASSUME NEW s \in Seats, NEW stack \in BuyIns, Join(s, stack) PROVE Goal
  <2> DEFINE v == SeatPlayer(table, s, stack)
  <2>1. stack \in Nat BY StacksAssumption
  <2>2. v \in TableType /\ v.hand = table.hand
        /\ \A r \in Seats \ {s} : v.sittingOut[r] = table.sittingOut[r]
    BY <1>1, <2>1 DEF SeatPlayer, TableType, SeatStatuses
  <2>3. Playing(table.hand) => s \notin Contenders(table.hand)
    BY <1>1, <1>7 DEF Join, CanSeat, Seated, Contenders
  <2>4. Becomes(BeginNextHandIfReady(v)) BY <1>7 DEF Join
  <2> HIDE DEF v
  <2>5. AllThere(table, v) BY <1>5, <2>2, <2>3 DEF AllThere, Contenders
  <2> QED BY <1>3, <2>2, <2>4, <2>5
<1>8. ASSUME NEW s \in Seats, NEW action \in Actions, Act(s, action) PROVE Goal
  <2>1. Performs(table, ApplyAction(table, s, action))
    BY <1>1, <1>8, ApplyActionPerforms DEF Act, Hand
  <2> QED BY <1>8, <2>1, BecomesPerforms DEF Act, Becomes
<1>9. ASSUME NEW s \in Seats, Discard(s) PROVE Goal
  <2>1. \A u \in ApplyDiscard(table, s) : Performs(table, u)
    BY <1>1, <1>9, ApplyDiscardPerforms DEF Discard, Hand
  <2> QED BY <1>9, <2>1, BecomesPerforms DEF Discard
<1>10. ASSUME NEW s \in Seats, NEW ready \in BOOLEAN, ReadyForHand(s, ready) PROVE Goal
  <2> DEFINE v == SetReadyForHand(table, s, ready)
  <2>1. v \in TableType /\ v.hand = table.hand /\ v.sittingOut = table.sittingOut
    BY <1>1, SetReadyForHandEffect
  <2>2. Becomes(AdvanceStartGate(v, FALSE)) BY <1>10 DEF ReadyForHand
  <2> HIDE DEF v
  <2>3. AllThere(table, v) BY <1>5, <2>1 DEF AllThere
  <2> QED BY <1>4, <2>1, <2>2, <2>3
<1>11. ASSUME NEW v, v.hand = table.hand, ~Playing(table.hand), Becomes(v) PROVE Goal
  BY <1>2, <1>11 DEF AllThere
<1>12. ASSUME NEW s \in Seats, LeaveSeat(s) PROVE Goal
  <2>1. SitOut(table, s).hand = table.hand BY <1>1 DEF SitOut, TableType
  <2>2. ~Playing(table.hand) /\ Becomes(SitOut(table, s))
    BY <1>12 DEF LeaveSeat, CanSitOut, BetweenHands, InPlay, Playing
  <2> QED BY <1>11, <2>1, <2>2
<1>13. ASSUME NEW s \in Seats, NEW amount \in BuyIns, BuyBackIn(s, amount) PROVE Goal
  <2>1. Rebuy(table, s, amount).hand = table.hand BY <1>1 DEF Rebuy, TableType
  <2>2. ~Playing(table.hand) /\ Becomes(Rebuy(table, s, amount))
    BY <1>13 DEF BuyBackIn, CanRebuy, BetweenHands, InPlay, Playing
  <2> QED BY <1>11, <2>1, <2>2
<1>14. CASE NextHand
  <2> DEFINE u == AdvanceToNextHand(table)
  <2>1. ~Playing(table.hand) /\ Becomes(u)
    BY <1>14 DEF NextHand, CanAdvanceToNextHand, InPlay, Playing
  <2>2. u.hand = NullHand \/ Opening(u) BY <1>1, AdvanceToNextHandEffect
  <2> HIDE DEF u
  <2>3. CASE u.hand = NullHand
    <3>1. ~Playing(NullHand) BY DEF NullHand, Playing
    <3>2. Performs(table, u)
      BY <2>1, <2>3, <3>1 DEF Performs, ContractStep, Promising
    <3> QED BY <2>1, <3>2, BecomesPerforms DEF Becomes
  <2>4. CASE Opening(u)
    <3>1. Performs(table, u) BY <2>1, <2>4, OpeningPerforms
    <3> QED BY <2>1, <3>1, BecomesPerforms DEF Becomes
  <2> QED BY <2>2, <2>3, <2>4
<1>15. ASSUME NEW s \in Seats PROVE ~Disconnect(s) BY DEF Disconnect
<1>16. ASSUME NEW s \in Seats, Return(s) PROVE Goal
  <2> DEFINE v == SetSittingOut(table, s, FALSE)
  <2>1. v \in TableType /\ v.hand = table.hand BY <1>1, SetSittingOutKeeps DEF Keeps
  <2>2. AllThere(table, v)
    <3> SUFFICES ASSUME Playing(table.hand), NEW r \in Contenders(table.hand)
                 PROVE  ~v.sittingOut[r]
      BY DEF AllThere
    <3>1. ~table.sittingOut[r] /\ r \in Seats BY <1>1 DEF Promising, Contenders
    <3>2. CASE r # s
      <4>1. \E x, y : v = [table EXCEPT !.sittingOut[s] = x, !.seatStatus[s] = y]
        BY DEF SetSittingOut
      <4> QED BY <1>1, <3>1, <3>2, <4>1 DEF TableType
    <3>3. CASE r = s
      <4>1. InPlay(table) /\ s \in Dealt(table.hand)
        BY <3>3 DEF InPlay, Playing, Dealt, Contenders
      <4>2. v = [table EXCEPT !.sittingOut[s] = FALSE, !.seatStatus[s] = "active"]
        BY <4>1 DEF SetSittingOut
      <4> QED BY <1>1, <3>3, <4>2 DEF TableType
    <3> QED BY <3>2, <3>3
  <2>3. Becomes(BeginNextHandIfReady(v)) BY <1>16 DEF Return
  <2> HIDE DEF v
  <2> QED BY <1>3, <2>1, <2>2, <2>3
<1>17. ASSUME NEW s \in Seats, Release(s) PROVE Goal
  <2> DEFINE v == RemovePlayer(table, s)
  <2>1. v \in TableType /\ v.hand = table.hand
        /\ \A r \in Seats : v.sittingOut[r] => table.sittingOut[r]
    BY <1>1 DEF RemovePlayer, TableType, SeatStatuses
  <2>2. Becomes(BeginNextHandIfReady(v)) BY <1>17 DEF Release
  <2> HIDE DEF v
  <2>3. AllThere(table, v) BY <1>5, <2>1 DEF AllThere, Contenders
  <2> QED BY <1>3, <2>1, <2>2, <2>3
<1>18. CASE StartCountdownEnds BY <1>1, <1>4, <1>5, <1>18 DEF StartCountdownEnds
<1>19. CASE PauseEnds
  <2>1. \A u \in AdvancePendingPhase(table) : Performs(table, u)
    BY <1>1, <1>19, AdvancePendingPhasePerforms DEF PauseEnds, Hand
  <2> QED BY <1>19, <2>1, BecomesPerforms DEF PauseEnds
<1>20. CASE ActionTimeout
  <2>1. Performs(table, AutoAction(table))
    BY <1>1, <1>20, AutoActionPerforms DEF ActionTimeout, Hand
  <2> QED BY <1>20, <2>1, BecomesPerforms DEF ActionTimeout, Becomes
<1>21. CASE DiscardTimeout
  <2>1. \A u \in AutoDiscard(table) : Performs(table, u)
    BY <1>1, <1>21, AutoDiscardPerforms DEF DiscardTimeout, Hand
  <2> QED BY <1>21, <2>1, BecomesPerforms DEF DiscardTimeout
<1>22. CASE UNCHANGED vars
  <2>1. table' = table BY <1>22 DEF vars
  <2>2. ContractStep(Hand, Hand') BY <2>1 DEF Hand, ContractStep, LooksSame
  <2> QED BY <1>1, <2>1, <2>2
<1> QED
  BY <1>7, <1>8, <1>9, <1>10, <1>12, <1>13, <1>14, <1>15, <1>16, <1>17, <1>18, <1>19, <1>20,
     <1>21, <1>22 DEF Next, Deadlines

\* A new table shows a hand that has not begun.
LEMMA InitPromises == Init => Promise!ContractInit /\ Promising(table)
<1> SUFFICES ASSUME NEW f \in [Seats -> InitialStacks], table = SeatedTable(f)
             PROVE  Promise!ContractInit /\ Promising(table)
  BY DEF Init
<1>1. table.hand = NullHand BY DEF SeatedTable, EmptyTable
<1>2. StageOf(NullHand) = 0 /\ StillIn(NullHand) = {} /\ NullHand.pending = {}
  BY StageCases DEF NullHand, StillIn
<1>3. Promise!ContractInit
  BY <1>1, <1>2 DEF Hand, Promise!ContractInit, Promise!NoStage
<1>4. Promising(table) BY <1>1 DEF Promising, Playing, NullHand
<1> QED BY <1>3, <1>4

\* While no player is lost, the table implements HandContract for any number of seats,
\* blinds and stacks: the streets come in order, the betting of a street may be skipped
\* but its discard never is, nobody joins or comes back to a hand, and it ends with one
\* player left or after the last discard (table.ts applyAction, completeBettingRound,
\* beginDiscardPhase, completeDiscardPhase, finishHand).
THEOREM TableKeepsPromise ==
    ASSUME Departures = "never"
    PROVE  Spec => KeepsPromise
<1>1. Init => Promise!ContractInit /\ PromiseInv
  BY InitPromises, InitKeepsInvariant, InitRules DEF PromiseInv, HandInv
<1>2. PromiseInv /\ [Next]_vars => PromiseInv' /\ [Promise!ContractNext]_(Promise!contractVars)
  <2> SUFFICES ASSUME PromiseInv, [Next]_vars
               PROVE  PromiseInv' /\ [Promise!ContractNext]_(Promise!contractVars)
    OBVIOUS
  <2>1. HandInv' BY NextKeepsInvariant, NextKeepsRules DEF HandInv, PromiseInv
  <2>2. ContractStep(Hand, Hand') /\ Promising(table)' BY NextPerforms
  <2>3. Hand \in HandType /\ CardRules(Hand)
    BY HandIsTyped DEF PromiseInv, HandInv, IInv, TableInv, Rules, Hand
  <2>4. [Promise!ContractNext]_(Promise!contractVars) BY <2>2, <2>3, ContractSteps
  <2> QED BY <2>1, <2>2, <2>4 DEF PromiseInv
<1>3. Spec => Promise!ContractInit /\ [][Promise!ContractNext]_(Promise!contractVars)
  BY <1>1, <1>2, PTL DEF Spec
<1> QED BY <1>3 DEF KeepsPromise, Promise!Contract

-----------------------------------------------------------------------------
(* What a seat says, and when it may be wrong.                              *)

Truth(t, s) ==
    /\ t.seatStatus[s] = "active" => t.seatStack[s] > 0 /\ ~t.sittingOut[s]
    /\ t.seatStatus[s] = "busted" => t.seatStack[s] = 0

InHand(t, s) == t.hand.status[s] # "none"

\* In a hand that is played, a player who is there is shown as active, whatever he has left.
Honest(t, gone) ==
    \A s \in Seats \ gone :
        IF Playing(t.hand) /\ InHand(t, s) THEN t.seatStatus[s] = "active" /\ ~t.sittingOut[s]
        ELSE Truth(t, s)

\* After the settlement whoever was in the hand and has no chips is out of it, so that a
\* second settlement gives him none.
Counted(t) ==
    ~Playing(t.hand) =>
        \A s \in Seats : InHand(t, s) /\ t.seatStack[s] = 0 => t.hand.status[s] = "busted"

SameSeat(t, u, s) ==
    u.seatStatus[s] = t.seatStatus[s] /\ u.sittingOut[s] = t.sittingOut[s]

\* From t to u the hand goes on and only chips of its players move.
Quiet(t, u) ==
    \A s \in Seats :
        /\ SameSeat(t, u, s)
        /\ InHand(u, s) <=> InHand(t, s)
        /\ ~InHand(t, s) => u.seatStack[s] = t.seatStack[s]

\* From t to u the hand goes on, or is settled and the seats of its players say so.
Told(t, u) ==
    /\ \A s \in Seats :
          /\ InHand(u, s) <=> InHand(t, s)
          /\ ~InHand(t, s) => SameSeat(t, u, s) /\ u.seatStack[s] = t.seatStack[s]
          /\ Playing(u.hand) => SameSeat(t, u, s)
          /\ ~Playing(u.hand) /\ InHand(t, s) /\ t.seatStatus[s] = "active" /\ ~t.sittingOut[s]
                => Truth(u, s)
    /\ Counted(u)

\* What goes on quietly and is then told has been told.
LEMMA QuietThenTold ==
    ASSUME NEW t, NEW u, NEW v, Quiet(t, u), Told(u, v)
    PROVE  Told(t, v)
BY DEF Quiet, Told, SameSeat

\* A hand that goes on has gone on quietly.
LEMMA GoingOnIsQuiet ==
    ASSUME NEW t, NEW u, Playing(u.hand)
    PROVE  Told(t, u) <=> Quiet(t, u)
BY DEF Quiet, Told, SameSeat, Counted

\* Settlements are told along a chain of operations.
LEMMA ToldThenTold ==
    ASSUME NEW t, NEW u, NEW v, Playing(u.hand), Told(t, u), Told(u, v)
    PROVE  Told(t, v)
BY GoingOnIsQuiet, QuietThenTold

\* What is told keeps the seats honest.
LEMMA ToldKeepsHonest ==
    ASSUME NEW t, NEW u, NEW gone, Playing(t.hand), Honest(t, gone), Told(t, u)
    PROVE  Honest(u, gone)
BY DEF Honest, Told, SameSeat, Truth

-----------------------------------------------------------------------------
(* The settlement.                                                          *)

\* A stack of no chips has none.
LEMMA TotalOfNothing ==
    ASSUME NEW D
    PROVE  Total([x \in D |-> 0]) = 0
<1> DEFINE f == [x \in D |-> 0]
           chips == UNION {{x} \X (1 .. f[x]) : x \in DOMAIN f}
<1>1. chips = {} OBVIOUS
<1>2. Total(f) = Cardinality(chips) BY DEF Total
<1> HIDE DEF chips, f
<1>3. Total(f) = 0 BY <1>1, <1>2, FS_EmptySet
<1> QED BY <1>3 DEF f

\* Nobody who is out of the hand wins anything.
LEMMA AwardOfNothing ==
    ASSUME NEW h, NEW rank, NEW s, s \notin Contenders(h)
    PROVE  Award(h, rank, s) = 0
<1>1. \A l \in Levels(h) : PotShare(h, rank, l, s) = 0
  BY DEF PotShare, PotWinners, Eligible
<1>2. [l \in Levels(h) |-> PotShare(h, rank, l, s)] = [l \in Levels(h) |-> 0] BY <1>1
<1>3. Total([l \in Levels(h) |-> PotShare(h, rank, l, s)]) = 0 BY <1>2, TotalOfNothing
<1> QED BY <1>3 DEF Award

\* finishHand, seat by seat.
LEMMA FinishHandSeats ==
    ASSUME NEW t \in TableType, NEW rank, NEW s \in Seats
    PROVE  LET u == FinishHand(t, rank)
           IN  /\ ~Playing(u.hand)
               /\ InHand(u, s) <=> InHand(t, s)
               /\ t.seatStack[s] \in Nat /\ u.seatStack[s] \in Nat
               /\ u.seatStack[s] >= t.seatStack[s]
               /\ s \notin Contenders(t.hand) => u.seatStack[s] = t.seatStack[s]
               /\ ~InHand(t, s) => SameSeat(t, u, s)
               /\ InHand(t, s) /\ u.seatStack[s] = 0 =>
                     u.seatStatus[s] = "busted" /\ u.hand.status[s] = "busted"
               /\ InHand(t, s) /\ u.seatStack[s] > 0 =>
                     /\ u.sittingOut[s] = t.sittingOut[s]
                     /\ u.seatStatus[s] =
                           IF ~t.sittingOut[s] /\ t.seatStatus[s] # "sitting_out" THEN "active"
                           ELSE t.seatStatus[s]
<1> DEFINE h == t.hand
           stack == [r \in Seats |-> t.seatStack[r] + Award(h, rank, r)]
           broke == {r \in Dealt(h) : stack[r] = 0}
           stay == {r \in Dealt(h) : stack[r] > 0 /\ ~t.sittingOut[r]
                                     /\ t.seatStatus[r] # "sitting_out"}
           handStack == [r \in Seats |-> IF r \in Dealt(h) THEN stack[r] ELSE 0]
           status == [r \in Seats |-> IF r \in broke THEN "busted" ELSE h.status[r]]
           acted == [r \in Seats |-> r \in broke \/ h.acted[r]]
           settled == [h EXCEPT !.phase = "showdown", !.clock = FALSE, !.stack = handStack,
                                !.status = status, !.acted = acted]
           seatStatus == [r \in Seats |-> IF r \in broke THEN "busted"
                                          ELSE IF r \in stay THEN "active" ELSE t.seatStatus[r]]
           sittingOut == [r \in Seats |-> r \in broke \/ t.sittingOut[r]]
           u == [t EXCEPT !.seatStack = stack, !.seatStatus = seatStatus,
                          !.sittingOut = sittingOut, !.hand = settled]
<1>1. FinishHand(t, rank) = u BY DEF FinishHand
<1>2. h \in HandType BY HandIsTyped
<1>3. t.seatStack[s] \in Nat BY DEF TableType
<1>4. Award(h, rank, s) \in Nat BY <1>2, AwardType
<1>5. stack[s] = t.seatStack[s] + Award(h, rank, s) OBVIOUS
<1>6. s \notin Contenders(h) => stack[s] = t.seatStack[s] BY <1>3, <1>5, AwardOfNothing
<1> HIDE DEF stack
<1>7. /\ s \in broke <=> h.status[s] # "none" /\ stack[s] = 0
      /\ s \in stay <=> /\ h.status[s] # "none" /\ stack[s] > 0 /\ ~t.sittingOut[s]
                        /\ t.seatStatus[s] # "sitting_out"
  BY DEF Dealt
<1>8. /\ status[s] = IF s \in broke THEN "busted" ELSE h.status[s]
      /\ seatStatus[s] = IF s \in broke THEN "busted"
                         ELSE IF s \in stay THEN "active" ELSE t.seatStatus[s]
      /\ sittingOut[s] = (s \in broke \/ t.sittingOut[s])
  OBVIOUS
<1> HIDE DEF status, seatStatus, sittingOut, handStack, acted, broke, stay
<1>9. settled.phase = "showdown" /\ settled.status = status BY <1>2 DEF HandType
<1> HIDE DEF settled
<1>10. u.seatStack = stack /\ u.seatStatus = seatStatus /\ u.sittingOut = sittingOut
       /\ u.hand = settled
  BY DEF TableType
<1> HIDE DEF u
<1>11. t.sittingOut[s] \in BOOLEAN BY DEF TableType
<1>12. u.hand.status[s] = status[s] /\ u.hand.phase = "showdown" BY <1>9, <1>10
<1>13. stack[s] \in Nat /\ stack[s] >= t.seatStack[s] BY <1>3, <1>4, <1>5
<1> QED
  BY <1>1, <1>3, <1>6, <1>7, <1>8, <1>10, <1>11, <1>12, <1>13 DEF InHand, SameSeat, Playing

\* The settlement is told.
LEMMA FinishHandTold ==
    ASSUME NEW t \in TableType, NEW rank
    PROVE  Told(t, FinishHand(t, rank))
<1> DEFINE u == FinishHand(t, rank)
<1>1. ASSUME NEW s \in Seats
      PROVE  /\ ~Playing(u.hand)
             /\ InHand(u, s) <=> InHand(t, s)
             /\ t.seatStack[s] \in Nat /\ u.seatStack[s] \in Nat
             /\ s \notin Contenders(t.hand) => u.seatStack[s] = t.seatStack[s]
             /\ ~InHand(t, s) => SameSeat(t, u, s)
             /\ InHand(t, s) /\ u.seatStack[s] = 0 =>
                   u.seatStatus[s] = "busted" /\ u.hand.status[s] = "busted"
             /\ InHand(t, s) /\ u.seatStack[s] > 0 =>
                   /\ u.sittingOut[s] = t.sittingOut[s]
                   /\ u.seatStatus[s] =
                         IF ~t.sittingOut[s] /\ t.seatStatus[s] # "sitting_out" THEN "active"
                         ELSE t.seatStatus[s]
  BY <1>1, FinishHandSeats
<1> HIDE DEF u
<1>2. \A s \in Seats : ~InHand(t, s) => s \notin Contenders(t.hand) BY DEF InHand, Contenders
<1>3. ASSUME NEW s \in Seats, InHand(t, s), t.seatStatus[s] = "active", ~t.sittingOut[s]
      PROVE  Truth(u, s)
  <2>1. CASE u.seatStack[s] = 0 BY <1>1, <1>3, <2>1 DEF Truth
  <2>2. CASE u.seatStack[s] > 0 BY <1>1, <1>3, <2>2 DEF Truth
  <2> QED BY <1>1, <2>1, <2>2
<1>4. Counted(u) BY <1>1 DEF Counted
<1>5. Told(t, u) BY <1>1, <1>2, <1>3, <1>4 DEF Told
<1> QED BY <1>5 DEF u

\* A second settlement makes no seat lie.
LEMMA SettledAgain ==
    ASSUME NEW t \in TableType, NEW rank, NEW gone,
           ~Playing(t.hand), Counted(t), Honest(t, gone)
    PROVE  Honest(FinishHand(t, rank), gone)
<1> DEFINE u == FinishHand(t, rank)
<1> SUFFICES ASSUME NEW s \in Seats \ gone PROVE ~Playing(u.hand) /\ Truth(u, s)
  BY DEF Honest
<1>1. /\ ~Playing(u.hand)
      /\ t.seatStack[s] \in Nat /\ u.seatStack[s] \in Nat
      /\ u.seatStack[s] >= t.seatStack[s]
      /\ s \notin Contenders(t.hand) => u.seatStack[s] = t.seatStack[s]
      /\ ~InHand(t, s) => SameSeat(t, u, s)
      /\ InHand(t, s) /\ u.seatStack[s] = 0 => u.seatStatus[s] = "busted"
      /\ InHand(t, s) /\ u.seatStack[s] > 0 =>
            /\ u.sittingOut[s] = t.sittingOut[s]
            /\ u.seatStatus[s] =
                  IF ~t.sittingOut[s] /\ t.seatStatus[s] # "sitting_out" THEN "active"
                  ELSE t.seatStatus[s]
  BY FinishHandSeats
<1> HIDE DEF u
<1>2. Truth(t, s) BY DEF Honest
<1>3. InHand(t, s) /\ t.seatStack[s] = 0 => s \notin Contenders(t.hand)
  BY DEF Counted, Contenders
<1>4. CASE ~InHand(t, s)
  <2>1. s \notin Contenders(t.hand) BY <1>4 DEF InHand, Contenders
  <2> QED BY <1>1, <1>2, <1>4, <2>1 DEF Truth, SameSeat
<1>5. CASE InHand(t, s) /\ u.seatStack[s] = 0 BY <1>1, <1>5 DEF Truth
<1>6. CASE InHand(t, s) /\ u.seatStack[s] > 0
  <2>1. t.seatStack[s] > 0 BY <1>1, <1>3, <1>6
  <2> QED BY <1>1, <1>2, <1>6, <2>1 DEF Truth
<1> QED BY <1>1, <1>4, <1>5, <1>6

-----------------------------------------------------------------------------
(* Streets and actions.                                                     *)

\* Only the hand of the table changes, and nobody enters or leaves it.
LEMMA WithHandQuiet ==
    ASSUME NEW t \in TableType, NEW h,
           \A s \in Seats : h.status[s] = "none" <=> t.hand.status[s] = "none"
    PROVE  Quiet(t, WithHand(t, h)) /\ WithHand(t, h).hand = h
BY DEF WithHand, TableType, Quiet, SameSeat, InHand

\* A player's chips move.
LEMMA CommitBetQuiet ==
    ASSUME NEW t \in TableType, NEW s \in Seats, NEW amount, InHand(t, s)
    PROVE  Quiet(t, CommitBet(t, s, amount))
<1> DEFINE h == t.hand
           pay == AtMost(amount, h.stack[s])
           allIn == h.stack[s] = pay /\ h.status[s] = "active"
           seat == IF t.seatStack[s] >= pay THEN t.seatStack[s] - pay ELSE 0
           seatStack == Put(t.seatStack, s, seat)
           stack == Put(h.stack, s, h.stack[s] - pay)
           bet == Put(h.bet, s, h.bet[s] + pay)
           committed == Put(h.committed, s, h.committed[s] + pay)
           status == Put(h.status, s, IF allIn THEN "allIn" ELSE h.status[s])
           acted == Put(h.acted, s, h.acted[s] \/ allIn)
           paid == [h EXCEPT !.stack = stack, !.bet = bet, !.committed = committed,
                             !.status = status, !.acted = acted]
           u == [t EXCEPT !.seatStack = seatStack, !.hand = paid]
<1>1. h \in HandType BY HandIsTyped
<1>2. CommitBet(t, s, amount) = u BY DEF CommitBet
<1> HIDE DEF pay, allIn, seat
<1>3. /\ status[s] = IF allIn THEN "allIn" ELSE h.status[s]
      /\ \A r \in Seats \ {s} : status[r] = h.status[r]
  BY <1>1 DEF HandType, Put
<1>4. \A r \in Seats \ {s} : seatStack[r] = t.seatStack[r] BY DEF TableType, Put
<1> HIDE DEF stack, bet, committed, status, acted, seatStack
<1>5. paid.status = status BY <1>1 DEF HandType
<1> HIDE DEF paid
<1>6. /\ u.hand = paid /\ u.seatStack = seatStack
      /\ u.sittingOut = t.sittingOut /\ u.seatStatus = t.seatStatus
  BY DEF TableType
<1> HIDE DEF u
<1>7. \A r \in Seats : InHand(u, r) <=> InHand(t, r) BY <1>3, <1>5, <1>6 DEF InHand
<1> QED BY <1>2, <1>4, <1>6, <1>7 DEF Quiet, SameSeat

\* One quiet operation after another is quiet.
LEMMA QuietThenQuiet ==
    ASSUME NEW t, NEW u, NEW v, Quiet(t, u), Quiet(u, v)
    PROVE  Quiet(t, v)
BY DEF Quiet, SameSeat

\* A table whose hand has the same players has not changed its seats.
LEMMA SameStatusQuiet ==
    ASSUME NEW t \in TableType, NEW h, h.status = t.hand.status
    PROVE  Quiet(t, WithHand(t, h))
BY WithHandQuiet

\* The operations that mark or fold a player are quiet.
LEMMA MarksAreQuiet ==
    ASSUME NEW t \in TableType, NEW s \in Seats
    PROVE  /\ Quiet(t, Acts(t, s))
           /\ Quiet(t, Discarded(t, s))
           /\ InHand(t, s) => Quiet(t, Fold(t, s))
<1> DEFINE h == t.hand
<1>1. h \in HandType BY HandIsTyped
<1>2. Quiet(t, Acts(t, s))
  <2> DEFINE g == [h EXCEPT !.acted = Put(@, s, TRUE)]
  <2>1. g.status = h.status BY <1>1 DEF HandType
  <2>2. Acts(t, s) = WithHand(t, g) BY DEF Acts
  <2> QED BY <2>1, <2>2, SameStatusQuiet
<1>3. Quiet(t, Discarded(t, s))
  <2> DEFINE g == [h EXCEPT !.cards = Put(@, s, @[s] - 1), !.pending = @ \ {s}]
  <2>1. g.status = h.status BY <1>1 DEF HandType
  <2>2. Discarded(t, s) = WithHand(t, g) BY DEF Discarded
  <2> QED BY <2>1, <2>2, SameStatusQuiet
<1>4. ASSUME InHand(t, s) PROVE Quiet(t, Fold(t, s))
  <2> DEFINE g == [h EXCEPT !.status = Put(@, s, "folded"), !.acted = Put(@, s, TRUE)]
  <2>1. g.status = Put(h.status, s, "folded") BY <1>1 DEF HandType
  <2>2. Fold(t, s) = WithHand(t, g) BY DEF Fold
  <2> HIDE DEF g
  <2>3. \A r \in Seats : g.status[r] = "none" <=> h.status[r] = "none"
    BY <1>1, <1>4, <2>1 DEF HandType, Put, InHand
  <2> QED BY <2>2, <2>3, WithHandQuiet
<1> QED BY <1>2, <1>3, <1>4

\* So are those that pass the turn or open the betting or the discard of a street.
LEMMA TurnsAreQuiet ==
    ASSUME NEW t \in TableType
    PROVE  /\ Quiet(t, Queue(t))
           /\ Quiet(t, PassTurn(t))
           /\ Quiet(t, OpenDiscard(t))
           /\ \A street \in Streets : Quiet(t, OpenBetting(t, street))
<1> DEFINE h == t.hand
<1>1. h \in HandType BY HandIsTyped
<1>2. Quiet(t, t) BY DEF Quiet, SameSeat
<1>3. Quiet(t, Queue(t))
  <2> DEFINE g == [h EXCEPT !.waiting = TRUE, !.turn = NoSeat, !.clock = FALSE]
  <2>1. g.status = h.status BY <1>1 DEF HandType
  <2>2. Queue(t) = t \/ Queue(t) = WithHand(t, g) BY DEF Queue
  <2> QED BY <1>2, <2>1, <2>2, SameStatusQuiet
<1>4. Quiet(t, PassTurn(t))
  <2> DEFINE g == [h EXCEPT !.turn = NextToAct(h), !.clock = TRUE]
  <2>1. g.status = h.status BY <1>1 DEF HandType
  <2>2. PassTurn(t) = WithHand(t, g) BY DEF PassTurn
  <2> QED BY <2>1, <2>2, SameStatusQuiet
<1>5. Quiet(t, OpenDiscard(t))
  <2> DEFINE owing == {r \in Contenders(h) : h.cards[r] > KeptCards}
             absent == {r \in owing : t.sittingOut[r]}
             g == [h EXCEPT !.phase = "discard", !.clock = FALSE,
                            !.cards = [r \in Seats |-> IF r \in absent THEN @[r] - 1 ELSE @[r]],
                            !.pending = owing \ absent, !.discardClock = TRUE]
  <2>1. g.status = h.status BY <1>1 DEF HandType
  <2>2. OpenDiscard(t) = WithHand(t, g) BY DEF OpenDiscard
  <2> QED BY <2>1, <2>2, SameStatusQuiet
<1>6. ASSUME NEW street \in Streets PROVE Quiet(t, OpenBetting(t, street))
  <2> DEFINE none == [r \in Seats |-> 0]
             acted == [r \in Seats |-> h.status[r] # "active"]
             k == [h EXCEPT !.street = street, !.phase = "betting",
                            !.currentBet = 0, !.minRaise = BigBlind, !.raises = 0,
                            !.waiting = FALSE, !.clock = TRUE, !.bet = none, !.acted = acted]
             g == [k EXCEPT !.turn = SeatAfterButton(k)]
  <2>1. OpenBetting(t, street) = WithHand(t, g) BY DEF OpenBetting
  <2>2. none \in [Seats -> Nat] /\ acted \in [Seats -> BOOLEAN] OBVIOUS
  <2> HIDE DEF none, acted
  <2>3. k \in HandType /\ k.status = h.status
    BY <1>1, <2>2, BigBlindIsMinRaise DEF HandType, Phases
  <2> HIDE DEF k
  <2>4. g.status = h.status BY <2>3 DEF HandType
  <2> QED BY <2>1, <2>4, SameStatusQuiet
<1> QED BY <1>3, <1>4, <1>5, <1>6

\* An accepted action moves only chips of the players.
LEMMA MoveQuiet ==
    ASSUME NEW t \in TableType, NEW s \in Seats, NEW action \in Actions,
           BetsAreCommitted(t.hand), Accepts(t.hand, s, action)
    PROVE  Quiet(t, Move(t, s, action))
<1> DEFINE h == t.hand
           target == IF action.type = "allIn" THEN AllInTotal(h, s, action.amount)
                     ELSE action.amount
<1>1. h \in HandType /\ InHand(t, s) BY HandIsTyped DEF Accepts, OnTurn, InHand
<1>2. h.bet[s] \in Nat /\ h.stack[s] \in Nat /\ h.currentBet \in Nat /\ ToCall(h, s) \in Int
  BY <1>1 DEF HandType, ToCall
<1>3. /\ action.type \in {"fold", "check", "call", "allIn", "bet", "raise"}
      /\ action.type \in {"bet", "raise"} => action.amount \in Nat
      /\ action.amount \in Nat \cup {NoAmount}
  BY ActionsAreNamed
<1>4. ASSUME NEW amount \in Int, 0 <= h.bet[s] + amount
      PROVE  Quiet(t, Acts(CommitBet(t, s, amount), s))
  <2> DEFINE u == CommitBet(t, s, amount)
  <2>1. Quiet(t, u) BY <1>1, CommitBetQuiet
  <2>2. u \in TableType BY <1>4, CommitBetKeeps DEF Keeps
  <2> HIDE DEF u
  <2>3. Quiet(u, Acts(u, s)) BY <2>2, MarksAreQuiet
  <2>4. Quiet(t, Acts(u, s)) BY <2>1, <2>3, QuietThenQuiet
  <2> QED BY <2>4 DEF u
<1>5. ASSUME NEW total \in Nat PROVE Quiet(t, PlaceRaise(t, s, total))
  <2> DEFINE raiseBy == total - h.currentBet
             full == raiseBy >= h.minRaise
             u == CommitBet(t, s, total - h.bet[s])
             acted == [r \in Seats |-> r = s \/ (IF full THEN u.hand.status[r] # "active"
                                                ELSE u.hand.acted[r])]
             g == [u.hand EXCEPT !.currentBet = total, !.raises = @ + 1,
                                 !.minRaise = IF full THEN raiseBy ELSE @, !.acted = acted]
  <2>1. Quiet(t, u) BY <1>1, CommitBetQuiet
  <2>2. total - h.bet[s] \in Int /\ 0 <= h.bet[s] + (total - h.bet[s]) BY <1>2
  <2>3. u \in TableType BY <2>2, CommitBetKeeps DEF Keeps
  <2>4. PlaceRaise(t, s, total) = WithHand(u, g) BY DEF PlaceRaise
  <2> HIDE DEF u
  <2>5. u.hand \in HandType BY <2>3, HandIsTyped
  <2> HIDE DEF full, raiseBy, acted
  <2>6. g.status = u.hand.status BY <2>5 DEF HandType
  <2> HIDE DEF g
  <2>7. Quiet(u, WithHand(u, g)) BY <2>3, <2>6, WithHandQuiet
  <2> QED BY <2>1, <2>4, <2>7, QuietThenQuiet
<1>6. CASE action.type = "fold" BY <1>1, <1>6, MarksAreQuiet DEF Move
<1>7. CASE action.type = "check" \/ (action.type = "allIn" /\ AllInIsCheck(h, s, action.amount))
  <2>1. Move(t, s, action) = Acts(t, s) BY <1>7 DEF Move, AllInIsCheck
  <2> QED BY <2>1, MarksAreQuiet
<1>8. CASE action.type = "call"
  <2>1. Move(t, s, action) = Acts(CommitBet(t, s, ToCall(h, s)), s) BY <1>8 DEF Move
  <2>2. ToCall(h, s) > 0 BY <1>8 DEF Accepts
  <2>3. 0 <= h.bet[s] + ToCall(h, s) BY <1>2, <2>2
  <2> QED BY <1>2, <1>4, <2>1, <2>3
<1>9. CASE action.type = "allIn" /\ ~AllInIsCheck(h, s, action.amount)
  <2> DEFINE all == AllInTotal(h, s, action.amount)
  <2>1. all \in Nat
    <3>1. action.amount # NoAmount => action.amount \in Nat BY <1>3
    <3> QED BY <1>2, <3>1 DEF AllInTotal, AllChips, AtMost
  <2>2. CASE all <= h.currentBet /\ ToCall(h, s) # 0
    <3>1. Move(t, s, action) = Acts(CommitBet(t, s, all - h.bet[s]), s) BY <1>9, <2>2 DEF Move
    <3> HIDE DEF all
    <3>2. all - h.bet[s] \in Int /\ 0 <= h.bet[s] + (all - h.bet[s]) BY <1>2, <2>1
    <3> QED BY <1>4, <3>1, <3>2
  <2>3. CASE ~(all <= h.currentBet /\ ToCall(h, s) # 0)
    <3>1. Move(t, s, action) = PlaceRaise(t, s, all) BY <1>9, <2>3 DEF Move
    <3> HIDE DEF all
    <3> QED BY <1>5, <2>1, <3>1
  <2> QED BY <2>2, <2>3
<1>10. CASE action.type \in {"bet", "raise"}
  <2>1. Move(t, s, action) = PlaceRaise(t, s, action.amount) BY <1>10 DEF Move
  <2> QED BY <1>3, <1>5, <1>10, <2>1
<1> QED BY <1>3, <1>6, <1>7, <1>8, <1>9, <1>10

\* An accepted action, with the settlement if it leaves one player.
LEMMA ApplyActionTold ==
    ASSUME NEW t \in TableType, NEW s \in Seats, NEW action \in Actions,
           BetsAreCommitted(t.hand), Accepts(t.hand, s, action)
    PROVE  Told(t, ApplyAction(t, s, action))
<1> DEFINE u == Move(t, s, action)
<1>1. u \in TableType /\ Quiet(t, u) BY MoveKeeps, MoveQuiet DEF Keeps
<1>2. Playing(u.hand)
  <2>1. Playing(t.hand) BY DEF Accepts, OnTurn, Playing
  <2>2. SamePoint(t.hand, u.hand) BY MoveEffect, FoldEffect
  <2> QED BY <2>1, <2>2 DEF SamePoint, Playing
<1>3. ApplyAction(t, s, action) =
         IF Alone(u.hand) THEN FinishHand(u, NoRank)
         ELSE IF RoundComplete(u.hand) THEN Queue(u) ELSE PassTurn(u)
  BY DEF ApplyAction
<1> HIDE DEF u
<1>4. Told(u, FinishHand(u, NoRank)) BY <1>1, FinishHandTold
<1>5. ASSUME NEW v \in {Queue(u), PassTurn(u)} PROVE Told(u, v)
  <2>1. SamePoint(u.hand, v.hand) BY <1>1, TurnEffect
  <2>2. Playing(v.hand) BY <1>2, <2>1 DEF SamePoint, Playing
  <2>3. Quiet(u, v) BY <1>1, TurnsAreQuiet
  <2> QED BY <2>2, <2>3, GoingOnIsQuiet
<1> QED BY <1>1, <1>3, <1>4, <1>5, QuietThenTold

\* Turning the table over to the next street.
LEMMA OpenStreetTold ==
    ASSUME NEW t \in TableType, NEW street \in Streets, NEW cards \in Nat
    PROVE  Told(t, OpenStreet(t, street, cards))
<1> DEFINE h == [t.hand EXCEPT !.board = @ + cards]
           g == [h EXCEPT !.street = street]
<1>1. t.hand \in HandType BY HandIsTyped
<1>2. h \in HandType /\ h.status = t.hand.status BY <1>1 DEF HandType
<1>3. OpenStreet(t, street, cards) =
         IF BettingLocked(h) THEN OpenDiscard(WithHand(t, g)) ELSE OpenBetting(WithHand(t, h), street)
  BY DEF OpenStreet
<1> HIDE DEF h
<1>4. g \in HandType /\ g.status = t.hand.status BY <1>2 DEF HandType
<1> HIDE DEF g
<1>5. ASSUME NEW k \in HandType, k.status = t.hand.status
      PROVE  Told(t, OpenDiscard(WithHand(t, k))) /\ Told(t, OpenBetting(WithHand(t, k), street))
  <2> DEFINE v == WithHand(t, k)
  <2>1. v \in TableType /\ Quiet(t, v) BY <1>5, WithHandEffect, WithHandQuiet
  <2> HIDE DEF v
  <2>2. Quiet(v, OpenDiscard(v)) /\ Quiet(v, OpenBetting(v, street))
    BY <2>1, TurnsAreQuiet
  <2>3. OpenDiscard(v).hand.phase = "discard" BY <2>1, OpenDiscardEffect
  <2>4. OpenBetting(v, street).hand.phase = "betting" BY <2>1, OpenBettingEffect
  <2>5. Told(t, OpenDiscard(v)) /\ Told(t, OpenBetting(v, street))
    BY <2>1, <2>2, <2>3, <2>4, GoingOnIsQuiet, QuietThenTold DEF Playing
  <2> QED BY <2>5 DEF v
<1> QED BY <1>2, <1>3, <1>4, <1>5

\* The end of a discard.
LEMMA CloseDiscardTold ==
    ASSUME NEW t \in TableType, Playing(t.hand), NEW u \in CloseDiscard(t)
    PROVE  Told(t, u)
<1> DEFINE h == [t.hand EXCEPT !.discardClock = FALSE]
           g == [h EXCEPT !.street = "showdown"]
           v == WithHand(t, h)
           over == WithHand(t, g)
<1>1. CASE u = t
  <2>1. Quiet(t, t) BY DEF Quiet, SameSeat
  <2> QED BY <1>1, <2>1, GoingOnIsQuiet
<1>2. CASE u # t
  <2>1. t.hand \in HandType BY HandIsTyped
  <2>2. /\ h \in HandType /\ h.status = t.hand.status
        /\ g \in HandType /\ g.status = t.hand.status
    BY <2>1 DEF HandType, Streets
  <2>3. /\ v \in TableType /\ Quiet(t, v)
        /\ over \in TableType /\ Quiet(t, over)
    <3> HIDE DEF h, g
    <3> QED BY <2>2, WithHandEffect, WithHandQuiet
  <2>4. \/ u = OpenStreet(v, "turn", 1)
        \/ u = OpenStreet(v, "river", 1)
        \/ \E rank \in Ranks : u = FinishHand(over, rank)
    BY <1>2 DEF CloseDiscard
  <2> HIDE DEF v, over
  <2>5. CASE \E street \in {"turn", "river"} : u = OpenStreet(v, street, 1)
    BY <2>3, <2>5, OpenStreetTold, QuietThenTold DEF Streets
  <2>6. CASE \E rank \in Ranks : u = FinishHand(over, rank)
    BY <2>3, <2>6, FinishHandTold, QuietThenTold
  <2> QED BY <2>4, <2>5, <2>6
<1> QED BY <1>1, <1>2

\* And all the discards that follow by themselves.
LEMMA RunDiscardsTold ==
    ASSUME NEW t \in TableType, Playing(t.hand), NEW u \in RunDiscards(t)
    PROVE  Told(t, u)
<1>1. PICK v \in CloseDiscard(t) : \E w \in CloseDiscard(v) : u \in CloseDiscard(w)
  BY DEF RunDiscards
<1>2. PICK w \in CloseDiscard(v) : u \in CloseDiscard(w) BY <1>1
<1>3. ASSUME NEW x \in TableType, Told(t, x), NEW y \in CloseDiscard(x)
      PROVE  y \in TableType /\ Told(t, y)
  <2>1. y \in TableType BY <1>3, CloseDiscardKeeps DEF Keeps
  <2>2. CASE Playing(x.hand) BY <1>3, <2>1, <2>2, CloseDiscardTold, ToldThenTold
  <2>3. CASE ~Playing(x.hand)
    <3>1. y = x BY <1>3, <2>3 DEF CloseDiscard, Playing
    <3> QED BY <1>3, <3>1
  <2> QED BY <2>1, <2>2, <2>3
<1>4. v \in TableType /\ Told(t, v) BY CloseDiscardKeeps, CloseDiscardTold DEF Keeps
<1>5. w \in TableType /\ Told(t, w) BY <1>2, <1>3, <1>4
<1> QED BY <1>2, <1>3, <1>5

\* The pause after a betting round is over.
LEMMA AdvancePendingPhaseTold ==
    ASSUME NEW t \in TableType, Playing(t.hand), NEW u \in AdvancePendingPhase(t)
    PROVE  Told(t, u)
<1> DEFINE h == [t.hand EXCEPT !.waiting = FALSE]
           g == [h EXCEPT !.clock = FALSE]
           v == WithHand(t, g)
           w == WithHand(t, h)
<1>1. t.hand \in HandType BY HandIsTyped
<1>2. /\ h \in HandType /\ h.status = t.hand.status /\ h.phase = t.hand.phase
      /\ g \in HandType /\ g.status = t.hand.status /\ g.phase = t.hand.phase
  BY <1>1 DEF HandType
<1>3. /\ h.phase # "betting" /\ u = w
      \/ u \in RunDiscards(OpenStreet(v, "flop", 3))
      \/ u \in RunDiscards(OpenDiscard(v))
  BY DEF AdvancePendingPhase
<1> HIDE DEF h, g
<1>4. /\ v \in TableType /\ Quiet(t, v) /\ Playing(v.hand)
      /\ w \in TableType /\ Quiet(t, w) /\ Playing(w.hand)
  BY <1>2, WithHandEffect, WithHandQuiet DEF Playing
<1> HIDE DEF v, w
<1>5. ASSUME NEW x \in TableType, Told(v, x), Playing(x.hand), u \in RunDiscards(x)
      PROVE  Told(t, u)
  <2>1. Told(x, u) BY <1>5, RunDiscardsTold
  <2> QED BY <1>4, <1>5, <2>1, ToldThenTold, QuietThenTold
<1>6. CASE u = w BY <1>4, <1>6, GoingOnIsQuiet
<1>7. CASE u \in RunDiscards(OpenStreet(v, "flop", 3))
  <2> DEFINE x == OpenStreet(v, "flop", 3)
  <2>1. Told(v, x) BY <1>4, OpenStreetTold DEF Streets
  <2>2. x \in TableType BY <1>4, OpenStreetKeeps DEF Keeps, Streets
  <2> HIDE DEF x
  <2>3. Playing(x.hand) \/ RunDiscards(x) = {x}
    <3>1. ~Playing(x.hand) => CloseDiscard(x) = {x} BY DEF CloseDiscard, Playing
    <3> QED BY <3>1 DEF RunDiscards
  <2>4. CASE Playing(x.hand) BY <1>5, <1>7, <2>1, <2>2, <2>4 DEF x
  <2>5. CASE RunDiscards(x) = {x} BY <1>4, <1>7, <2>1, <2>5, QuietThenTold DEF x
  <2> QED BY <2>3, <2>4, <2>5
<1>8. CASE u \in RunDiscards(OpenDiscard(v))
  <2> DEFINE x == OpenDiscard(v)
  <2>1. x \in TableType /\ Playing(x.hand) BY <1>4, OpenDiscardKeeps DEF Keeps
  <2>2. Quiet(v, x) BY <1>4, TurnsAreQuiet
  <2> HIDE DEF x
  <2>3. Told(v, x) BY <2>1, <2>2, GoingOnIsQuiet
  <2> QED BY <1>5, <1>8, <2>1, <2>3 DEF x
<1> QED BY <1>3, <1>6, <1>7, <1>8

\* A card is given.
LEMMA ApplyDiscardTold ==
    ASSUME NEW t \in TableType, NEW s \in Seats, Playing(t.hand), NEW u \in ApplyDiscard(t, s)
    PROVE  Told(t, u)
<1> DEFINE v == Discarded(t, s)
<1>1. v \in TableType BY DiscardedKeeps DEF Keeps
<1>2. Quiet(t, v) BY MarksAreQuiet
<1>3. Playing(v.hand) BY DiscardedEffect DEF Playing
<1>4. u \in RunDiscards(v) BY DEF ApplyDiscard
<1> HIDE DEF v
<1> QED BY <1>1, <1>2, <1>3, <1>4, RunDiscardsTold, QuietThenTold

\* The time for a discard runs out.
LEMMA AutoDiscardTold ==
    ASSUME NEW t \in TableType, Playing(t.hand), NEW u \in AutoDiscard(t)
    PROVE  Told(t, u)
<1> DEFINE h == t.hand
           cards == [s \in Seats |-> IF s \in h.pending THEN h.cards[s] - 1 ELSE h.cards[s]]
           given == [h EXCEPT !.cards = cards, !.pending = {}]
           v == WithHand(t, given)
<1>1. h \in HandType BY HandIsTyped
<1>2. cards \in [Seats -> Int] BY <1>1, CardsType
<1> HIDE DEF cards
<1>3. given \in HandType /\ given.status = h.status /\ given.phase = h.phase
  BY <1>1, <1>2 DEF HandType
<1>4. u \in RunDiscards(v) BY DEF AutoDiscard, cards
<1> HIDE DEF given
<1>5. v \in TableType /\ Quiet(t, v) /\ Playing(v.hand)
  BY <1>3, WithHandEffect, WithHandQuiet DEF Playing
<1> HIDE DEF v
<1> QED BY <1>4, <1>5, RunDiscardsTold, QuietThenTold

-----------------------------------------------------------------------------
(* Lost players.                                                            *)

Sound(t, gone) == Honest(t, gone) /\ Counted(t)

\* Only the seat of a player who is gone changes.
LEMMA SeatGoneIsSound ==
    ASSUME NEW t, NEW u, NEW gone, NEW s, Sound(t, gone), u.hand = t.hand,
           \A r \in Seats \ {s} : SameSeat(t, u, r),
           \A r \in Seats : u.seatStack[r] = t.seatStack[r]
    PROVE  Sound(u, gone \cup {s})
BY DEF Sound, Honest, Counted, InHand, Truth, SameSeat

\* Told operations keep a table sound.
LEMMA ToldKeepsSound ==
    ASSUME NEW t, NEW u, NEW gone, Playing(t.hand), Sound(t, gone), Told(t, u)
    PROVE  Sound(u, gone)
BY ToldKeepsHonest DEF Sound, Told

\* handleDisconnect folds the player, even in a hand that has just been settled.
LEMMA FoldsAwaySound ==
    ASSUME NEW t \in TableType, NEW s \in Seats, NEW gone, Sound(t, gone)
    PROVE  Sound(FoldsAway(t, s), gone)
<1> DEFINE v == Fold(t, s)
           u == FoldsAway(t, s)
<1>1. CASE t.hand.status[s] # "active"
  <2>1. u = t BY <1>1 DEF FoldsAway
  <2> QED BY <2>1
<1>2. CASE t.hand.status[s] = "active"
  <2>1. v \in TableType BY <1>2, FoldKeeps DEF Keeps
  <2>2. Quiet(t, v) BY <1>2, MarksAreQuiet DEF InHand
  <2>3. /\ v.hand.phase = t.hand.phase /\ v.seatStack = t.seatStack
        /\ v.hand.status = Put(t.hand.status, s, "folded")
    BY FoldEffect DEF SamePoint
  <2>4. \/ u = FinishHand(v, NoRank)
        \/ u = v
        \/ v.hand.phase = "betting" /\ u \in {Queue(v), PassTurn(v)}
    BY <1>2 DEF FoldsAway
  <2> HIDE DEF v, u
  <2>5. CASE Playing(t.hand)
    <3>1. Told(v, FinishHand(v, NoRank)) BY <2>1, FinishHandTold
    <3>2. Quiet(v, v) /\ Quiet(v, Queue(v)) /\ Quiet(v, PassTurn(v))
      BY <2>1, TurnsAreQuiet DEF Quiet, SameSeat
    <3>3. u \in {Queue(v), PassTurn(v)} => u.hand.phase = v.hand.phase
      BY <2>1, TurnEffect DEF SamePoint
    <3>4. Playing(u.hand) /\ Quiet(v, u) => Told(v, u) BY GoingOnIsQuiet
    <3>5. Told(v, u) BY <2>3, <2>4, <2>5, <3>1, <3>2, <3>3, <3>4 DEF Playing
    <3>6. Told(t, u) BY <2>2, <3>5, QuietThenTold
    <3> QED BY <2>5, <3>6, ToldKeepsSound DEF u
  <2>6. CASE ~Playing(t.hand)
    <3>1. ~Playing(v.hand) BY <2>3, <2>6 DEF Playing
    <3>2. \A r \in Seats : v.hand.status[r] = IF r = s THEN "folded" ELSE t.hand.status[r]
      BY <2>3, HandIsTyped DEF Put, HandType
    <3>3. t.seatStack[s] # 0 BY <1>2, <2>6 DEF Sound, Counted, InHand
    <3>4. Counted(v)
      <4> SUFFICES ASSUME NEW r \in Seats, InHand(v, r), v.seatStack[r] = 0
                   PROVE  v.hand.status[r] = "busted"
        BY DEF Counted
      <4>1. r # s BY <2>3, <3>3
      <4>2. InHand(t, r) /\ t.seatStack[r] = 0 BY <2>3, <3>2, <4>1 DEF InHand
      <4> QED BY <2>6, <3>2, <4>1, <4>2 DEF Sound, Counted
    <3>5. Honest(v, gone)
      BY <2>2, <2>3, <2>6, <3>1 DEF Honest, Sound, Quiet, SameSeat, Truth
    <3>6. CASE u = FinishHand(v, NoRank)
      <4>1. Honest(u, gone) BY <2>1, <3>1, <3>4, <3>5, <3>6, SettledAgain
      <4>2. Counted(u) BY <2>1, <3>6, FinishHandTold DEF Told
      <4> QED BY <4>1, <4>2 DEF Sound, u
    <3>7. CASE u = v BY <3>4, <3>5, <3>7 DEF Sound, u
    <3> QED BY <2>4, <3>1, <3>6, <3>7 DEF Playing
  <2> QED BY <2>5, <2>6
<1> QED BY <1>1, <1>2

\* Whatever the host makes of a lost player, only his own seat may be wrong.
LEMMA LosesPlayerSound ==
    ASSUME NEW t \in TableType, NEW s \in Seats, NEW gone, Sound(t, gone),
           NEW u \in LosesPlayer(t, s),
           \A r \in Seats : Playing(t.hand) /\ t.hand.status[r] # "none" =>
               t.seatStatus[r] # "empty"
    PROVE  Sound(u, gone \cup {s})
<1> DEFINE out == SetSittingOut(t, s, TRUE)
           more == gone \cup {s}
<1>1. out \in TableType /\ out.hand = t.hand BY SetSittingOutKeeps DEF Keeps
<1>2. Sound(out, more)
  <2>1. /\ \A r \in Seats \ {s} : SameSeat(t, out, r)
        /\ \A r \in Seats : out.seatStack[r] = t.seatStack[r]
    BY DEF SetSittingOut, TableType, SameSeat
  <2> HIDE DEF out
  <2> QED BY <1>1, <2>1, SeatGoneIsSound
<1>3. CASE u = out BY <1>2, <1>3
<1>4. CASE u \in HandleDisconnect(t, s)
  <2>1. PICK v : /\ u = FoldsAway(v, s)
                 /\ \/ v = out
                    \/ t.hand.phase = "discard" /\ v \in ApplyDiscard(out, s)
    BY <1>4 DEF HandleDisconnect, ApplyDiscard
  <2> HIDE DEF out, more
  <2>2. v \in TableType /\ Sound(v, more)
    <3>1. CASE v = out BY <1>1, <1>2, <3>1
    <3>2. CASE t.hand.phase = "discard" /\ v \in ApplyDiscard(out, s)
      <4>1. Playing(out.hand) BY <1>1, <3>2 DEF Playing
      <4>2. Told(out, v) BY <1>1, <3>2, <4>1, ApplyDiscardTold
      <4>3. Sound(v, more) BY <1>2, <4>1, <4>2, ToldKeepsSound
      <4>4. v \in TableType BY <1>1, <3>2, ApplyDiscardKeeps DEF Keeps
      <4> QED BY <4>3, <4>4
    <3> QED BY <2>1, <3>1, <3>2
  <2>3. Sound(FoldsAway(v, s), more) BY <2>2, FoldsAwaySound
  <2> QED BY <2>1, <2>3 DEF more
<1> QED BY <1>3, <1>4 DEF LosesPlayer

-----------------------------------------------------------------------------
(* The next hand.                                                           *)

\* From t to u nothing happens to the seats, or a hand is dealt to seats that are ready.
Proceeds(t, u) ==
    /\ \A s \in Seats : SameSeat(t, u, s)
    /\ \/ u.hand = t.hand /\ u.seatStack = t.seatStack
       \/ /\ ~Playing(t.hand) /\ Playing(u.hand)
          /\ \A s \in Seats : /\ InHand(u, s) => s \in Ready(t)
                              /\ ~InHand(u, s) => u.seatStack[s] = t.seatStack[s]

\* Who is dealt in is there, and who is not keeps what the seat says.
LEMMA ProceedsSound ==
    ASSUME NEW t, NEW u, NEW gone, Sound(t, gone), Proceeds(t, u)
    PROVE  Sound(u, gone)
<1>1. CASE u.hand = t.hand /\ u.seatStack = t.seatStack
  BY <1>1 DEF Proceeds, Sound, Honest, Counted, InHand, Truth, SameSeat
<1>2. CASE /\ ~Playing(t.hand) /\ Playing(u.hand)
           /\ \A s \in Seats : /\ InHand(u, s) => s \in Ready(t)
                               /\ ~InHand(u, s) => u.seatStack[s] = t.seatStack[s]
  <2>1. Counted(u) BY <1>2 DEF Counted
  <2>2. ASSUME NEW s \in Seats \ gone, InHand(u, s)
        PROVE  u.seatStatus[s] = "active" /\ ~u.sittingOut[s]
    BY <1>2, <2>2 DEF Proceeds, SameSeat, Ready
  <2>3. ASSUME NEW s \in Seats \ gone, ~InHand(u, s) PROVE Truth(u, s)
    BY <1>2, <2>3 DEF Proceeds, SameSeat, Sound, Honest, Truth
  <2> QED BY <1>2, <2>1, <2>2, <2>3 DEF Sound, Honest
<1> QED BY <1>1, <1>2 DEF Proceeds

\* A hand is dealt to the seats that are ready, and the blinds come from them.
LEMMA StartHandProceeds ==
    ASSUME NEW t \in TableType, ~Playing(t.hand), ~(Cardinality(Ready(t)) < MinPlayers)
    PROVE  Proceeds(t, StartHand(t)) /\ Playing(StartHand(t).hand)
<1> DEFINE in == Ready(t)
           headsUp == Cardinality(in) = 2
           button == FirstAfter(t.button, in)
           sb == IF headsUp THEN button ELSE FirstAfter(button, in)
           bb == FirstAfter(sb, in)
           d == Deal(t, in, button)
           v == CommitBet(d, sb, SmallBlind)
           w == CommitBet(v, bb, BigBlind)
           k == [w.hand EXCEPT !.currentBet = AtMost(BigBlind, w.hand.bet[bb])]
           p == WithHand(w, k)
           first == IF headsUp \/ Active(p.hand) = {} THEN button
                    ELSE FirstAfter(bb, Active(p.hand))
           g == [p.hand EXCEPT !.turn = first]
           u == WithHand(p, g)
           Begun(x) == \A s \in Seats : /\ SameSeat(t, x, s)
                                        /\ InHand(x, s) <=> s \in in
                                        /\ s \notin in => x.seatStack[s] = t.seatStack[s]
<1>1. StartHand(t) = u BY DEF StartHand, PostBlinds
<1>2. Playing(StartHand(t).hand) BY StartHandEffect DEF Opening, Playing
<1>3. in \in SUBSET Seats /\ \A s \in in : t.seatStatus[s] # "empty" BY DEF Ready
<1>4. in # {} BY FS_EmptySet DEF MinPlayers
<1>5. t.button \in Seats \cup {NoSeat} BY DEF TableType
<1> HIDE DEF in, headsUp
<1>6. button \in in /\ button \in Seats BY <1>3, <1>4, <1>5, FirstAfterIsOne
<1> HIDE DEF button
<1>7. sb \in in /\ sb \in Seats BY <1>3, <1>4, <1>6, FirstAfterIsOne
<1> HIDE DEF sb
<1>8. bb \in in /\ bb \in Seats BY <1>3, <1>4, <1>7, FirstAfterIsOne
<1> HIDE DEF bb
<1>9. d \in TableType /\ Playing(d.hand) /\ Fresh(d) /\ BetsAreCommitted(d.hand)
  BY <1>3, <1>6, DealFollows
<1>10. Begun(d)
  <2> DEFINE status == [s \in Seats |-> IF s \in in THEN "active" ELSE "none"]
             stack == [s \in Seats |-> IF s \in in THEN t.seatStack[s] ELSE 0]
             cards == [s \in Seats |-> IF s \in in THEN HoleCards ELSE 0]
             h == [NullHand EXCEPT !.phase = "betting", !.button = button, !.status = status,
                                   !.stack = stack, !.cards = cards, !.clock = TRUE]
             dealt == [t EXCEPT !.gateOpen = FALSE, !.gateReady = {}, !.button = button, !.hand = h]
  <2>1. d = dealt BY DEF Deal, NewHand
  <2>2. \A s \in Seats : status[s] # "none" <=> s \in in OBVIOUS
  <2> HIDE DEF status, stack, cards
  <2>3. h.status = status BY DEF NullHand
  <2> HIDE DEF h
  <2>4. /\ dealt.hand = h /\ dealt.seatStatus = t.seatStatus
        /\ dealt.sittingOut = t.sittingOut /\ dealt.seatStack = t.seatStack
    BY DEF TableType
  <2> QED BY <2>1, <2>2, <2>3, <2>4 DEF SameSeat, InHand
<1> HIDE DEF d
<1>11. ASSUME NEW x \in TableType, NEW s \in Seats, s \in in, NEW amount, Begun(x)
       PROVE  Begun(CommitBet(x, s, amount))
  <2>1. InHand(x, s) BY <1>11
  <2>2. Quiet(x, CommitBet(x, s, amount)) BY <1>11, <2>1, CommitBetQuiet
  <2> QED BY <1>11, <2>2 DEF Quiet, SameSeat
<1>12. v \in TableType /\ Playing(v.hand) /\ Fresh(v) /\ BetsAreCommitted(v.hand)
  BY <1>7, <1>9, BlindsAssumption, CommitBetFresh
<1>13. Begun(v)
  <2> HIDE DEF Begun
  <2> QED BY <1>7, <1>9, <1>10, <1>11
<1> HIDE DEF v
<1>14. w \in TableType BY <1>8, <1>12, BlindsAssumption, CommitBetFresh
<1>15. Begun(w)
  <2> HIDE DEF Begun
  <2> QED BY <1>8, <1>11, <1>12, <1>13
<1> HIDE DEF w
<1>16. k.status = w.hand.status BY <1>14, HandIsTyped DEF HandType
<1>17. k \in HandType
  <2>1. w.hand \in HandType BY <1>14, HandIsTyped
  <2>2. w.hand.bet[bb] \in Nat BY <1>8, <2>1 DEF HandType
  <2>3. AtMost(BigBlind, w.hand.bet[bb]) \in Nat BY <2>2, BlindsAssumption DEF AtMost
  <2> QED BY <2>1, <2>3 DEF HandType
<1> HIDE DEF k
<1>18. p \in TableType /\ p.hand = k /\ Quiet(w, p)
  BY <1>14, <1>16, <1>17, WithHandEffect, SameStatusQuiet
<1> HIDE DEF p, first
<1>19. g.status = p.hand.status BY <1>17, <1>18 DEF HandType
<1> HIDE DEF g
<1>20. Quiet(p, u) BY <1>18, <1>19, SameStatusQuiet
<1>21. Quiet(w, u) BY <1>18, <1>20, QuietThenQuiet
<1> HIDE DEF u
<1>22. Begun(u) BY <1>15, <1>21 DEF Quiet, SameSeat
<1> QED BY <1>1, <1>2, <1>22 DEF Proceeds, in

\* The gate changes no seat.
LEMMA EnsureStartGateSeats ==
    ASSUME NEW t \in TableType
    PROVE  LET g == EnsureStartGate(t)
           IN  /\ g \in TableType /\ g.hand = t.hand
               /\ g.seatStatus = t.seatStatus /\ g.sittingOut = t.sittingOut
               /\ g.seatStack = t.seatStack /\ Ready(g) = Ready(t)
               /\ g.gateReady \subseteq t.gateReady
<1>1. EnsureStartGate(t) \in TableType /\ EnsureStartGate(t).hand = t.hand
  BY EnsureStartGateEffect
<1>2. LET g == EnsureStartGate(t)
      IN  /\ g.seatStatus = t.seatStatus /\ g.sittingOut = t.sittingOut
          /\ g.seatStack = t.seatStack /\ g.gateReady \subseteq t.gateReady
  BY DEF EnsureStartGate, CloseGate, TableType
<1> QED BY <1>1, <1>2 DEF Ready

\* advanceStartGate deals only when the gate is open.
LEMMA AdvanceStartGateProceeds ==
    ASSUME NEW t \in TableType, NEW elapsed \in BOOLEAN
    PROVE  Proceeds(t, AdvanceStartGate(t, elapsed))
<1> DEFINE g == EnsureStartGate(t)
           u == AdvanceStartGate(t, elapsed)
<1>1. /\ g \in TableType /\ g.hand = t.hand
      /\ g.seatStatus = t.seatStatus /\ g.sittingOut = t.sittingOut
      /\ g.seatStack = t.seatStack /\ Ready(g) = Ready(t)
  BY EnsureStartGateSeats
<1>2. CASE u = g BY <1>1, <1>2 DEF Proceeds, SameSeat
<1>3. CASE u # g
  <2>1. u = StartHand(g) /\ g.gateOpen BY <1>3 DEF AdvanceStartGate
  <2>2. NoHand(t) /\ ~(Cardinality(Ready(g)) < MinPlayers)
    BY <2>1, EnsureStartGateKeeps
  <2> HIDE DEF g, u
  <2>3. ~Playing(g.hand) BY <1>1, <2>2 DEF NoHand, Playing
  <2>4. Proceeds(g, u) /\ Playing(u.hand) BY <1>1, <2>1, <2>2, <2>3, StartHandProceeds
  <2>5. Proceeds(t, u) BY <1>1, <2>3, <2>4 DEF Proceeds, SameSeat
  <2> QED BY <2>5 DEF u
<1> QED BY <1>2, <1>3

\* beginNextHandIfReady opens the gate, deals or does nothing.
LEMMA BeginNextHandProceeds ==
    ASSUME NEW t \in TableType
    PROVE  Proceeds(t, BeginNextHandIfReady(t))
<1> DEFINE u == BeginNextHandIfReady(t)
<1>1. CASE u = t BY <1>1 DEF Proceeds, SameSeat
<1>2. CASE u = EnsureStartGate(t) BY <1>2, EnsureStartGateSeats DEF Proceeds, SameSeat
<1>3. CASE u # t /\ u # EnsureStartGate(t)
  <2>1. u = StartHand(t) /\ NoHand(t) /\ Cardinality(Ready(t)) >= MinPlayers
    BY <1>3 DEF BeginNextHandIfReady
  <2>2. ~(Cardinality(Ready(t)) < MinPlayers)
    <3>1. IsFiniteSet(Ready(t))
      <4>1. Ready(t) \in SUBSET Seats BY DEF Ready
      <4> QED BY <4>1, SeatsFinite, FS_Subset
    <3>2. Cardinality(Ready(t)) \in Nat BY <3>1, FS_CardinalityType
    <3> QED BY <2>1, <3>2 DEF MinPlayers
  <2> HIDE DEF u
  <2>3. ~Playing(t.hand) BY <2>1 DEF NoHand, Playing
  <2>4. Proceeds(t, u) BY <2>1, <2>2, <2>3, StartHandProceeds
  <2> QED BY <2>4 DEF u
<1> QED BY <1>1, <1>2, <1>3

-----------------------------------------------------------------------------
(* The theorems.                                                            *)

HonestInv == IInv /\ Sound(table, away)

\* Between hands all that counts is that the seats tell the truth.
LEMMA SoundIsHonest == HonestInv => SeatsAreHonest
<1> SUFFICES ASSUME HonestInv, BetweenHands(table), NEW s \in Seats \ away
             PROVE  Truth(table, s)
  BY DEF SeatsAreHonest, Truth
<1>1. ~Playing(table.hand) BY DEF BetweenHands, InPlay, Playing
<1> QED BY <1>1 DEF HonestInv, Sound, Honest

\* A step to one of `R`, all of which are sound, leads to a sound table.
LEMMA BecomesSound ==
    ASSUME NEW R, NEW gone, BecomesOneOf(R), \A u \in R : Sound(u, gone), away' = gone
    PROVE  Sound(table, away)'
<1>1. PICK u \in R : table' = u BY DEF BecomesOneOf
<1> QED BY <1>1 DEF Sound, Honest, Counted, InHand, Truth, Playing

\* A seat that comes to tell the truth makes the table no less sound.
LEMMA SeatToldIsSound ==
    ASSUME NEW t, NEW u, NEW gone, NEW s \in Seats, Sound(t, gone), u.hand = t.hand,
           \A r \in Seats \ {s} : SameSeat(t, u, r) /\ u.seatStack[r] = t.seatStack[r],
           IF Playing(t.hand) /\ InHand(t, s)
           THEN u.seatStatus[s] = "active" /\ ~u.sittingOut[s]
           ELSE /\ Truth(u, s)
                /\ InHand(t, s) /\ u.seatStack[s] = 0 => t.seatStack[s] = 0
    PROVE  Sound(u, gone \ {s}) /\ Sound(u, gone)
BY DEF Sound, Honest, Counted, InHand, Truth, SameSeat

\* Each action leaves the seats honest.
LEMMA NextSound == HonestInv /\ [Next]_vars => Sound(table, away)'
<1> SUFFICES ASSUME HonestInv, [Next]_vars PROVE Sound(table, away)' OBVIOUS
<1>1. /\ table \in TableType /\ BetsAreCommitted(table.hand)
      /\ \A r \in Seats : Playing(table.hand) /\ table.hand.status[r] # "none" =>
            table.seatStatus[r] # "empty"
      /\ Sound(table, away)
  BY DEF HonestInv, IInv, TableInv, PlayersSeated, Hand
<1>2. ASSUME NEW u \in TableType, NEW gone, Sound(u, gone), away' = gone,
             Becomes(BeginNextHandIfReady(u))
      PROVE  Sound(table, away)'
  <2>1. Sound(BeginNextHandIfReady(u), gone) BY <1>2, BeginNextHandProceeds, ProceedsSound
  <2> QED BY <1>2, <2>1, BecomesSound DEF Becomes
<1>3. ASSUME NEW u, Playing(table.hand), Told(table, u), Becomes(u), UNCHANGED away
      PROVE  Sound(table, away)'
  <2>1. Sound(u, away) BY <1>1, <1>3, ToldKeepsSound
  <2> QED BY <1>3, <2>1, BecomesSound DEF Becomes
<1>4. ASSUME NEW s \in Seats, NEW stack \in BuyIns, Join(s, stack) PROVE Sound(table, away)'
  <2> DEFINE u == SeatPlayer(table, s, stack)
  <2>1. stack \in Nat /\ stack > 0 BY StacksAssumption
  <2>2. /\ u \in TableType /\ u.hand = table.hand
        /\ u.seatStatus[s] = "active" /\ u.seatStack[s] = stack /\ ~u.sittingOut[s]
        /\ \A r \in Seats \ {s} : SameSeat(table, u, r) /\ u.seatStack[r] = table.seatStack[r]
    <3>1. u \in TableType /\ u.hand = table.hand
      BY <1>1, <2>1 DEF SeatPlayer, TableType, SeatStatuses
    <3>2. u.seatStatus[s] = "active" /\ u.seatStack[s] = stack
      BY <1>1, <2>1 DEF SeatPlayer, TableType
    <3>3. ~u.sittingOut[s]
      <4>1. (stack = 0) = FALSE BY <2>1
      <4>2. u.sittingOut[s] = (stack = 0) BY <1>1 DEF SeatPlayer, TableType
      <4> QED BY <4>1, <4>2
    <3>4. \A r \in Seats \ {s} : SameSeat(table, u, r) /\ u.seatStack[r] = table.seatStack[r]
      BY <1>1 DEF SeatPlayer, TableType, SameSeat
    <3> QED BY <3>1, <3>2, <3>3, <3>4
  <2> HIDE DEF u
  <2>3. Truth(u, s) /\ u.seatStack[s] # 0 BY <2>1, <2>2 DEF Truth
  <2>4. Sound(u, away) BY <1>1, <2>2, <2>3, SeatToldIsSound
  <2> QED BY <1>2, <1>4, <2>2, <2>4 DEF Join, u
<1>5. ASSUME NEW s \in Seats, NEW action \in Actions, Act(s, action) PROVE Sound(table, away)'
  <2>1. Accepts(table.hand, s, action) BY <1>5 DEF Act, Hand
  <2>2. Playing(table.hand) BY <2>1 DEF Accepts, OnTurn, Playing
  <2>3. Told(table, ApplyAction(table, s, action)) BY <1>1, <2>1, ApplyActionTold
  <2> QED BY <1>3, <1>5, <2>2, <2>3 DEF Act
<1>6. ASSUME NEW s \in Seats, Discard(s) PROVE Sound(table, away)'
  <2>1. Playing(table.hand) BY <1>6 DEF Discard, Hand, Playing
  <2>2. \A u \in ApplyDiscard(table, s) : Sound(u, away)
    BY <1>1, <2>1, ApplyDiscardTold, ToldKeepsSound
  <2> QED BY <1>6, <2>2, BecomesSound DEF Discard
<1>7. ASSUME NEW s \in Seats, NEW ready \in BOOLEAN, ReadyForHand(s, ready)
      PROVE  Sound(table, away)'
  <2> DEFINE g == EnsureStartGate(table)
             u == SetReadyForHand(table, s, ready)
  <2>1. u \in TableType /\ u.hand = table.hand BY <1>1, SetReadyForHandKeeps DEF Keeps
  <2>2. /\ g \in TableType
        /\ g.seatStatus = table.seatStatus /\ g.sittingOut = table.sittingOut
        /\ g.seatStack = table.seatStack
    BY <1>1, EnsureStartGateSeats
  <2>3. /\ u.seatStatus = g.seatStatus /\ u.sittingOut = g.sittingOut
        /\ u.seatStack = g.seatStack
    <3> HIDE DEF g
    <3>1. \/ u = g
          \/ u = [g EXCEPT !.gateReady = IF ready THEN @ \cup {s} ELSE @ \ {s}]
      BY DEF SetReadyForHand, g
    <3> QED BY <2>2, <3>1 DEF TableType
  <2> HIDE DEF u, g
  <2>4. Proceeds(table, u) BY <2>1, <2>2, <2>3 DEF Proceeds, SameSeat
  <2>5. Sound(AdvanceStartGate(u, FALSE), away)
    BY <1>1, <2>1, <2>4, AdvanceStartGateProceeds, ProceedsSound
  <2> QED BY <1>7, <2>5, BecomesSound DEF ReadyForHand, Becomes, u
<1>8. ASSUME NEW s \in Seats, LeaveSeat(s) PROVE Sound(table, away)'
  <2> DEFINE u == SitOut(table, s)
  <2>1. /\ u.hand = table.hand /\ u.seatStatus[s] = "sitting_out"
        /\ \A r \in Seats : u.seatStack[r] = table.seatStack[r]
        /\ \A r \in Seats \ {s} : SameSeat(table, u, r)
    BY <1>1 DEF SitOut, TableType, SameSeat
  <2>2. ~Playing(table.hand)
    BY <1>8 DEF LeaveSeat, CanSitOut, BetweenHands, InPlay, Playing
  <2> HIDE DEF u
  <2>3. Truth(u, s) BY <2>1 DEF Truth
  <2>4. Sound(u, away) BY <1>1, <2>1, <2>2, <2>3, SeatToldIsSound
  <2> QED BY <1>8, <2>4, BecomesSound DEF LeaveSeat, Becomes, u
<1>9. ASSUME NEW s \in Seats, NEW amount \in BuyIns, BuyBackIn(s, amount)
      PROVE  Sound(table, away)'
  <2> DEFINE u == Rebuy(table, s, amount)
  <2>1. amount \in Nat /\ amount > 0 BY StacksAssumption
  <2>2. /\ u.hand = table.hand /\ u.seatStatus[s] = "active"
        /\ u.seatStack[s] = amount /\ ~u.sittingOut[s]
        /\ \A r \in Seats \ {s} : SameSeat(table, u, r) /\ u.seatStack[r] = table.seatStack[r]
    BY <1>1 DEF Rebuy, TableType, SameSeat
  <2>3. ~Playing(table.hand)
    BY <1>9 DEF BuyBackIn, CanRebuy, BetweenHands, InPlay, Playing
  <2> HIDE DEF u
  <2>4. Truth(u, s) /\ u.seatStack[s] # 0 BY <2>1, <2>2 DEF Truth
  <2>5. Sound(u, away) BY <1>1, <2>2, <2>3, <2>4, SeatToldIsSound
  <2> QED BY <1>9, <2>5, BecomesSound DEF BuyBackIn, Becomes, u
<1>10. CASE NextHand
  <2> DEFINE v == WithHand(table, NullHand)
  <2>1. /\ v \in TableType /\ v.hand = NullHand /\ v.seatStack = table.seatStack
        /\ v.sittingOut = table.sittingOut /\ v.seatStatus = table.seatStatus
    BY <1>1, NullHandType, WithHandEffect
  <2>2. AdvanceToNextHand(table) = BeginNextHandIfReady(v) BY DEF AdvanceToNextHand, WithHand
  <2>3. ~Playing(table.hand) BY <1>10 DEF NextHand, CanAdvanceToNextHand, InPlay, Playing
  <2> HIDE DEF v
  <2>4. /\ ~Playing(v.hand) /\ \A s \in Seats : ~InHand(v, s)
    BY <2>1 DEF Playing, NullHand, InHand
  <2>5. Sound(v, away) BY <1>1, <2>1, <2>3, <2>4 DEF Sound, Honest, Counted, Truth
  <2> QED BY <1>2, <1>10, <2>1, <2>2, <2>5 DEF NextHand
<1>11. ASSUME NEW s \in Seats, Disconnect(s) PROVE Sound(table, away)'
  <2>1. \A u \in LosesPlayer(table, s) : Sound(u, away \cup {s}) BY <1>1, LosesPlayerSound
  <2> QED BY <1>11, <2>1, BecomesSound DEF Disconnect
<1>12. ASSUME NEW s \in Seats, Return(s) PROVE Sound(table, away)'
  <2> DEFINE u == SetSittingOut(table, s, FALSE)
  <2>1. u \in TableType /\ u.hand = table.hand BY <1>1, SetSittingOutKeeps DEF Keeps
  <2>2. /\ \A r \in Seats \ {s} : SameSeat(table, u, r)
        /\ \A r \in Seats : u.seatStack[r] = table.seatStack[r]
    BY <1>1 DEF SetSittingOut, TableType, SameSeat
  <2>3. table.seatStack[s] \in Nat BY <1>1 DEF TableType
  <2>4. \/ /\ table.seatStack[s] = 0 /\ ~(Playing(table.hand) /\ InHand(table, s))
           /\ u.seatStatus[s] = "busted"
        \/ /\ table.seatStack[s] # 0 \/ (Playing(table.hand) /\ InHand(table, s))
           /\ u.seatStatus[s] = "active" /\ ~u.sittingOut[s]
    BY <1>1 DEF SetSittingOut, TableType, Dealt, InHand, InPlay, Playing
  <2> HIDE DEF u
  <2>5. IF Playing(table.hand) /\ InHand(table, s)
        THEN u.seatStatus[s] = "active" /\ ~u.sittingOut[s]
        ELSE Truth(u, s)
    BY <2>2, <2>3, <2>4 DEF Truth
  <2>6. Sound(u, away \ {s}) BY <1>1, <2>1, <2>2, <2>5, SeatToldIsSound
  <2> QED BY <1>2, <1>12, <2>1, <2>6 DEF Return, u
<1>13. ASSUME NEW s \in Seats, Release(s) PROVE Sound(table, away)'
  <2> DEFINE u == RemovePlayer(table, s)
  <2>1. /\ u \in TableType /\ u.hand = table.hand /\ u.seatStatus[s] = "empty"
        /\ \A r \in Seats \ {s} : SameSeat(table, u, r) /\ u.seatStack[r] = table.seatStack[r]
    BY <1>1 DEF RemovePlayer, TableType, SeatStatuses, SameSeat
  <2>2. ~InHand(table, s) BY <1>13 DEF Release, Dealt, Hand, InHand
  <2> HIDE DEF u
  <2>3. Truth(u, s) BY <2>1 DEF Truth
  <2>4. Sound(u, away \ {s}) BY <1>1, <2>1, <2>2, <2>3, SeatToldIsSound
  <2> QED BY <1>2, <1>13, <2>1, <2>4 DEF Release, u
<1>14. CASE StartCountdownEnds
  <2>1. Sound(AdvanceStartGate(table, TRUE), away)
    BY <1>1, AdvanceStartGateProceeds, ProceedsSound
  <2> QED BY <1>14, <2>1, BecomesSound DEF StartCountdownEnds, Becomes
<1>15. CASE PauseEnds
  <2>1. CASE Playing(table.hand)
    <3>1. \A u \in AdvancePendingPhase(table) : Sound(u, away)
      BY <1>1, <2>1, AdvancePendingPhaseTold, ToldKeepsSound
    <3> QED BY <1>15, <3>1, BecomesSound DEF PauseEnds
  <2>2. CASE ~Playing(table.hand)
    <3> DEFINE h == [table.hand EXCEPT !.waiting = FALSE]
               u == WithHand(table, h)
    <3>1. table.hand \in HandType BY <1>1, HandIsTyped
    <3>2. h \in HandType /\ h.phase = table.hand.phase /\ h.status = table.hand.status
      BY <3>1 DEF HandType
    <3>3. AdvancePendingPhase(table) = {u} BY <2>2, <3>2 DEF AdvancePendingPhase, Playing
    <3> HIDE DEF h
    <3>4. /\ u.hand = h /\ u.seatStack = table.seatStack
          /\ u.sittingOut = table.sittingOut /\ u.seatStatus = table.seatStatus
      BY <1>1, <3>2, WithHandEffect
    <3> HIDE DEF u
    <3>5. Sound(u, away)
      BY <1>1, <3>2, <3>4 DEF Sound, Honest, Counted, InHand, Truth, Playing
    <3> QED BY <1>15, <3>3, <3>5, BecomesSound DEF PauseEnds
  <2> QED BY <2>1, <2>2
<1>16. CASE ActionTimeout
  <2>1. Playing(table.hand) BY <1>16 DEF ActionTimeout, Hand, Playing
  <2>2. Told(table, AutoAction(table))
    <3>1. CASE AutoAction(table) = table
      <4>1. Quiet(table, table) BY DEF Quiet, SameSeat
      <4> QED BY <2>1, <3>1, <4>1, GoingOnIsQuiet
    <3>2. CASE AutoAction(table) # table
      <4>1. PICK s \in Seats, action \in Actions :
               /\ Accepts(table.hand, s, action)
               /\ AutoAction(table) = ApplyAction(table, s, action)
        BY <1>1, <1>16, <3>2, AutoActionIsAction DEF ActionTimeout, Hand
      <4> QED BY <1>1, <4>1, ApplyActionTold
    <3> QED BY <3>1, <3>2
  <2> QED BY <1>3, <1>16, <2>1, <2>2 DEF ActionTimeout
<1>17. CASE DiscardTimeout
  <2>1. Playing(table.hand) BY <1>17 DEF DiscardTimeout, Hand, Playing
  <2>2. \A u \in AutoDiscard(table) : Sound(u, away)
    BY <1>1, <2>1, AutoDiscardTold, ToldKeepsSound
  <2> QED BY <1>17, <2>2, BecomesSound DEF DiscardTimeout
<1>18. CASE UNCHANGED vars
  BY <1>1, <1>18 DEF vars, Sound, Honest, Counted, InHand, Truth, Playing
<1> QED
  BY <1>4, <1>5, <1>6, <1>7, <1>8, <1>9, <1>10, <1>11, <1>12, <1>13, <1>14, <1>15, <1>16,
     <1>17, <1>18 DEF Next, Deadlines

\* At a new table everybody who sits has chips.
LEMMA InitSound == Init => Sound(table, away)
<1> SUFFICES ASSUME NEW f \in [Seats -> InitialStacks], table = SeatedTable(f)
             PROVE  Sound(table, away)
  BY DEF Init
<1> DEFINE status == [s \in Seats |-> IF f[s] > 0 THEN "active" ELSE "empty"]
           out == [s \in Seats |-> FALSE]
<1>1. /\ table.hand = NullHand /\ table.seatStatus = status /\ table.seatStack = f
      /\ table.sittingOut = out
  BY DEF SeatedTable, EmptyTable
<1>2. ~Playing(table.hand) /\ \A s \in Seats : ~InHand(table, s)
  BY <1>1 DEF Playing, NullHand, InHand
<1> QED BY <1>1, <1>2 DEF Sound, Honest, Counted, Truth

\* Between hands no seat of a player who is there lies: shown as active it has chips and
\* does not sit out, shown as busted it has none (table.ts finishHand, setSittingOut, rebuy,
\* handleDisconnect, also where that settles a hand which is settled already).
THEOREM SeatsStayHonest == Spec => []SeatsAreHonest
<1>1. Init => HonestInv BY InitKeepsInvariant, InitSound DEF HonestInv
<1>2. HonestInv /\ [Next]_vars => HonestInv'
  BY NextKeepsInvariant, NextSound DEF HonestInv
<1>3. HonestInv => SeatsAreHonest BY SoundIsHonest
<1> QED BY <1>1, <1>2, <1>3, PTL DEF Spec

\* Who says to be ready deals the first hand only to those who have said so too.
LEMMA ReadyDealsTheReady ==
    ASSUME table \in TableType, NEW s \in Seats, NEW ready \in BOOLEAN,
           ReadyForHand(s, ready), ~InPlay(table), InPlay(table)'
    PROVE  Dealt(Hand)' \subseteq table.gateReady \cup {s}
<1> DEFINE g == EnsureStartGate(table)
           x == SetReadyForHand(table, s, ready)
           k == EnsureStartGate(x)
           u == AdvanceStartGate(x, FALSE)
<1>1. table' = u BY DEF ReadyForHand, Becomes, BecomesOneOf
<1>2. x \in TableType /\ x.hand = table.hand BY SetReadyForHandKeeps DEF Keeps
<1>3. x.gateReady \subseteq table.gateReady \cup {s}
  <2>1. g \in TableType /\ g.gateReady \subseteq table.gateReady BY EnsureStartGateSeats
  <2>2. \/ x = g
        \/ x = [g EXCEPT !.gateReady = IF ready THEN @ \cup {s} ELSE @ \ {s}]
    BY DEF SetReadyForHand
  <2> HIDE DEF g, x
  <2> QED BY <2>1, <2>2 DEF TableType
<1> HIDE DEF x
<1>4. /\ k \in TableType /\ k.hand = x.hand /\ Ready(k) = Ready(x)
      /\ k.gateReady \subseteq x.gateReady
  BY <1>2, EnsureStartGateSeats
<1>5. u # k BY <1>1, <1>2, <1>4 DEF InPlay
<1>6. u = StartHand(k) /\ k.gateOpen /\ Ready(x) = k.gateReady BY <1>5 DEF AdvanceStartGate
<1>7. ~(Cardinality(Ready(k)) < MinPlayers) BY <1>2, <1>4, <1>6, EnsureStartGateKeeps
<1> HIDE DEF k, u
<1>8. ~Playing(k.hand) BY <1>2, <1>4 DEF InPlay, Playing
<1>9. Proceeds(k, u) /\ Playing(u.hand) BY <1>4, <1>6, <1>7, <1>8, StartHandProceeds
<1>10. \A r \in Seats : u.hand.status[r] # "none" => r \in Ready(k)
  BY <1>8, <1>9 DEF Proceeds, InHand
<1>11. Dealt(u.hand) \subseteq Ready(k) BY <1>10 DEF Dealt
<1>12. Dealt(Hand)' = Dealt(u.hand) BY <1>1 DEF Dealt, Hand
<1> QED BY <1>3, <1>4, <1>6, <1>11, <1>12

\* Saying to be ready deals the first hand only to seats that have said so, the last of
\* them just now, whatever happened to seats meanwhile (table.ts setReadyForHand,
\* ensureStartGate, advanceStartGate).
THEOREM FirstHandIsWaitedFor == Spec => FirstHandWaits
<1> DEFINE Waits == ~InPlay(table) /\ InPlay(table)' =>
                        \A s \in Seats, ready \in BOOLEAN :
                            ReadyForHand(s, ready) => Dealt(Hand)' \subseteq table.gateReady \cup {s}
<1>1. IInv => table \in TableType BY DEF IInv, TableInv
<1>2. table \in TableType /\ [Next]_vars => [Waits]_vars BY ReadyDealsTheReady
<1>3. [][Waits]_vars => FirstHandWaits BY DEF FirstHandWaits
<1> QED BY <1>1, <1>2, <1>3, Invariance, PTL DEF Spec
=============================================================================
