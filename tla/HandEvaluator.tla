--------------------------- MODULE HandEvaluator ---------------------------
(***************************************************************************)
(* The ranking of hands (handEvaluator.ts): five cards get a category and  *)
(* ranks to compare, both are folded into one number, and the best five of *)
(* a player's cards decide the showdown.  The second half says what the    *)
(* rules of poker say, by other means, to compare the numbers with.        *)
(***************************************************************************)
EXTENDS Integers, FiniteSets, Sequences, FiniteSetsExt

CONSTANT Deck       \* the cards that may be dealt: records [rank, suit], an ace being 14

Ace == 14

Suits(cards) == {c.suit : c \in cards}

ASSUME DeckAssumption ==
    IsFiniteSet(Deck) /\ Deck \subseteq [rank : 2..Ace, suit : Suits(Deck)]
    /\ Cardinality(Suits(Deck)) <= 4

VARIABLE dealt      \* the cards a player has: the board and what he holds

DealInit == dealt = {}

\* A card from anywhere in the deck, which has been shuffled.
Deal == Cardinality(dealt) < 7 /\ \E c \in Deck \ dealt : dealt' = dealt \cup {c}

DealSpec == DealInit /\ [][Deal]_dealt

\* The number 1e10 of the code; any number above the largest code orders hands alike.
Scale == 1000 * 1000

\* encode: the ranks as the digits of a number to base 15.
Encode(values) ==
    LET code[n \in 0..Len(values)] == IF n = 0 THEN 0 ELSE code[n - 1] * 15 + values[n]
    IN code[Len(values)]

Ranks(cards) == {c.rank : c \in cards}
OfRank(cards, r) == {c \in cards : c.rank = r}
Count(cards, r) == Cardinality(OfRank(cards, r))

\* A wrong form of StraightHigh: the ace is never low.
StraightHighNoWheel(cards) ==
    LET tops == {r \in Ranks(cards) : \A k \in 1..4 : r - k \in Ranks(cards)}
    IN IF tops = {} THEN 0 ELSE Max(tops)

\* isStraight: the highest rank of five in a row, an ace counting as 1 too, or 0.
StraightHigh(cards) ==
    LET uniq == Ranks(cards) \cup (IF Ace \in Ranks(cards) THEN {1} ELSE {})
        tops == {r \in uniq : \A k \in 1..4 : r - k \in uniq}
    IN IF tops = {} THEN 0 ELSE Max(tops)

IsFlush(cards) == \E s \in Suits(cards) : Cardinality({c \in cards : c.suit = s}) >= 5

\* The ranks, sorted by the sort's comparison: the one of which there are more cards comes
\* first, and the higher one of two with as many.
Precedes(cards, x, y) ==
    \/ Count(cards, x) > Count(cards, y)
    \/ Count(cards, x) = Count(cards, y) /\ x > y
Groups(cards) ==
    [i \in 1..Cardinality(Ranks(cards)) |->
        CHOOSE r \in Ranks(cards) :
            Cardinality({x \in Ranks(cards) : Precedes(cards, x, r)}) = i - 1]

Sized(cards, i) == IF i <= Len(Groups(cards)) THEN Count(cards, Groups(cards)[i]) ELSE 0

\* evaluateFive
EvaluateFive(cards) ==
    LET groups == Groups(cards)
        first == Sized(cards, 1)
        second == Sized(cards, 2)
        straight == StraightHigh(cards)
        flush == IsFlush(cards)
        is(category, values) == [category |-> category, rankValues |-> values]
    IN CASE flush /\ straight > 0          -> is(8, <<straight>>)
         [] first = 4                      -> is(7, groups)
         [] first = 3 /\ second >= 2       -> is(6, groups)
         [] flush /\ straight = 0          -> is(5, groups)
         [] ~flush /\ straight > 0         -> is(4, <<straight>>)
         [] first = 3 /\ second = 1        -> is(3, groups)
         [] first = 2 /\ second = 2        -> is(2, groups)
         [] first = 2 /\ second = 1        -> is(1, groups)
         [] OTHER                          -> is(0, groups)

Fives(cards) == kSubset(5, cards)

Score == [five \in Fives(Deck) |->
             LET e == EvaluateFive(five) IN e.category * Scale + Encode(e.rankValues)]

\* evaluateSeven: the best five, whichever of equal ones comes first.
EvaluateSeven(cards) ==
    LET best == Max({Score[five] : five \in Fives(cards)})
    IN CHOOSE five \in Fives(cards) : Score[five] = best

-----------------------------------------------------------------------------
(* The rules of poker.                                                      *)

\* Two cards of one rank: a pair has one such pair of cards, two pairs have two, three
\* of a kind three, a full house four, four of a kind six.
PairsOf(five) == Cardinality({p \in kSubset(2, five) : Cardinality(Ranks(p)) = 1})

Wheel == {Ace, 2, 3, 4, 5}

InARow(five) ==
    \/ Ranks(five) = Wheel
    \/ Cardinality(Ranks(five)) = 5 /\ Max(Ranks(five)) - Min(Ranks(five)) = 4

OneSuit(five) == Cardinality(Suits(five)) = 1

\* high card, pair, two pairs, three, straight, flush, full house, four, straight flush
Class(five) ==
    CASE InARow(five) /\ OneSuit(five)  -> 8
      [] PairsOf(five) = 6              -> 7
      [] PairsOf(five) = 4              -> 6
      [] OneSuit(five) /\ ~InARow(five) -> 5
      [] InARow(five) /\ ~OneSuit(five) -> 4
      [] OTHER                          -> PairsOf(five)

\* An ace is low in the wheel only.
Height(five, r) == IF Ranks(five) = Wheel /\ r = Ace THEN 1 ELSE r

\* The rank that decides: the one of which one hand has more cards than the other, the
\* larger groups being looked at first, and the higher ranks before the lower.
Holds(five, n) == {Height(five, r) : r \in {x \in Ranks(five) : Count(five, x) >= n}}
Higher(A, B) == A # B /\ Max((A \ B) \cup (B \ A)) \in A

\* What the rules look at.
Look == [five \in Fives(Deck) |->
            [class |-> Class(five), holds |-> [n \in 1..4 |-> Holds(five, n)]]]

Beats(a, b) ==
    \/ a.class > b.class
    \/ /\ a.class = b.class
       /\ \E n \in 1..4 : /\ Higher(a.holds[n], b.holds[n])
                          /\ \A k \in n + 1..4 : a.holds[k] = b.holds[k]

-----------------------------------------------------------------------------

\* Of the hands that can be made of a player's cards, one scores more than another exactly
\* if the rules say it wins, straights from the ace and all ties of kickers included, and
\* none beats the one evaluateSeven takes (evaluateFive, encode, evaluateSeven).
ScoresRankHands ==
    Cardinality(dealt) = 7 =>
        \E fives \in {Fives(dealt)}, best \in {EvaluateSeven(dealt)} :
            /\ \A a, b \in fives : Score[a] > Score[b] <=> Beats(Look[a], Look[b])
            /\ \A five \in fives : ~Beats(Look[five], Look[best])
=============================================================================
