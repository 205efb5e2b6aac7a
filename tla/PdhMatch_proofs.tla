-------------------------- MODULE PdhMatch_proofs --------------------------
(***************************************************************************)
(* Theorems about PdhMatch, for any players and sessions.                  *)
(*                                                                         *)
(* Most of it is about operators: Moves says what the first part of a      *)
(* timer pass may make of a table, Keeps what a message may; Tracks says   *)
(* that what has changed in a match is numbered, saved and broadcast.      *)
(* All three chain.  IInv is the inductive invariant, and Steps has what   *)
(* every step does, one lemma for each action.                             *)
(***************************************************************************)
EXTENDS PdhMatch, FiniteSetTheorems, WellFoundedInduction, TLAPS

-----------------------------------------------------------------------------
(* Tables.                                                                  *)

\* What a pass may do to the table before it looks at the pause, where X are the players
\* who have gone: only they lose a seat or are made to sit out, but for those whom a
\* settlement leaves without chips, and a hand goes on with those dealt into it.
Moves(t, u, X) ==
    /\ u \in TableViews
    /\ \A p \in t.seated \ u.seated : p \in X /\ (t.phase # "none" => p \notin t.dealt)
    /\ t.phase # "none" => u.dealt = t.dealt /\ u.phase # "none"
    /\ t.phase = "showdown" => u.phase = "showdown" /\ (t.broke \cap u.out) \ X \subseteq u.broke
    /\ \A p \in u.out \ (t.out \cup X) : p \in u.broke /\ u.phase = "showdown"

\* Nothing changes.
LEMMA MovesNot == ASSUME NEW t \in TableViews, NEW X PROVE Moves(t, t, X)
BY DEF Moves

\* One move after the other.
LEMMA MovesOn ==
    ASSUME NEW t, NEW u, NEW v, NEW X, Moves(t, u, X), Moves(u, v, X)
    PROVE  Moves(t, v, X)
<1>1. \A p \in t.seated \ v.seated : p \in X /\ (t.phase # "none" => p \notin t.dealt)
  <2> TAKE p \in t.seated \ v.seated
  <2>1. CASE p \in u.seated BY <2>1 DEF Moves
  <2>2. CASE p \notin u.seated BY <2>2 DEF Moves
  <2> QED BY <2>1, <2>2
<1>2. t.phase = "showdown" => v.phase = "showdown" /\ (t.broke \cap v.out) \ X \subseteq v.broke
  <2> SUFFICES ASSUME t.phase = "showdown"
               PROVE  v.phase = "showdown" /\ (t.broke \cap v.out) \ X \subseteq v.broke
    OBVIOUS
  <2>1. u.phase = "showdown" /\ v.phase = "showdown" BY DEF Moves
  <2>2. ASSUME NEW p \in (t.broke \cap v.out) \ X PROVE p \in v.broke
    <3>1. CASE p \in u.out BY <2>1, <3>1 DEF Moves
    <3>2. CASE p \notin u.out BY <2>1, <3>2 DEF Moves
    <3> QED BY <3>1, <3>2
  <2> QED BY <2>1, <2>2
<1>3. \A p \in v.out \ (t.out \cup X) : p \in v.broke /\ v.phase = "showdown"
  <2> TAKE p \in v.out \ (t.out \cup X)
  <2>1. CASE p \in u.out BY <2>1 DEF Moves
  <2>2. CASE p \notin u.out BY <2>2 DEF Moves
  <2> QED BY <2>1, <2>2
<1>4. t.phase # "none" => v.dealt = t.dealt /\ v.phase # "none" BY DEF Moves
<1> QED BY <1>1, <1>2, <1>3, <1>4 DEF Moves

\* More players may have gone.
LEMMA MovesMore ==
    ASSUME NEW t, NEW u, NEW X, NEW Y, X \subseteq Y, Moves(t, u, X)
    PROVE  Moves(t, u, Y)
BY DEF Moves

\* The settlement
LEMMA SettleMoves ==
    ASSUME NEW t \in TableViews, Playing(t), NEW u \in Settle(t)
    PROVE  Moves(t, u, {})
<1>1. PICK b \in SUBSET t.dealt :
        u = [t EXCEPT !.phase = "showdown", !.turn = NoOne, !.pending = {}, !.live = {},
                      !.broke = (@ \ t.dealt) \cup b, !.out = @ \cup b]
  BY DEF Settle
<1>2. /\ u \in TableViews /\ u.phase = "showdown" /\ u.seated = t.seated /\ u.dealt = t.dealt
      /\ u.out = t.out \cup b /\ u.broke = (t.broke \ t.dealt) \cup b
  BY <1>1 DEF TableViews, Phases
<1> QED BY <1>2 DEF Moves, Playing

\* In a hand, whatever leaves the seats, who sits out and who is dealt in alone.
LEMMA StaysMoves ==
    ASSUME NEW t \in TableViews, NEW u \in TableViews, Playing(t), Playing(u),
           u.seated = t.seated, u.dealt = t.dealt, u.out = t.out
    PROVE  Moves(t, u, {})
BY DEF Moves, Playing

\* What follows a round
LEMMA OpenNextMoves ==
    ASSUME NEW t \in TableViews, Playing(t), NEW u \in OpenNext(t)
    PROVE  Moves(t, u, {})
<1>1. CASE u \in Settle(t) BY <1>1, SettleMoves
<1>2. CASE \E p \in t.live : u = [t EXCEPT !.phase = "betting", !.turn = p, !.pending = {}]
  <2>1. PICK p \in t.live : u = [t EXCEPT !.phase = "betting", !.turn = p, !.pending = {}] BY <1>2
  <2>2. u \in TableViews /\ u.phase = "betting" /\ u.seated = t.seated /\ u.dealt = t.dealt /\ u.out = t.out
    BY <2>1 DEF TableViews, Phases
  <2> QED BY <2>2, StaysMoves DEF Playing
<1>3. CASE u = [t EXCEPT !.phase = "discard", !.turn = NoOne, !.pending = t.live \ t.out]
  <2>1. u \in TableViews /\ u.phase = "discard" /\ u.seated = t.seated /\ u.dealt = t.dealt /\ u.out = t.out
    BY <1>3 DEF TableViews, Phases
  <2> QED BY <2>1, StaysMoves DEF Playing
<1> QED BY <1>1, <1>2, <1>3 DEF OpenNext

\* Another player's turn, or a pause
LEMMA GoOnMoves ==
    ASSUME NEW t \in TableViews, t.phase = "betting", NEW u \in GoOn(t)
    PROVE  Moves(t, u, {})
<1>1. CASE \E p \in t.live : u = [t EXCEPT !.turn = p]
  <2>1. PICK p \in t.live : u = [t EXCEPT !.turn = p] BY <1>1
  <2>2. u \in TableViews /\ u.phase = "betting" /\ u.seated = t.seated /\ u.dealt = t.dealt /\ u.out = t.out
    BY <2>1 DEF TableViews
  <2> QED BY <2>2, StaysMoves DEF Playing
<1>2. CASE u = [t EXCEPT !.phase = "pause", !.turn = NoOne]
  <2>1. u \in TableViews /\ u.phase = "pause" /\ u.seated = t.seated /\ u.dealt = t.dealt /\ u.out = t.out
    BY <1>2 DEF TableViews, Phases
  <2> QED BY <2>1, StaysMoves DEF Playing
<1> QED BY <1>1, <1>2 DEF GoOn

\* A fold, by choice or by leaving
LEMMA LeaveHandMoves ==
    ASSUME NEW t \in TableViews, Playing(t), NEW p, NEW u \in LeaveHand(t, p)
    PROVE  Moves(t, u, {})
<1> DEFINE v == [t EXCEPT !.live = @ \ {p}]
<1>1. /\ v \in TableViews /\ v.phase = t.phase /\ v.turn = t.turn
      /\ v.seated = t.seated /\ v.dealt = t.dealt /\ v.out = t.out
  BY DEF TableViews
<1>2. Playing(v) BY <1>1 DEF Playing
<1> HIDE DEF v
<1>3. Moves(t, v, {}) BY <1>1, <1>2, StaysMoves
<1>4. \/ u \in Settle(v) \/ u = v \/ (v.phase = "betting" /\ u \in GoOn(v))
      \/ u = [v EXCEPT !.phase = "pause", !.turn = NoOne]
  BY DEF LeaveHand, v
<1>5. CASE u \in Settle(v) BY <1>1, <1>2, <1>3, <1>5, SettleMoves, MovesOn
<1>6. CASE u = v BY <1>3, <1>6
<1>7. CASE v.phase = "betting" /\ u \in GoOn(v) BY <1>1, <1>3, <1>7, GoOnMoves, MovesOn
<1>8. CASE u = [v EXCEPT !.phase = "pause", !.turn = NoOne]
  <2>1. u \in TableViews /\ u.phase = "pause" /\ u.seated = v.seated /\ u.dealt = v.dealt /\ u.out = v.out
    BY <1>1, <1>8 DEF TableViews, Phases
  <2> QED BY <1>1, <2>1, StaysMoves DEF Playing
<1> QED BY <1>4, <1>5, <1>6, <1>7, <1>8

\* An action
LEMMA ActNowMoves ==
    ASSUME NEW t \in TableViews, t.phase = "betting", NEW p, NEW u \in ActNow(t, p)
    PROVE  Moves(t, u, {})
BY GoOnMoves, LeaveHandMoves DEF ActNow, Playing

\* autoAction
LEMMA ClockMoves ==
    ASSUME NEW t \in TableViews, NEW u \in ClockRunsOut(t)
    PROVE  Moves(t, u, {})
BY ActNowMoves, MovesNot DEF ClockRunsOut

\* One discard, and what follows the last of a street
LEMMA GiveCardMoves ==
    ASSUME NEW t \in TableViews, Playing(t), NEW p, NEW u \in GiveCard(t, p)
    PROVE  Moves(t, u, {})
<1> DEFINE v == [t EXCEPT !.pending = @ \ {p}]
<1>1. /\ v \in TableViews /\ v.phase = t.phase
      /\ v.seated = t.seated /\ v.dealt = t.dealt /\ v.out = t.out
  BY DEF TableViews
<1>2. Playing(v) BY <1>1 DEF Playing
<1>3. u \in OpenNext(v) \/ u = v BY DEF GiveCard
<1> HIDE DEF v
<1>4. Moves(t, v, {}) BY <1>1, <1>2, StaysMoves
<1> QED BY <1>1, <1>2, <1>3, <1>4, OpenNextMoves, MovesOn

\* autoDiscard
LEMMA GiveAllMoves ==
    ASSUME NEW t \in TableViews, Playing(t), NEW u \in GiveAllCards(t)
    PROVE  Moves(t, u, {})
<1> DEFINE v == [t EXCEPT !.pending = {}]
<1>1. /\ v \in TableViews /\ v.phase = t.phase
      /\ v.seated = t.seated /\ v.dealt = t.dealt /\ v.out = t.out
  BY DEF TableViews
<1>2. Playing(v) BY <1>1 DEF Playing
<1>3. u \in OpenNext(v) BY DEF GiveAllCards
<1> HIDE DEF v
<1>4. Moves(t, v, {}) BY <1>1, <1>2, StaysMoves
<1> QED BY <1>1, <1>2, <1>3, <1>4, OpenNextMoves, MovesOn

\* Somebody who has gone is made to sit out.
LEMMA SitsOutMoves ==
    ASSUME NEW t \in TableViews, NEW X, NEW p \in X \cap People
    PROVE  Moves(t, SitsOut(t, p), X)
<1>1. /\ SitsOut(t, p) \in TableViews /\ SitsOut(t, p).phase = t.phase
      /\ SitsOut(t, p).seated = t.seated /\ SitsOut(t, p).dealt = t.dealt
      /\ SitsOut(t, p).out = t.out \cup {p} /\ SitsOut(t, p).broke = t.broke
  BY DEF TableViews, SitsOut
<1> QED BY <1>1 DEF Moves

\* handleDisconnect
LEMMA VanishMoves ==
    ASSUME NEW t \in TableViews, Playing(t), NEW X, NEW p \in X \cap People, NEW u \in Vanish(t, p)
    PROVE  Moves(t, u, X)
<1> DEFINE away == SitsOut(t, p)
           given == IF t.phase = "discard" /\ p \in t.pending THEN GiveCard(away, p) ELSE {away}
<1>1. away \in TableViews /\ away.phase = t.phase BY DEF TableViews, SitsOut
<1>2. Playing(away) BY <1>1 DEF Playing
<1>3. Moves(t, away, X) BY SitsOutMoves
<1>4. u \in given \/ \E v \in given : u = v \/ (Playing(v) /\ u \in LeaveHand(v, p))
  BY DEF Vanish, SitsOut
<1> HIDE DEF away
<1>5. ASSUME NEW v \in given PROVE Moves(t, v, X) /\ v \in TableViews
  <2>1. Moves(away, v, {}) BY <1>1, <1>2, GiveCardMoves, MovesNot
  <2>2. Moves(away, v, X) BY <2>1, MovesMore
  <2> QED BY <1>3, <2>2, MovesOn DEF Moves
<1> HIDE DEF given
<1>6. ASSUME NEW v \in given, Playing(v), u \in LeaveHand(v, p) PROVE Moves(t, u, X)
  <2>1. Moves(v, u, {}) BY <1>5, <1>6, LeaveHandMoves
  <2>2. Moves(v, u, X) BY <2>1, MovesMore
  <2> QED BY <1>5, <2>2, MovesOn
<1> QED BY <1>4, <1>5, <1>6

\* A hand is dealt: the table stays typed, and nothing happens to the seats.
LEMMA DealFacts ==
    ASSUME NEW t \in TableViews, NEW u \in DealHand(t)
    PROVE  /\ u \in TableViews /\ u.phase = "betting" /\ u.dealt = Playable(t)
           /\ u.seated = t.seated /\ u.out = t.out /\ u.broke = t.broke
<1>1. PICK p \in Playable(t) :
        u = [t EXCEPT !.phase = "betting", !.dealt = Playable(t), !.live = Playable(t),
                      !.turn = p, !.first = FALSE, !.gate = FALSE, !.ready = {}]
  BY DEF DealHand
<1>2. Playable(t) \subseteq People BY DEF Playable, TableViews
<1> QED BY <1>1, <1>2 DEF TableViews, Phases

\* The gate of the first hand opens or closes.
LEMMA GateFacts ==
    ASSUME NEW t \in TableViews
    PROVE  LET u == OpenGate(t)
           IN  /\ u \in TableViews /\ u.phase = t.phase /\ u.dealt = t.dealt
               /\ u.seated = t.seated /\ u.out = t.out /\ u.broke = t.broke
               /\ u.gate => t.phase = "none"
               /\ u.first = t.first
BY DEF OpenGate, TableViews, Phases, FirstHandWaiting

\* advanceStartGate
LEMMA PassGateMoves ==
    ASSUME NEW t \in TableViews, NEW elapsed \in BOOLEAN, NEW u \in PassGate(t, elapsed)
    PROVE  Moves(t, u, {}) /\ u.seated = t.seated
<1> DEFINE g == OpenGate(t)
<1>1. /\ g \in TableViews /\ g.phase = t.phase /\ g.dealt = t.dealt
      /\ g.seated = t.seated /\ g.out = t.out /\ g.broke = t.broke
      /\ g.gate => t.phase = "none"
  BY GateFacts
<1>2. u = g \/ (g.gate /\ u \in DealHand(g)) BY DEF PassGate
<1> HIDE DEF g
<1>3. CASE u = g BY <1>1, <1>3 DEF Moves
<1>4. CASE g.gate /\ u \in DealHand(g) BY <1>1, <1>4, DealFacts DEF Moves
<1> QED BY <1>2, <1>3, <1>4

\* No next hand can be dealt.
Idle(t) == t.phase = "none" /\ (t.first \/ Cardinality(Playable(t)) < MinimumToPlay)

\* beginNextHandIfReady: a hand that is shown stays, and the seats are not touched.
LEMMA DealsNextFacts ==
    ASSUME NEW t \in TableViews, NEW u \in DealsNext(t)
    PROVE  /\ u \in TableViews /\ u.seated = t.seated /\ u.out = t.out /\ u.broke = t.broke
           /\ t.phase # "none" => u = t
           /\ t.phase = "none" => u.phase \in {"none", "betting"}
           /\ t.phase = "none" /\ u.phase # "none" =>
                 u.dealt = Playable(t) /\ Cardinality(Playable(t)) >= MinimumToPlay
           /\ t.phase = "none" /\ u.phase = "none" => Idle(u)
           /\ Idle(t) => u.phase = "none"
<1>1. CASE t.phase # "none" BY <1>1 DEF DealsNext, Idle
<1>2. CASE t.phase = "none" /\ t.first
  <2>1. u = OpenGate(t) BY <1>2 DEF DealsNext, FirstHandWaiting
  <2> QED BY <1>2, <2>1, GateFacts DEF Idle
<1>3. CASE t.phase = "none" /\ ~t.first
  <2>1. CASE Cardinality(Playable(t)) >= MinimumToPlay
    <3>1. u \in DealHand(t) BY <1>3, <2>1 DEF DealsNext, FirstHandWaiting
    <3>2. Cardinality(Playable(t)) \in Nat
      BY PeopleAssumption, FS_Subset, FS_CardinalityType DEF Playable, TableViews
    <3> QED BY <1>3, <2>1, <3>1, <3>2, DealFacts DEF Idle, MinimumToPlay
  <2>2. CASE ~(Cardinality(Playable(t)) >= MinimumToPlay)
    <3>1. u = t BY <1>3, <2>2 DEF DealsNext, FirstHandWaiting
    <3>2. Cardinality(Playable(t)) \in Nat
      BY PeopleAssumption, FS_Subset, FS_CardinalityType DEF Playable, TableViews
    <3> QED BY <1>3, <2>2, <3>1, <3>2 DEF Idle, MinimumToPlay
  <2> QED BY <2>1, <2>2
<1> QED BY <1>1, <1>2, <1>3 DEF TableViews

-----------------------------------------------------------------------------
(* ExpireAll is a recursive function.  The theorem WFMin on well-founded    *)
(* relations, which has no operator for a parameter, is used for the        *)
(* inductions.                                                              *)

\* A set of subsets of E has them all if it has each whose proper subsets it has.
LEMMA SubsetInduction ==
    ASSUME NEW E, IsFiniteSet(E), NEW G,
           \A S \in SUBSET E : (\A T \in SUBSET S : T # S => T \in G) => S \in G
    PROVE  SUBSET E \subseteq G
<1> DEFINE R == StrictSubsetOrdering(E)
           Bad == (SUBSET E) \ G
<1>1. IsWellFoundedOn(R, SUBSET E)
  BY FS_StrictSubsetOrderingWellFounded, FS_FiniteSubsetsOfFinite
<1>2. SUFFICES ASSUME Bad # {} PROVE FALSE OBVIOUS
<1>3. PICK S \in Bad : \A T \in Bad : <<T, S>> \notin R
  <2> Bad \subseteq SUBSET E OBVIOUS
  <2> HIDE DEF R, Bad
  <2> QED BY <1>1, <1>2, WFMin
<1>4. \A T \in SUBSET S : T # S => T \in G
  BY <1>3 DEF StrictSubsetOrdering
<1> QED BY <1>3, <1>4

\* What comes of expirations is determined by what comes of one fewer.
After(m, g, S) ==
    IF S = {} THEN {m} ELSE UNION {UNION {Expire(u, p) : u \in g[S \ {p}]} : p \in S}

\* It depends on nothing else.
LEMMA AfterDepends ==
    ASSUME NEW m, NEW g, NEW h, NEW S, \A p \in S : g[S \ {p}] = h[S \ {p}]
    PROVE  After(m, g, S) = After(m, h, S)
<1> DEFINE V(f) == UNION {UNION {Expire(u, p) : u \in f[S \ {p}]} : p \in S}
<1>1. ASSUME NEW f, NEW x
      PROVE  x \in V(f) <=> \E p \in S : \E u \in f[S \ {p}] : x \in Expire(u, p)
  OBVIOUS
<1> HIDE DEF V
<1>2. \A x : x \in V(g) <=> x \in V(h) BY <1>1
<1>3. V(g) = V(h) BY <1>2
<1> QED BY <1>3 DEF After, V

\* g is the recursive function of ExpireAll on the subsets of A.
IsAfter(m, g, A) == g = [S \in SUBSET A |-> After(m, g, S)]

\* Two such functions agree where both are defined.
LEMMA AfterUnique ==
    ASSUME NEW m, NEW E, IsFiniteSet(E), NEW A \in SUBSET E, NEW B \in SUBSET E,
           NEW g, IsAfter(m, g, A), NEW h, IsAfter(m, h, B)
    PROVE  \A S \in SUBSET (A \cap B) : g[S] = h[S]
<1> DEFINE G == {S \in SUBSET E : S \subseteq A \cap B => g[S] = h[S]}
<1>1. ASSUME NEW S \in SUBSET E, \A T \in SUBSET S : T # S => T \in G PROVE S \in G
  <2> SUFFICES ASSUME S \subseteq A \cap B PROVE g[S] = h[S] OBVIOUS
  <2>1. \A p \in S : g[S \ {p}] = h[S \ {p}]
    <3> TAKE p \in S
    <3>1. S \ {p} \in SUBSET S /\ S \ {p} # S OBVIOUS
    <3>2. S \ {p} \in G BY <1>1, <3>1
    <3> QED BY <3>2
  <2>2. After(m, g, S) = After(m, h, S) BY <2>1, AfterDepends
  <2>3. g[S] = After(m, g, S) /\ h[S] = After(m, h, S) BY DEF IsAfter
  <2> QED BY <2>2, <2>3
<1> HIDE DEF G
<1>2. SUBSET E \subseteq G BY <1>1, SubsetInduction
<1> QED BY <1>2 DEF G

\* There is such a function on every finite set.
LEMMA AfterExists ==
    ASSUME NEW m, NEW E, IsFiniteSet(E)
    PROVE  \E g : IsAfter(m, g, E)
<1> DEFINE G == {S \in SUBSET E : \E g : IsAfter(m, g, S)}
           F(S) == CHOOSE g : IsAfter(m, g, S)
<1>1. ASSUME NEW S \in SUBSET E, \A T \in SUBSET S : T # S => T \in G PROVE S \in G
  <2> DEFINE lower == [T \in SUBSET S |-> F(T)[T]]
             k == [T \in SUBSET S |-> IF T = S THEN After(m, lower, S) ELSE F(T)[T]]
  <2>1. ASSUME NEW T \in SUBSET S, T # S PROVE IsAfter(m, F(T), T)
    <3>1. \E g : IsAfter(m, g, T) BY <1>1, <2>1
    <3> QED BY <3>1
  <2>2. ASSUME NEW T \in SUBSET S, T # S, NEW p \in T PROVE F(T)[T \ {p}] = F(T \ {p})[T \ {p}]
    <3>1. T \ {p} \in SUBSET S /\ T \ {p} # S /\ T \in SUBSET E /\ T \ {p} \in SUBSET E
      BY <2>2
    <3>2. IsAfter(m, F(T), T) /\ IsAfter(m, F(T \ {p}), T \ {p}) BY <2>1, <2>2, <3>1
    <3>3. T \ {p} \in SUBSET (T \cap (T \ {p})) OBVIOUS
    <3> HIDE DEF F
    <3> QED BY <3>1, <3>2, <3>3, AfterUnique
  <2> HIDE DEF F
  <2>3. ASSUME NEW T \in SUBSET S PROVE k[T] = After(m, k, T)
    <3>1. CASE T = S
      <4>1. \A p \in S : k[S \ {p}] = lower[S \ {p}] OBVIOUS
      <4> HIDE DEF lower
      <4>2. k[S] = After(m, lower, S) OBVIOUS
      <4> HIDE DEF k
      <4>3. After(m, k, S) = After(m, lower, S) BY <4>1, AfterDepends
      <4> QED BY <3>1, <4>2, <4>3
    <3>2. CASE T # S
      <4>1. k[T] = F(T)[T] BY <3>2
      <4>2. \A p \in T : k[T \ {p}] = F(T)[T \ {p}] BY <2>2, <3>2
      <4>3. F(T)[T] = After(m, F(T), T) BY <2>1, <3>2 DEF IsAfter
      <4> HIDE DEF k
      <4>4. After(m, k, T) = After(m, F(T), T) BY <4>2, AfterDepends
      <4> QED BY <4>1, <4>3, <4>4
    <3> QED BY <3>1, <3>2
  <2>4. k = [T \in SUBSET S |-> k[T]] OBVIOUS
  <2> HIDE DEF k
  <2>5. k = [T \in SUBSET S |-> After(m, k, T)] BY <2>3, <2>4
  <2> QED BY <2>5 DEF IsAfter
<1> HIDE DEF G
<1>2. SUBSET E \subseteq G BY <1>1, SubsetInduction
<1>3. E \in G BY <1>2
<1> QED BY <1>3 DEF G

\* So the recursion of ExpireAll is what it seems to be.
LEMMA ExpireAllUnfolds ==
    ASSUME NEW m, NEW due, IsFiniteSet(Expired(m, due))
    PROVE  \E g : /\ ExpireAll(m, due) = g[Expired(m, due)]
                  /\ \A S \in SUBSET Expired(m, due) : g[S] = After(m, g, S)
<1> DEFINE E == Expired(m, due)
           f == CHOOSE g : g = [S \in SUBSET E |->
                    IF S = {} THEN {m}
                    ELSE UNION {UNION {Expire(u, p) : u \in g[S \ {p}]} : p \in S}]
<1>1. ExpireAll(m, due) = f[E] BY DEF ExpireAll
<1>2. f = CHOOSE g : IsAfter(m, g, E) BY DEF IsAfter, After
<1>3. \E g : IsAfter(m, g, E) BY AfterExists
<1> HIDE DEF f
<1>4. IsAfter(m, f, E) BY <1>2, <1>3
<1>5. \A S \in SUBSET E : f[S] = After(m, f, S) BY <1>4 DEF IsAfter
<1> QED BY <1>1, <1>5

-----------------------------------------------------------------------------
(* Matches.                                                                 *)

\* The match has to show, to checkpoint and to number what has changed.
Obliged(m) == m.raised /\ m.cast /\ m.save

\* Nothing has changed that is shown or kept in a checkpoint.
SameShown(m, n) ==
    /\ n.table = m.table /\ n.conn = m.conn
    /\ n.between.on = m.between.on /\ n.between.ready = m.between.ready

\* No obligation is forgotten, and there are all of them for whatever has changed.
Tracks(m, n) ==
    /\ n \in MatchStates /\ n.present = m.present
    /\ m.raised => n.raised
    /\ m.cast => n.cast
    /\ m.save => n.save
    /\ Obliged(n) \/ SameShown(m, n)

\* Nothing changes.
LEMMA TracksNot == ASSUME NEW m \in MatchStates PROVE Tracks(m, m)
BY DEF Tracks, SameShown

\* One change after the other.
LEMMA TracksOn ==
    ASSUME NEW m, NEW n, NEW o, Tracks(m, n), Tracks(n, o)
    PROVE  Tracks(m, o)
BY DEF Tracks, SameShown, Obliged

\* commitTableMutation
LEMMA CommitFacts ==
    ASSUME NEW m \in MatchStates, NEW t \in TableViews
    PROVE  LET n == Commit(m, t)
           IN  Tracks(m, n) /\ n.table = t /\ n.conn = m.conn /\ n.between = m.between
<1>1. CASE t = m.table BY <1>1, TracksNot DEF Commit
<1>2. CASE t # m.table
  <2> DEFINE n == Commit(m, t)
  <2>1. /\ n \in MatchStates /\ n.present = m.present /\ n.table = t /\ n.conn = m.conn
        /\ n.between = m.between /\ n.raised /\ n.cast /\ n.save
    BY <1>2 DEF Commit, Changed, MatchStates
  <2> HIDE DEF n
  <2> QED BY <2>1 DEF Tracks, Obliged, n
<1> QED BY <1>1, <1>2

\* markPlayerConnected, -Reconnecting, -Disconnected
LEMMA MarkFacts ==
    ASSUME NEW m \in MatchStates, NEW p, NEW status \in Statuses
    PROVE  LET n == Mark(m, p, status)
           IN  Tracks(m, n) /\ Obliged(n) /\ n.table = m.table /\ n.between = m.between
<1> DEFINE n == Mark(m, p, status)
<1>1. [m.conn EXCEPT ![p] = status] \in [People -> Statuses] BY DEF MatchStates
<1>2. n = [m EXCEPT !.conn = [m.conn EXCEPT ![p] = status], !.raised = TRUE, !.cast = TRUE, !.save = TRUE]
  BY DEF Mark, Changed
<1>3. /\ n \in MatchStates /\ n.present = m.present /\ n.table = m.table
      /\ n.between = m.between /\ n.raised /\ n.cast /\ n.save
  BY <1>1, <1>2 DEF MatchStates
<1> HIDE DEF n
<1> QED BY <1>3 DEF Tracks, Obliged, n

\* Players without an open session.
Gone(m) == {p \in People : ~Connected(m, p)}

\* The way of a match through the first part of a pass.
Goes(m, n) == Tracks(m, n) /\ n.between = m.between /\ Moves(m.table, n.table, Gone(m))

\* Who has gone depends on the presences.
LEMMA GoneKept == ASSUME NEW m, NEW n, n.present = m.present PROVE Gone(n) = Gone(m)
BY DEF Gone, Connected

\* A step that does nothing
LEMMA GoesNot == ASSUME NEW m \in MatchStates PROVE Goes(m, m)
BY TracksNot, MovesNot DEF Goes, MatchStates

\* One step after the other
LEMMA GoesOn ==
    ASSUME NEW m, NEW n, NEW o, Goes(m, n), Goes(n, o)
    PROVE  Goes(m, o)
<1>1. Gone(n) = Gone(m) BY GoneKept DEF Goes, Tracks
<1>2. Tracks(m, o) BY TracksOn DEF Goes
<1>3. Moves(m.table, o.table, Gone(m)) BY <1>1, MovesOn DEF Goes
<1> QED BY <1>2, <1>3 DEF Goes

\* A change of the table
LEMMA CommitGoes ==
    ASSUME NEW m \in MatchStates, NEW t, Moves(m.table, t, Gone(m))
    PROVE  Goes(m, Commit(m, t))
BY CommitFacts DEF Goes, Moves

\* A change of the table to one of several
LEMMA CommitOneGoes ==
    ASSUME NEW m \in MatchStates, NEW T, \A t \in T : Moves(m.table, t, Gone(m)),
           NEW n \in CommitOneOf(m, T)
    PROVE  Goes(m, n)
BY CommitGoes DEF CommitOneOf

\* applyGraceExpiryPolicy
LEMMA GraceMoves ==
    ASSUME NEW t \in TableViews, NEW X, NEW p \in X \cap People, NEW u \in GraceExpires(t, p)
    PROVE  Moves(t, u, X)
<1>1. CASE ~Playing(t) \/ p \notin t.dealt BY <1>1, SitsOutMoves DEF GraceExpires
<1>2. CASE ~(~Playing(t) \/ p \notin t.dealt)
  <2>1. PICK v \in IF OnTurnNow(t, p) THEN ClockRunsOut(t) ELSE {t} :
          u \in IF Playing(v) THEN Vanish(v, p) ELSE {SitsOut(v, p)}
    BY <1>2 DEF GraceExpires
  <2>2. Moves(t, v, {}) BY <2>1, ClockMoves, MovesNot
  <2>3. Moves(t, v, X) BY <2>2, MovesMore
  <2>4. v \in TableViews BY <2>2 DEF Moves
  <2>5. Moves(v, u, X)
    <3>1. CASE Playing(v) BY <2>1, <2>4, <3>1, VanishMoves
    <3>2. CASE ~Playing(v) BY <2>1, <2>4, <3>2, SitsOutMoves
    <3> QED BY <3>1, <3>2
  <2> QED BY <2>3, <2>5, MovesOn
<1> QED BY <1>1, <1>2

\* One grace period is over.
LEMMA ExpireGoes ==
    ASSUME NEW m \in MatchStates, NEW p \in Gone(m), NEW n \in Expire(m, p)
    PROVE  Goes(m, n)
<1> DEFINE lost == Mark(m, p, "disconnected")
<1>1. Tracks(m, lost) /\ lost.table = m.table /\ lost.between = m.between
  BY MarkFacts DEF Statuses
<1>2. p \in People /\ m.table \in TableViews /\ lost \in MatchStates /\ Gone(lost) = Gone(m)
  BY <1>1, GoneKept DEF Gone, Tracks, MatchStates
<1>3. Goes(m, lost) BY <1>1, <1>2, MovesNot DEF Goes
<1>4. n = lost \/ n \in CommitOneOf(lost, GraceExpires(m.table, p)) BY DEF Expire
<1> HIDE DEF lost
<1>5. \A t \in GraceExpires(m.table, p) : Moves(lost.table, t, Gone(lost))
  BY <1>1, <1>2, GraceMoves
<1> QED BY <1>2, <1>3, <1>4, <1>5, CommitOneGoes, GoesOn

\* applyExpiredReconnectGrace
LEMMA ExpireAllGoes ==
    ASSUME NEW m \in MatchStates, NEW due, NEW n \in ExpireAll(m, due)
    PROVE  Goes(m, n)
<1> DEFINE E == Expired(m, due)
<1>1. E \subseteq Gone(m) /\ E \subseteq People BY DEF Expired, Gone
<1>2. IsFiniteSet(E) BY <1>1, PeopleAssumption, FS_Subset
<1>3. PICK g : /\ ExpireAll(m, due) = g[E]
               /\ \A S \in SUBSET E : g[S] = After(m, g, S)
  BY <1>2, ExpireAllUnfolds
<1> DEFINE G == {S \in SUBSET E : \A o \in g[S] : Goes(m, o)}
<1> HIDE DEF E
<1>4. ASSUME NEW S \in SUBSET E, \A T \in SUBSET S : T # S => T \in G PROVE S \in G
  <2> SUFFICES ASSUME NEW o \in g[S] PROVE Goes(m, o) OBVIOUS
  <2>1. o \in After(m, g, S) BY <1>3
  <2>2. CASE S = {} BY <2>1, <2>2, GoesNot DEF After
  <2>3. CASE S # {}
    <3>1. PICK p \in S : \E u \in g[S \ {p}] : o \in Expire(u, p)
      <4>1. PICK p \in S : o \in UNION {Expire(u, p) : u \in g[S \ {p}]}
        BY <2>1, <2>3 DEF After
      <4> QED BY <4>1
    <3> PICK u \in g[S \ {p}] : o \in Expire(u, p) BY <3>1
    <3>2. S \ {p} \in G BY <1>4, <3>1
    <3>3. Goes(m, u) BY <3>1, <3>2
    <3>4. u \in MatchStates /\ Gone(u) = Gone(m) BY <3>3, GoneKept DEF Goes, Tracks
    <3>5. p \in Gone(u) BY <1>1, <3>1, <3>4
    <3> QED BY <3>1, <3>3, <3>4, <3>5, ExpireGoes, GoesOn
  <2> QED BY <2>2, <2>3
<1> HIDE DEF G
<1>5. SUBSET E \subseteq G BY <1>2, <1>4, SubsetInduction
<1>6. E \in G BY <1>5
<1> QED BY <1>3, <1>6 DEF G

\* releaseExpiredDisconnectedSeats
LEMMA ReleaseGoes == ASSUME NEW m \in MatchStates PROVE Goes(m, Release(m))
<1> DEFINE gone == Releasable(m)
           t == GivesUpSeat(m.table, gone)
           conn == [p \in People |-> IF p \in gone THEN "unknown" ELSE m.conn[p]]
<1>1. CASE gone = {} BY <1>1, GoesNot DEF Release
<1>2. CASE gone # {}
  <2>1. m.table \in TableViews /\ m.conn \in [People -> Statuses] BY DEF MatchStates
  <2>2. /\ t \in TableViews /\ t.seated = m.table.seated \ gone /\ t.out = m.table.out \ gone
        /\ t.broke = m.table.broke \ gone /\ t.phase = m.table.phase /\ t.dealt = m.table.dealt
    BY <2>1 DEF TableViews, GivesUpSeat
  <2>3. gone \subseteq Gone(m) \ m.table.dealt BY <2>1 DEF Releasable, Gone, TableViews
  <2>4. Moves(m.table, t, Gone(m)) BY <2>2, <2>3 DEF Moves
  <2>5. conn \in [People -> Statuses] BY <2>1 DEF Statuses
  <2>6. Release(m) = [m EXCEPT !.table = t, !.conn = conn, !.raised = TRUE, !.cast = TRUE, !.save = TRUE]
    BY <1>2 DEF Release, Changed
  <2> HIDE DEF t, conn
  <2>7. /\ Release(m) \in MatchStates /\ Release(m).present = m.present
        /\ Release(m).between = m.between /\ Release(m).table = t
        /\ Release(m).raised /\ Release(m).cast /\ Release(m).save
    BY <2>2, <2>5, <2>6 DEF MatchStates
  <2> QED BY <2>4, <2>7 DEF Goes, Tracks, Obliged
<1> QED BY <1>1, <1>2

\* A pause is on exactly if the hand is over, and who counts as ready can be dealt in.
PauseTrue(m) ==
    /\ m.between.on <=> Showdown(m)
    /\ m.between.ready \subseteq Eligible(m)

\* Between calls a pause is on only after a hand, and nobody is ready for none.
Paused(m) ==
    /\ m.between.on => Showdown(m)
    /\ ~m.between.on => m.between.ready = {}

\* A change of the pause
LEMMA PauseChangedFacts ==
    ASSUME NEW m \in MatchStates, NEW between,
           between \in [on : BOOLEAN, stage : {"fresh", "ripe", "late"}, ready : SUBSET People]
    PROVE  LET n == Changed([m EXCEPT !.between = between])
           IN  /\ Tracks(m, n) /\ n.table = m.table /\ n.conn = m.conn /\ n.between = between
<1> DEFINE n == Changed([m EXCEPT !.between = between])
<1>1. /\ n \in MatchStates /\ n.present = m.present /\ n.table = m.table /\ n.conn = m.conn
      /\ n.between = between /\ n.raised /\ n.cast /\ n.save
  BY DEF Changed, MatchStates
<1> HIDE DEF n
<1> QED BY <1>1 DEF Tracks, Obliged, n

\* ensureBetweenHandState
LEMMA EnsureFacts ==
    ASSUME NEW m \in MatchStates, Paused(m)
    PROVE  LET e == EnsureBetweenHand(m)
           IN  /\ Tracks(m, e) /\ e.table = m.table /\ PauseTrue(e)
               /\ ~e.between.on => e.between.ready = {}
               /\ m.between.on =>
                     e.between.ready \subseteq m.between.ready /\ e.between.stage = m.between.stage
<1> DEFINE e == EnsureBetweenHand(m)
<1>1. m.table \in TableViews /\ m.between.ready \subseteq People BY DEF MatchStates
<1>2. NoPause \in [on : BOOLEAN, stage : {"fresh", "ripe", "late"}, ready : SUBSET People]
  BY DEF NoPause
<1>3. CASE ~Showdown(m)
  <2>1. ~m.between.on /\ m.between.ready = {} BY <1>3 DEF Paused
  <2>2. e = m BY <1>3, <2>1 DEF EnsureBetweenHand, ClosePause
  <2> QED BY <1>3, <2>1, <2>2, TracksNot DEF PauseTrue
<1>4. CASE Showdown(m) /\ ~m.between.on
  <2> DEFINE b == [NoPause EXCEPT !.on = TRUE]
  <2>1. /\ b \in [on : BOOLEAN, stage : {"fresh", "ripe", "late"}, ready : SUBSET People]
        /\ b.on /\ b.ready = {}
    BY DEF NoPause
  <2>2. e = Changed([m EXCEPT !.between = b]) BY <1>4 DEF EnsureBetweenHand, OpenPause
  <2> HIDE DEF b
  <2>3. Tracks(m, e) /\ e.table = m.table /\ e.between = b BY <2>1, <2>2, PauseChangedFacts
  <2> QED BY <1>4, <2>1, <2>3 DEF PauseTrue, Showdown
<1>5. CASE Showdown(m) /\ m.between.on
  <2> DEFINE ready == m.between.ready \cap Eligible(m)
             b == [m.between EXCEPT !.ready = ready]
  <2>1. e = Prune(m) BY <1>5 DEF EnsureBetweenHand
  <2>2. CASE ready = m.between.ready
    <3>1. e = m BY <2>1, <2>2 DEF Prune
    <3> QED BY <1>5, <2>2, <3>1, TracksNot DEF PauseTrue
  <2>3. CASE ready # m.between.ready
    <3>1. /\ b \in [on : BOOLEAN, stage : {"fresh", "ripe", "late"}, ready : SUBSET People]
          /\ b.on = m.between.on /\ b.ready = ready /\ b.stage = m.between.stage
      BY <1>1 DEF MatchStates
    <3>2. e = Changed([m EXCEPT !.between = b]) BY <2>1, <2>3 DEF Prune
    <3> HIDE DEF b
    <3>3. Tracks(m, e) /\ e.table = m.table /\ e.between = b BY <3>1, <3>2, PauseChangedFacts
    <3>4. Eligible(e) = Eligible(m) BY <3>3 DEF Eligible
    <3> QED BY <1>5, <3>1, <3>3, <3>4 DEF PauseTrue, Showdown
  <2> QED BY <2>2, <2>3
<1> QED BY <1>3, <1>4, <1>5

\* A hand that is dealt was wanted by all in it, or the pause was over.
Wanted(m, n) ==
    m.between.on /\ m.between.stage # "late" /\ Playing(n.table) =>
        n.table.dealt \subseteq m.between.ready

\* The seats stay as they are.
SameSeats(t, u) == u.seated = t.seated /\ u.out = t.out /\ u.broke = t.broke

\* advanceToNextHand
LEMMA ClearsFacts ==
    ASSUME NEW t \in TableViews, NEW u \in ClearsHand(t)
    PROVE  /\ u \in TableViews /\ SameSeats(t, u) /\ u.phase \in {"none", "betting"}
           /\ u.phase = "none" => Idle(u)
           /\ u.phase # "none" =>
                 u.dealt = Playable(t) /\ Cardinality(Playable(t)) >= MinimumToPlay
<1> DEFINE v == [t EXCEPT !.phase = "none", !.dealt = {}, !.live = {}]
<1>1. /\ v \in TableViews /\ v.phase = "none" /\ v.seated = t.seated /\ v.out = t.out
      /\ v.broke = t.broke
  BY DEF TableViews, Phases
<1>2. u \in DealsNext(v) BY DEF ClearsHand
<1> HIDE DEF v
<1>3. Playable(v) = Playable(t) BY <1>1 DEF Playable
<1> QED BY <1>1, <1>2, <1>3, DealsNextFacts DEF SameSeats

\* advanceBetweenHandIfReady
LEMMA AdvanceFacts ==
    ASSUME NEW m \in MatchStates, Paused(m), NEW n \in AdvanceBetweenHand(m)
    PROVE  /\ Tracks(m, n) /\ SameSeats(m.table, n.table)
           /\ PauseTrue(n) /\ Paused(n)
           /\ Showdown(m) => Wanted(m, n) /\ (n.table.phase = "none" => Idle(n.table))
<1> DEFINE e == EnsureBetweenHand(m)
<1>1. /\ Tracks(m, e) /\ e.table = m.table /\ PauseTrue(e)
      /\ ~e.between.on => e.between.ready = {}
      /\ m.between.on =>
            e.between.ready \subseteq m.between.ready /\ e.between.stage = m.between.stage
  BY EnsureFacts
<1>2. e \in MatchStates /\ e.table \in TableViews BY <1>1 DEF Tracks, MatchStates
<1>3. \/ n = e
      \/ NextHandDue(e) /\ n \in CommitOneOf([e EXCEPT !.between = NoPause], ClearsHand(e.table))
  BY DEF AdvanceBetweenHand
<1> HIDE DEF e
<1>4. CASE n = e
  <2>1. SameSeats(m.table, n.table) /\ Paused(n) BY <1>1, <1>4 DEF SameSeats, Paused, PauseTrue
  <2>2. Showdown(m) => n.table.phase = "showdown" BY <1>1, <1>4 DEF Showdown
  <2> QED BY <1>1, <1>4, <2>1, <2>2 DEF Wanted, Playing
<1>5. CASE NextHandDue(e) /\ n \in CommitOneOf([e EXCEPT !.between = NoPause], ClearsHand(e.table))
  <2> DEFINE o == [e EXCEPT !.between = NoPause]
  <2>1. PICK t \in ClearsHand(e.table) : n = Commit(o, t) BY <1>5 DEF CommitOneOf
  <2>2. /\ t \in TableViews /\ SameSeats(e.table, t) /\ t.phase \in {"none", "betting"}
        /\ t.phase = "none" => Idle(t)
        /\ t.phase # "none" =>
              t.dealt = Playable(e.table) /\ Cardinality(Playable(e.table)) >= MinimumToPlay
    BY <1>2, <2>1, ClearsFacts
  <2>3. /\ o \in MatchStates /\ o.table = e.table /\ o.present = e.present /\ o.conn = e.conn
        /\ o.between = NoPause /\ o.raised = e.raised /\ o.cast = e.cast /\ o.save = e.save
    BY <1>2 DEF MatchStates, NoPause
  <2> HIDE DEF o
  <2>4. e.between.on /\ e.table.phase = "showdown" BY <1>1, <1>5 DEF NextHandDue, PauseTrue, Showdown
  <2>5. n = Changed([o EXCEPT !.table = t]) BY <2>1, <2>2, <2>3, <2>4 DEF Commit
  <2>6. /\ n \in MatchStates /\ n.present = e.present /\ n.table = t /\ n.between = NoPause
        /\ n.raised /\ n.cast /\ n.save
    BY <2>2, <2>3, <2>5 DEF Changed, MatchStates
  <2>7. Tracks(m, n) BY <1>1, <2>6 DEF Tracks, Obliged
  <2>8. PauseTrue(n) /\ Paused(n) BY <2>2, <2>6 DEF PauseTrue, Paused, NoPause, Showdown
  <2>9. Wanted(m, n)
    <3> SUFFICES ASSUME m.between.on, m.between.stage # "late", Playing(t)
                 PROVE  t.dealt \subseteq m.between.ready
      BY <2>6 DEF Wanted
    <3>1. t.phase # "none" BY DEF Playing
    <3>2. Eligible(e) \subseteq e.between.ready
      BY <1>1, <1>5, <2>2, <3>1 DEF NextHandDue, Eligible
    <3> QED BY <1>1, <2>2, <3>1, <3>2 DEF Eligible
  <2> QED BY <1>1, <2>2, <2>6, <2>7, <2>8, <2>9 DEF SameSeats
<1> QED BY <1>3, <1>4, <1>5

\* The tail of a pass
LEMMA BeginFacts ==
    ASSUME NEW m \in MatchStates, PauseTrue(m), Paused(m), NEW n \in BeginNextHand(m)
    PROVE  /\ Tracks(m, n) /\ SameSeats(m.table, n.table)
           /\ PauseTrue(n) /\ Paused(n)
           /\ m.table.phase # "none" => n = m
           /\ Idle(m.table) => n.table.phase = "none"
<1>1. CASE m.table.phase # "none"
  <2>1. n = m BY <1>1 DEF BeginNextHand
  <2> QED BY <1>1, <2>1, TracksNot DEF SameSeats, Idle
<1>2. CASE m.table.phase = "none"
  <2>1. ~m.between.on /\ m.between.ready = {} BY <1>2 DEF PauseTrue, Paused, Showdown
  <2>2. PICK t \in DealsNext(m.table) : n = Commit(m, t)
    BY <1>2, <2>1 DEF BeginNextHand, ClosePause, CommitOneOf
  <2>3. m.table \in TableViews BY DEF MatchStates
  <2>4. /\ t \in TableViews /\ SameSeats(m.table, t) /\ t.phase \in {"none", "betting"}
        /\ Idle(m.table) => t.phase = "none"
    BY <1>2, <2>2, <2>3, DealsNextFacts DEF SameSeats
  <2>5. Tracks(m, n) /\ n.table = t /\ n.between = m.between BY <2>2, <2>4, CommitFacts
  <2>6. PauseTrue(n) /\ Paused(n) BY <2>1, <2>4, <2>5 DEF PauseTrue, Paused, Showdown
  <2> QED BY <1>2, <2>4, <2>5, <2>6
<1> QED BY <1>1, <1>2

-----------------------------------------------------------------------------
(* A timer pass.                                                            *)

\* A clock that is found run out is one that was running.
RunsOut(m, due, clock, n) ==
    clock \in due /\ n.table.phase = clock /\ SameClock(m.table, n.table)

\* The match between the steps of a pass
Opened(m, due, a) ==
    IF RunsOut(m, due, "pause", a) THEN CommitOneOf(a, PauseIsOver(a.table)) ELSE {a}
Acted(m, due, d) ==
    IF RunsOut(m, due, "betting", d) THEN CommitOneOf(d, ClockRunsOut(d.table)) ELSE {d}
Given(m, due, e) ==
    IF RunsOut(m, due, "discard", e) THEN CommitOneOf(e, GiveAllCards(e.table)) ELSE {e}

\* A pass is its steps, in their order.
LEMMA PassUnfolds ==
    ASSUME NEW m, NEW due, NEW n \in Pass(m, due)
    PROVE  \E a \in CommitOneOf(m, PassGate(m.table, "start" \in due)) :
           \E b \in Opened(m, due, a) : \E c \in ExpireAll(b, due) :
           \E e \in Acted(m, due, Release(c)) : \E f \in Given(m, due, e) :
           \E k \in AdvanceBetweenHand(f) : n \in BeginNextHand(k)
<1> DEFINE gated == CommitOneOf(m, PassGate(m.table, "start" \in due))
           opened == UNION {Opened(m, due, a) : a \in gated}
           graced == UNION {ExpireAll(b, due) : b \in opened}
           released == {Release(c) : c \in graced}
           acted == UNION {Acted(m, due, d) : d \in released}
           given == UNION {Given(m, due, e) : e \in acted}
           advanced == UNION {AdvanceBetweenHand(f) : f \in given}
<1>1. n \in UNION {BeginNextHand(k) : k \in advanced}
  BY DEF Pass, RunsOut, Opened, Acted, Given
<1> HIDE DEF advanced
<1>2. PICK k \in advanced : n \in BeginNextHand(k) BY <1>1
<1> HIDE DEF given
<1>3. PICK f \in given : k \in AdvanceBetweenHand(f) BY <1>2 DEF advanced
<1> HIDE DEF acted
<1>4. PICK e \in acted : f \in Given(m, due, e) BY <1>3 DEF given
<1> HIDE DEF graced
<1>5. PICK c \in graced : e \in Acted(m, due, Release(c)) BY <1>4 DEF acted
<1> HIDE DEF opened
<1>6. PICK b \in opened : c \in ExpireAll(b, due) BY <1>5 DEF graced
<1> HIDE DEF gated
<1>7. PICK a \in gated : b \in Opened(m, due, a) BY <1>6 DEF opened
<1> QED BY <1>2, <1>3, <1>4, <1>5, <1>6, <1>7 DEF gated

\* The first steps of a pass leave the pause between hands alone.
LEMMA FirstStepsGo ==
    ASSUME NEW m \in MatchStates, NEW due,
           NEW a \in CommitOneOf(m, PassGate(m.table, "start" \in due)),
           NEW b \in Opened(m, due, a), NEW c \in ExpireAll(b, due),
           NEW e \in Acted(m, due, Release(c)), NEW f \in Given(m, due, e)
    PROVE  Goes(m, f)
<1>1. Goes(m, a) /\ a \in MatchStates
  <2>1. PICK elapsed \in BOOLEAN :
          PassGate(m.table, "start" \in due) = PassGate(m.table, elapsed)
    <3>1. CASE "start" \in due
      <4>1. PassGate(m.table, "start" \in due) = PassGate(m.table, TRUE) BY <3>1 DEF PassGate
      <4> QED BY <4>1
    <3>2. CASE "start" \notin due
      <4>1. PassGate(m.table, "start" \in due) = PassGate(m.table, FALSE) BY <3>2 DEF PassGate
      <4> QED BY <4>1
    <3> QED BY <3>1, <3>2
  <2>2. \A t \in PassGate(m.table, "start" \in due) : Moves(m.table, t, Gone(m))
    BY <2>1, PassGateMoves, MovesMore DEF MatchStates
  <2> QED BY <2>2, CommitOneGoes DEF Goes, Tracks
<1>2. Goes(a, b) /\ b \in MatchStates
  <2>1. CASE RunsOut(m, due, "pause", a)
    <3>1. a.table \in TableViews /\ Playing(a.table) BY <1>1, <2>1 DEF MatchStates, RunsOut, Playing
    <3>2. \A t \in PauseIsOver(a.table) : Moves(a.table, t, Gone(a))
      BY <3>1, OpenNextMoves, MovesMore DEF PauseIsOver
    <3> QED BY <1>1, <2>1, <3>2, CommitOneGoes DEF Opened, Goes, Tracks
  <2>2. CASE ~RunsOut(m, due, "pause", a) BY <1>1, <2>2, GoesNot DEF Opened
  <2> QED BY <2>1, <2>2
<1>3. Goes(b, c) /\ c \in MatchStates BY <1>2, ExpireAllGoes DEF Goes, Tracks
<1> DEFINE d == Release(c)
<1>4. Goes(c, d) /\ d \in MatchStates BY <1>3, ReleaseGoes DEF Goes, Tracks
<1>5. e \in Acted(m, due, d) OBVIOUS
<1> HIDE DEF d
<1>6. Goes(d, e) /\ e \in MatchStates
  <2>1. CASE RunsOut(m, due, "betting", d)
    <3>1. \A t \in ClockRunsOut(d.table) : Moves(d.table, t, Gone(d))
      BY <1>4, ClockMoves, MovesMore DEF MatchStates
    <3> QED BY <1>4, <1>5, <2>1, <3>1, CommitOneGoes DEF Acted, Goes, Tracks
  <2>2. CASE ~RunsOut(m, due, "betting", d) BY <1>4, <1>5, <2>2, GoesNot DEF Acted
  <2> QED BY <2>1, <2>2
<1>7. Goes(e, f)
  <2>1. CASE RunsOut(m, due, "discard", e)
    <3>1. e.table \in TableViews /\ Playing(e.table) BY <1>6, <2>1 DEF MatchStates, RunsOut, Playing
    <3>2. \A t \in GiveAllCards(e.table) : Moves(e.table, t, Gone(e))
      BY <3>1, GiveAllMoves, MovesMore
    <3> QED BY <1>6, <2>1, <3>2, CommitOneGoes DEF Given
  <2>2. CASE ~RunsOut(m, due, "discard", e) BY <1>6, <2>2, GoesNot DEF Given
  <2> QED BY <2>1, <2>2
<1> QED BY <1>1, <1>2, <1>3, <1>4, <1>6, <1>7, GoesOn

\* applyExpiredTableTimers as a whole
LEMMA PassFacts ==
    ASSUME NEW m \in MatchStates, Paused(m), NEW due, NEW n \in Pass(m, due)
    PROVE  /\ Tracks(m, n) /\ PauseTrue(n) /\ Paused(n) /\ Wanted(m, n)
           /\ \A p \in m.table.seated \ n.table.seated :
                 p \in Gone(m) /\ (m.table.phase # "none" => p \notin m.table.dealt)
           /\ \A p \in n.table.out \ (m.table.out \cup Gone(m)) : p \in n.table.broke
<1>1. \E a \in CommitOneOf(m, PassGate(m.table, "start" \in due)) :
      \E b \in Opened(m, due, a) : \E c \in ExpireAll(b, due) :
      \E e \in Acted(m, due, Release(c)) : \E f \in Given(m, due, e) :
      \E k \in AdvanceBetweenHand(f) : n \in BeginNextHand(k)
  BY PassUnfolds
<1>2. PICK f : Goes(m, f) /\ \E k \in AdvanceBetweenHand(f) : n \in BeginNextHand(k)
  BY <1>1, FirstStepsGo
<1>3. PICK k \in AdvanceBetweenHand(f) : n \in BeginNextHand(k) BY <1>2
<1>4. /\ f \in MatchStates /\ f.table \in TableViews /\ f.between = m.between
      /\ Tracks(m, f) /\ Moves(m.table, f.table, Gone(m))
  BY <1>2 DEF Goes, Tracks, MatchStates
<1>5. Paused(f) BY <1>4 DEF Paused, Showdown, Moves
<1>6. /\ Tracks(f, k) /\ SameSeats(f.table, k.table) /\ PauseTrue(k) /\ Paused(k)
      /\ Showdown(f) => Wanted(f, k) /\ (k.table.phase = "none" => Idle(k.table))
  BY <1>3, <1>4, <1>5, AdvanceFacts
<1>7. k \in MatchStates BY <1>6 DEF Tracks
<1>8. /\ Tracks(k, n) /\ SameSeats(k.table, n.table) /\ PauseTrue(n) /\ Paused(n)
      /\ k.table.phase # "none" => n = k
      /\ Idle(k.table) => n.table.phase = "none"
  BY <1>3, <1>6, <1>7, BeginFacts
<1>9. Tracks(m, n) BY <1>4, <1>6, <1>8, TracksOn
<1>10. Wanted(m, n)
  <2> SUFFICES ASSUME m.between.on, m.between.stage # "late", Playing(n.table)
               PROVE  n.table.dealt \subseteq m.between.ready
    BY DEF Wanted
  <2>1. Showdown(f) BY <1>4, <1>5 DEF Paused
  <2>2. n.table.phase # "none" BY DEF Playing
  <2>3. n = k BY <1>6, <1>8, <2>1, <2>2
  <2> QED BY <1>4, <1>6, <2>1, <2>3 DEF Wanted
<1>11. SameSeats(f.table, n.table) BY <1>6, <1>8 DEF SameSeats
<1> QED BY <1>4, <1>8, <1>9, <1>10, <1>11 DEF SameSeats, Moves

-----------------------------------------------------------------------------
(* What messages and joins do.                                              *)

\* No message takes a seat from anybody or ends the show of a hand, but for the one that
\* starts the next hand.
Keeps(t, u) ==
    /\ u \in TableViews /\ t.seated \subseteq u.seated
    /\ t.phase = "showdown" => u.phase = "showdown"

\* One after the other
LEMMA KeepsOn ==
    ASSUME NEW t, NEW u, NEW v, Keeps(t, u), Keeps(u, v)
    PROVE  Keeps(t, v)
BY DEF Keeps

\* What the hand does of itself is of this kind.
LEMMA MovesKeep == ASSUME NEW t, NEW u, Moves(t, u, {}) PROVE Keeps(t, u)
BY DEF Moves, Keeps

\* beginNextHandIfReady
LEMMA DealsNextKeeps == ASSUME NEW t \in TableViews, NEW u \in DealsNext(t) PROVE Keeps(t, u)
BY DealsNextFacts DEF Keeps

\* seatPlayer
LEMMA TakesSeatKeeps == ASSUME NEW t \in TableViews, NEW p \in People PROVE Keeps(t, TakesSeat(t, p))
BY DEF Keeps, TakesSeat, TableViews

\* setSittingOut, to sit out
LEMMA SitsOutKeeps == ASSUME NEW t \in TableViews, NEW p \in People PROVE Keeps(t, SitsOut(t, p))
BY DEF Keeps, SitsOut, TableViews

\* setSittingOut, to come back
LEMMA ComesBackKeeps == ASSUME NEW t \in TableViews, NEW p \in People PROVE Keeps(t, ComesBack(t, p))
<1> DEFINE u == [t EXCEPT !.out = @ \ {p}]
<1>1. Keeps(t, u) /\ Keeps(t, t) BY DEF Keeps, TableViews
<1>2. ComesBack(t, p) \in {t, u, SitsOut(t, p)} BY DEF ComesBack
<1> HIDE DEF u
<1> QED BY <1>1, <1>2, SitsOutKeeps

\* A rebuy
LEMMA BuysInKeeps == ASSUME NEW t \in TableViews, NEW p \in People PROVE Keeps(t, BuysIn(t, p))
BY DEF Keeps, BuysIn, TableViews

\* readyForHand
LEMMA SaysReadyKeeps ==
    ASSUME NEW t \in TableViews, NEW p \in People, NEW ready \in BOOLEAN
    PROVE  Keeps(t, SaysReady(t, p, ready))
<1> DEFINE g == OpenGate(t)
<1>1. g \in TableViews /\ g.phase = t.phase /\ g.seated = t.seated BY GateFacts
<1>2. SaysReady(t, p, ready) \in
        {g, [g EXCEPT !.ready = @ \cup {p}], [g EXCEPT !.ready = @ \ {p}]}
  BY DEF SaysReady
<1> HIDE DEF g
<1> QED BY <1>1, <1>2 DEF Keeps, TableViews

\* A hand is dealt without the consent of one at most.
NearlyWanted(m, n) ==
    m.between.on /\ m.between.stage # "late" /\ Playing(n.table) =>
        Cardinality(n.table.dealt \ m.between.ready) <= 1

\* Nobody counts as missing, then none too many.
LEMMA WantedNearly == ASSUME NEW m, NEW n, Wanted(m, n) PROVE NearlyWanted(m, n)
<1> SUFFICES ASSUME n.table.dealt \subseteq m.between.ready
             PROVE  Cardinality(n.table.dealt \ m.between.ready) <= 1
  BY DEF Wanted, NearlyWanted
<1>1. n.table.dealt \ m.between.ready = {} OBVIOUS
<1> QED BY <1>1, FS_EmptySet

\* The way of a match through a message
Minds(m, n) == Tracks(m, n) /\ n.between = m.between /\ Keeps(m.table, n.table)

\* One change after the other
LEMMA MindsOn == ASSUME NEW m, NEW n, NEW o, Minds(m, n), Minds(n, o) PROVE Minds(m, o)
BY TracksOn, KeepsOn DEF Minds

\* It leaves the pause as honest as it was, and no hand is dealt in one.
LEMMA MindsFacts ==
    ASSUME NEW m, NEW n, Paused(m), Minds(m, n)
    PROVE  Paused(n) /\ NearlyWanted(m, n)
BY DEF Paused, Minds, Keeps, NearlyWanted, Showdown, Playing

\* A change of the table
LEMMA CommitOneMinds ==
    ASSUME NEW m \in MatchStates, NEW T, \A t \in T : Keeps(m.table, t), NEW n \in CommitOneOf(m, T)
    PROVE  Minds(m, n)
BY CommitFacts DEF Minds, Keeps, CommitOneOf

\* A change of a connection
LEMMA MarkMinds ==
    ASSUME NEW m \in MatchStates, NEW p, NEW status \in Statuses
    PROVE  Minds(m, Mark(m, p, status))
<1>1. Keeps(m.table, m.table) BY DEF Keeps, MatchStates
<1> QED BY <1>1, MarkFacts DEF Minds

\* A change whatever happened
LEMMA ChangedMinds == ASSUME NEW m \in MatchStates PROVE Minds(m, Changed(m))
<1>1. Keeps(m.table, m.table) BY DEF Keeps, MatchStates
<1> DEFINE n == Changed(m)
<1>2. /\ n \in MatchStates /\ n.present = m.present /\ n.table = m.table
      /\ n.between = m.between /\ n.raised /\ n.cast /\ n.save
  BY DEF Changed, MatchStates
<1> HIDE DEF n
<1> QED BY <1>1, <1>2 DEF Minds, Tracks, Obliged, n

\* A message that is carried out
Serves(m, n) ==
    /\ Tracks(m, n) /\ Paused(n) /\ NearlyWanted(m, n)
    /\ m.table.seated \subseteq n.table.seated

\* An ordinary one
LEMMA MindsServes == ASSUME NEW m, NEW n, Paused(m), Minds(m, n) PROVE Serves(m, n)
BY MindsFacts DEF Minds, Serves, Keeps

\* `join` of a player without a seat
LEMMA TakeSeatServes ==
    ASSUME NEW m \in MatchStates, Paused(m), NEW p \in People,
           NEW n \in CommitOneOf(m, {ComesBack(t, p) : t \in DealsNext(TakesSeat(m.table, p))})
    PROVE  Serves(m, n)
<1>1. m.table \in TableViews BY DEF MatchStates
<1>2. ASSUME NEW t \in DealsNext(TakesSeat(m.table, p)) PROVE Keeps(m.table, ComesBack(t, p))
  <2> DEFINE u == TakesSeat(m.table, p)
  <2>1. Keeps(m.table, u) BY <1>1, TakesSeatKeeps
  <2>2. t \in DealsNext(u) BY <1>2
  <2> HIDE DEF u
  <2>3. Keeps(u, t) BY <2>1, <2>2, DealsNextKeeps DEF Keeps
  <2>4. Keeps(t, ComesBack(t, p)) BY <2>3, ComesBackKeeps DEF Keeps
  <2> QED BY <2>1, <2>3, <2>4, KeepsOn
<1> QED BY <1>2, CommitOneMinds, MindsServes

\* The return to a seat, by `join` or by reconnecting
LEMMA ReturnKeeps ==
    ASSUME NEW t \in TableViews, NEW p \in People, NEW u \in DealsNext(ComesBack(t, p))
    PROVE  Keeps(t, u)
<1> DEFINE v == ComesBack(t, p)
<1>1. Keeps(t, v) /\ u \in DealsNext(v) BY ComesBackKeeps
<1> HIDE DEF v
<1>2. Keeps(v, u) BY <1>1, DealsNextKeeps DEF Keeps
<1> QED BY <1>1, <1>2, KeepsOn

\* `join` of a player who has a seat
LEMMA SitBackInServes ==
    ASSUME NEW m \in MatchStates, Paused(m), NEW p \in People,
           NEW n \in CommitOneOf(m, DealsNext(ComesBack(m.table, p)))
    PROVE  Serves(m, n)
<1>1. \A t \in DealsNext(ComesBack(m.table, p)) : Keeps(m.table, t)
  BY ReturnKeeps DEF MatchStates
<1> QED BY <1>1, CommitOneMinds, MindsServes

\* `reconnect`, and what a join does
LEMMA ReconnectServes ==
    ASSUME NEW m \in MatchStates, Paused(m), NEW p \in People,
           NEW n \in CommitOneOf(Mark(m, p, "connected"), DealsNext(ComesBack(m.table, p)))
    PROVE  Serves(m, n) /\ Minds(Mark(m, p, "connected"), n)
<1> DEFINE k == Mark(m, p, "connected")
<1>1. Minds(m, k) /\ k.table = m.table /\ k \in MatchStates
  BY MarkMinds, MarkFacts DEF Statuses, Minds, Tracks
<1>2. n \in CommitOneOf(k, DealsNext(ComesBack(m.table, p))) OBVIOUS
<1> HIDE DEF k
<1>3. \A t \in DealsNext(ComesBack(m.table, p)) : Keeps(k.table, t)
  BY <1>1, ReturnKeeps DEF MatchStates
<1>4. Minds(k, n) BY <1>1, <1>2, <1>3, CommitOneMinds
<1> QED BY <1>1, <1>4, MindsOn, MindsServes DEF k

\* An action or a discard: its handler says at any rate that something has changed.
LEMMA InHandServes ==
    ASSUME NEW m \in MatchStates, Paused(m), NEW T, \A t \in T : Moves(m.table, t, {}),
           NEW n \in {Changed(k) : k \in CommitOneOf(m, T)}
    PROVE  Serves(m, n)
<1>1. PICK k \in CommitOneOf(m, T) : n = Changed(k) OBVIOUS
<1>2. \A t \in T : Keeps(m.table, t) BY MovesKeep
<1>3. Minds(m, k) BY <1>1, <1>2, CommitOneMinds
<1>4. k \in MatchStates BY <1>3 DEF Minds, Tracks
<1>5. Minds(k, n) BY <1>1, <1>4, ChangedMinds
<1> QED BY <1>3, <1>5, MindsOn, MindsServes

\* setReadyForNextHand
LEMMA ReadyForNextHandServes ==
    ASSUME NEW m \in MatchStates, Paused(m), Showdown(m), NEW p \in Eligible(m),
           NEW ready \in BOOLEAN, NEW n,
           LET e == EnsureBetweenHand(m)
               set == IF ready THEN e.between.ready \cup {p} ELSE e.between.ready \ {p}
           IN  n \in AdvanceBetweenHand(
                  IF set = e.between.ready THEN e ELSE Changed([e EXCEPT !.between.ready = set]))
    PROVE  Serves(m, n)
<1> DEFINE e == EnsureBetweenHand(m)
           set == IF ready THEN e.between.ready \cup {p} ELSE e.between.ready \ {p}
           x == IF set = e.between.ready THEN e ELSE Changed([e EXCEPT !.between.ready = set])
<1>1. n \in AdvanceBetweenHand(x) OBVIOUS
<1>2. /\ Tracks(m, e) /\ e.table = m.table /\ PauseTrue(e)
      /\ m.between.on =>
            e.between.ready \subseteq m.between.ready /\ e.between.stage = m.between.stage
  BY EnsureFacts
<1>3. e \in MatchStates /\ e.between.on BY <1>2 DEF Tracks, PauseTrue, Showdown
<1>4. p \in People BY DEF Eligible, Playable, MatchStates, TableViews
<1> HIDE DEF e
<1>5. set \subseteq e.between.ready \cup {p} /\ set \in SUBSET People
  BY <1>3, <1>4 DEF MatchStates
<1>6. /\ Tracks(e, x) /\ x.table = e.table /\ x.between.on /\ x.between.stage = e.between.stage
      /\ x.between.ready \subseteq e.between.ready \cup {p}
  <2>1. CASE set = e.between.ready
    <3>1. x = e BY <2>1
    <3> QED BY <1>3, <1>5, <2>1, <3>1, TracksNot
  <2>2. CASE set # e.between.ready
    <3> DEFINE b == [e.between EXCEPT !.ready = set]
    <3>1. x = Changed([e EXCEPT !.between = b]) BY <2>2
    <3> HIDE DEF x, set
    <3>2. /\ b \in [on : BOOLEAN, stage : {"fresh", "ripe", "late"}, ready : SUBSET People]
          /\ b.on = e.between.on /\ b.stage = e.between.stage /\ b.ready = set
      BY <1>3, <1>5 DEF MatchStates
    <3> HIDE DEF b
    <3>3. Tracks(e, x) /\ x.table = e.table /\ x.between = b
      BY <1>3, <3>1, <3>2, PauseChangedFacts
    <3> QED BY <1>3, <1>5, <3>2, <3>3
  <2> QED BY <2>1, <2>2
<1> HIDE DEF x
<1>7. x \in MatchStates /\ Paused(x) BY <1>2, <1>6 DEF Tracks, Paused, Showdown
<1>8. /\ Tracks(x, n) /\ SameSeats(x.table, n.table) /\ Paused(n)
      /\ Showdown(x) => Wanted(x, n)
  BY <1>1, <1>7, AdvanceFacts
<1>9. Wanted(x, n) BY <1>2, <1>6, <1>8 DEF Showdown
<1>10. NearlyWanted(m, n)
  <2> SUFFICES ASSUME m.between.on, m.between.stage # "late", Playing(n.table)
               PROVE  Cardinality(n.table.dealt \ m.between.ready) <= 1
    BY DEF NearlyWanted
  <2>1. n.table.dealt \subseteq x.between.ready BY <1>2, <1>6, <1>9 DEF Wanted
  <2>2. n.table.dealt \ m.between.ready \subseteq {p} BY <1>2, <1>6, <2>1
  <2>3. IsFiniteSet({p}) /\ Cardinality({p}) = 1 BY FS_Singleton
  <2>4. /\ Cardinality(n.table.dealt \ m.between.ready) \in Nat
        /\ Cardinality(n.table.dealt \ m.between.ready) <= Cardinality({p})
    BY <2>2, <2>3, FS_Subset, FS_CardinalityType
  <2> QED BY <2>3, <2>4
<1>11. Tracks(m, n) BY <1>2, <1>6, <1>8, TracksOn
<1> QED BY <1>2, <1>6, <1>8, <1>10, <1>11 DEF Serves, SameSeats

\* A rebuy, or leaving the seat
LEMMA SeatStepServes ==
    ASSUME NEW m \in MatchStates, Paused(m), NEW p \in People,
           NEW n \in CommitOneOf(m, {BuysIn(m.table, p)}) \cup CommitOneOf(m, {SitsOut(m.table, p)})
    PROVE  Serves(m, n)
<1>1. Keeps(m.table, BuysIn(m.table, p)) /\ Keeps(m.table, SitsOut(m.table, p))
  BY BuysInKeeps, SitsOutKeeps DEF MatchStates
<1> QED BY <1>1, CommitOneMinds, MindsServes

\* readyForHand
LEMMA ReadyForHandServes ==
    ASSUME NEW m \in MatchStates, Paused(m), NEW p \in People,
           NEW ready \in BOOLEAN, NEW elapsed \in BOOLEAN,
           NEW n \in CommitOneOf(m, PassGate(SaysReady(m.table, p, ready), elapsed))
    PROVE  Serves(m, n)
<1> DEFINE t == SaysReady(m.table, p, ready)
<1>1. Keeps(m.table, t) BY SaysReadyKeeps DEF MatchStates
<1>2. n \in CommitOneOf(m, PassGate(t, elapsed)) OBVIOUS
<1> HIDE DEF t
<1>3. \A u \in PassGate(t, elapsed) : Keeps(t, u) BY <1>1, PassGateMoves, MovesKeep DEF Keeps
<1>4. \A u \in PassGate(t, elapsed) : Keeps(m.table, u) BY <1>1, <1>3, KeepsOn
<1> QED BY <1>2, <1>4, CommitOneMinds, MindsServes

-----------------------------------------------------------------------------
(* The inductive invariant.                                                 *)

\* Between handlers every change has been numbered and was in a checkpoint; if it was not
\* sent yet, a broadcast is due before the tick ends.  Where nobody is connected in a tick
\* nothing is received, and the pause stays as the pass has left it.
IInv ==
    /\ TypeOK
    /\ ~match.raised /\ ~match.save
    /\ versioned /\ saved
    /\ seen \/ match.cast
    /\ ~inTick => seen
    /\ Paused(match)
    /\ inTick /\ match.present = {} => PauseTrue(match)

\* What comes of a match counts for everything in which it differs from the one that is.
Accounts(m) ==
    /\ m \in MatchStates /\ Paused(m)
    /\ m.raised \/ View(m) = View(match)
    /\ m.save \/ Durable(m) = Durable(match)
    /\ m.cast \/ (~match.cast /\ View(m) = View(match))

\* The same match, as it goes on
Continues(m) ==
    /\ match'.table = m.table /\ match'.present = m.present
    /\ match'.conn = m.conn /\ match'.between = m.between

\* What is not changed is shown and saved the same.
LEMMA SameView ==
    ASSUME NEW m, NEW n, SameShown(m, n), n.present = m.present
    PROVE  View(n) = View(m) /\ Durable(n) = Durable(m)
<1>1. \A p : ShownConnection(n, p) = ShownConnection(m, p)
  BY DEF SameShown, ShownConnection, Connected
<1>2. {<<p, ShownConnection(n, p)>> : p \in n.table.seated}
        = {<<p, ShownConnection(m, p)>> : p \in m.table.seated}
  BY <1>1 DEF SameShown
<1> QED BY <1>2 DEF View, Durable, SameShown

\* A match that tracks its changes counts for them.
LEMMA TracksAccounts ==
    ASSUME NEW m, Tracks(match, m), Paused(m)
    PROVE  Accounts(m)
<1>1. Obliged(m) \/ (View(m) = View(match) /\ Durable(m) = Durable(match))
  BY SameView DEF Tracks
<1> QED BY <1>1 DEF Accounts, Obliged, Tracks

\* The end of every handler
LEMMA BecomesFacts ==
    ASSUME IInv, NEW results, NEW sends \in BOOLEAN, Becomes(results, sends),
           \A m \in results : Accounts(m)
    PROVE  /\ match' \in MatchStates /\ ~match'.raised /\ ~match'.save
           /\ versioned' = TRUE /\ saved' = TRUE /\ seen' \in BOOLEAN
           /\ seen' \/ match'.cast
           /\ sends => seen'
           /\ Paused(match)'
           /\ \E m \in results : Continues(m)
<1>1. PICK m \in results :
        /\ versioned' = (versioned /\ (m.raised \/ View(m) = View(match)))
        /\ saved' = (m.save \/ (saved /\ Durable(m) = Durable(match)))
        /\ seen' = ((sends /\ m.cast) \/ (seen /\ View(m) = View(match)))
        /\ match' = [m EXCEPT !.raised = FALSE, !.save = FALSE, !.cast = @ /\ ~sends]
  BY DEF Becomes
<1>2. Accounts(m) BY <1>1
<1>3. m.cast \in BOOLEAN BY <1>2 DEF Accounts, MatchStates
<1>4. /\ match' \in MatchStates /\ ~match'.raised /\ ~match'.save
      /\ Continues(m) /\ match'.cast = (m.cast /\ ~sends)
  <2>1. match' = [m EXCEPT !.raised = FALSE, !.save = FALSE, !.cast = m.cast /\ ~sends] BY <1>1
  <2>2. (m.cast /\ ~sends) \in BOOLEAN BY <1>3
  <2> QED BY <1>2, <2>1, <2>2 DEF Accounts, MatchStates, Continues
<1>5. versioned' = TRUE /\ saved' = TRUE BY <1>1, <1>2 DEF Accounts, IInv
<1>6. seen' \in BOOLEAN BY <1>1, <1>3 DEF IInv, TypeOK
<1>7. (seen' \/ match'.cast) /\ (sends => seen') BY <1>1, <1>2, <1>4 DEF Accounts, IInv
<1>8. Paused(match)' BY <1>2, <1>4 DEF Accounts, Paused, Continues, Showdown
<1> QED BY <1>1, <1>4, <1>5, <1>6, <1>7, <1>8

-----------------------------------------------------------------------------
(* The steps of the match.                                                  *)

\* What the action properties say, without the stuttering
SeatsStep == \A p \in Table.seated \ Table'.seated :
                 ~HasSession(p) /\ ~(Playing(Table) /\ p \in Table.dealt)
GraceStep == \A p \in Table'.out \ Table.out :
                 HasSession(p) /\ inTick' # inTick => p \in Table'.broke
PauseStep == inTick' # inTick /\ match'.present = match.present =>
                 /\ match'.between.on <=> Showdown(match')
                 /\ match'.between.ready \subseteq Eligible(match')
HandStep == match.between.on /\ match.between.stage # "late" /\ Playing(Table') =>
                 Cardinality(Table'.dealt \ match.between.ready) <= 1
Steps == IInv' /\ SeatsStep /\ GraceStep /\ PauseStep /\ HandStep

\* Nothing happens.
LEMMA StepsNot == ASSUME IInv, UNCHANGED vars PROVE Steps
<1>1. match' = match /\ inTick' = inTick /\ lapsed' = lapsed BY DEF vars
<1>2. IInv' BY DEF IInv, TypeOK, vars
<1> QED BY <1>1, <1>2 DEF Steps, SeatsStep, GraceStep, PauseStep, HandStep, IInv, Paused, Playing, Showdown, Table

\* A timer pass
LEMMA PassStep ==
    ASSUME IInv, NEW due, due \in SUBSET Running(match), TickBegins(due) \/ TickEnds(due)
    PROVE  Steps
<1> DEFINE results == Pass(match, due)
<1>1. PICK sends \in BOOLEAN :
        /\ Becomes(results, sends) /\ inTick' = ~inTick /\ sends = inTick
        /\ lapsed' \in {due \cap People, {}}
  BY DEF TickBegins, TickEnds, IInv, TypeOK
<1>2. ASSUME NEW n \in results
      PROVE  /\ Tracks(match, n) /\ PauseTrue(n) /\ Paused(n) /\ Wanted(match, n)
             /\ \A p \in match.table.seated \ n.table.seated :
                   p \in Gone(match) /\ (match.table.phase # "none" => p \notin match.table.dealt)
             /\ \A p \in n.table.out \ (match.table.out \cup Gone(match)) : p \in n.table.broke
  BY PassFacts DEF IInv, TypeOK
<1>3. \A n \in results : Accounts(n) BY <1>2, TracksAccounts
<1> HIDE DEF results
<1>4. /\ match' \in MatchStates /\ ~match'.raised /\ ~match'.save
      /\ versioned' = TRUE /\ saved' = TRUE /\ seen' \in BOOLEAN
      /\ seen' \/ match'.cast
      /\ sends => seen'
      /\ Paused(match)'
      /\ \E n \in results : Continues(n)
  BY <1>1, <1>3, BecomesFacts
<1>5. PICK n \in results : Continues(n) BY <1>4
<1>6. PauseTrue(match)' BY <1>2, <1>5 DEF PauseTrue, Continues, Showdown, Eligible
<1>7. IInv'
  <2>1. ~inTick' => seen' BY <1>1, <1>4
  <2>2. inTick' \in BOOLEAN /\ lapsed' \subseteq People BY <1>1 DEF IInv, TypeOK
  <2> QED BY <1>4, <1>6, <2>1, <2>2 DEF IInv, TypeOK
<1>8. SeatsStep
  <2> SUFFICES ASSUME NEW p \in match.table.seated \ n.table.seated
               PROVE  ~HasSession(p) /\ ~(Playing(match.table) /\ p \in match.table.dealt)
    BY <1>5 DEF SeatsStep, Table, Continues
  <2> QED BY <1>2 DEF Gone, Connected, HasSession, Playing
<1>9. GraceStep
  <2> SUFFICES ASSUME NEW p \in n.table.out \ match.table.out, HasSession(p)
               PROVE  p \in n.table.broke
    BY <1>5 DEF GraceStep, Table, Continues
  <2> QED BY <1>2 DEF Gone, Connected, HasSession
<1>10. PauseStep BY <1>6 DEF PauseStep, PauseTrue, Showdown, Eligible
<1>11. HandStep
  <2>1. NearlyWanted(match, n) BY <1>2, WantedNearly
  <2> QED BY <1>5, <2>1 DEF HandStep, NearlyWanted, Table, Continues
<1> QED BY <1>7, <1>8, <1>9, <1>10, <1>11 DEF Steps

\* A message
LEMMA ReceivesStep ==
    ASSUME IInv, NEW p \in People, NEW results, Receives(p, results),
           \A n \in results : Serves(match, n)
    PROVE  Steps
<1>1. Becomes(results, FALSE) /\ inTick /\ Connected(match, p) /\ inTick' = inTick /\ lapsed' = lapsed
  BY DEF Receives
<1>2. \A n \in results : Accounts(n) BY TracksAccounts DEF Serves
<1>3. /\ match' \in MatchStates /\ ~match'.raised /\ ~match'.save
      /\ versioned' = TRUE /\ saved' = TRUE /\ seen' \in BOOLEAN
      /\ seen' \/ match'.cast
      /\ Paused(match)'
      /\ \E n \in results : Continues(n)
  BY <1>1, <1>2, BecomesFacts
<1>4. PICK n \in results : Continues(n) BY <1>3
<1>5. Serves(match, n) OBVIOUS
<1>6. match'.present # {} BY <1>1, <1>4, <1>5 DEF Connected, Continues, Serves, Tracks
<1>7. IInv' BY <1>1, <1>3, <1>6 DEF IInv, TypeOK
<1>8. SeatsStep BY <1>4, <1>5 DEF SeatsStep, Serves, Table, Continues
<1>9. HandStep BY <1>4, <1>5 DEF HandStep, Serves, NearlyWanted, Table, Continues
<1> QED BY <1>1, <1>7, <1>8, <1>9 DEF Steps, GraceStep, PauseStep

\* A session joins: everything is due for its player, who is connected from now on.
LEMMA JoinStep == ASSUME IInv, NEW x \in Sessions, MatchJoin(x) PROVE Steps
<1> DEFINE base == [match EXCEPT !.present = @ \cup {x}]
           k == Mark(base, x[1], "connected")
           results == CommitOneOf(k, DealsNext(ComesBack(k.table, x[1])))
<1>1. Becomes(results, TRUE) /\ ~inTick /\ inTick' = inTick /\ lapsed' = lapsed BY DEF MatchJoin
<1>2. x[1] \in People BY SessionsAssumption
<1>3. /\ base \in MatchStates /\ base.table = match.table /\ base.between = match.between
  BY DEF IInv, TypeOK, MatchStates
<1>4. Paused(base) BY <1>3 DEF IInv, Paused, Showdown
<1> HIDE DEF base
<1>5. k.table = base.table /\ Obliged(k) /\ k \in MatchStates /\ k.between = base.between
  BY <1>3, MarkFacts DEF Statuses, Tracks
<1>6. ASSUME NEW n \in results PROVE Serves(base, n) /\ Obliged(n)
  <2>1. n \in CommitOneOf(Mark(base, x[1], "connected"), DealsNext(ComesBack(base.table, x[1])))
    BY <1>5
  <2> HIDE DEF k
  <2>2. Serves(base, n) /\ Minds(k, n) BY <1>2, <1>3, <1>4, <2>1, ReconnectServes DEF k
  <2> QED BY <1>5, <2>2 DEF Minds, Tracks, Obliged
<1> HIDE DEF k, results
<1>7. \A n \in results : Accounts(n) BY <1>6 DEF Serves, Tracks, Accounts, Obliged
<1>8. /\ match' \in MatchStates /\ ~match'.raised /\ ~match'.save
      /\ versioned' = TRUE /\ saved' = TRUE /\ seen' \in BOOLEAN
      /\ seen' \/ match'.cast
      /\ seen'
      /\ Paused(match)'
      /\ \E n \in results : Continues(n)
  BY <1>1, <1>7, BecomesFacts
<1>9. PICK n \in results : Continues(n) BY <1>8
<1>10. Serves(base, n) BY <1>6
<1>11. IInv' BY <1>1, <1>8 DEF IInv, TypeOK
<1>12. SeatsStep BY <1>3, <1>9, <1>10 DEF SeatsStep, Serves, Table, Continues
<1>13. HandStep BY <1>3, <1>9, <1>10 DEF HandStep, Serves, NearlyWanted, Table, Continues
<1> QED BY <1>1, <1>11, <1>12, <1>13 DEF Steps, GraceStep, PauseStep

\* A session leaves: for the others of the same player nothing has changed.
LEMMA LeaveStep == ASSUME IInv, NEW x \in Sessions, MatchLeave(x) PROVE Steps
<1> DEFINE m == Without(x)
           n == IF Connected(m, x[1]) THEN m ELSE MarkLost(m, x[1])
           results == {n}
<1>1. Becomes(results, TRUE) /\ ~inTick /\ inTick' = inTick /\ lapsed' = lapsed BY DEF MatchLeave
<1>2. /\ m \in MatchStates /\ m.table = match.table /\ m.between = match.between
      /\ m.conn = match.conn /\ m.present = match.present \ {x} /\ m.cast /\ m.save
  BY DEF IInv, TypeOK, MatchStates, Without
<1> HIDE DEF m
<1>3. /\ n \in MatchStates /\ n.table = match.table /\ n.between = match.between
      /\ n.cast /\ n.save
      /\ n.raised \/ View(n) = View(match)
  <2>1. CASE ~Connected(m, x[1])
    <3> DEFINE status == IF x[1] \in m.table.seated THEN "reconnecting" ELSE "disconnected"
    <3>1. n = Mark(m, x[1], status) BY <2>1 DEF MarkLost
    <3>2. status \in Statuses BY DEF Statuses
    <3> HIDE DEF status, n
    <3>3. Tracks(m, n) /\ Obliged(n) /\ n.table = m.table /\ n.between = m.between
      BY <1>2, <3>1, <3>2, MarkFacts
    <3> QED BY <1>2, <3>3 DEF Tracks, Obliged
  <2>2. CASE Connected(m, x[1])
    <3>1. n = m BY <2>2
    <3>2. \A p : Connected(m, p) <=> Connected(match, p) BY <1>2, <2>2 DEF Connected
    <3>3. \A p : ShownConnection(m, p) = ShownConnection(match, p)
      BY <1>2, <3>2 DEF ShownConnection
    <3>4. {<<p, ShownConnection(m, p)>> : p \in m.table.seated}
            = {<<p, ShownConnection(match, p)>> : p \in match.table.seated}
      BY <1>2, <3>3
    <3>5. View(m) = View(match) BY <1>2, <3>4 DEF View
    <3> QED BY <1>2, <3>1, <3>5
  <2> QED BY <2>1, <2>2
<1> HIDE DEF n
<1>4. Paused(n) BY <1>3 DEF IInv, Paused, Showdown
<1>5. \A k \in results : Accounts(k) BY <1>3, <1>4 DEF Accounts
<1> HIDE DEF results
<1>6. /\ match' \in MatchStates /\ ~match'.raised /\ ~match'.save
      /\ versioned' = TRUE /\ saved' = TRUE /\ seen' \in BOOLEAN
      /\ seen' \/ match'.cast
      /\ seen'
      /\ Paused(match)'
      /\ \E k \in results : Continues(k)
  BY <1>1, <1>5, BecomesFacts
<1>7. Table' = Table BY <1>3, <1>6 DEF results, Continues, Table
<1>8. IInv' BY <1>1, <1>6 DEF IInv, TypeOK
<1>9. HandStep BY <1>7 DEF HandStep, IInv, Paused, Showdown, Playing, Table
<1> QED BY <1>1, <1>7, <1>8, <1>9 DEF Steps, SeatsStep, GraceStep, PauseStep

\* The pause gets older.
LEMMA PauseGoesOnStep == ASSUME IInv, PauseGoesOn PROVE Steps
<1> DEFINE stage == IF match.between.stage = "fresh" THEN "ripe" ELSE "late"
           b == [match.between EXCEPT !.stage = stage]
<1>1. match' = [match EXCEPT !.between = b] BY DEF PauseGoesOn
<1>2. /\ b \in [on : BOOLEAN, stage : {"fresh", "ripe", "late"}, ready : SUBSET People]
      /\ b.on = match.between.on /\ b.ready = match.between.ready
  BY DEF IInv, TypeOK, MatchStates
<1> HIDE DEF b
<1>3. /\ match' \in MatchStates /\ match'.table = match.table /\ match'.present = match.present
      /\ match'.between = b /\ match'.raised = match.raised /\ match'.cast = match.cast
      /\ match'.save = match.save
  BY <1>1, <1>2 DEF IInv, TypeOK, MatchStates
<1>4. /\ inTick' = inTick /\ lapsed' = lapsed /\ versioned' = versioned /\ seen' = seen
      /\ saved' = saved
  BY DEF PauseGoesOn
<1>5. Paused(match)' BY <1>2, <1>3 DEF IInv, Paused, Showdown
<1>6. PauseTrue(match) => PauseTrue(match)' BY <1>2, <1>3 DEF PauseTrue, Showdown, Eligible
<1>7. IInv' BY <1>3, <1>4, <1>5, <1>6 DEF IInv, TypeOK
<1>8. Table' = Table BY <1>3 DEF Table
<1>9. HandStep BY <1>8 DEF HandStep, IInv, Paused, Showdown, Playing, Table
<1> QED BY <1>4, <1>7, <1>8, <1>9 DEF Steps, SeatsStep, GraceStep, PauseStep

\* A restart keeps the table and the pause.
LEMMA RestartStep == ASSUME IInv, Restart PROVE Steps
<1> DEFINE conn == [p \in People |->
                      IF p \notin match.table.seated THEN "unknown"
                      ELSE IF match.conn[p] = "disconnected" THEN "disconnected" ELSE "reconnecting"]
<1>1. match' = [match EXCEPT !.present = {}, !.cast = FALSE, !.conn = conn]
  BY DEF Restart, IInv, TypeOK, MatchStates, Table
<1>2. conn \in [People -> Statuses] BY DEF Statuses
<1> HIDE DEF conn
<1>3. /\ match' \in MatchStates /\ match'.table = match.table /\ match'.present = {}
      /\ match'.between = match.between /\ match'.raised = match.raised
      /\ match'.save = match.save
  BY <1>1, <1>2 DEF IInv, TypeOK, MatchStates
<1>4. inTick' = FALSE /\ lapsed' = {} /\ versioned' = versioned /\ seen' = TRUE /\ saved' = saved
  BY DEF Restart
<1>5. Paused(match)' BY <1>3 DEF IInv, Paused, Showdown
<1>6. IInv' BY <1>3, <1>4, <1>5 DEF IInv, TypeOK
<1>7. Table' = Table BY <1>3 DEF Table
<1>8. PauseStep
  <2> SUFFICES ASSUME inTick, match.present = {} PROVE PauseTrue(match)'
    BY <1>3, <1>4 DEF PauseStep, PauseTrue, Showdown, Eligible, IInv, TypeOK
  <2> QED BY <1>3 DEF IInv, PauseTrue, Showdown, Eligible
<1>9. HandStep BY <1>7 DEF HandStep, IInv, Paused, Showdown, Playing, Table
<1> QED BY <1>6, <1>7, <1>8, <1>9 DEF Steps, SeatsStep, GraceStep

\* Messages
LEMMA MessageStep == ASSUME IInv, NEW p \in People, Message(p) PROVE Steps
<1>1. match \in MatchStates /\ Paused(match) /\ match.table \in TableViews
  BY DEF IInv, TypeOK, MatchStates
<1>2. CASE TakeSeat(p)
  <2>1. Receives(p, CommitOneOf(match, {ComesBack(t, p) : t \in DealsNext(TakesSeat(match.table, p))}))
    BY <1>2 DEF TakeSeat, Table
  <2> QED BY <1>1, <2>1, TakeSeatServes, ReceivesStep
<1>3. CASE SitBackIn(p)
  <2>1. Receives(p, CommitOneOf(match, DealsNext(ComesBack(match.table, p))))
    BY <1>3 DEF SitBackIn, Table
  <2> QED BY <1>1, <2>1, SitBackInServes, ReceivesStep
<1>4. CASE Reconnect(p)
  <2>1. Receives(p, CommitOneOf(Mark(match, p, "connected"), DealsNext(ComesBack(match.table, p))))
    BY <1>4 DEF Reconnect, Table
  <2> QED BY <1>1, <2>1, ReconnectServes, ReceivesStep
<1>5. CASE Act(p)
  <2>1. /\ match.table.phase = "betting"
        /\ Receives(p, {Changed(m) : m \in CommitOneOf(match, ActNow(match.table, p))})
    BY <1>5 DEF Act, Table, OnTurnNow
  <2>2. \A t \in ActNow(match.table, p) : Moves(match.table, t, {}) BY <1>1, <2>1, ActNowMoves
  <2> QED BY <1>1, <2>1, <2>2, InHandServes, ReceivesStep
<1>6. CASE Discard(p)
  <2>1. /\ match.table.phase = "discard"
        /\ Receives(p, {Changed(m) : m \in CommitOneOf(match, GiveCard(match.table, p))})
    BY <1>6 DEF Discard, Table
  <2>2. \A t \in GiveCard(match.table, p) : Moves(match.table, t, {})
    BY <1>1, <2>1, GiveCardMoves DEF Playing
  <2> QED BY <1>1, <2>1, <2>2, InHandServes, ReceivesStep
<1>7. CASE \E ready \in BOOLEAN : ReadyForNextHand(p, ready)
  <2> PICK ready \in BOOLEAN : ReadyForNextHand(p, ready) BY <1>7
  <2> DEFINE e == EnsureBetweenHand(match)
             set == IF ready THEN e.between.ready \cup {p} ELSE e.between.ready \ {p}
             results == AdvanceBetweenHand(
                 IF set = e.between.ready THEN e ELSE Changed([e EXCEPT !.between.ready = set]))
  <2>1. Showdown(match) /\ p \in Eligible(match) /\ Receives(p, results) BY DEF ReadyForNextHand
  <2>2. \A n \in results : Serves(match, n) BY <1>1, <2>1, ReadyForNextHandServes
  <2> HIDE DEF results
  <2> QED BY <2>1, <2>2, ReceivesStep
<1>8. CASE BuyBackIn(p) \/ LeaveSeat(p)
  <2>1. \/ Receives(p, CommitOneOf(match, {BuysIn(match.table, p)}))
        \/ Receives(p, CommitOneOf(match, {SitsOut(match.table, p)}))
    BY <1>8 DEF BuyBackIn, LeaveSeat, Table
  <2> QED BY <1>1, <2>1, SeatStepServes, ReceivesStep
<1>9. CASE \E ready, elapsed \in BOOLEAN : ReadyForHand(p, ready, elapsed)
  <2> PICK ready \in BOOLEAN, elapsed \in BOOLEAN : ReadyForHand(p, ready, elapsed) BY <1>9
  <2>1. Receives(p, CommitOneOf(match, PassGate(SaysReady(match.table, p, ready), elapsed)))
    BY DEF ReadyForHand, Table
  <2> QED BY <1>1, <2>1, ReadyForHandServes, ReceivesStep
<1> QED BY <1>2, <1>3, <1>4, <1>5, <1>6, <1>7, <1>8, <1>9 DEF Message

\* It holds at first.
LEMMA IInvInit == Init => IInv
<1> SUFFICES ASSUME Init PROVE IInv OBVIOUS
<1>1. NewTable \in TableViews BY DEF NewTable, TableViews, Phases
<1>2. /\ match \in MatchStates /\ match.table = NewTable /\ match.present = {}
      /\ match.between = NoPause /\ ~match.raised /\ ~match.save
  BY <1>1 DEF Init, MatchStates, NoPause, Statuses
<1> QED BY <1>2 DEF Init, IInv, TypeOK, Paused, NoPause, NewTable, Showdown

\* Every step
LEMMA StepsNext == IInv /\ [Next]_vars => Steps
BY JoinStep, LeaveStep, PassStep, PauseGoesOnStep, RestartStep, MessageStep, StepsNot DEF Next

\* The invariant holds for ever.
LEMMA IInvAlways == Spec => []IInv
<1>1. IInv /\ [Next]_vars => IInv' BY StepsNext DEF Steps
<1> QED BY <1>1, IInvInit, PTL DEF Spec

-----------------------------------------------------------------------------
(* Theorems.                                                                *)

\* MatchState keeps its type.
THEOREM MatchTypeCorrect == Spec => []TypeOK
<1>1. IInv => TypeOK BY DEF IInv
<1> QED BY <1>1, IInvAlways, PTL

\* Every change that a restart must not lose is in a checkpoint attempted by the handler
\* that made it, on every path through joins, leaves, timer passes and messages.
THEOREM ChangesCheckpointed == Spec => []ChangesAreCheckpointed
<1>1. IInv => ChangesAreCheckpointed BY DEF IInv, ChangesAreCheckpointed
<1> QED BY <1>1, IInvAlways, PTL

\* What clients are shown never changes under the same stateVersion, and between ticks
\* everyone connected was sent the state as it is.
THEOREM ClientsCurrent == Spec => []ClientsAreCurrent
<1>1. IInv => ClientsAreCurrent BY DEF IInv, ClientsAreCurrent, VersionNamesState
<1> QED BY <1>1, IInvAlways, PTL

\* Nobody loses the seat with a session open, and nobody in the hand he was dealt into.
THEOREM SeatsKept == Spec => SeatsAreKept
<1>1. IInv /\ [Next]_vars => SeatsStep BY StepsNext DEF Steps
<1> QED BY <1>1, IInvAlways, PTL DEF Spec, SeatsAreKept, SeatsStep

\* A timer pass makes nobody who is connected sit out, but for who has lost all chips.
THEOREM GraceSpares == Spec => GraceSparesConnected
<1>1. IInv /\ [Next]_vars => GraceStep BY StepsNext DEF Steps
<1> QED BY <1>1, IInvAlways, PTL DEF Spec, GraceSparesConnected, GraceStep

\* After every timer pass a pause is on exactly if a hand is shown that is over, and
\* whoever counts as ready can be dealt in.
THEOREM PauseHonest == Spec => PauseIsHonest
<1>1. IInv /\ [Next]_vars => PauseStep BY StepsNext DEF Steps
<1> QED BY <1>1, IInvAlways, PTL DEF Spec, PauseIsHonest, PauseStep

\* The next hand starts early only if all dealt in but one asked for it before.
THEOREM NextHandWanted == Spec => NextHandIsWanted
<1>1. IInv /\ [Next]_vars => HandStep BY StepsNext DEF Steps
<1> QED BY <1>1, IInvAlways, PTL DEF Spec, NextHandIsWanted, HandStep
=============================================================================
