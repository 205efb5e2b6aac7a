-------------------------- MODULE SmallParts_proofs -------------------------
(***************************************************************************)
(* Theorems about three small parts: LegacyServer, for any players and     *)
(* sockets, SignUp, for any visitors, addresses, channels and requests,    *)
(* and HandEvaluator, for any deck of ranks and four suits.                *)
(***************************************************************************)
EXTENDS LegacyServer, SignUp, HandEvaluator, FiniteSetTheorems, WellFoundedInduction, TLAPS

-----------------------------------------------------------------------------
(* The table of the server for local play.                                  *)

\* Cards are owed in a discard, and then by somebody.
OwedInDiscard(t) == t.phase = "discard" <=> t.pending # {}

\* Who is about to play, or plays.
Staying(t) == t.seated \ t.out

\* Table t becomes u, and nobody but those in X begins to play.
Leads(t, u, X) ==
    u \in TableViews /\ OwedInDiscard(u) /\ Staying(u) \subseteq Staying(t) \cup X

\* It may take several operations.
LEMMA LeadsOn ==
    ASSUME NEW t, NEW u, NEW v, NEW X, Leads(t, u, X), Leads(u, v, {})
    PROVE  Leads(t, v, X)
BY DEF Leads

\* The seats are as they were.
LEMMA SameSeatsLead ==
    ASSUME NEW t \in TableViews, NEW u \in TableViews, OwedInDiscard(u),
           u.seated = t.seated, t.out \subseteq u.out
    PROVE  Leads(t, u, {})
BY DEF Leads, Staying

\* What follows a round or the last discard of a street
LEMMA OpenNextLeads ==
    ASSUME NEW t \in TableViews, NEW u \in OpenNext(t)
    PROVE  Leads(t, u, {})
<1>1. CASE \E p \in t.live : u = [t EXCEPT !.phase = "betting", !.turn = p, !.pending = {}]
  <2>1. PICK p \in t.live : u = [t EXCEPT !.phase = "betting", !.turn = p, !.pending = {}] BY <1>1
  <2>2. /\ u \in TableViews /\ u.phase = "betting" /\ u.pending = {}
        /\ u.seated = t.seated /\ u.out = t.out
    BY <2>1 DEF TableViews, Phases
  <2> QED BY <2>2, SameSeatsLead DEF OwedInDiscard
<1>2. CASE /\ u = [t EXCEPT !.phase = "discard", !.turn = NoOne, !.pending = t.live \ t.out]
           /\ u.pending # {}
  <2>1. /\ u \in TableViews /\ u.phase = "discard" /\ u.seated = t.seated /\ u.out = t.out
    BY <1>2 DEF TableViews, Phases
  <2> QED BY <1>2, <2>1, SameSeatsLead DEF OwedInDiscard
<1>3. CASE u \in Settle(t)
  <2>1. PICK b \in SUBSET t.dealt :
          u = [t EXCEPT !.phase = "showdown", !.turn = NoOne, !.pending = {}, !.live = {},
                        !.broke = (@ \ t.dealt) \cup b, !.out = @ \cup b]
    BY <1>3 DEF Settle
  <2>2. /\ u \in TableViews /\ u.phase = "showdown" /\ u.pending = {}
        /\ u.seated = t.seated /\ u.out = t.out \cup b
    BY <2>1 DEF TableViews, Phases
  <2> QED BY <2>2, SameSeatsLead DEF OwedInDiscard
<1> QED BY <1>1, <1>2, <1>3 DEF OpenNext

\* A settlement is one of the things that may follow.
LEMMA SettleLeads ==
    ASSUME NEW t \in TableViews, NEW u \in Settle(t)
    PROVE  Leads(t, u, {})
BY OpenNextLeads DEF OpenNext

\* Another player's turn, or a pause
LEMMA GoOnLeads ==
    ASSUME NEW t \in TableViews, OwedInDiscard(t), t.phase = "betting", NEW u \in GoOn(t)
    PROVE  Leads(t, u, {})
<1>1. CASE \E p \in t.live : u = [t EXCEPT !.turn = p]
  <2>1. PICK p \in t.live : u = [t EXCEPT !.turn = p] BY <1>1
  <2>2. /\ u \in TableViews /\ u.phase = t.phase /\ u.pending = t.pending
        /\ u.seated = t.seated /\ u.out = t.out
    BY <2>1 DEF TableViews
  <2> QED BY <2>2, SameSeatsLead DEF OwedInDiscard
<1>2. CASE u = [t EXCEPT !.phase = "pause", !.turn = NoOne]
  <2>1. /\ u \in TableViews /\ u.phase = "pause" /\ u.pending = t.pending
        /\ u.seated = t.seated /\ u.out = t.out
    BY <1>2 DEF TableViews, Phases
  <2> QED BY <2>1, SameSeatsLead DEF OwedInDiscard
<1> QED BY <1>1, <1>2 DEF GoOn

\* A fold, by choice or by leaving
LEMMA LeaveHandLeads ==
    ASSUME NEW t \in TableViews, OwedInDiscard(t), NEW p, NEW u \in LeaveHand(t, p)
    PROVE  Leads(t, u, {})
<1> DEFINE v == [t EXCEPT !.live = @ \ {p}]
<1>1. /\ v \in TableViews /\ v.phase = t.phase /\ v.pending = t.pending
      /\ v.seated = t.seated /\ v.out = t.out
  BY DEF TableViews
<1>2. Leads(t, v, {}) /\ OwedInDiscard(v) BY <1>1, SameSeatsLead DEF OwedInDiscard
<1>3. \/ u \in Settle(v) \/ u = v
      \/ v.phase = "betting" /\ (u \in GoOn(v) \/ u = [v EXCEPT !.phase = "pause", !.turn = NoOne])
  BY DEF LeaveHand
<1> HIDE DEF v
<1>4. CASE u \in Settle(v) BY <1>1, <1>2, <1>4, SettleLeads, LeadsOn
<1>5. CASE u = v BY <1>2, <1>5
<1>6. CASE v.phase = "betting" /\ (u \in GoOn(v) \/ u = [v EXCEPT !.phase = "pause", !.turn = NoOne])
  <2>1. u \in GoOn(v) BY <1>6 DEF GoOn
  <2> QED BY <1>1, <1>2, <1>6, <2>1, GoOnLeads, LeadsOn
<1> QED BY <1>3, <1>4, <1>5, <1>6

\* An action
LEMMA ActNowLeads ==
    ASSUME NEW t \in TableViews, OwedInDiscard(t), t.phase = "betting", NEW p,
           NEW u \in ActNow(t, p)
    PROVE  Leads(t, u, {})
BY GoOnLeads, LeaveHandLeads DEF ActNow

\* One discard
LEMMA GiveCardLeads ==
    ASSUME NEW t \in TableViews, t.phase = "discard", NEW p, NEW u \in GiveCard(t, p)
    PROVE  Leads(t, u, {})
<1> DEFINE v == [t EXCEPT !.pending = @ \ {p}]
<1>1. v \in TableViews /\ v.phase = t.phase /\ v.seated = t.seated /\ v.out = t.out
  BY DEF TableViews
<1>2. IF v.pending = {} THEN u \in OpenNext(v) ELSE u = v BY DEF GiveCard
<1> HIDE DEF v
<1>3. CASE v.pending = {}
  <2>1. Leads(v, u, {}) BY <1>1, <1>2, <1>3, OpenNextLeads
  <2> QED BY <1>1, <2>1 DEF Leads, Staying
<1>4. CASE v.pending # {} BY <1>1, <1>2, <1>4, SameSeatsLead DEF OwedInDiscard
<1> QED BY <1>3, <1>4

\* All discards
LEMMA GiveAllLeads ==
    ASSUME NEW t \in TableViews, NEW u \in GiveAllCards(t)
    PROVE  Leads(t, u, {})
<1> DEFINE v == [t EXCEPT !.pending = {}]
<1>1. v \in TableViews /\ v.seated = t.seated /\ v.out = t.out BY DEF TableViews
<1>2. u \in OpenNext(v) BY DEF GiveAllCards
<1> HIDE DEF v
<1>3. Leads(v, u, {}) BY <1>1, <1>2, OpenNextLeads
<1> QED BY <1>1, <1>3 DEF Leads, Staying

\* handleDisconnect: whoever has vanished does not play on.
LEMMA VanishLeads ==
    ASSUME NEW t \in TableViews, OwedInDiscard(t), NEW p \in People, NEW u \in Vanish(t, p)
    PROVE  Leads(t, u, {}) /\ p \notin Staying(u)
<1> DEFINE away == SitsOut(t, p)
           given == IF t.phase = "discard" /\ p \in t.pending THEN GiveCard(away, p) ELSE {away}
<1>1. /\ away \in TableViews /\ away.phase = t.phase /\ away.pending = t.pending
      /\ away.seated = t.seated /\ away.out = t.out \cup {p}
  BY DEF TableViews, SitsOut
<1>2. OwedInDiscard(away) BY <1>1 DEF OwedInDiscard
<1>3. u \in given \/ \E v \in given : u = v \/ u \in LeaveHand(v, p)
  BY DEF Vanish, SitsOut
<1> HIDE DEF away
<1>4. ASSUME NEW v \in given PROVE Leads(away, v, {})
  BY <1>1, <1>2, GiveCardLeads, SameSeatsLead
<1> HIDE DEF given
<1>5. Leads(away, u, {})
  <2>1. CASE u \in given BY <1>4, <2>1
  <2>2. ASSUME NEW v \in given, u = v \/ u \in LeaveHand(v, p) PROVE Leads(away, u, {})
    BY <1>4, <2>2, LeaveHandLeads, LeadsOn DEF Leads
  <2> QED BY <1>3, <2>1, <2>2
<1> QED BY <1>1, <1>5 DEF Leads, Staying

\* A hand is dealt, when none was shown.
LEMMA DealHandLeads ==
    ASSUME NEW t \in TableViews, OwedInDiscard(t), t.phase = "none", NEW u \in DealHand(t)
    PROVE  Leads(t, u, {})
<1>1. PICK p \in Playable(t) :
        u = [t EXCEPT !.phase = "betting", !.dealt = Playable(t), !.live = Playable(t),
                      !.turn = p, !.first = FALSE, !.gate = FALSE, !.ready = {}]
  BY DEF DealHand
<1>2. Playable(t) \subseteq People BY DEF Playable, TableViews
<1>3. /\ u \in TableViews /\ u.phase = "betting" /\ u.pending = t.pending
      /\ u.seated = t.seated /\ u.out = t.out
  BY <1>1, <1>2 DEF TableViews, Phases
<1> QED BY <1>3, SameSeatsLead DEF OwedInDiscard

\* The gate of the first hand
LEMMA OpenGateLeads ==
    ASSUME NEW t \in TableViews, OwedInDiscard(t)
    PROVE  Leads(t, OpenGate(t), {}) /\ (OpenGate(t).gate => OpenGate(t).phase = "none")
<1>1. LET u == OpenGate(t)
      IN  /\ u \in TableViews /\ u.phase = t.phase /\ u.pending = t.pending
          /\ u.seated = t.seated /\ u.out = t.out
          /\ u.gate => t.phase = "none"
  BY DEF OpenGate, FirstHandWaiting, TableViews, Phases
<1> QED BY <1>1, SameSeatsLead DEF OwedInDiscard

\* setReadyForHand
LEMMA SaysReadyLeads ==
    ASSUME NEW t \in TableViews, OwedInDiscard(t), NEW p \in People, NEW ready \in BOOLEAN
    PROVE  Leads(t, SaysReady(t, p, ready), {})
<1> DEFINE g == OpenGate(t)
           u == SaysReady(t, p, ready)
<1>1. Leads(t, g, {}) BY OpenGateLeads
<1>2. g \in TableViews /\ OwedInDiscard(g) BY <1>1 DEF Leads
<1>3. u = g \/ \E R \in SUBSET People : u = [g EXCEPT !.ready = R]
  <2>1. g.ready \cup {p} \in SUBSET People /\ g.ready \ {p} \in SUBSET People
    BY <1>2 DEF TableViews
  <2> QED BY <2>1 DEF SaysReady
<1> HIDE DEF g, u
<1>4. CASE u = g BY <1>1, <1>4 DEF u
<1>5. CASE \E R \in SUBSET People : u = [g EXCEPT !.ready = R]
  <2>1. /\ u \in TableViews /\ u.phase = g.phase /\ u.pending = g.pending
        /\ u.seated = g.seated /\ u.out = g.out
    BY <1>2, <1>5 DEF TableViews
  <2>2. Leads(g, u, {}) BY <1>2, <2>1, SameSeatsLead DEF OwedInDiscard
  <2>3. Leads(t, u, {}) BY <1>1, <2>2, LeadsOn
  <2> QED BY <2>3 DEF u
<1> QED BY <1>3, <1>4, <1>5

\* advanceStartGate
LEMMA PassGateLeads ==
    ASSUME NEW t \in TableViews, OwedInDiscard(t), NEW elapsed, NEW u \in PassGate(t, elapsed)
    PROVE  Leads(t, u, {})
<1> DEFINE g == OpenGate(t)
<1>1. Leads(t, g, {}) /\ (g.gate => g.phase = "none") BY OpenGateLeads
<1>2. u = g \/ (g.gate /\ u \in DealHand(g)) BY DEF PassGate
<1> HIDE DEF g
<1>3. CASE u = g BY <1>1, <1>3
<1>4. CASE g.gate /\ u \in DealHand(g)
  <2>1. Leads(g, u, {}) BY <1>1, <1>4, DealHandLeads DEF Leads
  <2> QED BY <1>1, <2>1, LeadsOn
<1> QED BY <1>2, <1>3, <1>4

\* beginNextHandIfReady
LEMMA DealsNextLeads ==
    ASSUME NEW t \in TableViews, OwedInDiscard(t), NEW u \in DealsNext(t)
    PROVE  Leads(t, u, {})
<1>1. u = t \/ u = OpenGate(t) \/ (t.phase = "none" /\ u \in DealHand(t)) BY DEF DealsNext
<1>2. Leads(t, t, {}) BY SameSeatsLead
<1> QED BY <1>1, <1>2, OpenGateLeads, DealHandLeads

\* What a message does for its player; nobody else begins to play.
LEMMA MessageLeads ==
    ASSUME NEW t \in TableViews, OwedInDiscard(t), t = table, NEW p \in People \cup {NoOne},
           NEW u \in UNION {Reconnect(p), Action(p), Discard(p), NextHand, Rebuy(p), SitOut(p),
                            ReadyForHand(p)}
    PROVE  Leads(t, u, {p})
<1>1. CASE u \in Reconnect(p)
  <2> DEFINE v == ComesBack(t, p)
  <2>1. \/ v = t
        \/ /\ v \in TableViews /\ v.phase = t.phase /\ v.pending = t.pending
           /\ v.seated = t.seated /\ t.out \ {p} \subseteq v.out
    BY DEF ComesBack, SitsOut, TableViews
  <2>2. u \in DealsNext(v) BY <1>1 DEF Reconnect
  <2> HIDE DEF v
  <2>3. v \in TableViews /\ OwedInDiscard(v) /\ Staying(v) \subseteq Staying(t) \cup {p}
    BY <2>1 DEF OwedInDiscard, Staying
  <2>4. Leads(v, u, {}) BY <2>2, <2>3, DealsNextLeads
  <2> QED BY <2>3, <2>4 DEF Leads
<1>2. CASE u \in Action(p)
  <2>1. Leads(t, u, {}) BY <1>2, ActNowLeads DEF Action, OnTurnNow
  <2> QED BY <2>1 DEF Leads
<1>3. CASE u \in Discard(p)
  <2>1. Leads(t, u, {}) BY <1>3, GiveCardLeads DEF Discard
  <2> QED BY <2>1 DEF Leads
<1>4. CASE u \in NextHand
  <2> DEFINE v == [t EXCEPT !.phase = "none", !.dealt = {}, !.live = {}]
  <2>1. ~Playing(t) /\ u \in DealsNext(v) BY <1>4 DEF NextHand, ClearsHand
  <2>2. /\ v \in TableViews /\ v.phase = "none" /\ v.pending = t.pending
        /\ v.seated = t.seated /\ v.out = t.out
    BY DEF TableViews, Phases
  <2> HIDE DEF v
  <2>3. OwedInDiscard(v) BY <2>1, <2>2 DEF OwedInDiscard, Playing
  <2>4. Leads(v, u, {}) BY <2>1, <2>2, <2>3, DealsNextLeads
  <2> QED BY <2>2, <2>4 DEF Leads, Staying
<1>5. CASE u \in Rebuy(p)
  <2>1. u = [t EXCEPT !.broke = @ \ {p}, !.out = @ \ {p}] BY <1>5 DEF Rebuy, BuysIn
  <2>2. /\ u \in TableViews /\ u.phase = t.phase /\ u.pending = t.pending
        /\ u.seated = t.seated /\ u.out = t.out \ {p}
    BY <2>1 DEF TableViews
  <2> QED BY <2>2 DEF Leads, Staying, OwedInDiscard
<1>6. CASE u \in SitOut(p)
  <2>1. u = [t EXCEPT !.out = @ \cup {p}] /\ p \in t.seated BY <1>6 DEF SitOut, SitsOut
  <2>2. /\ u \in TableViews /\ u.phase = t.phase /\ u.pending = t.pending
        /\ u.seated = t.seated /\ t.out \subseteq u.out
    BY <2>1 DEF TableViews
  <2> QED BY <2>2 DEF Leads, Staying, OwedInDiscard
<1>7. CASE u \in ReadyForHand(p)
  <2>1. PICK ready \in BOOLEAN, elapsed \in BOOLEAN :
          p \in People /\ u \in PassGate(SaysReady(t, p, ready), elapsed)
    BY <1>7 DEF ReadyForHand, TableViews
  <2>2. Leads(t, SaysReady(t, p, ready), {}) BY <2>1, SaysReadyLeads
  <2>3. Leads(SaysReady(t, p, ready), u, {}) BY <2>1, <2>2, PassGateLeads DEF Leads
  <2>4. Leads(t, u, {}) BY <2>2, <2>3, LeadsOn
  <2> QED BY <2>4 DEF Leads
<1> QED BY <1>1, <1>2, <1>3, <1>4, <1>5, <1>6, <1>7

-----------------------------------------------------------------------------
(* The sockets.                                                             *)

LocalTypeOK ==
    /\ table \in TableViews
    /\ Open \subseteq Sockets /\ clients \in [Open -> People \cup {NoOne}]
    /\ sees \in [Sockets -> {"nothing", "table", "older"}]
    /\ replaced \subseteq People

\* OwedInDiscard is what makes an exception of discards hold.
LocalInv == LocalTypeOK /\ OwedInDiscard(table) /\ OnlyDiscardsAreHidden /\ NobodyPlaysAlone

\* A new server
LEMMA LocalInit == Init => LocalInv
BY DEF Init, LocalInv, LocalTypeOK, OwedInDiscard, OnlyDiscardsAreHidden, NobodyPlaysAlone, Open,
       NewTable, TableViews, Phases

\* A socket opens.
LEMMA ConnectionKeeps ==
    ASSUME LocalInv, NEW s \in Sockets, Connection(s)
    PROVE  LocalInv'
<1>1. /\ DOMAIN clients' = Open \cup {s} /\ s \notin Open /\ clients'[s] = NoOne
      /\ \A x \in Open : clients'[x] = clients[x]
  BY DEF Connection, Open
<1>2. /\ table' = table /\ replaced' = replaced /\ sees'= [sees EXCEPT ![s] = "nothing"]
      /\ clients' = [x \in Open \cup {s} |-> IF x = s THEN NoOne ELSE clients[x]]
  BY DEF Connection
<1>3. LocalTypeOK' BY <1>1, <1>2 DEF LocalInv, LocalTypeOK, Open
<1>4. OnlyDiscardsAreHidden'
  BY <1>1, <1>2 DEF LocalInv, LocalTypeOK, OnlyDiscardsAreHidden, Open
<1>5. NobodyPlaysAlone' BY <1>1, <1>2 DEF LocalInv, NobodyPlaysAlone, Open
<1> QED BY <1>2, <1>3, <1>4, <1>5 DEF LocalInv

\* All who are there are shown the table.
LEMMA AllSee ==
    ASSUME LocalInv, sees' \in [Sockets -> {"nothing", "table", "older"}],
           \A s \in Open : sees'[s] = "table", Open' \subseteq Open
    PROVE  OnlyDiscardsAreHidden'
BY DEF LocalInv, LocalTypeOK, OnlyDiscardsAreHidden

\* broadcast
LEMMA BroadcastsShows ==
    ASSUME LocalInv, NEW t, Broadcasts(t)
    PROVE  /\ table' = t /\ sees' \in [Sockets -> {"nothing", "table", "older"}]
           /\ \A s \in Open : sees'[s] = "table"
BY DEF LocalInv, LocalTypeOK, Broadcasts, Becomes

\* A socket joins: its new player is its own, and the one it had is not looked for.
LEMMA JoinKeeps ==
    ASSUME LocalInv, NEW s \in Open, Join(s)
    PROVE  LocalInv'
<1>1. PICK p \in Fresh :
        /\ \E t \in DealsNext(TakesSeat(table, p)) :
              /\ table' = t
              /\ sees' = [x \in Sockets |-> IF x \in Open THEN "table" ELSE sees[x]]
        /\ clients' = [clients EXCEPT ![s] = p]
        /\ replaced' = replaced \cup ({clients[s]} \ {NoOne})
  BY DEF Join
<1>2. p \in People BY DEF Fresh
<1> DEFINE v == TakesSeat(table, p)
<1>3. /\ v \in TableViews /\ v.phase = table.phase /\ v.pending = table.pending
      /\ v.seated = table.seated \cup {p} /\ v.out = table.out
  BY <1>2 DEF TakesSeat, LocalInv, LocalTypeOK, TableViews
<1>4. OwedInDiscard(v) BY <1>3 DEF OwedInDiscard, LocalInv
<1>5. table' \in DealsNext(v) BY <1>1
<1> HIDE DEF v
<1>6. Leads(v, table', {}) BY <1>3, <1>4, <1>5, DealsNextLeads
<1>7. Staying(table') \subseteq Staying(table) \cup {p} BY <1>3, <1>6 DEF Leads, Staying
<1>8. /\ Open' = Open /\ clients'[s] = p
      /\ \A x \in Open : x # s => clients'[x] = clients[x]
      /\ clients[s] \in People \cup {NoOne}
  BY <1>1 DEF LocalInv, LocalTypeOK, Open
<1>9. LocalTypeOK' BY <1>1, <1>2, <1>6, <1>8 DEF LocalInv, LocalTypeOK, Open, Leads
<1>10. OnlyDiscardsAreHidden'
  <2>1. \A x \in Open : sees'[x] = "table" BY <1>1 DEF LocalInv, LocalTypeOK
  <2> QED BY <1>8, <1>9, <2>1, AllSee DEF LocalTypeOK
<1>11. NobodyPlaysAlone'
  <2> SUFFICES ASSUME NEW q \in Staying(table')
               PROVE  q \in replaced' \/ \E x \in Open' : clients'[x] = q
    BY DEF NobodyPlaysAlone, Staying
  <2>1. CASE q = p BY <1>8, <2>1
  <2>2. CASE q # p
    <3>1. q \in table.seated \ table.out BY <1>7, <2>2 DEF Staying
    <3>2. q # NoOne BY <3>1, NoOneAssumption DEF LocalInv, LocalTypeOK, TableViews
    <3>3. q \in replaced \/ \E x \in Open : clients[x] = q
      BY <3>1 DEF LocalInv, NobodyPlaysAlone
    <3> QED BY <1>1, <1>8, <3>2, <3>3
  <2> QED BY <2>1, <2>2
<1> QED BY <1>6, <1>9, <1>10, <1>11 DEF LocalInv, Leads

\* After a broadcast it is enough that whoever stays has a socket.
LEMMA BroadcastKeeps ==
    ASSUME LocalInv, NEW t, Broadcasts(t), replaced' = replaced, t \in TableViews, OwedInDiscard(t),
           Open' \subseteq Open, clients' \in [Open' -> People \cup {NoOne}],
           \A q \in Staying(t) : q \in replaced \/ \E x \in Open' : clients'[x] = q
    PROVE  LocalInv'
<1>1. /\ table' = t /\ sees' \in [Sockets -> {"nothing", "table", "older"}]
      /\ \A s \in Open : sees'[s] = "table"
  BY BroadcastsShows
<1>2. OnlyDiscardsAreHidden' BY <1>1, AllSee
<1>3. LocalTypeOK' BY <1>1 DEF LocalInv, LocalTypeOK
<1>4. NobodyPlaysAlone' BY <1>1 DEF NobodyPlaysAlone, Staying
<1> QED BY <1>1, <1>2, <1>3, <1>4 DEF LocalInv

\* handleMessage
LEMMA MessageKeeps ==
    ASSUME LocalInv, NEW s \in Open, HandleMessage(s)
    PROVE  LocalInv'
<1> DEFINE p == clients[s]
<1>1. PICK t \in UNION {Reconnect(p), Action(p), Discard(p), NextHand, Rebuy(p), SitOut(p),
                        ReadyForHand(p)} : Broadcasts(t)
  BY DEF HandleMessage
<1>2. clients' = clients /\ replaced' = replaced BY DEF HandleMessage
<1>3. p \in People \cup {NoOne} BY DEF LocalInv, LocalTypeOK
<1>4. Leads(table, t, {p}) BY <1>1, <1>3, MessageLeads DEF LocalInv, LocalTypeOK
<1>5. Open' = Open BY <1>2 DEF Open
<1>6. ASSUME NEW q \in Staying(t) PROVE q \in replaced \/ \E x \in Open' : clients'[x] = q
  <2>1. q = p \/ q \in table.seated \ table.out BY <1>4 DEF Leads, Staying
  <2> QED BY <1>2, <1>5, <2>1 DEF LocalInv, NobodyPlaysAlone
<1>7. clients' \in [Open' -> People \cup {NoOne}] BY <1>2, <1>5 DEF LocalInv, LocalTypeOK
<1> HIDE DEF p
<1> QED BY <1>1, <1>2, <1>4, <1>5, <1>6, <1>7, BroadcastKeeps DEF Leads

\* handleDisconnect: the player of the socket does not play on, and the others have theirs.
LEMMA CloseKeeps ==
    ASSUME LocalInv, NEW s \in Open, Close(s)
    PROVE  LocalInv'
<1> DEFINE p == clients[s]
<1>1. PICK t \in Disconnects(table, p) : Broadcasts(t) BY DEF Close
<1>2. clients' = [x \in Open \ {s} |-> clients[x]] /\ replaced' = replaced BY DEF Close
<1>3. p \in People \cup {NoOne} BY DEF LocalInv, LocalTypeOK
<1>4. t \in TableViews /\ OwedInDiscard(t) /\ Staying(t) \subseteq Staying(table) \ {p}
  <2>1. CASE p \in table.seated
    <3>1. p \in People /\ t \in Vanish(table, p)
      BY <1>1, <2>1 DEF Disconnects, LocalInv, LocalTypeOK, TableViews
    <3>2. Leads(table, t, {}) /\ p \notin Staying(t)
      BY <3>1, VanishLeads DEF LocalInv, LocalTypeOK
    <3> QED BY <3>2 DEF Leads
  <2>2. CASE p \notin table.seated
    BY <1>1, <2>2 DEF Disconnects, LocalInv, LocalTypeOK, Staying
  <2> QED BY <2>1, <2>2
<1>5. Open' = Open \ {s} /\ \A x \in Open' : clients'[x] = clients[x] BY <1>2 DEF Open
<1>6. ASSUME NEW q \in Staying(t) PROVE q \in replaced \/ \E x \in Open' : clients'[x] = q
  <2>1. q # p /\ q \in table.seated \ table.out BY <1>4 DEF Staying
  <2>2. q \in replaced \/ \E x \in Open : clients[x] = q
    BY <2>1 DEF LocalInv, NobodyPlaysAlone
  <2> QED BY <1>5, <2>1, <2>2
<1>7. clients' \in [Open' -> People \cup {NoOne}] BY <1>2, <1>5 DEF LocalInv, LocalTypeOK
<1> HIDE DEF p
<1> QED BY <1>1, <1>2, <1>4, <1>5, <1>6, <1>7, BroadcastKeeps

\* The timer: what it does not show is a discard that ends in another for the same players.
LEMMA TickKeeps ==
    ASSUME LocalInv, NEW due, Tick(due)
    PROVE  LocalInv'
<1>1. PICK gated \in PassGate(table, "start" \in due) :
        LET advances == "pause" \in due /\ gated.phase = "pause" /\ SameClock(table, gated)
        IN \E on \in IF advances THEN PauseIsOver(gated) ELSE {gated} :
             LET runsOut == "betting" \in due /\ on.phase = "betting" /\ SameClock(table, on)
             IN \E acts \in BOOLEAN :
                /\ acts => runsOut
                /\ \E acted \in IF acts THEN ActNow(on, on.turn) ELSE {on} :
                     LET discards == /\ "discard" \in due /\ acted.phase = "discard"
                                     /\ SameClock(table, acted)
                     IN \E t \in IF discards THEN GiveAllCards(acted) ELSE {acted} :
                          LET gate == table.gate # gated.gate \/ table.ready # gated.ready
                                         \/ (FirstHandWaiting(table) /\ ~FirstHandWaiting(gated))
                              shows == Shows(gate, advances, acts, acted.pending, t.pending)
                          IN /\ gate \/ advances \/ acts \/ discards
                             /\ Becomes(t, IF shows THEN Sockets ELSE {})
                             /\ UNCHANGED <<clients, replaced>>
  BY DEF Tick
<1> DEFINE advances == "pause" \in due /\ gated.phase = "pause" /\ SameClock(table, gated)
<1>2. PICK on \in IF advances THEN PauseIsOver(gated) ELSE {gated}, acts \in BOOLEAN :
        /\ acts => on.phase = "betting"
        /\ \E acted \in IF acts THEN ActNow(on, on.turn) ELSE {on} :
             LET discards == /\ "discard" \in due /\ acted.phase = "discard"
                             /\ SameClock(table, acted)
             IN \E t \in IF discards THEN GiveAllCards(acted) ELSE {acted} :
                  LET gate == table.gate # gated.gate \/ table.ready # gated.ready
                                 \/ (FirstHandWaiting(table) /\ ~FirstHandWaiting(gated))
                      shows == Shows(gate, advances, acts, acted.pending, t.pending)
                  IN /\ gate \/ advances \/ acts \/ discards
                     /\ Becomes(t, IF shows THEN Sockets ELSE {})
                     /\ UNCHANGED <<clients, replaced>>
  BY <1>1
<1>3. PICK acted \in IF acts THEN ActNow(on, on.turn) ELSE {on} :
        LET discards == /\ "discard" \in due /\ acted.phase = "discard"
                        /\ SameClock(table, acted)
        IN \E t \in IF discards THEN GiveAllCards(acted) ELSE {acted} :
             LET gate == table.gate # gated.gate \/ table.ready # gated.ready
                            \/ (FirstHandWaiting(table) /\ ~FirstHandWaiting(gated))
                 shows == Shows(gate, advances, acts, acted.pending, t.pending)
             IN /\ gate \/ advances \/ acts \/ discards
                /\ Becomes(t, IF shows THEN Sockets ELSE {})
                /\ UNCHANGED <<clients, replaced>>
  BY <1>2
<1> DEFINE discards == "discard" \in due /\ acted.phase = "discard" /\ SameClock(table, acted)
           gate == table.gate # gated.gate \/ table.ready # gated.ready
                      \/ (FirstHandWaiting(table) /\ ~FirstHandWaiting(gated))
<1>4. PICK t \in IF discards THEN GiveAllCards(acted) ELSE {acted} :
        /\ gate \/ advances \/ acts \/ discards
        /\ Becomes(t, IF Shows(gate, advances, acts, acted.pending, t.pending) THEN Sockets ELSE {})
        /\ UNCHANGED <<clients, replaced>>
  BY <1>3
<1>5. Leads(table, gated, {}) BY <1>1, PassGateLeads DEF LocalInv, LocalTypeOK
<1>6. Leads(table, on, {})
  <2>1. on \in PauseIsOver(gated) \/ on = gated BY <1>2
  <2> QED BY <1>5, <2>1, OpenNextLeads, LeadsOn DEF PauseIsOver, Leads
<1>7. Leads(table, acted, {})
  <2>1. (on.phase = "betting" /\ acted \in ActNow(on, on.turn)) \/ acted = on BY <1>2, <1>3
  <2> QED BY <1>6, <2>1, ActNowLeads, LeadsOn DEF Leads
<1>8. Leads(table, t, {})
  <2>1. t \in GiveAllCards(acted) \/ t = acted BY <1>4
  <2> QED BY <1>7, <2>1, GiveAllLeads, LeadsOn DEF Leads
<1>9. clients' = clients /\ replaced' = replaced /\ table' = t /\ Open' = Open
  BY <1>4 DEF Becomes, Open
<1>10. ASSUME NEW q \in Staying(t) PROVE q \in replaced \/ \E x \in Open : clients[x] = q
  BY <1>8 DEF LocalInv, NobodyPlaysAlone, Leads, Staying
<1> DEFINE shows == Shows(gate, advances, acts, acted.pending, t.pending)
<1>11. CASE shows
  <2>1. Broadcasts(t) BY <1>4, <1>11 DEF Broadcasts
  <2>2. clients' \in [Open' -> People \cup {NoOne}] BY <1>9 DEF LocalInv, LocalTypeOK
  <2> HIDE DEF advances, discards, gate, shows
  <2> QED BY <1>8, <1>9, <1>10, <2>1, <2>2, BroadcastKeeps DEF Leads
<1>12. CASE ~shows
  <2>1. discards /\ acted.pending = t.pending BY <1>4, <1>12 DEF Shows
  <2>2. t.phase = "discard" /\ t.pending # {} BY <1>7, <1>8, <2>1 DEF Leads, OwedInDiscard
  <2>3. sees' = [s \in Sockets |->
                   IF s \in Open /\ s \in {} THEN "table"
                   ELSE IF sees[s] = "table" THEN "older" ELSE sees[s]]
    BY <1>4, <1>12 DEF Becomes
  <2>4. sees' \in [Sockets -> {"nothing", "table", "older"}]
    BY <2>3 DEF LocalInv, LocalTypeOK
  <2>5. LocalTypeOK' BY <1>8, <1>9, <2>4 DEF LocalInv, LocalTypeOK, Leads
  <2>6. OnlyDiscardsAreHidden' BY <1>9, <2>2 DEF OnlyDiscardsAreHidden
  <2>7. NobodyPlaysAlone' BY <1>9, <1>10 DEF NobodyPlaysAlone, Staying
  <2> QED BY <1>8, <1>9, <2>5, <2>6, <2>7 DEF LocalInv, Leads
<1> QED BY <1>11, <1>12

\* What else a socket does
LEMMA LocalStep == LocalInv /\ [Next]_vars => LocalInv'
<1> SUFFICES ASSUME LocalInv, [Next]_vars PROVE LocalInv' OBVIOUS
<1>1. CASE \E s \in Sockets : Connection(s) BY <1>1, ConnectionKeeps
<1>2. CASE \E s \in Open : Join(s) BY <1>2, JoinKeeps
<1>3. CASE \E s \in Open : HandleMessage(s) BY <1>3, MessageKeeps
<1>4. CASE \E s \in Open : RequestState(s)
  <2>1. PICK s \in Open : RequestState(s) BY <1>4
  <2>2. /\ table' = table /\ clients' = clients /\ replaced' = replaced /\ Open' = Open
        /\ sees' = [sees EXCEPT ![s] = "table"]
    BY <2>1 DEF RequestState, Open
  <2>3. LocalTypeOK' BY <2>2 DEF LocalInv, LocalTypeOK
  <2>4. OnlyDiscardsAreHidden' BY <2>2 DEF LocalInv, LocalTypeOK, OnlyDiscardsAreHidden
  <2>5. NobodyPlaysAlone' BY <2>2 DEF LocalInv, NobodyPlaysAlone
  <2> QED BY <2>2, <2>3, <2>4, <2>5 DEF LocalInv
<1>5. CASE \E s \in Open : Close(s) BY <1>5, CloseKeeps
<1>6. CASE \E due \in SUBSET {"start", "pause", "betting", "discard"} : Tick(due)
  BY <1>6, TickKeeps
<1>7. CASE UNCHANGED vars
  BY <1>7 DEF vars, LocalInv, LocalTypeOK, OnlyDiscardsAreHidden, NobodyPlaysAlone, Open
<1> QED BY <1>1, <1>2, <1>3, <1>4, <1>5, <1>6, <1>7 DEF Next

\* The invariant holds.
LEMMA LocalHolds == Spec => []LocalInv
BY LocalInit, LocalStep, PTL DEF Spec

\* For any players and sockets: a client is only ever left with an older table in a
\* discard, which the timer has dealt past without a broadcast (setInterval).
THEOREM OldTablesAreDiscards == Spec => []OnlyDiscardsAreHidden
<1>1. LocalInv => OnlyDiscardsAreHidden BY DEF LocalInv
<1> QED BY <1>1, LocalHolds, PTL

\* For any players and sockets: who sits and does not sit out has an open socket, or is
\* somebody whose socket has joined again under another id (close, join).
THEOREM PlayersHaveSockets == Spec => []NobodyPlaysAlone
<1>1. LocalInv => NobodyPlaysAlone BY DEF LocalInv
<1> QED BY <1>1, LocalHolds, PTL

-----------------------------------------------------------------------------
(* The sign-ups.                                                            *)

Forms ==
    [open : BOOLEAN, status : {"idle", "submitting", "success"}, error : BOOLEAN,
     request : 0 .. MaxRequests, confirmed : Addresses \cup {NoEmail}]

SentRequests ==
    [step : {"none", "sent", "insert", "announce", "answer", "over"},
     address : Addresses \cup {NoEmail}, left : SUBSET Channels,
     result : {"none", "refused", "failed", "listed", "created"}]

SignUpTypeOK ==
    /\ form \in [Visitors -> Forms]
    /\ request \in [Requests -> SentRequests]
    /\ signups \subseteq Emails
    /\ announced \in [Emails -> [Channels -> Nat]]
    /\ sent \in 0 .. MaxRequests /\ faults \in Nat

\* What a request that has come to each step knows.
Progress ==
    \A r \in Requests :
        /\ r > sent => request[r].step = "none"
        /\ request[r].step # "none" => request[r].address \in Addresses
        /\ request[r].step = "insert" => Email(r) \in Emails
        /\ request[r].step = "announce" =>
              /\ Email(r) \in signups
              /\ \A ch \in Channels : announced[Email(r)][ch] = IF ch \in request[r].left THEN 0 ELSE 1
        /\ request[r].step = "answer" /\ request[r].result \in {"created", "listed"} =>
              Email(r) \in signups

\* No two requests announce one e-mail, and none announces one that has no row.
OneAnnounces ==
    /\ \A r, q \in Requests :
          request[r].step = "announce" /\ request[q].step = "announce" /\ Email(r) = Email(q) => r = q
    /\ \A e \in Emails \ signups, ch \in Channels : announced[e][ch] = 0

SignUpInv == SignUpTypeOK /\ Progress /\ OneAnnounces /\ ListIsTrue

\* Nobody has signed up.
LEMMA SignUpInitHolds == SignUpInit => SignUpInv
<1> SUFFICES ASSUME SignUpInit PROVE SignUpInv OBVIOUS
<1> USE SignUpConstants
<1>1. SignUpTypeOK
  BY DEF SignUpInit, SignUpTypeOK, NewForm, Forms, NoRequest, SentRequests, Requests
<1>2. Progress BY DEF SignUpInit, Progress, NoRequest
<1>3. OneAnnounces BY DEF SignUpInit, OneAnnounces, NoRequest
<1>4. ListIsTrue
  BY DEF SignUpInit, ListIsTrue, AnnouncedOnce, SuccessIsListed, ListedIsAnnounced, NewForm
<1> QED BY <1>1, <1>2, <1>3, <1>4 DEF SignUpInv

\* The forms alone change, and none to success.
LEMMA FormsMove ==
    ASSUME SignUpInv, UNCHANGED <<request, signups, announced, sent, faults>>,
           form' \in [Visitors -> Forms],
           \A v \in Visitors : form'[v].status = "success" =>
               form[v].status = "success" /\ form'[v].confirmed = form[v].confirmed
    PROVE  SignUpInv'
<1>1. SignUpTypeOK' BY DEF SignUpInv, SignUpTypeOK
<1>2. Progress' BY DEF SignUpInv, Progress, Email
<1>3. OneAnnounces' BY DEF SignUpInv, OneAnnounces, Email
<1>4. ListIsTrue'
  BY DEF SignUpInv, ListIsTrue, AnnouncedOnce, SuccessIsListed, ListedIsAnnounced, Email
<1> QED BY <1>1, <1>2, <1>3, <1>4 DEF SignUpInv

\* The buttons of the form
LEMMA FormKeeps ==
    ASSUME SignUpInv, NEW v \in Visitors, ToggleForm(v) \/ UpdateField(v)
    PROVE  SignUpInv'
<1>1. NewForm \in Forms BY SignUpConstants DEF NewForm, Forms
<1>2. CASE ToggleForm(v)
  <2> DEFINE f == [NewForm EXCEPT !.open = ~form[v].open]
  <2>1. f \in Forms /\ f.status = "idle" BY <1>1 DEF Forms, NewForm
  <2>2. form' = [form EXCEPT ![v] = f] BY <1>2 DEF ToggleForm
  <2> HIDE DEF f
  <2>3. form' \in [Visitors -> Forms] BY <2>1, <2>2 DEF SignUpInv, SignUpTypeOK
  <2>4. \A w \in Visitors : form'[w].status = "success" =>
            form[w].status = "success" /\ form'[w].confirmed = form[w].confirmed
    BY <2>1, <2>2 DEF SignUpInv, SignUpTypeOK
  <2> QED BY <1>2, <2>3, <2>4, FormsMove DEF ToggleForm
<1>3. CASE UpdateField(v)
  <2> DEFINE f == [form[v] EXCEPT !.error = FALSE]
  <2>1. form[v] \in Forms BY DEF SignUpInv, SignUpTypeOK
  <2>2. f \in Forms /\ f.status = "idle" BY <1>3, <2>1 DEF Forms, UpdateField
  <2>3. form' = [form EXCEPT ![v] = f] BY <1>3 DEF UpdateField
  <2> HIDE DEF f
  <2>4. form' \in [Visitors -> Forms] BY <2>2, <2>3 DEF SignUpInv, SignUpTypeOK
  <2>5. \A w \in Visitors : form'[w].status = "success" =>
            form[w].status = "success" /\ form'[w].confirmed = form[w].confirmed
    BY <2>2, <2>3 DEF SignUpInv, SignUpTypeOK
  <2> QED BY <1>3, <2>4, <2>5, FormsMove DEF UpdateField
<1> QED BY <1>2, <1>3

\* One request moves on, and not to an announcement, nor from one that is not over, unless
\* something has failed: only its own facts count.
LEMMA RequestMoves ==
    ASSUME SignUpInv, NEW r \in Requests, NEW q \in SentRequests,
           request' = [request EXCEPT ![r] = q],
           request[r].step = "announce" => request[r].left = {} \/ faults' > 0,
           q.step # "announce", q.address \in Addresses,
           q.step = "insert" => NormalizeEmail[q.address] \in Emails,
           signups \subseteq signups', signups' \subseteq Emails, announced' = announced,
           q.step = "answer" /\ q.result \in {"created", "listed"} =>
               NormalizeEmail[q.address] \in signups',
           faults' \in Nat, faults' >= faults, signups' = signups \/ faults' > 0,
           sent' \in 0 .. MaxRequests, sent' >= sent, r <= sent',
           form' \in [Visitors -> Forms],
           \A v \in Visitors : form'[v].status = "success" =>
               \/ form[v].status = "success" /\ form'[v].confirmed = form[v].confirmed
               \/ NormalizeEmail[form'[v].confirmed] \in signups'
    PROVE  SignUpInv'
<1>1. /\ request \in [Requests -> SentRequests] /\ signups \subseteq Emails
      /\ announced \in [Emails -> [Channels -> Nat]] /\ sent \in Nat /\ faults \in Nat
      /\ MaxRequests \in Nat /\ Requests \subseteq Nat
  BY SignUpConstants DEF SignUpInv, SignUpTypeOK, Requests
<1>2. request'[r] = q /\ (\A x \in Requests : x # r => request'[x] = request[x]) BY <1>1
<1>3. SignUpTypeOK' BY <1>1 DEF SignUpInv, SignUpTypeOK
<1>4. \A x \in Requests : x # r => Email(x)' = Email(x) BY <1>2 DEF Email
<1>5. Email(r)' = NormalizeEmail[q.address] BY <1>2 DEF Email
<1>6. Progress'
  <2> SUFFICES ASSUME NEW x \in Requests
               PROVE  /\ x > sent' => request'[x].step = "none"
                      /\ request'[x].step # "none" => request'[x].address \in Addresses
                      /\ request'[x].step = "insert" => Email(x)' \in Emails
                      /\ request'[x].step = "announce" =>
                            /\ Email(x)' \in signups'
                            /\ \A ch \in Channels :
                                 announced'[Email(x)'][ch] = IF ch \in request'[x].left THEN 0 ELSE 1
                      /\ request'[x].step = "answer" /\ request'[x].result \in {"created", "listed"} =>
                            Email(x)' \in signups'
    BY DEF Progress
  <2>1. CASE x = r BY <1>1, <1>2, <1>5, <2>1
  <2>2. CASE x # r
    <3>1. x > sent' => x > sent BY <1>1
    <3>2. request'[x] = request[x] /\ Email(x)' = Email(x) BY <1>2, <1>4, <2>2
    <3> QED BY <3>1, <3>2 DEF SignUpInv, Progress
  <2> QED BY <2>1, <2>2
<1>7. OneAnnounces'
  <2>1. \A x \in Requests : request'[x].step = "announce" =>
            request[x].step = "announce" /\ Email(x)' = Email(x)
    BY <1>2, <1>4
  <2> QED BY <2>1 DEF SignUpInv, OneAnnounces
<1>8. AnnouncedOnce' BY DEF SignUpInv, ListIsTrue, AnnouncedOnce
<1>9. SuccessIsListed' BY DEF SignUpInv, ListIsTrue, SuccessIsListed
<1>10. ListedIsAnnounced'
  <2> SUFFICES ASSUME NEW e \in signups', ~(faults' > 0)
               PROVE  \/ \A ch \in Channels : announced'[e][ch] = 1
                      \/ \E x \in Requests :
                            /\ request'[x].step = "announce" /\ Email(x)' = e
                            /\ \A ch \in Channels : announced'[e][ch] = 1 \/ ch \in request'[x].left
    BY DEF ListedIsAnnounced
  <2>1. e \in signups /\ ~(faults > 0) BY <1>1
  <2>2. \/ \A ch \in Channels : announced[e][ch] = 1
        \/ \E x \in Requests :
              /\ request[x].step = "announce" /\ Email(x) = e
              /\ \A ch \in Channels : announced[e][ch] = 1 \/ ch \in request[x].left
    BY <2>1 DEF SignUpInv, ListIsTrue, ListedIsAnnounced
  <2>3. request[r].step = "announce" /\ Email(r) = e => \A ch \in Channels : announced[e][ch] = 1
    BY DEF SignUpInv, Progress
  <2> QED BY <1>2, <1>4, <2>2, <2>3
<1> QED BY <1>3, <1>6, <1>7, <1>8, <1>9, <1>10 DEF SignUpInv, ListIsTrue

\* What the variables are, for the steps below
LEMMA SignUpTypes ==
    ASSUME SignUpInv
    PROVE  /\ MaxRequests \in Nat /\ Requests \subseteq Nat /\ sent \in Nat /\ faults \in Nat
           /\ request \in [Requests -> SentRequests] /\ form \in [Visitors -> Forms]
           /\ \A r \in Requests : request[r].step # "none" => r <= sent
           /\ \A v \in Visitors : form[v].status = "success" =>
                 NormalizeEmail[form[v].confirmed] \in signups
<1>1. /\ MaxRequests \in Nat /\ Requests \subseteq Nat /\ sent \in Nat /\ faults \in Nat
      /\ request \in [Requests -> SentRequests] /\ form \in [Visitors -> Forms]
  BY SignUpConstants DEF SignUpInv, SignUpTypeOK, Requests
<1>2. \A r \in Requests : request[r].step # "none" => r <= sent
  <2>1. \A r \in Requests : r > sent => request[r].step = "none" BY DEF SignUpInv, Progress
  <2> QED BY <1>1, <2>1
<1> QED BY <1>1, <1>2 DEF SignUpInv, ListIsTrue, SuccessIsListed

\* handleSubmit
LEMMA SubmitKeeps ==
    ASSUME SignUpInv, NEW v \in Visitors, HandleSubmit(v)
    PROVE  SignUpInv'
<1>1. PICK address \in Addresses, agreed \in BOOLEAN :
        IF ValidateEarlyAccessForm(address, agreed)
        THEN /\ sent < MaxRequests /\ sent' = sent + 1
             /\ form' = [form EXCEPT ![v].status = "submitting", ![v].error = FALSE,
                                     ![v].request = sent + 1]
             /\ request' = [request EXCEPT ![sent + 1] =
                               [NoRequest EXCEPT !.step = "sent", !.address = address]]
        ELSE /\ form' = [form EXCEPT ![v].error = TRUE]
             /\ UNCHANGED <<request, sent>>
  BY DEF HandleSubmit
<1>2. UNCHANGED <<signups, announced, faults>> /\ form[v].status = "idle" BY DEF HandleSubmit
<1>3. form[v] \in Forms BY SignUpTypes
<1>4. CASE ValidateEarlyAccessForm(address, agreed)
  <2> DEFINE f == [form[v] EXCEPT !.status = "submitting", !.error = FALSE, !.request = sent + 1]
             q == [NoRequest EXCEPT !.step = "sent", !.address = address]
  <2>1. sent < MaxRequests /\ sent' = sent + 1 /\ sent + 1 \in Requests
    BY <1>1, <1>4, SignUpTypes DEF Requests
  <2>2. request' = [request EXCEPT ![sent + 1] = q] BY <1>1, <1>4
  <2>3. form' = [form EXCEPT ![v] = f] BY <1>1, <1>4
  <2>4. q \in SentRequests /\ q.step = "sent" /\ q.address = address BY DEF NoRequest, SentRequests
  <2>5. f \in Forms /\ f.status = "submitting"
    <3>1. sent + 1 \in 0 .. MaxRequests BY <2>1, SignUpTypes
    <3> QED BY <1>3, <3>1 DEF Forms
  <2>6. request[sent + 1].step = "none" BY <2>1, SignUpTypes DEF SignUpInv, Progress
  <2> HIDE DEF f, q
  <2>7. form' \in [Visitors -> Forms] BY <2>3, <2>5, SignUpTypes
  <2>8. \A w \in Visitors : form'[w].status = "success" =>
            form[w].status = "success" /\ form'[w].confirmed = form[w].confirmed
    BY <2>3, <2>5, SignUpTypes
  <2>9. /\ signups' \subseteq Emails /\ faults' \in Nat /\ faults' >= faults
        /\ sent' \in 0 .. MaxRequests /\ sent' >= sent /\ sent + 1 <= sent'
    BY <1>2, <2>1, SignUpTypes DEF SignUpInv, SignUpTypeOK
  <2> QED BY <1>2, <2>1, <2>2, <2>4, <2>6, <2>7, <2>8, <2>9, RequestMoves
<1>5. CASE ~ValidateEarlyAccessForm(address, agreed)
  <2> DEFINE f == [form[v] EXCEPT !.error = TRUE]
  <2>1. form' = [form EXCEPT ![v] = f] /\ UNCHANGED <<request, sent>> BY <1>1, <1>5
  <2>2. f \in Forms /\ f.status = "idle" BY <1>2, <1>3 DEF Forms
  <2> HIDE DEF f
  <2>3. form' \in [Visitors -> Forms] BY <2>1, <2>2, SignUpTypes
  <2>4. \A w \in Visitors : form'[w].status = "success" =>
            form[w].status = "success" /\ form'[w].confirmed = form[w].confirmed
    BY <2>1, <2>2, SignUpTypes
  <2> QED BY <1>2, <2>1, <2>3, <2>4, FormsMove
<1> QED BY <1>4, <1>5

\* The handler goes on by itself: what it has done and what it will answer.
LEMMA HandlerMoves ==
    ASSUME SignUpInv, NEW r \in Requests, NEW q \in SentRequests,
           request' = [request EXCEPT ![r] = q],
           request[r].step # "none",
           request[r].step = "announce" => request[r].left = {} \/ faults' > 0,
           q.address = request[r].address, q.step # "announce",
           q.step = "insert" => Email(r) \in Emails,
           q.step = "answer" /\ q.result \in {"created", "listed"} => Email(r) \in signups',
           signups \subseteq signups', signups' \subseteq Emails, announced' = announced,
           faults' = faults \/ faults' = faults + 1, signups' = signups \/ faults' = faults + 1,
           form' = form, sent' = sent
    PROVE  SignUpInv'
<1>1. NormalizeEmail[q.address] = Email(r) BY DEF Email
<1>2. /\ sent' \in 0 .. MaxRequests /\ sent' >= sent /\ r <= sent'
      /\ faults' \in Nat /\ faults' >= faults /\ (faults' = faults + 1 => faults' > 0)
  BY SignUpTypes DEF SignUpInv, SignUpTypeOK
<1>3. form' \in [Visitors -> Forms] BY SignUpTypes
<1>4. q.address \in Addresses BY DEF SignUpInv, Progress
<1> QED BY <1>1, <1>2, <1>3, <1>4, RequestMoves

\* The handler, where it does not announce
LEMMA HandlerKeeps ==
    ASSUME SignUpInv, NEW r \in Requests,
           Handler(r) \/ QueryFails(r) \/ Settled(r) \/ (CreateEarlyAccessSignup(r) /\ ~Created(Email(r)))
    PROVE  SignUpInv'
<1>1. request[r] \in SentRequests /\ signups \subseteq Emails
  BY SignUpTypes DEF SignUpInv, SignUpTypeOK
<1>2. CASE Handler(r) /\ Email(r) = NoEmail
  <2> DEFINE q == [request[r] EXCEPT !.step = "answer", !.result = "refused"]
  <2>1. request' = [request EXCEPT ![r] = q] BY <1>2 DEF Handler, Answers
  <2>2. /\ q \in SentRequests /\ q.step = "answer" /\ q.result = "refused"
        /\ q.address = request[r].address
    BY <1>1 DEF SentRequests
  <2> HIDE DEF q
  <2> QED BY <1>1, <1>2, <2>1, <2>2, HandlerMoves DEF Handler
<1>4. CASE Handler(r) /\ Email(r) # NoEmail
  <2> DEFINE q == [request[r] EXCEPT !.step = "insert"]
  <2>1. request' = [request EXCEPT ![r] = q] BY <1>4 DEF Handler, Goes
  <2>2. q \in SentRequests /\ q.step = "insert" /\ q.address = request[r].address
    BY <1>1 DEF SentRequests
  <2>3. Email(r) \in Emails
    <3>1. request[r].address \in Addresses BY <1>4 DEF Handler, SignUpInv, Progress
    <3> QED BY <1>4, <3>1, SignUpConstants DEF Email
  <2> HIDE DEF q
  <2> QED BY <1>1, <1>4, <2>1, <2>2, <2>3, HandlerMoves DEF Handler
<1>5. CASE QueryFails(r)
  <2> DEFINE q == [request[r] EXCEPT !.step = "answer", !.result = "failed"]
  <2>1. request' = [request EXCEPT ![r] = q] BY <1>5 DEF QueryFails, FailedQuery, Answers
  <2>2. /\ q \in SentRequests /\ q.step = "answer" /\ q.result = "failed"
        /\ q.address = request[r].address
    BY <1>1 DEF SentRequests
  <2>3. /\ request[r].step = "insert" /\ faults' = faults + 1
        /\ (signups' = signups \/ signups' = signups \cup {Email(r)})
        /\ UNCHANGED <<form, announced, sent>>
    BY <1>5 DEF QueryFails
  <2>4. Email(r) \in Emails BY <2>3 DEF SignUpInv, Progress
  <2> HIDE DEF q
  <2> QED BY <1>1, <2>1, <2>2, <2>3, <2>4, HandlerMoves
<1>6. CASE Settled(r)
  <2> DEFINE q == [request[r] EXCEPT !.step = "answer", !.result = "created"]
  <2>1. request' = [request EXCEPT ![r] = q] BY <1>6 DEF Settled, Answers
  <2>2. /\ q \in SentRequests /\ q.step = "answer" /\ q.address = request[r].address
    BY <1>1 DEF SentRequests
  <2>3. Email(r) \in signups BY <1>6 DEF Settled, SignUpInv, Progress
  <2> HIDE DEF q
  <2> QED BY <1>1, <1>6, <2>1, <2>2, <2>3, HandlerMoves DEF Settled
<1>7. CASE CreateEarlyAccessSignup(r) /\ ~Created(Email(r))
  <2> DEFINE q == [request[r] EXCEPT !.step = "answer", !.result = "listed"]
  <2>1. request' = [request EXCEPT ![r] = q] BY <1>7 DEF CreateEarlyAccessSignup, Answers
  <2>2. /\ q \in SentRequests /\ q.step = "answer" /\ q.address = request[r].address
    BY <1>1 DEF SentRequests
  <2>3. Email(r) \in signups /\ signups' = signups
    BY <1>7 DEF Created, CreateEarlyAccessSignup
  <2> HIDE DEF q
  <2> QED BY <1>1, <1>7, <2>1, <2>2, <2>3, HandlerMoves DEF CreateEarlyAccessSignup
<1> QED BY <1>2, <1>4, <1>5, <1>6, <1>7

\* The answer comes, or the request fails on its way: who waited is told.
LEMMA EndsKeeps ==
    ASSUME SignUpInv, NEW r \in Requests, NEW result, Ends(r, result),
           request[r].step # "none",
           request[r].step = "announce" => faults' > 0,
           result \in {"created", "listed"} => Email(r) \in signups,
           faults' = faults \/ faults' = faults + 1
    PROVE  SignUpInv'
<1> DEFINE q == [request[r] EXCEPT !.step = "over"]
<1>1. request' = [request EXCEPT ![r] = q] /\ UNCHANGED <<signups, announced, sent>> BY DEF Ends
<1>2. q \in SentRequests /\ q.step = "over" /\ q.address = request[r].address
  BY SignUpTypes DEF SentRequests
<1>3. q.address \in Addresses BY <1>2 DEF SignUpInv, Progress
<1>4. form' = [v \in Visitors |-> IF v \in Waiting(r) THEN Told(form[v], r, result) ELSE form[v]]
  BY DEF Ends
<1>5. ASSUME NEW v \in Visitors
      PROVE  /\ form'[v] \in Forms
             /\ form'[v].status = "success" =>
                  \/ form[v].status = "success" /\ form'[v].confirmed = form[v].confirmed
                  \/ NormalizeEmail[form'[v].confirmed] \in signups
  <2>1. CASE v \notin Waiting(r) BY <1>4, <2>1, SignUpTypes
  <2>2. CASE v \in Waiting(r)
    <3>1. form'[v] = Told(form[v], r, result) BY <1>4, <2>2
    <3>2. form[v] \in Forms BY SignUpTypes
    <3>3. CASE result \in {"created", "listed"}
      <4>1. form'[v] = [form[v] EXCEPT !.status = "success", !.confirmed = request[r].address]
        BY <3>1, <3>3 DEF Told
      <4>2. form'[v] \in Forms /\ form'[v].confirmed = request[r].address
        BY <1>2, <1>3, <3>2, <4>1 DEF Forms
      <4> QED BY <3>3, <4>2 DEF Email
    <3>4. CASE result \notin {"created", "listed"}
      <4>1. form'[v] = [form[v] EXCEPT !.status = "idle", !.error = TRUE]
        BY <3>1, <3>4 DEF Told
      <4>2. form'[v] \in Forms /\ form'[v].status = "idle" BY <3>2, <4>1 DEF Forms
      <4> QED BY <4>2
    <3> QED BY <3>3, <3>4
  <2> QED BY <2>1, <2>2
<1>6. form' \in [Visitors -> Forms]
  <2>1. form' = [v \in Visitors |-> form'[v]] BY <1>4
  <2> QED BY <1>5, <2>1
<1>7. /\ sent' \in 0 .. MaxRequests /\ sent' >= sent /\ r <= sent'
      /\ faults' \in Nat /\ faults' >= faults /\ signups' \subseteq Emails
  BY <1>1, SignUpTypes DEF SignUpInv, SignUpTypeOK
<1> HIDE DEF q
<1> QED BY <1>1, <1>2, <1>3, <1>5, <1>6, <1>7, RequestMoves

\* The row is new: the request that has written it announces it, and no other does.
LEMMA CreatedKeeps ==
    ASSUME SignUpInv, NEW r \in Requests, CreateEarlyAccessSignup(r), Created(Email(r))
    PROVE  SignUpInv'
<1> DEFINE e == Email(r)
           q == [request[r] EXCEPT !.step = "announce", !.left = Channels]
<1>1. /\ request' = [request EXCEPT ![r] = q] /\ signups' = signups \cup {e}
      /\ UNCHANGED <<form, announced, sent, faults>> /\ request[r].step = "insert"
  BY DEF CreateEarlyAccessSignup
<1>2. e \in Emails /\ e \notin signups BY <1>1 DEF SignUpInv, Progress, Created
<1>3. /\ q \in SentRequests /\ q.step = "announce" /\ q.left = Channels
      /\ q.address = request[r].address
  BY SignUpTypes DEF SentRequests
<1>4. request'[r] = q /\ (\A x \in Requests : x # r => request'[x] = request[x])
  BY <1>1, SignUpTypes
<1>5. \A x \in Requests : Email(x)' = Email(x) BY <1>3, <1>4 DEF Email
<1> HIDE DEF q, e
<1>6. \A ch \in Channels : announced[e][ch] = 0 BY <1>2 DEF SignUpInv, OneAnnounces
<1>7. SignUpTypeOK' BY <1>1, <1>2, <1>3, SignUpTypes DEF SignUpInv, SignUpTypeOK
<1>8. Progress'
  <2>1. ASSUME NEW x \in Requests
        PROVE  /\ x > sent' => request'[x].step = "none"
               /\ request'[x].step # "none" => request'[x].address \in Addresses
               /\ request'[x].step = "insert" => Email(x)' \in Emails
               /\ request'[x].step = "announce" =>
                     /\ Email(x)' \in signups'
                     /\ \A ch \in Channels :
                          announced'[Email(x)'][ch] = IF ch \in request'[x].left THEN 0 ELSE 1
               /\ request'[x].step = "answer" /\ request'[x].result \in {"created", "listed"} =>
                     Email(x)' \in signups'
    <3>1. CASE x = r
      <4>1. ~(r > sent) BY <1>1, SignUpTypes
      <4>2. request[r].address \in Addresses BY <1>1 DEF SignUpInv, Progress
      <4>3. Email(r)' = e BY <1>5 DEF e
      <4> QED BY <1>1, <1>3, <1>4, <1>6, <3>1, <4>1, <4>2, <4>3
    <3>2. CASE x # r
      <4>1. request'[x] = request[x] /\ Email(x)' = Email(x) BY <1>4, <1>5, <3>2
      <4> QED BY <1>1, <4>1 DEF SignUpInv, Progress
    <3> QED BY <3>1, <3>2
  <2> QED BY <2>1 DEF Progress
<1>9. OneAnnounces'
  <2>1. \A x \in Requests : request[x].step = "announce" => Email(x) # e
    BY <1>2 DEF SignUpInv, Progress
  <2>2. \A x \in Requests : request'[x].step = "announce" => x = r \/ request[x].step = "announce"
    BY <1>4
  <2>3. Email(r) = e BY DEF e
  <2>4. \A x, y \in Requests :
           request'[x].step = "announce" /\ request'[y].step = "announce" /\ Email(x) = Email(y) => x = y
    BY <2>1, <2>2, <2>3 DEF SignUpInv, OneAnnounces
  <2>5. \A f \in Emails \ signups', ch \in Channels : announced'[f][ch] = 0
    BY <1>1 DEF SignUpInv, OneAnnounces
  <2> QED BY <1>5, <2>4, <2>5 DEF OneAnnounces
<1>10. AnnouncedOnce' BY <1>1 DEF SignUpInv, ListIsTrue, AnnouncedOnce
<1>11. SuccessIsListed' BY <1>1 DEF SignUpInv, ListIsTrue, SuccessIsListed
<1>12. ListedIsAnnounced'
  <2> SUFFICES ASSUME NEW f \in signups', ~(faults' > 0)
               PROVE  \/ \A ch \in Channels : announced'[f][ch] = 1
                      \/ \E x \in Requests :
                            /\ request'[x].step = "announce" /\ Email(x)' = f
                            /\ \A ch \in Channels : announced'[f][ch] = 1 \/ ch \in request'[x].left
    BY DEF ListedIsAnnounced
  <2>1. CASE f = e BY <1>3, <1>4, <1>5, <2>1 DEF e
  <2>2. CASE f # e
    <3>1. \/ \A ch \in Channels : announced[f][ch] = 1
          \/ \E x \in Requests :
                /\ request[x].step = "announce" /\ Email(x) = f
                /\ \A ch \in Channels : announced[f][ch] = 1 \/ ch \in request[x].left
      BY <1>1, <2>2 DEF SignUpInv, ListIsTrue, ListedIsAnnounced
    <3> QED BY <1>1, <1>4, <1>5, <3>1
  <2> QED BY <2>1, <2>2
<1> QED BY <1>7, <1>8, <1>9, <1>10, <1>11, <1>12 DEF SignUpInv, ListIsTrue

\* An announcement: it was due, so it is the first of its e-mail on this channel.
LEMMA AnnounceKeeps ==
    ASSUME SignUpInv, NEW r \in Requests, NEW ch \in {"discord", "email"}, Announce(r, ch)
    PROVE  SignUpInv'
<1> DEFINE e == Email(r)
           q == [request[r] EXCEPT !.left = @ \ {ch}]
<1>1. /\ request' = [request EXCEPT ![r] = q] /\ announced' = [announced EXCEPT ![e][ch] = @ + 1]
      /\ UNCHANGED <<form, signups, sent, faults>>
      /\ request[r].step = "announce" /\ ch \in request[r].left
  BY DEF Announce, Settles
<1>2. request[r] \in SentRequests /\ ch \in Channels
  <2>1. request[r] \in SentRequests BY SignUpTypes
  <2> QED BY <1>1, <2>1 DEF SentRequests
<1>3. e \in signups /\ e \in Emails BY <1>1 DEF SignUpInv, Progress, SignUpTypeOK
<1>4. announced[e][ch] = 0 BY <1>1, <1>2 DEF SignUpInv, Progress
<1>5. /\ q \in SentRequests /\ q.step = "announce" /\ q.left = request[r].left \ {ch}
      /\ q.address = request[r].address
  BY <1>1, <1>2 DEF SentRequests
<1>6. request'[r] = q /\ (\A x \in Requests : x # r => request'[x] = request[x])
  BY <1>1, SignUpTypes
<1>7. \A x \in Requests : Email(x)' = Email(x) BY <1>5, <1>6 DEF Email
<1> HIDE DEF q
<1>8. /\ announced' \in [Emails -> [Channels -> Nat]] /\ announced'[e][ch] = 1
      /\ \A f \in Emails, c \in Channels :
            f # e \/ c # ch => announced'[f][c] = announced[f][c]
  BY <1>1, <1>2, <1>3, <1>4 DEF SignUpInv, SignUpTypeOK
<1>9. SignUpTypeOK' BY <1>1, <1>5, <1>8, SignUpTypes DEF SignUpInv, SignUpTypeOK
<1>10. \A x \in Requests : x # r /\ request[x].step = "announce" => Email(x) # e
  BY <1>1 DEF SignUpInv, OneAnnounces
<1>11. Progress'
  <2>1. ASSUME NEW x \in Requests
        PROVE  /\ x > sent' => request'[x].step = "none"
               /\ request'[x].step # "none" => request'[x].address \in Addresses
               /\ request'[x].step = "insert" => Email(x)' \in Emails
               /\ request'[x].step = "announce" =>
                     /\ Email(x)' \in signups'
                     /\ \A c \in Channels :
                          announced'[Email(x)'][c] = IF c \in request'[x].left THEN 0 ELSE 1
               /\ request'[x].step = "answer" /\ request'[x].result \in {"created", "listed"} =>
                     Email(x)' \in signups'
    <3>1. CASE x = r
      <4>1. ~(r > sent) BY <1>1, SignUpTypes
      <4>2. request[r].address \in Addresses BY <1>1 DEF SignUpInv, Progress
      <4>3. ASSUME NEW c \in Channels PROVE announced'[e][c] = IF c \in q.left THEN 0 ELSE 1
        <5>1. announced[e][c] = IF c \in request[r].left THEN 0 ELSE 1
          BY <1>1 DEF SignUpInv, Progress
        <5> QED BY <1>3, <1>5, <1>8, <5>1
      <4> QED BY <1>1, <1>3, <1>5, <1>6, <1>7, <3>1, <4>1, <4>2, <4>3
    <3>2. CASE x # r
      <4>1. request'[x] = request[x] /\ Email(x)' = Email(x) BY <1>6, <1>7, <3>2
      <4>2. request[x].step = "announce" =>
              Email(x) \in Emails /\ \A c \in Channels : announced'[Email(x)][c] = announced[Email(x)][c]
        BY <1>8, <1>10, <3>2 DEF SignUpInv, Progress, SignUpTypeOK
      <4> QED BY <1>1, <4>1, <4>2 DEF SignUpInv, Progress
    <3> QED BY <3>1, <3>2
  <2> QED BY <2>1 DEF Progress
<1>12. OneAnnounces'
  <2>1. \A x \in Requests : request'[x].step = "announce" => request[x].step = "announce"
    BY <1>1, <1>6
  <2>2. \A f \in Emails \ signups', c \in Channels : announced'[f][c] = 0
    BY <1>1, <1>3, <1>8 DEF SignUpInv, OneAnnounces
  <2> QED BY <1>7, <2>1, <2>2 DEF SignUpInv, OneAnnounces
<1>13. AnnouncedOnce'
  <2>1. \A f \in Emails, c \in Channels : announced[f][c] \in Nat
    BY DEF SignUpInv, SignUpTypeOK
  <2> QED BY <1>8, <2>1 DEF SignUpInv, ListIsTrue, AnnouncedOnce
<1>14. SuccessIsListed' BY <1>1 DEF SignUpInv, ListIsTrue, SuccessIsListed
<1>15. ListedIsAnnounced'
  <2> SUFFICES ASSUME NEW f \in signups, ~(faults > 0)
               PROVE  \/ \A c \in Channels : announced'[f][c] = 1
                      \/ \E x \in Requests :
                            /\ request'[x].step = "announce" /\ Email(x)' = f
                            /\ \A c \in Channels : announced'[f][c] = 1 \/ c \in request'[x].left
    BY <1>1 DEF ListedIsAnnounced
  <2>1. CASE f = e
    <3>1. \A c \in Channels : announced'[e][c] = 1 \/ c \in q.left
      <4> TAKE c \in Channels
      <4>1. announced[e][c] = IF c \in request[r].left THEN 0 ELSE 1
        BY <1>1 DEF SignUpInv, Progress
      <4> QED BY <1>3, <1>5, <1>8, <4>1
    <3> QED BY <1>5, <1>6, <1>7, <2>1, <3>1
  <2>2. CASE f # e
    <3>1. \/ \A c \in Channels : announced[f][c] = 1
          \/ \E x \in Requests :
                /\ request[x].step = "announce" /\ Email(x) = f
                /\ \A c \in Channels : announced[f][c] = 1 \/ c \in request[x].left
      BY DEF SignUpInv, ListIsTrue, ListedIsAnnounced
    <3>2. f \in Emails BY DEF SignUpInv, SignUpTypeOK
    <3>3. \A c \in Channels : announced'[f][c] = announced[f][c] BY <1>8, <2>2, <3>2
    <3> QED BY <1>6, <1>7, <2>2, <3>1, <3>3
  <2> QED BY <2>1, <2>2
<1> QED BY <1>9, <1>11, <1>12, <1>13, <1>14, <1>15 DEF SignUpInv, ListIsTrue

\* Every step
LEMMA SignUpStep == SignUpInv /\ [SignUpNext]_signUpVars => SignUpInv'
<1> SUFFICES ASSUME SignUpInv, [SignUpNext]_signUpVars PROVE SignUpInv' OBVIOUS
<1>1. CASE \E v \in Visitors : ToggleForm(v) \/ UpdateField(v) BY <1>1, FormKeeps
<1>2. CASE \E v \in Visitors : HandleSubmit(v) BY <1>2, SubmitKeeps
<1>3. ASSUME NEW r \in Requests, RequestGoesOn(r) PROVE SignUpInv'
  <2>1. CASE Handler(r) \/ Settled(r) \/ (CreateEarlyAccessSignup(r) /\ ~Created(Email(r)))
    BY <2>1, HandlerKeeps
  <2>2. CASE CreateEarlyAccessSignup(r) /\ Created(Email(r)) BY <2>2, CreatedKeeps
  <2>3. CASE NotifyEarlyAccessSignup(r) \/ SendEarlyAccessEmailAlert(r)
    BY <2>3, AnnounceKeeps DEF NotifyEarlyAccessSignup, SendEarlyAccessEmailAlert
  <2>4. CASE AnswerArrives(r)
    <3>1. /\ request[r].step = "answer" /\ Ends(r, request[r].result) /\ faults' = faults
      BY <2>4 DEF AnswerArrives
    <3>2. request[r].result \in {"created", "listed"} => Email(r) \in signups
      BY <3>1 DEF SignUpInv, Progress
    <3> QED BY <3>1, <3>2, EndsKeeps
  <2> QED BY <1>3, <2>1, <2>2, <2>3, <2>4 DEF RequestGoesOn
<1>4. ASSUME NEW r \in Requests, QueryFails(r) PROVE SignUpInv' BY <1>4, HandlerKeeps
<1>5. ASSUME NEW r \in Requests, RequestLost(r) PROVE SignUpInv'
  <2>1. request[r].step \in {"sent", "answer"} /\ Ends(r, "lost") /\ faults' = faults
    BY <1>5 DEF RequestLost
  <2> QED BY <2>1, EndsKeeps
<1>6. ASSUME NEW r \in Requests, Crash(r) PROVE SignUpInv'
  <2>1. /\ request[r].step \in {"insert", "announce", "answer"} /\ Ends(r, "lost")
        /\ faults' = faults + 1
    BY <1>6 DEF Crash
  <2>2. faults' > 0 BY <2>1, SignUpTypes
  <2> QED BY <2>1, <2>2, EndsKeeps
<1>7. CASE UNCHANGED signUpVars
  <2>1. /\ UNCHANGED <<request, signups, announced, sent, faults>> /\ form' = form
    BY <1>7 DEF signUpVars
  <2>2. form' \in [Visitors -> Forms] BY <2>1, SignUpTypes
  <2> QED BY <2>1, <2>2, FormsMove
<1> QED BY <1>1, <1>2, <1>3, <1>4, <1>5, <1>6, <1>7 DEF SignUpNext

\* For any visitors, addresses and requests, and however often the server dies: an e-mail
\* is announced at most once on each channel, who is told that he is listed is, and who is
\* listed has been announced or is about to be, unless something failed
\* (createEarlyAccessSignup, handler).
THEOREM ListStaysTrue == SignUpSpec => []ListIsTrue
<1>1. SignUpInv => ListIsTrue BY DEF SignUpInv
<1> QED BY <1>1, SignUpInitHolds, SignUpStep, PTL DEF SignUpSpec

-----------------------------------------------------------------------------
(* The ranking of hands.  Numbers first: the code of up to five ranks.      *)

\* The recursive function of encode has values.
LEMMA EncodeIs ==
    ASSUME NEW v, Len(v) \in 1..5, \A i \in 1..Len(v) : v[i] \in Nat
    PROVE  \E f : /\ f = [n \in 0..Len(v) |-> IF n = 0 THEN 0 ELSE f[n - 1] * 15 + v[n]]
                  /\ Encode(v) = f[Len(v)]
<1> DEFINE m == Len(v)
           d1 == v[1]
           d2 == d1 * 15 + v[2]
           d3 == d2 * 15 + v[3]
           d4 == d3 * 15 + v[4]
           d5 == d4 * 15 + v[5]
           d(n) == IF n = 0 THEN 0 ELSE IF n = 1 THEN d1 ELSE IF n = 2 THEN d2
                   ELSE IF n = 3 THEN d3 ELSE IF n = 4 THEN d4 ELSE d5
           g == [n \in 0..m |-> d(n)]
           Is(f) == f = [n \in 0..m |-> IF n = 0 THEN 0 ELSE f[n - 1] * 15 + v[n]]
<1>1. \A n \in 0..m : n \in 0..5 /\ (n # 0 => n - 1 \in 0..m) OBVIOUS
<1>2. v[1] \in Nat OBVIOUS
<1>3. \A n \in 0..m : g[n] = IF n = 0 THEN 0 ELSE g[n - 1] * 15 + v[n]
  <2> SUFFICES ASSUME NEW n \in 0..m, n # 0 PROVE d(n) = d(n - 1) * 15 + v[n] BY <1>1
  <2>1. n \in {1, 2, 3, 4, 5} BY <1>1
  <2>2. v[1] = 0 * 15 + v[1] BY <1>2
  <2> HIDE DEF d2, d3, d4, d5
  <2>3. CASE n = 1 BY <2>2, <2>3
  <2>4. CASE n = 2 BY <2>4 DEF d2
  <2>5. CASE n = 3 BY <2>5 DEF d3
  <2>6. CASE n = 4 BY <2>6 DEF d4
  <2>7. CASE n = 5 BY <2>7 DEF d5
  <2> QED BY <2>1, <2>3, <2>4, <2>5, <2>6, <2>7
<1>4. g = [n \in 0..m |-> g[n]]
  <2> HIDE DEF d
  <2> QED OBVIOUS
<1> HIDE DEF g
<1>5. Is(g) BY <1>3, <1>4
<1> DEFINE code == CHOOSE f : Is(f)
<1>6. Is(code) BY <1>5
<1>7. Encode(v) = code[m] BY DEF Encode
<1> HIDE DEF code
<1> QED BY <1>6, <1>7

\* The code of each number of ranks
Code2(a, b) == a * 15 + b
Code3(a, b, c) == Code2(a, b) * 15 + c
Code4(a, b, c, d) == Code3(a, b, c) * 15 + d
Code5(a, b, c, d, e) == Code4(a, b, c, d) * 15 + e

\* encode computes it.
LEMMA EncodeLists ==
    ASSUME NEW v, Len(v) \in 1..5, \A i \in 1..Len(v) : v[i] \in Nat
    PROVE  /\ Len(v) = 1 => Encode(v) = v[1]
           /\ Len(v) = 2 => Encode(v) = v[1] * 15 + v[2]
           /\ Len(v) = 3 => Encode(v) = (v[1] * 15 + v[2]) * 15 + v[3]
           /\ Len(v) = 4 => Encode(v) = ((v[1] * 15 + v[2]) * 15 + v[3]) * 15 + v[4]
           /\ Len(v) = 5 => Encode(v) = (((v[1] * 15 + v[2]) * 15 + v[3]) * 15 + v[4]) * 15 + v[5]
<1>1. PICK f : /\ f = [n \in 0..Len(v) |-> IF n = 0 THEN 0 ELSE f[n - 1] * 15 + v[n]]
               /\ Encode(v) = f[Len(v)]
  BY EncodeIs
<1>2. \A n \in 0..Len(v) : f[n] = IF n = 0 THEN 0 ELSE f[n - 1] * 15 + v[n] BY <1>1
<1>3. f[0] = 0 BY <1>2
<1>4. f[1] = v[1]
  <2>0. 1 \in 0..Len(v) /\ 1 \in 1..Len(v) OBVIOUS
  <2>1. v[1] \in Nat BY <2>0
  <2>2. f[1] = f[0] * 15 + v[1] BY <1>2, <2>0
  <2> QED BY <1>3, <2>1, <2>2
<1>5. Len(v) >= 2 => f[2] = f[1] * 15 + v[2] BY <1>2
<1>6. Len(v) >= 3 => f[3] = f[2] * 15 + v[3] BY <1>2
<1>7. Len(v) >= 4 => f[4] = f[3] * 15 + v[4] BY <1>2
<1>8. Len(v) >= 5 => f[5] = f[4] * 15 + v[5] BY <1>2
<1>9. Len(v) = 1 => Encode(v) = v[1] BY <1>1, <1>4
<1>10. Len(v) = 2 => Encode(v) = v[1] * 15 + v[2] BY <1>1, <1>4, <1>5
<1>11. Len(v) = 3 => Encode(v) = (v[1] * 15 + v[2]) * 15 + v[3] BY <1>1, <1>4, <1>5, <1>6
<1>12. Len(v) = 4 => Encode(v) = ((v[1] * 15 + v[2]) * 15 + v[3]) * 15 + v[4]
  BY <1>1, <1>4, <1>5, <1>6, <1>7
<1>13. Len(v) = 5 => Encode(v) = (((v[1] * 15 + v[2]) * 15 + v[3]) * 15 + v[4]) * 15 + v[5]
  BY <1>1, <1>4, <1>5, <1>6, <1>7, <1>8
<1> QED BY <1>9, <1>10, <1>11, <1>12, <1>13

\* The first difference decides.
Lex2(a, b, p, q) == a > p \/ (a = p /\ b > q)
Lex3(a, b, c, p, q, r) == a > p \/ (a = p /\ Lex2(b, c, q, r))
Lex4(a, b, c, d, p, q, r, s) == a > p \/ (a = p /\ Lex3(b, c, d, q, r, s))
Lex5(a, b, c, d, e, p, q, r, s, t) == a > p \/ (a = p /\ Lex4(b, c, d, e, q, r, s, t))

\* No difference
Same2(a, b, p, q) == a = p /\ b = q
Same3(a, b, c, p, q, r) == a = p /\ Same2(b, c, q, r)
Same4(a, b, c, d, p, q, r, s) == a = p /\ Same3(b, c, d, q, r, s)
Same5(a, b, c, d, e, p, q, r, s, t) == a = p /\ Same4(b, c, d, e, q, r, s, t)

\* A further digit decides only between equal numbers.
LEMMA Digits ==
    ASSUME NEW x \in Nat, NEW y \in Nat, NEW k \in 0..14, NEW l \in 0..14
    PROVE  /\ x * 15 + k > y * 15 + l <=> x > y \/ (x = y /\ k > l)
           /\ x * 15 + k = y * 15 + l <=> x = y /\ k = l
OBVIOUS

\* Codes of 2 ranks are compared as the ranks are, the first that differs deciding.
LEMMA Compare2 ==
    ASSUME NEW a \in 2..14, NEW b \in 2..14,
           NEW p \in 2..14, NEW q \in 2..14
    PROVE  /\ Code2(a, b) > Code2(p, q) <=> Lex2(a, b, p, q)
           /\ Code2(a, b) = Code2(p, q) <=> Same2(a, b, p, q)
           /\ Code2(a, b) \in Nat /\ Code2(p, q) \in Nat
BY DEF Code2, Lex2, Same2

\* Codes of 3 ranks are compared as the ranks are, the first that differs deciding.
LEMMA Compare3 ==
    ASSUME NEW a \in 2..14, NEW b \in 2..14, NEW c \in 2..14,
           NEW p \in 2..14, NEW q \in 2..14, NEW r \in 2..14
    PROVE  /\ Code3(a, b, c) > Code3(p, q, r) <=> Lex3(a, b, c, p, q, r)
           /\ Code3(a, b, c) = Code3(p, q, r) <=> Same3(a, b, c, p, q, r)
           /\ Code3(a, b, c) \in Nat /\ Code3(p, q, r) \in Nat
<1> DEFINE u == Code2(a, b)
           w == Code2(p, q)
<1>1. /\ u > w <=> Lex2(a, b, p, q)
      /\ u = w <=> Same2(a, b, p, q)
      /\ u \in Nat /\ w \in Nat
  BY Compare2
<1>2. Code3(a, b, c) = u * 15 + c /\ Code3(p, q, r) = w * 15 + r BY DEF Code3
<1>3. c \in 0..14 /\ r \in 0..14 OBVIOUS
<1> HIDE DEF u, w
<1>4. /\ u * 15 + c > w * 15 + r <=> u > w \/ (u = w /\ c > r)
      /\ u * 15 + c = w * 15 + r <=> u = w /\ c = r
      /\ u * 15 + c \in Nat /\ w * 15 + r \in Nat
  BY <1>1, <1>3, Digits
<1>5. Lex3(a, b, c, p, q, r) <=> Lex2(a, b, p, q) \/ (Same2(a, b, p, q) /\ c > r)
  BY DEF Lex2, Lex3, Same2
<1>6. Same3(a, b, c, p, q, r) <=> Same2(a, b, p, q) /\ c = r BY DEF Same2, Same3
<1> QED BY <1>1, <1>2, <1>4, <1>5, <1>6

\* Codes of 4 ranks are compared as the ranks are, the first that differs deciding.
LEMMA Compare4 ==
    ASSUME NEW a \in 2..14, NEW b \in 2..14, NEW c \in 2..14, NEW d \in 2..14,
           NEW p \in 2..14, NEW q \in 2..14, NEW r \in 2..14, NEW s \in 2..14
    PROVE  /\ Code4(a, b, c, d) > Code4(p, q, r, s) <=> Lex4(a, b, c, d, p, q, r, s)
           /\ Code4(a, b, c, d) = Code4(p, q, r, s) <=> Same4(a, b, c, d, p, q, r, s)
           /\ Code4(a, b, c, d) \in Nat /\ Code4(p, q, r, s) \in Nat
<1> DEFINE u == Code3(a, b, c)
           w == Code3(p, q, r)
<1>1. /\ u > w <=> Lex3(a, b, c, p, q, r)
      /\ u = w <=> Same3(a, b, c, p, q, r)
      /\ u \in Nat /\ w \in Nat
  BY Compare3
<1>2. Code4(a, b, c, d) = u * 15 + d /\ Code4(p, q, r, s) = w * 15 + s BY DEF Code4
<1>3. d \in 0..14 /\ s \in 0..14 OBVIOUS
<1> HIDE DEF u, w
<1>4. /\ u * 15 + d > w * 15 + s <=> u > w \/ (u = w /\ d > s)
      /\ u * 15 + d = w * 15 + s <=> u = w /\ d = s
      /\ u * 15 + d \in Nat /\ w * 15 + s \in Nat
  BY <1>1, <1>3, Digits
<1>5. Lex4(a, b, c, d, p, q, r, s) <=> Lex3(a, b, c, p, q, r) \/ (Same3(a, b, c, p, q, r) /\ d > s)
  BY DEF Lex2, Lex3, Lex4, Same2, Same3
<1>6. Same4(a, b, c, d, p, q, r, s) <=> Same3(a, b, c, p, q, r) /\ d = s BY DEF Same2, Same3, Same4
<1> QED BY <1>1, <1>2, <1>4, <1>5, <1>6

\* Codes of 5 ranks are compared as the ranks are, the first that differs deciding.
LEMMA Compare5 ==
    ASSUME NEW a \in 2..14, NEW b \in 2..14, NEW c \in 2..14, NEW d \in 2..14, NEW e \in 2..14,
           NEW p \in 2..14, NEW q \in 2..14, NEW r \in 2..14, NEW s \in 2..14, NEW t \in 2..14
    PROVE  /\ Code5(a, b, c, d, e) > Code5(p, q, r, s, t) <=> Lex5(a, b, c, d, e, p, q, r, s, t)
           /\ Code5(a, b, c, d, e) = Code5(p, q, r, s, t) <=> Same5(a, b, c, d, e, p, q, r, s, t)
           /\ Code5(a, b, c, d, e) \in Nat /\ Code5(p, q, r, s, t) \in Nat
<1> DEFINE u == Code4(a, b, c, d)
           w == Code4(p, q, r, s)
<1>1. /\ u > w <=> Lex4(a, b, c, d, p, q, r, s)
      /\ u = w <=> Same4(a, b, c, d, p, q, r, s)
      /\ u \in Nat /\ w \in Nat
  <2>1. /\ a \in 2..14 /\ b \in 2..14 /\ c \in 2..14 /\ d \in 2..14
        /\ p \in 2..14 /\ q \in 2..14 /\ r \in 2..14 /\ s \in 2..14
    OBVIOUS
  <2>2. u > w <=> Lex4(a, b, c, d, p, q, r, s) BY Zenon, <2>1, Compare4
  <2>3. u = w <=> Same4(a, b, c, d, p, q, r, s) BY Zenon, <2>1, Compare4
  <2>4. u \in Nat /\ w \in Nat BY DEF Code4, Code3, Code2
  <2> QED BY <2>2, <2>3, <2>4
<1>2. Code5(a, b, c, d, e) = u * 15 + e /\ Code5(p, q, r, s, t) = w * 15 + t BY DEF Code5
<1>3. e \in 0..14 /\ t \in 0..14 OBVIOUS
<1> HIDE DEF u, w
<1>4. /\ u * 15 + e > w * 15 + t <=> u > w \/ (u = w /\ e > t)
      /\ u * 15 + e = w * 15 + t <=> u = w /\ e = t
      /\ u * 15 + e \in Nat /\ w * 15 + t \in Nat
  BY <1>1, <1>3, Digits
<1>5. Lex5(a, b, c, d, e, p, q, r, s, t) <=> Lex4(a, b, c, d, p, q, r, s) \/ (Same4(a, b, c, d, p, q, r, s) /\ e > t)
  BY DEF Lex2, Lex3, Lex4, Lex5, Same2, Same3, Same4
<1>6. Same5(a, b, c, d, e, p, q, r, s, t) <=> Same4(a, b, c, d, p, q, r, s) /\ e = t BY DEF Same2, Same3, Same4, Same5
<1> QED BY <1>1, <1>2, <1>4, <1>5, <1>6

\* No code reaches the scale of the categories.
LEMMA CodesBounded ==
    ASSUME NEW a \in 0..14, NEW b \in 0..14, NEW c \in 0..14, NEW d \in 0..14, NEW e \in 0..14
    PROVE  /\ a \in 0..Scale - 1
           /\ Code2(a, b) \in 0..Scale - 1 /\ Code3(a, b, c) \in 0..Scale - 1
           /\ Code4(a, b, c, d) \in 0..Scale - 1 /\ Code5(a, b, c, d, e) \in 0..Scale - 1
<1>1. Code2(a, b) \in Nat /\ Code2(a, b) < 15 * 15 BY DEF Code2
<1>2. Code3(a, b, c) \in Nat /\ Code3(a, b, c) < 15 * 15 * 15 BY <1>1 DEF Code3
<1>3. Code4(a, b, c, d) \in Nat /\ Code4(a, b, c, d) < 15 * 15 * 15 * 15 BY <1>2 DEF Code4
<1>4. Code5(a, b, c, d, e) \in Nat /\ Code5(a, b, c, d, e) < 15 * 15 * 15 * 15 * 15 BY <1>3 DEF Code5
<1>5. Scale \in Nat /\ 15 * 15 * 15 * 15 * 15 <= Scale BY DEF Scale
<1> QED BY <1>1, <1>2, <1>3, <1>4, <1>5

\* Sets of so many elements by name
Set2(a, b) == {a, b}
Set3(a, b, c) == {a, b, c}
Set4(a, b, c, d) == {a, b, c, d}
Set5(a, b, c, d, e) == {a, b, c, d, e}
Set6(a, b, c, d, e, f) == {a, b, c, d, e, f}

\* Lists of so many elements by name
List4(a, b, c, d) == <<a, b, c, d>>
List5(a, b, c, d, e) == <<a, b, c, d, e>>

\* encode of 1 rank
LEMMA Encode1 ==
    ASSUME NEW a \in 2..14, NEW v, v = <<a>>
    PROVE  Encode(v) = a /\ a \in 0..Scale - 1
<1>1. Len(v) = 1 /\ v[1] = a OBVIOUS
<1>2. Len(v) \in 1..5 BY <1>1
<1>3. \A i \in 1..Len(v) : v[i] \in Nat
  <2>1. 1..Len(v) = {1} BY <1>1
  <2> QED BY <1>1, <2>1
<1>4. Len(v) = 1 => Encode(v) = v[1] BY <1>2, <1>3, EncodeLists
<1>5. Encode(v) = a BY <1>1, <1>4
<1>6. 2 \in 0..14 /\ a \in 0..14 OBVIOUS
<1>7. a \in 0..Scale - 1 BY <1>6, CodesBounded
<1> QED BY <1>5, <1>7

\* encode of 2 ranks
LEMMA Encode2 ==
    ASSUME NEW a \in 2..14, NEW b \in 2..14, NEW v, v = <<a, b>>
    PROVE  Encode(v) = Code2(a, b) /\ Code2(a, b) \in 0..Scale - 1
<1>1. Len(v) = 2 /\ v[1] = a /\ v[2] = b OBVIOUS
<1>2. Len(v) \in 1..5 BY <1>1
<1>3. \A i \in 1..Len(v) : v[i] \in Nat
  <2>1. 1..Len(v) = {1, 2} BY <1>1
  <2> QED BY <1>1, <2>1
<1>4. Len(v) = 2 => Encode(v) = v[1] * 15 + v[2] BY <1>2, <1>3, EncodeLists
<1>5. Encode(v) = Code2(a, b) BY <1>1, <1>4 DEF Code2
<1>6. 2 \in 0..14 /\ a \in 0..14 /\ b \in 0..14 OBVIOUS
<1>7. Code2(a, b) \in 0..Scale - 1 BY <1>6, CodesBounded
<1> QED BY <1>5, <1>7

\* encode of 3 ranks
LEMMA Encode3 ==
    ASSUME NEW a \in 2..14, NEW b \in 2..14, NEW c \in 2..14, NEW v, v = <<a, b, c>>
    PROVE  Encode(v) = Code3(a, b, c) /\ Code3(a, b, c) \in 0..Scale - 1
<1>1. Len(v) = 3 /\ v[1] = a /\ v[2] = b /\ v[3] = c OBVIOUS
<1>2. Len(v) \in 1..5 BY <1>1
<1>3. \A i \in 1..Len(v) : v[i] \in Nat
  <2>1. 1..Len(v) = {1, 2, 3} BY <1>1
  <2> QED BY <1>1, <2>1
<1>4. Len(v) = 3 => Encode(v) = (v[1] * 15 + v[2]) * 15 + v[3] BY <1>2, <1>3, EncodeLists
<1>5. Encode(v) = Code3(a, b, c) BY <1>1, <1>4 DEF Code2, Code3
<1>6. 2 \in 0..14 /\ a \in 0..14 /\ b \in 0..14 /\ c \in 0..14 OBVIOUS
<1>7. Code3(a, b, c) \in 0..Scale - 1 BY <1>6, CodesBounded
<1> QED BY <1>5, <1>7

\* encode of 4 ranks
LEMMA Encode4 ==
    ASSUME NEW a \in 2..14, NEW b \in 2..14, NEW c \in 2..14, NEW d \in 2..14
    PROVE  Encode(List4(a, b, c, d)) = Code4(a, b, c, d) /\ Code4(a, b, c, d) \in 0..Scale - 1
<1> DEFINE v == List4(a, b, c, d)
<1>1. Len(v) = 4 /\ v[1] = a /\ v[2] = b /\ v[3] = c /\ v[4] = d BY DEF List4
<1> HIDE DEF v
<1>2. Len(v) \in 1..5 BY <1>1
<1>3. \A i \in 1..Len(v) : v[i] \in Nat
  <2>1. 1..Len(v) = {1, 2, 3, 4} BY <1>1
  <2> QED BY <1>1, <2>1
<1>4. Len(v) = 4 => Encode(v) = ((v[1] * 15 + v[2]) * 15 + v[3]) * 15 + v[4] BY <1>2, <1>3, EncodeLists
<1>5. Encode(v) = Code4(a, b, c, d) BY <1>1, <1>4 DEF Code2, Code3, Code4
<1>6. 2 \in 0..14 /\ a \in 0..14 /\ b \in 0..14 /\ c \in 0..14 /\ d \in 0..14 OBVIOUS
<1>7. Code4(a, b, c, d) \in 0..Scale - 1 BY <1>6, CodesBounded
<1> QED BY <1>5, <1>7 DEF v

\* encode of 5 ranks
LEMMA Encode5 ==
    ASSUME NEW a \in 2..14, NEW b \in 2..14, NEW c \in 2..14, NEW d \in 2..14, NEW e \in 2..14
    PROVE  Encode(List5(a, b, c, d, e)) = Code5(a, b, c, d, e) /\ Code5(a, b, c, d, e) \in 0..Scale - 1
<1> DEFINE v == List5(a, b, c, d, e)
<1>1. Len(v) = 5 /\ v[1] = a /\ v[2] = b /\ v[3] = c /\ v[4] = d /\ v[5] = e BY DEF List5
<1> HIDE DEF v
<1>2. Len(v) \in 1..5 BY <1>1
<1>3. \A i \in 1..Len(v) : v[i] \in Nat
  <2>1. 1..Len(v) = {1, 2, 3, 4, 5} BY <1>1
  <2> QED BY <1>1, <2>1
<1>4. Len(v) = 5 => Encode(v) = (((v[1] * 15 + v[2]) * 15 + v[3]) * 15 + v[4]) * 15 + v[5] BY <1>2, <1>3, EncodeLists
<1>5. Encode(v) = Code5(a, b, c, d, e) BY <1>1, <1>4 DEF Code2, Code3, Code4, Code5
<1>6. 2 \in 0..14 /\ a \in 0..14 /\ b \in 0..14 /\ c \in 0..14 /\ d \in 0..14 /\ e \in 0..14 OBVIOUS
<1>7. Code5(a, b, c, d, e) \in 0..Scale - 1 BY <1>6, CodesBounded
<1> QED BY <1>5, <1>7 DEF v

-----------------------------------------------------------------------------
(* The shapes of a hand of five cards.                                      *)

\* The hand is of these cards.
Five(F, a, b, c, d, e) ==
    /\ F = {a, b, c, d, e} /\ {a, b, c, d, e} \subseteq Deck
    /\ a # b /\ a # c /\ a # d /\ a # e /\ b # c /\ b # d /\ b # e /\ c # d /\ c # e /\ d # e

\* Five ranks, a pair, two pairs, three of a kind, a full house, four of a kind: the cards
\* that share a rank first.
Singles(F, a, b, c, d, e) ==
    /\ Five(F, a, b, c, d, e)
    /\ a.rank > b.rank /\ b.rank > c.rank /\ c.rank > d.rank /\ d.rank > e.rank
OnePair(F, a, b, c, d, e) ==
    /\ Five(F, a, b, c, d, e)
    /\ a.rank = b.rank /\ a.rank \notin {c.rank, d.rank, e.rank}
    /\ c.rank > d.rank /\ d.rank > e.rank
TwoPairs(F, a, b, c, d, e) ==
    /\ Five(F, a, b, c, d, e)
    /\ a.rank = b.rank /\ c.rank = d.rank /\ a.rank > c.rank /\ e.rank \notin {a.rank, c.rank}
Three(F, a, b, c, d, e) ==
    /\ Five(F, a, b, c, d, e)
    /\ a.rank = b.rank /\ b.rank = c.rank /\ a.rank \notin {d.rank, e.rank} /\ d.rank > e.rank
Full(F, a, b, c, d, e) ==
    /\ Five(F, a, b, c, d, e)
    /\ a.rank = b.rank /\ b.rank = c.rank /\ d.rank = e.rank /\ a.rank # d.rank
Four(F, a, b, c, d, e) ==
    /\ Five(F, a, b, c, d, e)
    /\ a.rank = b.rank /\ b.rank = c.rank /\ c.rank = d.rank /\ a.rank # e.rank

\* A card is known by its rank and its suit.
LEMMA CardIs ==
    ASSUME NEW c \in Deck
    PROVE  c.rank \in 2..14 /\ c.suit \in Suits(Deck) /\ c = [rank |-> c.rank, suit |-> c.suit]
BY DeckAssumption DEF Ace

\* Some card ranks highest.
LEMMA TopCard ==
    ASSUME NEW S \in SUBSET Deck, S # {}
    PROVE  \E c \in S : \A d \in S : d.rank <= c.rank
<1> DEFINE R == {p \in Nat \X Nat : p[1] < p[2]}
           T == {14 - c.rank : c \in S}
<1>1. IsWellFoundedOn(R, Nat)
  BY NatLessThanWellFounded DEF OpToRel
<1>2. \A c \in S : c.rank \in 2..14 BY CardIs
<1>3. T \subseteq Nat /\ T # {} BY <1>2
<1>4. PICK x \in T : \A y \in T : ~ (<<y, x>> \in R)
  <2> HIDE DEF R, T
  <2> QED BY <1>1, <1>3, WFMin
<1>5. PICK c \in S : x = 14 - c.rank OBVIOUS
<1>6. ASSUME NEW d \in S PROVE d.rank <= c.rank
  <2>1. c.rank \in 2..14 /\ d.rank \in 2..14 BY <1>2
  <2>2. 14 - d.rank \in T OBVIOUS
  <2>3. <<14 - d.rank, 14 - c.rank>> \notin R BY <1>4, <1>5, <2>2
  <2>4. ~(14 - d.rank < 14 - c.rank) BY <2>1, <2>3
  <2> QED BY <2>1, <2>4
<1> QED BY <1>6

\* The cards of a hand in their order
LEMMA InOrder ==
    ASSUME NEW F \in Fives(Deck)
    PROVE  \E a, b, c, d, e :
              /\ Five(F, a, b, c, d, e)
              /\ a.rank >= b.rank /\ b.rank >= c.rank /\ c.rank >= d.rank /\ d.rank >= e.rank
<1>1. F \in SUBSET Deck /\ Cardinality(F) = 5 /\ IsFiniteSet(F)
  <2>1. F \in SUBSET Deck /\ Cardinality(F) = 5 BY DEF Fives, kSubset
  <2> QED BY <2>1, DeckAssumption, FS_Subset
<1>2. ASSUME NEW S \in SUBSET F, NEW n \in Nat, Cardinality(S) = n + 1
      PROVE  \E c \in S : /\ \A d \in S : d.rank <= c.rank
                          /\ S \ {c} \in SUBSET F /\ Cardinality(S \ {c}) = n
                          /\ S = (S \ {c}) \cup {c}
  <2>1. IsFiniteSet(S) BY <1>1, FS_Subset
  <2>2. S # {} BY <1>2, FS_EmptySet
  <2>3. PICK c \in S : \A d \in S : d.rank <= c.rank
    <3>1. S \in SUBSET Deck BY <1>1
    <3> QED BY <2>2, <3>1, TopCard
  <2>4. Cardinality(S \ {c}) = n
    <3>1. Cardinality(S \ {c}) = Cardinality(S) - 1 BY <2>1, FS_RemoveElement
    <3> QED BY <1>2, <3>1
  <2> QED BY <2>3, <2>4
<1>3. PICK a \in F : /\ \A x \in F : x.rank <= a.rank
                     /\ F \ {a} \in SUBSET F /\ Cardinality(F \ {a}) = 4
  BY <1>1, <1>2
<1> DEFINE F4 == F \ {a}
<1>4. PICK b \in F4 : /\ \A x \in F4 : x.rank <= b.rank
                      /\ F4 \ {b} \in SUBSET F /\ Cardinality(F4 \ {b}) = 3
  <2> HIDE DEF F4
  <2>1. F4 \in SUBSET F /\ Cardinality(F4) = 3 + 1 BY <1>3 DEF F4
  <2> QED BY <1>2, <2>1
<1> DEFINE F3 == F4 \ {b}
<1>5. PICK c \in F3 : /\ \A x \in F3 : x.rank <= c.rank
                      /\ F3 \ {c} \in SUBSET F /\ Cardinality(F3 \ {c}) = 2
  <2> HIDE DEF F3
  <2>1. F3 \in SUBSET F /\ Cardinality(F3) = 2 + 1 BY <1>4 DEF F3
  <2> QED BY <1>2, <2>1
<1> DEFINE F2 == F3 \ {c}
<1>6. PICK d \in F2 : /\ \A x \in F2 : x.rank <= d.rank
                      /\ F2 \ {d} \in SUBSET F /\ Cardinality(F2 \ {d}) = 1
  <2> HIDE DEF F2
  <2>1. F2 \in SUBSET F /\ Cardinality(F2) = 1 + 1 BY <1>5 DEF F2
  <2> QED BY <1>2, <2>1
<1> DEFINE F1 == F2 \ {d}
<1>7. PICK e : F1 = {e}
  <2> HIDE DEF F1
  <2>1. F1 \in SUBSET F /\ Cardinality(F1) = 1 BY <1>6 DEF F1
  <2>2. IsFiniteSet(F1) BY <1>1, <2>1, FS_Subset
  <2> QED BY <2>1, <2>2, FS_Singleton
<1>8. F = {a, b, c, d, e} /\ e \in F BY <1>3, <1>4, <1>5, <1>6, <1>7
<1>9. /\ a # b /\ a # c /\ a # d /\ a # e /\ b # c /\ b # d /\ b # e /\ c # d /\ c # e /\ d # e
      /\ b \in F /\ c \in F4 /\ d \in F3 /\ e \in F2
  BY <1>3, <1>4, <1>5, <1>6, <1>7
<1>10. \A x \in F : x.rank \in 2..14 BY <1>1, CardIs
<1>11. b.rank <= a.rank /\ c.rank <= b.rank /\ d.rank <= c.rank /\ e.rank <= d.rank
  BY <1>3, <1>4, <1>5, <1>6, <1>9
<1>12. a.rank >= b.rank /\ b.rank >= c.rank /\ c.rank >= d.rank /\ d.rank >= e.rank
  BY <1>8, <1>10, <1>11
<1>13. Five(F, a, b, c, d, e) BY <1>1, <1>8, <1>9 DEF Five
<1> QED BY <1>12, <1>13
\* As many elements as are named, when they differ.
LEMMA TwoElements ==
    ASSUME NEW a, NEW b, a # b
    PROVE  IsFiniteSet({a, b}) /\ Cardinality({a, b}) = 2
<1>1. IsFiniteSet({a}) /\ Cardinality({a}) = 1 BY FS_Singleton
<1>2. {a, b} = {a} \cup {b} /\ b \notin {a} OBVIOUS
<1>3. IsFiniteSet({a} \cup {b}) /\ Cardinality({a} \cup {b}) = Cardinality({a}) + 1
  BY <1>1, <1>2, FS_AddElement
<1> QED BY <1>1, <1>2, <1>3

\* As many elements as are named, when they differ.
LEMMA ThreeElements ==
    ASSUME NEW a, NEW b, NEW c, a # b, c \notin {a, b}
    PROVE  IsFiniteSet({a, b, c}) /\ Cardinality({a, b, c}) = 3
<1> DEFINE S == {a, b}
<1>1. IsFiniteSet(S) /\ Cardinality(S) = 2 BY TwoElements
<1>2. {a, b, c} = S \cup {c} /\ c \notin S OBVIOUS
<1> HIDE DEF S
<1>3. IsFiniteSet(S \cup {c}) /\ Cardinality(S \cup {c}) = Cardinality(S) + 1
  BY <1>1, <1>2, FS_AddElement
<1> QED BY <1>1, <1>2, <1>3

\* As many elements as are named, when they differ.
LEMMA FourElements ==
    ASSUME NEW a, NEW b, NEW c, NEW d, a # b, c \notin {a, b}, d \notin {a, b, c}
    PROVE  IsFiniteSet({a, b, c, d}) /\ Cardinality({a, b, c, d}) = 4
<1> DEFINE S == {a, b, c}
<1>1. IsFiniteSet(S) /\ Cardinality(S) = 3 BY ThreeElements
<1>2. {a, b, c, d} = S \cup {d} /\ d \notin S OBVIOUS
<1> HIDE DEF S
<1>3. IsFiniteSet(S \cup {d}) /\ Cardinality(S \cup {d}) = Cardinality(S) + 1
  BY <1>1, <1>2, FS_AddElement
<1> QED BY <1>1, <1>2, <1>3

\* As many elements as are named, when they differ.
LEMMA FiveElements ==
    ASSUME NEW a, NEW b, NEW c, NEW d, NEW e,
           a # b, c \notin {a, b}, d \notin {a, b, c}, e \notin {a, b, c, d}
    PROVE  IsFiniteSet({a, b, c, d, e}) /\ Cardinality({a, b, c, d, e}) = 5
<1> DEFINE S == {a, b, c, d}
<1>1. IsFiniteSet(S) /\ Cardinality(S) = 4 BY FourElements
<1>2. {a, b, c, d, e} = S \cup {e} /\ e \notin S OBVIOUS
<1> HIDE DEF S
<1>3. IsFiniteSet(S \cup {e}) /\ Cardinality(S \cup {e}) = Cardinality(S) + 1
  BY <1>1, <1>2, FS_AddElement
<1> QED BY <1>1, <1>2, <1>3

\* As many elements as are named, when they differ.
LEMMA SixElements ==
    ASSUME NEW a, NEW b, NEW c, NEW d, NEW e, NEW f,
           a # b, c \notin {a, b}, d \notin {a, b, c}, e \notin {a, b, c, d},
           f \notin {a, b, c, d, e}
    PROVE  IsFiniteSet({a, b, c, d, e, f}) /\ Cardinality({a, b, c, d, e, f}) = 6
<1> DEFINE S == {a, b, c, d, e}
<1>1. IsFiniteSet(S) /\ Cardinality(S) = 5 BY FiveElements
<1>2. {a, b, c, d, e, f} = S \cup {f} /\ f \notin S OBVIOUS
<1> HIDE DEF S
<1>3. IsFiniteSet(S \cup {f}) /\ Cardinality(S \cup {f}) = Cardinality(S) + 1
  BY <1>1, <1>2, FS_AddElement
<1> QED BY <1>1, <1>2, <1>3

\* The suits of finitely many cards are finitely many.
LEMMA SuitsAreFinite ==
    ASSUME NEW S, IsFiniteSet(S)
    PROVE  IsFiniteSet(Suits(S)) /\ IsFiniteSet(Ranks(S))
<1> DEFINE f == [x \in S |-> x.suit]
           g == [x \in S |-> x.rank]
<1>1. f \in Surjection(S, Suits(S)) BY DEF Surjection, Suits
<1>2. g \in Surjection(S, Ranks(S)) BY DEF Surjection, Ranks
<1> HIDE DEF f, g
<1> QED BY <1>1, <1>2, FS_Surjection
\* A set with five different members has at least five.
LEMMA FiveMembers ==
    ASSUME NEW S, IsFiniteSet(S), NEW a \in S, NEW b \in S, NEW c \in S, NEW d \in S, NEW e \in S,
           a # b, c \notin {a, b}, d \notin {a, b, c}, e \notin {a, b, c, d}
    PROVE  Cardinality(S) >= 5
<1> DEFINE T == {a, b, c, d, e}
<1>1. IsFiniteSet(T) /\ Cardinality(T) = 5 BY FiveElements
<1>2. T \in SUBSET S OBVIOUS
<1> HIDE DEF T
<1>3. Cardinality(T) <= Cardinality(S) BY <1>2, FS_Subset
<1>4. Cardinality(S) \in Nat BY FS_CardinalityType
<1> QED BY <1>1, <1>3, <1>4

\* No rank has five cards, since there are four suits.
LEMMA FourSuits ==
    ASSUME NEW a, NEW b, NEW c, NEW d, NEW e, NEW F, Five(F, a, b, c, d, e)
    PROVE  ~(a.rank = b.rank /\ b.rank = c.rank /\ c.rank = d.rank /\ d.rank = e.rank)
<1> SUFFICES ASSUME a.rank = b.rank /\ b.rank = c.rank /\ c.rank = d.rank /\ d.rank = e.rank
             PROVE  FALSE
  OBVIOUS
<1>1. a \in Deck /\ b \in Deck /\ c \in Deck /\ d \in Deck /\ e \in Deck BY DEF Five
<1>2. /\ a = [rank |-> a.rank, suit |-> a.suit] /\ b = [rank |-> a.rank, suit |-> b.suit]
      /\ c = [rank |-> a.rank, suit |-> c.suit] /\ d = [rank |-> a.rank, suit |-> d.suit]
      /\ e = [rank |-> a.rank, suit |-> e.suit]
  BY <1>1, CardIs
<1>3. /\ a.suit # b.suit /\ c.suit \notin {a.suit, b.suit}
      /\ d.suit \notin {a.suit, b.suit, c.suit}
      /\ e.suit \notin {a.suit, b.suit, c.suit, d.suit}
  BY <1>2 DEF Five
<1>4. a.suit \in Suits(Deck) /\ b.suit \in Suits(Deck) /\ c.suit \in Suits(Deck)
      /\ d.suit \in Suits(Deck) /\ e.suit \in Suits(Deck)
  BY <1>1 DEF Suits
<1>5. IsFiniteSet(Suits(Deck)) BY DeckAssumption, SuitsAreFinite
<1>6. Cardinality(Suits(Deck)) >= 5 BY <1>3, <1>4, <1>5, FiveMembers
<1>7. Cardinality(Suits(Deck)) \in Nat BY <1>5, FS_CardinalityType
<1> QED BY <1>6, <1>7, DeckAssumption

\* A hand has one of six shapes, when its cards are named in the right order.
LEMMA Shapes ==
    ASSUME NEW F \in Fives(Deck)
    PROVE  \E a, b, c, d, e :
              \/ Singles(F, a, b, c, d, e) \/ OnePair(F, a, b, c, d, e)
              \/ TwoPairs(F, a, b, c, d, e) \/ Three(F, a, b, c, d, e)
              \/ Full(F, a, b, c, d, e) \/ Four(F, a, b, c, d, e)
<1> DEFINE Shape(a, b, c, d, e) ==
              \/ Singles(F, a, b, c, d, e) \/ OnePair(F, a, b, c, d, e)
              \/ TwoPairs(F, a, b, c, d, e) \/ Three(F, a, b, c, d, e)
              \/ Full(F, a, b, c, d, e) \/ Four(F, a, b, c, d, e)
<1>1. PICK a, b, c, d, e :
         /\ Five(F, a, b, c, d, e)
         /\ a.rank >= b.rank /\ b.rank >= c.rank /\ c.rank >= d.rank /\ d.rank >= e.rank
  BY InOrder
<1>2. /\ a.rank \in 2..14 /\ b.rank \in 2..14 /\ c.rank \in 2..14
      /\ d.rank \in 2..14 /\ e.rank \in 2..14
  BY <1>1, CardIs DEF Five
<1>3. /\ Five(F, b, c, a, d, e) /\ Five(F, c, d, a, b, e) /\ Five(F, d, e, a, b, c)
      /\ Five(F, a, b, d, e, c) /\ Five(F, b, c, d, e, a) /\ Five(F, b, c, d, a, e)
      /\ Five(F, c, d, e, a, b)
  BY <1>1 DEF Five
<1>4. ~(a.rank = b.rank /\ b.rank = c.rank /\ c.rank = d.rank /\ d.rank = e.rank)
  BY <1>1, FourSuits
<1>5. CASE a.rank > b.rank /\ b.rank > c.rank
  <2>1. CASE c.rank > d.rank /\ d.rank > e.rank BY <1>1, <1>5, <2>1 DEF Singles
  <2>2. CASE c.rank = d.rank /\ d.rank > e.rank
    <3>1. OnePair(F, c, d, a, b, e) BY <1>2, <1>3, <1>5, <2>2 DEF OnePair
    <3> QED BY <3>1
  <2>3. CASE c.rank > d.rank /\ d.rank = e.rank
    <3>1. OnePair(F, d, e, a, b, c) BY <1>2, <1>3, <1>5, <2>3 DEF OnePair
    <3> QED BY <3>1
  <2>4. CASE c.rank = d.rank /\ d.rank = e.rank
    <3>1. Three(F, c, d, e, a, b) BY <1>2, <1>3, <1>5, <2>4 DEF Three
    <3> QED BY <3>1
  <2> QED BY <1>1, <1>2, <2>1, <2>2, <2>3, <2>4
<1>6. CASE a.rank > b.rank /\ b.rank = c.rank
  <2>1. CASE c.rank > d.rank /\ d.rank > e.rank
    <3>1. OnePair(F, b, c, a, d, e) BY <1>2, <1>3, <1>6, <2>1 DEF OnePair
    <3> QED BY <3>1
  <2>2. CASE c.rank = d.rank /\ d.rank > e.rank
    <3>1. Five(F, b, c, d, a, e) BY <1>3
    <3>2. Three(F, b, c, d, a, e) BY <1>2, <3>1, <1>6, <2>2 DEF Three
    <3> QED BY <3>2
  <2>3. CASE c.rank > d.rank /\ d.rank = e.rank
    <3>1. TwoPairs(F, b, c, d, e, a) BY <1>2, <1>3, <1>6, <2>3 DEF TwoPairs
    <3> QED BY <3>1
  <2>4. CASE c.rank = d.rank /\ d.rank = e.rank
    <3>1. Four(F, b, c, d, e, a) BY <1>2, <1>3, <1>6, <2>4 DEF Four
    <3> QED BY <3>1
  <2> QED BY <1>1, <1>2, <2>1, <2>2, <2>3, <2>4
<1>7. CASE a.rank = b.rank /\ b.rank > c.rank
  <2>1. CASE c.rank > d.rank /\ d.rank > e.rank
    <3>1. OnePair(F, a, b, c, d, e) BY <1>1, <1>2, <1>7, <2>1 DEF OnePair
    <3> QED BY <3>1
  <2>2. CASE c.rank = d.rank /\ d.rank > e.rank
    <3>1. TwoPairs(F, a, b, c, d, e) BY <1>1, <1>2, <1>7, <2>2 DEF TwoPairs
    <3> QED BY <3>1
  <2>3. CASE c.rank > d.rank /\ d.rank = e.rank
    <3>1. TwoPairs(F, a, b, d, e, c) BY <1>2, <1>3, <1>7, <2>3 DEF TwoPairs
    <3> QED BY <3>1
  <2>4. CASE c.rank = d.rank /\ d.rank = e.rank
    <3>1. Full(F, c, d, e, a, b) BY <1>2, <1>3, <1>7, <2>4 DEF Full
    <3> QED BY <3>1
  <2> QED BY <1>1, <1>2, <2>1, <2>2, <2>3, <2>4
<1>8. CASE a.rank = b.rank /\ b.rank = c.rank
  <2>1. CASE c.rank > d.rank /\ d.rank > e.rank
    <3>1. Three(F, a, b, c, d, e) BY <1>1, <1>2, <1>8, <2>1 DEF Three
    <3> QED BY <3>1
  <2>2. CASE c.rank = d.rank /\ d.rank > e.rank
    <3>1. Four(F, a, b, c, d, e) BY <1>1, <1>2, <1>8, <2>2 DEF Four
    <3> QED BY <3>1
  <2>3. CASE c.rank > d.rank /\ d.rank = e.rank
    <3>1. Full(F, a, b, c, d, e) BY <1>1, <1>2, <1>8, <2>3 DEF Full
    <3> QED BY <3>1
  <2> QED BY <1>1, <1>2, <1>4, <1>8, <2>1, <2>2, <2>3
<1> QED BY <1>1, <1>2, <1>5, <1>6, <1>7, <1>8
-----------------------------------------------------------------------------
(* The groups of a hand, and its pairs of cards.                            *)

\* The first members of a list
First(s, n) == {s[i] : i \in 1..n}

\* The order in which the ranks of a hand come, if it is an order of them all
Lists(F, s) ==
    /\ s \in Seq(Nat) /\ Ranks(F) = First(s, Len(s))
    /\ \A i, j \in 1..Len(s) : Precedes(F, s[i], s[j]) <=> i < j

\* The members of a list of different elements are as many as its length.
LEMMA ListCounts ==
    ASSUME NEW s, NEW n \in Nat, \A i, j \in 1..n : s[i] = s[j] => i = j
    PROVE  Cardinality(First(s, n)) = n
<1> DEFINE T == First(s, n)
           f == [i \in 1..n |-> s[i]]
<1>1. f \in [1..n -> T] BY DEF First
<1>2. \A x, y \in 1..n : f[x] = f[y] => x = y OBVIOUS
<1>3. \A t \in T : \E i \in 1..n : f[i] = t BY DEF First
<1> HIDE DEF f, T
<1>4. f \in Bijection(1..n, T)
  BY <1>1, <1>2, <1>3 DEF Bijection, Injection, Surjection, IsInjective
<1>5. ExistsBijection(1..n, T) BY <1>4 DEF ExistsBijection
<1>6. Cardinality(T) = n BY <1>5, FS_CountingElements
<1> QED BY <1>6 DEF T

\* The groups of a hand are its ranks in their order.
LEMMA GroupsAre ==
    ASSUME NEW F, NEW s, Lists(F, s)
    PROVE  Groups(F) = s
<1> DEFINE m == Len(s)
<1>1. m \in Nat /\ s = [i \in 1..m |-> s[i]] BY DEF Lists
<1>2. \A i, j \in 1..m : Precedes(F, s[i], s[j]) <=> i < j BY DEF Lists
<1>3. \A i, j \in 1..m : s[i] = s[j] => i = j
  <2> SUFFICES ASSUME NEW i \in 1..m, NEW j \in 1..m, s[i] = s[j] PROVE i = j OBVIOUS
  <2>1. ~(i < i) /\ ~(j < j) /\ (i < j \/ j < i \/ i = j) BY <1>1
  <2>2. ~Precedes(F, s[i], s[j]) /\ ~Precedes(F, s[j], s[i]) BY <1>2, <2>1
  <2> QED BY <1>2, <2>1, <2>2
<1>4. Ranks(F) = First(s, m) BY DEF Lists
<1>5. Cardinality(Ranks(F)) = m
  <2> HIDE DEF m
  <2>1. Cardinality(First(s, m)) = m BY <1>1, <1>3, ListCounts
  <2> QED BY <1>4, <2>1
<1>6. ASSUME NEW i \in 1..m
      PROVE  Cardinality({x \in Ranks(F) : Precedes(F, x, s[i])}) = i - 1
  <2> DEFINE n == i - 1
  <2>1. {x \in Ranks(F) : Precedes(F, x, s[i])} = First(s, n)
    <3>1. \A j \in 1..i - 1 : j \in 1..m /\ j < i BY <1>1
    <3>2. \A j \in 1..m : j < i => j \in 1..i - 1 BY <1>1
    <3> QED BY <1>2, <1>4, <3>1, <3>2 DEF First
  <2>2. n \in Nat /\ \A j \in 1..n : j \in 1..m BY <1>1
  <2>3. \A j, k \in 1..n : s[j] = s[k] => j = k BY <1>3, <2>2
  <2> HIDE DEF n
  <2>4. Cardinality(First(s, n)) = n BY <2>2, <2>3, ListCounts
  <2> QED BY <2>1, <2>4 DEF n
<1>7. ASSUME NEW i \in 1..m
      PROVE  (CHOOSE r \in Ranks(F) :
                 Cardinality({x \in Ranks(F) : Precedes(F, x, r)}) = i - 1) = s[i]
  <2> DEFINE before(r) == Cardinality({x \in Ranks(F) : Precedes(F, x, r)})
  <2>1. \A j \in 1..m : before(s[j]) = j - 1 BY <1>6
  <2> HIDE DEF before
  <2>2. \A r \in Ranks(F) : before(r) = i - 1 <=> r = s[i]
    <3> SUFFICES ASSUME NEW r \in Ranks(F) PROVE before(r) = i - 1 <=> r = s[i] OBVIOUS
    <3>1. PICK j \in 1..m : r = s[j] BY <1>4 DEF First
    <3>2. before(r) = j - 1 /\ before(s[i]) = i - 1 BY <2>1, <3>1
    <3>3. j - 1 = i - 1 <=> j = i BY <1>1
    <3> QED BY <3>1, <3>2, <3>3
  <2>3. s[i] \in Ranks(F) BY <1>4 DEF First
  <2>4. (CHOOSE r \in Ranks(F) : before(r) = i - 1) = s[i] BY <2>2, <2>3
  <2> QED BY <2>4 DEF before
<1>8. Groups(F) = [i \in 1..m |-> s[i]] BY <1>5, <1>7 DEF Groups
<1> QED BY <1>1, <1>8
\* The sort's comparison orders the ranks of a hand.
LEMMA PrecedesIsOrder ==
    ASSUME NEW F, NEW x \in Nat, NEW y \in Nat, NEW z \in Nat,
           Count(F, x) \in Nat, Count(F, y) \in Nat, Count(F, z) \in Nat
    PROVE  /\ ~Precedes(F, x, x) /\ (Precedes(F, x, y) => ~Precedes(F, y, x))
           /\ Precedes(F, x, y) /\ Precedes(F, y, z) => Precedes(F, x, z)
BY DEF Precedes

\* The groups of a hand of two ranks, given in their order
LEMMA TwoGroups ==
    ASSUME NEW F, NEW p \in Nat, NEW q \in Nat,
           Ranks(F) = {p, q}, \A x \in Ranks(F) : Count(F, x) \in Nat,
           Precedes(F, p, q)
    PROVE  Groups(F) = <<p, q>>
<1> DEFINE w == <<p, q>>
<1>1. \A x, y \in Ranks(F) : ~Precedes(F, x, x) /\ (Precedes(F, x, y) => ~Precedes(F, y, x))
  BY PrecedesIsOrder
<1>2. \A x, y, z \in Ranks(F) : Precedes(F, x, y) /\ Precedes(F, y, z) => Precedes(F, x, z)
  BY PrecedesIsOrder
<1>3. Precedes(F, p, q) OBVIOUS
<1>4. w \in Seq(Nat) /\ Len(w) = 2 /\ w[1] = p /\ w[2] = q OBVIOUS
<1> HIDE DEF w
<1>5. 1..2 = {1, 2} OBVIOUS
<1>6. Ranks(F) = First(w, Len(w)) BY <1>4, <1>5 DEF First
<1>7. ASSUME NEW i \in 1..2, NEW j \in 1..2 PROVE Precedes(F, w[i], w[j]) <=> i < j
  <2>1. CASE i = 1 BY <1>1, <1>3, <1>4, <1>5, <2>1
  <2>2. CASE i = 2 BY <1>1, <1>3, <1>4, <1>5, <2>2
  <2> QED BY <1>5, <2>1, <2>2
<1>8. Lists(F, w) BY <1>4, <1>6, <1>7 DEF Lists
<1>9. Groups(F) = w BY <1>8, GroupsAre
<1> QED BY <1>9 DEF w

\* The groups of a hand of three ranks, given in their order
LEMMA ThreeGroups ==
    ASSUME NEW F, NEW p \in Nat, NEW q \in Nat, NEW r \in Nat,
           Ranks(F) = {p, q, r}, \A x \in Ranks(F) : Count(F, x) \in Nat,
           Precedes(F, p, q), Precedes(F, q, r)
    PROVE  Groups(F) = <<p, q, r>>
<1> DEFINE w == <<p, q, r>>
<1>1. \A x, y \in Ranks(F) : ~Precedes(F, x, x) /\ (Precedes(F, x, y) => ~Precedes(F, y, x))
  BY PrecedesIsOrder
<1>2. \A x, y, z \in Ranks(F) : Precedes(F, x, y) /\ Precedes(F, y, z) => Precedes(F, x, z)
  BY PrecedesIsOrder
<1>3. /\ Precedes(F, p, q) /\ Precedes(F, p, r) /\ Precedes(F, q, r)
  BY <1>2
<1>4. w \in Seq(Nat) /\ Len(w) = 3 /\ w[1] = p /\ w[2] = q /\ w[3] = r OBVIOUS
<1> HIDE DEF w
<1>5. 1..3 = {1, 2, 3} OBVIOUS
<1>6. Ranks(F) = First(w, Len(w)) BY <1>4, <1>5 DEF First
<1>7. ASSUME NEW i \in 1..3, NEW j \in 1..3 PROVE Precedes(F, w[i], w[j]) <=> i < j
  <2>1. CASE i = 1 BY <1>1, <1>3, <1>4, <1>5, <2>1
  <2>2. CASE i = 2 BY <1>1, <1>3, <1>4, <1>5, <2>2
  <2>3. CASE i = 3 BY <1>1, <1>3, <1>4, <1>5, <2>3
  <2> QED BY <1>5, <2>1, <2>2, <2>3
<1>8. Lists(F, w) BY <1>4, <1>6, <1>7 DEF Lists
<1>9. Groups(F) = w BY <1>8, GroupsAre
<1> QED BY <1>9 DEF w

\* The groups of a hand of four ranks, given in their order
LEMMA FourGroups ==
    ASSUME NEW F, NEW p \in Nat, NEW q \in Nat, NEW r \in Nat, NEW s \in Nat,
           Ranks(F) = {p, q, r, s}, \A x \in Ranks(F) : Count(F, x) \in Nat,
           Precedes(F, p, q), Precedes(F, q, r), Precedes(F, r, s)
    PROVE  Groups(F) = <<p, q, r, s>>
<1> DEFINE w == <<p, q, r, s>>
<1>1. \A x, y \in Ranks(F) : ~Precedes(F, x, x) /\ (Precedes(F, x, y) => ~Precedes(F, y, x))
  BY PrecedesIsOrder
<1>2. \A x, y, z \in Ranks(F) : Precedes(F, x, y) /\ Precedes(F, y, z) => Precedes(F, x, z)
  BY PrecedesIsOrder
<1>3. /\ Precedes(F, p, q) /\ Precedes(F, p, r) /\ Precedes(F, p, s)
      /\ Precedes(F, q, r) /\ Precedes(F, q, s) /\ Precedes(F, r, s)
  BY <1>2
<1>4. w \in Seq(Nat) /\ Len(w) = 4 /\ w[1] = p /\ w[2] = q /\ w[3] = r /\ w[4] = s OBVIOUS
<1> HIDE DEF w
<1>5. 1..4 = {1, 2, 3, 4} OBVIOUS
<1>6. Ranks(F) = First(w, Len(w)) BY <1>4, <1>5 DEF First
<1>7. ASSUME NEW i \in 1..4, NEW j \in 1..4 PROVE Precedes(F, w[i], w[j]) <=> i < j
  <2>1. CASE i = 1 BY <1>1, <1>3, <1>4, <1>5, <2>1
  <2>2. CASE i = 2 BY <1>1, <1>3, <1>4, <1>5, <2>2
  <2>3. CASE i = 3 BY <1>1, <1>3, <1>4, <1>5, <2>3
  <2>4. CASE i = 4 BY <1>1, <1>3, <1>4, <1>5, <2>4
  <2> QED BY <1>5, <2>1, <2>2, <2>3, <2>4
<1>8. Lists(F, w) BY <1>4, <1>6, <1>7 DEF Lists
<1>9. Groups(F) = w BY <1>8, GroupsAre
<1> QED BY <1>9 DEF w

\* The groups of a hand of five ranks, given in their order
LEMMA FiveGroups ==
    ASSUME NEW F, NEW p \in Nat, NEW q \in Nat, NEW r \in Nat, NEW s \in Nat, NEW t \in Nat,
           Ranks(F) = Set5(p, q, r, s, t), \A x \in Ranks(F) : Count(F, x) \in Nat,
           Precedes(F, p, q), Precedes(F, q, r), Precedes(F, r, s), Precedes(F, s, t)
    PROVE  Groups(F) = List5(p, q, r, s, t)
<1>0. Ranks(F) = {p, q, r, s, t} BY DEF Set5
<1> DEFINE w == <<p, q, r, s, t>>
<1>1. \A x, y \in Ranks(F) : ~Precedes(F, x, x) /\ (Precedes(F, x, y) => ~Precedes(F, y, x))
  BY <1>0, PrecedesIsOrder
<1>2. \A x, y, z \in Ranks(F) : Precedes(F, x, y) /\ Precedes(F, y, z) => Precedes(F, x, z)
  BY <1>0, PrecedesIsOrder
<1>3. /\ Precedes(F, p, q) /\ Precedes(F, p, r) /\ Precedes(F, p, s)
      /\ Precedes(F, p, t) /\ Precedes(F, q, r) /\ Precedes(F, q, s)
      /\ Precedes(F, q, t) /\ Precedes(F, r, s) /\ Precedes(F, r, t)
      /\ Precedes(F, s, t)
  BY <1>0, <1>2
<1>4. w \in Seq(Nat) /\ Len(w) = 5 /\ w[1] = p /\ w[2] = q /\ w[3] = r /\ w[4] = s /\ w[5] = t OBVIOUS
<1> HIDE DEF w
<1>5. 1..5 = {1, 2, 3, 4, 5} OBVIOUS
<1>6. Ranks(F) = First(w, Len(w)) BY <1>0, <1>4, <1>5 DEF First
<1>7. ASSUME NEW i \in 1..5, NEW j \in 1..5 PROVE Precedes(F, w[i], w[j]) <=> i < j
  <2>1. CASE i = 1 BY <1>0, <1>1, <1>3, <1>4, <1>5, <2>1
  <2>2. CASE i = 2 BY <1>0, <1>1, <1>3, <1>4, <1>5, <2>2
  <2>3. CASE i = 3 BY <1>0, <1>1, <1>3, <1>4, <1>5, <2>3
  <2>4. CASE i = 4 BY <1>0, <1>1, <1>3, <1>4, <1>5, <2>4
  <2>5. CASE i = 5 BY <1>0, <1>1, <1>3, <1>4, <1>5, <2>5
  <2> QED BY <1>5, <2>1, <2>2, <2>3, <2>4, <2>5
<1>8. Lists(F, w) BY <1>4, <1>6, <1>7 DEF Lists
<1>9. Groups(F) = w BY <1>8, GroupsAre
<1> QED BY <1>9 DEF w, List5
\* As many elements as are named, when they differ.
LEMMA Elements ==
    ASSUME NEW a, NEW b, NEW c, NEW d, NEW e, NEW f
    PROVE  /\ a # b => Cardinality(Set2(a, b)) = 2
           /\ a # b /\ c \notin {a, b} => Cardinality(Set3(a, b, c)) = 3
           /\ a # b /\ c \notin {a, b} /\ d \notin {a, b, c} => Cardinality(Set4(a, b, c, d)) = 4
           /\ /\ a # b /\ c \notin {a, b} /\ d \notin {a, b, c} /\ e \notin {a, b, c, d}
              /\ f \notin {a, b, c, d, e}
              => Cardinality(Set6(a, b, c, d, e, f)) = 6
<1>1. ASSUME a # b PROVE Cardinality(Set2(a, b)) = 2 BY <1>1, TwoElements DEF Set2
<1>2. ASSUME a # b, c \notin {a, b} PROVE Cardinality(Set3(a, b, c)) = 3
  BY <1>2, ThreeElements DEF Set3
<1>3. ASSUME a # b, c \notin {a, b}, d \notin {a, b, c} PROVE Cardinality(Set4(a, b, c, d)) = 4
  BY <1>3, FourElements DEF Set4
<1>4. ASSUME a # b, c \notin {a, b}, d \notin {a, b, c}, e \notin {a, b, c, d},
             f \notin {a, b, c, d, e}
      PROVE  Cardinality(Set6(a, b, c, d, e, f)) = 6
  BY <1>4, SixElements DEF Set6
<1> QED BY <1>1, <1>2, <1>3, <1>4

\* The pairs of cards of one rank
TwoAlike(F) == {p \in SUBSET F : \E x, y \in F : x # y /\ x.rank = y.rank /\ p = {x, y}}

\* Pairs of cards are counted.
LEMMA PairsAre ==
    ASSUME NEW F, IsFiniteSet(F)
    PROVE  PairsOf(F) = Cardinality(TwoAlike(F))
<1>1. ASSUME NEW p \in SUBSET F
      PROVE  Cardinality(p) = 2 /\ Cardinality(Ranks(p)) = 1
                <=> \E x, y \in F : x # y /\ x.rank = y.rank /\ p = {x, y}
  <2>1. IsFiniteSet(p) BY FS_Subset
  <2>2. IsFiniteSet(Ranks(p)) BY <2>1, SuitsAreFinite
  <2>3. ASSUME Cardinality(p) = 2, Cardinality(Ranks(p)) = 1
        PROVE  \E x, y \in F : x # y /\ x.rank = y.rank /\ p = {x, y}
    <3>1. PICK r : Ranks(p) = {r} BY <2>2, <2>3, FS_Singleton
    <3>2. p # {} BY <2>3, FS_EmptySet
    <3>3. PICK x \in p : TRUE BY <3>2
    <3>4. Cardinality(p \ {x}) = 1 /\ IsFiniteSet(p \ {x})
      <4>1. IsFiniteSet(p \ {x}) /\ Cardinality(p \ {x}) = Cardinality(p) - 1
        BY <2>1, <3>3, FS_RemoveElement
      <4> QED BY <2>3, <4>1
    <3>5. PICK y : p \ {x} = {y}
      <4> DEFINE q == p \ {x}
      <4> HIDE DEF q
      <4>1. IsFiniteSet(q) /\ Cardinality(q) = 1 BY <3>4 DEF q
      <4>2. \E y : q = {y} BY <4>1, FS_Singleton
      <4> QED BY <4>2 DEF q
    <3>6. p = {x, y} /\ x # y /\ x \in F /\ y \in F BY <3>3, <3>5
    <3>7. x.rank \in Ranks(p) /\ y.rank \in Ranks(p) BY <3>6 DEF Ranks
    <3>8. x.rank = y.rank BY <3>1, <3>7
    <3> QED BY <3>6, <3>8
  <2>4. ASSUME NEW x \in F, NEW y \in F, x # y, x.rank = y.rank, p = {x, y}
        PROVE  Cardinality(p) = 2 /\ Cardinality(Ranks(p)) = 1
    <3>1. Cardinality(p) = 2 BY <2>4, TwoElements
    <3>2. Ranks(p) = {x.rank} BY <2>4 DEF Ranks
    <3>3. Cardinality(Ranks(p)) = 1 BY <3>2, FS_Singleton
    <3> QED BY <3>1, <3>3
  <2> QED BY <2>3, <2>4
<1>2. {p \in kSubset(2, F) : Cardinality(Ranks(p)) = 1} = TwoAlike(F)
  BY <1>1 DEF kSubset, TwoAlike
<1> QED BY <1>2 DEF PairsOf

\* What is known of five cards
LEMMA FiveIs ==
    ASSUME NEW F, NEW a, NEW b, NEW c, NEW d, NEW e, Five(F, a, b, c, d, e)
    PROVE  /\ F = {a, b, c, d, e} /\ F \subseteq Deck /\ IsFiniteSet(F) /\ Cardinality(F) = 5
           /\ F \in Fives(Deck)
           /\ a.rank \in 2..14 /\ b.rank \in 2..14 /\ c.rank \in 2..14
           /\ d.rank \in 2..14 /\ e.rank \in 2..14
           /\ Ranks(F) = {a.rank, b.rank, c.rank, d.rank, e.rank}
           /\ b # a /\ c \notin {a, b} /\ d \notin {a, b, c} /\ e \notin {a, b, c, d}
<1>1. /\ F = {a, b, c, d, e} /\ F \subseteq Deck
      /\ b # a /\ c \notin {a, b} /\ d \notin {a, b, c} /\ e \notin {a, b, c, d}
  BY DEF Five
<1>2. IsFiniteSet({a, b, c, d, e}) /\ Cardinality({a, b, c, d, e}) = 5 BY <1>1, FiveElements
<1>3. /\ a.rank \in 2..14 /\ b.rank \in 2..14 /\ c.rank \in 2..14
      /\ d.rank \in 2..14 /\ e.rank \in 2..14
  BY <1>1, CardIs
<1>4. Ranks(F) = {a.rank, b.rank, c.rank, d.rank, e.rank} BY <1>1 DEF Ranks
<1>5. F \in Fives(Deck) BY <1>1, <1>2 DEF Fives, kSubset
<1> QED BY <1>1, <1>2, <1>3, <1>4, <1>5

\* No two of five cards are alike.
LEMMA SinglesCount ==
    ASSUME NEW F, NEW a, NEW b, NEW c, NEW d, NEW e, Singles(F, a, b, c, d, e)
    PROVE  /\ \A x \in Ranks(F) : Count(F, x) = 1
           /\ PairsOf(F) = 0
<1>0. Five(F, a, b, c, d, e) BY DEF Singles
<1>1. /\ F = {a, b, c, d, e} /\ IsFiniteSet(F)
      /\ a.rank \in 2..14 /\ b.rank \in 2..14 /\ c.rank \in 2..14
      /\ d.rank \in 2..14 /\ e.rank \in 2..14
      /\ Ranks(F) = {a.rank, b.rank, c.rank, d.rank, e.rank}
  BY <1>0, FiveIs
<1>2. \A x, y \in F : x.rank = y.rank => x = y BY <1>1 DEF Singles
<1>3. ASSUME NEW x \in F PROVE Count(F, x.rank) = 1
  <2>1. OfRank(F, x.rank) = {x} BY <1>2 DEF OfRank
  <2> QED BY <2>1, FS_Singleton DEF Count
<1>4. \A x \in Ranks(F) : Count(F, x) = 1 BY <1>3 DEF Ranks
<1>5. TwoAlike(F) = {} BY <1>2 DEF TwoAlike
<1>6. PairsOf(F) = 0 BY <1>1, <1>5, PairsAre, FS_EmptySet
<1> QED BY <1>4, <1>6

\* Two of five cards are alike.
LEMMA OnePairCount ==
    ASSUME NEW F, NEW a, NEW b, NEW c, NEW d, NEW e, OnePair(F, a, b, c, d, e)
    PROVE  /\ Ranks(F) = {a.rank, c.rank, d.rank, e.rank}
           /\ Count(F, a.rank) = 2 /\ Count(F, c.rank) = 1
           /\ Count(F, d.rank) = 1 /\ Count(F, e.rank) = 1
           /\ PairsOf(F) = 1
<1>0. Five(F, a, b, c, d, e) BY DEF OnePair
<1>1. /\ F = {a, b, c, d, e} /\ IsFiniteSet(F)
      /\ a.rank \in 2..14 /\ b.rank \in 2..14 /\ c.rank \in 2..14
      /\ d.rank \in 2..14 /\ e.rank \in 2..14
      /\ Ranks(F) = {a.rank, b.rank, c.rank, d.rank, e.rank} /\ a # b
  BY <1>0, FiveIs
<1>2. Ranks(F) = {a.rank, c.rank, d.rank, e.rank} BY <1>1 DEF OnePair
<1>3. \A x, y \in F : x.rank = y.rank <=> x = y \/ (x = a /\ y = b) \/ (x = b /\ y = a)
  BY <1>1 DEF OnePair
<1>4. OfRank(F, a.rank) = {a, b} BY <1>1, <1>3 DEF OfRank
<1>5. OfRank(F, c.rank) = {c} /\ OfRank(F, d.rank) = {d} /\ OfRank(F, e.rank) = {e}
  BY <1>0, <1>1, <1>3 DEF OfRank, Five
<1>6. Count(F, a.rank) = 2 BY <1>1, <1>4, TwoElements DEF Count
<1>7. Count(F, c.rank) = 1 /\ Count(F, d.rank) = 1 /\ Count(F, e.rank) = 1
  BY <1>5, FS_Singleton DEF Count
<1>8. TwoAlike(F) = {{a, b}}
  <2>1. ASSUME NEW p \in TwoAlike(F) PROVE p = {a, b} BY <1>3 DEF TwoAlike
  <2>2. {a, b} \in TwoAlike(F) BY <1>1, <1>3 DEF TwoAlike
  <2> QED BY <2>1, <2>2
<1>9. PairsOf(F) = 1 BY <1>1, <1>8, PairsAre, FS_Singleton
<1> QED BY <1>2, <1>6, <1>7, <1>9

\* Two and two of five cards are alike.
LEMMA TwoPairsCount ==
    ASSUME NEW F, NEW a, NEW b, NEW c, NEW d, NEW e, TwoPairs(F, a, b, c, d, e)
    PROVE  /\ Ranks(F) = {a.rank, c.rank, e.rank}
           /\ Count(F, a.rank) = 2 /\ Count(F, c.rank) = 2 /\ Count(F, e.rank) = 1
           /\ PairsOf(F) = 2
<1>0. Five(F, a, b, c, d, e) BY DEF TwoPairs
<1>1. /\ F = {a, b, c, d, e} /\ IsFiniteSet(F)
      /\ a.rank \in 2..14 /\ b.rank \in 2..14 /\ c.rank \in 2..14
      /\ d.rank \in 2..14 /\ e.rank \in 2..14
      /\ Ranks(F) = {a.rank, b.rank, c.rank, d.rank, e.rank} /\ a # b
  BY <1>0, FiveIs
<1>2. Ranks(F) = {a.rank, c.rank, e.rank} BY <1>1 DEF TwoPairs
<1>3. \A x, y \in F : x.rank = y.rank <=> x = y \/ (x \in {a, b} /\ y \in {a, b})
                                                \/ (x \in {c, d} /\ y \in {c, d})
  BY <1>1 DEF TwoPairs
<1>4. /\ a # b /\ c # d /\ e \notin {a, b, c, d} /\ c \notin {a, b} /\ d \notin {a, b} BY <1>0 DEF Five
<1>5. OfRank(F, a.rank) = {a, b} BY <1>1, <1>3, <1>4 DEF OfRank
<1>6. OfRank(F, c.rank) = {c, d} BY <1>1, <1>3, <1>4 DEF OfRank
<1>7. OfRank(F, e.rank) = {e} BY <1>1, <1>3, <1>4 DEF OfRank
<1>8. Count(F, a.rank) = 2 /\ Count(F, c.rank) = 2 BY <1>4, <1>5, <1>6, TwoElements DEF Count
<1>9. Count(F, e.rank) = 1 BY <1>7, FS_Singleton DEF Count
<1>10. TwoAlike(F) = {{a, b}, {c, d}}
  <2>1. ASSUME NEW p \in TwoAlike(F) PROVE p \in {{a, b}, {c, d}} BY <1>3 DEF TwoAlike
  <2>2. {a, b} \in TwoAlike(F) /\ {c, d} \in TwoAlike(F) BY <1>1, <1>3, <1>4 DEF TwoAlike
  <2> QED BY <2>1, <2>2
<1>11. {a, b} # {c, d} BY <1>4
<1>12. PairsOf(F) = 2
  <2> DEFINE p1 == {a, b}
             p2 == {c, d}
  <2>1. TwoAlike(F) = Set2(p1, p2) BY <1>10 DEF Set2
  <2> HIDE DEF p1, p2
  <2> QED BY <1>1, <2>1, <1>11, PairsAre, Elements DEF p1, p2
<1> QED BY <1>2, <1>8, <1>9, <1>12

\* Three of five cards are alike.
LEMMA ThreeCount ==
    ASSUME NEW F, NEW a, NEW b, NEW c, NEW d, NEW e, Three(F, a, b, c, d, e)
    PROVE  /\ Ranks(F) = {a.rank, d.rank, e.rank}
           /\ Count(F, a.rank) = 3 /\ Count(F, d.rank) = 1 /\ Count(F, e.rank) = 1
           /\ PairsOf(F) = 3
<1>0. Five(F, a, b, c, d, e) BY DEF Three
<1>1. /\ F = {a, b, c, d, e} /\ IsFiniteSet(F)
      /\ a.rank \in 2..14 /\ b.rank \in 2..14 /\ c.rank \in 2..14
      /\ d.rank \in 2..14 /\ e.rank \in 2..14
      /\ Ranks(F) = {a.rank, b.rank, c.rank, d.rank, e.rank} /\ a # b
  BY <1>0, FiveIs
<1>2. Ranks(F) = {a.rank, d.rank, e.rank} BY <1>1 DEF Three
<1>3. \A x, y \in F : x.rank = y.rank <=> x = y \/ (x \in {a, b, c} /\ y \in {a, b, c})
  BY <1>1 DEF Three
<1>4. /\ a # b /\ c \notin {a, b} /\ a # c /\ b # c /\ d \notin {a, b, c} /\ e \notin {a, b, c, d}
  BY <1>0 DEF Five
<1>5. OfRank(F, a.rank) = {a, b, c} BY <1>1, <1>3, <1>4 DEF OfRank
<1>6. OfRank(F, d.rank) = {d} /\ OfRank(F, e.rank) = {e} BY <1>1, <1>3, <1>4 DEF OfRank
<1>7. Count(F, a.rank) = 3
  <2>1. OfRank(F, a.rank) = Set3(a, b, c) BY <1>5 DEF Set3
  <2> QED BY <1>4, <2>1, Elements DEF Count
<1>8. Count(F, d.rank) = 1 /\ Count(F, e.rank) = 1 BY <1>6, FS_Singleton DEF Count
<1> DEFINE p1 == {a, b}
           p2 == {a, c}
           p3 == {b, c}
<1>9. TwoAlike(F) = {p1, p2, p3}
  <2>1. ASSUME NEW p \in TwoAlike(F) PROVE p \in {p1, p2, p3} BY <1>3 DEF TwoAlike
  <2>2. p1 \in TwoAlike(F) /\ p2 \in TwoAlike(F) /\ p3 \in TwoAlike(F)
    BY <1>1, <1>3, <1>4 DEF TwoAlike
  <2> HIDE DEF p1, p2, p3
  <2> QED BY <2>1, <2>2
<1>10. p1 # p2 /\ p3 \notin {p1, p2} BY <1>4
<1>11. PairsOf(F) = 3
  <2> HIDE DEF p1, p2, p3
  <2>1. TwoAlike(F) = Set3(p1, p2, p3) BY <1>9 DEF Set3
  <2> QED BY <1>1, <1>10, <2>1, PairsAre, Elements
<1> QED BY <1>2, <1>7, <1>8, <1>11

\* Three and two of five cards are alike.
LEMMA FullCount ==
    ASSUME NEW F, NEW a, NEW b, NEW c, NEW d, NEW e, Full(F, a, b, c, d, e)
    PROVE  /\ Ranks(F) = {a.rank, d.rank}
           /\ Count(F, a.rank) = 3 /\ Count(F, d.rank) = 2
           /\ PairsOf(F) = 4
<1>0. Five(F, a, b, c, d, e) BY DEF Full
<1>1. /\ F = {a, b, c, d, e} /\ IsFiniteSet(F)
      /\ a.rank \in 2..14 /\ b.rank \in 2..14 /\ c.rank \in 2..14
      /\ d.rank \in 2..14 /\ e.rank \in 2..14
      /\ Ranks(F) = {a.rank, b.rank, c.rank, d.rank, e.rank} /\ a # b
  BY <1>0, FiveIs
<1>2. Ranks(F) = {a.rank, d.rank} BY <1>1 DEF Full
<1>3. \A x, y \in F : x.rank = y.rank <=> (x \in {a, b, c} /\ y \in {a, b, c})
                                          \/ (x \in {d, e} /\ y \in {d, e})
  BY <1>1 DEF Full
<1>4. /\ a # b /\ c \notin {a, b} /\ a # c /\ b # c /\ d # e /\ d \notin {a, b, c} /\ e \notin {a, b, c}
  BY <1>0 DEF Five
<1>5. OfRank(F, a.rank) = {a, b, c} BY <1>1, <1>3, <1>4 DEF OfRank
<1>6. OfRank(F, d.rank) = {d, e} BY <1>1, <1>3, <1>4 DEF OfRank
<1>7. Count(F, a.rank) = 3
  <2>1. OfRank(F, a.rank) = Set3(a, b, c) BY <1>5 DEF Set3
  <2> QED BY <1>4, <2>1, Elements DEF Count
<1>8. Count(F, d.rank) = 2 BY <1>4, <1>6, TwoElements DEF Count
<1> DEFINE p1 == {a, b}
           p2 == {a, c}
           p3 == {b, c}
           p4 == {d, e}
<1>9. TwoAlike(F) = {p1, p2, p3, p4}
  <2>1. ASSUME NEW p \in TwoAlike(F) PROVE p \in {p1, p2, p3, p4} BY <1>3 DEF TwoAlike
  <2>2. p1 \in TwoAlike(F) /\ p2 \in TwoAlike(F) /\ p3 \in TwoAlike(F) /\ p4 \in TwoAlike(F)
    BY <1>1, <1>3, <1>4 DEF TwoAlike
  <2> HIDE DEF p1, p2, p3, p4
  <2> QED BY <2>1, <2>2
<1>10. p1 # p2 /\ p3 \notin {p1, p2} /\ p4 \notin {p1, p2, p3} BY <1>4
<1>11. PairsOf(F) = 4
  <2> HIDE DEF p1, p2, p3, p4
  <2>1. TwoAlike(F) = Set4(p1, p2, p3, p4) BY <1>9 DEF Set4
  <2> QED BY <1>1, <1>10, <2>1, PairsAre, Elements
<1> QED BY <1>2, <1>7, <1>8, <1>11

\* Four of five cards are alike.
LEMMA FourCount ==
    ASSUME NEW F, NEW a, NEW b, NEW c, NEW d, NEW e, Four(F, a, b, c, d, e)
    PROVE  /\ Ranks(F) = {a.rank, e.rank}
           /\ Count(F, a.rank) = 4 /\ Count(F, e.rank) = 1
           /\ PairsOf(F) = 6
<1>0. Five(F, a, b, c, d, e) BY DEF Four
<1>1. /\ F = {a, b, c, d, e} /\ IsFiniteSet(F)
      /\ a.rank \in 2..14 /\ b.rank \in 2..14 /\ c.rank \in 2..14
      /\ d.rank \in 2..14 /\ e.rank \in 2..14
      /\ Ranks(F) = {a.rank, b.rank, c.rank, d.rank, e.rank} /\ a # b
  BY <1>0, FiveIs
<1>2. Ranks(F) = {a.rank, e.rank} BY <1>1 DEF Four
<1>3. \A x, y \in F : x.rank = y.rank <=> x = y \/ (x \in {a, b, c, d} /\ y \in {a, b, c, d})
  BY <1>1 DEF Four
<1>4. /\ a # b /\ c \notin {a, b} /\ d \notin {a, b, c} /\ e \notin {a, b, c, d}
      /\ a # c /\ b # c /\ a # d /\ b # d /\ c # d
  BY <1>0 DEF Five
<1>5. OfRank(F, a.rank) = {a, b, c, d} BY <1>1, <1>3, <1>4 DEF OfRank
<1>6. OfRank(F, e.rank) = {e} BY <1>1, <1>3, <1>4 DEF OfRank
<1>7. Count(F, a.rank) = 4
  <2>1. OfRank(F, a.rank) = Set4(a, b, c, d) BY <1>5 DEF Set4
  <2> QED BY <1>4, <2>1, Elements DEF Count
<1>8. Count(F, e.rank) = 1 BY <1>6, FS_Singleton DEF Count
<1> DEFINE p1 == {a, b}
           p2 == {a, c}
           p3 == {b, c}
           p4 == {a, d}
           p5 == {b, d}
           p6 == {c, d}
<1>9. TwoAlike(F) = {p1, p2, p3, p4, p5, p6}
  <2>1. ASSUME NEW p \in TwoAlike(F) PROVE p \in {p1, p2, p3, p4, p5, p6} BY <1>3 DEF TwoAlike
  <2>2. p1 \in TwoAlike(F) /\ p2 \in TwoAlike(F) /\ p3 \in TwoAlike(F)
    BY <1>1, <1>3, <1>4 DEF TwoAlike
  <2>3. p4 \in TwoAlike(F) /\ p5 \in TwoAlike(F) /\ p6 \in TwoAlike(F)
    BY <1>1, <1>3, <1>4 DEF TwoAlike
  <2> HIDE DEF p1, p2, p3, p4, p5, p6
  <2> QED BY <2>1, <2>2, <2>3
<1>10. p1 # p2 /\ p3 \notin {p1, p2} /\ p4 \notin {p1, p2, p3} BY <1>4
<1>11. p5 \notin {p1, p2, p3, p4} /\ p6 \notin {p1, p2, p3, p4, p5} BY <1>4
<1>12. PairsOf(F) = 6
  <2> HIDE DEF p1, p2, p3, p4, p5, p6
  <2>1. TwoAlike(F) = Set6(p1, p2, p3, p4, p5, p6) BY <1>9 DEF Set6
  <2> QED BY <1>1, <1>10, <1>11, <2>1, PairsAre, Elements
<1> QED BY <1>2, <1>7, <1>8, <1>12
-----------------------------------------------------------------------------
(* Straights and flushes.                                                   *)

\* The greatest and the least of some numbers
LEMMA GreatestIs ==
    ASSUME NEW S \in SUBSET Int, NEW m \in S
    PROVE  /\ (\A y \in S : y <= m) => Max(S) = m
           /\ (\A y \in S : m <= y) => Min(S) = m
<1>1. ASSUME \A y \in S : y <= m PROVE Max(S) = m
  <2>1. \A x \in S : (\A y \in S : x >= y) <=> x = m BY <1>1
  <2> QED BY <2>1 DEF Max
<1>2. ASSUME \A y \in S : m <= y PROVE Min(S) = m
  <2>1. \A x \in S : (\A y \in S : x =< y) <=> x = m BY <1>2
  <2> QED BY <2>1 DEF Min
<1> QED BY <1>1, <1>2

\* One element more
With(S, x) == S \cup {x}

\* One element more makes a set greater by one at most.
LEMMA OneMore ==
    ASSUME NEW S, NEW x, IsFiniteSet(S)
    PROVE  /\ IsFiniteSet(With(S, x)) /\ Cardinality(S) \in Nat
           /\ Cardinality(With(S, x)) \in {Cardinality(S), Cardinality(S) + 1}
<1>1. /\ IsFiniteSet(S \cup {x})
      /\ Cardinality(S \cup {x}) = IF x \in S THEN Cardinality(S) ELSE Cardinality(S) + 1
  BY FS_AddElement
<1>2. Cardinality(S \cup {x}) \in {Cardinality(S), Cardinality(S) + 1} BY <1>1
<1> QED BY <1>1, <1>2, FS_CardinalityType DEF With

\* Four ranks make no straight.
LEMMA NotInARow ==
    ASSUME NEW F, NEW p \in 2..14, NEW q \in 2..14, NEW r \in 2..14, NEW s \in 2..14,
           Ranks(F) = {p, q, r, s}
    PROVE  StraightHigh(F) = 0 /\ ~InARow(F)
<1> DEFINE uniq == Ranks(F) \cup (IF Ace \in Ranks(F) THEN {1} ELSE {})
           tops == {x \in uniq : \A k \in 1..4 : x - k \in uniq}
<1>1. uniq \subseteq {p, q, r, s, 1} /\ (1 \in uniq => 14 \in {p, q, r, s}) BY DEF Ace
<1>2. tops = {}
  <2> SUFFICES ASSUME NEW x \in uniq, \A k \in 1..4 : x - k \in uniq PROVE FALSE OBVIOUS
  <2> HIDE DEF uniq
  <2>1. x - 1 \in uniq /\ x - 2 \in uniq /\ x - 3 \in uniq /\ x - 4 \in uniq OBVIOUS
  <2>2. x \in 1..14 BY <1>1
  <2>3. x - 4 >= 1 BY <1>1, <2>1, <2>2
  <2>4. x \in {p, q, r, s} /\ x - 1 \in {p, q, r, s} /\ x - 2 \in {p, q, r, s} /\ x - 3 \in {p, q, r, s}
    BY <1>1, <2>1, <2>2, <2>3
  <2>5. CASE x - 4 # 1
    <3>1. x - 4 \in {p, q, r, s} BY <1>1, <2>1, <2>5
    <3> QED BY <2>2, <2>4, <3>1
  <2>6. CASE x - 4 = 1
    <3>1. 14 \in {p, q, r, s} /\ x = 5 BY <1>1, <2>1, <2>2, <2>6
    <3>2. 5 \in {p, q, r, s} /\ 4 \in {p, q, r, s} /\ 3 \in {p, q, r, s} /\ 2 \in {p, q, r, s}
      BY <2>4, <3>1
    <3> QED BY <3>1, <3>2
  <2> QED BY <2>5, <2>6
<1>3. StraightHigh(F) = 0 BY <1>2 DEF StraightHigh
<1>4. Ranks(F) # Wheel
  <2> SUFFICES ASSUME {p, q, r, s} = {14, 2, 3, 4, 5} PROVE FALSE BY DEF Wheel, Ace
  <2>1. /\ 14 \in {p, q, r, s} /\ 2 \in {p, q, r, s} /\ 3 \in {p, q, r, s}
        /\ 4 \in {p, q, r, s} /\ 5 \in {p, q, r, s}
    OBVIOUS
  <2> QED BY <2>1
<1>5. Cardinality(Ranks(F)) # 5
  <2> DEFINE T2 == With({p}, q)
             T3 == With(T2, r)
             T4 == With(T3, s)
  <2>1. IsFiniteSet({p}) /\ Cardinality({p}) = 1 BY FS_Singleton
  <2>2. IsFiniteSet(T2) /\ Cardinality(T2) \in 0..2 BY <2>1, OneMore
  <2> HIDE DEF T2
  <2>3. IsFiniteSet(T3) /\ Cardinality(T3) \in 0..3 BY <2>2, OneMore
  <2> HIDE DEF T3
  <2>4. Cardinality(T4) \in 0..4 BY <2>3, OneMore
  <2>5. T4 = Ranks(F) BY DEF T2, T3, With
  <2> QED BY <2>4, <2>5
<1> QED BY <1>3, <1>4, <1>5 DEF InARow

\* The ranks are those from the ace to the five, the ace low.
IsWheel(p, q, r, s, t) == p = 14 /\ q = 5 /\ r = 4 /\ s = 3 /\ t = 2

\* Five ranks are a straight if they are in a row, or the wheel.
LEMMA InARowIs ==
    ASSUME NEW F, NEW p \in 2..14, NEW q \in 2..14, NEW r \in 2..14, NEW s \in 2..14,
           NEW t \in 2..14, Ranks(F) = {p, q, r, s, t}, p > q, q > r, r > s, s > t
    PROVE  /\ p - t = 4 => StraightHigh(F) = p /\ InARow(F)
           /\ IsWheel(p, q, r, s, t) => StraightHigh(F) = 5 /\ InARow(F)
           /\ p - t # 4 /\ ~IsWheel(p, q, r, s, t) => StraightHigh(F) = 0 /\ ~InARow(F)
           /\ Ranks(F) = Wheel <=> IsWheel(p, q, r, s, t)
<1> DEFINE uniq == Ranks(F) \cup (IF Ace \in Ranks(F) THEN {1} ELSE {})
           tops == {x \in uniq : \A k \in 1..4 : x - k \in uniq}
<1>0. \A k \in 1..4 : k \in {1, 2, 3, 4} OBVIOUS
<1>1. \A x : x \in uniq <=> x \in {p, q, r, s, t} \/ (x = 1 /\ p = 14)
  <2>1. Ace \in Ranks(F) <=> p = 14 BY DEF Ace
  <2> QED BY <2>1
<1>2. uniq \subseteq 1..14 BY <1>1
<1>3. \A x : x \in tops <=> /\ x \in uniq /\ x - 1 \in uniq /\ x - 2 \in uniq /\ x - 3 \in uniq
                            /\ x - 4 \in uniq
  <2>1. 1 \in 1..4 /\ 2 \in 1..4 /\ 3 \in 1..4 /\ 4 \in 1..4 OBVIOUS
  <2> HIDE DEF uniq
  <2> QED BY <1>0, <2>1
<1>4. tops \in SUBSET Int BY <1>2
<1>5. StraightHigh(F) = IF tops = {} THEN 0 ELSE Max(tops) BY DEF StraightHigh
<1> HIDE DEF uniq, tops
<1>6. ASSUME NEW x \in tops PROVE (x = p /\ p - t = 4) \/ (x = 5 /\ IsWheel(p, q, r, s, t))
  <2>1. x \in 1..14 /\ x - 4 \in 1..14 BY <1>2, <1>3
  <2>2. x \in {p, q, r, s, t} /\ x - 1 \in {p, q, r, s, t} /\ x - 2 \in {p, q, r, s, t}
        /\ x - 3 \in {p, q, r, s, t}
    BY <1>1, <1>3, <2>1
  <2>3. CASE x - 4 \in {p, q, r, s, t}
    <3>1. x = p BY <2>1, <2>2, <2>3
    <3>2. x - 4 = t BY <2>1, <2>2, <2>3
    <3> QED BY <3>1, <3>2
  <2>4. CASE x - 4 = 1 /\ p = 14
    <3>1. x = 5 BY <2>1, <2>4
    <3>2. q = 5 BY <2>2, <2>4, <3>1
    <3>3. r = 4 BY <2>2, <2>4, <3>1, <3>2
    <3>4. s = 3 BY <2>2, <2>4, <3>1, <3>2, <3>3
    <3>5. t = 2 BY <2>2, <2>4, <3>1, <3>2, <3>3, <3>4
    <3> QED BY <2>4, <3>1, <3>2, <3>3, <3>4, <3>5 DEF IsWheel
  <2> QED BY <1>1, <1>3, <2>3, <2>4
<1>7. Ranks(F) \in SUBSET Int /\ p \in Ranks(F) /\ t \in Ranks(F) OBVIOUS
<1>8. Max(Ranks(F)) = p /\ Min(Ranks(F)) = t
  <2>1. \A y \in Ranks(F) : y <= p /\ t <= y OBVIOUS
  <2> QED BY <1>7, <2>1, GreatestIs
<1>9. Cardinality(Ranks(F)) = 5
  <2>1. p # q /\ r \notin {p, q} /\ s \notin {p, q, r} /\ t \notin {p, q, r, s} OBVIOUS
  <2>2. Cardinality(Set5(p, q, r, s, t)) = 5 BY <2>1, FiveElements DEF Set5
  <2> QED BY <2>2 DEF Set5
<1>10. Ranks(F) = Wheel <=> IsWheel(p, q, r, s, t)
  <2>1. ASSUME {p, q, r, s, t} = {14, 2, 3, 4, 5} PROVE IsWheel(p, q, r, s, t)
    <3>1. /\ 14 \in {p, q, r, s, t} /\ 5 \in {p, q, r, s, t} /\ 4 \in {p, q, r, s, t}
          /\ 3 \in {p, q, r, s, t} /\ 2 \in {p, q, r, s, t}
      BY <2>1
    <3>2. p = 14 BY <3>1
    <3> QED BY <3>1, <3>2 DEF IsWheel
  <2>2. ASSUME IsWheel(p, q, r, s, t) PROVE {p, q, r, s, t} = {14, 2, 3, 4, 5}
    BY <2>2 DEF IsWheel
  <2> QED BY <2>1, <2>2 DEF Wheel, Ace
<1>11. ASSUME p - t = 4 PROVE StraightHigh(F) = p /\ InARow(F)
  <2>1. q = p - 1 /\ r = p - 2 /\ s = p - 3 /\ t = p - 4 BY <1>11
  <2>2. p \in tops BY <1>1, <1>3, <2>1
  <2>3. \A y \in tops : y <= p BY <1>6, <1>11 DEF IsWheel
  <2>4. Max(tops) = p BY <1>4, <2>2, <2>3, GreatestIs
  <2> QED BY <1>5, <1>8, <1>9, <1>11, <2>2, <2>4 DEF InARow
<1>12. ASSUME IsWheel(p, q, r, s, t) PROVE StraightHigh(F) = 5 /\ InARow(F)
  <2>1. 5 \in tops BY <1>1, <1>3, <1>12 DEF IsWheel
  <2>2. \A y \in tops : y <= 5 BY <1>6, <1>12 DEF IsWheel
  <2>3. Max(tops) = 5 BY <1>4, <2>1, <2>2, GreatestIs
  <2> QED BY <1>5, <1>10, <1>12, <2>1, <2>3 DEF InARow
<1>13. ASSUME p - t # 4, ~IsWheel(p, q, r, s, t) PROVE StraightHigh(F) = 0 /\ ~InARow(F)
  <2>1. tops = {} BY <1>6, <1>13
  <2> QED BY <1>5, <1>8, <1>10, <1>13, <2>1 DEF InARow
<1> QED BY <1>10, <1>11, <1>12, <1>13

\* Five cards of a suit are all the cards, and no two of them have one rank.
LEMMA FlushIs ==
    ASSUME NEW F, NEW a, NEW b, NEW c, NEW d, NEW e, Five(F, a, b, c, d, e)
    PROVE  /\ IsFlush(F) <=> OneSuit(F)
           /\ OneSuit(F) => \A x, y \in F : x.rank = y.rank => x = y
<1>1. F \subseteq Deck /\ IsFiniteSet(F) /\ Cardinality(F) = 5 /\ a \in F BY FiveIs
<1>2. IsFiniteSet(Suits(F)) BY <1>1, SuitsAreFinite
<1>3. OneSuit(F) <=> \E s : Suits(F) = {s} BY <1>2, FS_Singleton DEF OneSuit
<1>4. ASSUME NEW s PROVE Suits(F) = {s} <=> \A x \in F : x.suit = s
  <2>1. ASSUME \A x \in F : x.suit = s PROVE Suits(F) = {s}
    <3>1. \A z \in Suits(F) : z = s BY <2>1 DEF Suits
    <3>2. s \in Suits(F) BY <1>1, <2>1 DEF Suits
    <3> QED BY <3>1, <3>2
  <2>2. ASSUME Suits(F) = {s} PROVE \A x \in F : x.suit = s
    <3>1. \A x \in F : x.suit \in Suits(F) BY DEF Suits
    <3> QED BY <2>2, <3>1
  <2> QED BY <2>1, <2>2
<1>5. ASSUME NEW s \in Suits(F)
      PROVE  Cardinality({c1 \in F : c1.suit = s}) >= 5 <=> \A x \in F : x.suit = s
  <2> DEFINE S == {c1 \in F : c1.suit = s}
  <2>1. S \in SUBSET F OBVIOUS
  <2>2. (\A x \in F : x.suit = s) <=> S = F OBVIOUS
  <2> HIDE DEF S
  <2>3. /\ IsFiniteSet(S) /\ Cardinality(S) <= Cardinality(F)
        /\ Cardinality(F) = Cardinality(S) => F = S
    BY <1>1, <2>1, FS_Subset
  <2>4. Cardinality(S) \in Nat BY <2>3, FS_CardinalityType
  <2>5. Cardinality(S) >= 5 <=> S = F BY <1>1, <2>3, <2>4
  <2> QED BY <2>2, <2>5 DEF S
<1>6. IsFlush(F) <=> \E s \in Suits(F) : \A x \in F : x.suit = s BY <1>5 DEF IsFlush
<1>7. \A s : (\A x \in F : x.suit = s) => s \in Suits(F) BY <1>1 DEF Suits
<1>8. IsFlush(F) <=> OneSuit(F) BY <1>3, <1>4, <1>6, <1>7
<1>9. ASSUME OneSuit(F), NEW x \in F, NEW y \in F, x.rank = y.rank PROVE x = y
  <2>1. x.suit = y.suit BY <1>3, <1>4, <1>9
  <2>2. x = [rank |-> x.rank, suit |-> x.suit] /\ y = [rank |-> y.rank, suit |-> y.suit]
    BY <1>1, CardIs
  <2> QED BY <1>9, <2>1, <2>2
<1> QED BY <1>8, <1>9
-----------------------------------------------------------------------------
(* Which ranks are higher.                                                  *)

\* Some numbers have a greatest.
LEMMA GreatestExists ==
    ASSUME NEW S \in SUBSET Nat, NEW n \in Nat, \A y \in S : y <= n, S # {}
    PROVE  \E m \in S : \A y \in S : y <= m
<1> DEFINE R == {p \in Nat \X Nat : p[1] < p[2]}
           T == {n - y : y \in S}
<1>1. IsWellFoundedOn(R, Nat) BY NatLessThanWellFounded DEF OpToRel
<1>2. T \subseteq Nat /\ T # {}
  <2>1. \A y \in S : n - y \in Nat OBVIOUS
  <2>2. T \subseteq Nat BY <2>1
  <2> QED BY <2>2
<1>3. PICK x \in T : \A y \in T : ~ (<<y, x>> \in R)
  <2> HIDE DEF R, T
  <2> QED BY <1>1, <1>2, WFMin
<1>4. PICK m \in S : x = n - m OBVIOUS
<1>5. ASSUME NEW y \in S PROVE y <= m
  <2>1. n - y \in T /\ n - y \in Nat /\ n - m \in Nat OBVIOUS
  <2>2. <<n - y, n - m>> \notin R BY <1>3, <1>4, <2>1
  <2>3. ~(n - y < n - m) BY <2>1, <2>2
  <2> QED BY <2>3
<1> QED BY <1>5

\* One set of ranks is higher if it has one above all that only the other has.
LEMMA HigherIs ==
    ASSUME NEW A \in SUBSET (1..14), NEW B \in SUBSET (1..14)
    PROVE  Higher(A, B) <=> \E x \in A \ B : \A y \in B \ A : y < x
<1> DEFINE D == (A \ B) \cup (B \ A)
<1>1. CASE A = B BY <1>1 DEF Higher
<1>2. CASE A # B
  <2>1. D # {} /\ D \in SUBSET Nat /\ D \in SUBSET Int /\ \A y \in D : y <= 14 BY <1>2
  <2>2. PICK m \in D : \A y \in D : y <= m
    <3> HIDE DEF D
    <3> QED BY <2>1, GreatestExists
  <2>3. Max(D) = m
    <3> HIDE DEF D
    <3> QED BY <2>1, <2>2, GreatestIs
  <2>4. Higher(A, B) <=> m \in A BY <1>2, <2>3 DEF Higher
  <2>5. m \in 1..14 OBVIOUS
  <2>6. ASSUME m \in A PROVE \E x \in A \ B : \A y \in B \ A : y < x
    <3>1. m \in A \ B BY <2>6
    <3>2. ASSUME NEW y \in B \ A PROVE y < m
      <4>1. y \in D /\ y # m /\ y \in 1..14 BY <2>6
      <4> QED BY <2>2, <2>5, <4>1
    <3> QED BY <3>1, <3>2
  <2>7. ASSUME NEW x \in A \ B, \A y \in B \ A : y < x PROVE m \in A
    <3>1. x \in D /\ x \in 1..14 OBVIOUS
    <3>2. x <= m BY <2>2, <3>1
    <3> QED BY <2>5, <2>7, <3>1, <3>2
  <2> QED BY <2>4, <2>6, <2>7
<1> QED BY <1>1, <1>2

\* The highest ranks are compared first.
LEMMA HigherFirst ==
    ASSUME NEW A \in SUBSET (1..14), NEW B \in SUBSET (1..14), NEW x \in 1..14, NEW y \in 1..14,
           \A z \in A : z < x, \A z \in B : z < y
    PROVE  Higher(With(A, x), With(B, y)) <=> x > y \/ (x = y /\ Higher(A, B))
<1> DEFINE C == With(A, x)
           D == With(B, y)
<1>1. C \in SUBSET (1..14) /\ D \in SUBSET (1..14) BY DEF With
<1>2. Higher(C, D) <=> \E u \in C \ D : \A v \in D \ C : v < u
  <2> HIDE DEF C, D
  <2> QED BY <1>1, HigherIs
<1>3. (\A v \in C : v <= x) /\ (\A v \in D : v <= y) /\ x \in C /\ y \in D BY DEF With
<1>4. x \notin A /\ y \notin B OBVIOUS
<1>5. CASE x > y
  <2>1. x \in C \ D BY <1>3, <1>5
  <2>2. \A v \in D \ C : v < x BY <1>1, <1>3, <1>5
  <2> QED BY <1>2, <1>5, <2>1, <2>2
<1>6. CASE x < y
  <2>1. y \in D \ C BY <1>3, <1>6
  <2>2. ASSUME NEW u \in C \ D, y < u PROVE FALSE
    <3>1. u \in 1..14 /\ u <= x BY <1>1, <1>3
    <3> QED BY <1>6, <2>2, <3>1
  <2> QED BY <1>2, <1>6, <2>1, <2>2
<1>7. CASE x = y
  <2>1. C \ D = A \ B /\ D \ C = B \ A BY <1>4, <1>7 DEF With
  <2>2. Higher(A, B) <=> \E u \in A \ B : \A v \in B \ A : v < u BY HigherIs
  <2>3. Higher(C, D) <=> Higher(A, B)
    <3> HIDE DEF C, D
    <3> QED BY <1>2, <2>1, <2>2
  <2> QED BY <1>7, <2>3
<1> QED BY <1>5, <1>6, <1>7

\* A rank of both decides nothing.
LEMMA HigherRest ==
    ASSUME NEW A \in SUBSET (1..14), NEW B \in SUBSET (1..14), NEW x \in 1..14, x \notin A, x \notin B
    PROVE  Higher(With(A, x), With(B, x)) <=> Higher(A, B)
<1> DEFINE C == With(A, x)
           D == With(B, x)
<1>1. C \in SUBSET (1..14) /\ D \in SUBSET (1..14) BY DEF With
<1>2. C \ D = A \ B /\ D \ C = B \ A BY DEF With
<1>3. Higher(C, D) <=> \E u \in C \ D : \A v \in D \ C : v < u
  <2> HIDE DEF C, D
  <2> QED BY <1>1, HigherIs
<1>4. Higher(A, B) <=> \E u \in A \ B : \A v \in B \ A : v < u BY HigherIs
<1> QED BY <1>2, <1>3, <1>4

\* No set of ranks is higher than itself.
LEMMA HigherNone ==
    ASSUME NEW A
    PROVE  ~Higher(A, A)
BY DEF Higher

\* Sets of one rank
LEMMA Higher1 ==
    ASSUME NEW a \in 2..14, NEW p \in 2..14
    PROVE  Higher({a}, {p}) <=> a > p
<1>1. {} \in SUBSET (1..14) /\ (\A z \in {} : z < a) /\ (\A z \in {} : z < p) OBVIOUS
<1>2. a \in 1..14 /\ p \in 1..14 OBVIOUS
<1>3. Higher(With({}, a), With({}, p)) <=> a > p \/ (a = p /\ Higher({}, {}))
  BY <1>1, <1>2, HigherFirst
<1>4. With({}, a) = {a} /\ With({}, p) = {p} BY DEF With
<1> QED BY <1>3, <1>4, HigherNone

\* Sets of 2 ranks are compared rank by rank.
LEMMA Higher2 ==
    ASSUME NEW a \in 2..14, NEW b \in 2..14,
           NEW p \in 2..14, NEW q \in 2..14,
           a > b,
           p > q
    PROVE  Higher(Set2(a, b), Set2(p, q)) <=> Lex2(a, b, p, q)
<1> DEFINE A == {b}
           B == {q}
<1>1. Higher(A, B) <=> b > q BY Higher1
<1>2. /\ A \in SUBSET (1..14) /\ B \in SUBSET (1..14)
      /\ (\A z \in A : z < a) /\ (\A z \in B : z < p)
  OBVIOUS
<1>3. a \in 1..14 /\ p \in 1..14 OBVIOUS
<1>4. With(A, a) = Set2(a, b) /\ With(B, p) = Set2(p, q) BY DEF With, Set2
<1> HIDE DEF A, B
<1>5. Higher(With(A, a), With(B, p)) <=> a > p \/ (a = p /\ Higher(A, B))
  BY <1>2, <1>3, HigherFirst
<1> QED BY <1>1, <1>4, <1>5 DEF Lex2

\* Sets of 3 ranks are compared rank by rank.
LEMMA Higher3 ==
    ASSUME NEW a \in 2..14, NEW b \in 2..14, NEW c \in 2..14,
           NEW p \in 2..14, NEW q \in 2..14, NEW r \in 2..14,
           a > b, b > c,
           p > q, q > r
    PROVE  Higher(Set3(a, b, c), Set3(p, q, r)) <=> Lex3(a, b, c, p, q, r)
<1> DEFINE A == Set2(b, c)
           B == Set2(q, r)
<1>1. Higher(A, B) <=> Lex2(b, c, q, r) BY Higher2
<1>2. /\ A \in SUBSET (1..14) /\ B \in SUBSET (1..14)
      /\ (\A z \in A : z < a) /\ (\A z \in B : z < p)
  BY DEF Set2
<1>3. a \in 1..14 /\ p \in 1..14 OBVIOUS
<1>4. With(A, a) = Set3(a, b, c) /\ With(B, p) = Set3(p, q, r) BY DEF With, Set3, Set2
<1> HIDE DEF A, B
<1>5. Higher(With(A, a), With(B, p)) <=> a > p \/ (a = p /\ Higher(A, B))
  BY <1>2, <1>3, HigherFirst
<1> QED BY <1>1, <1>4, <1>5 DEF Lex3

\* Sets of 4 ranks are compared rank by rank.
LEMMA Higher4 ==
    ASSUME NEW a \in 2..14, NEW b \in 2..14, NEW c \in 2..14, NEW d \in 2..14,
           NEW p \in 2..14, NEW q \in 2..14, NEW r \in 2..14, NEW s \in 2..14,
           a > b, b > c, c > d,
           p > q, q > r, r > s
    PROVE  Higher(Set4(a, b, c, d), Set4(p, q, r, s)) <=> Lex4(a, b, c, d, p, q, r, s)
<1> DEFINE A == Set3(b, c, d)
           B == Set3(q, r, s)
<1>1. Higher(A, B) <=> Lex3(b, c, d, q, r, s) BY Higher3
<1>2. /\ A \in SUBSET (1..14) /\ B \in SUBSET (1..14)
      /\ (\A z \in A : z < a) /\ (\A z \in B : z < p)
  BY DEF Set3
<1>3. a \in 1..14 /\ p \in 1..14 OBVIOUS
<1>4. With(A, a) = Set4(a, b, c, d) /\ With(B, p) = Set4(p, q, r, s) BY DEF With, Set4, Set3
<1> HIDE DEF A, B
<1>5. Higher(With(A, a), With(B, p)) <=> a > p \/ (a = p /\ Higher(A, B))
  BY <1>2, <1>3, HigherFirst
<1> QED BY <1>1, <1>4, <1>5 DEF Lex4

\* Sets of 5 ranks are compared rank by rank.
LEMMA Higher5 ==
    ASSUME NEW a \in 2..14, NEW b \in 2..14, NEW c \in 2..14, NEW d \in 2..14, NEW e \in 2..14,
           NEW p \in 2..14, NEW q \in 2..14, NEW r \in 2..14, NEW s \in 2..14, NEW t \in 2..14,
           a > b, b > c, c > d, d > e,
           p > q, q > r, r > s, s > t
    PROVE  Higher(Set5(a, b, c, d, e), Set5(p, q, r, s, t)) <=> Lex5(a, b, c, d, e, p, q, r, s, t)
<1> DEFINE A == Set4(b, c, d, e)
           B == Set4(q, r, s, t)
<1>1. Higher(A, B) <=> Lex4(b, c, d, e, q, r, s, t) BY Higher4
<1>2. /\ A \in SUBSET (1..14) /\ B \in SUBSET (1..14)
      /\ (\A z \in A : z < a) /\ (\A z \in B : z < p)
  BY DEF Set4
<1>3. a \in 1..14 /\ p \in 1..14 OBVIOUS
<1>4. With(A, a) = Set5(a, b, c, d, e) /\ With(B, p) = Set5(p, q, r, s, t) BY DEF With, Set5, Set4
<1> HIDE DEF A, B
<1>5. Higher(With(A, a), With(B, p)) <=> a > p \/ (a = p /\ Higher(A, B))
  BY <1>2, <1>3, HigherFirst
<1> QED BY <1>1, <1>4, <1>5 DEF Lex5

\* Of two straights the one with the higher top is higher.
LEMMA HigherRow ==
    ASSUME NEW t \in 5..14, NEW u \in 5..14
    PROVE  Higher(t - 4..t, u - 4..u) <=> t > u
<1> DEFINE A == t - 4..t
           B == u - 4..u
<1>1. A \in SUBSET (1..14) /\ B \in SUBSET (1..14) OBVIOUS
<1>2. \A x : (x \in A <=> x \in Int /\ t - 4 <= x /\ x <= t) /\ (x \in B <=> x \in Int /\ u - 4 <= x /\ x <= u)
  OBVIOUS
<1> HIDE DEF A, B
<1>3. Higher(A, B) <=> \E x \in A \ B : \A y \in B \ A : y < x BY <1>1, HigherIs
<1>4. CASE t > u
  <2>1. t \in A \ B /\ \A y \in B \ A : y < t BY <1>2, <1>4
  <2> QED BY <1>3, <1>4, <2>1 DEF A, B
<1>5. CASE t = u
  <2>1. A = B BY <1>5 DEF A, B
  <2> QED BY <1>5, <2>1, HigherNone DEF A, B
<1>6. CASE t < u
  <2>1. u \in B \ A BY <1>2, <1>6
  <2>2. ASSUME NEW x \in A \ B, u < x PROVE FALSE BY <1>2, <1>6, <2>2
  <2>3. ~Higher(A, B) BY <1>3, <2>1, <2>2
  <2> QED BY <1>6, <2>3 DEF A, B
<1> QED BY <1>3, <1>4, <1>5, <1>6 DEF A, B
-----------------------------------------------------------------------------
(* What the program and the rules make of a hand.                           *)

\* The hand is of category k for both, its ranks have code n, and these are the ranks of
\* which it has one card or more, two, three, and four.
Has(F, k, n, h1, h2, h3, h4) ==
    /\ Score[F] = k * Scale + n /\ n \in 0..Scale - 1 /\ k \in 0..8
    /\ Look[F].class = k
    /\ Look[F].holds[1] = h1 /\ Look[F].holds[2] = h2
    /\ Look[F].holds[3] = h3 /\ Look[F].holds[4] = h4

\* The kinds of hands
Row(F, k) == \E t \in 5..14 : Has(F, k, t, t - 4..t, {}, {}, {})
Loose(F, k) ==
    \E p, q, r, s, t \in 2..14 :
        /\ p > q /\ q > r /\ r > s /\ s > t
        /\ Has(F, k, Code5(p, q, r, s, t), {p, q, r, s, t}, {}, {}, {})
Pair(F) ==
    \E p, q, r, s \in 2..14 :
        /\ p \notin {q, r, s} /\ q > r /\ r > s
        /\ Has(F, 1, Code4(p, q, r, s), {p, q, r, s}, {p}, {}, {})
Pairs(F) ==
    \E p, q, r \in 2..14 :
        /\ r \notin {p, q} /\ p > q
        /\ Has(F, 2, Code3(p, q, r), {p, q, r}, {p, q}, {}, {})
Triple(F) ==
    \E p, q, r \in 2..14 :
        /\ p \notin {q, r} /\ q > r
        /\ Has(F, 3, Code3(p, q, r), {p, q, r}, {p}, {p}, {})
House(F) ==
    \E p, q \in 2..14 : p # q /\ Has(F, 6, Code2(p, q), {p, q}, {p, q}, {p}, {})
Poker(F) ==
    \E p, q \in 2..14 : p # q /\ Has(F, 7, Code2(p, q), {p, q}, {p}, {p}, {p})

\* What makes a hand so.
LEMMA Reads ==
    ASSUME NEW F \in Fives(Deck), NEW k \in 0..8, NEW v, NEW n \in 0..Scale - 1,
           NEW h1, NEW h2, NEW h3, NEW h4,
           EvaluateFive(F) = [category |-> k, rankValues |-> v], Encode(v) = n, Class(F) = k,
           Holds(F, 1) = h1, Holds(F, 2) = h2, Holds(F, 3) = h3, Holds(F, 4) = h4
    PROVE  Has(F, k, n, h1, h2, h3, h4)
<1>1. Score[F] = k * Scale + n BY DEF Score
<1>2. Look[F] = [class |-> Class(F), holds |-> [i \in 1..4 |-> Holds(F, i)]] BY DEF Look
<1>3. /\ Look[F].class = k /\ Look[F].holds[1] = h1 /\ Look[F].holds[2] = h2
      /\ Look[F].holds[3] = h3 /\ Look[F].holds[4] = h4
  BY <1>2
<1> QED BY <1>1, <1>3 DEF Has

\* The ranks of which there are so many cards
Having(F, n) == {x \in Ranks(F) : Count(F, x) >= n}

\* Unless the ace is low, a hand holds what it has.
LEMMA HoldsIs ==
    ASSUME NEW F, Ranks(F) # Wheel, NEW n
    PROVE  Holds(F, n) = Having(F, n)
BY DEF Holds, Having, Height

\* The ace is low in the wheel.
LEMMA WheelHolds ==
    ASSUME NEW F, Ranks(F) = Wheel, \A x \in Ranks(F) : Count(F, x) = 1
    PROVE  /\ Holds(F, 1) = 1..5
           /\ Holds(F, 2) = {} /\ Holds(F, 3) = {} /\ Holds(F, 4) = {}
<1>1. Having(F, 1) = Wheel /\ Having(F, 2) = {} /\ Having(F, 3) = {} /\ Having(F, 4) = {}
  BY DEF Having
<1>2. \A n : Holds(F, n) = {IF r = 14 THEN 1 ELSE r : r \in Having(F, n)}
  BY DEF Holds, Having, Height, Ace
<1>3. 1..5 = {1, 2, 3, 4, 5} OBVIOUS
<1>4. Holds(F, 1) = {1, 2, 3, 4, 5} BY <1>1, <1>2 DEF Wheel, Ace
<1> QED BY <1>1, <1>2, <1>3, <1>4

\* A hand with no flush and no straight: the program and the rules agree if the sizes of
\* its groups agree with the pairs of cards.
LEMMA GroupedHas ==
    ASSUME NEW F \in Fives(Deck), NEW n \in 0..Scale - 1, Encode(Groups(F)) = n,
           StraightHigh(F) = 0, ~InARow(F), ~IsFlush(F), ~OneSuit(F),
           NEW k \in 0..7,
           \/ k = 7 /\ Sized(F, 1) = 4 /\ Sized(F, 2) = 1 /\ PairsOf(F) = 6
           \/ k = 6 /\ Sized(F, 1) = 3 /\ Sized(F, 2) = 2 /\ PairsOf(F) = 4
           \/ k = 3 /\ Sized(F, 1) = 3 /\ Sized(F, 2) = 1 /\ PairsOf(F) = 3
           \/ k = 2 /\ Sized(F, 1) = 2 /\ Sized(F, 2) = 2 /\ PairsOf(F) = 2
           \/ k = 1 /\ Sized(F, 1) = 2 /\ Sized(F, 2) = 1 /\ PairsOf(F) = 1
           \/ k = 0 /\ Sized(F, 1) = 1 /\ Sized(F, 2) = 1 /\ PairsOf(F) = 0
    PROVE  Has(F, k, n, Having(F, 1), Having(F, 2), Having(F, 3), Having(F, 4))
<1>1. EvaluateFive(F) = [category |-> k, rankValues |-> Groups(F)] BY DEF EvaluateFive
<1>2. Class(F) = k BY DEF Class
<1>3. Ranks(F) # Wheel BY DEF InARow
<1>4. /\ Holds(F, 1) = Having(F, 1) /\ Holds(F, 2) = Having(F, 2)
      /\ Holds(F, 3) = Having(F, 3) /\ Holds(F, 4) = Having(F, 4)
  BY <1>3, HoldsIs
<1>5. k \in 0..8 OBVIOUS
<1> QED BY <1>1, <1>2, <1>4, <1>5, Reads

\* A pair
LEMMA OnePairHas ==
    ASSUME NEW F, NEW a, NEW b, NEW c, NEW d, NEW e, OnePair(F, a, b, c, d, e)
    PROVE  Has(F, 1, Code4(a.rank, c.rank, d.rank, e.rank),
               {a.rank, c.rank, d.rank, e.rank}, {a.rank}, {}, {})
<1> DEFINE p == a.rank
           q == c.rank
           r == d.rank
           s == e.rank
<1>0. Five(F, a, b, c, d, e) BY DEF OnePair
<1>1. /\ F \in Fives(Deck) /\ a \in F /\ b \in F /\ b # a /\ a.rank = b.rank
      /\ p \in 2..14 /\ q \in 2..14 /\ r \in 2..14 /\ s \in 2..14
  BY <1>0, FiveIs DEF OnePair
<1>2. p \notin {q, r, s} /\ q > r /\ r > s BY DEF OnePair
<1>3. /\ Ranks(F) = {p, q, r, s} /\ Count(F, p) = 2 /\ Count(F, q) = 1
      /\ Count(F, r) = 1 /\ Count(F, s) = 1 /\ PairsOf(F) = 1
  BY OnePairCount
<1> HIDE DEF p, q, r, s
<1>4. Groups(F) = <<p, q, r, s>>
  <2>1. Precedes(F, p, q) /\ Precedes(F, q, r) /\ Precedes(F, r, s) BY <1>2, <1>3 DEF Precedes
  <2>2. p \in Nat /\ q \in Nat /\ r \in Nat /\ s \in Nat BY <1>1
  <2>3. \A x \in Ranks(F) : Count(F, x) \in Nat BY <1>3
  <2> QED BY <1>3, <2>1, <2>2, <2>3, FourGroups
<1>5. Sized(F, 1) = 2 /\ Sized(F, 2) = 1 BY <1>3, <1>4 DEF Sized
<1>6. Encode(Groups(F)) = Code4(p, q, r, s) /\ Code4(p, q, r, s) \in 0..Scale - 1
  <2>1. Groups(F) = List4(p, q, r, s) BY <1>4 DEF List4
  <2>2. p \in 2..14 /\ q \in 2..14 /\ r \in 2..14 /\ s \in 2..14 BY <1>1
  <2>3. /\ Encode(List4(p, q, r, s)) = Code4(p, q, r, s)
        /\ Code4(p, q, r, s) \in 0..Scale - 1
    BY <2>2, Encode4
  <2> QED BY <2>1, <2>3
<1>8. StraightHigh(F) = 0 /\ ~InARow(F) BY <1>1, <1>3, NotInARow
<1>9. ~OneSuit(F) /\ ~IsFlush(F) BY <1>0, <1>1, FlushIs
<1>10. Has(F, 1, Code4(p, q, r, s), Having(F, 1), Having(F, 2), Having(F, 3), Having(F, 4))
  BY <1>1, <1>3, <1>5, <1>6, <1>8, <1>9, GroupedHas
<1>11. Having(F, 1) = {p, q, r, s} /\ Having(F, 2) = {p} /\ Having(F, 3) = {} /\ Having(F, 4) = {}
  BY <1>2, <1>3 DEF Having
<1> QED BY <1>10, <1>11 DEF p, q, r, s

\* Two pairs
LEMMA TwoPairsHas ==
    ASSUME NEW F, NEW a, NEW b, NEW c, NEW d, NEW e, TwoPairs(F, a, b, c, d, e)
    PROVE  Has(F, 2, Code3(a.rank, c.rank, e.rank),
               {a.rank, c.rank, e.rank}, {a.rank, c.rank}, {}, {})
<1> DEFINE p == a.rank
           q == c.rank
           r == e.rank
<1>0. Five(F, a, b, c, d, e) BY DEF TwoPairs
<1>1. /\ F \in Fives(Deck) /\ a \in F /\ b \in F /\ b # a /\ a.rank = b.rank
      /\ p \in 2..14 /\ q \in 2..14 /\ r \in 2..14
  BY <1>0, FiveIs DEF TwoPairs
<1>2. r \notin {p, q} /\ p > q BY DEF TwoPairs
<1>3. /\ Ranks(F) = {p, q, r} /\ Count(F, p) = 2 /\ Count(F, q) = 2
      /\ Count(F, r) = 1 /\ PairsOf(F) = 2
  BY TwoPairsCount
<1> HIDE DEF p, q, r
<1>4. Groups(F) = <<p, q, r>>
  <2>1. Precedes(F, p, q) /\ Precedes(F, q, r) BY <1>2, <1>3 DEF Precedes
  <2>2. p \in Nat /\ q \in Nat /\ r \in Nat BY <1>1
  <2>3. \A x \in Ranks(F) : Count(F, x) \in Nat BY <1>3
  <2> QED BY <1>3, <2>1, <2>2, <2>3, ThreeGroups
<1>5. Sized(F, 1) = 2 /\ Sized(F, 2) = 2 BY <1>3, <1>4 DEF Sized
<1>6. Encode(Groups(F)) = Code3(p, q, r) /\ Code3(p, q, r) \in 0..Scale - 1 BY <1>1, <1>4, Encode3
<1>8. StraightHigh(F) = 0 /\ ~InARow(F)
  <2>1. Ranks(F) = {p, q, r, r} BY <1>3
  <2> QED BY <1>1, <2>1, NotInARow
<1>9. ~OneSuit(F) /\ ~IsFlush(F) BY <1>0, <1>1, FlushIs
<1>10. Has(F, 2, Code3(p, q, r), Having(F, 1), Having(F, 2), Having(F, 3), Having(F, 4))
  BY <1>1, <1>3, <1>5, <1>6, <1>8, <1>9, GroupedHas
<1>11. Having(F, 1) = {p, q, r} /\ Having(F, 2) = {p, q} /\ Having(F, 3) = {} /\ Having(F, 4) = {}
  BY <1>2, <1>3 DEF Having
<1> QED BY <1>10, <1>11 DEF p, q, r

\* Three of a kind
LEMMA ThreeHas ==
    ASSUME NEW F, NEW a, NEW b, NEW c, NEW d, NEW e, Three(F, a, b, c, d, e)
    PROVE  Has(F, 3, Code3(a.rank, d.rank, e.rank),
               {a.rank, d.rank, e.rank}, {a.rank}, {a.rank}, {})
<1> DEFINE p == a.rank
           q == d.rank
           r == e.rank
<1>0. Five(F, a, b, c, d, e) BY DEF Three
<1>1. /\ F \in Fives(Deck) /\ a \in F /\ b \in F /\ b # a /\ a.rank = b.rank
      /\ p \in 2..14 /\ q \in 2..14 /\ r \in 2..14
  BY <1>0, FiveIs DEF Three
<1>2. p \notin {q, r} /\ q > r BY DEF Three
<1>3. /\ Ranks(F) = {p, q, r} /\ Count(F, p) = 3 /\ Count(F, q) = 1
      /\ Count(F, r) = 1 /\ PairsOf(F) = 3
  BY ThreeCount
<1> HIDE DEF p, q, r
<1>4. Groups(F) = <<p, q, r>>
  <2>1. Precedes(F, p, q) /\ Precedes(F, q, r) BY <1>2, <1>3 DEF Precedes
  <2>2. p \in Nat /\ q \in Nat /\ r \in Nat BY <1>1
  <2>3. \A x \in Ranks(F) : Count(F, x) \in Nat BY <1>3
  <2> QED BY <1>3, <2>1, <2>2, <2>3, ThreeGroups
<1>5. Sized(F, 1) = 3 /\ Sized(F, 2) = 1 BY <1>3, <1>4 DEF Sized
<1>6. Encode(Groups(F)) = Code3(p, q, r) /\ Code3(p, q, r) \in 0..Scale - 1 BY <1>1, <1>4, Encode3
<1>8. StraightHigh(F) = 0 /\ ~InARow(F)
  <2>1. Ranks(F) = {p, q, r, r} BY <1>3
  <2> QED BY <1>1, <2>1, NotInARow
<1>9. ~OneSuit(F) /\ ~IsFlush(F) BY <1>0, <1>1, FlushIs
<1>10. Has(F, 3, Code3(p, q, r), Having(F, 1), Having(F, 2), Having(F, 3), Having(F, 4))
  BY <1>1, <1>3, <1>5, <1>6, <1>8, <1>9, GroupedHas
<1>11. Having(F, 1) = {p, q, r} /\ Having(F, 2) = {p} /\ Having(F, 3) = {p} /\ Having(F, 4) = {}
  BY <1>2, <1>3 DEF Having
<1> QED BY <1>10, <1>11 DEF p, q, r

\* A full house
LEMMA FullHas ==
    ASSUME NEW F, NEW a, NEW b, NEW c, NEW d, NEW e, Full(F, a, b, c, d, e)
    PROVE  Has(F, 6, Code2(a.rank, d.rank),
               {a.rank, d.rank}, {a.rank, d.rank}, {a.rank}, {})
<1> DEFINE p == a.rank
           q == d.rank
<1>0. Five(F, a, b, c, d, e) BY DEF Full
<1>1. /\ F \in Fives(Deck) /\ a \in F /\ b \in F /\ b # a /\ a.rank = b.rank
      /\ p \in 2..14 /\ q \in 2..14
  BY <1>0, FiveIs DEF Full
<1>2. p # q BY DEF Full
<1>3. Ranks(F) = {p, q} /\ Count(F, p) = 3 /\ Count(F, q) = 2 /\ PairsOf(F) = 4
  BY FullCount
<1> HIDE DEF p, q
<1>4. Groups(F) = <<p, q>>
  <2>1. Precedes(F, p, q) BY <1>2, <1>3 DEF Precedes
  <2>2. p \in Nat /\ q \in Nat BY <1>1
  <2>3. \A x \in Ranks(F) : Count(F, x) \in Nat BY <1>3
  <2> QED BY <1>3, <2>1, <2>2, <2>3, TwoGroups
<1>5. Sized(F, 1) = 3 /\ Sized(F, 2) = 2 BY <1>3, <1>4 DEF Sized
<1>6. Encode(Groups(F)) = Code2(p, q) /\ Code2(p, q) \in 0..Scale - 1 BY <1>1, <1>4, Encode2
<1>8. StraightHigh(F) = 0 /\ ~InARow(F)
  <2>1. Ranks(F) = {p, q, q, q} BY <1>3
  <2> QED BY <1>1, <2>1, NotInARow
<1>9. ~OneSuit(F) /\ ~IsFlush(F) BY <1>0, <1>1, FlushIs
<1>10. Has(F, 6, Code2(p, q), Having(F, 1), Having(F, 2), Having(F, 3), Having(F, 4))
  BY <1>1, <1>3, <1>5, <1>6, <1>8, <1>9, GroupedHas
<1>11. Having(F, 1) = {p, q} /\ Having(F, 2) = {p, q} /\ Having(F, 3) = {p} /\ Having(F, 4) = {}
  BY <1>2, <1>3 DEF Having
<1> QED BY <1>10, <1>11 DEF p, q

\* Four of a kind
LEMMA FourHas ==
    ASSUME NEW F, NEW a, NEW b, NEW c, NEW d, NEW e, Four(F, a, b, c, d, e)
    PROVE  Has(F, 7, Code2(a.rank, e.rank),
               {a.rank, e.rank}, {a.rank}, {a.rank}, {a.rank})
<1> DEFINE p == a.rank
           q == e.rank
<1>0. Five(F, a, b, c, d, e) BY DEF Four
<1>1. /\ F \in Fives(Deck) /\ a \in F /\ b \in F /\ b # a /\ a.rank = b.rank
      /\ p \in 2..14 /\ q \in 2..14
  BY <1>0, FiveIs DEF Four
<1>2. p # q BY DEF Four
<1>3. Ranks(F) = {p, q} /\ Count(F, p) = 4 /\ Count(F, q) = 1 /\ PairsOf(F) = 6
  BY FourCount
<1> HIDE DEF p, q
<1>4. Groups(F) = <<p, q>>
  <2>1. Precedes(F, p, q) BY <1>2, <1>3 DEF Precedes
  <2>2. p \in Nat /\ q \in Nat BY <1>1
  <2>3. \A x \in Ranks(F) : Count(F, x) \in Nat BY <1>3
  <2> QED BY <1>3, <2>1, <2>2, <2>3, TwoGroups
<1>5. Sized(F, 1) = 4 /\ Sized(F, 2) = 1 BY <1>3, <1>4 DEF Sized
<1>6. Encode(Groups(F)) = Code2(p, q) /\ Code2(p, q) \in 0..Scale - 1 BY <1>1, <1>4, Encode2
<1>8. StraightHigh(F) = 0 /\ ~InARow(F)
  <2>1. Ranks(F) = {p, q, q, q} BY <1>3
  <2> QED BY <1>1, <2>1, NotInARow
<1>9. ~OneSuit(F) /\ ~IsFlush(F) BY <1>0, <1>1, FlushIs
<1>10. Has(F, 7, Code2(p, q), Having(F, 1), Having(F, 2), Having(F, 3), Having(F, 4))
  BY <1>1, <1>3, <1>5, <1>6, <1>8, <1>9, GroupedHas
<1>11. Having(F, 1) = {p, q} /\ Having(F, 2) = {p} /\ Having(F, 3) = {p} /\ Having(F, 4) = {p}
  BY <1>2, <1>3 DEF Having
<1> QED BY <1>10, <1>11 DEF p, q

\* A straight, with a flush or without, from the rank that counts
LEMMA InARowHas ==
    ASSUME NEW F, NEW a, NEW b, NEW c, NEW d, NEW e, Singles(F, a, b, c, d, e), InARow(F)
    PROVE  \E t \in 5..14, k \in {4, 8} : Has(F, k, t, t - 4..t, {}, {}, {})
<1> DEFINE p == a.rank
           q == b.rank
           r == c.rank
           s == d.rank
           z == e.rank
<1>0. Five(F, a, b, c, d, e) BY DEF Singles
<1>1. /\ F \in Fives(Deck) /\ Ranks(F) = {p, q, r, s, z}
      /\ p \in 2..14 /\ q \in 2..14 /\ r \in 2..14 /\ s \in 2..14 /\ z \in 2..14
  BY <1>0, FiveIs
<1>2. p > q /\ q > r /\ r > s /\ s > z BY DEF Singles
<1>3. (\A x \in Ranks(F) : Count(F, x) = 1) /\ PairsOf(F) = 0 BY SinglesCount
<1>4. IsFlush(F) <=> OneSuit(F) BY <1>0, FlushIs
<1> HIDE DEF p, q, r, s, z
<1>5. /\ p - z = 4 => StraightHigh(F) = p
      /\ IsWheel(p, q, r, s, z) => StraightHigh(F) = 5
      /\ p - z = 4 \/ IsWheel(p, q, r, s, z)
      /\ Ranks(F) = Wheel <=> IsWheel(p, q, r, s, z)
  BY <1>1, <1>2, InARowIs
<1> DEFINE t == StraightHigh(F)
           k == IF OneSuit(F) THEN 8 ELSE 4
<1>6. t \in 5..14 /\ t > 0
  <2>1. p - z = 4 => p \in 5..14 BY <1>1
  <2> QED BY <1>5, <2>1
<1>7. Sized(F, 1) \in {0, 1} /\ Sized(F, 2) \in {0, 1}
  <2>1. Groups(F) = List5(p, q, r, s, z)
    <3>1. Precedes(F, p, q) /\ Precedes(F, q, r) /\ Precedes(F, r, s) /\ Precedes(F, s, z)
      BY <1>1, <1>2, <1>3 DEF Precedes
    <3>2. p \in Nat /\ q \in Nat /\ r \in Nat /\ s \in Nat /\ z \in Nat BY <1>1
    <3>3. \A x \in Ranks(F) : Count(F, x) \in Nat BY <1>3
    <3>4. Ranks(F) = Set5(p, q, r, s, z) BY <1>1 DEF Set5
    <3> QED BY <3>1, <3>2, <3>3, <3>4, FiveGroups
  <2> QED BY <1>1, <1>3, <2>1 DEF Sized, List5
<1>8. EvaluateFive(F) = [category |-> k, rankValues |-> <<t>>]
  <2>1. CASE OneSuit(F) BY <1>4, <1>6, <1>7, <2>1 DEF EvaluateFive
  <2>2. CASE ~OneSuit(F) BY <1>4, <1>6, <1>7, <2>2 DEF EvaluateFive
  <2> QED BY <2>1, <2>2
<1>9. Class(F) = k BY <1>3 DEF Class
<1>10. Encode(<<t>>) = t /\ t \in 0..Scale - 1
  <2>1. t \in 2..14 BY <1>6
  <2> HIDE DEF t
  <2> QED BY <2>1, Encode1
<1>12. Holds(F, 1) = t - 4..t /\ Holds(F, 2) = {} /\ Holds(F, 3) = {} /\ Holds(F, 4) = {}
  <2>1. CASE IsWheel(p, q, r, s, z)
    <3>1. t = 5 /\ Ranks(F) = Wheel BY <1>5, <2>1
    <3>2. t - 4..t = 1..5 BY <3>1
    <3> QED BY <1>3, <3>1, <3>2, WheelHolds
  <2>2. CASE ~IsWheel(p, q, r, s, z)
    <3>1. t = p /\ Ranks(F) # Wheel /\ p - z = 4 BY <1>5, <2>2
    <3>2. q = p - 1 /\ r = p - 2 /\ s = p - 3 /\ z = p - 4 BY <1>1, <1>2, <3>1
    <3>3. Ranks(F) = p - 4..p BY <1>1, <3>2
    <3>4. Having(F, 1) = Ranks(F) /\ Having(F, 2) = {} /\ Having(F, 3) = {} /\ Having(F, 4) = {}
      BY <1>3 DEF Having
    <3>5. /\ Holds(F, 1) = Having(F, 1) /\ Holds(F, 2) = Having(F, 2)
          /\ Holds(F, 3) = Having(F, 3) /\ Holds(F, 4) = Having(F, 4)
      BY <3>1, HoldsIs
    <3> QED BY <3>1, <3>3, <3>4, <3>5
  <2> QED BY <2>1, <2>2
<1>13. k \in {4, 8} /\ k \in 0..8 OBVIOUS
<1>14. Has(F, k, t, t - 4..t, {}, {}, {})
  <2> DEFINE v == <<t>>
  <2>1. EvaluateFive(F) = [category |-> k, rankValues |-> v] /\ Encode(v) = t BY <1>8, <1>10
  <2> HIDE DEF k, t, v
  <2> QED BY <1>1, <1>9, <1>10, <1>12, <1>13, <2>1, Reads
<1> QED BY <1>6, <1>13, <1>14

\* Five ranks that are no straight, with a flush or without
LEMMA LooseHas ==
    ASSUME NEW F, NEW a, NEW b, NEW c, NEW d, NEW e, Singles(F, a, b, c, d, e), ~InARow(F)
    PROVE  \E k \in {0, 5} : Loose(F, k)
<1> DEFINE p == a.rank
           q == b.rank
           r == c.rank
           s == d.rank
           z == e.rank
<1>0. Five(F, a, b, c, d, e) BY DEF Singles
<1>1. /\ F \in Fives(Deck) /\ Ranks(F) = {p, q, r, s, z}
      /\ p \in 2..14 /\ q \in 2..14 /\ r \in 2..14 /\ s \in 2..14 /\ z \in 2..14
  BY <1>0, FiveIs
<1>2. p > q /\ q > r /\ r > s /\ s > z BY DEF Singles
<1>3. (\A x \in Ranks(F) : Count(F, x) = 1) /\ PairsOf(F) = 0 BY SinglesCount
<1>4. IsFlush(F) <=> OneSuit(F) BY <1>0, FlushIs
<1> HIDE DEF p, q, r, s, z
<1>5. StraightHigh(F) = 0 BY <1>1, <1>2, InARowIs
<1>6. Groups(F) = List5(p, q, r, s, z)
  <2>1. Precedes(F, p, q) /\ Precedes(F, q, r) /\ Precedes(F, r, s) /\ Precedes(F, s, z)
    BY <1>1, <1>2, <1>3 DEF Precedes
  <2>2. p \in Nat /\ q \in Nat /\ r \in Nat /\ s \in Nat /\ z \in Nat BY <1>1
  <2>3. \A x \in Ranks(F) : Count(F, x) \in Nat BY <1>3
  <2>4. Ranks(F) = Set5(p, q, r, s, z) BY <1>1 DEF Set5
  <2> QED BY <2>1, <2>2, <2>3, <2>4, FiveGroups
<1>7. Sized(F, 1) = 1 /\ Sized(F, 2) = 1 BY <1>1, <1>3, <1>6 DEF Sized, List5
<1> DEFINE n == Code5(p, q, r, s, z)
           k == IF OneSuit(F) THEN 5 ELSE 0
<1>8. Encode(Groups(F)) = n /\ n \in 0..Scale - 1
  <2>1. p \in 2..14 /\ q \in 2..14 /\ r \in 2..14 /\ s \in 2..14 /\ z \in 2..14 BY <1>1
  <2>2. /\ Encode(List5(p, q, r, s, z)) = Code5(p, q, r, s, z)
        /\ Code5(p, q, r, s, z) \in 0..Scale - 1
    BY <2>1, Encode5
  <2> QED BY <1>6, <2>2
<1>10. EvaluateFive(F) = [category |-> k, rankValues |-> Groups(F)]
  <2>1. CASE OneSuit(F) BY <1>4, <1>5, <1>7, <2>1 DEF EvaluateFive
  <2>2. CASE ~OneSuit(F) BY <1>4, <1>5, <1>7, <2>2 DEF EvaluateFive
  <2> QED BY <2>1, <2>2
<1>11. Class(F) = k BY <1>3 DEF Class
<1>12. Ranks(F) # Wheel BY DEF InARow
<1>13. /\ Having(F, 1) = {p, q, r, s, z} /\ Having(F, 2) = {} /\ Having(F, 3) = {}
       /\ Having(F, 4) = {}
  BY <1>1, <1>3 DEF Having
<1>14. /\ Holds(F, 1) = Having(F, 1) /\ Holds(F, 2) = Having(F, 2)
       /\ Holds(F, 3) = Having(F, 3) /\ Holds(F, 4) = Having(F, 4)
  BY <1>12, HoldsIs
<1>15. k \in {0, 5} /\ k \in 0..8 OBVIOUS
<1>16. Has(F, k, n, {p, q, r, s, z}, {}, {}, {})
  <2> DEFINE h == Having(F, 1)
             none == Having(F, 2)
             v == Groups(F)
  <2>1. /\ EvaluateFive(F) = [category |-> k, rankValues |-> v] /\ Encode(v) = n
        /\ Holds(F, 1) = h /\ Holds(F, 2) = none /\ Holds(F, 3) = none /\ Holds(F, 4) = none
    BY <1>8, <1>10, <1>13, <1>14
  <2>2. h = {p, q, r, s, z} /\ none = {} BY <1>13
  <2> HIDE DEF h, none, k, n, v
  <2>3. Has(F, k, n, h, none, none, none) BY <1>1, <1>8, <1>11, <1>15, <2>1, Reads
  <2> QED BY <2>2, <2>3
<1>17. Loose(F, k)
  <2>1. Has(F, k, Code5(p, q, r, s, z), {p, q, r, s, z}, {}, {}, {}) BY <1>16
  <2> HIDE DEF k
  <2> QED BY <1>1, <1>2, <2>1 DEF Loose
<1> QED BY <1>15, <1>17
-----------------------------------------------------------------------------
(* The program and the rules compare two hands alike.                       *)

\* Which of the ranks that two hands of a class hold is higher, the largest groups first
Above(h1, h2, h3, h4, g1, g2, g3, g4) ==
    \/ Higher(h4, g4)
    \/ h4 = g4 /\ Higher(h3, g3)
    \/ h4 = g4 /\ h3 = g3 /\ Higher(h2, g2)
    \/ h4 = g4 /\ h3 = g3 /\ h2 = g2 /\ Higher(h1, g1)

\* Two hands of a class: the codes decide, and the ranks held.
LEMMA SameClass ==
    ASSUME NEW F, NEW G, NEW k, NEW n, NEW m, NEW h1, NEW h2, NEW h3, NEW h4,
           NEW g1, NEW g2, NEW g3, NEW g4,
           Has(F, k, n, h1, h2, h3, h4), Has(G, k, m, g1, g2, g3, g4)
    PROVE  /\ Score[F] > Score[G] <=> n > m
           /\ Beats(Look[F], Look[G]) <=> Above(h1, h2, h3, h4, g1, g2, g3, g4)
<1>1. Score[F] > Score[G] <=> n > m
  <2>1. Scale \in Nat BY DEF Scale
  <2> DEFINE base == k * Scale
  <2>2. k \in Nat /\ n \in Int /\ m \in Int BY <2>1 DEF Has
  <2>3. base \in Int BY <2>1, <2>2
  <2>4. Score[F] = base + n /\ Score[G] = base + m BY DEF Has
  <2> HIDE DEF base
  <2> QED BY <2>2, <2>3, <2>4
<1> DEFINE h == Look[F].holds
           g == Look[G].holds
<1>2. Look[F].class = k /\ Look[G].class = k /\ k \in 0..8 BY DEF Has
<1>3. Beats(Look[F], Look[G])
         <=> \E i \in 1..4 : Higher(h[i], g[i]) /\ \A j \in i + 1..4 : h[j] = g[j]
  BY <1>2 DEF Beats
<1>4. /\ h[1] = h1 /\ h[2] = h2 /\ h[3] = h3 /\ h[4] = h4
      /\ g[1] = g1 /\ g[2] = g2 /\ g[3] = g3 /\ g[4] = g4
  BY DEF Has
<1> HIDE DEF h, g
<1> DEFINE Decides(i) == Higher(h[i], g[i]) /\ \A j \in i + 1..4 : h[j] = g[j]
<1>5. Decides(4) <=> Higher(h4, g4) BY <1>4
<1>6. Decides(3) <=> h4 = g4 /\ Higher(h3, g3)
  <2>1. 3 + 1..4 = {4} OBVIOUS
  <2> QED BY <1>4, <2>1
<1>7. Decides(2) <=> h4 = g4 /\ h3 = g3 /\ Higher(h2, g2)
  <2>1. 2 + 1..4 = {3, 4} OBVIOUS
  <2> QED BY <1>4, <2>1
<1>8. Decides(1) <=> h4 = g4 /\ h3 = g3 /\ h2 = g2 /\ Higher(h1, g1)
  <2>1. 1 + 1..4 = {2, 3, 4} OBVIOUS
  <2> QED BY <1>4, <2>1
<1>9. (\E i \in 1..4 : Decides(i)) <=> Decides(1) \/ Decides(2) \/ Decides(3) \/ Decides(4)
  <2>1. 1..4 = {1, 2, 3, 4} OBVIOUS
  <2> HIDE DEF Decides
  <2> QED BY <2>1
<1>10. Beats(Look[F], Look[G]) <=> \E i \in 1..4 : Decides(i) BY <1>3
<1> HIDE DEF Decides
<1>11. Beats(Look[F], Look[G]) <=> Above(h1, h2, h3, h4, g1, g2, g3, g4)
  BY <1>5, <1>6, <1>7, <1>8, <1>9, <1>10 DEF Above
<1> QED BY <1>1, <1>11

\* More times the same is more by at least one time.
LEMMA MoreTimes ==
    ASSUME NEW S \in Nat, NEW x \in Nat, NEW y \in Nat, x > y
    PROVE  x * S >= y * S + S
<1>1. PICK z \in Nat : x = y + 1 + z
  <2>1. x - y - 1 \in Nat /\ x = y + 1 + (x - y - 1) OBVIOUS
  <2> QED BY <2>1
<1>2. (y + 1 + z) * S = y * S + S + z * S
  <2>1. y \in Int /\ z \in Int /\ S \in Int OBVIOUS
  <2> QED BY <2>1
<1>3. x * S = y * S + S + z * S BY <1>1, <1>2
<1>4. z * S \in Nat /\ y * S \in Nat OBVIOUS
<1> QED BY <1>3, <1>4

\* The class of a hand decides before its ranks.
LEMMA OtherClass ==
    ASSUME NEW F, NEW G, NEW k, NEW j, NEW n, NEW m, NEW h1, NEW h2, NEW h3, NEW h4,
           NEW g1, NEW g2, NEW g3, NEW g4, k # j,
           Has(F, k, n, h1, h2, h3, h4), Has(G, j, m, g1, g2, g3, g4)
    PROVE  Score[F] > Score[G] <=> Beats(Look[F], Look[G])
<1>1. /\ k \in 0..8 /\ j \in 0..8 /\ n \in 0..Scale - 1 /\ m \in 0..Scale - 1
      /\ Score[F] = k * Scale + n /\ Score[G] = j * Scale + m
      /\ Look[F].class = k /\ Look[G].class = j
  BY DEF Has
<1>2. Beats(Look[F], Look[G]) <=> k > j BY <1>1 DEF Beats
<1>3. Score[F] > Score[G] <=> k > j
  <2>1. Scale \in Nat BY DEF Scale
  <2>2. \A S, x, y \in Nat : x > y => x * S >= y * S + S BY MoreTimes
  <2>3. k \in Nat /\ j \in Nat /\ k * Scale \in Nat /\ j * Scale \in Nat
    <3>1. \A x, y \in Nat : x * y \in Nat OBVIOUS
    <3>2. k \in Nat /\ j \in Nat BY <1>1
    <3> QED BY <2>1, <3>1, <3>2
  <2>4. k > j => k * Scale >= j * Scale + Scale BY <2>1, <2>2, <2>3
  <2>5. j > k => j * Scale >= k * Scale + Scale BY <2>1, <2>2, <2>3
  <2> DEFINE u == k * Scale
             w == j * Scale
  <2>6. /\ u \in Nat /\ w \in Nat /\ (k > j => u >= w + Scale) /\ (j > k => w >= u + Scale)
        /\ Score[F] = u + n /\ Score[G] = w + m
    BY <1>1, <2>3, <2>4, <2>5
  <2> HIDE DEF u, w
  <2>7. CASE k > j
    <3>1. u + n > w + m BY <1>1, <2>1, <2>6, <2>7
    <3> QED BY <2>6, <2>7, <3>1
  <2>8. CASE j > k
    <3>1. ~(u + n > w + m) /\ ~(k > j) BY <1>1, <2>1, <2>6, <2>8
    <3> QED BY <2>6, <3>1
  <2> QED BY <1>1, <2>7, <2>8
<1> QED BY <1>2, <1>3

\* Every hand is of one of these kinds.
LEMMA Kinds ==
    ASSUME NEW F \in Fives(Deck)
    PROVE  \/ \E k \in {4, 8} : Row(F, k)
           \/ \E k \in {0, 5} : Loose(F, k)
           \/ Pair(F) \/ Pairs(F) \/ Triple(F) \/ House(F) \/ Poker(F)
<1>1. PICK a, b, c, d, e :
         \/ Singles(F, a, b, c, d, e) \/ OnePair(F, a, b, c, d, e)
         \/ TwoPairs(F, a, b, c, d, e) \/ Three(F, a, b, c, d, e)
         \/ Full(F, a, b, c, d, e) \/ Four(F, a, b, c, d, e)
  BY Shapes
<1>2. Five(F, a, b, c, d, e) BY <1>1 DEF Singles, OnePair, TwoPairs, Three, Full, Four
<1>3. /\ a.rank \in 2..14 /\ b.rank \in 2..14 /\ c.rank \in 2..14
      /\ d.rank \in 2..14 /\ e.rank \in 2..14
  BY <1>2, FiveIs
<1>4. CASE Singles(F, a, b, c, d, e) /\ InARow(F) BY <1>4, InARowHas DEF Row
<1>5. CASE Singles(F, a, b, c, d, e) /\ ~InARow(F) BY <1>5, LooseHas
<1>6. CASE OnePair(F, a, b, c, d, e)
  <2>1. Has(F, 1, Code4(a.rank, c.rank, d.rank, e.rank),
            {a.rank, c.rank, d.rank, e.rank}, {a.rank}, {}, {})
    BY <1>6, OnePairHas
  <2>2. a.rank \notin {c.rank, d.rank, e.rank} /\ c.rank > d.rank /\ d.rank > e.rank
    BY <1>6 DEF OnePair
  <2> QED BY <1>3, <2>1, <2>2 DEF Pair
<1>7. CASE TwoPairs(F, a, b, c, d, e)
  <2>1. Has(F, 2, Code3(a.rank, c.rank, e.rank),
            {a.rank, c.rank, e.rank}, {a.rank, c.rank}, {}, {})
    BY <1>7, TwoPairsHas
  <2>2. e.rank \notin {a.rank, c.rank} /\ a.rank > c.rank BY <1>7 DEF TwoPairs
  <2> QED BY <1>3, <2>1, <2>2 DEF Pairs
<1>8. CASE Three(F, a, b, c, d, e)
  <2>1. Has(F, 3, Code3(a.rank, d.rank, e.rank),
            {a.rank, d.rank, e.rank}, {a.rank}, {a.rank}, {})
    BY <1>8, ThreeHas
  <2>2. a.rank \notin {d.rank, e.rank} /\ d.rank > e.rank BY <1>8 DEF Three
  <2> QED BY <1>3, <2>1, <2>2 DEF Triple
<1>9. CASE Full(F, a, b, c, d, e)
  <2>1. Has(F, 6, Code2(a.rank, d.rank), {a.rank, d.rank}, {a.rank, d.rank}, {a.rank}, {})
    BY <1>9, FullHas
  <2>2. a.rank # d.rank BY <1>9 DEF Full
  <2> QED BY <1>3, <2>1, <2>2 DEF House
<1>10. CASE Four(F, a, b, c, d, e)
  <2>1. Has(F, 7, Code2(a.rank, e.rank), {a.rank, e.rank}, {a.rank}, {a.rank}, {a.rank})
    BY <1>10, FourHas
  <2>2. a.rank # e.rank BY <1>10 DEF Four
  <2> QED BY <1>3, <2>1, <2>2 DEF Poker
<1> QED BY <1>1, <1>4, <1>5, <1>6, <1>7, <1>8, <1>9, <1>10

\* Two straights
LEMMA RowsAgree ==
    ASSUME NEW F, NEW G, NEW k, Row(F, k), Row(G, k)
    PROVE  Score[F] > Score[G] <=> Beats(Look[F], Look[G])
<1>1. PICK t \in 5..14 : Has(F, k, t, t - 4..t, {}, {}, {}) BY DEF Row
<1>2. PICK u \in 5..14 : Has(G, k, u, u - 4..u, {}, {}, {}) BY DEF Row
<1> DEFINE A == t - 4..t
           B == u - 4..u
           N == {}
<1>3. Higher(A, B) <=> t > u BY HigherRow
<1>4. ~Higher(N, N) BY HigherNone
<1>5. Has(F, k, t, A, N, N, N) /\ Has(G, k, u, B, N, N, N) BY <1>1, <1>2
<1> HIDE DEF A, B, N
<1>6. /\ Score[F] > Score[G] <=> t > u
      /\ Beats(Look[F], Look[G]) <=> Above(A, N, N, N, B, N, N, N)
  BY <1>5, SameClass
<1> QED BY <1>3, <1>4, <1>6 DEF Above

\* Two hands of five ranks
LEMMA LooseAgree ==
    ASSUME NEW F, NEW G, NEW k, Loose(F, k), Loose(G, k)
    PROVE  Score[F] > Score[G] <=> Beats(Look[F], Look[G])
<1>1. PICK a, b, c, d, e \in 2..14 :
         /\ a > b /\ b > c /\ c > d /\ d > e
         /\ Has(F, k, Code5(a, b, c, d, e), {a, b, c, d, e}, {}, {}, {})
  BY DEF Loose
<1>2. PICK p, q, r, s, t \in 2..14 :
         /\ p > q /\ q > r /\ r > s /\ s > t
         /\ Has(G, k, Code5(p, q, r, s, t), {p, q, r, s, t}, {}, {}, {})
  BY DEF Loose
<1> DEFINE A == Set5(a, b, c, d, e)
           B == Set5(p, q, r, s, t)
           N == {}
           n == Code5(a, b, c, d, e)
           m == Code5(p, q, r, s, t)
<1>4. Higher(A, B) <=> Lex5(a, b, c, d, e, p, q, r, s, t) BY <1>1, <1>2, Higher5
<1>5. n > m <=> Lex5(a, b, c, d, e, p, q, r, s, t) BY Compare5
<1>6. ~Higher(N, N) BY HigherNone
<1>7. Has(F, k, n, A, N, N, N) /\ Has(G, k, m, B, N, N, N) BY <1>1, <1>2 DEF Set5
<1> HIDE DEF A, B, N, n, m
<1>8. /\ Score[F] > Score[G] <=> n > m
      /\ Beats(Look[F], Look[G]) <=> Above(A, N, N, N, B, N, N, N)
  BY <1>7, SameClass
<1> QED BY <1>4, <1>5, <1>6, <1>8 DEF Above
\* Two hands of a pair
LEMMA PairAgree ==
    ASSUME NEW F, NEW G, Pair(F), Pair(G)
    PROVE  Score[F] > Score[G] <=> Beats(Look[F], Look[G])
<1>1. PICK a, b, c, d \in 2..14 :
         /\ a \notin {b, c, d} /\ b > c /\ c > d
         /\ Has(F, 1, Code4(a, b, c, d), {a, b, c, d}, {a}, {}, {})
  BY DEF Pair
<1>2. PICK p, q, r, s \in 2..14 :
         /\ p \notin {q, r, s} /\ q > r /\ r > s
         /\ Has(G, 1, Code4(p, q, r, s), {p, q, r, s}, {p}, {}, {})
  BY DEF Pair
<1> DEFINE A == Set3(b, c, d)
           B == Set3(q, r, s)
           AA == With(A, a)
           BB == With(B, p)
           A2 == {a}
           B2 == {p}
           N == {}
           n == Code4(a, b, c, d)
           m == Code4(p, q, r, s)
<1>3. Higher(A, B) <=> Lex3(b, c, d, q, r, s) BY <1>1, <1>2, Higher3
<1>4. Higher(A2, B2) <=> a > p BY Higher1
<1>5. n > m <=> Lex4(a, b, c, d, p, q, r, s) BY Compare4
<1>6. ~Higher(N, N) BY HigherNone
<1>7. Has(F, 1, n, AA, A2, N, N) /\ Has(G, 1, m, BB, B2, N, N)
  <2>1. AA = {a, b, c, d} /\ BB = {p, q, r, s} BY DEF With, Set3
  <2> HIDE DEF AA, BB
  <2> QED BY <1>1, <1>2, <2>1
<1>8. A \in SUBSET (1..14) /\ B \in SUBSET (1..14) /\ a \notin A /\ p \notin B /\ a \in 1..14
  BY <1>1, <1>2 DEF Set3
<1>9. A2 = B2 <=> a = p OBVIOUS
<1>10. Lex4(a, b, c, d, p, q, r, s) <=> a > p \/ (a = p /\ Lex3(b, c, d, q, r, s))
  BY DEF Lex4, Lex3, Lex2
<1> HIDE DEF A, B
<1>11. a = p => (Higher(AA, BB) <=> Higher(A, B))
  <2> SUFFICES ASSUME a = p PROVE Higher(With(A, a), With(B, a)) <=> Higher(A, B) OBVIOUS
  <2> QED BY <1>8, HigherRest
<1> HIDE DEF AA, BB, A2, B2, N, n, m
<1>12. /\ Score[F] > Score[G] <=> n > m
       /\ Beats(Look[F], Look[G]) <=> Above(AA, A2, N, N, BB, B2, N, N)
  BY <1>7, SameClass
<1> QED BY <1>3, <1>4, <1>5, <1>6, <1>9, <1>10, <1>11, <1>12 DEF Above

\* Two hands of two pairs
LEMMA PairsAgree ==
    ASSUME NEW F, NEW G, Pairs(F), Pairs(G)
    PROVE  Score[F] > Score[G] <=> Beats(Look[F], Look[G])
<1>1. PICK a, b, c \in 2..14 :
         /\ c \notin {a, b} /\ a > b
         /\ Has(F, 2, Code3(a, b, c), {a, b, c}, {a, b}, {}, {})
  BY DEF Pairs
<1>2. PICK p, q, r \in 2..14 :
         /\ r \notin {p, q} /\ p > q
         /\ Has(G, 2, Code3(p, q, r), {p, q, r}, {p, q}, {}, {})
  BY DEF Pairs
<1> DEFINE A == {c}
           B == {r}
           AA == With(With(A, b), a)
           BB == With(With(B, q), p)
           A2 == Set2(a, b)
           B2 == Set2(p, q)
           N == {}
           n == Code3(a, b, c)
           m == Code3(p, q, r)
<1>3. Higher(A, B) <=> c > r BY Higher1
<1>4. Higher(A2, B2) <=> Lex2(a, b, p, q) BY <1>1, <1>2, Higher2
<1>5. n > m <=> Lex3(a, b, c, p, q, r) BY Compare3
<1>6. ~Higher(N, N) BY HigherNone
<1>7. Has(F, 2, n, AA, A2, N, N) /\ Has(G, 2, m, BB, B2, N, N)
  <2>1. AA = {a, b, c} /\ BB = {p, q, r} BY DEF With
  <2>2. A2 = {a, b} /\ B2 = {p, q} BY DEF Set2
  <2> HIDE DEF AA, BB, A2, B2
  <2> QED BY <1>1, <1>2, <2>1, <2>2
<1>8. /\ A \in SUBSET (1..14) /\ B \in SUBSET (1..14) /\ a \in 1..14 /\ b \in 1..14
      /\ With(A, b) \in SUBSET (1..14) /\ With(B, q) \in SUBSET (1..14)
      /\ b \notin A /\ q \notin B /\ a \notin With(A, b) /\ p \notin With(B, q)
  BY <1>1, <1>2 DEF With
<1>9. A2 = B2 <=> a = p /\ b = q
  <2>1. a > b /\ p > q BY <1>1, <1>2
  <2>2. a \in A2 /\ b \in A2 /\ p \in B2 /\ q \in B2 BY DEF Set2
  <2>3. \A x : (x \in A2 <=> x = a \/ x = b) /\ (x \in B2 <=> x = p \/ x = q) BY DEF Set2
  <2>4. a = p /\ b = q => A2 = B2 OBVIOUS
  <2> HIDE DEF A2, B2
  <2>5. A2 = B2 => a = p /\ b = q BY <2>1, <2>2, <2>3
  <2> QED BY <2>4, <2>5
<1>10. Lex3(a, b, c, p, q, r) <=> Lex2(a, b, p, q) \/ (a = p /\ b = q /\ c > r)
  BY DEF Lex3, Lex2
<1> HIDE DEF A, B
<1>11. a = p /\ b = q => (Higher(AA, BB) <=> Higher(A, B))
  <2> SUFFICES ASSUME a = p, b = q
               PROVE  Higher(With(With(A, b), a), With(With(B, b), a)) <=> Higher(A, B)
    OBVIOUS
  <2>1. Higher(With(A, b), With(B, b)) <=> Higher(A, B) BY <1>8, HigherRest
  <2> DEFINE C == With(A, b)
             D == With(B, b)
  <2>2. C \in SUBSET (1..14) /\ D \in SUBSET (1..14) /\ a \in 1..14 /\ a \notin C /\ a \notin D
    BY <1>8
  <2> HIDE DEF C, D
  <2>3. Higher(With(C, a), With(D, a)) <=> Higher(C, D) BY <2>2, HigherRest
  <2> QED BY <2>1, <2>3 DEF C, D
<1> HIDE DEF AA, BB, A2, B2, N, n, m
<1>12. /\ Score[F] > Score[G] <=> n > m
       /\ Beats(Look[F], Look[G]) <=> Above(AA, A2, N, N, BB, B2, N, N)
  BY <1>7, SameClass
<1> QED BY <1>3, <1>4, <1>5, <1>6, <1>9, <1>10, <1>11, <1>12 DEF Above

\* Two hands of three of a kind
LEMMA TripleAgree ==
    ASSUME NEW F, NEW G, Triple(F), Triple(G)
    PROVE  Score[F] > Score[G] <=> Beats(Look[F], Look[G])
<1>1. PICK a, b, c \in 2..14 :
         /\ a \notin {b, c} /\ b > c
         /\ Has(F, 3, Code3(a, b, c), {a, b, c}, {a}, {a}, {})
  BY DEF Triple
<1>2. PICK p, q, r \in 2..14 :
         /\ p \notin {q, r} /\ q > r
         /\ Has(G, 3, Code3(p, q, r), {p, q, r}, {p}, {p}, {})
  BY DEF Triple
<1> DEFINE A == Set2(b, c)
           B == Set2(q, r)
           AA == With(A, a)
           BB == With(B, p)
           A2 == {a}
           B2 == {p}
           N == {}
           n == Code3(a, b, c)
           m == Code3(p, q, r)
<1>3. Higher(A, B) <=> Lex2(b, c, q, r) BY <1>1, <1>2, Higher2
<1>4. Higher(A2, B2) <=> a > p BY Higher1
<1>5. n > m <=> Lex3(a, b, c, p, q, r) BY Compare3
<1>6. ~Higher(N, N) BY HigherNone
<1>7. Has(F, 3, n, AA, A2, A2, N) /\ Has(G, 3, m, BB, B2, B2, N)
  <2>1. AA = {a, b, c} /\ BB = {p, q, r} BY DEF With, Set2
  <2> HIDE DEF AA, BB
  <2> QED BY <1>1, <1>2, <2>1
<1>8. A \in SUBSET (1..14) /\ B \in SUBSET (1..14) /\ a \notin A /\ p \notin B /\ a \in 1..14
  BY <1>1, <1>2 DEF Set2
<1>9. A2 = B2 <=> a = p OBVIOUS
<1>10. Lex3(a, b, c, p, q, r) <=> a > p \/ (a = p /\ Lex2(b, c, q, r))
  BY DEF Lex3, Lex2
<1> HIDE DEF A, B
<1>11. a = p => (Higher(AA, BB) <=> Higher(A, B))
  <2> SUFFICES ASSUME a = p PROVE Higher(With(A, a), With(B, a)) <=> Higher(A, B) OBVIOUS
  <2> QED BY <1>8, HigherRest
<1> HIDE DEF AA, BB, A2, B2, N, n, m
<1>12. /\ Score[F] > Score[G] <=> n > m
       /\ Beats(Look[F], Look[G]) <=> Above(AA, A2, A2, N, BB, B2, B2, N)
  BY <1>7, SameClass
<1> QED BY <1>3, <1>4, <1>5, <1>6, <1>9, <1>10, <1>11, <1>12 DEF Above

\* Two full houses
LEMMA HouseAgree ==
    ASSUME NEW F, NEW G, House(F), House(G)
    PROVE  Score[F] > Score[G] <=> Beats(Look[F], Look[G])
<1>1. PICK a, b \in 2..14 : a # b /\ Has(F, 6, Code2(a, b), {a, b}, {a, b}, {a}, {})
  BY DEF House
<1>2. PICK p, q \in 2..14 : p # q /\ Has(G, 6, Code2(p, q), {p, q}, {p, q}, {p}, {})
  BY DEF House
<1> DEFINE A == {b}
           B == {q}
           AA == With(A, a)
           BB == With(B, p)
           A2 == {a}
           B2 == {p}
           N == {}
           n == Code2(a, b)
           m == Code2(p, q)
<1>3. Higher(A, B) <=> b > q BY Higher1
<1>4. Higher(A2, B2) <=> a > p BY Higher1
<1>5. n > m <=> Lex2(a, b, p, q) BY Compare2
<1>6. ~Higher(N, N) BY HigherNone
<1>7. Has(F, 6, n, AA, AA, A2, N) /\ Has(G, 6, m, BB, BB, B2, N)
  <2>1. AA = {a, b} /\ BB = {p, q} BY DEF With
  <2> HIDE DEF AA, BB
  <2> QED BY <1>1, <1>2, <2>1
<1>8. A \in SUBSET (1..14) /\ B \in SUBSET (1..14) /\ a \notin A /\ p \notin B /\ a \in 1..14
  BY <1>1, <1>2
<1>9. A2 = B2 <=> a = p OBVIOUS
<1>10. Lex2(a, b, p, q) <=> a > p \/ (a = p /\ b > q) BY DEF Lex2
<1> HIDE DEF A, B
<1>11. a = p => (Higher(AA, BB) <=> Higher(A, B))
  <2> SUFFICES ASSUME a = p PROVE Higher(With(A, a), With(B, a)) <=> Higher(A, B) OBVIOUS
  <2> QED BY <1>8, HigherRest
<1>12. ~Higher(AA, AA) BY HigherNone
<1> HIDE DEF AA, BB, A2, B2, N, n, m
<1>13. /\ Score[F] > Score[G] <=> n > m
       /\ Beats(Look[F], Look[G]) <=> Above(AA, AA, A2, N, BB, BB, B2, N)
  BY <1>7, SameClass
<1> QED BY <1>3, <1>4, <1>5, <1>6, <1>9, <1>10, <1>11, <1>12, <1>13 DEF Above

\* Two hands of four of a kind
LEMMA PokerAgree ==
    ASSUME NEW F, NEW G, Poker(F), Poker(G)
    PROVE  Score[F] > Score[G] <=> Beats(Look[F], Look[G])
<1>1. PICK a, b \in 2..14 : a # b /\ Has(F, 7, Code2(a, b), {a, b}, {a}, {a}, {a})
  BY DEF Poker
<1>2. PICK p, q \in 2..14 : p # q /\ Has(G, 7, Code2(p, q), {p, q}, {p}, {p}, {p})
  BY DEF Poker
<1> DEFINE A == {b}
           B == {q}
           AA == With(A, a)
           BB == With(B, p)
           A2 == {a}
           B2 == {p}
           n == Code2(a, b)
           m == Code2(p, q)
<1>3. Higher(A, B) <=> b > q BY Higher1
<1>4. Higher(A2, B2) <=> a > p BY Higher1
<1>5. n > m <=> Lex2(a, b, p, q) BY Compare2
<1>7. Has(F, 7, n, AA, A2, A2, A2) /\ Has(G, 7, m, BB, B2, B2, B2)
  <2>1. AA = {a, b} /\ BB = {p, q} BY DEF With
  <2> HIDE DEF AA, BB
  <2> QED BY <1>1, <1>2, <2>1
<1>8. A \in SUBSET (1..14) /\ B \in SUBSET (1..14) /\ a \notin A /\ p \notin B /\ a \in 1..14
  BY <1>1, <1>2
<1>9. A2 = B2 <=> a = p OBVIOUS
<1>10. Lex2(a, b, p, q) <=> a > p \/ (a = p /\ b > q) BY DEF Lex2
<1> HIDE DEF A, B
<1>11. a = p => (Higher(AA, BB) <=> Higher(A, B))
  <2> SUFFICES ASSUME a = p PROVE Higher(With(A, a), With(B, a)) <=> Higher(A, B) OBVIOUS
  <2> QED BY <1>8, HigherRest
<1> HIDE DEF AA, BB, A2, B2, n, m
<1>12. /\ Score[F] > Score[G] <=> n > m
       /\ Beats(Look[F], Look[G]) <=> Above(AA, A2, A2, A2, BB, B2, B2, B2)
  BY <1>7, SameClass
<1> QED BY <1>3, <1>4, <1>5, <1>9, <1>10, <1>11, <1>12 DEF Above
\* A hand of class k, of one of the kinds
Of(F, k) ==
    \/ k \in {4, 8} /\ Row(F, k)
    \/ k \in {0, 5} /\ Loose(F, k)
    \/ k = 1 /\ Pair(F)
    \/ k = 2 /\ Pairs(F)
    \/ k = 3 /\ Triple(F)
    \/ k = 6 /\ House(F)
    \/ k = 7 /\ Poker(F)

\* The kind of a hand says what it has.
LEMMA OfHas ==
    ASSUME NEW F, NEW k, Of(F, k)
    PROVE  \E n, h1, h2, h3, h4 : Has(F, k, n, h1, h2, h3, h4)
<1>1. CASE k \in {4, 8} /\ Row(F, k)
  <2>1. PICK t \in 5..14 : Has(F, k, t, t - 4..t, {}, {}, {}) BY <1>1 DEF Row
  <2> QED BY <2>1
<1>2. CASE k \in {0, 5} /\ Loose(F, k)
  <2>1. PICK p, q, r, s, t \in 2..14 : Has(F, k, Code5(p, q, r, s, t), {p, q, r, s, t}, {}, {}, {})
    BY <1>2 DEF Loose
  <2> QED BY <2>1
<1>3. CASE k = 1 /\ Pair(F)
  <2>1. PICK p, q, r, s \in 2..14 : Has(F, k, Code4(p, q, r, s), {p, q, r, s}, {p}, {}, {})
    BY <1>3 DEF Pair
  <2> QED BY <2>1
<1>4. CASE k = 2 /\ Pairs(F)
  <2>1. PICK p, q, r \in 2..14 : Has(F, k, Code3(p, q, r), {p, q, r}, {p, q}, {}, {})
    BY <1>4 DEF Pairs
  <2> QED BY <2>1
<1>5. CASE k = 3 /\ Triple(F)
  <2>1. PICK p, q, r \in 2..14 : Has(F, k, Code3(p, q, r), {p, q, r}, {p}, {p}, {})
    BY <1>5 DEF Triple
  <2> QED BY <2>1
<1>6. CASE k = 6 /\ House(F)
  <2>1. PICK p, q \in 2..14 : Has(F, k, Code2(p, q), {p, q}, {p, q}, {p}, {})
    BY <1>6 DEF House
  <2> QED BY <2>1
<1>7. CASE k = 7 /\ Poker(F)
  <2>1. PICK p, q \in 2..14 : Has(F, k, Code2(p, q), {p, q}, {p}, {p}, {p})
    BY <1>7 DEF Poker
  <2> QED BY <2>1
<1> QED BY <1>1, <1>2, <1>3, <1>4, <1>5, <1>6, <1>7 DEF Of

\* Every hand is of a class.
LEMMA KindIs ==
    ASSUME NEW F \in Fives(Deck)
    PROVE  \E k \in 0..8 : Of(F, k)
<1>1. 0 \in 0..8 /\ 1 \in 0..8 /\ 2 \in 0..8 /\ 3 \in 0..8 /\ 4 \in 0..8 /\ 5 \in 0..8
      /\ 6 \in 0..8 /\ 7 \in 0..8 /\ 8 \in 0..8
  OBVIOUS
<1> QED BY <1>1, Kinds DEF Of

\* Of two hands one scores more than the other exactly if the rules say it wins.
LEMMA Agree ==
    ASSUME NEW F \in Fives(Deck), NEW G \in Fives(Deck)
    PROVE  Score[F] > Score[G] <=> Beats(Look[F], Look[G])
<1>1. PICK k \in 0..8 : Of(F, k) BY KindIs
<1>2. PICK j \in 0..8 : Of(G, j) BY KindIs
<1>3. CASE k # j
  <2>1. PICK n, h1, h2, h3, h4 : Has(F, k, n, h1, h2, h3, h4) BY <1>1, OfHas
  <2>2. PICK m, g1, g2, g3, g4 : Has(G, j, m, g1, g2, g3, g4) BY <1>2, OfHas
  <2> QED BY <1>3, <2>1, <2>2, OtherClass
<1>4. CASE k = j
  <2>1. Of(F, k) /\ Of(G, k) BY <1>1, <1>2, <1>4
  <2>2. CASE k \in {4, 8}
    <3>1. Row(F, k) /\ Row(G, k) BY <2>1, <2>2 DEF Of
    <3> QED BY <3>1, RowsAgree
  <2>3. CASE k \in {0, 5}
    <3>1. Loose(F, k) /\ Loose(G, k) BY <2>1, <2>3 DEF Of
    <3> QED BY <3>1, LooseAgree
  <2>4. CASE k = 1 BY <2>1, <2>4, PairAgree DEF Of
  <2>5. CASE k = 2 BY <2>1, <2>5, PairsAgree DEF Of
  <2>6. CASE k = 3 BY <2>1, <2>6, TripleAgree DEF Of
  <2>7. CASE k = 6 BY <2>1, <2>7, HouseAgree DEF Of
  <2>8. CASE k = 7 BY <2>1, <2>8, PokerAgree DEF Of
  <2> QED BY <2>2, <2>3, <2>4, <2>5, <2>6, <2>7, <2>8
<1> QED BY <1>3, <1>4

\* Scores are numbers below 9e10 of the code's.
LEMMA ScoresAreBounded ==
    ASSUME NEW F \in Fives(Deck)
    PROVE  Score[F] \in 0..9 * Scale
<1>1. PICK k \in 0..8 : Of(F, k) BY KindIs
<1>2. PICK n, h1, h2, h3, h4 : Has(F, k, n, h1, h2, h3, h4) BY <1>1, OfHas
<1>3. Score[F] = k * Scale + n /\ n \in 0..Scale - 1 BY <1>2 DEF Has
<1>4. Scale \in Nat BY DEF Scale
<1>5. k = 0 \/ k = 1 \/ k = 2 \/ k = 3 \/ k = 4 \/ k = 5 \/ k = 6 \/ k = 7 \/ k = 8 OBVIOUS
<1> HIDE DEF Scale
<1> QED BY <1>3, <1>4, <1>5

\* There are five cards to choose among seven.
LEMMA ThereAreFive ==
    ASSUME NEW S, IsFiniteSet(S), Cardinality(S) = 7
    PROVE  Fives(S) # {}
<1>1. PICK a \in S : TRUE
  <2>1. S # {} BY FS_EmptySet
  <2> QED BY <2>1
<1>2. IsFiniteSet(S \ {a}) /\ Cardinality(S \ {a}) = 6 BY <1>1, FS_RemoveElement
<1> DEFINE T == S \ {a}
<1>3. PICK b \in T : TRUE
  <2>1. T # {} BY <1>2, FS_EmptySet
  <2> QED BY <2>1
<1> DEFINE U == T \ {b}
<1>4. Cardinality(U) = 5
  <2>1. IsFiniteSet(T) /\ Cardinality(T) = 6 /\ b \in T BY <1>2, <1>3
  <2> HIDE DEF T
  <2>2. Cardinality(T \ {b}) = Cardinality(T) - 1 BY <2>1, FS_RemoveElement
  <2> QED BY <2>1, <2>2
<1>5. U \in SUBSET S OBVIOUS
<1>6. U \in Fives(S)
  <2> HIDE DEF U
  <2> QED BY <1>4, <1>5 DEF Fives, kSubset
<1> QED BY <1>6

\* The five that evaluateSeven takes are of the cards, and none scores more.
LEMMA BestIs ==
    ASSUME NEW S, S \subseteq Deck, Cardinality(S) = 7
    PROVE  /\ EvaluateSeven(S) \in Fives(S)
           /\ \A F \in Fives(S) : ~(Score[F] > Score[EvaluateSeven(S)])
<1>1. IsFiniteSet(S) BY DeckAssumption, FS_Subset
<1>2. Fives(S) # {} BY <1>1, ThereAreFive
<1>3. Fives(S) \subseteq Fives(Deck) BY DEF Fives, kSubset
<1>4. \A F \in Fives(S) : Score[F] \in 0..9 * Scale BY <1>3, ScoresAreBounded
<1> DEFINE scores == {Score[F] : F \in Fives(S)}
<1>5. scores # {} BY <1>2
<1>6. 9 * Scale \in Nat BY DEF Scale
<1>7. scores \in SUBSET Nat /\ (\A x \in scores : x <= 9 * Scale)
  <2> DEFINE top == 9 * Scale
  <2>1. top \in Nat /\ \A F \in Fives(S) : Score[F] \in 0..top BY <1>4, <1>6
  <2> HIDE DEF top
  <2>2. scores \in SUBSET Nat /\ (\A x \in scores : x <= top) BY <2>1
  <2> QED BY <2>2 DEF top
<1>8. PICK m \in scores : \A x \in scores : x <= m
  <2> DEFINE top == 9 * Scale
  <2>1. top \in Nat /\ \A x \in scores : x <= top BY <1>6, <1>7
  <2> HIDE DEF scores, top
  <2> QED BY <1>5, <1>7, <2>1, GreatestExists
<1>9. Max(scores) = m
  <2>1. scores \in SUBSET Int BY <1>7
  <2> HIDE DEF scores
  <2> QED BY <1>8, <2>1, GreatestIs
<1>10. EvaluateSeven(S) = CHOOSE F \in Fives(S) : Score[F] = m BY <1>9 DEF EvaluateSeven
<1>11. PICK G \in Fives(S) : Score[G] = m BY <1>8
<1>12. EvaluateSeven(S) \in Fives(S) /\ Score[EvaluateSeven(S)] = m BY <1>10, <1>11
<1>13. ASSUME NEW F \in Fives(S) PROVE ~(Score[F] > m)
  <2>1. Score[F] \in scores OBVIOUS
  <2> HIDE DEF scores
  <2>2. Score[F] <= m /\ Score[F] \in Nat /\ m \in Nat BY <1>7, <1>8, <2>1
  <2> QED BY <2>2
<1> QED BY <1>12, <1>13

\* What the invariant says of the cards dealt, when they are of the deck.
LEMMA RankedIfOfDeck ==
    ASSUME dealt \subseteq Deck
    PROVE  ScoresRankHands
<1>1. SUFFICES ASSUME Cardinality(dealt) = 7
               PROVE  /\ \A F, G \in Fives(dealt) : Score[F] > Score[G] <=> Beats(Look[F], Look[G])
                      /\ \A F \in Fives(dealt) : ~Beats(Look[F], Look[EvaluateSeven(dealt)])
  BY DEF ScoresRankHands
<1>2. Fives(dealt) \subseteq Fives(Deck) BY DEF Fives, kSubset
<1>3. \A F, G \in Fives(dealt) : Score[F] > Score[G] <=> Beats(Look[F], Look[G])
  BY <1>2, Agree
<1>4. /\ EvaluateSeven(dealt) \in Fives(dealt)
      /\ \A F \in Fives(dealt) : ~(Score[F] > Score[EvaluateSeven(dealt)])
  BY <1>1, BestIs
<1> QED BY <1>3, <1>4

\* Whatever cards are dealt, of whatever deck of four suits, the numbers of the program rank
\* the hands that can be made of them as the rules of poker do, and the hand it takes is one
\* that none beats (evaluateFive, encode, evaluateSeven).
THEOREM HandsAreRanked == DealSpec => []ScoresRankHands
<1>1. DealInit => dealt \subseteq Deck BY DEF DealInit
<1>2. dealt \subseteq Deck /\ [Deal]_dealt => (dealt \subseteq Deck)'
  BY DEF Deal
<1>3. dealt \subseteq Deck => ScoresRankHands BY RankedIfOfDeck
<1> QED BY <1>1, <1>2, <1>3, PTL DEF DealSpec
=============================================================================
