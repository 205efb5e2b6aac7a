-------------------------- MODULE LobbyPage_proofs --------------------------
(***************************************************************************)
(* Theorems about LobbyPage, for any tabs, calls, tables and bounds: a     *)
(* call is not made again under the session it was refused with, the page  *)
(* shows no error that nothing has caused, and what the tabs remember      *)
(* together is what they have entered.                                     *)
(***************************************************************************)
EXTENDS LobbyPage, FiniteSetTheorems, SequenceTheorems, WellFoundedInduction, TLAPS

-----------------------------------------------------------------------------
(* Types.                                                                   *)

Flights ==
    [step : {"none", "refresh", "create", "insert", "login", "answer"}, session : Nat, tries : Nat]

TabStates ==
    [open : BOOLEAN, loading : BOOLEAN, error : {"none", "signin", "refused", "call"},
     memory : Nat, flight : Flights]

\* The calls of tables with these codes.
CallStates(names) ==
    [step : {"none", "session", "rpc"}, session : Nat, refused : Nat, mounted : BOOLEAN,
     quick : BOOLEAN, code : names \cup {"any"}]

ServerStates == [account : BOOLEAN, issued : Nat, revoked : Nat]

PageTypeOK ==
    /\ server \in ServerStates /\ expired \in Nat /\ lost \in Nat
    /\ stored = [session |-> stored.session, recent |-> stored.recent, profile |-> stored.profile]
    /\ stored.session \in Nat
    /\ tab \in [Tabs -> TabStates]
    /\ \E names : call \in [Tabs -> [Calls -> CallStates(names)]]

-----------------------------------------------------------------------------
(* The invariant.                                                           *)

\* Tab a with the calls k, while the server is s, sessions up to e are past their time
\* and l requests were lost.

\* All sessions were issued by the server.
Issued(a, k, s) ==
    /\ a.memory <= s.issued /\ a.flight.session <= s.issued
    /\ \A c \in Calls : k[c].session <= s.issued /\ k[c].refused <= s.issued

\* A session is asked for when the tab has none that can be used, and it has none until
\* the request ends.
AsksInNeed(a, e) ==
    /\ a.flight.step = "none" => a.flight = NoFlight
    /\ a.flight # NoFlight => a.memory <= e

\* The session that is on its way is newer than all the tab's calls have been made under.
BringsNewer(a, k) ==
    a.flight.step = "answer" =>
        /\ a.flight.session > 0
        /\ \A c \in Calls : /\ k[c].step = "rpc" => k[c].session < a.flight.session
                            /\ k[c].refused < a.flight.session

\* A call is made under a session, and a newer one than it was refused with.
CallsRight(k) ==
    \A c \in Calls : k[c].step = "rpc" =>
        k[c].session > 0 /\ (k[c].refused # NoSession => k[c].session > k[c].refused)

\* A login is tried when there is an account, unless a request was lost; errors have causes.
ErrorsRight(a, s, l) ==
    /\ a.flight.step = "login" => s.account \/ l > 0
    /\ a.error = "signin" => l > 0
    /\ a.error = "refused" => s.revoked # NoSession

Sound(a, k, s, e, l) ==
    Issued(a, k, s) /\ AsksInNeed(a, e) /\ BringsNewer(a, k) /\ CallsRight(k) /\ ErrorsRight(a, s, l)

PageInv ==
    /\ PageTypeOK
    /\ stored.session <= server.issued
    /\ \A t \in Tabs : Sound(tab[t], call[t], server, expired, lost)

\* The server issues and never takes back, time passes, and what was lost stays lost.
Onwards(s, e, l, ss, ee, ll) ==
    /\ ss \in ServerStates /\ ee \in Nat /\ ll \in Nat
    /\ ss.issued >= s.issued /\ ss.revoked >= s.revoked /\ (s.account => ss.account)
    /\ ee >= e /\ ll >= l

\* A tab is none the worse for that.
LEMMA SoundLater ==
    ASSUME NEW s \in ServerStates, NEW e \in Nat, NEW l \in Nat, NEW ss, NEW ee, NEW ll,
           Onwards(s, e, l, ss, ee, ll),
           NEW names, NEW a \in TabStates, NEW k \in [Calls -> CallStates(names)],
           Sound(a, k, s, e, l)
    PROVE  Sound(a, k, ss, ee, ll)
<1>1. /\ s.issued \in Nat /\ ss.issued \in Nat /\ s.revoked \in Nat /\ ss.revoked \in Nat
      /\ ss.issued >= s.issued /\ ss.revoked >= s.revoked
      /\ ee \in Nat /\ ll \in Nat /\ ee >= e /\ ll >= l /\ (s.account => ss.account)
  BY DEF ServerStates, Onwards
<1>2. /\ a.memory \in Nat /\ a.flight.session \in Nat
      /\ \A c \in Calls : k[c].session \in Nat /\ k[c].refused \in Nat
  BY DEF TabStates, Flights, CallStates
<1>3. Issued(a, k, ss) BY <1>1, <1>2 DEF Sound, Issued
<1>4. AsksInNeed(a, ee) BY <1>1, <1>2 DEF Sound, AsksInNeed
<1>5. ErrorsRight(a, ss, ll) BY <1>1 DEF Sound, ErrorsRight, NoSession
<1> QED BY <1>3, <1>4, <1>5 DEF Sound

\* One tab changes, and what all share goes on.
LEMMA OneTab ==
    ASSUME PageInv, NEW t \in Tabs, NEW a \in TabStates, NEW names,
           NEW k \in [Calls -> CallStates(names)],
           tab' = [tab EXCEPT ![t] = a], call' = [call EXCEPT ![t] = k],
           Onwards(server, expired, lost, server', expired', lost'),
           stored' = [session |-> stored'.session, recent |-> stored'.recent,
                      profile |-> stored'.profile],
           stored'.session \in Nat, stored'.session <= server'.issued,
           Sound(a, k, server', expired', lost')
    PROVE  PageInv'
<1>1. PICK old : call \in [Tabs -> [Calls -> CallStates(old)]] BY DEF PageInv, PageTypeOK
<1>2. /\ tab \in [Tabs -> TabStates] /\ server \in ServerStates /\ expired \in Nat /\ lost \in Nat
  BY DEF PageInv, PageTypeOK
<1>3. call' \in [Tabs -> [Calls -> CallStates(old \cup names)]]
  <2>1. CallStates(old) \subseteq CallStates(old \cup names) /\ CallStates(names) \subseteq CallStates(old \cup names)
    BY DEF CallStates
  <2>2. k \in [Calls -> CallStates(old \cup names)] BY <2>1
  <2>3. call \in [Tabs -> [Calls -> CallStates(old \cup names)]]
    <3>1. [Calls -> CallStates(old)] \subseteq [Calls -> CallStates(old \cup names)] BY <2>1
    <3> QED BY <1>1, <3>1
  <2> QED BY <2>2, <2>3
<1>4. PageTypeOK' BY <1>2, <1>3 DEF PageTypeOK, Onwards
<1>5. ASSUME NEW u \in Tabs PROVE Sound(tab'[u], call'[u], server', expired', lost')
  <2>1. CASE u = t BY <1>1, <1>2, <2>1
  <2>2. CASE u # t
    <3>1. tab'[u] = tab[u] /\ call'[u] = call[u] BY <1>1, <1>2, <2>2
    <3>2. /\ tab[u] \in TabStates /\ call[u] \in [Calls -> CallStates(old)]
          /\ Sound(tab[u], call[u], server, expired, lost)
      BY <1>1, <1>2 DEF PageInv
    <3> QED BY <1>2, <3>1, <3>2, SoundLater
  <2> QED BY <2>1, <2>2
<1> QED BY <1>4, <1>5 DEF PageInv

\* What the invariant says of one tab
LEMMA TabFacts ==
    ASSUME PageInv, NEW t \in Tabs
    PROVE  /\ tab[t] \in TabStates /\ tab[t].flight \in Flights
           /\ \E names : call[t] \in [Calls -> CallStates(names)] /\ call \in [Tabs -> [Calls -> CallStates(names)]]
           /\ Sound(tab[t], call[t], server, expired, lost)
           /\ server \in ServerStates /\ expired \in Nat /\ lost \in Nat
           /\ stored.session \in Nat /\ stored.session <= server.issued
           /\ tab \in [Tabs -> TabStates]
BY DEF PageInv, PageTypeOK, TabStates

\* Nothing is lost while nothing that all share changes.
LEMMA StandsStill ==
    ASSUME PageInv
    PROVE  Onwards(server, expired, lost, server, expired, lost)
BY DEF PageInv, PageTypeOK, Onwards, ServerStates

\* A browser starts with no calls, and with the session it may have stored.
LEMMA PageStarts == Init => PageInv
<1> SUFFICES ASSUME Init PROVE PageInv OBVIOUS
<1>1. NewTab \in TabStates BY DEF NewTab, TabStates, NoFlight, Flights, NoSession
<1>2. NoCall \in CallStates({}) BY DEF NoCall, CallStates, NoSession
<1>3. /\ tab = [t \in Tabs |-> NewTab] /\ call = [t \in Tabs |-> [c \in Calls |-> NoCall]]
      /\ expired = 0 /\ lost = 0
  BY DEF Init, NoSession
<1>4. /\ server \in ServerStates /\ stored.session \in Nat /\ stored.session <= server.issued
      /\ stored = [session |-> stored.session, recent |-> stored.recent, profile |-> stored.profile]
  BY DEF Init, NoSession, ServerStates
<1>5. call \in [Tabs -> [Calls -> CallStates({})]] BY <1>2, <1>3
<1>6. PageTypeOK BY <1>1, <1>3, <1>4, <1>5 DEF PageTypeOK
<1>7. ASSUME NEW t \in Tabs PROVE Sound(tab[t], call[t], server, expired, lost)
  <2>1. tab[t] = NewTab /\ \A c \in Calls : call[t][c] = NoCall BY <1>3
  <2> QED BY <1>3, <1>4, <2>1
      DEF Sound, Issued, AsksInNeed, BringsNewer, CallsRight, ErrorsRight, NewTab, NoCall, NoFlight,
          NoSession, ServerStates
<1> QED BY <1>4, <1>6, <1>7 DEF PageInv

-----------------------------------------------------------------------------
(* A caller asks for a session.                                             *)

\* What the tab has after a caller has asked: it goes on as it was, or has taken the
\* stored session, or has begun to fetch one.
LEMMA EnsureGives ==
    ASSUME NEW b \in TabStates, NEW session \in Nat, NEW a \in EnsureNakamaSession(b, session),
           expired \in Nat
    PROVE  /\ a \in TabStates /\ a.error = b.error /\ a.open = b.open /\ a.loading = b.loading
           /\ \/ a = b
              \/ /\ b.flight = NoFlight /\ a.flight = NoFlight
                 /\ a.memory = session /\ session > expired
              \/ /\ b.flight = NoFlight /\ a.memory = b.memory /\ b.memory <= expired
                 /\ a.flight # NoFlight
                 /\ \/ a.flight.step = "create" /\ a.flight.session = NoSession
                    \/ a.flight.step = "refresh" /\ a.flight.session = session
<1> USE DEF NoSession
<1>1. CASE IsSessionUsable(b.memory) \/ b.flight # NoFlight
  <2>1. a = b BY <1>1 DEF EnsureNakamaSession
  <2> QED BY <2>1
<1>2. CASE ~IsSessionUsable(b.memory) /\ b.flight = NoFlight
  <2>1. a \in GetFreshSession(b, session) /\ b.memory <= expired
    BY <1>2 DEF EnsureNakamaSession, IsSessionUsable, TabStates
  <2>2. CASE IsSessionUsable(session)
    <3>1. a = [b EXCEPT !.memory = session] /\ session > expired
      BY <2>1, <2>2 DEF GetFreshSession, IsSessionUsable
    <3> QED BY <1>2, <3>1 DEF TabStates
  <2>3. CASE ~IsSessionUsable(session)
    <3>1. \/ a = [b EXCEPT !.flight = Flight("create")]
          \/ a = [b EXCEPT !.flight = [Flight("refresh") EXCEPT !.session = session]]
      BY <2>1, <2>3 DEF GetFreshSession
    <3>2. /\ Flight("create") \in Flights /\ Flight("create").step = "create"
          /\ Flight("create").session = 0 /\ Flight("create") # NoFlight
      BY DEF Flight, NoFlight, Flights
    <3> DEFINE r == [Flight("refresh") EXCEPT !.session = session]
    <3>3. r \in Flights /\ r.step = "refresh" /\ r.session = session /\ r # NoFlight
      BY DEF Flight, NoFlight, Flights
    <3> HIDE DEF r
    <3>4. CASE a = [b EXCEPT !.flight = Flight("create")]
      BY <1>2, <2>1, <3>2, <3>4 DEF TabStates
    <3>5. CASE a = [b EXCEPT !.flight = r]
      BY <1>2, <2>1, <3>3, <3>5 DEF TabStates
    <3> QED BY <3>1, <3>4, <3>5 DEF r
  <2> QED BY <2>2, <2>3
<1> QED BY <1>1, <1>2

\* A call that waits, or that has been refused only if the tab has dropped its session
\* and the stored one, is made under none but a newer session.
LEMMA AsksSound ==
    ASSUME PageInv, NEW t \in Tabs, NEW c \in Calls, NEW names,
           call[t] \in [Calls -> CallStates(names)],
           NEW b \in TabStates, b.flight = tab[t].flight, b.memory \in {tab[t].memory, NoSession},
           b.error \in {tab[t].error, "none"},
           NEW cl \in CallStates(names), NEW session \in Nat, session <= server.issued,
           cl.refused <= server.issued,
           cl.refused # NoSession => b.memory = NoSession /\ session = NoSession,
           tab[t].flight.step = "answer" => cl.refused < tab[t].flight.session,
           NEW a \in EnsureNakamaSession(b, session)
    PROVE  LET k == [call[t] EXCEPT ![c] = Proceeds(a, cl)]
           IN  /\ a \in TabStates /\ k \in [Calls -> CallStates(names)]
               /\ Sound(a, k, server, expired, lost)
<1> USE DEF NoSession
<1>1. /\ tab[t] \in TabStates /\ server \in ServerStates /\ expired \in Nat /\ lost \in Nat
      /\ Sound(tab[t], call[t], server, expired, lost)
  BY TabFacts
<1>2. /\ a \in TabStates /\ a.error = b.error
      /\ \/ a = b
         \/ /\ b.flight = NoFlight /\ a.flight = NoFlight
            /\ a.memory = session /\ session > expired
         \/ /\ b.flight = NoFlight /\ a.memory = b.memory /\ b.memory <= expired
            /\ a.flight # NoFlight
            /\ \/ a.flight.step = "create" /\ a.flight.session = 0
               \/ a.flight.step = "refresh" /\ a.flight.session = session
  BY <1>1, EnsureGives
<1> DEFINE d == Proceeds(a, cl)
           k == [call[t] EXCEPT ![c] = d]
<1>3. a.memory \in Nat /\ a.flight.session \in Nat /\ server.issued \in Nat /\ b.memory \in Nat
      /\ tab[t].memory \in Nat
  BY <1>1, <1>2 DEF TabStates, Flights, ServerStates
<1>4. /\ d \in CallStates(names) /\ d.refused = cl.refused
      /\ \/ d.step = "rpc" /\ d.session = a.memory /\ a.memory > expired
         \/ d.step = "session" /\ d.session = 0
  <2>1. CASE IsSessionUsable(a.memory)
    <3>1. d = [cl EXCEPT !.step = "rpc", !.session = a.memory] /\ a.memory > expired
      BY <2>1 DEF Proceeds, IsSessionUsable
    <3> HIDE DEF d
    <3> QED BY <1>3, <3>1 DEF CallStates
  <2>2. CASE ~IsSessionUsable(a.memory)
    <3>1. d = [cl EXCEPT !.step = "session", !.session = 0] BY <2>2 DEF Proceeds
    <3> HIDE DEF d
    <3> QED BY <3>1 DEF CallStates
  <2> QED BY <2>1, <2>2
<1>5. k \in [Calls -> CallStates(names)] BY <1>4
<1>6. \A e \in Calls : k[e] = IF e = c THEN d ELSE call[t][e] OBVIOUS
<1> HIDE DEF d, k
<1>7. Issued(a, k, server)
  <2>1. a.memory <= server.issued /\ a.flight.session <= server.issued
    BY <1>1, <1>2, <1>3 DEF Sound, Issued
  <2>2. d.session <= server.issued /\ d.refused <= server.issued BY <1>3, <1>4, <2>1
  <2> QED BY <1>1, <1>6, <2>1, <2>2 DEF Sound, Issued
<1>8. AsksInNeed(a, expired)
  <2>1. AsksInNeed(tab[t], expired) BY <1>1 DEF Sound
  <2>2. AsksInNeed(b, expired) BY <1>1, <1>3, <2>1 DEF AsksInNeed
  <2> QED BY <1>2, <2>2 DEF AsksInNeed, NoFlight
<1>9. BringsNewer(a, k)
  <2> SUFFICES ASSUME a.flight.step = "answer" PROVE BringsNewer(a, k) BY DEF BringsNewer
  <2>1. a.flight = tab[t].flight /\ a.flight # NoFlight BY <1>2 DEF NoFlight
  <2>2. a.memory <= expired BY <1>8, <2>1 DEF AsksInNeed
  <2>3. d.step # "rpc" BY <1>1, <1>3, <1>4, <2>2
  <2>4. d.refused < a.flight.session BY <1>4, <2>1
  <2> QED BY <1>1, <1>6, <2>1, <2>3, <2>4 DEF Sound, BringsNewer
<1>10. CallsRight(k)
  <2>1. d.step = "rpc" => d.session > 0 /\ d.refused = 0
    <3> SUFFICES ASSUME d.step = "rpc" PROVE d.session > 0 /\ d.refused = 0 OBVIOUS
    <3>1. a.memory > 0 BY <1>1, <1>3, <1>4
    <3>2. cl.refused # 0 => b.memory = 0 /\ session = 0 OBVIOUS
    <3> QED BY <1>1, <1>2, <1>4, <3>1, <3>2
  <2> QED BY <1>1, <1>6, <2>1 DEF Sound, CallsRight
<1>11. ErrorsRight(a, server, lost)
  <2>1. ErrorsRight(tab[t], server, lost) BY <1>1 DEF Sound
  <2>2. a.flight.step = "login" => a.flight = tab[t].flight BY <1>2
  <2> QED BY <1>2, <2>1, <2>2 DEF ErrorsRight
<1> QED BY <1>2, <1>5, <1>7, <1>8, <1>9, <1>10, <1>11 DEF Sound, k, d

\* A click
LEMMA StartsKeeps ==
    ASSUME PageInv, NEW t \in Tabs, NEW c \in Calls, NEW quick \in BOOLEAN, NEW code,
           Starts(t, c, quick, code)
    PROVE  PageInv'
<1> DEFINE b == [tab[t] EXCEPT !.loading = TRUE, !.error = "none"]
           cl == [NoCall EXCEPT !.mounted = TRUE, !.quick = quick, !.code = code]
<1>1. PICK names : call[t] \in [Calls -> CallStates(names)] /\ call \in [Tabs -> [Calls -> CallStates(names)]]
  BY TabFacts
<1>2. PICK a \in EnsureNakamaSession(b, stored.session) :
        tab' = [tab EXCEPT ![t] = a] /\ call' = [call EXCEPT ![t][c] = Proceeds(a, cl)]
  BY DEF Starts, Asks
<1>3. UNCHANGED <<stored, server, expired, lost>> BY DEF Starts
<1>4. /\ b \in TabStates /\ b.flight = tab[t].flight /\ b.memory = tab[t].memory /\ b.error = "none"
  BY TabFacts DEF TabStates
<1> DEFINE more == names \cup {code}
<1>5. cl \in CallStates(more) /\ cl.refused = NoSession
  BY DEF CallStates, NoCall, NoSession
<1>6. call[t] \in [Calls -> CallStates(more)]
  <2>1. CallStates(names) \subseteq CallStates(more) BY DEF CallStates
  <2> HIDE DEF more
  <2> QED BY <1>1, <2>1
<1>7. tab[t].flight.step = "answer" => NoSession < tab[t].flight.session
  BY TabFacts DEF Sound, BringsNewer, NoSession
<1>8. stored.session \in Nat /\ stored.session <= server.issued /\ NoSession <= server.issued
  BY TabFacts DEF NoSession, ServerStates
<1> HIDE DEF b, cl, more
<1> DEFINE k == [call[t] EXCEPT ![c] = Proceeds(a, cl)]
<1>9. /\ a \in TabStates /\ k \in [Calls -> CallStates(more)] /\ Sound(a, k, server, expired, lost)
  BY <1>4, <1>5, <1>6, <1>7, <1>8, AsksSound
<1>10. call' = [call EXCEPT ![t] = k] BY <1>1, <1>2
<1> HIDE DEF k
<1>11. stored' = [session |-> stored'.session, recent |-> stored'.recent,
                  profile |-> stored'.profile]
  BY <1>3 DEF PageInv, PageTypeOK
<1> QED BY <1>2, <1>3, <1>8, <1>9, <1>10, <1>11, StandsStill, OneTab

\* The first refusal: the session is dropped, and no copy of it is found again.
LEMMA RefusedKeeps ==
    ASSUME PageInv, NEW t \in Tabs, NEW c \in Calls, RpcRefused(t, c)
    PROVE  PageInv'
<1> USE DEF NoSession
<1> DEFINE b == [tab[t] EXCEPT !.memory = 0]
           cl == [call[t][c] EXCEPT !.refused = call[t][c].session]
<1>1. PICK names : call[t] \in [Calls -> CallStates(names)] /\ call \in [Tabs -> [Calls -> CallStates(names)]]
  BY TabFacts
<1>2. /\ stored' = [stored EXCEPT !.session = 0]
      /\ Asks(t, c, b, cl, 0)
      /\ UNCHANGED <<server, lost, expired>>
      /\ call[t][c].step = "rpc"
  BY DEF RpcRefused, ClearSessionCache, Held, Unmoved
<1>3. PICK a \in EnsureNakamaSession(b, 0) :
        tab' = [tab EXCEPT ![t] = a] /\ call' = [call EXCEPT ![t][c] = Proceeds(a, cl)]
  BY <1>2 DEF Asks
<1>4. /\ b \in TabStates /\ b.flight = tab[t].flight /\ b.memory = 0 /\ b.error = tab[t].error
  BY TabFacts DEF TabStates
<1>5. cl \in CallStates(names) /\ cl.refused = call[t][c].session
  BY <1>1 DEF CallStates
<1>6. /\ call[t][c].session <= server.issued
      /\ tab[t].flight.step = "answer" => call[t][c].session < tab[t].flight.session
  BY <1>2, TabFacts DEF Sound, Issued, BringsNewer
<1>7. 0 <= server.issued BY TabFacts DEF ServerStates
<1> HIDE DEF b, cl
<1> DEFINE k == [call[t] EXCEPT ![c] = Proceeds(a, cl)]
<1>8. /\ a \in TabStates /\ k \in [Calls -> CallStates(names)] /\ Sound(a, k, server, expired, lost)
  <2>1. /\ b.memory \in {tab[t].memory, NoSession} /\ b.error \in {tab[t].error, "none"}
        /\ cl.refused <= server.issued
        /\ cl.refused # NoSession => b.memory = NoSession /\ 0 = NoSession
        /\ tab[t].flight.step = "answer" => cl.refused < tab[t].flight.session
    BY <1>4, <1>5, <1>6
  <2>2. 0 \in Nat OBVIOUS
  <2> QED BY <1>1, <1>4, <1>5, <1>7, <2>1, <2>2, AsksSound
<1>9. call' = [call EXCEPT ![t] = k] BY <1>1, <1>3
<1> HIDE DEF k
<1>10. /\ stored' = [session |-> stored'.session, recent |-> stored'.recent,
                     profile |-> stored'.profile]
       /\ stored'.session = 0
  BY <1>2 DEF PageInv, PageTypeOK
<1> QED BY <1>2, <1>3, <1>7, <1>8, <1>9, <1>10, StandsStill, OneTab

-----------------------------------------------------------------------------
(* The request for a session.                                               *)

\* A tab changes, and its calls with it; what is stored does not.
LEMMA TabChanges ==
    ASSUME PageInv, NEW t \in Tabs, NEW a \in TabStates, NEW names,
           NEW k \in [Calls -> CallStates(names)],
           tab' = [tab EXCEPT ![t] = a], call' = [call EXCEPT ![t] = k], stored' = stored,
           Onwards(server, expired, lost, server', expired', lost'),
           Sound(a, k, server', expired', lost')
    PROVE  PageInv'
<1>1. /\ stored' = [session |-> stored'.session, recent |-> stored'.recent,
                    profile |-> stored'.profile]
      /\ stored'.session \in Nat /\ stored'.session <= server'.issued
  BY DEF PageInv, PageTypeOK, Onwards, ServerStates
<1> QED BY <1>1, OneTab

\* A request that is in the air moves on to another.
LEMMA FlightMoves ==
    ASSUME PageInv, NEW t \in Tabs, tab[t].flight.step # "none",
           NEW f \in Flights, f.step \in {"create", "insert", "login"},
           f.session \in {NoSession, tab[t].flight.session},
           tab' = [tab EXCEPT ![t].flight = f], call' = call, stored' = stored,
           Onwards(server, expired, lost, server', expired', lost'),
           f.step = "login" => server'.account \/ lost' > 0
    PROVE  PageInv'
<1> DEFINE a == [tab[t] EXCEPT !.flight = f]
<1>1. PICK names : call[t] \in [Calls -> CallStates(names)] /\ call \in [Tabs -> [Calls -> CallStates(names)]]
  BY TabFacts
<1>2. /\ a \in TabStates /\ a.flight = f /\ a.memory = tab[t].memory /\ a.error = tab[t].error
  BY TabFacts DEF TabStates
<1>3. tab' = [tab EXCEPT ![t] = a] /\ call' = [call EXCEPT ![t] = call[t]] BY <1>1
<1> HIDE DEF a
<1>4. Sound(tab[t], call[t], server, expired, lost) BY TabFacts
<1>5. Sound(tab[t], call[t], server', expired', lost')
  BY <1>1, <1>4, TabFacts, SoundLater
<1>6. server' \in ServerStates BY DEF Onwards
<1>7. Issued(a, call[t], server') BY <1>2, <1>5, <1>6 DEF Sound, Issued, NoSession, ServerStates
<1>8. AsksInNeed(a, expired')
  <2>1. tab[t].flight # NoFlight BY DEF NoFlight
  <2>2. tab[t].memory <= expired' BY <1>5, <2>1 DEF Sound, AsksInNeed
  <2> QED BY <1>2, <2>2 DEF AsksInNeed
<1>9. BringsNewer(a, call[t]) BY <1>2 DEF BringsNewer
<1>10. ErrorsRight(a, server', lost') BY <1>2, <1>5 DEF Sound, ErrorsRight
<1>11. Sound(a, call[t], server', expired', lost')
  BY <1>5, <1>7, <1>8, <1>9, <1>10 DEF Sound
<1> QED BY <1>1, <1>2, <1>3, <1>11, TabChanges

\* The server answers: its new session is newer than all there are.
LEMMA IssueKeeps ==
    ASSUME PageInv, NEW t \in Tabs, tab[t].flight.step # "none", Issue(t),
           NEW made \in BOOLEAN, server.account => made,
           server' = [server EXCEPT !.account = made, !.issued = @ + 1],
           UNCHANGED <<call, stored, expired, lost>>
    PROVE  PageInv'
<1> DEFINE n == server.issued + 1
           f == [Flight("answer") EXCEPT !.session = n]
           a == [tab[t] EXCEPT !.flight = f]
<1>1. PICK names : call[t] \in [Calls -> CallStates(names)] /\ call \in [Tabs -> [Calls -> CallStates(names)]]
  BY TabFacts
<1>2. server \in ServerStates /\ server.issued \in Nat BY TabFacts DEF ServerStates
<1>0. n \in Nat BY <1>2
<1>3. f \in Flights /\ f.step = "answer" /\ f.session = n
  <2> HIDE DEF n
  <2> QED BY <1>0 DEF Flight, NoFlight, Flights
<1>4. tab' = [tab EXCEPT ![t] = a] /\ call' = [call EXCEPT ![t] = call[t]]
  BY <1>1 DEF Issue
<1> HIDE DEF f
<1>5. /\ a \in TabStates /\ a.flight = f /\ a.memory = tab[t].memory /\ a.error = tab[t].error
  BY <1>3, TabFacts DEF TabStates
<1> HIDE DEF a
<1>6. /\ server' \in ServerStates /\ server'.issued = server.issued + 1
      /\ server'.revoked = server.revoked /\ (server.account => server'.account)
  <2>1. server' = [server EXCEPT !.account = made, !.issued = n] OBVIOUS
  <2> HIDE DEF n
  <2>2. /\ server' \in ServerStates /\ server'.issued = n /\ server'.revoked = server.revoked
        /\ server'.account = made
    BY <1>0, <1>2, <2>1 DEF ServerStates
  <2> QED BY <2>2 DEF n
<1>7. Onwards(server, expired, lost, server', expired', lost')
  BY <1>2, <1>6, TabFacts DEF Onwards, ServerStates
<1>8. Sound(tab[t], call[t], server, expired, lost) BY TabFacts
<1>9. Sound(tab[t], call[t], server', expired', lost')
  BY <1>1, <1>7, <1>8, TabFacts, SoundLater
<1>10. Issued(a, call[t], server')
  BY <1>2, <1>3, <1>5, <1>6, <1>9 DEF Sound, Issued
<1>11. AsksInNeed(a, expired')
  <2>1. tab[t].flight # NoFlight BY DEF NoFlight
  <2>2. tab[t].memory <= expired' BY <1>9, <2>1 DEF Sound, AsksInNeed
  <2> QED BY <1>3, <1>5, <2>2 DEF AsksInNeed
<1>12. BringsNewer(a, call[t])
  <2>1. \A c \in Calls : call[t][c].session \in Nat /\ call[t][c].refused \in Nat
    BY <1>1 DEF CallStates
  <2>2. \A c \in Calls : call[t][c].session <= server.issued /\ call[t][c].refused <= server.issued
    BY <1>8 DEF Sound, Issued
  <2> QED BY <1>2, <1>3, <1>5, <2>1, <2>2 DEF BringsNewer
<1>13. ErrorsRight(a, server', lost') BY <1>3, <1>5, <1>9 DEF Sound, ErrorsRight
<1>14. Sound(a, call[t], server', expired', lost')
  BY <1>9, <1>10, <1>11, <1>12, <1>13 DEF Sound
<1> QED BY <1>1, <1>4, <1>5, <1>7, <1>14, TabChanges

\* A refresh has failed: what the tab held and what was stored is dropped.
LEMMA RefreshFailsKeeps ==
    ASSUME PageInv, NEW t \in Tabs, RefreshFails(t)
    PROVE  PageInv'
<1> USE DEF NoSession
<1> DEFINE f == Flight("create")
           a == [tab[t] EXCEPT !.flight = f, !.memory = 0]
<1>1. PICK names : call[t] \in [Calls -> CallStates(names)] /\ call \in [Tabs -> [Calls -> CallStates(names)]]
  BY TabFacts
<1>2. /\ tab[t].flight.step = "refresh" /\ (lost' = lost \/ lost' = lost + 1)
      /\ tab' = [tab EXCEPT ![t].flight = f, ![t].memory = 0]
      /\ stored' = [stored EXCEPT !.session = 0]
      /\ UNCHANGED <<call, server, expired>>
  BY DEF RefreshFails, ClearSessionCache, Held, Unmoved, Loses
<1>3. f \in Flights /\ f.step = "create" /\ f.session = 0
  BY DEF Flight, NoFlight, Flights
<1> HIDE DEF f
<1>4. tab' = [tab EXCEPT ![t] = a] /\ call' = [call EXCEPT ![t] = call[t]]
  BY <1>1, <1>2, TabFacts
<1>5. /\ a \in TabStates /\ a.flight = f /\ a.memory = 0 /\ a.error = tab[t].error
  BY <1>3, TabFacts DEF TabStates
<1> HIDE DEF a
<1>6. Onwards(server, expired, lost, server', expired', lost')
  BY <1>2, TabFacts DEF Onwards, ServerStates
<1>7. Sound(tab[t], call[t], server', expired', lost')
  BY <1>1, <1>6, TabFacts, SoundLater
<1>8. server' \in ServerStates /\ expired' \in Nat BY <1>6 DEF Onwards
<1>9. Sound(a, call[t], server', expired', lost')
  BY <1>3, <1>5, <1>7, <1>8
     DEF Sound, Issued, AsksInNeed, BringsNewer, ErrorsRight, ServerStates
<1>10. /\ stored' = [session |-> stored'.session, recent |-> stored'.recent,
                     profile |-> stored'.profile]
       /\ stored'.session = 0
  BY <1>2 DEF PageInv, PageTypeOK
<1>11. stored'.session \in Nat /\ stored'.session <= server'.issued BY <1>8, <1>10 DEF ServerStates
<1> QED BY <1>1, <1>4, <1>5, <1>6, <1>9, <1>10, <1>11, OneTab

\* The request has failed for good: who waits for it is told, and something was lost.
LEMMA FlightFailsKeeps ==
    ASSUME PageInv, NEW t \in Tabs, tab[t].flight.step # "none", FlightFails(t), lost' > 0,
           lost' = lost \/ lost' = lost + 1, UNCHANGED <<stored, server, expired>>
    PROVE  PageInv'
<1> DEFINE told == \E c \in Calls : call[t][c].step = "session" /\ call[t][c].mounted
           a == Fails([tab[t] EXCEPT !.flight = NoFlight], told, "signin")
           k == [c \in Calls |-> IF call[t][c].step = "session" THEN NoCall ELSE call[t][c]]
<1>1. PICK names : call[t] \in [Calls -> CallStates(names)] /\ call \in [Tabs -> [Calls -> CallStates(names)]]
  BY TabFacts
<1>2. tab' = [tab EXCEPT ![t] = a] /\ call' = [call EXCEPT ![t] = k]
  BY <1>1, TabFacts DEF FlightFails
<1>3. NoFlight \in Flights /\ NoCall \in CallStates(names)
  BY DEF NoFlight, Flights, NoCall, CallStates, NoSession
<1>4. /\ a \in TabStates /\ a.flight = NoFlight /\ a.memory = tab[t].memory
      /\ a.error \in {tab[t].error, "signin"}
  BY <1>3, TabFacts DEF TabStates, Fails
<1>5. k \in [Calls -> CallStates(names)]
      /\ \A c \in Calls : k[c] = NoCall \/ k[c] = call[t][c]
  BY <1>1, <1>3
<1> HIDE DEF a, k
<1>6. Onwards(server, expired, lost, server', expired', lost')
  BY TabFacts DEF Onwards, ServerStates
<1>7. Sound(tab[t], call[t], server', expired', lost')
  BY <1>1, <1>6, TabFacts, SoundLater
<1>8. server' \in ServerStates BY <1>6 DEF Onwards
<1>9. Sound(a, k, server', expired', lost')
  BY <1>4, <1>5, <1>7, <1>8
     DEF Sound, Issued, AsksInNeed, BringsNewer, CallsRight, ErrorsRight, ServerStates, NoFlight,
         NoCall, NoSession
<1> QED BY <1>1, <1>2, <1>4, <1>5, <1>6, <1>9, TabChanges

\* The session lands: it is newer than those that its callers were refused with.
LEMMA FlightLandsKeeps ==
    ASSUME PageInv, NEW t \in Tabs, FlightLands(t)
    PROVE  PageInv'
<1> DEFINE s == tab[t].flight.session
           a == [tab[t] EXCEPT !.memory = s, !.flight = NoFlight]
           k == Serve(t, call[t])
<1>1. PICK names : call[t] \in [Calls -> CallStates(names)] /\ call \in [Tabs -> [Calls -> CallStates(names)]]
  BY TabFacts
<1>2. /\ tab[t].flight.step = "answer"
      /\ tab' = [tab EXCEPT ![t] = a] /\ call' = [call EXCEPT ![t] = k]
      /\ stored' = [stored EXCEPT !.session = s] /\ UNCHANGED <<server, expired, lost>>
  BY <1>1, TabFacts DEF FlightLands, Unmoved
<1>3. s \in Nat /\ s > 0 /\ s <= server.issued
  BY <1>2, TabFacts DEF Flights, Sound, BringsNewer, Issued
<1>4. NoFlight \in Flights BY DEF NoFlight, Flights, NoSession
<1>5. \A c \in Calls :
        IF call[t][c].step = "session"
        THEN k[c] = [call[t][c] EXCEPT !.step = "rpc", !.session = s]
        ELSE k[c] = call[t][c]
  BY DEF Serve
<1>6. k = [c \in Calls |-> k[c]] BY DEF Serve
<1> HIDE DEF k, s
<1>7. /\ a \in TabStates /\ a.flight = NoFlight /\ a.memory = s /\ a.error = tab[t].error
  BY <1>3, <1>4, TabFacts DEF TabStates
<1>8. \A c \in Calls :
        /\ k[c] \in CallStates(names) /\ k[c].refused = call[t][c].refused
        /\ k[c] = call[t][c] \/ (k[c].step = "rpc" /\ k[c].session = s)
  <2> TAKE c \in Calls
  <2>1. call[t][c] \in CallStates(names) BY <1>1
  <2>2. CASE call[t][c].step = "session"
    <3>1. k[c] = [call[t][c] EXCEPT !.step = "rpc", !.session = s] BY <1>5, <2>2
    <3> QED BY <1>3, <2>1, <3>1 DEF CallStates
  <2>3. CASE call[t][c].step # "session" BY <1>5, <2>1, <2>3
  <2> QED BY <2>2, <2>3
<1>9. k \in [Calls -> CallStates(names)] BY <1>6, <1>8
<1> HIDE DEF a
<1>10. Sound(tab[t], call[t], server, expired, lost) BY TabFacts
<1>11. Issued(a, k, server)
  <2>1. server.issued \in Nat BY TabFacts DEF ServerStates
  <2>2. a.flight.session = 0 BY <1>7 DEF NoFlight, NoSession
  <2> QED BY <1>3, <1>7, <1>8, <1>10, <2>1, <2>2 DEF Sound, Issued
<1>12. AsksInNeed(a, expired) /\ BringsNewer(a, k)
  BY <1>7 DEF AsksInNeed, BringsNewer, NoFlight
<1>13. CallsRight(k)
  <2>1. \A c \in Calls : call[t][c].refused < s
    BY <1>2, <1>10 DEF Sound, BringsNewer, s
  <2> QED BY <1>3, <1>8, <1>10, <2>1 DEF Sound, CallsRight
<1>14. ErrorsRight(a, server, lost) BY <1>7, <1>10 DEF Sound, ErrorsRight, NoFlight
<1>15. Sound(a, k, server, expired, lost) BY <1>10, <1>11, <1>12, <1>13, <1>14 DEF Sound
<1>16. /\ stored' = [session |-> stored'.session, recent |-> stored'.recent,
                     profile |-> stored'.profile]
       /\ stored'.session = s
  BY <1>2 DEF PageInv, PageTypeOK
<1> QED BY <1>2, <1>3, <1>7, <1>9, <1>15, <1>16, StandsStill, OneTab

\* Every step of the request
LEMMA FlightKeeps ==
    ASSUME PageInv, NEW t \in Tabs, FlightGoesOn(t)
    PROVE  PageInv'
<1> USE DEF NoSession
<1>1. server \in ServerStates /\ expired \in Nat /\ lost \in Nat BY TabFacts
<1>2. lost' = lost \/ lost' = lost + 1 => lost' \in Nat /\ lost' >= lost BY <1>1
<1>3. ASSUME NEW step \in {"create", "insert", "login"}, NEW n \in Nat
      PROVE  /\ [Flight(step) EXCEPT !.tries = n] \in Flights /\ [Flight(step) EXCEPT !.tries = n].step = step
             /\ [Flight(step) EXCEPT !.tries = n].session = 0
             /\ Flight(step) \in Flights /\ Flight(step).step = step /\ Flight(step).session = 0
  BY DEF Flight, NoFlight, Flights
<1>4. CASE RefreshAnswered(t) \/ LoginAnswered(t) \/ (CreateLooks(t) /\ server.account)
  <2>1. /\ tab[t].flight.step # "none" /\ Issue(t)
        /\ server' = [server EXCEPT !.issued = @ + 1] /\ UNCHANGED <<call, stored, expired, lost>>
    BY <1>4 DEF RefreshAnswered, LoginAnswered, CreateLooks, Unmoved
  <2>2. server' = [server EXCEPT !.account = server.account, !.issued = @ + 1] /\ server.account \in BOOLEAN
    BY <1>1, <2>1 DEF ServerStates
  <2> QED BY <2>1, <2>2, IssueKeeps
<1>5. CASE CreateInserts(t)
  <2>1. /\ tab[t].flight.step # "none" /\ Issue(t)
        /\ server' = [server EXCEPT !.account = TRUE, !.issued = @ + 1]
        /\ UNCHANGED <<call, stored, expired, lost>>
    BY <1>5 DEF CreateInserts, Unmoved
  <2> QED BY <2>1, IssueKeeps
<1>6. CASE RefreshFails(t) BY <1>6, RefreshFailsKeeps
<1>7. CASE CreateLooks(t) /\ ~server.account
  <2>1. /\ tab[t].flight.step # "none" /\ tab' = [tab EXCEPT ![t].flight = Flight("insert")]
        /\ UNCHANGED <<server, call, stored, expired, lost>>
    BY <1>7 DEF CreateLooks, Unmoved
  <2>2. Flight("insert") \in Flights /\ Flight("insert").step = "insert" /\ Flight("insert").session = 0
    BY <1>3
  <2> QED BY <2>1, <2>2, StandsStill, FlightMoves
<1>8. CASE CreateRefused(t) \/ CreateLost(t)
  <2> DEFINE f == [Flight("login") EXCEPT !.tries = 1]
  <2>1. /\ tab[t].flight.step # "none" /\ tab' = [tab EXCEPT ![t].flight = f]
        /\ UNCHANGED <<call, stored, expired>>
    BY <1>8 DEF CreateRefused, CreateLost, CreateFails, Unmoved
  <2>2. f \in Flights /\ f.step = "login" /\ f.session = 0 BY <1>3
  <2>3. \/ server' = server /\ lost' = lost /\ server.account
        \/ lost' = lost + 1 /\ \E made \in BOOLEAN : server' = [server EXCEPT !.account = @ \/ made]
    BY <1>8 DEF CreateRefused, CreateLost, Loses
  <2> HIDE DEF f
  <2>4. CASE server' = server /\ lost' = lost /\ server.account
    BY <2>1, <2>2, <2>4, StandsStill, FlightMoves
  <2>5. CASE lost' = lost + 1 /\ \E made \in BOOLEAN : server' = [server EXCEPT !.account = @ \/ made]
    <3>1. PICK made \in BOOLEAN : server' = [server EXCEPT !.account = @ \/ made] BY <2>5
    <3>2. /\ server' \in ServerStates /\ server'.issued = server.issued
          /\ server'.revoked = server.revoked /\ (server.account => server'.account)
      BY <1>1, <3>1 DEF ServerStates
    <3>3. Onwards(server, expired, lost, server', expired', lost')
      BY <1>1, <2>1, <2>5, <3>2 DEF Onwards, ServerStates
    <3>4. lost' > 0 BY <1>1, <2>5
    <3> QED BY <2>1, <2>2, <3>3, <3>4, FlightMoves
  <2> QED BY <2>3, <2>4, <2>5
<1>9. CASE LoginFails(t)
  <2>1. /\ tab[t].flight.step = "login" /\ UNCHANGED <<stored, server, expired>>
        /\ (~server.account /\ lost' = lost) \/ lost' = lost + 1
    BY <1>9 DEF LoginFails, Loses, Unmoved
  <2>2. server.account \/ lost > 0
    BY <2>1, TabFacts DEF Sound, ErrorsRight
  <2>3. lost' > 0 BY <1>1, <2>1, <2>2
  <2>4. CASE FlightFails(t) BY <2>1, <2>3, <2>4, FlightFailsKeeps
  <2>5. CASE tab' = [tab EXCEPT ![t].flight.tries = @ + 1] /\ UNCHANGED call
    <3> DEFINE f == [tab[t].flight EXCEPT !.tries = @ + 1]
    <3>1. tab' = [tab EXCEPT ![t].flight = f] BY <2>5
    <3>2. tab[t].flight \in Flights BY TabFacts
    <3>3. f \in Flights /\ f.step = "login" /\ f.session = tab[t].flight.session
      <4>1. tab[t].flight.tries + 1 \in Nat BY <3>2 DEF Flights
      <4> QED BY <2>1, <3>2, <4>1 DEF Flights
    <3> HIDE DEF f
    <3>4. Onwards(server, expired, lost, server', expired', lost')
      BY <1>1, <2>1 DEF Onwards, ServerStates
    <3> QED BY <2>1, <2>3, <2>5, <3>1, <3>3, <3>4, FlightMoves
  <2> QED BY <1>9, <2>4, <2>5 DEF LoginFails
<1>10. CASE FlightLands(t) BY <1>10, FlightLandsKeeps
<1> QED BY <1>4, <1>5, <1>6, <1>7, <1>8, <1>9, <1>10 DEF FlightGoesOn, CreateLooks

-----------------------------------------------------------------------------
(* The calls, and the page.                                                 *)

\* Calls end, or go on as they were, and the tab keeps its session and its request.
LEMMA CallsEnd ==
    ASSUME PageInv, NEW t \in Tabs, NEW a \in TabStates,
           a.flight = tab[t].flight, a.memory = tab[t].memory,
           a.error \in {tab[t].error, "none", "call"}
              \/ (a.error = "refused" /\ server.revoked # NoSession),
           NEW names, NEW k \in [Calls -> CallStates(names)],
           \A c \in Calls :
              \/ k[c] = NoCall
              \/ /\ k[c].step = call[t][c].step /\ k[c].session = call[t][c].session
                 /\ k[c].refused = call[t][c].refused,
           tab' = [tab EXCEPT ![t] = a], call' = [call EXCEPT ![t] = k],
           UNCHANGED <<server, expired, lost>>,
           stored' = [session |-> stored.session, recent |-> stored'.recent,
                      profile |-> stored'.profile]
    PROVE  PageInv'
<1> USE DEF NoSession
<1>1. /\ Sound(tab[t], call[t], server, expired, lost) /\ server \in ServerStates
      /\ stored.session \in Nat /\ stored.session <= server.issued
  BY TabFacts
<1>2. Issued(a, k, server) BY <1>1 DEF Sound, Issued, ServerStates, NoCall
<1>3. AsksInNeed(a, expired) BY <1>1 DEF Sound, AsksInNeed
<1>4. BringsNewer(a, k) BY <1>1 DEF Sound, BringsNewer, NoCall
<1>5. CallsRight(k) BY <1>1 DEF Sound, CallsRight, NoCall
<1>6. ErrorsRight(a, server, lost) BY <1>1 DEF Sound, ErrorsRight
<1>7. Sound(a, k, server, expired, lost) BY <1>2, <1>3, <1>4, <1>5, <1>6 DEF Sound
<1>8. stored'.session = stored.session OBVIOUS
<1>9. stored' = [session |-> stored'.session, recent |-> stored'.recent,
                 profile |-> stored'.profile]
  BY <1>8
<1>10. stored'.session \in Nat /\ stored'.session <= server.issued BY <1>1, <1>8
<1> QED BY <1>7, <1>9, <1>10, StandsStill, OneTab

\* What was stored still has its three parts.
LEMMA StoredParts ==
    ASSUME PageInv
    PROVE  stored = [session |-> stored.session, recent |-> stored.recent, profile |-> stored.profile]
BY DEF PageInv, PageTypeOK

\* The tab enters a table.
LEMMA AnsweredKeeps ==
    ASSUME PageInv, NEW t \in Tabs, NEW c \in Calls, RpcAnswered(t, c)
    PROVE  PageInv'
<1> DEFINE a == Left(tab[t])
           j == [call[t] EXCEPT ![c] = NoCall]
           k == Orphaned(j)
<1>1. PICK names : call[t] \in [Calls -> CallStates(names)] /\ call \in [Tabs -> [Calls -> CallStates(names)]]
  BY TabFacts
<1>2. PICK recent, profile : stored' = [stored EXCEPT !.recent = recent, !.profile = profile]
  BY DEF RpcAnswered
<1>3. /\ tab' = [tab EXCEPT ![t] = a] /\ call' = [call EXCEPT ![t] = k]
      /\ UNCHANGED <<server, expired, lost>>
  BY <1>1, TabFacts DEF RpcAnswered
<1>4. /\ a \in TabStates /\ a.flight = tab[t].flight /\ a.memory = tab[t].memory /\ a.error = "none"
  BY TabFacts DEF Left, TabStates
<1>5. NoCall \in CallStates(names) BY DEF NoCall, CallStates, NoSession
<1>6. j \in [Calls -> CallStates(names)] /\ \A d \in Calls : j[d] = NoCall \/ j[d] = call[t][d]
  BY <1>1, <1>5
<1> HIDE DEF j
<1>7. ASSUME NEW d \in Calls
      PROVE  /\ k[d] \in CallStates(names)
             /\ k[d] = NoCall \/ (/\ k[d].step = call[t][d].step /\ k[d].session = call[t][d].session
                                  /\ k[d].refused = call[t][d].refused)
  <2>1. CASE j[d] = NoCall
    <3>1. k[d] = NoCall BY <2>1 DEF Orphaned
    <3> QED BY <1>5, <3>1
  <2>2. CASE j[d] # NoCall
    <3>1. k[d] = [call[t][d] EXCEPT !.mounted = FALSE] BY <1>6, <2>2 DEF Orphaned
    <3>2. call[t][d] \in CallStates(names) BY <1>1
    <3> QED BY <3>1, <3>2 DEF CallStates
  <2> QED BY <2>1, <2>2
<1>8. k \in [Calls -> CallStates(names)]
  <2>1. k = [d \in Calls |-> k[d]] BY DEF Orphaned
  <2> QED BY <1>7, <2>1
<1>9. stored' = [session |-> stored.session, recent |-> stored'.recent, profile |-> stored'.profile]
  BY <1>2, StoredParts
<1> HIDE DEF a, k
<1> QED BY <1>3, <1>4, <1>7, <1>8, <1>9, CallsEnd

\* A call fails.
LEMMA FailsKeeps ==
    ASSUME PageInv, NEW t \in Tabs, NEW c \in Calls, RpcFails(t, c)
    PROVE  PageInv'
<1>1. PICK names : call[t] \in [Calls -> CallStates(names)] /\ call \in [Tabs -> [Calls -> CallStates(names)]]
  BY TabFacts
<1>2. PICK error \in {"refused", "call"} :
        /\ error = "refused" => ~Accepts(call[t][c].session) /\ call[t][c].refused # NoSession
        /\ tab' = [tab EXCEPT ![t] = Fails(@, call[t][c].mounted, error)]
  BY DEF RpcFails
<1> DEFINE a == Fails(tab[t], call[t][c].mounted, error)
           k == [call[t] EXCEPT ![c] = NoCall]
<1>3. /\ call' = [call EXCEPT ![t] = k] /\ tab' = [tab EXCEPT ![t] = a]
      /\ UNCHANGED <<stored, server, expired, lost>> /\ call[t][c].step = "rpc"
  BY <1>1, <1>2, TabFacts DEF RpcFails, Unmoved
<1>4. /\ a \in TabStates /\ a.flight = tab[t].flight /\ a.memory = tab[t].memory
      /\ a.error \in {tab[t].error, error}
  BY TabFacts DEF Fails, TabStates
<1>5. NoCall \in CallStates(names) BY DEF NoCall, CallStates, NoSession
<1>6. k \in [Calls -> CallStates(names)] /\ \A d \in Calls : k[d] = NoCall \/ k[d] = call[t][d]
  BY <1>1, <1>5
<1>7. error = "refused" => server.revoked # NoSession
  <2> SUFFICES ASSUME error = "refused" PROVE server.revoked # 0 BY DEF NoSession
  <2>1. call[t][c].session \in Nat /\ server.revoked \in Nat
    BY <1>1, TabFacts DEF CallStates, ServerStates
  <2>2. call[t][c].session > 0 BY <1>3, TabFacts DEF Sound, CallsRight
  <2>3. ~(call[t][c].session > server.revoked) BY <1>2 DEF Accepts
  <2> QED BY <2>1, <2>2, <2>3
<1>8. a.error \in {tab[t].error, "none", "call"} \/ (a.error = "refused" /\ server.revoked # NoSession)
  BY <1>4, <1>7
<1>9. stored' = [session |-> stored.session, recent |-> stored'.recent, profile |-> stored'.profile]
  BY <1>3, StoredParts
<1> HIDE DEF a, k
<1> QED BY <1>3, <1>4, <1>6, <1>8, <1>9, CallsEnd

\* The page is opened or left.
LEMMA PageKeeps ==
    ASSUME PageInv, NEW t \in Tabs, OpenLobby(t) \/ LeaveLobby(t)
    PROVE  PageInv'
<1>1. PICK names : call[t] \in [Calls -> CallStates(names)] /\ call \in [Tabs -> [Calls -> CallStates(names)]]
  BY TabFacts
<1>2. UNCHANGED <<stored, server, expired, lost>> BY DEF OpenLobby, LeaveLobby, Unmoved
<1>3. stored' = [session |-> stored.session, recent |-> stored'.recent, profile |-> stored'.profile]
  BY <1>2, StoredParts
<1>4. CASE OpenLobby(t)
  <2> DEFINE a == Mounted(tab[t])
  <2>1. tab' = [tab EXCEPT ![t] = a] /\ call' = [call EXCEPT ![t] = call[t]]
    BY <1>1, <1>4 DEF OpenLobby
  <2>2. /\ a \in TabStates /\ a.flight = tab[t].flight /\ a.memory = tab[t].memory
        /\ a.error = "none"
    BY TabFacts DEF Mounted, TabStates
  <2> HIDE DEF a
  <2> QED BY <1>1, <1>2, <1>3, <2>1, <2>2, CallsEnd
<1>5. CASE LeaveLobby(t)
  <2> DEFINE a == Left(tab[t])
             k == Orphaned(call[t])
  <2>1. tab' = [tab EXCEPT ![t] = a] /\ call' = [call EXCEPT ![t] = k]
    BY <1>1, <1>5, TabFacts DEF LeaveLobby
  <2>2. /\ a \in TabStates /\ a.flight = tab[t].flight /\ a.memory = tab[t].memory
        /\ a.error = "none"
    BY TabFacts DEF Left, TabStates
  <2>3. ASSUME NEW d \in Calls
        PROVE  /\ k[d] \in CallStates(names)
               /\ k[d].step = call[t][d].step /\ k[d].session = call[t][d].session
               /\ k[d].refused = call[t][d].refused
    <3>1. call[t][d] \in CallStates(names) BY <1>1
    <3>2. k[d] = call[t][d] \/ k[d] = [call[t][d] EXCEPT !.mounted = FALSE] BY DEF Orphaned
    <3> QED BY <3>1, <3>2 DEF CallStates
  <2>4. k \in [Calls -> CallStates(names)]
    <3>1. k = [d \in Calls |-> k[d]] BY DEF Orphaned
    <3> QED BY <2>3, <3>1
  <2> HIDE DEF a, k
  <2>5. \A d \in Calls :
           \/ k[d] = NoCall
           \/ /\ k[d].step = call[t][d].step /\ k[d].session = call[t][d].session
              /\ k[d].refused = call[t][d].refused
    BY <2>3
  <2>6. a.error \in {tab[t].error, "none", "call"} BY <2>2
  <2> QED BY <1>2, <1>3, <2>1, <2>2, <2>4, <2>5, <2>6, CallsEnd
<1> QED BY <1>4, <1>5

\* The modules are loaded again.
LEMMA ReloadKeeps ==
    ASSUME PageInv, NEW t \in Tabs, Reload(t)
    PROVE  PageInv'
<1> DEFINE k == [c \in Calls |-> NoCall]
<1>1. /\ tab' = [tab EXCEPT ![t] = NewTab] /\ call' = [call EXCEPT ![t] = k]
      /\ UNCHANGED <<stored, server, expired, lost>>
  BY DEF Reload, Unmoved
<1>2. NewTab \in TabStates BY DEF NewTab, TabStates, NoFlight, Flights, NoSession
<1>3. k \in [Calls -> CallStates({})] BY DEF NoCall, CallStates, NoSession
<1>4. Sound(NewTab, k, server, expired, lost)
  <2>1. server \in ServerStates /\ expired \in Nat BY TabFacts
  <2> QED BY <2>1
      DEF Sound, Issued, AsksInNeed, BringsNewer, CallsRight, ErrorsRight, NewTab, NoCall, NoFlight,
          NoSession, ServerStates
<1> HIDE DEF k
<1> QED BY <1>1, <1>2, <1>3, <1>4, StandsStill, TabChanges

\* A session expires, or the server refuses those it has issued.
LEMMA OutsideKeeps ==
    ASSUME PageInv, SessionExpires \/ Revoke
    PROVE  PageInv'
<1>1. server \in ServerStates /\ expired \in Nat /\ lost \in Nat BY DEF PageInv, PageTypeOK
<1>2. UNCHANGED <<tab, call, stored, lost>> BY DEF SessionExpires, Revoke, Unmoved
<1>3. /\ server' \in ServerStates /\ expired' \in Nat /\ server'.issued = server.issued
      /\ Onwards(server, expired, lost, server', expired', lost')
  <2>1. CASE SessionExpires
    BY <1>1, <1>2, <2>1 DEF SessionExpires, Onwards, ServerStates
  <2>2. CASE Revoke
    <3>1. server' = [server EXCEPT !.revoked = server.issued] /\ expired' = expired
          /\ server.revoked < server.issued
      BY <2>2 DEF Revoke, Unmoved
    <3> QED BY <1>1, <1>2, <3>1 DEF Onwards, ServerStates
  <2> QED BY <2>1, <2>2
<1>4. PageTypeOK'
  BY <1>2, <1>3 DEF PageInv, PageTypeOK
<1>5. ASSUME NEW t \in Tabs PROVE Sound(tab[t], call[t], server', expired', lost')
  <2>1. PICK names : call[t] \in [Calls -> CallStates(names)] BY TabFacts
  <2>2. tab[t] \in TabStates /\ Sound(tab[t], call[t], server, expired, lost) BY TabFacts
  <2> QED BY <1>1, <1>3, <2>1, <2>2, SoundLater
<1> QED BY <1>2, <1>3, <1>4, <1>5 DEF PageInv

\* Every step
LEMMA PageStep == PageInv /\ [Next]_vars => PageInv'
<1> SUFFICES ASSUME PageInv, [Next]_vars PROVE PageInv' OBVIOUS
<1>1. CASE UNCHANGED vars BY <1>1 DEF vars, PageInv, PageTypeOK
<1>2. CASE SessionExpires \/ Revoke BY <1>2, OutsideKeeps
<1>3. ASSUME NEW t \in Tabs, FlightGoesOn(t) \/ OpenLobby(t) \/ LeaveLobby(t) \/ Reload(t)
      PROVE  PageInv'
  BY <1>3, FlightKeeps, PageKeeps, ReloadKeeps
<1>4. ASSUME NEW t \in Tabs, NEW c \in Calls,
             HandleQuickPlay(t, c) \/ HandleJoinByCode(t, c) \/ HandleJoinRecent(t, c)
      PROVE  PageInv'
  <2>1. \E quick \in BOOLEAN : \E code : Starts(t, c, quick, code)
    BY <1>4 DEF HandleQuickPlay, HandleJoinByCode, HandleJoinRecent
  <2> QED BY <2>1, StartsKeeps
<1>5. ASSUME NEW t \in Tabs, NEW c \in Calls, RpcEnds(t, c) PROVE PageInv'
  BY <1>5, AnsweredKeeps, RefusedKeeps, FailsKeeps DEF RpcEnds
<1> QED BY <1>1, <1>2, <1>3, <1>4, <1>5 DEF Next

\* The invariant holds.
LEMMA PageHolds == Spec => []PageInv
BY PageStarts, PageStep, PTL DEF Spec

\* For any tabs and calls, whatever expires, is revoked or gets lost: a call that was
\* refused is never made again under the session it was refused with, nor an older one
\* (clearSessionCache before ensureNakamaSession in callNakamaRpc).
THEOREM NoSessionIsRetried == Spec => []RefusedIsNotReused
<1>1. PageInv => RefusedIsNotReused
  BY DEF PageInv, Sound, CallsRight, RefusedIsNotReused
<1> QED BY <1>1, PageHolds, PTL

\* For any tabs of a browser, and however many sign in at once: no call fails for want of
\* a session unless a request was lost, nor as refused unless the server has revoked a
\* session (authenticateDeviceWithRetries, callNakamaRpc).
THEOREM PageErrorsHaveCauses == Spec => []ErrorsHaveCauses
<1>1. PageInv => ErrorsHaveCauses
  BY DEF PageInv, Sound, ErrorsRight, ErrorsHaveCauses
<1> QED BY <1>1, PageHolds, PTL

-----------------------------------------------------------------------------
(* What the tabs remember.  The least of a set, filters, and what comes     *)
(* first in a sequence.                                                     *)

\* Min is the least element of a set of naturals that is not empty.
LEMMA LeastOf ==
    ASSUME NEW S \in SUBSET Nat, S # {}
    PROVE  Min(S) \in S /\ \A y \in S : Min(S) <= y
<1> DEFINE R == {p \in Nat \X Nat : p[1] < p[2]}
<1>1. IsWellFoundedOn(R, Nat)
  BY NatLessThanWellFounded DEF OpToRel
<1>2. \E x \in S : \A y \in S : ~ (<<y, x>> \in R)
  <2> HIDE DEF R
  <2> QED BY <1>1, WFMin
<1>3. PICK x \in S : \A y \in S : ~ (<<y, x>> \in R) BY <1>2
<1>4. ASSUME NEW y \in S PROVE x <= y
  <2>1. x \in Nat /\ y \in Nat OBVIOUS
  <2>2. <<y, x>> \in R <=> y < x BY <2>1
  <2> QED BY <1>3, <2>1, <2>2
<1> QED BY <1>4 DEF Min

\* That one is the only one.
LEMMA LeastIs ==
    ASSUME NEW S \in SUBSET Nat, NEW x \in S, \A y \in S : x <= y
    PROVE  Min(S) = x
<1>1. Min(S) \in S /\ Min(S) <= x BY LeastOf
<1>2. Min(S) \in Nat /\ x \in Nat /\ x <= Min(S) BY <1>1
<1> QED BY <1>1, <1>2

\* The smaller of two numbers
LEMMA SmallerOf ==
    ASSUME NEW a \in Nat, NEW b \in Nat
    PROVE  Min({a, b}) = IF a <= b THEN a ELSE b
<1>1. CASE a <= b BY <1>1, LeastIs
<1>2. CASE ~(a <= b)
  <2>1. b <= a /\ b \in {a, b} /\ {a, b} \in SUBSET Nat BY <1>2
  <2>2. \A y \in {a, b} : b <= y BY <2>1
  <2> QED BY <1>2, <2>1, <2>2, LeastIs
<1> QED BY <1>1, <1>2

\* The members of a finite set of numbers, counted in their order: the n-th is the one
\* with n members up to itself.
LEMMA Counted ==
    ASSUME NEW L \in Nat, NEW kept \in SUBSET (1..L)
    PROVE  LET m == Cardinality(kept)
               nth == [n \in 1..m |-> CHOOSE i \in kept : Cardinality({j \in kept : j <= i}) = n]
           IN  /\ m \in Nat /\ m <= L
               /\ \A n \in 1..m : nth[n] \in kept
               /\ \A n, o \in 1..m : n < o => nth[n] < nth[o]
               /\ \A i \in kept : \E n \in 1..m : nth[n] = i
<1> DEFINE upto(i) == {j \in kept : j <= i}
           m == Cardinality(kept)
           nth == [n \in 1..m |-> CHOOSE i \in kept : Cardinality({j \in kept : j <= i}) = n]
           rank == [i \in kept |-> Cardinality(upto(i))]
<1>1. IsFiniteSet(1..L) /\ Cardinality(1..L) = L
  <2>1. 0 \in Nat OBVIOUS
  <2> QED BY FS_Interval
<1>2. IsFiniteSet(kept) /\ m <= L BY <1>1, FS_Subset
<1>3. m \in Nat BY <1>2, FS_CardinalityType
<1>4. ASSUME NEW i \in kept
      PROVE  /\ upto(i) \in SUBSET kept /\ IsFiniteSet(upto(i))
             /\ rank[i] = Cardinality(upto(i)) /\ rank[i] \in 1..m
  <2>1. upto(i) \in SUBSET kept OBVIOUS
  <2>2. IsFiniteSet(upto(i)) /\ Cardinality(upto(i)) <= m BY <1>2, <2>1, FS_Subset
  <2>3. Cardinality(upto(i)) \in Nat BY <2>2, FS_CardinalityType
  <2>4. i \in upto(i) OBVIOUS
  <2>5. Cardinality(upto(i)) # 0
    <3>1. upto(i) # {} BY <2>4
    <3> HIDE DEF upto
    <3> QED BY <2>2, <3>1, FS_EmptySet
  <2>6. Cardinality(upto(i)) \in 1..m BY <1>3, <2>2, <2>3, <2>5
  <2> QED BY <2>1, <2>2, <2>6
<1>5. ASSUME NEW i \in kept, NEW k \in kept, i < k PROVE rank[i] < rank[k]
  <2>1. upto(i) \in SUBSET upto(k)
    <3>1. \A j \in kept : j \in Nat OBVIOUS
    <3>2. i \in Nat /\ k \in Nat BY <3>1
    <3>3. \A j \in kept : j <= i => j <= k BY <1>5, <3>1, <3>2
    <3> QED BY <3>3
  <2>2. k \in upto(k) /\ k \notin upto(i) BY <1>5
  <2>3. Cardinality(upto(i)) <= Cardinality(upto(k)) /\ Cardinality(upto(i)) # Cardinality(upto(k))
    <3>1. IsFiniteSet(upto(k)) BY <1>4
    <3> HIDE DEF upto
    <3> QED BY <2>1, <2>2, <3>1, FS_Subset
  <2>4. rank[i] = Cardinality(upto(i)) /\ rank[k] = Cardinality(upto(k))
        /\ rank[i] \in Nat /\ rank[k] \in Nat
    BY <1>4
  <2> HIDE DEF rank, upto
  <2> QED BY <2>3, <2>4
<1>6. rank \in Injection(kept, 1..m)
  <2>1. rank \in [kept -> 1..m]
    <3>1. rank = [i \in kept |-> rank[i]] OBVIOUS
    <3> QED BY <1>4, <3>1
  <2>2. ASSUME NEW i \in kept, NEW k \in kept, rank[i] = rank[k] PROVE i = k
    <3>1. i \in Nat /\ k \in Nat /\ rank[i] \in Nat /\ rank[k] \in Nat BY <1>4
    <3>2. ~(i < k) /\ ~(k < i) BY <1>5, <2>2, <3>1
    <3> QED BY <3>1, <3>2
  <2> HIDE DEF rank
  <2> QED BY <2>1, <2>2 DEF Injection, IsInjective
<1>7. rank \in Surjection(kept, 1..m)
  <2>1. IsFiniteSet(1..m) /\ Cardinality(1..m) = m BY <1>3, FS_Interval
  <2> HIDE DEF rank, m
  <2>2. Cardinality(kept) = Cardinality(1..m) BY <2>1 DEF m
  <2> QED BY <1>6, <2>1, <2>2, FS_Injection
<1>8. ASSUME NEW n \in 1..m PROVE nth[n] \in kept /\ rank[nth[n]] = n
  <2>1. PICK i \in kept : rank[i] = n
    <3> HIDE DEF rank, m
    <3> QED BY <1>7 DEF Surjection
  <2>2. Cardinality(upto(i)) = n BY <1>4, <2>1
  <2>3. nth[n] \in kept /\ Cardinality({j \in kept : j <= nth[n]}) = n BY <2>2
  <2> QED BY <2>3
<1>9. ASSUME NEW n \in 1..m, NEW o \in 1..m, n < o PROVE nth[n] < nth[o]
  <2>1. n \in Nat /\ o \in Nat BY <1>3
  <2>2. PICK i \in kept : i = nth[n] /\ rank[i] = n BY <1>8
  <2>3. PICK k \in kept : k = nth[o] /\ rank[k] = o BY <1>8
  <2> HIDE DEF rank, nth, m
  <2>4. i \in Nat /\ k \in Nat OBVIOUS
  <2>5. i # k BY <1>9, <2>1, <2>2, <2>3
  <2>6. ~(k < i)
    <3> SUFFICES ASSUME k < i PROVE FALSE OBVIOUS
    <3>1. rank[k] < rank[i] BY <1>5
    <3> QED BY <1>9, <2>1, <2>2, <2>3, <3>1
  <2> QED BY <2>2, <2>3, <2>4, <2>5, <2>6
<1>10. ASSUME NEW i \in kept PROVE \E n \in 1..m : nth[n] = i
  <2>1. rank[i] \in 1..m BY <1>4
  <2>2. nth[rank[i]] \in kept /\ rank[nth[rank[i]]] = rank[i] BY <1>8, <2>1
  <2>3. nth[rank[i]] = i
    <3> HIDE DEF rank, nth, m
    <3> QED BY <1>6, <2>2 DEF Injection, IsInjective
  <2> QED BY <2>1, <2>3
<1>11. /\ m \in Nat /\ m <= L
       /\ \A n \in 1..m : nth[n] \in kept
       /\ \A n, o \in 1..m : n < o => nth[n] < nth[o]
       /\ \A i \in kept : \E n \in 1..m : nth[n] = i
  <2> HIDE DEF m, nth, rank, upto
  <2> QED BY <1>2, <1>3, <1>8, <1>9, <1>10
<1> QED BY <1>11

\* Where each of the tables other than code comes from: they are in the same order, and
\* all are there.
Selects(others, tables, code) ==
    \E from \in [1..Len(others) -> DOMAIN tables] :
        /\ \A n \in 1..Len(others) : others[n] = tables[from[n]] /\ others[n] # code
        /\ \A n, o \in 1..Len(others) : n < o => from[n] < from[o]
        /\ \A i \in DOMAIN tables : tables[i] # code => \E n \in 1..Len(others) : from[n] = i

\* The tables other than code are selected; a list without repetitions loses one at most.
LEMMA OthersAre ==
    ASSUME NEW T, NEW tables \in Seq(T), NEW code
    PROVE  LET others == Others(tables, code) IN
           /\ others \in Seq(T)
           /\ (\A i, j \in DOMAIN tables : tables[i] = tables[j] => i = j)
                 => Len(others) >= Len(tables) - 1
           /\ Len(others) <= Len(tables)
           /\ Selects(others, tables, code)
<1> DEFINE L == Len(tables)
           kept == {i \in DOMAIN tables : tables[i] # code}
           m == Cardinality(kept)
           from == [n \in 1..m |-> CHOOSE i \in kept : Cardinality({j \in kept : j <= i}) = n]
           others == Others(tables, code)
<1>1. L \in Nat /\ DOMAIN tables = 1..L /\ \A i \in 1..L : tables[i] \in T
  OBVIOUS
<1>2. kept \in SUBSET (1..L) BY <1>1
<1>3. /\ m \in Nat /\ m <= L
      /\ \A n \in 1..m : from[n] \in kept
      /\ \A n, o \in 1..m : n < o => from[n] < from[o]
      /\ \A i \in kept : \E n \in 1..m : from[n] = i
  <2> HIDE DEF kept
  <2> QED BY <1>1, <1>2, Counted
<1>4. others = [n \in 1..m |-> tables[from[n]]] BY DEF Others
<1>5. from \in [1..m -> DOMAIN tables]
  <2>1. \A n \in 1..m : from[n] \in DOMAIN tables BY <1>3
  <2> DEFINE nth(n) == CHOOSE i \in kept : Cardinality({j \in kept : j <= i}) = n
  <2>2. from = [n \in 1..m |-> from[n]]
    <3>1. from = [n \in 1..m |-> nth(n)] OBVIOUS
    <3>2. \A n \in 1..m : from[n] = nth(n) OBVIOUS
    <3> HIDE DEF from, nth
    <3> QED BY <3>1, <3>2
  <2> HIDE DEF from
  <2> QED BY <2>1, <2>2
<1>6. \A i \in DOMAIN tables : i \in kept <=> tables[i] # code OBVIOUS
<1>7. ASSUME \A i, j \in DOMAIN tables : tables[i] = tables[j] => i = j PROVE m >= L - 1
  <2>1. IsFiniteSet(1..L) /\ Cardinality(1..L) = L
    <3>1. 1 \in Int /\ L \in Int BY <1>1
    <3> HIDE DEF L
    <3>2. IsFiniteSet(1..L) /\ Cardinality(1..L) = IF 1 > L THEN 0 ELSE L - 1 + 1
      BY <3>1, FS_Interval
    <3> QED BY <1>1, <3>2
  <2>2. CASE \A i \in DOMAIN tables : tables[i] # code
    <3>1. kept = 1..L BY <1>1, <2>2
    <3>2. m = L BY <2>1, <3>1
    <3> HIDE DEF m, L
    <3> QED BY <1>1, <3>2
  <2>3. CASE \E i \in DOMAIN tables : tables[i] = code
    <3>1. PICK k \in DOMAIN tables : tables[k] = code BY <2>3
    <3>2. kept = (1..L) \ {k} BY <1>1, <1>7, <3>1
    <3>3. k \in 1..L BY <1>1, <3>1
    <3>4. Cardinality((1..L) \ {k}) = L - 1
      <4> HIDE DEF L
      <4> QED BY <2>1, <3>3, FS_RemoveElement
    <3>5. m = L - 1 BY <3>2, <3>4
    <3> HIDE DEF m, L
    <3> QED BY <1>1, <3>5
  <2> QED BY <2>2, <2>3
<1> HIDE DEF kept, m, from, others
<1>8. others \in Seq(T) /\ Len(others) = m
  <2>1. \A n \in 1..m : tables[from[n]] \in T BY <1>1, <1>5
  <2>2. others \in [1..m -> T] BY <1>4, <2>1
  <2> QED BY <1>3, <2>2
<1>9. \A n \in 1..m : others[n] = tables[from[n]] /\ others[n] # code
  BY <1>3, <1>4, <1>5, <1>6
<1>10. /\ \A n \in 1..m : others[n] = tables[from[n]] /\ others[n] # code
       /\ \A n, o \in 1..m : n < o => from[n] < from[o]
       /\ \A i \in DOMAIN tables : tables[i] # code => \E n \in 1..m : from[n] = i
  BY <1>3, <1>6, <1>9
<1>11. Selects(others, tables, code) BY <1>5, <1>8, <1>10 DEF Selects
<1> QED BY <1>3, <1>7, <1>8, <1>11 DEF L, others

\* upsertRecentTable: the table first, then the others in their order.
LEMMA UpsertIs ==
    ASSUME NEW T, NEW tables \in Seq(T), NEW code \in T
    PROVE  LET others == Others(tables, code)
               after == UpsertRecentTable(tables, code)
           IN  /\ after \in Seq(T) /\ Len(others) \in Nat
               /\ Len(after) = IF MaxRecent <= 1 + Len(others) THEN MaxRecent ELSE 1 + Len(others)
               /\ Len(after) >= 1 /\ after[1] = code
               /\ \A n \in 2..Len(after) : after[n] = others[n - 1] /\ n - 1 \in 1..Len(others)
<1> DEFINE others == Others(tables, code)
           all == <<code>> \o others
           size == Min({MaxRecent, 1 + Len(others)})
<1>1. others \in Seq(T) /\ Len(others) \in Nat
  <2>1. others \in Seq(T) BY OthersAre
  <2> HIDE DEF others
  <2> QED BY <2>1
<1>2. /\ all \in Seq(T) /\ Len(all) = 1 + Len(others) /\ all[1] = code
      /\ \A n \in 2..1 + Len(others) : all[n] = others[n - 1]
  <2> HIDE DEF others
  <2>1. <<code>> \in Seq(T) /\ Len(<<code>>) = 1 /\ <<code>>[1] = code OBVIOUS
  <2>2. /\ all \in Seq(T) /\ Len(all) = 1 + Len(others)
        /\ \A i \in 1..1 + Len(others) : all[i] = IF i <= 1 THEN <<code>>[i] ELSE others[i - 1]
    BY <1>1, <2>1, ConcatProperties
  <2> HIDE DEF all
  <2> QED BY <1>1, <2>1, <2>2
<1>3. size = IF MaxRecent <= 1 + Len(others) THEN MaxRecent ELSE 1 + Len(others)
  <2> HIDE DEF others
  <2> QED BY <1>1, LobbyPageConstants, SmallerOf
<1>4. size \in Nat /\ size >= 1 /\ size <= Len(all)
  <2> HIDE DEF others, all, size
  <2> QED BY <1>1, <1>2, <1>3, LobbyPageConstants
<1> DEFINE after == SubSeq(all, 1, size)
<1>5. /\ after \in Seq(T) /\ Len(after) = size
      /\ \A n \in 1..size : after[n] = all[n]
  <2> HIDE DEF others, all, size
  <2>1. \A i \in 1..size : all[i] \in T BY <1>2, <1>4
  <2> QED BY <1>4, <2>1, SubSeqProperties
<1>6. UpsertRecentTable(tables, code) = after BY DEF UpsertRecentTable
<1>7. after[1] = code /\ \A n \in 2..Len(after) : after[n] = others[n - 1] /\ n - 1 \in 1..Len(others)
  <2> HIDE DEF others, all, size, after
  <2> QED BY <1>1, <1>2, <1>4, <1>5
<1> HIDE DEF all, size, after
<1> QED BY <1>1, <1>3, <1>4, <1>5, <1>6, <1>7

-----------------------------------------------------------------------------
(* The invariant of what the tabs remember.                                 *)

\* An entry: a table, whether by a quick play, and its buy-in
Entries == [code : Codes, quick : BOOLEAN, buyIn : BuyIns]

\* The tables entered in e, the newest entry of each, and the quick plays.
Sites(e, code) == {i \in DOMAIN e : e[i].code = code}
First(e, code) == Min(Sites(e, code))
Entered(e) == {e[i].code : i \in DOMAIN e}
Quick(e) == {i \in DOMAIN e : e[i].quick}

\* The list has the newest tables of e, in their order, and stops where it is full.
RecentRight(e, recent) ==
    /\ recent \in Seq(Codes) /\ Len(recent) <= MaxRecent
    /\ \A i \in DOMAIN recent : recent[i] \in Entered(e)
    /\ \A i, j \in DOMAIN recent : i < j => First(e, recent[i]) < First(e, recent[j])
    /\ \A code \in Entered(e) : (\A i \in DOMAIN recent : recent[i] # code) =>
          /\ Len(recent) = MaxRecent
          /\ \A i \in DOMAIN recent : First(e, recent[i]) < First(e, code)

\* A profile, by its parts
Profile(buyIn, resolves, joins) == [buyIn |-> buyIn, resolves |-> resolves, joins |-> joins]

\* It counts the entries of e, and has the buy-in of the latest quick play.
ProfileRight(e, profile) ==
    /\ profile = Profile(profile.buyIn, profile.resolves, profile.joins)
    /\ profile.joins = Len(e) /\ profile.resolves = Cardinality(Quick(e))
    /\ profile.buyIn = IF Quick(e) = {} THEN DefaultBuyIn ELSE e[Min(Quick(e))].buyIn

\* What is stored agrees with what was entered.
Memory ==
    /\ entered \in Seq(Entries)
    /\ RecentRight(entered, stored.recent)
    /\ ProfileRight(entered, stored.profile)

\* Each table that was entered has a newest entry.
LEMMA FirstIs ==
    ASSUME NEW e \in Seq(Entries), NEW code \in Entered(e)
    PROVE  /\ First(e, code) \in DOMAIN e /\ First(e, code) \in Nat /\ First(e, code) >= 1
           /\ e[First(e, code)].code = code
           /\ \A i \in DOMAIN e : e[i].code = code => First(e, code) <= i
<1>1. DOMAIN e = 1..Len(e) /\ Len(e) \in Nat OBVIOUS
<1>2. Sites(e, code) \in SUBSET Nat /\ Sites(e, code) # {} BY <1>1 DEF Sites, Entered
<1>3. First(e, code) \in Sites(e, code) /\ \A i \in Sites(e, code) : First(e, code) <= i
  BY <1>2, LeastOf DEF First
<1>4. First(e, code) \in DOMAIN e /\ e[First(e, code)].code = code BY <1>3 DEF Sites
<1>5. \A i \in DOMAIN e : e[i].code = code => First(e, code) <= i BY <1>3 DEF Sites
<1>6. First(e, code) \in Nat /\ First(e, code) >= 1 BY <1>1, <1>4
<1> QED BY <1>4, <1>5, <1>6

\* A new entry comes before all others.
LEMMA EntryComesFirst ==
    ASSUME NEW e \in Seq(Entries), NEW x \in Entries
    PROVE  LET f == <<x>> \o e IN
           /\ f \in Seq(Entries) /\ Len(f) = Len(e) + 1 /\ DOMAIN f = 1..Len(e) + 1
           /\ f[1] = x /\ \A i \in DOMAIN e : i + 1 \in DOMAIN f /\ f[i + 1] = e[i]
           /\ \A j \in DOMAIN f : j # 1 => j - 1 \in DOMAIN e /\ f[j] = e[j - 1]
<1> DEFINE f == <<x>> \o e
<1>1. DOMAIN e = 1..Len(e) /\ Len(e) \in Nat OBVIOUS
<1>2. <<x>> \in Seq(Entries) /\ Len(<<x>>) = 1 /\ <<x>>[1] = x OBVIOUS
<1>3. /\ f \in Seq(Entries) /\ Len(f) = 1 + Len(e)
      /\ \A i \in 1..1 + Len(e) : f[i] = IF i <= 1 THEN <<x>>[i] ELSE e[i - 1]
  BY <1>2, ConcatProperties
<1>4. DOMAIN f = 1..Len(f) BY <1>3
<1> HIDE DEF f
<1>5. Len(f) = Len(e) + 1 /\ DOMAIN f = 1..Len(e) + 1 /\ f[1] = x BY <1>1, <1>2, <1>3, <1>4
<1>6. \A i \in DOMAIN e : i + 1 \in DOMAIN f /\ f[i + 1] = e[i] BY <1>1, <1>3, <1>5
<1>7. \A j \in DOMAIN f : j # 1 => j - 1 \in DOMAIN e /\ f[j] = e[j - 1] BY <1>1, <1>3, <1>5
<1> QED BY <1>3, <1>5, <1>6, <1>7 DEF f

\* The newest entries when one for the table c has come before e: it is the one of its
\* table, and the others move by one.
Moved(e, f, c) ==
    /\ Entered(f) = Entered(e) \cup {c} /\ First(f, c) = 1
    /\ \A code \in Entered(e) : code # c => First(f, code) = First(e, code) + 1

\* So it is with every new entry.
LEMMA FirstMoves ==
    ASSUME NEW e \in Seq(Entries), NEW x \in Entries
    PROVE  Moved(e, <<x>> \o e, x.code)
<1> DEFINE f == <<x>> \o e
<1>1. /\ f \in Seq(Entries) /\ Len(f) = Len(e) + 1 /\ DOMAIN f = 1..Len(e) + 1 /\ Len(e) \in Nat
      /\ f[1] = x /\ \A i \in DOMAIN e : i + 1 \in DOMAIN f /\ f[i + 1] = e[i]
      /\ \A j \in DOMAIN f : j # 1 => j - 1 \in DOMAIN e /\ f[j] = e[j - 1]
  BY EntryComesFirst
<1> HIDE DEF f
<1>2. DOMAIN e \subseteq Nat /\ 1 \in DOMAIN f /\ DOMAIN f \subseteq Nat BY <1>1
<1>3. Entered(f) = Entered(e) \cup {x.code}
  <2>1. ASSUME NEW j \in DOMAIN f PROVE f[j].code \in Entered(e) \cup {x.code}
    BY <1>1 DEF Entered
  <2>2. ASSUME NEW i \in DOMAIN e PROVE e[i].code \in Entered(f)
    BY <1>1 DEF Entered
  <2>3. x.code \in Entered(f) BY <1>1, <1>2 DEF Entered
  <2> QED BY <2>1, <2>2, <2>3 DEF Entered
<1>4. First(f, x.code) = 1
  <2>1. x.code \in Entered(f) BY <1>3
  <2>2. First(f, x.code) \in Nat /\ First(f, x.code) >= 1 /\ First(f, x.code) <= 1
    BY <1>1, <1>2, <2>1, FirstIs
  <2> QED BY <2>2
<1>5. ASSUME NEW code \in Entered(e), code # x.code PROVE First(f, code) = First(e, code) + 1
  <2>1. code \in Entered(f) BY <1>3
  <2>2. /\ First(e, code) \in DOMAIN e /\ First(e, code) \in Nat
        /\ e[First(e, code)].code = code
        /\ \A i \in DOMAIN e : e[i].code = code => First(e, code) <= i
    BY FirstIs
  <2>3. /\ First(f, code) \in DOMAIN f /\ First(f, code) \in Nat
        /\ f[First(f, code)].code = code
        /\ \A i \in DOMAIN f : f[i].code = code => First(f, code) <= i
    BY <1>1, <2>1, FirstIs
  <2>4. First(f, code) <= First(e, code) + 1 BY <1>1, <2>2, <2>3
  <2>5. First(f, code) # 1 BY <1>1, <1>5, <2>3
  <2>6. First(e, code) <= First(f, code) - 1 BY <1>1, <2>2, <2>3, <2>5
  <2> QED BY <2>2, <2>3, <2>4, <2>6
<1>6. Moved(e, f, x.code) BY <1>3, <1>4, <1>5 DEF Moved
<1> QED BY <1>6 DEF f

\* The list is right again after a table has been entered.
LEMMA RecentStaysRight ==
    ASSUME NEW e \in Seq(Entries), NEW recent, RecentRight(e, recent), NEW x \in Entries
    PROVE  RecentRight(<<x>> \o e, UpsertRecentTable(recent, x.code))
<1> DEFINE f == <<x>> \o e
           c == x.code
           others == Others(recent, c)
           after == UpsertRecentTable(recent, c)
<1>1. c \in Codes /\ recent \in Seq(Codes) /\ Len(recent) \in Nat /\ DOMAIN recent = 1..Len(recent)
  <2>1. recent \in Seq(Codes) BY DEF RecentRight
  <2> QED BY <2>1 DEF Entries
<1>2. /\ Entered(f) = Entered(e) \cup {c} /\ First(f, c) = 1
      /\ \A code \in Entered(e) : code # c => First(f, code) = First(e, code) + 1
  <2>1. Moved(e, f, c) BY FirstMoves
  <2> HIDE DEF f, c
  <2> QED BY <2>1 DEF Moved
<1>3. \A code \in Entered(e) : First(e, code) \in Nat /\ First(e, code) >= 1 BY FirstIs
<1>4. \A i, j \in DOMAIN recent : recent[i] = recent[j] => i = j
  <2> SUFFICES ASSUME NEW i \in DOMAIN recent, NEW j \in DOMAIN recent, recent[i] = recent[j]
               PROVE  i = j
    OBVIOUS
  <2>1. i \in Nat /\ j \in Nat BY <1>1
  <2>2. recent[i] \in Entered(e) BY DEF RecentRight
  <2>3. First(e, recent[i]) \in Nat BY <1>3, <2>2
  <2>4. ~(i < j) /\ ~(j < i) BY <2>3 DEF RecentRight
  <2> QED BY <2>1, <2>4
<1>5. Len(others) >= Len(recent) - 1 /\ Len(others) <= Len(recent)
  BY <1>1, <1>4, OthersAre
<1>6. PICK from \in [1..Len(others) -> DOMAIN recent] :
         /\ \A n \in 1..Len(others) : others[n] = recent[from[n]] /\ others[n] # c
         /\ \A n, o \in 1..Len(others) : n < o => from[n] < from[o]
         /\ \A i \in DOMAIN recent : recent[i] # c => \E n \in 1..Len(others) : from[n] = i
  <2>1. Selects(others, recent, c) BY <1>1, OthersAre
  <2> HIDE DEF others, c
  <2> QED BY <2>1 DEF Selects
<1>7. /\ after \in Seq(Codes) /\ Len(others) \in Nat
      /\ Len(after) = IF MaxRecent <= 1 + Len(others) THEN MaxRecent ELSE 1 + Len(others)
      /\ Len(after) >= 1 /\ after[1] = c
      /\ \A n \in 2..Len(after) : after[n] = others[n - 1] /\ n - 1 \in 1..Len(others)
  BY <1>1, UpsertIs
<1>8. MaxRecent \in Nat /\ Len(after) \in Nat /\ DOMAIN after = 1..Len(after)
  <2> HIDE DEF after
  <2> QED BY <1>7, LobbyPageConstants
<1>9. Len(after) <= MaxRecent
  <2> HIDE DEF after, others
  <2> QED BY <1>7, <1>8
<1> HIDE DEF f, c, others, after
\* An entry of the new list, other than the first.
<1>10. ASSUME NEW n \in DOMAIN after, n # 1
       PROVE  /\ n - 1 \in 1..Len(others) /\ from[n - 1] \in DOMAIN recent
              /\ after[n] = recent[from[n - 1]] /\ after[n] # c
              /\ after[n] \in Entered(e) /\ First(f, after[n]) = First(e, after[n]) + 1
              /\ First(e, after[n]) \in Nat /\ First(e, after[n]) >= 1
  <2>1. n \in 2..Len(after) BY <1>8, <1>10
  <2>2. after[n] = others[n - 1] /\ n - 1 \in 1..Len(others) BY <1>7, <2>1
  <2>3. /\ from[n - 1] \in DOMAIN recent /\ after[n] = recent[from[n - 1]]
        /\ after[n] # c
    BY <1>6, <2>2
  <2>4. after[n] \in Entered(e) BY <2>3 DEF RecentRight
  <2> QED BY <1>2, <1>3, <2>2, <2>3, <2>4
<1>11. ASSUME NEW i \in DOMAIN after PROVE after[i] \in Entered(f)
  BY <1>2, <1>7, <1>10
<1>12. ASSUME NEW i \in DOMAIN after, NEW j \in DOMAIN after, i < j
       PROVE  First(f, after[i]) < First(f, after[j])
  <2>1. i \in Nat /\ j \in Nat /\ i >= 1 /\ j # 1 BY <1>8, <1>12
  <2>2. CASE i = 1 BY <1>2, <1>7, <1>10, <2>1, <2>2
  <2>3. CASE i # 1
    <3>1. i - 1 < j - 1 BY <1>12, <2>1
    <3>2. from[i - 1] < from[j - 1] BY <1>6, <1>10, <2>1, <2>3, <3>1
    <3>3. /\ from[i - 1] \in DOMAIN recent /\ from[j - 1] \in DOMAIN recent
          /\ after[i] = recent[from[i - 1]] /\ after[j] = recent[from[j - 1]]
      BY <1>10, <2>1, <2>3
    <3>4. First(e, after[i]) < First(e, after[j]) BY <3>2, <3>3 DEF RecentRight
    <3>5. /\ First(f, after[i]) = First(e, after[i]) + 1 /\ First(e, after[i]) \in Nat
          /\ First(f, after[j]) = First(e, after[j]) + 1 /\ First(e, after[j]) \in Nat
      BY <1>10, <2>1, <2>3
    <3> QED BY <3>4, <3>5
  <2> QED BY <2>2, <2>3
<1>13. ASSUME NEW code \in Entered(f), \A i \in DOMAIN after : after[i] # code
       PROVE  /\ Len(after) = MaxRecent
              /\ \A i \in DOMAIN after : First(f, after[i]) < First(f, code)
  <2>1. code # c /\ code \in Entered(e)
    <3>1. 1 \in DOMAIN after BY <1>7, <1>8
    <3> QED BY <1>2, <1>7, <1>13, <3>1
  <2>2. /\ First(f, code) = First(e, code) + 1 /\ First(e, code) \in Nat /\ First(e, code) >= 1
    BY <1>2, <1>3, <2>1
  <2>3. Len(after) = MaxRecent /\ \A i \in DOMAIN after : i # 1 => First(e, after[i]) < First(e, code)
    <3>1. CASE \E i \in DOMAIN recent : recent[i] = code
      <4>1. PICK i \in DOMAIN recent : recent[i] = code BY <3>1
      <4>2. PICK n \in 1..Len(others) : from[n] = i BY <1>6, <2>1, <4>1
      <4>3. n + 1 \notin DOMAIN after
        <5> SUFFICES ASSUME n + 1 \in DOMAIN after PROVE FALSE OBVIOUS
        <5>1. n \in Nat /\ n >= 1 /\ n + 1 # 1 /\ (n + 1) - 1 = n BY <1>7
        <5>2. after[n + 1] = recent[from[n]] BY <1>10, <5>1
        <5> QED BY <1>13, <4>1, <4>2, <5>2
      <4>4. Len(after) < n + 1 /\ n \in Nat /\ n <= Len(others) BY <1>7, <1>8, <4>3
      <4>5. Len(after) = MaxRecent BY <1>7, <1>8, <4>4
      <4>6. ASSUME NEW k \in DOMAIN after, k # 1 PROVE First(e, after[k]) < First(e, code)
        <5>1. /\ k - 1 \in 1..Len(others) /\ from[k - 1] \in DOMAIN recent
              /\ after[k] = recent[from[k - 1]]
          BY <1>10, <4>6
        <5>2. k - 1 < n BY <1>8, <4>4
        <5>3. from[k - 1] < i BY <1>6, <4>2, <5>1, <5>2
        <5> QED BY <4>1, <5>1, <5>3 DEF RecentRight
      <4> QED BY <4>5, <4>6
    <3>2. CASE \A i \in DOMAIN recent : recent[i] # code
      <4>1. /\ Len(recent) = MaxRecent
            /\ \A i \in DOMAIN recent : First(e, recent[i]) < First(e, code)
        BY <2>1, <3>2 DEF RecentRight
      <4>2. Len(after) = MaxRecent BY <1>1, <1>5, <1>7, <1>8, <4>1
      <4>3. ASSUME NEW k \in DOMAIN after, k # 1 PROVE First(e, after[k]) < First(e, code)
        <5>1. from[k - 1] \in DOMAIN recent /\ after[k] = recent[from[k - 1]] BY <1>10, <4>3
        <5> QED BY <4>1, <5>1
      <4> QED BY <4>2, <4>3
    <3> QED BY <3>1, <3>2
  <2>4. ASSUME NEW i \in DOMAIN after PROVE First(f, after[i]) < First(f, code)
    <3>1. CASE i = 1 BY <1>2, <1>7, <2>2, <3>1
    <3>2. CASE i # 1
      <4>1. First(f, after[i]) = First(e, after[i]) + 1 /\ First(e, after[i]) \in Nat BY <1>10, <3>2
      <4>2. First(e, after[i]) < First(e, code) BY <2>3, <3>2
      <4> QED BY <2>2, <4>1, <4>2
    <3> QED BY <3>1, <3>2
  <2> QED BY <2>3, <2>4
<1>14. RecentRight(f, after) BY <1>7, <1>9, <1>11, <1>12, <1>13 DEF RecentRight
<1> QED BY <1>14 DEF f, after, c

\* What recordTableJoin and recordQuickPlayResolved make of a profile
LEMMA ProfileParts ==
    ASSUME NEW b, NEW r, NEW j, NEW buyIn
    PROVE  /\ RecordTableJoin(Profile(b, r, j), buyIn)
                 = Profile(IF buyIn \in BuyIns THEN buyIn ELSE b, r, j + 1)
           /\ RecordQuickPlayResolved(Profile(b, r, j), buyIn)
                 = Profile(IF buyIn \in BuyIns THEN buyIn ELSE b, r + 1, j)
<1> DEFINE profile == Profile(b, r, j)
           latest == IF buyIn \in BuyIns THEN buyIn ELSE b
           jj == j + 1
           rr == r + 1
<1>1. profile.buyIn = b /\ profile.resolves = r /\ profile.joins = j BY DEF Profile
<1>2. RecordTableJoin(profile, buyIn) = [[profile EXCEPT !.joins = jj] EXCEPT !.buyIn = latest]
  <2> HIDE DEF profile
  <2> QED BY <1>1 DEF RecordTableJoin
<1>3. RecordQuickPlayResolved(profile, buyIn)
         = [[profile EXCEPT !.resolves = rr] EXCEPT !.buyIn = latest]
  <2> HIDE DEF profile
  <2> QED BY <1>1 DEF RecordQuickPlayResolved
<1> HIDE DEF latest, jj, rr
<1>4. [[profile EXCEPT !.joins = jj] EXCEPT !.buyIn = latest] = Profile(latest, r, jj)
  <2>1. [profile EXCEPT !.joins = jj] = Profile(b, r, jj) BY DEF Profile
  <2>2. [Profile(b, r, jj) EXCEPT !.buyIn = latest] = Profile(latest, r, jj) BY DEF Profile
  <2> HIDE DEF profile
  <2> QED BY <2>1, <2>2
<1>5. [[profile EXCEPT !.resolves = rr] EXCEPT !.buyIn = latest] = Profile(latest, rr, j)
  <2>1. [profile EXCEPT !.resolves = rr] = Profile(b, rr, j) BY DEF Profile
  <2>2. [Profile(b, rr, j) EXCEPT !.buyIn = latest] = Profile(latest, rr, j) BY DEF Profile
  <2> HIDE DEF profile
  <2> QED BY <2>1, <2>2
<1>6. RecordTableJoin(profile, buyIn) = Profile(latest, r, jj) BY <1>2, <1>4
<1>7. RecordQuickPlayResolved(profile, buyIn) = Profile(latest, rr, j) BY <1>3, <1>5
<1> QED BY <1>6, <1>7 DEF latest, jj, rr

\* The profile is right again as well.
LEMMA ProfileStaysRight ==
    ASSUME NEW e \in Seq(Entries), NEW profile, ProfileRight(e, profile),
           NEW quick \in BOOLEAN, NEW buyIn \in BuyIns, NEW x \in Entries,
           x.quick = quick, x.buyIn = buyIn
    PROVE  ProfileRight(<<x>> \o e,
                        IF quick THEN RecordTableJoin(RecordQuickPlayResolved(profile, buyIn), buyIn)
                        ELSE RecordTableJoin(profile, "none"))
<1> DEFINE f == <<x>> \o e
           after == IF quick THEN RecordTableJoin(RecordQuickPlayResolved(profile, buyIn), buyIn)
                    ELSE RecordTableJoin(profile, "none")
<1>1. /\ f \in Seq(Entries) /\ Len(f) = Len(e) + 1 /\ DOMAIN f = 1..Len(e) + 1 /\ Len(e) \in Nat
      /\ f[1] = x /\ \A i \in DOMAIN e : i + 1 \in DOMAIN f /\ f[i + 1] = e[i]
      /\ \A j \in DOMAIN f : j # 1 => j - 1 \in DOMAIN e /\ f[j] = e[j - 1]
  BY EntryComesFirst
<1>2. DOMAIN e = 1..Len(e) OBVIOUS
<1> HIDE DEF f
<1>3. Quick(e) \in SUBSET Nat /\ IsFiniteSet(Quick(e)) /\ Quick(f) \in SUBSET Nat /\ 0 \notin Quick(e)
      /\ Cardinality(Quick(e)) \in Nat
  <2>1. IsFiniteSet(1..Len(e)) BY <1>1, FS_Interval
  <2>2. Quick(e) \in SUBSET (1..Len(e)) BY <1>2 DEF Quick
  <2>3. IsFiniteSet(Quick(e)) BY <2>1, <2>2, FS_Subset
  <2>4. Cardinality(Quick(e)) \in Nat BY <2>3, FS_CardinalityType
  <2>5. Quick(f) \in SUBSET Nat BY <1>1 DEF Quick
  <2> QED BY <1>1, <2>2, <2>3, <2>4, <2>5
<1> DEFINE later == {i \in Quick(f) : i # 1}
           move == [i \in Quick(e) |-> i + 1]
<1>4. later \in SUBSET Nat /\ 1 \notin later /\ IsFiniteSet(later)
      /\ Cardinality(later) = Cardinality(Quick(e))
      /\ \A i \in Quick(e) : i + 1 \in later
      /\ \A j \in later : j - 1 \in Quick(e)
  <2>1. \A i \in Quick(e) : i + 1 \in later /\ move[i] = i + 1
    <3>1. \A i \in Quick(e) : i \in DOMAIN e /\ e[i].quick /\ i \in Nat /\ i >= 1 BY <1>1, <1>2 DEF Quick
    <3>2. \A i \in Quick(e) : i + 1 \in Quick(f) BY <1>1, <3>1 DEF Quick
    <3> QED BY <3>1, <3>2
  <2>2. \A j \in later : j - 1 \in Quick(e) /\ j \in Nat
    <3>1. \A j \in later : j \in DOMAIN f /\ f[j].quick /\ j # 1 BY DEF Quick
    <3> QED BY <1>1, <3>1 DEF Quick
  <2>3. move \in [Quick(e) -> later] BY <2>1
  <2>4. \A i \in Quick(e) : i \in Nat BY <1>3
  <2>5. move \in Injection(Quick(e), later)
    <3>1. ASSUME NEW i \in Quick(e), NEW j \in Quick(e), move[i] = move[j] PROVE i = j
      BY <2>1, <2>4, <3>1
    <3> HIDE DEF move
    <3> QED BY <2>3, <3>1 DEF Injection, IsInjective
  <2>6. move \in Surjection(Quick(e), later)
    <3>1. ASSUME NEW j \in later PROVE \E i \in Quick(e) : move[i] = j
      <4>1. j - 1 \in Quick(e) /\ j \in Nat BY <2>2
      <4>2. move[j - 1] = j BY <2>1, <4>1
      <4> QED BY <4>1, <4>2
    <3> HIDE DEF move, later
    <3> QED BY <2>3, <3>1 DEF Surjection
  <2>7. later \in SUBSET Nat /\ 1 \notin later BY <1>3
  <2> HIDE DEF later, move
  <2>8. IsFiniteSet(later) /\ Cardinality(later) = Cardinality(Quick(e))
    BY <1>3, <2>5, <2>6, FS_Surjection
  <2> QED BY <2>1, <2>2, <2>7, <2>8
<1>5. Quick(f) = IF quick THEN later \cup {1} ELSE later
  <2>1. 1 \in DOMAIN f BY <1>1
  <2>2. 1 \in Quick(f) <=> quick BY <1>1, <2>1 DEF Quick
  <2> QED BY <2>2
<1> HIDE DEF later, move
<1>6. Cardinality(Quick(f)) = IF quick THEN Cardinality(Quick(e)) + 1 ELSE Cardinality(Quick(e))
  <2>1. Cardinality(later \cup {1}) = Cardinality(later) + 1 BY <1>4, FS_AddElement
  <2> QED BY <1>4, <1>5, <2>1
<1>7. /\ profile = Profile(profile.buyIn, profile.resolves, profile.joins)
      /\ profile.joins = Len(e) /\ profile.resolves = Cardinality(Quick(e))
      /\ profile.buyIn = IF Quick(e) = {} THEN DefaultBuyIn ELSE e[Min(Quick(e))].buyIn
  BY DEF ProfileRight
<1>8. CASE quick
  <2>1. after = Profile(buyIn, profile.resolves + 1, profile.joins + 1)
    <3>1. RecordQuickPlayResolved(profile, buyIn)
            = Profile(buyIn, profile.resolves + 1, profile.joins)
      BY <1>7, ProfileParts
    <3>2. RecordTableJoin(Profile(buyIn, profile.resolves + 1, profile.joins), buyIn)
            = Profile(buyIn, profile.resolves + 1, profile.joins + 1)
      BY ProfileParts
    <3> QED BY <1>8, <3>1, <3>2
  <2>2. Quick(f) # {} /\ Min(Quick(f)) = 1
    <3>1. 1 \in Quick(f) BY <1>5, <1>8
    <3>2. \A i \in Quick(f) : 1 <= i BY <1>1 DEF Quick
    <3> QED BY <1>3, <3>1, <3>2, LeastIs
  <2>3. f[Min(Quick(f))].buyIn = buyIn BY <1>1, <2>2
  <2> HIDE DEF after
  <2>4. ProfileRight(f, after) BY <1>1, <1>6, <1>7, <1>8, <2>1, <2>2, <2>3 DEF ProfileRight, Profile
  <2> QED BY <2>4 DEF f, after
<1>9. CASE ~quick
  <2>1. after = Profile(profile.buyIn, profile.resolves, profile.joins + 1)
    BY <1>7, <1>9, LobbyPageConstants, ProfileParts
  <2>2. Quick(f) = later BY <1>5, <1>9
  <2>3. CASE Quick(e) = {}
    <3>1. Quick(f) = {}
      <4>1. IsFiniteSet(later) /\ Cardinality(later) = 0 BY <1>4, <2>3, FS_EmptySet
      <4> QED BY <2>2, <4>1, FS_EmptySet
    <3> HIDE DEF after
    <3>2. ProfileRight(f, after) BY <1>1, <1>6, <1>7, <1>9, <2>1, <2>3, <3>1 DEF ProfileRight, Profile
    <3> QED BY <3>2 DEF f, after
  <2>4. CASE Quick(e) # {}
    <3>1. Min(Quick(e)) \in Quick(e) /\ \A i \in Quick(e) : Min(Quick(e)) <= i
      BY <1>3, <2>4, LeastOf
    <3>2. Min(Quick(e)) + 1 \in Quick(f) BY <1>4, <2>2, <3>1
    <3>3. ASSUME NEW j \in Quick(f) PROVE Min(Quick(e)) + 1 <= j
      <4>1. j \in Nat /\ j - 1 \in Quick(e) /\ Min(Quick(e)) \in Nat BY <1>3, <1>4, <2>2, <3>1
      <4>2. Min(Quick(e)) <= j - 1 BY <3>1, <4>1
      <4> QED BY <4>1, <4>2
    <3>4. Min(Quick(f)) = Min(Quick(e)) + 1 BY <1>3, <3>2, <3>3, LeastIs
    <3>5. Min(Quick(e)) \in DOMAIN e BY <3>1 DEF Quick
    <3>6. f[Min(Quick(f))] = e[Min(Quick(e))] BY <1>1, <3>4, <3>5
    <3>7. Quick(f) # {} BY <3>2
    <3> HIDE DEF after
    <3>8. ProfileRight(f, after) BY <1>1, <1>6, <1>7, <1>9, <2>1, <2>4, <3>6, <3>7 DEF ProfileRight, Profile
    <3> QED BY <3>8 DEF f, after
  <2> QED BY <2>3, <2>4
<1> QED BY <1>8, <1>9

\* The tables that were entered are finitely many.
LEMMA EnteredFinite ==
    ASSUME NEW e \in Seq(Entries)
    PROVE  IsFiniteSet(Entered(e)) /\ Cardinality(Entered(e)) \in Nat
<1> DEFINE name == [i \in DOMAIN e |-> e[i].code]
<1>1. DOMAIN e = 1..Len(e) /\ Len(e) \in Nat OBVIOUS
<1>2. IsFiniteSet(DOMAIN e) BY <1>1, FS_Interval
<1>3. name \in Surjection(DOMAIN e, Entered(e))
  <2>1. \A i \in DOMAIN e : name[i] \in Entered(e) BY DEF Entered
  <2>2. \A c \in Entered(e) : \E i \in DOMAIN e : name[i] = c BY DEF Entered
  <2>3. name \in [DOMAIN e -> Entered(e)] BY <2>1
  <2> HIDE DEF name
  <2> QED BY <2>2, <2>3 DEF Surjection
<1>4. IsFiniteSet(Entered(e))
  <2> HIDE DEF name
  <2> QED BY <1>2, <1>3, FS_Surjection
<1> QED BY <1>4, FS_CardinalityType

\* The place of a table in the list is the number of those entered after it.
LEMMA RecentInOrder ==
    ASSUME NEW e \in Seq(Entries), NEW recent, RecentRight(e, recent), NEW i \in DOMAIN recent
    PROVE  Cardinality({code \in Entered(e) : First(e, code) < First(e, recent[i])}) = i - 1
<1> DEFINE newer == {code \in Entered(e) : First(e, code) < First(e, recent[i])}
           g == [j \in 1..i - 1 |-> recent[j]]
<1>1. /\ DOMAIN recent = 1..Len(recent) /\ Len(recent) \in Nat /\ i \in Nat /\ i >= 1 /\ i <= Len(recent)
  <2>1. recent \in Seq(Codes) BY DEF RecentRight
  <2>2. DOMAIN recent = 1..Len(recent) /\ Len(recent) \in Nat BY <2>1
  <2> QED BY <2>2
<1>2. \A code \in Entered(e) : First(e, code) \in Nat BY FirstIs
<1>3. \A j \in DOMAIN recent : recent[j] \in Entered(e) BY DEF RecentRight
<1>4. \A j, k \in DOMAIN recent : j < k => First(e, recent[j]) < First(e, recent[k])
  BY DEF RecentRight
<1>5. \A j \in 1..i - 1 : j \in DOMAIN recent /\ j < i /\ j \in Nat BY <1>1
<1>6. \A j \in 1..i - 1 : recent[j] \in newer BY <1>3, <1>4, <1>5
<1>7. \A j, k \in 1..i - 1 : recent[j] = recent[k] => j = k
  <2> SUFFICES ASSUME NEW j \in 1..i - 1, NEW k \in 1..i - 1, recent[j] = recent[k] PROVE j = k
    OBVIOUS
  <2>1. First(e, recent[j]) \in Nat BY <1>2, <1>3, <1>5
  <2>2. ~(j < k) /\ ~(k < j) BY <1>4, <1>5, <2>1
  <2> QED BY <1>5, <2>2
<1>8. ASSUME NEW code \in newer PROVE \E j \in 1..i - 1 : recent[j] = code
  <2>1. code \in Entered(e) /\ First(e, code) < First(e, recent[i]) OBVIOUS
  <2>2. First(e, code) \in Nat /\ First(e, recent[i]) \in Nat BY <1>2, <1>3, <2>1
  <2>3. PICK j \in DOMAIN recent : recent[j] = code
    <3> SUFFICES ASSUME \A j \in DOMAIN recent : recent[j] # code PROVE FALSE OBVIOUS
    <3>1. First(e, recent[i]) < First(e, code) BY <2>1 DEF RecentRight
    <3> QED BY <2>1, <2>2, <3>1
  <2>4. j \in Nat /\ j >= 1 BY <1>1
  <2>5. ~(i < j) BY <1>4, <2>1, <2>2, <2>3
  <2>6. j # i BY <2>1, <2>2, <2>3
  <2>7. j \in 1..i - 1 BY <1>1, <2>4, <2>5, <2>6
  <2> QED BY <2>3, <2>7
<1> HIDE DEF newer
<1>9. g \in Bijection(1..i - 1, newer)
  <2>1. g \in [1..i - 1 -> newer] BY <1>6
  <2>2. \A j \in 1..i - 1 : g[j] = recent[j] OBVIOUS
  <2> HIDE DEF g
  <2>3. g \in Injection(1..i - 1, newer) BY <1>7, <2>1, <2>2 DEF Injection, IsInjective
  <2>4. g \in Surjection(1..i - 1, newer) BY <1>8, <2>1, <2>2 DEF Surjection
  <2> QED BY <2>3, <2>4 DEF Bijection
<1>10. i - 1 \in Nat /\ ExistsBijection(1..i - 1, newer)
  <2> HIDE DEF g
  <2> QED BY <1>1, <1>9 DEF ExistsBijection
<1>11. Cardinality(newer) = i - 1 BY <1>10, FS_CountingElements
<1> QED BY <1>11 DEF newer

\* The list is as long as it can be.
LEMMA RecentLength ==
    ASSUME NEW e \in Seq(Entries), NEW recent, RecentRight(e, recent)
    PROVE  Len(recent) = Min({MaxRecent, Cardinality(Entered(e))})
<1> DEFINE places == DOMAIN recent
           L == Len(recent)
           codes == Entered(e)
<1>1. /\ recent \in Seq(Codes) /\ places = 1..L /\ L \in Nat /\ L <= MaxRecent
      /\ MaxRecent \in Nat
  <2>1. recent \in Seq(Codes) /\ Len(recent) <= MaxRecent BY DEF RecentRight
  <2> QED BY <2>1, LobbyPageConstants
<1>2. \A code \in codes : First(e, code) \in Nat BY FirstIs
<1>3. IsFiniteSet(places) /\ Cardinality(places) = L
  <2> HIDE DEF L, places
  <2>1. IsFiniteSet(1..L) /\ Cardinality(1..L) = IF 1 > L THEN 0 ELSE L - 1 + 1
    BY <1>1, FS_Interval
  <2> QED BY <1>1, <2>1
<1>4. IsFiniteSet(codes) /\ Cardinality(codes) \in Nat BY EnteredFinite
<1>5. recent \in Injection(places, codes)
  <2>1. recent \in [places -> codes]
    <3>1. \A i \in places : recent[i] \in codes BY DEF RecentRight
    <3>2. recent = [i \in places |-> recent[i]] BY <1>1
    <3> HIDE DEF places, codes
    <3> QED BY <3>1, <3>2
  <2>2. ASSUME NEW i \in places, NEW j \in places, recent[i] = recent[j] PROVE i = j
    <3>1. i \in Nat /\ j \in Nat BY <1>1
    <3>2. First(e, recent[i]) \in Nat BY <1>2 DEF RecentRight
    <3>3. ~(i < j) /\ ~(j < i) BY <2>2, <3>2 DEF RecentRight
    <3> QED BY <3>1, <3>3
  <2> HIDE DEF places, codes
  <2> QED BY <2>1, <2>2 DEF Injection, IsInjective
<1>6. /\ L <= Cardinality(codes)
      /\ Cardinality(codes) = L <=> recent \in Surjection(places, codes)
  <2> HIDE DEF places, codes, L
  <2> QED BY <1>3, <1>4, <1>5, FS_Injection
<1>7. L = MaxRecent \/ L = Cardinality(codes)
  <2>1. CASE \A code \in codes : \E i \in places : recent[i] = code
    <3>1. recent \in Surjection(places, codes)
      <4> HIDE DEF places, codes
      <4> QED BY <1>5, <2>1 DEF Surjection, Injection
    <3> QED BY <1>6, <3>1
  <2>2. CASE \E code \in codes : \A i \in places : recent[i] # code
    BY <2>2 DEF RecentRight
  <2> QED BY <2>1, <2>2
<1>8. Min({MaxRecent, Cardinality(codes)})
         = IF MaxRecent <= Cardinality(codes) THEN MaxRecent ELSE Cardinality(codes)
  <2> HIDE DEF codes
  <2> QED BY <1>1, <1>4, SmallerOf
<1> HIDE DEF L, codes, places
<1>9. L = Min({MaxRecent, Cardinality(codes)}) BY <1>1, <1>4, <1>6, <1>7, <1>8
<1> QED BY <1>9 DEF L, codes

\* A browser starts with a memory that is right: an empty one, or the tables it has
\* entered before.
LEMMA MemoryStarts == Init => Memory
<1> SUFFICES ASSUME Init PROVE Memory OBVIOUS
<1>1. PICK past \in {<< >>, Past} :
         /\ stored.recent = [i \in DOMAIN past |-> past[i].code]
         /\ stored.profile = Profile(DefaultBuyIn, 0, Len(past))
         /\ entered = past
  BY DEF Init, Profile
<1>2. /\ past \in Seq([code : Codes, quick : {FALSE}, buyIn : BuyIns]) /\ Len(past) <= MaxRecent
      /\ \A i, j \in DOMAIN past : past[i].code = past[j].code => i = j
  <2>1. CASE past = << >>
    <3>1. MaxRecent \in Nat BY LobbyPageConstants
    <3>2. past \in Seq([code : Codes, quick : {FALSE}, buyIn : BuyIns]) /\ Len(past) = 0
          /\ DOMAIN past = {}
      BY <2>1
    <3> QED BY <3>1, <3>2
  <2>2. CASE past = Past BY <2>2, LobbyPageConstants
  <2> QED BY <2>1, <2>2
<1> DEFINE recent == stored.recent
<1>3. DOMAIN past = 1..Len(past) /\ Len(past) \in Nat BY <1>2
<1>4. \A i \in DOMAIN past : past[i] \in Entries /\ past[i].code \in Codes /\ ~past[i].quick
  <2> DEFINE Joins == [code : Codes, quick : {FALSE}, buyIn : BuyIns]
  <2>1. \A i \in DOMAIN past : past[i] \in Joins
    <3>1. past \in Seq(Joins) BY <1>2
    <3> HIDE DEF Joins
    <3> QED BY <3>1
  <2> QED BY <2>1 DEF Entries
<1>5. past \in Seq(Entries)
  <2>1. past \in [1..Len(past) -> Entries] BY <1>2, <1>3, <1>4
  <2> QED BY <1>3, <2>1
<1>6. /\ recent \in Seq(Codes) /\ Len(recent) = Len(past) /\ DOMAIN recent = DOMAIN past
      /\ \A i \in DOMAIN past : recent[i] = past[i].code
  <2>1. recent \in [1..Len(past) -> Codes] BY <1>1, <1>3, <1>4
  <2>2. \A i \in DOMAIN past : recent[i] = past[i].code BY <1>1
  <2> HIDE DEF recent
  <2>3. recent \in Seq(Codes) /\ Len(recent) = Len(past) BY <1>3, <2>1
  <2> QED BY <1>3, <2>1, <2>2, <2>3
<1> HIDE DEF recent
<1>7. ASSUME NEW i \in DOMAIN past PROVE recent[i] \in Entered(past) /\ First(past, recent[i]) = i
  <2>1. recent[i] \in Entered(past) BY <1>6 DEF Entered
  <2>2. First(past, recent[i]) \in DOMAIN past /\ past[First(past, recent[i])].code = recent[i]
    BY <1>5, <2>1, FirstIs
  <2> QED BY <1>2, <1>6, <2>1, <2>2
<1>8. RecentRight(past, recent)
  <2>1. ASSUME NEW code \in Entered(past) PROVE \E i \in DOMAIN recent : recent[i] = code
    BY <1>6 DEF Entered
  <2>2. Len(recent) <= MaxRecent BY <1>2, <1>6
  <2> QED BY <1>6, <1>7, <2>1, <2>2 DEF RecentRight
<1>9. ProfileRight(past, stored.profile)
  <2>1. Quick(past) = {} BY <1>4 DEF Quick
  <2>2. Cardinality(Quick(past)) = 0 BY <2>1, FS_EmptySet
  <2> QED BY <1>1, <2>1, <2>2 DEF ProfileRight, Profile
<1> QED BY <1>1, <1>5, <1>8, <1>9 DEF Memory, recent

\* Entering a table keeps the memory right.
LEMMA EnteringKeepsMemory ==
    ASSUME PageInv, Memory, NEW t \in Tabs, NEW c \in Calls, RpcAnswered(t, c)
    PROVE  Memory'
<1> DEFINE quick == call[t][c].quick
<1>1. PICK names : call[t] \in [Calls -> CallStates(names)] BY TabFacts
<1>2. quick \in BOOLEAN BY <1>1 DEF CallStates
<1> HIDE DEF quick
<1>3. PICK code \in Codes, buyIn \in BuyIns :
         /\ stored' = [stored EXCEPT
                !.recent = UpsertRecentTable(@, code),
                !.profile = IF quick
                            THEN RecordTableJoin(RecordQuickPlayResolved(stored.profile, buyIn), buyIn)
                            ELSE RecordTableJoin(stored.profile, "none")]
         /\ entered' = <<[code |-> code, quick |-> quick, buyIn |-> buyIn]>> \o entered
  BY DEF RpcAnswered, quick
<1> DEFINE x == [code |-> code, quick |-> quick, buyIn |-> buyIn]
           recent == UpsertRecentTable(stored.recent, code)
           profile == IF quick
                      THEN RecordTableJoin(RecordQuickPlayResolved(stored.profile, buyIn), buyIn)
                      ELSE RecordTableJoin(stored.profile, "none")
<1>4. x \in Entries /\ x.code = code /\ x.quick = quick /\ x.buyIn = buyIn BY <1>2 DEF Entries
<1>5. stored' = [stored EXCEPT !.recent = recent, !.profile = profile] BY <1>3
<1>6. entered' = <<x>> \o entered BY <1>3
<1>7. RecentRight(<<x>> \o entered, recent)
  <2> HIDE DEF x
  <2> QED BY <1>4, RecentStaysRight DEF Memory
<1>8. ProfileRight(<<x>> \o entered, profile)
  <2> HIDE DEF x
  <2> QED BY <1>2, <1>4, ProfileStaysRight DEF Memory
<1>9. <<x>> \o entered \in Seq(Entries)
  <2> HIDE DEF x
  <2> QED BY <1>4, EntryComesFirst DEF Memory
<1> HIDE DEF x, recent, profile
<1>10. stored'.recent = recent /\ stored'.profile = profile
  <2>1. stored = [session |-> stored.session, recent |-> stored.recent, profile |-> stored.profile]
    BY StoredParts
  <2> QED BY <1>5, <2>1
<1> QED BY <1>6, <1>7, <1>8, <1>9, <1>10 DEF Memory

\* Every other step leaves it alone.
LEMMA OthersKeepMemory ==
    ASSUME PageInv, [Next]_vars
    PROVE  \/ \E t \in Tabs, c \in Calls : RpcAnswered(t, c)
           \/ entered' = entered /\ stored'.recent = stored.recent /\ stored'.profile = stored.profile
<1>1. ASSUME NEW session, stored' = [stored EXCEPT !.session = session]
      PROVE  stored'.recent = stored.recent /\ stored'.profile = stored.profile
  <2>1. stored = [session |-> stored.session, recent |-> stored.recent, profile |-> stored.profile]
    BY StoredParts
  <2> QED BY <1>1, <2>1
<1>2. CASE UNCHANGED vars BY <1>2 DEF vars
<1>3. CASE SessionExpires \/ Revoke BY <1>3 DEF SessionExpires, Revoke, Unmoved
<1>4. ASSUME NEW t \in Tabs, FlightGoesOn(t)
      PROVE  entered' = entered /\ stored'.recent = stored.recent /\ stored'.profile = stored.profile
  <2>1. entered' = entered
    BY <1>4 DEF FlightGoesOn, RefreshAnswered, RefreshFails, CreateLooks, CreateInserts, CreateRefused,
                CreateLost, LoginAnswered, LoginFails, FlightLands, Unmoved
  <2>2. stored' = stored \/ \E session : stored' = [stored EXCEPT !.session = session]
    BY <1>4 DEF FlightGoesOn, RefreshAnswered, RefreshFails, CreateLooks, CreateInserts, CreateRefused,
                CreateLost, LoginAnswered, LoginFails, FlightLands
  <2> QED BY <1>1, <2>1, <2>2
<1>5. ASSUME NEW t \in Tabs, OpenLobby(t) \/ LeaveLobby(t) \/ Reload(t)
      PROVE  entered' = entered /\ stored' = stored
  BY <1>5 DEF OpenLobby, LeaveLobby, Reload, Unmoved
<1>6. ASSUME NEW t \in Tabs, NEW c \in Calls,
             HandleQuickPlay(t, c) \/ HandleJoinByCode(t, c) \/ HandleJoinRecent(t, c)
      PROVE  entered' = entered /\ stored' = stored
  BY <1>6 DEF HandleQuickPlay, HandleJoinByCode, HandleJoinRecent, Starts
<1>7. ASSUME NEW t \in Tabs, NEW c \in Calls, RpcRefused(t, c)
      PROVE  entered' = entered /\ stored'.recent = stored.recent /\ stored'.profile = stored.profile
  <2>1. entered' = entered /\ \E session : stored' = [stored EXCEPT !.session = session]
    BY <1>7 DEF RpcRefused, Unmoved
  <2> QED BY <1>1, <2>1
<1>8. ASSUME NEW t \in Tabs, NEW c \in Calls, RpcFails(t, c)
      PROVE  entered' = entered /\ stored' = stored
  BY <1>8 DEF RpcFails, Unmoved
<1> QED BY <1>2, <1>3, <1>4, <1>5, <1>6, <1>7, <1>8 DEF Next, RpcEnds

\* So the memory is right.
LEMMA MemoryHolds == Spec => []Memory
<1>1. PageInv /\ Memory /\ [Next]_vars => Memory'
  <2> SUFFICES ASSUME PageInv, Memory, [Next]_vars PROVE Memory' OBVIOUS
  <2>1. CASE \E t \in Tabs, c \in Calls : RpcAnswered(t, c) BY <2>1, EnteringKeepsMemory
  <2>2. CASE entered' = entered /\ stored'.recent = stored.recent /\ stored'.profile = stored.profile
    BY <2>2 DEF Memory
  <2> QED BY <2>1, <2>2, OthersKeepMemory
<1> QED BY <1>1, MemoryStarts, PageHolds, PTL DEF Spec

\* For any tabs, however their steps interleave, and any limit of the list: the recent
\* tables are the newest ones entered, each once, and the profile counts every entry and
\* has the latest buy-in (upsertRecentTable, recordQuickPlayResolved, recordTableJoin).
THEOREM TheBrowserRemembers == Spec => []BrowserRemembers
<1>1. ASSUME Memory PROVE BrowserRemembers
  <2>1. /\ entered \in Seq(Entries) /\ RecentRight(entered, stored.recent)
        /\ ProfileRight(entered, stored.profile)
    BY <1>1 DEF Memory
  <2>2. /\ stored.profile.joins = Len(entered)
        /\ stored.profile.resolves = Cardinality(Quick(entered))
        /\ stored.profile.buyIn
              = IF Quick(entered) = {} THEN DefaultBuyIn ELSE entered[Min(Quick(entered))].buyIn
    BY <2>1 DEF ProfileRight
  <2>3. Len(stored.recent) = Min({MaxRecent, Cardinality(Entered(entered))})
    BY <2>1, RecentLength
  <2>4. \A i \in DOMAIN stored.recent :
           /\ stored.recent[i] \in Entered(entered)
           /\ Cardinality({code \in Entered(entered) :
                              First(entered, code) < First(entered, stored.recent[i])}) = i - 1
    BY <2>1, RecentInOrder DEF RecentRight
  <2> QED BY <2>2, <2>3, <2>4 DEF BrowserRemembers, Quick, Entered, First, Sites
<1> QED BY <1>1, MemoryHolds, PTL
=============================================================================
