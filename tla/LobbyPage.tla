----------------------------- MODULE LobbyPage -----------------------------
(***************************************************************************)
(* The lobby page (pages/play) in the tabs of one browser, and the session *)
(* with Nakama it works under (lib/nakamaClient): who may call while a     *)
(* session is being fetched, what happens when the server refuses one, and *)
(* what the tabs remember together in localStorage.                        *)
(*                                                                         *)
(* A tab's session and its request for one live in module variables: they  *)
(* outlive the page, and so do the calls a page has started.               *)
(*                                                                         *)
(* Sessions are numbered as the server issues them.  Time and the server   *)
(* take them away oldest first, so "past" is a number as well.             *)
(* Left out: names and codes that are not accepted (nothing is called      *)
(* then), the legacy backend, telemetry, and the socket part of            *)
(* nakamaClient, which the page of a table has of its own.                 *)
(***************************************************************************)
EXTENDS Naturals, Sequences, FiniteSets, SequencesExt

CONSTANTS
    Tabs,           \* the tabs of the browser
    MaxCalls,       \* bound: the calls one tab has in the air
    Codes,          \* the codes of the tables
    BuyIns,         \* the buy-ins of the tables
    DefaultBuyIn,
    LoginTries,     \* how often a login is tried after a failed creation (4)
    MaxRecent,      \* how many tables are remembered (10)
    Past,           \* what a browser that has been here before has entered by codes, newest first
    MaxClicks,      \* bound: the calls a player starts
    MaxRevoked,     \* bound: the newest session the server revokes
    MaxExpired,     \* bound: the newest session that expires
    MaxLost         \* bound: the requests for a session that get lost

Calls == 1..MaxCalls

ASSUME LobbyPageConstants ==
    /\ LoginTries \in Nat \ {0} /\ MaxRecent \in Nat \ {0}
    /\ DefaultBuyIn \in BuyIns /\ "none" \notin BuyIns
    /\ Past \in Seq([code : Codes, quick : {FALSE}, buyIn : BuyIns]) /\ Len(Past) <= MaxRecent
    /\ \A i, j \in DOMAIN Past : Past[i].code = Past[j].code => i = j

VARIABLES
    tab,        \* per tab: its page, and the session and request of its modules
    call,       \* per tab: the calls in the air
    stored,     \* localStorage: session, recent tables, quick-play profile
    server,     \* Nakama: the account of the device, sessions issued and revoked
    expired,    \* sessions up to this one are past their time
    lost,       \* requests lost so far
    clicks,     \* calls started so far
    entered     \* what the tabs have entered, newest first (history)

vars == <<tab, call, stored, server, expired, lost, clicks, entered>>

-----------------------------------------------------------------------------
(* The session                                                              *)

NoSession == 0

\* isSessionUsable: its expiry, with a margin, lies ahead.
IsSessionUsable(session) == session > expired

NoFlight == [step |-> "none", session |-> NoSession, tries |-> 0]
Flight(step) == [NoFlight EXCEPT !.step = step]

\* getFreshSession as far as its first request: what is stored, or a refresh of it
\* if it is not too old for that, or a sign-in of the device.
GetFreshSession(t, session) ==
    IF IsSessionUsable(session) THEN {[t EXCEPT !.memory = session]}
    ELSE {[t EXCEPT !.flight = Flight("create")]}
         \cup {[t EXCEPT !.flight = [Flight("refresh") EXCEPT !.session = s]] :
                  s \in {session} \ {NoSession}}

\* ensureNakamaSession: one request per tab, which later callers join.
EnsureNakamaSession(t, session) ==
    IF IsSessionUsable(t.memory) \/ t.flight # NoFlight THEN {t} ELSE GetFreshSession(t, session)

\* The call of a caller that asked for a session: it has one at once, or waits.
Proceeds(t, c) ==
    IF IsSessionUsable(t.memory) THEN [c EXCEPT !.step = "rpc", !.session = t.memory]
    ELSE [c EXCEPT !.step = "session", !.session = NoSession]

\* A wrong form of ClearSessionCache: what is stored stays.
ClearMemoryOnly(held) == [held EXCEPT !.memory = NoSession]

\* clearSessionCache: the tab's copy and the stored one.
ClearSessionCache(held) == [held EXCEPT !.memory = NoSession, !.stored = NoSession]

Held(t) == [memory |-> tab[t].memory, stored |-> stored.session]

\* The server answers with a new session.
Issue(t) ==
    tab' = [tab EXCEPT ![t].flight = [Flight("answer") EXCEPT !.session = server.issued + 1]]

Accepts(session) == session > server.revoked

Loses == lost < MaxLost /\ lost' = lost + 1

-----------------------------------------------------------------------------
(* What the tabs remember                                                   *)

\* A wrong form of UpsertRecentTable: a table that is known stays where it is.
UpsertNewTable(tables, code) ==
    IF Contains(tables, code) THEN tables
    ELSE SubSeq(<<code>> \o tables, 1, Min({MaxRecent, 1 + Len(tables)}))

\* The tables other than code, in their order: a filter, in terms that can be reasoned about.
Others(tables, code) ==
    LET kept == {i \in DOMAIN tables : tables[i] # code}
    IN [n \in 1..Cardinality(kept) |->
           tables[CHOOSE i \in kept : Cardinality({j \in kept : j <= i}) = n]]

\* upsertRecentTable: the table comes first, once, and the oldest may go.
UpsertRecentTable(tables, code) ==
    LET others == Others(tables, code)
    IN SubSeq(<<code>> \o others, 1, Min({MaxRecent, 1 + Len(others)}))

\* recordTableJoin: only a quick play names the buy-in of its table.
RecordTableJoin(profile, buyIn) ==
    [profile EXCEPT !.joins = @ + 1, !.buyIn = IF buyIn \in BuyIns THEN buyIn ELSE @]

\* recordQuickPlayResolved
RecordQuickPlayResolved(profile, buyIn) ==
    [profile EXCEPT !.resolves = @ + 1, !.buyIn = IF buyIn \in BuyIns THEN buyIn ELSE @]

-----------------------------------------------------------------------------
(* The page                                                                 *)

NoCall == [step |-> "none", session |-> NoSession, refused |-> NoSession,
           mounted |-> FALSE, quick |-> FALSE, code |-> "any"]

Mounted(t) == [t EXCEPT !.open = TRUE, !.loading = FALSE, !.error = "none"]

\* The page is left; the calls it started go on without it.
Left(t) == [t EXCEPT !.open = FALSE, !.loading = FALSE, !.error = "none"]
Orphaned(calls) ==
    [c \in Calls |-> IF calls[c] = NoCall THEN NoCall ELSE [calls[c] EXCEPT !.mounted = FALSE]]

NewTab == [open |-> TRUE, loading |-> FALSE, error |-> "none",
           memory |-> NoSession, flight |-> NoFlight]

Init ==
    /\ tab = [t \in Tabs |-> NewTab]
    /\ call = [t \in Tabs |-> [c \in Calls |-> NoCall]]
    /\ \E past \in {<< >>, Past} :   \* a new device, or one that has been here before
          LET session == IF past = << >> THEN NoSession ELSE 1
          IN /\ stored = [session |-> session, recent |-> [i \in DOMAIN past |-> past[i].code],
                          profile |-> [buyIn |-> DefaultBuyIn, resolves |-> 0,
                                       joins |-> Len(past)]]
             /\ server = [account |-> session # NoSession, issued |-> session,
                          revoked |-> NoSession]
             /\ entered = past
    /\ expired = NoSession
    /\ lost = 0 /\ clicks = 0

\* A caller asks for a session, with `session` in localStorage.
Asks(t, c, tb, cl, session) ==
    \E a \in EnsureNakamaSession(tb, session) :
        /\ tab' = [tab EXCEPT ![t] = a]
        /\ call' = [call EXCEPT ![t][c] = Proceeds(a, cl)]

\* callNakamaRpc under a handler of the page: not while one of its calls is in the air.
Starts(t, c, quick, code) ==
    /\ tab[t].open /\ ~tab[t].loading
    /\ call[t][c] = NoCall /\ (\A d \in 1..c - 1 : call[t][d] # NoCall)
    /\ clicks < MaxClicks /\ clicks' = clicks + 1
    /\ Asks(t, c, [tab[t] EXCEPT !.loading = TRUE, !.error = "none"],
            [NoCall EXCEPT !.mounted = TRUE, !.quick = quick, !.code = code], stored.session)
    /\ UNCHANGED <<stored, server, expired, lost, entered>>

HandleQuickPlay(t, c) == Starts(t, c, TRUE, "any")
HandleJoinByCode(t, c) == \E code \in Codes : Starts(t, c, FALSE, code)
HandleJoinRecent(t, c) == \E code \in ToSet(stored.recent) : Starts(t, c, FALSE, code)

\* The handler's catch and finally: the page, if it is still there, shows the error.
Fails(tb, mounted, error) ==
    IF mounted THEN [tb EXCEPT !.loading = FALSE, !.error = error] ELSE tb

-----------------------------------------------------------------------------
(* The request for a session                                                *)

Unmoved == <<expired, clicks, entered>>

\* The refresh is answered, or fails: then the session is dropped for a sign-in.
RefreshAnswered(t) ==
    /\ tab[t].flight.step = "refresh" /\ Accepts(tab[t].flight.session)
    /\ Issue(t)
    /\ server' = [server EXCEPT !.issued = @ + 1]
    /\ UNCHANGED <<call, stored, lost, Unmoved>>

RefreshFails(t) ==
    /\ tab[t].flight.step = "refresh"
    /\ \/ ~Accepts(tab[t].flight.session) /\ UNCHANGED lost
       \/ Loses
    /\ tab' = [tab EXCEPT ![t].flight = Flight("create"),
                          ![t].memory = ClearSessionCache(Held(t)).memory]
    /\ stored' = [stored EXCEPT !.session = ClearSessionCache(Held(t)).stored]
    /\ UNCHANGED <<call, server, Unmoved>>

\* authenticateDevice(create): Nakama looks for the account of the device, and if
\* there is none makes one; the second of two tabs that do so at once fails.
CreateLooks(t) ==
    /\ tab[t].flight.step = "create"
    /\ \/ /\ server.account
          /\ Issue(t)
          /\ server' = [server EXCEPT !.issued = @ + 1]
       \/ /\ ~server.account
          /\ tab' = [tab EXCEPT ![t].flight = Flight("insert")]
          /\ UNCHANGED server
    /\ UNCHANGED <<call, stored, lost, Unmoved>>

CreateInserts(t) ==
    /\ tab[t].flight.step = "insert" /\ ~server.account
    /\ Issue(t)
    /\ server' = [server EXCEPT !.account = TRUE, !.issued = @ + 1]
    /\ UNCHANGED <<call, stored, lost, Unmoved>>

\* The request for a session has failed for all who wait for it.
FlightFails(t) ==
    /\ tab' = [tab EXCEPT ![t] =
                  Fails([@ EXCEPT !.flight = NoFlight],
                        \E c \in Calls : call[t][c].step = "session" /\ call[t][c].mounted,
                        "signin")]
    /\ call' = [call EXCEPT ![t] =
                  [c \in Calls |-> IF @[c].step = "session" THEN NoCall ELSE @[c]]]

\* A wrong form of CreateFails: no login is tried.
CreateFailsAtOnce(t) == FlightFails(t)

\* A creation that failed is followed by logins.
CreateFails(t) ==
    /\ tab' = [tab EXCEPT ![t].flight = [Flight("login") EXCEPT !.tries = 1]]
    /\ UNCHANGED call

CreateRefused(t) ==
    /\ tab[t].flight.step = "insert" /\ server.account
    /\ CreateFails(t)
    /\ UNCHANGED <<stored, server, lost, Unmoved>>

CreateLost(t) ==
    /\ tab[t].flight.step = "create" /\ Loses
    /\ CreateFails(t)
    /\ \E made \in BOOLEAN : server' = [server EXCEPT !.account = @ \/ made]
    /\ UNCHANGED <<stored, Unmoved>>

LoginAnswered(t) ==
    /\ tab[t].flight.step = "login" /\ server.account
    /\ Issue(t)
    /\ server' = [server EXCEPT !.issued = @ + 1]
    /\ UNCHANGED <<call, stored, lost, Unmoved>>

LoginFails(t) ==
    /\ tab[t].flight.step = "login"
    /\ \/ ~server.account /\ UNCHANGED lost
       \/ Loses
    /\ \/ /\ tab[t].flight.tries = LoginTries
          /\ FlightFails(t)
       \/ /\ tab[t].flight.tries < LoginTries
          /\ tab' = [tab EXCEPT ![t].flight.tries = @ + 1]
          /\ UNCHANGED call
    /\ UNCHANGED <<stored, server, Unmoved>>

\* A wrong form of Serve: the call that started the request is served alone.
ServeFirst(t, calls) ==
    LET waiting == {c \in Calls : calls[c].step = "session"}
    IN [c \in Calls |-> IF c \in waiting /\ c = CHOOSE d \in waiting : TRUE
                        THEN [calls[c] EXCEPT !.step = "rpc", !.session = tab[t].flight.session]
                        ELSE calls[c]]

\* All who wait for the session get it.
Serve(t, calls) ==
    [c \in Calls |-> IF calls[c].step = "session"
                     THEN [calls[c] EXCEPT !.step = "rpc", !.session = tab[t].flight.session]
                     ELSE calls[c]]

\* persistSession, and the callers go on.
FlightLands(t) ==
    /\ tab[t].flight.step = "answer"
    /\ tab' = [tab EXCEPT ![t].memory = tab[t].flight.session, ![t].flight = NoFlight]
    /\ stored' = [stored EXCEPT !.session = tab[t].flight.session]
    /\ call' = [call EXCEPT ![t] = Serve(t, @)]
    /\ UNCHANGED <<server, lost, Unmoved>>

FlightGoesOn(t) ==
    \/ RefreshAnswered(t) \/ RefreshFails(t)
    \/ CreateLooks(t) \/ CreateInserts(t) \/ CreateRefused(t) \/ CreateLost(t)
    \/ LoginAnswered(t) \/ LoginFails(t)
    \/ FlightLands(t)

-----------------------------------------------------------------------------
(* The call                                                                 *)

\* The table is remembered and the tab goes there, even if its page has been left.
RpcAnswered(t, c) ==
    /\ call[t][c].step = "rpc" /\ Accepts(call[t][c].session)
    /\ \E code \in Codes, buyIn \in BuyIns :
          LET quick == call[t][c].quick
              profile == stored.profile
          IN /\ quick \/ (code = call[t][c].code /\ buyIn = DefaultBuyIn)
             /\ stored' = [stored EXCEPT
                    !.recent = UpsertRecentTable(@, code),
                    !.profile = IF quick
                                THEN RecordTableJoin(RecordQuickPlayResolved(profile, buyIn), buyIn)
                                ELSE RecordTableJoin(profile, "none")]
             /\ entered' = <<[code |-> code, quick |-> quick, buyIn |-> buyIn]>> \o entered
    /\ tab' = [tab EXCEPT ![t] = Left(@)]
    /\ call' = [call EXCEPT ![t] = Orphaned([@ EXCEPT ![c] = NoCall])]
    /\ UNCHANGED <<server, expired, lost, clicks>>

\* The first refusal drops the session and asks for another.
RpcRefused(t, c) ==
    /\ call[t][c].step = "rpc" /\ ~Accepts(call[t][c].session)
    /\ call[t][c].refused = NoSession
    /\ \E held \in {ClearSessionCache(Held(t))} :
          /\ stored' = [stored EXCEPT !.session = held.stored]
          /\ Asks(t, c, [tab[t] EXCEPT !.memory = held.memory],
                  [call[t][c] EXCEPT !.refused = call[t][c].session], held.stored)
    /\ UNCHANGED <<server, lost, Unmoved>>

\* A second refusal, or any other error (no such table, no answer), ends the call.
RpcFails(t, c) ==
    /\ call[t][c].step = "rpc"
    /\ \E error \in {"refused", "call"} :
          /\ error = "refused" =>
                ~Accepts(call[t][c].session) /\ call[t][c].refused # NoSession
          /\ tab' = [tab EXCEPT ![t] = Fails(@, call[t][c].mounted, error)]
    /\ call' = [call EXCEPT ![t][c] = NoCall]
    /\ UNCHANGED <<stored, server, lost, Unmoved>>

RpcEnds(t, c) == RpcAnswered(t, c) \/ RpcRefused(t, c) \/ RpcFails(t, c)

-----------------------------------------------------------------------------
(* The browser, time and the server                                         *)

OpenLobby(t) ==
    /\ ~tab[t].open
    /\ tab' = [tab EXCEPT ![t] = Mounted(@)]
    /\ UNCHANGED <<call, stored, server, lost, Unmoved>>

LeaveLobby(t) ==
    /\ tab[t].open
    /\ tab' = [tab EXCEPT ![t] = Left(@)]
    /\ call' = [call EXCEPT ![t] = Orphaned(@)]
    /\ UNCHANGED <<stored, server, lost, Unmoved>>

\* The modules are loaded again: nothing is in the air any more.
Reload(t) ==
    /\ tab' = [tab EXCEPT ![t] = NewTab]
    /\ call' = [call EXCEPT ![t] = [c \in Calls |-> NoCall]]
    /\ UNCHANGED <<stored, server, lost, Unmoved>>

SessionExpires ==
    /\ expired < server.issued /\ expired < MaxExpired
    /\ expired' = expired + 1
    /\ UNCHANGED <<tab, call, stored, server, lost, clicks, entered>>

\* The server refuses what it has issued so far, as after a change of its keys.
Revoke ==
    /\ server.revoked < server.issued /\ server.issued <= MaxRevoked
    /\ server' = [server EXCEPT !.revoked = server.issued]
    /\ UNCHANGED <<tab, call, stored, lost, Unmoved>>

Next ==
    \/ \E t \in Tabs :
          \/ FlightGoesOn(t) \/ OpenLobby(t) \/ LeaveLobby(t) \/ Reload(t)
          \/ \E c \in Calls : \/ HandleQuickPlay(t, c) \/ HandleJoinByCode(t, c)
                              \/ HandleJoinRecent(t, c) \/ RpcEnds(t, c)
    \/ SessionExpires \/ Revoke

\* A request of a tab ends, by an answer or by its timeout; nothing else has to happen.
RequestEnds(t) == FlightGoesOn(t) \/ \E c \in Calls : RpcEnds(t, c)

Spec == Init /\ [][Next]_vars /\ \A t \in Tabs : WF_vars(RequestEnds(t))

-----------------------------------------------------------------------------
(* Properties                                                               *)

\* A call that was refused is never made again under the session it was refused with:
\* not by the copy another tab shares, nor by a request that was already in the air
\* (clearSessionCache before ensureNakamaSession in callNakamaRpc).
RefusedIsNotReused ==
    \A t \in Tabs, c \in Calls :
        call[t][c].step = "rpc" /\ call[t][c].refused # NoSession =>
            call[t][c].session > call[t][c].refused

\* Two tabs of a new device that sign in at once both get in: without a lost request
\* no call fails for want of a session (authenticateDeviceWithRetries), and without a
\* revocation none fails for a refused one.
ErrorsHaveCauses ==
    \A t \in Tabs :
        /\ tab[t].error = "signin" => lost > 0
        /\ tab[t].error = "refused" => server.revoked # NoSession

\* No tab undoes what another has written: the recent tables are the newest ones
\* entered, each once, and the profile counts every entry and has the latest buy-in
\* (upsertRecentTable, recordQuickPlayResolved, recordTableJoin).
BrowserRemembers ==
    LET quick == {i \in DOMAIN entered : entered[i].quick}
        codes == {entered[i].code : i \in DOMAIN entered}
        Newest(code) == Min({i \in DOMAIN entered : entered[i].code = code})
    IN /\ stored.profile.joins = Len(entered) /\ stored.profile.resolves = Cardinality(quick)
       /\ stored.profile.buyIn = IF quick = {} THEN DefaultBuyIn ELSE entered[Min(quick)].buyIn
       /\ Len(stored.recent) = Min({MaxRecent, Cardinality(codes)})
       /\ \A i \in DOMAIN stored.recent :
             /\ stored.recent[i] \in codes
             /\ Cardinality({code \in codes : Newest(code) < Newest(stored.recent[i])}) = i - 1

\* The page never stays at "loading": a call that was started ends, whatever becomes
\* of the session, of the request for it and of the other callers that wait for it
\* (callNakamaRpc under the handlers' finally).
ClicksAreAnswered == []<>(\A t \in Tabs : ~tab[t].loading)
=============================================================================
