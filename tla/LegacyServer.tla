---------------------------- MODULE LegacyServer ----------------------------
(***************************************************************************)
(* The WebSocket server for local play (apps/server): one table for all,   *)
(* sockets that come and go, and a timer that runs every 500 ms.           *)
(*                                                                         *)
(* A player is an id drawn for a join: a socket that joins again gets a    *)
(* new one, and nobody ever gives a seat back.                             *)
(*                                                                         *)
(* Left out: reactions and chat, which keep nothing but the time of the    *)
(* last one, and the audit log over HTTP.  A message the server answers    *)
(* with an error changes nothing and is no step.                           *)
(***************************************************************************)
EXTENDS TableView

CONSTANTS Sockets

VARIABLES
    table,
    clients,    \* the sockets that are open, each with a player's id
    sees,       \* what each socket was last shown: nothing, the table, or an older one
    replaced    \* the ids whose socket has joined again under another one (history)

vars == <<table, clients, sees, replaced>>

Open == DOMAIN clients

Init ==
    /\ table = NewTable
    /\ clients = [s \in {} |-> NoOne]
    /\ sees = [s \in Sockets |-> "nothing"]
    /\ replaced = {}

\* The table is now `t`; those it is not shown to are left with what they saw.
Becomes(t, shown) ==
    /\ table' = t
    /\ sees' = [s \in Sockets |->
                  IF s \in Open /\ s \in shown THEN "table"
                  ELSE IF sees[s] = "table" THEN "older" ELSE sees[s]]

\* broadcast
Broadcasts(t) == Becomes(t, Sockets)

\* Ids that no join has drawn yet.
Fresh == People \ (table.seated \cup replaced)

\* A new socket has an id that nobody sits under.
Connection(s) ==
    /\ s \notin Open
    /\ clients' = [x \in Open \cup {s} |-> IF x = s THEN NoOne ELSE clients[x]]
    /\ sees' = [sees EXCEPT ![s] = "nothing"]
    /\ UNCHANGED <<table, replaced>>

\* join: any socket may join, also one that has joined before.
Join(s) ==
    \E p \in Fresh :
        /\ \E t \in DealsNext(TakesSeat(table, p)) :
              /\ table' = t
              /\ sees' = [x \in Sockets |-> IF x \in Open THEN "table" ELSE sees[x]]
        /\ clients' = [clients EXCEPT ![s] = p]
        /\ replaced' = replaced \cup ({clients[s]} \ {NoOne})

\* What the table can become by a message of player p, who may have no seat yet.
Reconnect(p) == DealsNext(ComesBack(table, p))
Action(p) == IF OnTurnNow(table, p) THEN ActNow(table, p) ELSE {}
Discard(p) == IF table.phase = "discard" /\ p \in table.pending THEN GiveCard(table, p) ELSE {}
NextHand == IF Playing(table) THEN {} ELSE ClearsHand(table)
Rebuy(p) ==
    IF ~Playing(table) /\ p \in table.broke \cup table.out THEN {BuysIn(table, p)} ELSE {}
SitOut(p) ==
    IF ~Playing(table) /\ p \in table.seated THEN {SitsOut(table, p)} ELSE {}
ReadyForHand(p) ==
    IF p \in table.seated
    THEN UNION {PassGate(SaysReady(table, p, ready), elapsed) : ready, elapsed \in BOOLEAN}
    ELSE {}

\* handleMessage: every message that changes something is followed by a broadcast.
HandleMessage(s) ==
    /\ \E p \in {clients[s]} :
          \E t \in UNION {Reconnect(p), Action(p), Discard(p), NextHand, Rebuy(p), SitOut(p),
                          ReadyForHand(p)} :
             Broadcasts(t)
    /\ UNCHANGED <<clients, replaced>>

\* requestState
RequestState(s) ==
    /\ sees' = [sees EXCEPT ![s] = "table"]
    /\ UNCHANGED <<table, clients, replaced>>

\* A wrong form of Disconnects: the socket is forgotten before its player is looked up.
DisconnectsNobody(t, p) == {t}

\* handleDisconnect, which leaves the table alone for an id that has no seat
Disconnects(t, p) == IF p \in t.seated THEN Vanish(t, p) ELSE {t}

Close(s) ==
    /\ \E t \in Disconnects(table, clients[s]) : Broadcasts(t)
    /\ clients' = [x \in Open \ {s} |-> clients[x]]
    /\ UNCHANGED replaced

-----------------------------------------------------------------------------
(* The timer                                                                *)

\* The clock that runs on table t was already running on table t0.
SameClock(t0, t) ==
    t.phase = t0.phase /\ t.turn = t0.turn /\ t.pending \subseteq t0.pending

\* A wrong form of Shows: what the start gate does is not looked at.
ShowsHand(gate, advanced, acted, before, after) == advanced \/ acted \/ before # after

\* The timer broadcasts if the gate changed, the hand moved on, somebody was acted for, or
\* other players owe a discard than before.
Shows(gate, advanced, acted, before, after) == gate \/ advanced \/ acted \/ before # after

\* Each clock that has run out is seen once, and never one that has just been started.
Tick(due) ==
    \E gated \in PassGate(table, "start" \in due) :
      LET advances == "pause" \in due /\ gated.phase = "pause" /\ SameClock(table, gated)
      IN \E on \in IF advances THEN PauseIsOver(gated) ELSE {gated} :
           LET runsOut == "betting" \in due /\ on.phase = "betting" /\ SameClock(table, on)
           IN \E acts \in BOOLEAN :
              /\ acts => runsOut
              /\ \E acted \in IF acts THEN ActNow(on, on.turn) ELSE {on} :
                   LET discards == /\ "discard" \in due /\ acted.phase = "discard"
                                   /\ SameClock(table, acted)
                   IN \E t \in IF discards THEN GiveAllCards(acted) ELSE {acted} :
                        LET gate == table.gate # gated.gate \/ table.ready # gated.ready
                                       \/ (FirstHandWaiting(table) /\ ~FirstHandWaiting(gated))
                            shows == Shows(gate, advances, acts, acted.pending, t.pending)
                        IN /\ gate \/ advances \/ acts \/ discards
                           /\ Becomes(t, IF shows THEN Sockets ELSE {})
                           /\ UNCHANGED <<clients, replaced>>

Next ==
    \/ \E s \in Sockets : Connection(s)
    \/ \E s \in Open : Join(s) \/ HandleMessage(s) \/ RequestState(s) \/ Close(s)
    \/ \E due \in SUBSET {"start", "pause", "betting", "discard"} : Tick(due)

Spec == Init /\ [][Next]_vars

-----------------------------------------------------------------------------
(* Properties                                                               *)

\* A client is never left with an older table, with one exception: when the discards of
\* a hand in which nobody can bet any more run out for all who owe one, the next card is
\* dealt and the same players owe the next discard at once, and the timer, which compares
\* who owes a discard before and after, takes that for no change (setInterval).
OnlyDiscardsAreHidden ==
    \A s \in Open : sees[s] = "older" => table.phase = "discard" /\ table.pending # {}

\* Nobody is dealt in without a client: whoever sits and does not sit out has an open
\* socket, unless that socket has joined again as somebody else (close, join).
NobodyPlaysAlone ==
    \A p \in table.seated \ table.out :
        p \in replaced \/ \E s \in Open : clients[s] = p
=============================================================================
