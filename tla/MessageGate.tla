---------------------------- MODULE MessageGate ----------------------------
(***************************************************************************)
(* The sequence numbers that keep the messages of one player from being    *)
(* applied twice or late: counted by the player's browser tabs             *)
(* (apps/web/components/PokerGamePage.tsx), checked by the match           *)
(* (apps/nakama/src/pdhMatch.ts).                                          *)
(*                                                                         *)
(* A socket keeps the order of what is sent, but what it carried may       *)
(* arrive again at any time, and what is on the way when it closes may     *)
(* arrive after that.  The tabs of a browser share localStorage, which     *)
(* each of them reads only when it is loaded.                              *)
(***************************************************************************)
EXTENDS Naturals, Sequences

CONSTANTS Tabs,
          MaxSession, \* bound: how often tabs are loaded
          MaxSeq      \* bound: the highest number that a tab gives out

ASSUME BoundsAssumption == MaxSession \in Nat /\ MaxSeq \in Nat

VARIABLES
    open,     \* the player's presences in the match
    last,     \* lastSeqByPlayer, 0 if it has no entry
    kept,     \* lastSeqByPlayer in the checkpoint
    stored,   \* nextMutatingSeq in localStorage, 0 if it has none
    tab,      \* the session a tab has (0: the tab is closed), nextMutatingSeqRef
    session,  \* unused, connecting, joined or left
    wire,     \* what a session has sent, or will send once it has joined
    arrived,  \* what has reached the server, and may reach it again
    accepted, \* history: the messages that got past the gate
    replayed, \* history: one of them did so twice
    refused,  \* history: one was refused for its number on its first arrival, although the
              \* session had joined and still had its tab
    alone     \* history: there never were two tabs at once

serverVars == <<open, last, kept>>
clientVars == <<stored, tab>>
history == <<accepted, replayed, refused, alone>>
vars == <<serverVars, clientVars, session, wire, arrived, history>>

Sessions == 1..MaxSession
Messages == Sessions \X (1..MaxSeq)

Init ==
    /\ open = {} /\ last = 0 /\ kept = 0
    /\ stored = 0
    /\ tab = [t \in Tabs |-> [session |-> 0, next |-> 1]]
    /\ session = [s \in Sessions |-> "unused"]
    /\ wire = [s \in Sessions |-> <<>>]
    /\ arrived = {}
    /\ accepted = {} /\ replayed = FALSE /\ refused = FALSE /\ alone = TRUE

-----------------------------------------------------------------------------
(* The browser.                                                             *)

Loaded(t) == tab[t].session # 0

\* what a page starts to count with
FirstNumber == IF stored > 0 THEN stored ELSE 1

\* A tab is opened or, after it was closed, loaded again.
Load(t, s) ==
    /\ ~Loaded(t)
    /\ session[s] = "unused" /\ \A r \in Sessions : r < s => session[r] # "unused"
    /\ tab' = [tab EXCEPT ![t] = [session |-> s, next |-> FirstNumber]]
    /\ session' = [session EXCEPT ![s] = "connecting"]
    /\ alone' = (alone /\ \A u \in Tabs : ~Loaded(u))
    /\ UNCHANGED <<serverVars, stored, wire, arrived, accepted, replayed, refused>>

\* Mutant of Send: the number is not written to localStorage.
SendForgetting(t) ==
    LET s == tab[t].session
        n == tab[t].next
    IN /\ Loaded(t) /\ n <= MaxSeq
       /\ tab' = [tab EXCEPT ![t].next = n + 1]
       /\ wire' = IF session[s] = "left" THEN wire ELSE [wire EXCEPT ![s] = Append(@, n)]
       /\ UNCHANGED <<serverVars, stored, session, arrived, history>>

\* withMutatingSeq and send: before the page has joined the message waits in
\* pendingMessagesRef; on a socket that is gone the number is used all the same.
Send(t) ==
    LET s == tab[t].session
        n == tab[t].next
    IN /\ Loaded(t) /\ n <= MaxSeq
       /\ tab' = [tab EXCEPT ![t].next = n + 1]
       /\ stored' = n + 1
       /\ wire' = IF session[s] = "left" THEN wire ELSE [wire EXCEPT ![s] = Append(@, n)]
       /\ UNCHANGED <<serverVars, session, arrived, history>>

\* The tab is closed or reloaded; what it could not send yet is lost.
Close(t) ==
    LET s == tab[t].session
    IN /\ Loaded(t)
       /\ tab' = [tab EXCEPT ![t].session = 0]
       /\ IF session[s] = "connecting"
          THEN /\ session' = [session EXCEPT ![s] = "left"]
               /\ wire' = [wire EXCEPT ![s] = <<>>]
          ELSE UNCHANGED <<session, wire>>
       /\ UNCHANGED <<serverVars, stored, arrived, history>>

-----------------------------------------------------------------------------
(* The match.                                                               *)

\* matchJoin; the page then flushes what was waiting
Joins(s) ==
    /\ session[s] = "connecting"
    /\ session' = [session EXCEPT ![s] = "joined"]
    /\ open' = open \cup {s}
    /\ UNCHANGED <<last, kept, clientVars, wire, arrived, history>>

\* matchLeave: the tab was closed, or its connection is lost
Leaves(s) ==
    /\ session[s] = "joined"
    /\ session' = [session EXCEPT ![s] = "left"]
    /\ open' = open \ {s}
    /\ UNCHANGED <<last, kept, clientVars, wire, arrived, history>>

\* Mutant of Bound: whichever session of the player is present will do.
BoundToPlayer(s) == open # {}

\* ensurePresenceBound
Bound(s) == s \in open

\* reserveSequence
Fresh(n) == n > last

RefusesOwn(s, n) ==
    /\ Bound(s) /\ ~Fresh(n)
    /\ <<s, n>> \notin arrived
    /\ \E t \in Tabs : tab[t].session = s

\* The number is reserved whatever becomes of the message afterwards.
Receive(s, n) ==
    /\ last' = IF Bound(s) /\ Fresh(n) THEN n ELSE last
    /\ accepted' = IF Bound(s) /\ Fresh(n) THEN accepted \cup {<<s, n>>} ELSE accepted
    /\ replayed' = (replayed \/ (Bound(s) /\ Fresh(n) /\ <<s, n>> \in accepted))
    /\ refused' = (refused \/ RefusesOwn(s, n))

Deliver(s) ==
    /\ session[s] \in {"joined", "left"}
    /\ wire[s] # <<>>
    /\ Receive(s, Head(wire[s]))
    /\ wire' = [wire EXCEPT ![s] = Tail(@)]
    /\ arrived' = arrived \cup {<<s, Head(wire[s])>>}
    /\ UNCHANGED <<open, kept, clientVars, session, alone>>

\* A message arrives again.
Repeat(s, n) ==
    /\ <<s, n>> \in arrived
    /\ Receive(s, n)
    /\ UNCHANGED <<open, kept, clientVars, session, wire, arrived, alone>>

\* Mutant of Release: the number is forgotten when a tab is gone, though another is not.
ReleaseEarly ==
    /\ \E s \in Sessions : session[s] = "left"
    /\ last' = 0
    /\ UNCHANGED <<open, kept, clientVars, session, wire, arrived, history>>

\* releaseExpiredDisconnectedSeats: only without presence
Release ==
    /\ open = {}
    /\ last' = 0
    /\ UNCHANGED <<open, kept, clientVars, session, wire, arrived, history>>

\* persistCheckpoint
Checkpoint ==
    /\ kept' = last
    /\ UNCHANGED <<open, last, clientVars, session, wire, arrived, history>>

\* The match dies, and the next one starts from the checkpoint or with none.
Restart ==
    /\ open' = {}
    /\ last' \in {0, kept}
    /\ kept' = last'
    /\ session' = [s \in Sessions |-> IF session[s] = "joined" THEN "left" ELSE session[s]]
    /\ UNCHANGED <<clientVars, wire, arrived, history>>

Next ==
    \/ \E t \in Tabs : (\E s \in Sessions : Load(t, s)) \/ Send(t) \/ Close(t)
    \/ \E s \in Sessions : Joins(s) \/ Leaves(s) \/ Deliver(s)
    \/ \E m \in Messages : Repeat(m[1], m[2])
    \/ Release \/ Checkpoint \/ Restart

Spec == Init /\ [][Next]_vars

-----------------------------------------------------------------------------
(* Properties.                                                              *)

\* Every variable keeps its type, and the presences are the sessions that have joined
\* and not left.
TypeOK ==
    /\ open = {s \in Sessions : session[s] = "joined"}
    /\ last \in 0..MaxSeq /\ kept \in 0..MaxSeq /\ stored \in 0..(MaxSeq + 1)
    /\ tab \in [Tabs -> [session : 0..MaxSession, next : 1..(MaxSeq + 1)]]
    /\ session \in [Sessions -> {"unused", "connecting", "joined", "left"}]
    /\ wire \in [Sessions -> Seq(1..MaxSeq)]
    /\ arrived \subseteq Messages /\ accepted \subseteq arrived
    /\ replayed \in BOOLEAN /\ refused \in BOOLEAN /\ alone \in BOOLEAN

\* "Only the first fresh sequence for a player is accepted": no message gets past the
\* gate twice, however it is repeated or delayed, and although the last number is
\* forgotten when the seat is released and set back by a restart.
NothingIsReplayed == ~replayed

\* While a player stays present, messages are applied in the order of their numbers: one
\* of a tab that was overtaken by another is not applied late.
NumbersOnlyRise == [][open \cap open' # {} => last' >= last]_vars

\* A player with one tab at a time never has a message refused for its number: the
\* counter in the browser stays ahead of the match over reloads, lost connections,
\* released seats and restarts.
OwnNumbersAreFresh == alone => ~refused
=============================================================================
