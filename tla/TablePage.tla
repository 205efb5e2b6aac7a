----------------------------- MODULE TablePage -----------------------------
(***************************************************************************)
(* The table page of the web client (apps/web/components/PokerGamePage)    *)
(* playing against a match: what the page keeps about the player's discard *)
(* and about his choice for the next hand, how it is told apart from what  *)
(* the server keeps, and the socket between them.                          *)
(*                                                                         *)
(* The page is a React component.  `page.next` is what the setters have    *)
(* asked for, `page.shown` is what was last rendered: a handler's closure  *)
(* sees `shown`, a ref is seen at once, and an effect runs when a render   *)
(* changes what it depends on.  Snapshots that arrive before the next      *)
(* render are rendered together, so the page may never show some of them.  *)
(* A click is rendered before anything else happens.                       *)
(*                                                                         *)
(* The player may also have the table open elsewhere: in another tab, which *)
(* shares localStorage, or on another device.  The numbers that every page *)
(* gives to its messages are in MessageGate, which shows that none is      *)
(* refused for its number while there is only one page; here a message of  *)
(* this page may be refused for it as soon as another page has been used.  *)
(*                                                                         *)
(* Left out: the player's betting (it keeps nothing on the page), sounds,  *)
(* layout, telemetry, chat and reactions apart from the errors they may    *)
(* provoke, what the other page shows, and the legacy socket.              *)
(***************************************************************************)
EXTENDS Naturals, Sequences, SequencesExt

CONSTANTS
    MaxHand,        \* bound: the hands the table deals
    MaxStreet,      \* bound: the streets of a hand, each with its discard
    MaxQueue,       \* bound: the messages in flight when the table or the player adds one
    MaxBehind,      \* the messages that may be rendered together: a page that falls
                    \* behind by a whole hand can miss what its player was dealt
    MaxReload,      \* bound: how often the player reloads the page
    MaxElsewhere    \* bound: how often he uses another page of the table

ASSUME TablePageBounds ==
    /\ MaxHand \in Nat \ {0} /\ MaxStreet \in Nat \ {0}
    /\ MaxQueue \in Nat \ {0} /\ MaxBehind \in Nat \ {0}
    /\ MaxReload \in Nat /\ MaxElsewhere \in Nat

VARIABLES
    seat,       \* the match's side: the hand, and the player's seat and duties
    page,       \* the page: shown and next (state), and the refs
    store,      \* the choice for the next hand kept in localStorage
    up,         \* messages to the match
    down,       \* messages to the page
    failed,     \* messages the socket would not take, whose rejection is due
    open,       \* whether the socket is up
    behind,     \* the messages taken in since the page was last rendered
    reloads,    \* how often the page was loaded again
    elsewhere,  \* how often the player has used another page of the table
    stale       \* history: the match has refused a discard of this page for its number,
                \* and demands it still

gate == <<elsewhere, stale>>
vars == <<seat, page, store, up, down, failed, open, behind, reloads, gate>>

-----------------------------------------------------------------------------

Nothing == "none"
Intents == {"rebuy", "sitOut"}
Phases == {"none", "betting", "discard", "showdown"}

Views == [phase : Phases, hand : 0..MaxHand, street : 0..MaxStreet,
          pending : BOOLEAN, chips : BOOLEAN, dealt : BOOLEAN,
          status : {"active", "busted", "sitting_out"}]

BetweenHands(v) == v.phase \in {"none", "showdown"}

\* A wrong form of ObligationKey: the street is left out.
ObligationKeyOfHand(v) == IF v.pending THEN <<v.hand>> ELSE <<>>

\* discardObligationKey: the hand and the street of the discard owed.
ObligationKey(v) == IF v.pending THEN <<v.hand, v.street>> ELSE <<>>

Message(kind) == [kind |-> kind]
Snapshot(v) == [kind |-> "state", state |-> v]
Error(about) == [kind |-> "error", about |-> about]

\* The table and the player add nothing to a socket that is full (a bound).
Calm == Len(up) + Len(down) < MaxQueue

InFlight(kind) == Contains(up, Message(kind))

\* isMutatingClientMessage: the messages that carry a number.
Numbered == {"discard", "rebuy", "sitOut"}

-----------------------------------------------------------------------------
(* The match                                                               *)

\* Every change of the table is broadcast as a snapshot.
Changes(s) ==
    /\ seat' = s
    /\ down' = IF open THEN Append(down, Snapshot(s)) ELSE down
    /\ stale' = (stale /\ s.pending)

\* The table changes by itself.
Table(s) ==
    /\ Calm
    /\ Changes(s)
    /\ UNCHANGED <<page, store, up, failed, open, behind, reloads, elsewhere>>

\* A hand is dealt to the players who have chips and are not sitting out.
StartHand ==
    /\ BetweenHands(seat) /\ seat.hand < MaxHand
    /\ Table([seat EXCEPT !.phase = "betting", !.hand = seat.hand + 1, !.street = 1,
                          !.dealt = seat.chips /\ seat.status = "active"])

\* A betting round closes and the players of the hand each owe a discard.
DemandDiscard ==
    /\ seat.phase = "betting" /\ seat.dealt
    /\ Table([seat EXCEPT !.phase = "discard", !.pending = TRUE])

\* The discard timer discards for the player.
AutoDiscard == seat.pending /\ Table([seat EXCEPT !.pending = FALSE])

\* Nobody owes a discard any more and the next street begins.
CompleteDiscardPhase ==
    /\ seat.phase = "discard" /\ ~seat.pending /\ seat.street < MaxStreet
    /\ Table([seat EXCEPT !.phase = "betting", !.street = seat.street + 1])

\* The hand is settled; a player who stayed to its end may have lost everything.
FinishHand ==
    /\ seat.phase \in {"betting", "discard"} /\ ~seat.pending
    /\ \E keeps \in BOOLEAN :
          /\ keeps \/ (seat.dealt /\ seat.street = MaxStreet)
          /\ Table([seat EXCEPT !.phase = "showdown", !.dealt = FALSE,
                !.chips = seat.chips /\ keeps,
                !.status = IF keeps THEN seat.status ELSE "busted"])

\* Too few players are left for another hand, and the table empties.
ClearHand == seat.phase = "showdown" /\ Table([seat EXCEPT !.phase = "none"])

Accepts(kind) ==
    CASE kind = "discard" -> seat.pending
      [] kind = "rebuy"   -> BetweenHands(seat) /\ (~seat.chips \/ seat.status = "busted")
      [] kind = "sitOut"  -> BetweenHands(seat)
      [] kind = "ready"   -> seat.phase = "showdown" /\ seat.chips /\ seat.status = "active"
      [] OTHER            -> TRUE

Applied(kind) ==
    CASE kind = "discard" -> [seat EXCEPT !.pending = FALSE]
      [] kind = "rebuy"   -> [seat EXCEPT !.chips = TRUE, !.status = "active"]
      [] kind = "sitOut"  -> [seat EXCEPT !.status = "sitting_out"]
      [] OTHER            -> seat

\* reserveSequence: whether the number of a message of this page is above the last
\* one taken.  A page counts from what was stored when it was loaded, so it cannot
\* tell as soon as another page has counted too.
NumberIsFresh(kind) ==
    IF kind \in Numbered /\ elsewhere > 0 THEN BOOLEAN ELSE {TRUE}

\* A discard is refused as not pending; when its number is refused, when the table
\* has no hand at all, or for any other message, the page cannot tell what was refused.
Refusal(kind, fresh) ==
    Error(IF kind = "discard" /\ fresh /\ seat.phase # "none" THEN "discard" ELSE "other")

\* The match takes the next message, looks at its number first, and answers the page
\* with a snapshot or with the error that refused it.
HandleMessage ==
    /\ up # <<>>
    /\ up' = Tail(up)
    /\ LET kind == Head(up).kind IN
         \E fresh \in NumberIsFresh(kind) :
            \/ /\ fresh /\ Accepts(kind)
               /\ Changes(Applied(kind))
            \/ /\ ~fresh \/ ~Accepts(kind) \/ kind = "chat"
               /\ seat' = seat
               /\ down' = IF open THEN Append(down, Refusal(kind, fresh)) ELSE down
               /\ stale' = (stale \/ (kind = "discard" /\ ~fresh /\ seat.pending))
    /\ UNCHANGED <<page, store, failed, open, behind, reloads, elsewhere>>

\* The player uses another page of the table: the match takes what it sends, or the
\* page, a tab of the same browser, stores or removes a choice.
UseOtherPage ==
    /\ elsewhere < MaxElsewhere /\ elsewhere' = elsewhere + 1
    /\ \/ \E kind \in Numbered : /\ Calm /\ Accepts(kind) /\ Changes(Applied(kind))
                                  /\ store' = store
       \/ store' \in Intents \cup {Nothing} /\ UNCHANGED <<seat, down, stale>>
    /\ UNCHANGED <<page, up, failed, open, behind, reloads>>

-----------------------------------------------------------------------------
(* The page: what its handlers and effects do to it.  A page record carries *)
(* in `out` the messages it has handed to the socket and in `kept` what     *)
(* localStorage holds.                                                      *)

NoView == [phase |-> "none", hand |-> 0, street |-> 0, pending |-> FALSE, chips |-> FALSE,
           dealt |-> FALSE, status |-> "active"]

Fresh == [view |-> NoView, known |-> FALSE, submitted |-> FALSE,
          rebuy |-> "idle", intent |-> Nothing, applying |-> Nothing]

\* The refs: the obligation last seen, the choice, whether the choice has
\* been sent, the progress of a rebuy, and whether its player was readied.
FreshPage == [shown |-> Fresh, next |-> Fresh, key |-> <<>>, intent |-> Nothing,
              sent |-> FALSE, rebuy |-> "idle", readied |-> FALSE]

\* The player is out of chips and no hand stands in the way of a choice.
NeedsRebuy(s) == s.known /\ BetweenHands(s.view) /\ ~s.view.chips

Send(p, kind) == [p EXCEPT !.out = Append(@, Message(kind))]

UpdateRebuyState(p, r) == [p EXCEPT !.rebuy = r, !.next.rebuy = r]

UpdateQueuedNextHandIntent(p, i) ==
    [p EXCEPT !.intent = i, !.sent = FALSE, !.next.intent = i]

RecoverDiscardSubmission(p) ==
    Send([p EXCEPT !.next.submitted = FALSE], "requestState")

\* The first snapshot names the table and the player: the stored choice is read.
ReadStoredIntent(p, old) ==
    IF p.shown.known /\ ~old.known /\ p.kept # Nothing
    THEN [p EXCEPT !.intent = p.kept, !.next.intent = p.kept]
    ELSE p

\* A wrong form of StoreIntent: a choice is stored and never removed.
StoreIntentForGood(p, old) ==
    IF p.shown.known /\ (~old.known \/ p.shown.intent # old.intent)
    THEN [p EXCEPT !.kept = IF p.shown.intent = Nothing THEN @ ELSE p.shown.intent]
    ELSE p

\* The choice is written to localStorage, or removed from it, when it changes.
StoreIntent(p, old) ==
    IF p.shown.known /\ (~old.known \/ p.shown.intent # old.intent)
    THEN [p EXCEPT !.kept = p.shown.intent]
    ELSE p

\* A choice that can be submitted now is sent, once.
SubmitIntent(p, old) ==
    LET s == p.shown
        changed == \/ s.view.phase # old.view.phase \/ s.view.hand # old.view.hand
                   \/ NeedsRebuy(s) # NeedsRebuy(old) \/ s.intent # old.intent
        marked == [p EXCEPT !.sent = TRUE, !.next.applying = s.intent]
    IN  IF ~(changed /\ s.intent # Nothing /\ NeedsRebuy(s) /\ ~p.sent) THEN p
        ELSE IF s.intent = "rebuy" THEN Send(UpdateRebuyState(marked, "pending"), "rebuy")
        ELSE Send(marked, "sitOut")

\* A choice that shows its effect, or that is needed no longer, is dropped.
DropIntent(p, old) ==
    LET s == p.shown
        changed == \/ s.view # old.view \/ s.known # old.known
                   \/ s.applying # old.applying \/ s.intent # old.intent
        satOut == /\ s.intent = "sitOut" /\ s.applying = "sitOut"
                  /\ s.view.status = "sitting_out"
    IN  IF changed /\ s.intent # Nothing /\ s.known /\ (satOut \/ ~NeedsRebuy(s))
        THEN [UpdateQueuedNextHandIntent(p, Nothing) EXCEPT !.next.applying = Nothing]
        ELSE p

\* Chips have arrived: the rebuy is confirmed and the player readied, once.
ConfirmRebuy(p, old) ==
    LET s == p.shown
        changed == s.view # old.view \/ s.known # old.known \/ s.rebuy # old.rebuy
        confirmed == UpdateRebuyState(p, "confirmed")
    IN  IF ~(changed /\ s.rebuy # "idle" /\ s.known /\ ~NeedsRebuy(s) /\ s.view.chips) THEN p
        ELSE IF p.readied \/ ~BetweenHands(s.view) THEN confirmed
        ELSE Send([confirmed EXCEPT !.readied = TRUE], "ready")

\* The next hand is in play: the rebuy is over.
EndRebuy(p, old) ==
    LET s == p.shown
        changed == s.view # old.view \/ s.known # old.known \/ s.rebuy # old.rebuy
    IN  IF changed /\ s.rebuy # "idle" /\ ~NeedsRebuy(s) /\ ~BetweenHands(s.view)
        THEN [UpdateRebuyState(p, "idle") EXCEPT !.readied = FALSE]
        ELSE p

\* Another discard is owed, or none: what was selected or submitted is dropped.
ResetDiscard(p, old) ==
    LET key == ObligationKey(p.shown.view)
    IN  IF key # ObligationKey(old.view) /\ (key = <<>> \/ key # p.key)
        THEN [p EXCEPT !.key = key, !.next.submitted = FALSE]
        ELSE p

\* The results of an effect on the pages of a set: a render is a chain of them.
After(pages, Effect(_, _), old) == {Effect(p, old) : p \in pages}

\* A render and the effects it causes, in the order they are declared: the
\* set's one element is the page they leave.
Rendered(p) ==
    LET old == page.shown
        p1 == After({[p EXCEPT !.shown = p.next]}, ReadStoredIntent, old)
        p2 == After(After(p1, StoreIntent, old), SubmitIntent, old)
        p3 == After(After(p2, DropIntent, old), ConfirmRebuy, old)
    IN  After(After(p3, EndRebuy, old), ResetDiscard, old)

\* The page as the handlers get it: with nothing handed to the socket yet.
Now == [shown |-> page.shown, next |-> page.next, key |-> page.key, intent |-> page.intent,
        sent |-> page.sent, rebuy |-> page.rebuy, readied |-> page.readied,
        out |-> <<>>, kept |-> store]

\* The page becomes p.  What it sent is on its way if the socket is up, and
\* will be rejected if it is not.
Becomes(p) ==
    /\ page' = [f \in DOMAIN page |-> p[f]]
    /\ store' = p.kept
    /\ IF open
       THEN /\ up' = up \o p.out
            /\ failed' = failed
       ELSE /\ up' = up
            /\ failed' = failed \cup {p.out[i].kind : i \in DOMAIN p.out}

-----------------------------------------------------------------------------
(* The page: its events                                                    *)

Render ==
    /\ page.next # page.shown
    /\ \E p \in Rendered(Now) : Becomes(p)
    /\ behind' = 0
    /\ UNCHANGED <<seat, down, open, reloads, gate>>

ReceiveState(p, v) == [p EXCEPT !.next.view = v, !.next.known = TRUE]

\* A wrong form of ReceiveError: the choice refused stays marked as being applied.
ReceiveErrorQuietly(p, about) ==
    LET p1 == IF p.rebuy # "idle"
              THEN [UpdateRebuyState(p, "idle") EXCEPT !.readied = FALSE] ELSE p
    IN  IF about = "discard" THEN RecoverDiscardSubmission(p1) ELSE p1

ReceiveError(p, about) ==
    LET p1 == IF p.rebuy # "idle"
              THEN [UpdateRebuyState(p, "idle") EXCEPT !.readied = FALSE] ELSE p
        p2 == IF p.intent # Nothing
              THEN [p1 EXCEPT !.next.applying = Nothing, !.sent = FALSE] ELSE p1
    IN  IF about = "discard" THEN RecoverDiscardSubmission(p2) ELSE p2

OnServerMessage ==
    /\ down # <<>> /\ behind < MaxBehind
    /\ LET m == Head(down) IN
         \E p \in {IF m.kind = "state" THEN ReceiveState(Now, m.state)
                                        ELSE ReceiveError(Now, m.about)} : Becomes(p)
    /\ down' = Tail(down)
    /\ behind' = IF page'.next = page'.shown THEN 0 ELSE behind + 1
    /\ UNCHANGED <<seat, open, reloads, gate>>

\* The socket rejects a message handed to it while it was down.
SendFails ==
    /\ \E kind \in failed :
         /\ failed' = failed \ {kind}
         /\ page' = LET p == Now
                        q == CASE kind = "discard" -> RecoverDiscardSubmission(p)
                               [] kind \in Intents ->
                                    [UpdateRebuyState(p, "idle") EXCEPT !.readied = FALSE,
                                        !.next.applying = Nothing, !.sent = FALSE]
                               [] OTHER -> p
                    IN  [f \in DOMAIN page |-> q[f]]
    /\ UNCHANGED <<seat, store, up, down, open, behind, reloads, gate>>

\* The player clicks.
Clicks(p) ==
    /\ Calm
    /\ \E q \in {p} : \E r \in Rendered(q) : Becomes(r)
    /\ behind' = 0
    /\ UNCHANGED <<seat, down, open, reloads, gate>>

\* The rebuy and the sit-out button, shown to a player out of chips.
ChooseNextHandIntent(i) ==
    /\ NeedsRebuy(page.shown) /\ page.shown.applying = Nothing
    /\ Clicks([UpdateQueuedNextHandIntent(Now, i) EXCEPT !.readied = FALSE,
                                                         !.next.applying = Nothing])

\* The player picks a card and confirms its discard.
SubmitDiscard ==
    /\ page.shown.view.pending /\ ~page.shown.submitted
    /\ Clicks(Send([Now EXCEPT !.next.submitted = TRUE], "discard"))

\* The player chats, which the match may refuse for being too soon: an error
\* that matters to the page only while a choice is kept.
SendChatMessage ==
    /\ page.shown.known /\ page.intent # Nothing
    /\ Clicks(Send(Now, "chat"))

\* The socket goes down with what is on its way; the page does not come back by itself.
LoseSocket ==
    /\ open /\ open' = FALSE
    /\ up' \in {up, <<>>}
    /\ down' = <<>>
    /\ UNCHANGED <<seat, page, store, failed, behind, reloads, gate>>

\* The player leaves the table, which also drops his stored choice.
HandleExitTable ==
    /\ open /\ page.shown.known
    /\ open' = FALSE /\ page' = FreshPage /\ store' = Nothing
    /\ down' = <<>> /\ behind' = 0
    /\ UNCHANGED <<seat, up, failed, reloads, gate>>

\* The page is loaded again, or visited again, and asks for the state.
Reload ==
    /\ reloads < MaxReload /\ reloads' = reloads + 1
    /\ open' = TRUE /\ page' = FreshPage
    /\ \E kept \in {up, <<>>} : up' = Append(kept, Message("requestState"))
    /\ down' = <<>> /\ failed' = {} /\ behind' = 0
    /\ UNCHANGED <<seat, store, gate>>

-----------------------------------------------------------------------------

Init ==
    /\ \E chips \in BOOLEAN :
         seat = [NoView EXCEPT !.chips = chips, !.status = IF chips THEN "active" ELSE "busted"]
    /\ page = FreshPage
    /\ store = Nothing
    /\ up = <<Message("requestState")>> /\ down = <<>> /\ failed = {}
    /\ open = TRUE /\ behind = 0 /\ reloads = 0
    /\ elsewhere = 0 /\ stale = FALSE

Next ==
    \/ StartHand \/ DemandDiscard \/ AutoDiscard \/ CompleteDiscardPhase
    \/ FinishHand \/ ClearHand \/ HandleMessage \/ UseOtherPage
    \/ Render \/ OnServerMessage \/ SendFails
    \/ \E i \in Intents : ChooseNextHandIntent(i)
    \/ SubmitDiscard \/ SendChatMessage
    \/ LoseSocket \/ HandleExitTable \/ Reload

\* The match loop and the socket keep delivering, and the page keeps rendering.
Spec == /\ Init /\ [][Next]_vars
        /\ WF_vars(HandleMessage) /\ WF_vars(OnServerMessage) /\ WF_vars(Render)

-----------------------------------------------------------------------------

Settled == open /\ page.next = page.shown /\ page.shown.known

\* NoDiscardHangs.  A page that shows a discard owed and says it has been
\* submitted is waiting for something: its discard is on its way, or an
\* answer or a snapshot is (submitDiscard, the obligation effect and
\* recoverDiscardSubmission).  The one exception is a player who has used
\* another page of the table: a discard whose number was refused is not taken
\* for refused by the page (onServerMessage knows two other errors only).  It
\* then stays submitted while the match still has that very discard to
\* demand, until it is made elsewhere or the discard timer makes it.
NoDiscardHangs ==
    Settled /\ page.shown.view.pending /\ page.shown.submitted =>
        \/ InFlight("discard") \/ down # <<>>
        \/ elsewhere > 0 /\ stale /\ ObligationKey(seat) = ObligationKey(page.shown.view)

\* StoreMirrorsChoice.  Whenever the page has nothing left to render, and no
\* other page writes to the same place, what is stored for the next load is
\* the choice it shows: a choice outlives a reload until it is answered, and
\* one that was answered is never applied again.
StoreMirrorsChoice == Settled /\ elsewhere = 0 => store = page.shown.intent

\* ChoicesAreAnswered.  A choice shown as being applied does not stay so: it is
\* answered, by a snapshot or an error, unless the connection is lost.  The
\* buttons are disabled in the meantime, so a player would be stuck.
ChoicesAreAnswered ==
    (page.next.applying # Nothing) ~> (page.next.applying = Nothing \/ ~open)
=============================================================================
