------------------------------ MODULE PdhMatch ------------------------------
(***************************************************************************)
(* The authoritative match of one table (apps/nakama/src/pdhMatch.ts): who *)
(* is connected, the grace period of the lost, the pause between hands and *)
(* the order in which one tick applies expired deadlines and messages.     *)
(* The table is what TableView says of it, which PokerTable implements.    *)
(*                                                                         *)
(* A tick is a timer pass, the messages received, and a second pass;       *)
(* joins and leaves happen between ticks, a restart at any moment.         *)
(* Whether a deadline has passed when it is looked at is a free choice     *)
(* (`due`), except that one armed during a pass has not passed in it.      *)
(* Sequence numbers are the subject of MessageGate: a mutating message     *)
(* appears here only if its number is accepted.                            *)
(***************************************************************************)
EXTENDS TableView

CONSTANTS Sessions,  \* the sessions there can be, each with the player it belongs to
          MaxPlayers \* maxPlayers

ASSUME MaxPlayersAssumption == MaxPlayers \in Nat \ {0}
ASSUME PeopleAssumption == IsFiniteSet(People)
ASSUME SessionsAssumption == \A x \in Sessions : x[1] \in People

VARIABLES match,     \* MatchState, with what the running handler has to do:
                     \*   raised  stateVersion was raised in this step
                     \*   cast    shouldBroadcast
                     \*   save    this step has reasons for a checkpoint
          inTick,    \* matchLoop is between its two timer passes
          lapsed,    \* history: whose grace period the running tick began by finding over
          versioned, \* history: a state shown under the same version was always the same
          seen,      \* history: everyone connected was sent the state as it is now
          saved      \* history: the last checkpoint was built from the state as it is now

vars == <<match, inTick, lapsed, versioned, seen, saved>>

NoPause == [on |-> FALSE, stage |-> "fresh", ready |-> {}]

Statuses == {"unknown", "connected", "reconnecting", "disconnected"}

MatchStates ==
    [table : TableViews, present : SUBSET Sessions, conn : [People -> Statuses],
     between : [on : BOOLEAN, stage : {"fresh", "ripe", "late"}, ready : SUBSET People],
     raised : BOOLEAN, cast : BOOLEAN, save : BOOLEAN]

-----------------------------------------------------------------------------
(* Readings of the match m.                                                 *)

\* Mutant of Connected: a player is taken to have one session.
ConnectedByOne(m, p) == (CHOOSE x \in Sessions : x[1] = p) \in m.present

Connected(m, p) == \E x \in m.present : x[1] = p

\* playerConnectionForSnapshot
ShownConnection(m, p) ==
    IF Connected(m, p) THEN "connected"
    ELSE IF m.conn[p] = "unknown" THEN "disconnected" ELSE m.conn[p]

\* stateSnapshotForPresence, before it is cut down for one player
View(m) ==
    [table |-> m.table, between |-> m.between.on, ready |-> m.between.ready,
     connections |-> {<<p, ShownConnection(m, p)>> : p \in m.table.seated}]

\* what a restarted match is restored from (buildCheckpoint)
Durable(m) ==
    [table |-> m.table, between |-> m.between.on, ready |-> m.between.ready, conn |-> m.conn]

Table == match.table

Showdown(m) == m.table.phase = "showdown"

\* eligibleBetweenHandPlayerIds
Eligible(m) == Playable(m.table)

\* The deadlines that run, each of which a pass may find passed: the first hand's
\* countdown, the pause between phases, the clocks of the hand, grace periods.
Running(m) ==
    (IF m.table.gate THEN {"start"} ELSE {})
    \cup (IF m.table.phase \in {"pause", "betting", "discard"} THEN {m.table.phase} ELSE {})
    \cup {p \in People : m.conn[p] = "reconnecting"}

-----------------------------------------------------------------------------
(* Changes and what they oblige the handler to do.                          *)

\* Its callers broadcast and checkpoint what has changed.
Changed(m) == [m EXCEPT !.raised = TRUE, !.cast = TRUE, !.save = TRUE]

\* Mutant of Commit: no checkpoint is asked for.
CommitUnsaved(m, t) ==
    IF t = m.table THEN m ELSE [m EXCEPT !.table = t, !.raised = TRUE, !.cast = TRUE]

\* commitTableMutation
Commit(m, t) == IF t = m.table THEN m ELSE Changed([m EXCEPT !.table = t])

CommitOneOf(m, tables) == {Commit(m, t) : t \in tables}

\* markPlayerConnected, -Reconnecting, -Disconnected.  The record holds the time of
\* the call, so it is never the same as the one before.
Mark(m, p, status) == Changed([m EXCEPT !.conn[p] = status])

\* pruneBetweenHandReadyPlayers
Prune(m) ==
    LET ready == m.between.ready \cap Eligible(m)
    IN IF ready = m.between.ready THEN m ELSE Changed([m EXCEPT !.between.ready = ready])

OpenPause(m) == Changed([m EXCEPT !.between = [NoPause EXCEPT !.on = TRUE]])
ClosePause(m) == IF m.between.on THEN Changed([m EXCEPT !.between = NoPause]) ELSE m

\* Mutant of EnsureBetweenHand: who was ready stays ready.
EnsureBetweenHandUnpruned(m) ==
    IF ~Showdown(m) THEN ClosePause(m) ELSE IF m.between.on THEN m ELSE OpenPause(m)

\* ensureBetweenHandState: a pause for a hand that is over, and only then
EnsureBetweenHand(m) ==
    IF ~Showdown(m) THEN ClosePause(m) ELSE IF m.between.on THEN Prune(m) ELSE OpenPause(m)

\* Mutant of NextHandDue: one player is not waited for.
NextHandDueImpatient(m) ==
    /\ m.between.on
    /\ m.between.stage # "fresh"
    /\ Cardinality(Eligible(m)) >= MinimumToPlay =>
          Cardinality(Eligible(m) \ m.between.ready) <= 1 \/ m.between.stage = "late"

\* Mutant of NextHandDue: without enough eligible players the pause goes on.
NextHandDueOnlyToPlay(m) ==
    /\ m.between.on
    /\ m.between.stage # "fresh"
    /\ Cardinality(Eligible(m)) >= MinimumToPlay
    /\ Eligible(m) \subseteq m.between.ready \/ m.between.stage = "late"

\* After its minimum the pause ends when everyone eligible is ready, when it has
\* lasted too long, or when too few are left to play.
NextHandDue(m) ==
    /\ m.between.on
    /\ m.between.stage # "fresh"
    /\ Cardinality(Eligible(m)) >= MinimumToPlay =>
          Eligible(m) \subseteq m.between.ready \/ m.between.stage = "late"

\* advanceBetweenHandIfReady
AdvanceBetweenHand(m) ==
    LET e == EnsureBetweenHand(m)
    IN IF NextHandDue(e) THEN CommitOneOf([e EXCEPT !.between = NoPause], ClearsHand(e.table))
       ELSE {e}

-----------------------------------------------------------------------------
(* A timer pass (applyExpiredTableTimers).                                  *)

\* The clock that runs on table t was already running on table t0.
SameClock(t0, t) ==
    t.phase = t0.phase /\ t.turn = t0.turn /\ t.pending \subseteq t0.pending

\* applyGraceExpiryPolicy: if it was the lost player's turn the action is forced
\* first, and then the player leaves the hand, if there still is one
GraceExpires(t, p) ==
    IF ~Playing(t) \/ p \notin t.dealt THEN {SitsOut(t, p)}
    ELSE UNION {IF Playing(u) THEN Vanish(u, p) ELSE {SitsOut(u, p)} :
                   u \in IF OnTurnNow(t, p) THEN ClockRunsOut(t) ELSE {t}}

Expired(m, due) == {p \in People \cap due : m.conn[p] = "reconnecting" /\ ~Connected(m, p)}

Expire(m, p) ==
    LET lost == Mark(m, p, "disconnected")
    IN IF p \in m.table.seated THEN CommitOneOf(lost, GraceExpires(m.table, p)) ELSE {lost}

\* applyExpiredReconnectGrace: the lost players one after the other, in some order
ExpireAll(m, due) ==
    LET after[S \in SUBSET Expired(m, due)] ==
            IF S = {} THEN {m}
            ELSE UNION {UNION {Expire(u, p) : u \in after[S \ {p}]} : p \in S}
    IN after[Expired(m, due)]

\* Mutant of Releasable: also seats that only sit out.
ReleasableSittingOut(m) ==
    {p \in m.table.seated \ m.table.dealt : p \in m.table.out}

Releasable(m) ==
    {p \in m.table.seated \ m.table.dealt : ~Connected(m, p) /\ m.conn[p] = "disconnected"}

\* releaseExpiredDisconnectedSeats
Release(m) ==
    LET gone == Releasable(m)
    IN IF gone = {} THEN m
       ELSE Changed([m EXCEPT !.table = GivesUpSeat(@, gone),
                              !.conn = [p \in People |-> IF p \in gone THEN "unknown" ELSE @[p]]])

\* the tail of a pass: without a hand no pause is on and the next hand may begin
BeginNextHand(m) ==
    IF m.table.phase # "none" THEN {m} ELSE CommitOneOf(ClosePause(m), DealsNext(m.table))

\* The start gate, the pause between phases, grace periods, seats to release, the clock of
\* the player on turn, the discards that are owed, the pause between hands and the next
\* hand, in this order
Pass(m, due) ==
    LET runsOut(clock, n) == clock \in due /\ n.table.phase = clock /\ SameClock(m.table, n.table)
        gated == CommitOneOf(m, PassGate(m.table, "start" \in due))
        opened == UNION {IF runsOut("pause", n) THEN CommitOneOf(n, PauseIsOver(n.table)) ELSE {n} :
                            n \in gated}
        graced == UNION {ExpireAll(n, due) : n \in opened}
        released == {Release(n) : n \in graced}
        acted == UNION {IF runsOut("betting", n) THEN CommitOneOf(n, ClockRunsOut(n.table)) ELSE {n} :
                           n \in released}
        given == UNION {IF runsOut("discard", n) THEN CommitOneOf(n, GiveAllCards(n.table)) ELSE {n} :
                           n \in acted}
        advanced == UNION {AdvanceBetweenHand(n) : n \in given}
    IN UNION {BeginNextHand(n) : n \in advanced}

-----------------------------------------------------------------------------
(* Handlers.                                                                *)

\* The match goes on as one of `results`.  A checkpoint is written where there are
\* reasons for one, and `sends` says whether the handler ends by broadcasting.
\* What is kept of the history is whether a change escaped the version, the
\* checkpoint or the broadcast.
Becomes(results, sends) ==
    \E m \in results :
        /\ versioned' = (versioned /\ (m.raised \/ View(m) = View(match)))
        /\ saved' = (m.save \/ (saved /\ Durable(m) = Durable(match)))
        /\ seen' = ((sends /\ m.cast) \/ (seen /\ View(m) = View(match)))
        /\ match' = [m EXCEPT !.raised = FALSE, !.save = FALSE, !.cast = @ /\ ~sends]

Init ==
    /\ match = [table |-> NewTable, present |-> {}, conn |-> [p \in People |-> "unknown"],
                between |-> NoPause, raised |-> FALSE, cast |-> FALSE, save |-> FALSE]
    /\ inTick = FALSE
    /\ lapsed = {}
    /\ versioned = TRUE
    /\ seen = TRUE
    /\ saved = TRUE

\* matchJoin
MatchJoin(x) ==
    LET m == Mark([match EXCEPT !.present = @ \cup {x}], x[1], "connected")
    IN /\ ~inTick
       /\ x \notin match.present
       /\ Becomes(CommitOneOf(m, DealsNext(ComesBack(m.table, x[1]))), TRUE)
       /\ UNCHANGED <<inTick, lapsed>>

\* what is left when a session is gone; a checkpoint and a broadcast follow anyway
Without(x) == [match EXCEPT !.present = @ \ {x}, !.cast = TRUE, !.save = TRUE]

MarkLost(m, p) == Mark(m, p, IF p \in m.table.seated THEN "reconnecting" ELSE "disconnected")

\* matchLeave: only the last session of a player matters
MatchLeave(x) ==
    LET m == Without(x)
    IN /\ ~inTick
       /\ x \in match.present
       /\ Becomes({IF Connected(m, x[1]) THEN m ELSE MarkLost(m, x[1])}, TRUE)
       /\ UNCHANGED <<inTick, lapsed>>

TickBegins(due) ==
    /\ ~inTick
    /\ Becomes(Pass(match, due), FALSE)
    /\ inTick' = TRUE
    /\ lapsed' = due \cap People

\* Mutant of TickEnds: only changes of the second pass are broadcast.
TickEndsForgetting(due) ==
    /\ inTick
    /\ Becomes(Pass([match EXCEPT !.cast = FALSE], due), TRUE)
    /\ inTick' = FALSE
    /\ lapsed' = {}

TickEnds(due) ==
    /\ inTick
    /\ Becomes(Pass(match, due), TRUE)
    /\ inTick' = FALSE
    /\ lapsed' = {}

\* the pause between hands passes its minimum, and then its maximum
PauseGoesOn ==
    /\ match.between.on
    /\ match.between.stage # "late"
    /\ match' = [match EXCEPT !.between.stage = IF @ = "fresh" THEN "ripe" ELSE "late"]
    /\ UNCHANGED <<inTick, lapsed, versioned, seen, saved>>

\* Mutant of Restart: nobody's grace period begins.
RestartForgettingGrace ==
    /\ match' = [match EXCEPT !.present = {}, !.cast = FALSE,
                              !.conn = [p \in People |-> IF p \in Table.seated THEN @[p] ELSE "unknown"]]
    /\ inTick' = FALSE
    /\ lapsed' = {}
    /\ seen' = TRUE
    /\ UNCHANGED <<versioned, saved>>

\* The server dies and the match is restored from its checkpoint (recoverFromCheckpoint),
\* without presences: the seated have a new grace period, but for those who were given
\* up before.  What a lost checkpoint costs is the subject of MatchCheckpoint.
Restart ==
    /\ match' = [match EXCEPT
                    !.present = {}, !.cast = FALSE,
                    !.conn = [p \in People |->
                                 IF p \notin Table.seated THEN "unknown"
                                 ELSE IF @[p] = "disconnected" THEN "disconnected" ELSE "reconnecting"]]
    /\ inTick' = FALSE
    /\ lapsed' = {}
    /\ seen' = TRUE
    /\ UNCHANGED <<versioned, saved>>

-----------------------------------------------------------------------------
(* Messages.  A message that throws changes nothing.                        *)

\* ensurePresenceBound: the sender's session has joined and not left
Receives(p, results) ==
    /\ inTick
    /\ Connected(match, p)
    /\ Becomes(results, FALSE)
    /\ UNCHANGED <<inTick, lapsed>>

TakeSeat(p) ==
    /\ p \notin Table.seated
    /\ Cardinality(Table.seated) < MaxPlayers
    /\ Receives(p, CommitOneOf(match, {ComesBack(t, p) : t \in DealsNext(TakesSeat(Table, p))}))

\* `join` of a player who is seated
SitBackIn(p) ==
    /\ p \in Table.seated
    /\ Receives(p, CommitOneOf(match, DealsNext(ComesBack(Table, p))))

Reconnect(p) ==
    Receives(p, CommitOneOf(Mark(match, p, "connected"), DealsNext(ComesBack(Table, p))))

Act(p) ==
    /\ OnTurnNow(Table, p)
    /\ p \in Table.live
    /\ Receives(p, {Changed(m) : m \in CommitOneOf(match, ActNow(Table, p))})

Discard(p) ==
    /\ Table.phase = "discard"
    /\ p \in Table.pending
    /\ Receives(p, {Changed(m) : m \in CommitOneOf(match, GiveCard(Table, p))})

\* setReadyForNextHand (`nextHand`, `readyForNextHand`)
ReadyForNextHand(p, ready) ==
    LET e == EnsureBetweenHand(match)
        set == IF ready THEN e.between.ready \cup {p} ELSE e.between.ready \ {p}
    IN /\ Showdown(match)
       /\ p \in Eligible(match)
       /\ Receives(p, AdvanceBetweenHand(
              IF set = e.between.ready THEN e ELSE Changed([e EXCEPT !.between.ready = set])))

BuyBackIn(p) ==
    /\ ~Playing(Table)
    /\ p \in Table.broke
    /\ Receives(p, CommitOneOf(match, {BuysIn(Table, p)}))

LeaveSeat(p) ==
    /\ ~Playing(Table)
    /\ p \in Table.seated
    /\ Receives(p, CommitOneOf(match, {SitsOut(Table, p)}))

ReadyForHand(p, ready, elapsed) ==
    /\ p \in Table.seated
    /\ elapsed => Table.gate
    /\ Receives(p, CommitOneOf(match, PassGate(SaysReady(Table, p, ready), elapsed)))

Message(p) ==
    \/ TakeSeat(p)
    \/ SitBackIn(p)
    \/ Reconnect(p)
    \/ Act(p)
    \/ Discard(p)
    \/ \E ready \in BOOLEAN : ReadyForNextHand(p, ready)
    \/ BuyBackIn(p)
    \/ LeaveSeat(p)
    \/ \E ready, elapsed \in BOOLEAN : ReadyForHand(p, ready, elapsed)

Next ==
    \/ \E x \in Sessions : MatchJoin(x)
    \/ \E x \in Sessions : MatchLeave(x)
    \/ \E due \in SUBSET Running(match) : TickBegins(due) \/ TickEnds(due)
    \/ PauseGoesOn
    \/ Restart
    \/ \E p \in People : Message(p)

Spec == Init /\ [][Next]_vars

\* The server ticks for ever, a pause gets older, and a grace period that nobody ends
\* is found expired some day.  Hands end: that is HandEnds of PokerTable.  Players,
\* connections and messages owe nothing.
FairSpec ==
    /\ Spec
    /\ []<>inTick /\ []<>~inTick
    /\ WF_vars(PauseGoesOn)
    /\ \A p \in People :
          []<>(match.conn[p] # "reconnecting") \/ []<>(p \in lapsed)
    /\ []<>~Playing(Table)

-----------------------------------------------------------------------------
(* Properties.                                                              *)

\* Every variable keeps its type.
TypeOK ==
    /\ match \in MatchStates
    /\ inTick \in BOOLEAN /\ lapsed \subseteq People
    /\ versioned \in BOOLEAN /\ seen \in BOOLEAN /\ saved \in BOOLEAN

\* A state version stands for one state: whatever clients are shown never changes
\* without stateVersion being raised in the same call, on any of the paths of joins,
\* leaves, timers and messages (clients drop what has no newer version).
VersionNamesState == versioned

\* Every change that a restart must not lose is in a checkpoint attempted in the same
\* call of the server, whichever of the many paths made it.
ChangesAreCheckpointed == saved

\* Between ticks everybody connected shows the state as it is: a change made in the
\* first timer pass or by a message is not forgotten by the end of the tick, and what
\* was sent had a version of its own, without which a client drops it.
ClientsAreCurrent == VersionNamesState /\ (~inTick => seen)

HasSession(p) == \E x \in match.present : x[1] = p

\* Nobody loses the seat with a session open, and nobody at all while the hand he was
\* dealt into is being played.
SeatsAreKept ==
    [][ \A p \in Table.seated \ Table'.seated :
            ~HasSession(p) /\ ~(Playing(Table) /\ p \in Table.dealt) ]_vars

\* Nobody who is connected is made to sit out by the passes of a tick, through the
\* grace period of an absence that is over or of a tab that was closed: a pass sits
\* out only who has just lost all chips.
GraceSparesConnected ==
    [][ \A p \in Table'.out \ Table.out :
            HasSession(p) /\ inTick' # inTick => p \in Table'.broke ]_vars

\* After every pass a pause is on exactly if the table shows a hand that is over, and
\* whoever counts as ready can be dealt in, whatever rebuys, departures, returns and
\* restarts (which lose every presence, and are no pass) there were.
PauseIsHonest ==
    [][ inTick' # inTick /\ match'.present = match.present =>
            /\ match'.between.on <=> Showdown(match')
            /\ match'.between.ready \subseteq Eligible(match') ]_vars

\* The next hand starts before the end of the pause only if everyone dealt in has
\* asked for it, but for the one whose request or return starts it.
NextHandIsWanted ==
    [][ match.between.on /\ match.between.stage # "late" /\ Playing(Table') =>
            Cardinality(Table'.dealt \ match.between.ready) <= 1 ]_vars

\* A player who has gone and does not come back loses the seat in the end, also when
\* lost in the middle of a hand.
LostSeatIsFreed ==
    \A p \in People :
        (p \in Table.seated /\ ~Connected(match, p)) ~>
            (p \notin Table.seated \/ Connected(match, p))

\* No pause lasts for ever, with or without players who could go on.
PauseEnds == match.between.on ~> ~match.between.on
=============================================================================
