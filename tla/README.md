# Bondi Poker: specification and proofs

Bondi Poker is a poker table played over Nakama: five hole cards, a discard after
each of flop, turn and river, a showdown with two. The engine
(`packages/engine/src/table.ts`) is one class that holds the whole table; a match on
the Nakama server (`apps/nakama/src/pdhMatch.ts`) owns one and drives it with
messages and timers; a lobby (`pokerLobby.ts`) leads players to matches; a web client
shows the table. These modules model the engine, the match with its checkpoints, the
lobby and the client's stateful parts, check them with TLC on small
instances, and prove the central invariants for every size with TLAPS.
Paths are relative to the root of the repository.

## 1. Inventory

| Component | State it keeps | Operations | Interacts with | Must be right | Modules |
|---|---|---|---|---|---|
| Table engine, `packages/engine/src/table.ts` | seats, button, first-hand gate, the hand (players, bets, board, turn, deadlines, discards owed) | seatPlayer, removePlayer, setSittingOut, sitOut, rebuy, setReadyForHand, advanceStartGate, startHand, applyAction, applyDiscard, autoAction, autoDiscard, advancePendingPhase, handleDisconnect, beginNextHandIfReady, advanceToNextHand, legal actions | called by the hosts | chips conserved; side pots; one discard per street; the hand ends | `TableRules`, `PokerTable`, `HandContract`, `TableView` |
| Hand evaluation, `handEvaluator.ts`, `deck.ts` | none | evaluateSeven, shuffle | called at the showdown | the order of hands, ties included | `HandEvaluator` |
| Nakama match host, `apps/nakama/src/pdhMatch.ts` | table, presences, connections with grace deadlines, last sequence numbers, between-hands readiness, state version | matchInit, matchJoin, matchLeave, matchLoop (timers, messages, timers), grace expiry, seat release, RPCs | engine, storage, clients | a lost player neither stalls nor distorts a table; nothing applies twice; versions name states | `PdhMatch`, `MessageGate` |
| Checkpoints, same file | one storage object per table, with a version | persist after changes, recover at matchInit | storage shared by successive matches | what was shown survives; clients follow a restart | `MatchCheckpoint` |
| Lobby, `apps/nakama/src/pokerLobby.ts` | table-code records in storage, list of matches | create, ensure, join by code, quick play, list | storage, match registry, checkpoints | a code leads everyone to one match | `PokerLobby` |
| Web client, table page, `apps/web/components/PokerGamePage.tsx`, `apps/web/lib` | last snapshot and version, submitted discard, chosen next-hand intent (also in localStorage), sequence counter | render, send, reconnect, reload | match | the player is never left waiting for nothing; a choice is applied once | `TablePage`, `MessageGate`, `TableRules` (betting controls) |
| Web client, lobby page, `pages/play.tsx`, `lib/nakamaClient.ts` | session per tab and in localStorage, recent tables, quick-play profile | sign in, refresh, quick play, join | Nakama, other tabs | a refused session is dropped; every click ends | `LobbyPage` |
| Early access, `HeroSection.tsx`, `pages/api/early-access.ts`, `lib/earlyAccessServer.ts`, `lib/emailAlerts.ts` | form, rows in Postgres | submit, insert, announce | Postgres, Discord, mail | announced once, told truly | `SignUp` |
| Legacy WebSocket host, `apps/server/src/index.ts` | one table, sockets | messages, close, tick | engine | nobody sees an old table | `LegacyServer` |
| Wire protocol; pages without state, feature flags, tools, scripts, deployment, db | | | | outside (section 6) | |

What is hard here. The engine does a lot in one call (the last discard may open the
next street, which may discard by itself, and so on to the settlement), and calls
come in any order from players, lost and returning connections and timers. The
match races grace periods against returns, surrounds the messages of a tick with
timer passes and may die between a change and its write; matches of one table may
overlap. The lobby's calls run side by side and meet only in storage and in the list
of matches. The page batches snapshots into renders, so it may never show what was
sent. `PROJECT.json` lists each hazard at its line with the properties that cover it.

## 2. Modules

| Module | Models | Uses |
|---|---|---|
| `TableRules` | every operation of `table.ts` as an operator from table to table(s); the page's betting controls | |
| `PokerTable` | one table and its host: state, one action per operation, properties | EXTENDS `TableRules`; INSTANCE `HandContract`, `TableView` |
| `HandContract` | abstract: what a hand promises, without chips, turns and clocks | |
| `TableView` | abstract: a table as its match sees it, without chips and cards | |
| `PdhMatch` | the match: connections, grace, pause, ticks, versions | EXTENDS `TableView` |
| `MessageGate` | the tabs of a player, their sessions, and the sequence numbers of messages | |
| `MatchCheckpoint` | matches of one table, their checkpoint, a client | |
| `PokerLobby` | the lobby's calls, each storage and match access a step | |
| `TablePage` | the table page against a match, with the socket in between | |
| `LobbyPage` | the lobby page and session handling in the tabs of a browser | |
| `LegacyServer` | the server for local play | EXTENDS `TableView` |
| `SignUp` | early access: form, handler, table, announcements | |
| `HandEvaluator` | `evaluateSeven`, and the rules of poker by other means | |
| `MC*` | instances for TLC (`<module>_<run>.cfg`); `MCSmallParts` runs four unrelated small modules, one in each behaviour | |
| `*_proofs` | theorems and proofs | EXTENDS the module |

How they fit together. `PokerTable` has all the rules; `KeepsToView` shows that it does
nothing `TableView` does not allow, so `PdhMatch` and `LegacyServer`, built on `TableView`, are
about the real engine although they carry no chips. `PdhMatch` takes a message whose sequence number
was accepted; `MessageGate` says which those are. `PdhMatch` shows
that each change attempts a checkpoint (`ChangesAreCheckpointed`) and raises the
version (`ClientsAreCurrent`); `MatchCheckpoint` shows what follows for
storage and clients. `PokerLobby` explains how two matches of a table come to
run at once. The operators marked *Mutant of ...* or *A wrong form of ...* are not
part of the specification: each is a plausible bug of the definition it stands
before, and shows that a property notices it.

### TableRules

A table is a record: by seat `seatStatus`, `seatStack`, `sittingOut`; `button`;
the gate before the first hand (`gateOpen`, `gateReady`); and `hand`, which has
the fields of `HandState` and of its players, by seat. A hand that is null has
phase `"none"`. What is abstracted:

- *Players are seat numbers.* The host never releases the seat of a player who is in
  the hand (`releaseExpiredDisconnectedSeats` skips them; the legacy
  host releases none), so during a hand a seat number names one player.
- *Cards are counted.* `cards[s]` is how many hole cards s holds, `board` how many are
  on the board. The showdown uses `rank`, a strength for each seat: TLC takes
  every assignment, so the settlement is checked for every order and every tie. An
  operator that may reach a showdown gives a *set* of tables, one for each ranking.
- *Clocks are Booleans*: whether a deadline is set. When it passes is a free choice.
- *The two deadlines that can be switched off* (`actionTimeoutMs: null`) are on, as both
  hosts have them.
- Logs, audit records, hand identifiers, buy-in totals and hidden cards are left out.

Within one call everything the call does is one operator. `RunDiscards` is the
recursion of `beginDiscardPhase` and `completeDiscardPhase` written out: a hand
has three discards, so three applications of `CloseDiscard`, which does nothing when a
card is owed, are all there can be. An operation that throws
leaves the table as it was (the engine checks before it changes), so its guard is
part of the action. `CommitBet` and the other steps are written with `Put` and
`WithHand` instead of nested EXCEPT, which the provers follow better.

`Offers` and `OffersDiscard` are `computeLegalActionsForPlayer`, `Buttons` what the
page's controls make of it (`actionControls.ts`, `submitRaiseAction`, the buttons
and keys): the top of the raise drawer is the largest total an opponent can match, and
is sent as an all-in of that total.

### PokerTable

| Variable | In the code |
|---|---|
| `table` | `PokerTable.state` |
| `away` | players whose connection the host has given up |
| `hands`, `stake`, `bank` | history only: hands dealt, stacks at the deal, chips brought to the table and not taken away |

| Action | Call |
|---|---|
| `Join` | join: `seatPlayer`, `beginNextHandIfReady` |
| `Act`, `Discard` | action: `applyAction`; discard: `applyDiscard` |
| `ReadyForHand` | readyForHand: `setReadyForHand`, `advanceStartGate` |
| `LeaveSeat`, `BuyBackIn` | sitOut; rebuy |
| `NextHand` | `advanceToNextHand`: the legacy host on nextHand, the Nakama host when its pause ends |
| `Disconnect` | the host gives a player up (below) |
| `Return` | a presence joins or reconnects: `setSittingOut(false)`, `beginNextHandIfReady` |
| `Release` | `removePlayer` of a given-up player who is not in the hand, and the look for a next hand that ends the tick |
| `StartCountdownEnds`, `PauseEnds`, `ActionTimeout`, `DiscardTimeout` | a tick finds that deadline passed: `advanceStartGate`, `advancePendingPhase`, `autoAction`, `autoDiscard` |

`Departures` says what the host does with lost players: `"never"` (nobody is lost),
`"in_play"` (the Nakama host: `applyGraceExpiryPolicy` calls `handleDisconnect` only for
a player of a hand in play, and otherwise only marks the seat as sitting out) and
`"any_time"` (the legacy host: `handleDisconnect` whenever a socket closes). The Nakama
host also forces the timed-out action of a lost player who is on turn before it
reports the loss; that is an `ActionTimeout` followed by `Disconnect`.
With `"any_time"` the model also lets players return and seats be released,
which is more than the legacy host does. A tick handles
several deadlines in a fixed order; this model takes one at a time in any order, so
it has every behaviour of the hosts and some they never show. (`PdhMatch` has the order.)

### HandContract and TableView

`HandContract` is the promise to players who stay connected: `stage` goes through preflop,
flop betting, flop discard, ... to over; a betting round can be skipped and a discard
cannot; nobody joins a hand; every contender owes one card in each discard; it ends
with one player left or after the last discard. `KeepsPromise` is this contract under
the mapping `Promise` (stage from street and phase, `live` from the statuses,
`owing` from `discardPending`, `held` from the cards). A player busted by the settlement
was in to the end, so busted counts as live.

`TableView` is the engine for those who only drive it: who sits, sits out or is out of
chips, who is dealt in, the phase with the pause between phases, the turn, the
discards owed, the first-hand gate. What depends on chips and cards is a free
choice, so an operation gives the set of tables it can lead to. `KeepsToView` is
`[][ HostSees' \in TableSteps(HostSees) ]` under the mapping `HostSees`.

### PdhMatch

| Variable | In the code |
|---|---|
| `match.table` | `state.table`, seen as `TableView` |
| `match.present` | `presences`: the open sessions, each of a player |
| `match.conn` | `playerConnections[..].status` |
| `match.between` | `betweenHand`: on or not, who is ready, and its age as a stage (before the minimum, after it, past the automatic start) |
| `match.raised`, `cast`, `save` | what the running handler still has to do: `stateVersion` was raised, `shouldBroadcast`, checkpoint reasons |
| `inTick` | between the two timer passes of `matchLoop` |
| `lapsed`, `versioned`, `seen`, `saved` | history |

`MatchJoin` and `MatchLeave` are the callbacks for presences (`matchLeave` starts the grace
period when the last session goes); `TickBegins(due)` is the first timer pass for the
deadlines `due`, the actions in `Message` are the messages of the tick in any order and number, `TickEnds(due)` the second
pass with the final broadcast. A pass (`Pass`) goes through the code's
order: start gate, pause between phases, grace periods, released seats, action, discard, pause
between hands, next hand. A deadline armed during a pass cannot have passed in it
(`SameClock`). `Restart` is a crash and a match restored from the checkpoint: nobody
is present, and everyone seated gets a fresh grace period, but for those who had been given up
(`disconnected`), who stay so and have none (`recoveredConnections`). Exceptions are not modelled: not one
that leaves a timer pass (`OffersAreAccepted` shows that the timers cannot throw on the instances it covers), nor one
half-way through a message, which keeps what it has changed without a checkpoint; a message that throws here changes nothing.

### MessageGate

A page counts in memory (`next`), mirrored in localStorage (`stored`), and stamps
each message that changes the table (`reserveMutatingSeq`); the match accepts a number above the player's
last (`reserveSequence`), and uses it up even if the message is then refused. The number is
forgotten when the seat is released, saved in checkpoints and set
back by a restart. The wire delivers a session's messages in order, also late, and
`Repeat` sends anything that ever arrived again.

### MatchCheckpoint

Each match is at a step `pc`: it is restored or starts fresh, makes a change, reads the stored object, skips
the write if a newer one is there, or writes conditionally on the version it has read, and then shows its
state to the client, which applies only newer versions (`shouldApplyStateSnapshot`). Between any two steps the other match
may run and either may crash. A table's content is the set of changes made to it, so
that losing one can be seen. `QuietRenewal` is the one path that raises the version and
broadcasts without a checkpoint (renewed deadlines); `quiet` counts those since the last write. A
read or write that fails is logged and passed over, as in the code; `orderly` remembers that something of that kind
has happened.

### PokerLobby

A call of `create`, `ensure`, `join` or `quick play` is at a step (`at`): drawing a code, creating the
match, writing the record, reading it, looking whether the match runs, looking
for a recoverable checkpoint, listing matches, reading the record of each that is listed, choosing the best offer.
Matches end and calls are lost at any step. How many players
a match has is decided when it is looked at. All tables have the same size, a drawn
code never collides with an earlier one, and reading a record is a step of its own after the listing.

### TablePage

`page.shown` is what was last rendered, `page.next` what setters have asked for since; a
handler sees the former, refs are seen at once, and an effect runs when a render changes
what it depends on. Up to `MaxBehind` snapshots are rendered together. The effects
are operators in the order of the file (`ReadStoredIntent`, `StoreIntent`, `SubmitIntent`, `DropIntent`,
`ConfirmRebuy`, `EndRebuy`, `ResetDiscard`), chained by `Render`. The match's side (`seat`) is as
much of a hand as the page reacts to: phases, streets, the discard owed, chips, status. The player is
seated throughout; picking a card is part of confirming it; betting keeps nothing on the page.

The player may have the table open a second time, in another tab or on another device: `UseOtherPage` is the match taking a
message of that page, or a tab writing or removing the stored choice, and `elsewhere` counts its uses. Messages that
change the table carry a number (`Numbered`), and the match refuses one that is not above the player's last
(`reserveSequence`). Which numbers are above is `MessageGate`'s subject; here `NumberIsFresh` says what the page can rely on: with no other
page in use its numbers are fresh (`OwnNumbersAreFresh`), afterwards any of them may be refused. The error for that is "Duplicate or stale
action sequence", which `onServerMessage` does not take for a refused discard (`ReceiveError`). `stale` records that the match
has refused such a discard and still demands it.

### LobbyPage

Per tab the module variables `sessionSingleton` and `inFlightSessionPromise` (`memory`, `flight`) and the page;
calls go on when their page is left. Sessions are numbered as issued, and expiry and refusal take
the oldest first. `EnsureNakamaSession` joins a request in flight or starts one;
`GetFreshSession` uses the stored session, refreshes it or signs the device in
(create, and after a conflict up to `LoginTries` logins). A refused call drops the session and tries once more.
Any request may be lost. A session that the client takes for valid is not
yet expired at the server (its margin), and Nakama's account of a device
is external. The recent tables are read and written back in one step, as `RpcAnswered` does without an await in between; each is
written with a later time than those before, so the sort by times (`recentTables.ts:68`), which matters only for two of the same millisecond,
is left out, and the run has one buy-in.

### LegacyServer, SignUp, HandEvaluator

`LegacyServer` has the sockets with the id each plays under, what each was last shown, and `Tick`, which
decides as the timer does whether to broadcast. `SignUp` goes from the form through
the handler (validate, insert with ON CONFLICT DO NOTHING, both announcements at once,
answer) back to the form, with lost requests, failed queries and a server that dies; its pool limits appear only as failed
queries. An announcement counts when it is attempted, as nobody tries again. `HandEvaluator` deals seven cards one by one and compares the code's score (categories, kickers, encoding to base 15) with the rules
of poker stated by other means (pairs of cards, ranges of ranks).

## 3. Runs

| Run | Instance | States | Time |
|---|---|---|---|
| `connected` | 3 seats, blinds 1 and 2, stacks 0, 2, 4 or 5, bets and raises up to 5, all-ins naming 2, 4, 5 or nothing, three strengths, nobody lost | 79,965 | 45 s |
| `departures` | stacks 0, 2 or 4, two strengths, players lost at any time, fair | 105,917 | 1 min |
| `lifecycle` | stacks 0 or 2, buy-ins of 2, no raises, two hands, the Nakama host's departures | 350,487 | 2 min |
| `match` | three players, one of them in two tabs, fair | 145,372 | 1 min |
| `tabs` | two tabs, three sessions, numbers up to 3 | 3,810,569 | 2.5 min |
| `lobby` | two callers, one code and the main table, four matches of which two end | 364,862 | 1 min |
| `page` | a hand of two streets, two messages in flight, three snapshots in one render, one reload, one use of another page | 778,961 | 2 min |
| `lobby_page` | two tabs with two calls each, two tables, two revocations, one expiry, one lost request | 661,864 | 2 min |
| `small_parts` | three people on two sockets; two visitors, two requests, one fault; eleven cards; two matches of a table, versions up to 3 | 899,966 | 3 min |
| `lost_settlement` | stacks 0, 2, 4, the Nakama host's departures | `ChipsConserved` violated | |
| `headsup_stall` | two seats, stacks 1 or 2, fair | `HandEnds` violated | |
| `short_big_blind` | blinds 2 and 4, stacks 0, 1 or 4, nobody lost | `ChipsConserved` violated | |

What the passing runs show:

- *Chips* (`connected`). `ChipsConserved`, `TableStakes`: settlement gives out exactly the pot, and
  nobody wins from an opponent more than he put in himself. `OffersAreAccepted`: legal actions, the page's
  buttons and `applyAction`, three separate pieces of code, agree, in both directions for bets and raises.
  `KeepsPromise`: the table implements `HandContract`.
- *Lost players* (`departures`). `StakesIntact`, `DiscardDiscipline`, `RoundIsPaid`: with players lost at any moment chips, cards
  and bets of everyone are what they should be. `HandEnds`: a hand ends by timeouts alone.
- *Seats* (`lifecycle`). `SeatsAreHonest`, `FirstHandWaits`: what seats show between hands is true for players who
  are there, and nobody's readiness is assumed at the first hand. `KeepsToView`: the engine refines `TableView`.
- *The match* (`match`). `ClientsAreCurrent`, `ChangesAreCheckpointed`: on none of the many paths is a
  version, a broadcast or a checkpoint forgotten. `SeatsAreKept`, `GraceSparesConnected`: a closed tab or an old grace period
  costs nobody the seat who is there. `PauseIsHonest`, `NextHandIsWanted`: the pause shows who can really play and is not cut short
  unasked. `LostSeatIsFreed`, `PauseEnds`: nobody who is gone holds the table.
- *Restarts* (`small_parts`). `StoredMovesOn`: a conditional write never puts an older state in the place of a recent
  checkpoint. `NothingShownIsLost`: what a client saw is in the table of the next match. `ClientIsCurrent`: clients that stay on the page are not locked out by the version gate.
- *Messages* (`tabs`). `NothingIsReplayed`, `NumbersOnlyRise`, `OwnNumbersAreFresh`: no message twice, none
  late after an overtaking one, and a player with one tab is never refused for a number.
- *Lobby* (`lobby`). `AnswersAreTrue`, `JoinersMeet`, `TablesHeal`: answers are never older than the question, once a
  call that was alone has been sent to a match everybody is, until a match of the table ends (two who revive a table side by side may be led
  apart), and a table whose match has gone is found again.
- *Pages* (`page`, `lobby_page`). `NoDiscardHangs`: a page that has submitted a discard waits for something that comes, except that
  after another page was used it may wait for the discard timer. `StoreMirrorsChoice`: while no other page is used what is
  stored is what is shown. `ChoicesAreAnswered`, `RefusedIsNotReused`, `ErrorsHaveCauses`, `BrowserRemembers`, `ClicksAreAnswered`.
- *Small parts.* `OnlyDiscardsAreHidden`, `NobodyPlaysAlone`, `ListIsTrue`, `FormsAreAnswered`, `ScoresRankHands`.

**Bounds.** Three seats are the fewest with a player who is neither blind, with two side
pots, and with a third player to be lost while two go on. Stacks of 2 to 5 against a
big blind of 2 give all-in blinds, short all-ins, raises below the minimum, both
raises the cap allows, and a raise drawer that ends below the stack. Three
strengths order three hands in every way. Two hands are enough for the button to move and
for everything that happens between hands. In `match` the pause before the next
hand and the hand are unbounded; two sessions of one player give every
overlap of tabs. Two matches of a table (`small_parts`) have one that follows and one that overlaps; theorems
cover any number. `tabs` has three sessions because a reload next to a second tab needs them, and numbers
up to 3 for one below, at and above the last. In `lobby` two deaths let a table be
revived while a call that has seen the first match is still under way, and four matches let each of two calls
create a second one. In `page` three snapshots in one render are a whole discard missed between two renders: with two,
`NoDiscardHangs` could not tell the key of a discard from the key of a hand. One hand has two obligations, one after the other, and a
time before and after it in which choices and rebuys are made; the theorems cover any number of hands, and of uses of another page. The deck of
`small_parts` has low and high straights, flushes, straight flushes, pairs, threes and full houses; the theorem covers any deck of four suits.

**What the passing runs assume.** The stacks of `connected` and `departures` are above the small blind: below it the
hand can stall heads-up (`headsup_stall`). `departures` leaves out all-ins that name an amount; `connected` has
them. `ChipsConserved` is not among the properties of `departures`: with lost players it fails, as `lost_settlement` shows. So a double
settlement and a pot without a winner are met, as far as chips go, by that violated run alone; the passing run `connected`
loses nobody. Nor can its big blind be short, with a small blind of one chip and stacks of 2 and more:
what a short big blind does to chips and offers is in `short_big_blind` and, from the other side, in the theorems of section 4.

**Fairness.**

- `PokerTable.FairSpec`: a deadline which can change something does not stay due for
  ever without a deadline being handled. Nakama calls `matchLoop` on every tick, the legacy
  host has an interval of 500 ms, and both look at every deadline each time.
  Players and connections owe nothing. It is
  weak fairness of `Deadlines` with the enabling condition written out
  (`DeadlineDue`), because TLC would have to evaluate ENABLED of it in every state; `HeadsUpSpec` uses
  `WF_vars(Deadlines)` where the instance is small. A deadline at which the handler only renews
  itself (an all-in player on turn) is handled for ever without effect, which is why fairness does not save
  the stalled hand.
- `PdhMatch.FairSpec`: ticks go on; a pause gets older; a grace period that nobody ends is found expired some day; and hands
  end, which is `HandEnds` of `PokerTable`.
- `PokerLobby.Spec`: a call that is not lost goes on. `TablesHeal` further supposes that players keep asking.
- `TablePage.Spec`: the match handles messages, the page takes them in and renders. The player does nothing unless he wants to.
- `LobbyPage.Spec`: per tab some request ends, by an answer or by the 7 s timeout of the client.
- `SignUp.SignUpSpec`: queries and announcements end, by themselves or by their timeouts.

### Disagreements found

1. *A hand settled twice* (`lost_settlement`). A lost player owes the last discard of the
   river: `handleDisconnect` gives it, the hand is settled, and the same call goes on to fold the player and,
   with one contender left, calls `finishHand` again. The pot is paid twice.
2. *A hand that never ends* (`headsup_stall`). The small blind takes the button's last chip; the
   button is to act but all-in, and `autoAction` only renews the deadline.
3. *Chips nobody can win* (`short_big_blind`). A player posts the big blind with fewer chips than the small
   blind. `hand.currentBet` is the shorter bet (`table.ts:697`), so the small blind has bet more than there is to
   call and may fold. The part of his bet that nobody has matched becomes a pot level without an eligible
   winner, which `scoreShowdown` skips (`table.ts:1232`). With the default blinds of 400 and 800 any stack below 400 will do.

Observations without a run of their own, each seen in a counterexample while the
model was made:

- A pot level loses its winner in two more ways. Two players are all-in for less than the big blind, who
  then is lost. Or a player names fewer chips in an all-in than he has to call (`table.ts:784-793`): he stays in, owing the
  rest, and is asked again after the big blind has folded, when his chips no longer match that bet.
- With blinds 2 and 4 and a big blind of one chip, a check is offered and then refused (`table.ts:742`);
  the timer pass makes the same check outside any `try`.
- An all-in that names less than the stack skips the minimum-raise check (`table.ts:787`). The
  page names such totals only from the minimum up, but has no button for an all-in that raises by less.
- A player who is lost when all-in and then wins is left with chips on a seat that sits
  out (or busted), and can overwrite them with a rebuy; `SeatsAreHonest` speaks of players who are not away
  for that reason.
- Quick plays that run at once need not agree, contrary to the comment at `pokerLobby.ts:844`: a
  call that stamps its table later but writes and lists it first keeps its own, and the one
  stamped earlier then prefers its older one.
- The legacy timer compares who owes a discard before and after: in a hand in which nobody can bet
  any more, discards that run out are followed by the next card and the same debts, and nothing is
  broadcast (`OnlyDiscardsAreHidden` states exactly this exception). A socket that joins twice
  leaves its first seat behind, which `NobodyPlaysAlone` does not count.
- A player with two pages of a table submits a discard on the page whose counter is behind. The match refuses its number, and
  the page, which knows two other errors of a discard (`PokerGamePage.tsx:1723-1733`), goes on showing it as
  submitted, until the discard is made on the other page or by the discard timer, which picks the card.
  `NoDiscardHangs` has exactly this exception.

## 4. Theorems

`PokerTable_proofs`, for every number of seats, blinds, stacks, amounts and
strengths (the ASSUMEs of the two modules: blinds positive, sets of naturals):
`Invariance` (`Spec => []IInv`), `TypeCorrect`, `StakesStayIntact`.

*The argument.* `TypeOK` is not inductive. A raise pays `total - bet[s]`, which is natural only
because totals exceed bets; the settlement adds a pot, which is a number only because the pots are
finite; and nothing in the types says that `seatStack` will not be changed under a
hand. `IInv` adds `BetsAreCommitted` (a street's bet is part of the commitment), `PlayersSeated`
(players of a hand in play keep their seats) and `Accounts` (stack plus commitment
is the stake and both copies of the stack agree).
Each operator of `TableRules` has a lemma. For the operations inside a hand it says
`Keeps(t, u)`: u is a table, and if a hand is still played it is the same hand, nobody was dealt in or
out, no player's chips changed in sum, and copies that agreed still agree.
`Keeps` is reflexive and transitive, so operators that chain others are proved by chaining.
The operations that may deal satisfy the weaker `Follows(t, u)`, where the hand may also be `Fresh`.
`BecomesKeepsInvariant` turns `Follows` into the preservation of the
invariant once and for all, and `NextKeepsInvariant` has one step for each action.

In the same module, on top of it: `HandInvariance`, `DiscardsAreDisciplined` (`DiscardDiscipline`),
`RoundsArePaid` (`RoundIsPaid`). Neither property is inductive: cards due depend on where a street can
stand, and a round is complete when those *with chips* have paid, while the properties speak of those who
are shown as active. `HandInv` is `IInv` with `CardRules` (the streets a hand can be on, no discard
before the flop, cards by street and by who still owes one) and `ChipRules` (`Chipped`: whoever is not
all-in, folded or not, has chips; `Paid`: once a round is over its active players have paid).
Each operator of `TableRules` has a lemma with its effect on a hand; `Opening` gives the facts of a new one.

Again in the same module: `TableKeepsPromise` (`KeepsPromise`), the refinement of `HandContract` while no
player is lost (`Departures = "never"`). Contract steps are stated as a relation on hands,
`ContractStep(g, h)`; one lemma for each operation shows that it `Performs` such a step or leaves the
hand alone, and `ContractSteps` takes the relation to the contract's next-state
relation. `PromiseInv` adds to `HandInv` that a hand in play has two contenders, that none of them sits
out, and that discards are owed only in a discard phase and only by contenders. That folded
players have chips (`Chipped`) is needed here too: the settlement, which marks as busted whoever has
none, then leaves those who have folded as they are.

In the same module, for each policy for lost players: `SeatsStayHonest` (`SeatsAreHonest`) and
`FirstHandIsWaitedFor` (`FirstHandWaits`). `SeatsAreHonest` speaks of the time between hands and does not
survive a settlement by itself. `Sound` is `Honest` (in play, a present player of the hand is
active and does not sit out, and any other seat tells the truth) and `Counted` (after the settlement
whoever was in the hand and is left without chips is busted in it, so that the second
settlement `handleDisconnect` may cause gives him nothing). From one table to the next a hand
goes on with the seats as they were (`Quiet`) or is settled and its seats say so (`Told`); both chain.

`MatchMemory_proofs`, about both modules on what a match remembers. `MatchCheckpoint`, for any set of matches and any versions:
`Invariant`, `CheckpointTypeCorrect`,
`Durability` (`NothingShownIsLost`), `Currency` (`ClientIsCurrent`), `ConditionalWritesMoveOn` (`StoredMovesOn`). The invariant adds to
the types `Compared` (who may overwrite a recent checkpoint has seen that it is not newer), `InTurn` (while all is in order
one match lives, and before the first write nothing can be lost), `Durably` (shown is within stored, stored within the
match) and `Ahead` (versions are ahead of storage by what was not written). One lemma for each action.
`MessageGate`, for any number of tabs, sessions and numbers: `TypeCorrect`, `NoReplay`,
`NumbersRise`, `OwnNumbersFresh`. For the first two the invariant is that what was accepted from a session still present is not above
the last number, and nothing arrives from a session that has not joined. For the last, that with
one tab at a time what is on the wire is in rising order, above the last and the checkpointed number, and
below the counter in the browser.

`PdhMatch_proofs`, for any finite set of people, any sessions of theirs and any number of seats: `MatchTypeCorrect`,
`ChangesCheckpointed` (`ChangesAreCheckpointed`), `ClientsCurrent` (`ClientsAreCurrent`), `SeatsKept` (`SeatsAreKept`),
`GraceSpares` (`GraceSparesConnected`), `PauseHonest` (`PauseIsHonest`), `NextHandWanted` (`NextHandIsWanted`): every safety
property of the match. The invariants are not inductive: that the last checkpoint is up to date says nothing of a change that is
still to be saved when the handler returns, and that a pause is honest after a pass says nothing of a restart that follows it in the same tick.
`IInv` adds that no obligation outlives its handler, that what is unsent has a broadcast coming, that outside a showdown no pause is on
and nobody is ready (`Paused`), and that a tick with nobody connected leaves the pause as its first pass made it.

*A pass* is eight steps, each of which may change the table in several ways. `Moves(t, u, X)` says what one may do to the table, where X are the
players who have gone (only they lose a seat or are made to sit out, but for who is left without chips by a settlement; a hand
keeps its players; a showdown stays), and `Tracks(m, n)` that whatever has changed is numbered, saved and broadcast. Both
chain, so a pass is proved by chaining one lemma per step (`FirstStepsGo`, `AdvanceFacts`, `BeginFacts`). A message does what
`Keeps` and `Serves` say, and `BecomesFacts` treats the end of a handler once for all.

*Grace periods that expire together* are a recursive function on the subsets of the lost players. That it satisfies its recursion, and
what holds of its result, is proved by induction without a theorem that takes an operator: `SubsetInduction` follows
from `WFMin` and the well-foundedness of the proper subset on a finite set, with a set of subsets in place of the predicate.

`ChipCount_proofs`, while no player is lost (`Departures = "never"`), for every number of seats, blinds,
stacks, amounts and strengths: `CoveredPotsConserve`, `CoveredBlindsConserve` and `PagePlayConserves` (`ChipsConserved`),
`StakesAreTableStakes` (`TableStakes`), `OffersStayAccepted` and `CoveredBlindsOffer` (`OffersAreAccepted`), and what these rest on,
`BackedPotsAreCovered`, `OnlyBlindsOverpay` and `BetsCanBeCalled`. With lost players `ChipsConserved` is false
(`lost_settlement`), and so is what follows from it.

*Totals.* A fold over the seats cannot be unfolded by induction here, but it can be counted: `TotalCounts` shows that
`Total(f)` is the number of chips when each lies on the pile of its seat, and chips are moved from pile
to pile by facts on cardinality (a total of a sum, a total taken by rows or by columns). Pots are an
instance: the pots summed over the levels are the commitments summed over the players (`Transposed`), and the awards
of one pot sum to the pot, odd chips included.

*The books.* `Worth` is what there is at a seat, with what its player has in a pot still
played for. `Books` says that its total is `bank`, that empty seats are bare and
that who is not dealt in has nothing in the pot. `NextCounts` sorts all actions into those on the hand that
is played (`HandGoes`: it goes on, is won by the only one left, or at a showdown, each with its lemma on chips) and those on the table
(`TableGoes`: somebody brings chips or not, and then a hand is dealt or not). The settlement keeps the total only if no
pot level is without a contender, which is exactly that some contender has put in as much as anybody: `PotsCovered`. For
`TableStakes` nothing of the kind is needed, as a level that is skipped is won by nobody.

*Who covers the pots.* `PotsCovered` is not inductive, as whoever has put in most may fold. `Backed` adds that a contender
whose bet is the one to call was no less deep on earlier streets, and that the next
to act can be spared: while somebody still owes, an unspoken bet that others have to match comes after those who
owe it (`LineUp`, about the distances around the table), so that the big blind cannot fold
before the others have paid or folded. A fold, a call, a raise and a new street each keep it. Two things break it,
and both are faults of the code and not of the proof. One is a bet that exceeds the one to call (`NobodyOverpays` excludes it), the
other an all-in that names less than the call (`WholeShoves` excludes it).

*Where they can come from.* `OnlyBlindsOverpay` is an equivalence: nobody ever has bet more than there is to call if and only if at
no deal the big blind posted is shorter than the small blind posted (`BlindsCover`), so no call, raise, all-in, timeout or newcomer
ever brings it about. Whether it happens at a deal depends on the stacks. `DeepDeals`, that
everyone dealt in has at least the small blind, is enough (`BetsCanBeCalled`): with the default blinds of 400 and 800 nobody may be dealt in with less than 400,
while stacks from 400 to 799 post a short big blind and are covered. The code does not see to it that this holds, and `short_big_blind`
is what comes of it. As for all-ins, the page's buttons name an amount only to bet or to raise or shove everything, so they shove whole (`ButtonsShoveWhole`);
the match takes any positive amount. Hence `CoveredBlindsConserve`, with these two conditions on a behaviour, and `PagePlayConserves`,
for a table where nobody is dealt in below the small blind and all-ins are those of the page.

*Offers.* The three pieces of code are compared at each amount; the one fact on reachable states that this needs,
besides `HandInv`, is `NobodyOverpays`, without which a check is offered that is refused; `CoveredBlindsOffer` puts the
condition on the blinds in its place.

The second half of `ChipCount_proofs` is the refinement, `TableKeepsToView` (`KeepsToView`), for every value of the constants and
also with lost players (any `Departures`): each step of `PokerTable`, with all that follows from it in the same call, is a step of
`TableView` or shows nothing.

*A table as it is found.* `FitInv` adds to `HonestInv` and `HandInv` what the view depends on. While a hand is played (`Going`): two
players or more are left in it, everybody dealt in has chips at his seat or in the pot (`Funded`), nobody who has acted has bet more than
there is to call (`Heard`, which unlike `NobodyOverpays` holds with a short big blind too), and cards are owed in a
discard, by contenders, and only then (`Owing`). Between hands, whoever lost his chips in the hand sits out, so that
handleDisconnect, which may fold a player and settle a second time, pays nobody who is shown as broke. Seats that sit out are taken,
and lost players have a seat until it is given up.

*The hand.* From a table t a call goes to a table where the hand goes on and nothing around it changes, or where it is settled
(`Goes`). A bet, a fold or a card reaches the next turn or a pause (`RoundGoesOn`), and a new street its bets, its
discard or the showdown (`Reaches`). Absent players discard by themselves, so one call may run through three streets (`RunReaches`): the view
takes all of them in one step, as it says only whose turn it is. A settlement leaves chips with somebody dealt in (`SomebodyIsPaid`), which is what the view promises
of it: at a showdown, because chips that a contender has put in are won by some contender (`PotIsShared`), so sums are needed here too.

*Seats, the gate, the next hand.* Each operation is compared with its counterpart in the view by one lemma (`SeatPlayerSees`, `ComesBackSees`,
`StartHandSees`, `AdvanceStartGateSees`, `LosesPlayerSees` and so on), and `NextIsSeen` puts an operation and the look at the next hand that follows it together.

`PokerLobby_proofs`, for any callers, codes, inputs and bounds: `LobbyTypeCorrect`, `AnswersStayTrue`
(`AnswersAreTrue`), `JoinersStayTogether` (`JoinersMeet`). Calls interleave at every step, so the invariant says for each
call what it may still do. `Placed` and `Matched` say where a call of each procedure can be and whether it has a match and a code there;
`Truthful`, that what it has found, listed or read was made for the code and had not ended when it began; `Counted`,
that there is a match left for each call that may create one (the bound of the model).
With `RecordsAreTrue` this gives `AnswersAreTrue`. For `JoinersMeet` it has to be shown that a slow call cannot
overwrite what a later one was told: `Undisturbed` says that what a call alone has seen is still so, and `Anchored` that once a
code leads to a match, no call is under way that could write another into its record or has read another
from it. Such a call would have been under way when the first was answered, which then was not alone.
`GoesOn`, `Ends` and `Returns` treat a call that goes on, ends or answers once for all steps.

`LobbyPage_proofs`, for any tabs, calls, tables and bounds: `NoSessionIsRetried` (`RefusedIsNotReused`),
`PageErrorsHaveCauses` (`ErrorsHaveCauses`) and `TheBrowserRemembers` (`BrowserRemembers`). A session is a number the server has issued. `Sound` says of a tab that
it asks for a session only when it holds none that is usable (`AsksInNeed`), and that the answer on its way is newer than
all its calls have been made under or refused with (`BringsNewer`), although calls go on while it is awaited and other tabs
write what is stored. Sessions in memory and in storage may be as old as the refused one: what excludes them is
that both copies are dropped before another is asked for. A login that fails has had an account to log into, or a request before it was lost.
The memory of the tabs rests on `RecentRight`: the list is ordered by the newest entry of each table, and a table that is
entered and not listed is older than all that are, while the list is full. An entry moves all others by one place
(`FirstMoves`), and what the filter keeps is found by counting (`Counted`, `OthersAre`). `Past`, the tables of a browser that
has been here before, is any list of different tables joined by their codes, no longer than the limit.

`TablePage_proofs`, for any hands, streets, messages in flight, reloads and uses of another page: `DiscardsDoNotHang` (`NoDiscardHangs`) and
`ChoicesAreStored` (`StoreMirrorsChoice`). Streets go forward, so an obligation that is over does not come back (`Passed`,
`Onward`). `ViewsCome` says that nothing the page has seen or is about to see is ahead of the table; `NewestIsDue`, that a connected
page has the newest snapshot or it is the last on its way; `SubmittedIsDue`, that a discard submitted for the obligation last seen is on
its way, that obligation is over, or its number was refused and the match demands it still. A page that shows the newest snapshot, in which it is owed, is then in the
first case or the last, and the last happens only to a player who has used another page (`StaleByAnother`). What another page makes
of the table is a step forward like any other (`DoneIsOnward`, `OtherIsOnward`).
A render is a chain of seven effects: each has a lemma that says what it leaves alone (`Follows`, `StaysOwed`), and `RenderedFollows` chains them.

`SmallParts_proofs`. `LegacyServer`, for any players and sockets: `OldTablesAreDiscards` (`OnlyDiscardsAreHidden`) and
`PlayersHaveSockets` (`NobodyPlaysAlone`). `Leads(t, u, X)` says of each operation of `TableView` that cards are owed in a discard and only then, and
that nobody but those in X begins to play; it chains through the steps of the timer. `SignUp`, for any
visitors, addresses, channels and requests: `ListStaysTrue` (`ListIsTrue`). A request that announces still owes what is left, no two
announce one e-mail, and an e-mail without a row has not been announced (`Progress`, `OneAnnounces`).
`HandEvaluator`, for any finite deck of ranks and at most four suits (`DeckAssumption`): `HandsAreRanked` (`ScoresRankHands`). Five cards
have one of six shapes by their ranks (`Shapes`); no rank has five cards, since a deck is a set and has four suits. For each shape the groups
the code sorts, the digits it encodes and the pairs of cards the rules count are worked out (`GroupsAre`, `PairsAre`, the `...Has` lemmas),
the two accounts of straights are shown to be one (`InARowIs`, the wheel included) and every hand comes out as one of seven kinds (`Kinds`).
A code to base 15 compares ranks from the left (`Compare2` to `Compare5`), the rules compare sets of ranks from the largest group
down (`HigherFirst`, `HigherRest`), and both come to the same for two hands of a kind (`PairAgree` and so on); for hands of different
classes the class decides, because no code reaches `Scale` (`OtherClass`). A number of cards has at most five
digits, so no induction over lists is needed.

*Only model-checked:* the liveness properties (`HandEnds`, `LostSeatIsFreed`, `PauseEnds`, `TablesHeal`, `ChoicesAreAnswered`,
`ClicksAreAnswered`, `FormsAreAnswered`), which are out of the prover's reach. Every invariant and action property of a passing run has a theorem.

## 5. What is left

A match that dies from an exception in a timer pass. Quick play over tables of several sizes.

## 6. Not modelled

- *Wire protocol* (`packages/protocol`): parsing and validation of one message at a time, without state.
- *Rendering*: layout, animation, sound, wording, telemetry, the test pages.
- *Chat, reactions, tip, replay and audit logs, administration RPCs that read*: nothing else depends on them.
- `rpcListTables` only reads what `PokerLobby` lists; the `poker_table` match of `pokerLobby.ts:917-999` is registered
  and created by nobody.
- The socket half of `nakamaClient.ts`, which no page uses; the legacy socket of the page.
- *Feature flags, LAN address*: read-only, one caller.
- *Smoke match, smoke and integration tools, scripts, deployment, database files*: they probe and ship the
  system and are no part of the game.
