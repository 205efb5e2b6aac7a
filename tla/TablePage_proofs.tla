-------------------------- MODULE TablePage_proofs --------------------------
(***************************************************************************)
(* Theorems about TablePage, for any number of hands, streets, messages,   *)
(* reloads and uses of another page: the choice kept for the next load is  *)
(* the one that is shown, and a discard shown as submitted waits for       *)
(* something, unless another page has made its number stale.               *)
(***************************************************************************)
EXTENDS TablePage, TLAPS

-----------------------------------------------------------------------------
(* Types.                                                                   *)

Wishes == Intents \cup {Nothing}
Progress == {"idle", "pending", "confirmed"}

Faces == [view : Views, known : BOOLEAN, submitted : BOOLEAN,
          rebuy : Progress, intent : Wishes, applying : Wishes]

Keys == {<<>>} \cup (Nat \X Nat)

Pages == [shown : Faces, next : Faces, key : Keys, intent : Wishes,
          sent : BOOLEAN, rebuy : Progress, readied : BOOLEAN]

Messages == [kind : {"requestState", "discard", "rebuy", "sitOut", "ready", "chat"}]

\* A page as the handlers get it.
Drafts == [shown : Faces, next : Faces, key : Keys, intent : Wishes,
           sent : BOOLEAN, rebuy : Progress, readied : BOOLEAN,
           out : Seq(Messages), kept : Wishes]

Answers == {Snapshot(v) : v \in Views} \cup {Error(a) : a \in {"discard", "other"}}

PageTypeOK ==
    /\ seat \in Views /\ page \in Pages /\ store \in Wishes
    /\ up \in Seq(Messages) /\ down \in Seq(Answers) /\ open \in BOOLEAN
    /\ failed \subseteq {"requestState", "discard", "rebuy", "sitOut", "ready", "chat"}
    /\ elsewhere \in Nat /\ stale \in BOOLEAN

-----------------------------------------------------------------------------
(* The invariant.                                                           *)

\* The discard of obligation k is behind the player whose seat is v: it is not owed
\* any more, and is not going to be again.
Passed(v, k) ==
    \/ v.hand > k[1]
    \/ v.hand = k[1] /\ v.street > k[2]
    \/ v.hand = k[1] /\ v.street = k[2] /\ v.phase # "betting" /\ ~v.pending

\* It is behind him, or it is owed.
Reached(v, k) == Passed(v, k) \/ (v.hand = k[1] /\ v.street = k[2] /\ v.pending)

\* What view w shows as owed has been owed at seat v.
Comes(v, w) == w.pending => Reached(v, ObligationKey(w))

OwedInDiscard(v) == v.pending => v.phase = "discard"

\* The page has seen nothing, and is about to see nothing, that was not there.
ViewsCome ==
    /\ OwedInDiscard(seat)
    /\ Comes(seat, page.shown.view) /\ Comes(seat, page.next.view)
    /\ \A i \in DOMAIN down : down[i].kind = "state" => Comes(seat, down[i].state)

\* The obligation last seen is the one shown.
KeyIsShown == page.key = ObligationKey(page.shown.view)

\* The page whose face is f and whose messages are d has the newest snapshot, which is v,
\* or it is on its way.
Newest(v, f, d) ==
    \/ \E i \in DOMAIN d : /\ d[i] = Snapshot(v)
                            /\ \A j \in DOMAIN d : j > i => d[j].kind = "error"
    \/ (\A j \in DOMAIN d : d[j].kind = "error") /\ (f.known => f.view = v)

NewestIsDue == open => Newest(seat, page.next, down)

\* A discard that was submitted is on its way, or what it was for is over, or it was
\* refused for its number.
SubmittedIsDue ==
    open /\ page.next.submitted =>
        page.key # <<>> /\ (InFlight("discard") \/ Passed(seat, page.key) \/ stale)

\* That happens only to a player who has used another page.
StaleByAnother == stale => elsewhere > 0

\* What is stored is what is shown, as soon as the page knows the table.
StoredIsShown == page.shown.known /\ elsewhere = 0 => store = page.shown.intent

IInv == /\ PageTypeOK /\ ViewsCome /\ KeyIsShown /\ NewestIsDue
        /\ SubmittedIsDue /\ StaleByAnother /\ StoredIsShown

-----------------------------------------------------------------------------
(* Messages.                                                                *)

\* A message to the page is a snapshot or an error.
LEMMA AnswerKinds ==
    /\ \A v \in Views : Snapshot(v) \in Answers /\ Snapshot(v).kind = "state"
                        /\ Snapshot(v).state = v
    /\ \A a \in {"discard", "other"} : Error(a) \in Answers /\ Error(a).kind = "error"
    /\ \A m \in Answers : \/ m.kind = "state" /\ m.state \in Views /\ m = Snapshot(m.state)
                          \/ m.kind = "error" /\ m.about \in {"discard", "other"}
BY DEF Answers, Snapshot, Error

\* What a sequence holds stays when something is appended to it.
LEMMA AppendHolds ==
    ASSUME NEW S, NEW s \in Seq(S), NEW e \in S, NEW m
    PROVE  /\ Append(s, e) \in Seq(S)
           /\ Contains(Append(s, e), e)
           /\ Contains(s, m) => Contains(Append(s, e), m)
<1>1. Append(s, e) \in Seq(S) /\ Len(Append(s, e)) = Len(s) + 1 /\ Append(s, e)[Len(s) + 1] = e
      /\ \A i \in 1..Len(s) : Append(s, e)[i] = s[i]
  OBVIOUS
<1>2. Len(s) \in Nat
  OBVIOUS
<1> QED
  BY <1>1, <1>2 DEF Contains

\* What one of two sequences holds, both hold together.
LEMMA JoinHolds ==
    ASSUME NEW S, NEW s \in Seq(S), NEW t \in Seq(S), NEW m
    PROVE  /\ s \o t \in Seq(S)
           /\ Contains(s, m) => Contains(s \o t, m)
           /\ Contains(t, m) => Contains(s \o t, m)
<1>1. s \o t \in Seq(S) /\ Len(s \o t) = Len(s) + Len(t) /\ Len(s) \in Nat /\ Len(t) \in Nat
  OBVIOUS
<1>2. \A i \in 1..Len(s) : (s \o t)[i] = s[i]
  OBVIOUS
<1>3. \A i \in 1..Len(t) : (s \o t)[Len(s) + i] = t[i]
  OBVIOUS
<1>4. ASSUME Contains(t, m) PROVE Contains(s \o t, m)
  <2>1. PICK i \in 1..Len(t) : t[i] = m
    BY <1>4 DEF Contains
  <2>2. Len(s) + i \in 1..Len(s \o t) /\ (s \o t)[Len(s) + i] = m
    BY <1>1, <1>3, <2>1
  <2> QED
    BY <2>2 DEF Contains
<1>5. ASSUME Contains(s, m) PROVE Contains(s \o t, m)
  <2>1. PICK i \in 1..Len(s) : s[i] = m
    BY <1>5 DEF Contains
  <2>2. i \in 1..Len(s \o t) /\ (s \o t)[i] = m
    BY <1>1, <1>2, <2>1
  <2> QED
    BY <2>2 DEF Contains
<1> QED
  BY <1>1, <1>4, <1>5

\* What a sequence holds behind its head, its tail holds.
LEMMA TailHolds ==
    ASSUME NEW S, NEW s \in Seq(S), s # <<>>, NEW m, Contains(s, m), Head(s) # m
    PROVE  Contains(Tail(s), m)
<1>1. PICK i \in 1..Len(s) : s[i] = m
  BY DEF Contains
<1>2. Len(s) \in Nat /\ Head(s) = s[1] /\ Tail(s) \in Seq(S) /\ Len(Tail(s)) = Len(s) - 1
  OBVIOUS
<1>3. i # 1 /\ i - 1 \in 1..Len(Tail(s)) /\ Tail(s)[i - 1] = s[i]
  BY <1>1, <1>2
<1> QED
  BY <1>1, <1>3 DEF Contains

-----------------------------------------------------------------------------
(* The effects of a render.                                                 *)

\* The messages that draft p has handed to the socket hold a discard.
Discards(p) == Contains(p.out, Message("discard"))

\* Draft p becomes q, which is about to show the same snapshot.
Follows(p, q) ==
    /\ q \in Drafts /\ q.shown = p.shown
    /\ q.next.view = p.next.view /\ q.next.known = p.next.known
    /\ Discards(p) => Discards(q)

\* It keeps its obligation, and says no more of having been answered.
StaysOwed(p, q) == q.key = p.key /\ q.next.submitted = p.next.submitted

\* One effect after the other.
LEMMA FollowsOn ==
    ASSUME NEW p, NEW q, NEW r, Follows(p, q), Follows(q, r)
    PROVE  /\ Follows(p, r)
           /\ StaysOwed(p, q) /\ StaysOwed(q, r) => StaysOwed(p, r)
BY DEF Follows, StaysOwed

\* Something is sent: it is added to what was.
LEMMA SendFollows ==
    ASSUME NEW p \in Drafts,
           NEW kind \in {"requestState", "discard", "rebuy", "sitOut", "ready", "chat"}
    PROVE  /\ Follows(p, Send(p, kind)) /\ StaysOwed(p, Send(p, kind))
           /\ Send(p, kind).kept = p.kept /\ Send(p, kind).next = p.next
           /\ kind = "discard" => Discards(Send(p, kind))
<1>1. Message(kind) \in Messages /\ p.out \in Seq(Messages)
  BY DEF Messages, Message, Drafts
<1>2. /\ Append(p.out, Message(kind)) \in Seq(Messages)
      /\ Contains(Append(p.out, Message(kind)), Message(kind))
      /\ Contains(p.out, Message("discard")) =>
            Contains(Append(p.out, Message(kind)), Message("discard"))
  BY <1>1, AppendHolds
<1> DEFINE q == Send(p, kind)
<1>3. q = [p EXCEPT !.out = Append(p.out, Message(kind))]
  BY DEF Send
<1>4. q \in Drafts /\ q.out = Append(p.out, Message(kind)) /\ q.shown = p.shown
      /\ q.next = p.next /\ q.key = p.key /\ q.kept = p.kept
  BY <1>2, <1>3 DEF Drafts
<1> HIDE DEF q
<1>5. Follows(p, q) /\ StaysOwed(p, q) /\ (kind = "discard" => Discards(q))
  BY <1>2, <1>4 DEF Follows, StaysOwed, Discards
<1> QED
  BY <1>4, <1>5 DEF q

\* The progress of a rebuy has nothing to do with discards.
LEMMA RebuyFollows ==
    ASSUME NEW p \in Drafts, NEW r \in Progress
    PROVE  /\ Follows(p, UpdateRebuyState(p, r)) /\ StaysOwed(p, UpdateRebuyState(p, r))
           /\ UpdateRebuyState(p, r).kept = p.kept
           /\ UpdateRebuyState(p, r).next = [p.next EXCEPT !.rebuy = r]
<1>1. [p EXCEPT !.rebuy = r, !.next.rebuy = r] \in Drafts
  BY DEF Drafts, Faces
<1> QED
  BY <1>1 DEF UpdateRebuyState, Follows, StaysOwed, Discards, Drafts, Faces

\* Whether the player was readied neither.
LEMMA ReadiedFollows ==
    ASSUME NEW p \in Drafts, NEW b \in BOOLEAN, NEW q, q = [p EXCEPT !.readied = b]
    PROVE  Follows(p, q) /\ StaysOwed(p, q) /\ q.kept = p.kept /\ q.next = p.next
<1>1. q \in Drafts /\ q.shown = p.shown /\ q.next = p.next /\ q.key = p.key
      /\ q.kept = p.kept /\ q.out = p.out
  BY DEF Drafts
<1> QED
  BY <1>1 DEF Follows, StaysOwed, Discards

\* Nor what is being applied, and whether the choice was sent.
LEMMA ApplyingFollows ==
    ASSUME NEW p \in Drafts, NEW b \in BOOLEAN, NEW i \in Wishes, NEW q,
           q = [p EXCEPT !.next.applying = i, !.sent = b]
    PROVE  Follows(p, q) /\ StaysOwed(p, q) /\ q.kept = p.kept
<1>1. q \in Drafts
  BY DEF Drafts, Faces
<1>2. q.shown = p.shown /\ q.next.view = p.next.view /\ q.next.known = p.next.known
      /\ q.key = p.key /\ q.kept = p.kept /\ q.out = p.out
      /\ q.next.submitted = p.next.submitted
  BY DEF Drafts, Faces
<1> QED
  BY <1>1, <1>2 DEF Follows, StaysOwed, Discards

\* Nor the choice.
LEMMA ChoiceFollows ==
    ASSUME NEW p \in Drafts, NEW i \in Wishes
    PROVE  LET q == UpdateQueuedNextHandIntent(p, i)
           IN  Follows(p, q) /\ StaysOwed(p, q) /\ q.kept = p.kept
<1> DEFINE q == UpdateQueuedNextHandIntent(p, i)
<1>1. q \in Drafts
  BY DEF UpdateQueuedNextHandIntent, Drafts, Faces
<1>2. q.shown = p.shown /\ q.next.view = p.next.view /\ q.next.known = p.next.known
      /\ q.key = p.key /\ q.kept = p.kept /\ q.out = p.out
      /\ q.next.submitted = p.next.submitted
  BY DEF UpdateQueuedNextHandIntent, Drafts, Faces
<1> QED
  BY <1>1, <1>2 DEF Follows, StaysOwed, Discards

\* Nothing at all.
LEMMA SameFollows ==
    ASSUME NEW p \in Drafts
    PROVE  Follows(p, p) /\ StaysOwed(p, p)
BY DEF Follows, StaysOwed

\* The stored choice is read.
LEMMA ReadStoredIntentFollows ==
    ASSUME NEW p \in Drafts, NEW old \in Faces
    PROVE  LET q == ReadStoredIntent(p, old)
           IN  Follows(p, q) /\ StaysOwed(p, q) /\ q.kept = p.kept
<1> DEFINE q == ReadStoredIntent(p, old)
<1>1. p.kept \in Wishes
  BY DEF Drafts
<1>2. CASE q = p
  BY <1>2, SameFollows
<1>3. CASE q = [p EXCEPT !.intent = p.kept, !.next.intent = p.kept]
  <2>1. [p EXCEPT !.intent = p.kept, !.next.intent = p.kept] \in Drafts
    BY <1>1 DEF Drafts, Faces
  <2>2. q.shown = p.shown /\ q.next.view = p.next.view /\ q.next.known = p.next.known
        /\ q.key = p.key /\ q.kept = p.kept /\ q.out = p.out
        /\ q.next.submitted = p.next.submitted
    BY <1>3 DEF Drafts, Faces
  <2> QED
    BY <1>3, <2>1, <2>2 DEF Follows, StaysOwed, Discards
<1> QED
  BY <1>2, <1>3 DEF ReadStoredIntent

\* The choice shown is stored, when it or the table is new.
LEMMA StoreIntentFollows ==
    ASSUME NEW p \in Drafts, NEW old \in Faces
    PROVE  LET q == StoreIntent(p, old)
           IN  /\ Follows(p, q) /\ StaysOwed(p, q)
               /\ q.kept = IF p.shown.known /\ (~old.known \/ p.shown.intent # old.intent)
                           THEN p.shown.intent ELSE p.kept
<1> DEFINE q == StoreIntent(p, old)
           due == p.shown.known /\ (~old.known \/ p.shown.intent # old.intent)
<1>1. p.shown.intent \in Wishes
  BY DEF Drafts, Faces
<1>2. CASE ~due
  BY <1>2, SameFollows DEF StoreIntent
<1>3. CASE due
  <2>1. q = [p EXCEPT !.kept = p.shown.intent]
    BY <1>3 DEF StoreIntent
  <2>2. q \in Drafts /\ q.shown = p.shown /\ q.next = p.next /\ q.key = p.key
        /\ q.kept = p.shown.intent /\ q.out = p.out
    BY <1>1, <2>1 DEF Drafts
  <2> QED
    BY <1>3, <2>2 DEF Follows, StaysOwed, Discards
<1> QED
  BY <1>2, <1>3

\* A choice that can be submitted now is sent.
LEMMA SubmitIntentFollows ==
    ASSUME NEW p \in Drafts, NEW old \in Faces
    PROVE  LET q == SubmitIntent(p, old)
           IN  Follows(p, q) /\ StaysOwed(p, q) /\ q.kept = p.kept
<1> DEFINE q == SubmitIntent(p, old)
           marked == [p EXCEPT !.sent = TRUE, !.next.applying = p.shown.intent]
<1>1. p.shown.intent \in Wishes
  BY DEF Drafts, Faces
<1>2. marked \in Drafts
  BY <1>1 DEF Drafts, Faces
<1>3. Follows(p, marked) /\ StaysOwed(p, marked) /\ marked.kept = p.kept
  <2>1. marked.shown = p.shown /\ marked.next.view = p.next.view /\ marked.next.known = p.next.known
        /\ marked.key = p.key /\ marked.kept = p.kept /\ marked.out = p.out
        /\ marked.next.submitted = p.next.submitted
    BY DEF Drafts, Faces
  <2> QED
    BY <1>2, <2>1 DEF Follows, StaysOwed, Discards
<1> DEFINE asked == UpdateRebuyState(marked, "pending")
<1>4. q \in {p, Send(asked, "rebuy"), Send(marked, "sitOut")}
  BY Zenon DEF SubmitIntent
<1> HIDE DEF marked
<1>5. Follows(marked, asked) /\ StaysOwed(marked, asked) /\ asked.kept = marked.kept
  BY <1>2, RebuyFollows DEF Progress
<1>6. asked \in Drafts
  BY <1>5 DEF Follows
<1> HIDE DEF asked
<1>7. CASE q = p
  BY <1>7, SameFollows
<1>8. CASE q = Send(asked, "rebuy")
  <2>1. Follows(asked, q) /\ StaysOwed(asked, q) /\ q.kept = asked.kept
    BY <1>6, <1>8, SendFollows
  <2> QED
    BY <1>3, <1>5, <2>1, FollowsOn
<1>9. CASE q = Send(marked, "sitOut")
  <2>1. Follows(marked, q) /\ StaysOwed(marked, q) /\ q.kept = marked.kept
    BY <1>2, <1>9, SendFollows
  <2> QED
    BY <1>3, <2>1, FollowsOn
<1> QED
  BY <1>4, <1>7, <1>8, <1>9

\* A choice that is done is dropped.
LEMMA DropIntentFollows ==
    ASSUME NEW p \in Drafts, NEW old \in Faces
    PROVE  LET q == DropIntent(p, old)
           IN  Follows(p, q) /\ StaysOwed(p, q) /\ q.kept = p.kept
<1> DEFINE q == DropIntent(p, old)
           u == UpdateQueuedNextHandIntent(p, Nothing)
           d == [u EXCEPT !.next.applying = Nothing]
<1>1. Follows(p, u) /\ StaysOwed(p, u) /\ u.kept = p.kept /\ u \in Drafts
  BY ChoiceFollows DEF Wishes, Follows
<1>2. q \in {p, d}
  BY Zenon DEF DropIntent
<1> HIDE DEF u
<1>3. d \in Drafts
  BY <1>1 DEF Drafts, Faces, Wishes
<1>4. d.shown = u.shown /\ d.next.view = u.next.view /\ d.next.known = u.next.known
      /\ d.key = u.key /\ d.kept = u.kept /\ d.out = u.out
      /\ d.next.submitted = u.next.submitted
  BY <1>1 DEF Drafts, Faces
<1> HIDE DEF d
<1>5. Follows(u, d) /\ StaysOwed(u, d)
  BY <1>3, <1>4 DEF Follows, StaysOwed, Discards
<1>6. Follows(p, d) /\ StaysOwed(p, d) /\ d.kept = p.kept
  BY <1>1, <1>4, <1>5, FollowsOn
<1> QED
  BY <1>2, <1>6, SameFollows

\* A rebuy is confirmed, and the player readied.
LEMMA ConfirmRebuyFollows ==
    ASSUME NEW p \in Drafts, NEW old \in Faces
    PROVE  LET q == ConfirmRebuy(p, old)
           IN  Follows(p, q) /\ StaysOwed(p, q) /\ q.kept = p.kept
<1> DEFINE q == ConfirmRebuy(p, old)
           c == UpdateRebuyState(p, "confirmed")
           r == [c EXCEPT !.readied = TRUE]
<1>1. Follows(p, c) /\ StaysOwed(p, c) /\ c.kept = p.kept /\ c \in Drafts
  BY RebuyFollows DEF Progress, Follows
<1>2. q \in {p, c, Send(r, "ready")}
  BY Zenon DEF ConfirmRebuy
<1> HIDE DEF c
<1>3. Follows(c, r) /\ StaysOwed(c, r) /\ r.kept = c.kept /\ r \in Drafts
  BY <1>1, ReadiedFollows DEF Follows
<1> HIDE DEF r
<1>4. LET s == Send(r, "ready") IN Follows(r, s) /\ StaysOwed(r, s) /\ s.kept = r.kept
  BY <1>3, SendFollows
<1>5. CASE q = p
  BY <1>5, SameFollows
<1>6. CASE q = c
  BY <1>1, <1>6
<1>7. CASE q = Send(r, "ready")
  <2>1. Follows(c, q) /\ StaysOwed(c, q) /\ q.kept = c.kept
    BY <1>3, <1>4, <1>7, FollowsOn
  <2> QED
    BY <1>1, <2>1, FollowsOn
<1> QED
  BY <1>2, <1>5, <1>6, <1>7

\* A rebuy is over.
LEMMA EndRebuyFollows ==
    ASSUME NEW p \in Drafts, NEW old \in Faces
    PROVE  LET q == EndRebuy(p, old)
           IN  Follows(p, q) /\ StaysOwed(p, q) /\ q.kept = p.kept
<1> DEFINE q == EndRebuy(p, old)
           c == UpdateRebuyState(p, "idle")
           r == [c EXCEPT !.readied = FALSE]
<1>1. Follows(p, c) /\ StaysOwed(p, c) /\ c.kept = p.kept /\ c \in Drafts
  BY RebuyFollows DEF Progress, Follows
<1>2. q \in {p, r}
  BY Zenon DEF EndRebuy
<1> HIDE DEF c
<1>3. Follows(c, r) /\ StaysOwed(c, r) /\ r.kept = c.kept
  BY <1>1, ReadiedFollows
<1> HIDE DEF r
<1>4. Follows(p, r) /\ StaysOwed(p, r) /\ r.kept = p.kept
  BY <1>1, <1>3, FollowsOn
<1> QED
  BY <1>2, <1>4, SameFollows

\* The key of the obligation that is shown is remembered, and another one was not answered.
LEMMA ResetDiscardFollows ==
    ASSUME NEW p \in Drafts, NEW old \in Faces, p.key = ObligationKey(old.view)
    PROVE  LET q == ResetDiscard(p, old)
           IN  /\ Follows(p, q) /\ q.kept = p.kept
               /\ q.key = ObligationKey(p.shown.view)
               /\ q.next.submitted => p.next.submitted /\ q.key = p.key
<1> DEFINE q == ResetDiscard(p, old)
           k == ObligationKey(p.shown.view)
<1>1. k \in Keys
  BY DEF ObligationKey, Drafts, Faces, Views, Keys
<1> HIDE DEF k
<1>2. CASE k = p.key
  <2>1. q = p
    BY <1>2 DEF ResetDiscard, k
  <2> QED
    BY <1>2, <2>1, SameFollows DEF k
<1>3. CASE k # p.key
  <2> DEFINE r == [p EXCEPT !.key = k, !.next.submitted = FALSE]
  <2>1. q = r
    BY <1>3 DEF ResetDiscard, k
  <2>2. r \in Drafts
    BY <1>1 DEF Drafts, Faces
  <2>3. r.shown = p.shown /\ r.next.view = p.next.view /\ r.next.known = p.next.known
        /\ r.key = k /\ r.kept = p.kept /\ r.out = p.out
        /\ r.next.submitted = FALSE
    BY DEF Drafts, Faces
  <2> HIDE DEF r
  <2>4. Follows(p, r)
    BY <2>2, <2>3 DEF Follows, Discards
  <2> QED
    BY <2>1, <2>3, <2>4 DEF k
<1> QED
  BY <1>2, <1>3

\* A render leaves one page, in which the snapshot that had come is shown.
LEMMA RenderedFollows ==
    ASSUME NEW p \in Drafts, page.shown \in Faces, NEW r \in Rendered(p),
           p.key = ObligationKey(page.shown.view)
    PROVE  /\ r \in Drafts /\ r.shown = p.next
           /\ r.next.view = p.next.view /\ r.next.known = p.next.known
           /\ Discards(p) => Discards(r)
           /\ r.kept = IF p.next.known
                          /\ (~page.shown.known \/ p.next.intent # page.shown.intent)
                       THEN p.next.intent ELSE p.kept
           /\ r.key = ObligationKey(p.next.view)
           /\ r.next.submitted => p.next.submitted /\ r.key = p.key
<1> DEFINE old == page.shown
           p0 == [p EXCEPT !.shown = p.next]
           p1 == ReadStoredIntent(p0, old)
           p2 == StoreIntent(p1, old)
           p3 == SubmitIntent(p2, old)
           p4 == DropIntent(p3, old)
           p5 == ConfirmRebuy(p4, old)
           p6 == EndRebuy(p5, old)
           p7 == ResetDiscard(p6, old)
<1>1. r = p7
  BY DEF Rendered, After
<1>2. /\ p0 \in Drafts /\ p0.shown = p.next /\ p0.next = p.next /\ p0.key = p.key
      /\ p0.kept = p.kept /\ (Discards(p) => Discards(p0))
  BY DEF Drafts, Discards
<1> HIDE DEF p0
<1> old \in Faces
  OBVIOUS
<1>3. Follows(p0, p1) /\ StaysOwed(p0, p1) /\ p1.kept = p0.kept /\ p1 \in Drafts
  BY <1>2, ReadStoredIntentFollows DEF Follows
<1> HIDE DEF p1
<1>4. /\ Follows(p1, p2) /\ StaysOwed(p1, p2) /\ p2 \in Drafts
      /\ p2.kept = IF p1.shown.known /\ (~old.known \/ p1.shown.intent # old.intent)
                   THEN p1.shown.intent ELSE p1.kept
  BY <1>3, StoreIntentFollows DEF Follows
<1> HIDE DEF p2
<1>5. Follows(p2, p3) /\ StaysOwed(p2, p3) /\ p3.kept = p2.kept /\ p3 \in Drafts
  BY <1>4, SubmitIntentFollows DEF Follows
<1> HIDE DEF p3
<1>6. Follows(p3, p4) /\ StaysOwed(p3, p4) /\ p4.kept = p3.kept /\ p4 \in Drafts
  BY <1>5, DropIntentFollows DEF Follows
<1> HIDE DEF p4
<1>7. Follows(p4, p5) /\ StaysOwed(p4, p5) /\ p5.kept = p4.kept /\ p5 \in Drafts
  BY <1>6, ConfirmRebuyFollows DEF Follows
<1> HIDE DEF p5
<1>8. Follows(p5, p6) /\ StaysOwed(p5, p6) /\ p6.kept = p5.kept /\ p6 \in Drafts
  BY <1>7, EndRebuyFollows DEF Follows
<1> HIDE DEF p6
<1>9. p6.key = ObligationKey(old.view)
  BY <1>2, <1>3, <1>4, <1>5, <1>6, <1>7, <1>8 DEF StaysOwed
<1>10. /\ Follows(p6, p7) /\ p7.kept = p6.kept
       /\ p7.key = ObligationKey(p6.shown.view)
       /\ p7.next.submitted => p6.next.submitted /\ p7.key = p6.key
  BY <1>8, <1>9, ResetDiscardFollows
<1> HIDE DEF p7
<1>11. Follows(p0, p6) /\ StaysOwed(p0, p6)
  BY <1>3, <1>4, <1>5, <1>6, <1>7, <1>8, FollowsOn
<1>12. p1.shown = p.next /\ p6.shown = p.next
  BY <1>2, <1>3, <1>11 DEF Follows
<1> QED
  BY <1>1, <1>2, <1>3, <1>4, <1>5, <1>6, <1>7, <1>8, <1>10, <1>11, <1>12
     DEF Follows, StaysOwed

-----------------------------------------------------------------------------
(* The newest snapshot, and what has been owed.                             *)

\* A new snapshot that is on its way is the newest.
LEMMA SnapshotIsNewest ==
    ASSUME NEW v \in Views, NEW f, NEW d \in Seq(Answers)
    PROVE  Newest(v, f, Append(d, Snapshot(v)))
<1>1. Snapshot(v) \in Answers /\ Len(d) \in Nat
  BY AnswerKinds
<1>2. /\ DOMAIN Append(d, Snapshot(v)) = 1..(Len(d) + 1)
      /\ Append(d, Snapshot(v))[Len(d) + 1] = Snapshot(v)
  BY <1>1
<1> QED
  BY <1>1, <1>2 DEF Newest

\* An error leaves it the newest.
LEMMA ErrorsKeepNewest ==
    ASSUME NEW v \in Views, NEW f, NEW d \in Seq(Answers), Newest(v, f, d),
           NEW a \in {"discard", "other"}
    PROVE  Newest(v, f, Append(d, Error(a)))
<1> DEFINE e == Append(d, Error(a))
<1>1. Error(a) \in Answers /\ Error(a).kind = "error" /\ Len(d) \in Nat /\ DOMAIN d = 1..Len(d)
  BY AnswerKinds
<1>2. /\ DOMAIN e = 1..(Len(d) + 1) /\ e[Len(d) + 1].kind = "error"
      /\ \A i \in 1..Len(d) : e[i] = d[i]
  BY <1>1
<1> HIDE DEF e
<1>3. CASE \E i \in DOMAIN d : /\ d[i] = Snapshot(v)
                               /\ \A j \in DOMAIN d : j > i => d[j].kind = "error"
  <2>1. PICK i \in DOMAIN d : /\ d[i] = Snapshot(v)
                              /\ \A j \in DOMAIN d : j > i => d[j].kind = "error"
    BY <1>3
  <2>2. i \in DOMAIN e /\ e[i] = Snapshot(v)
    BY <1>1, <1>2, <2>1
  <2>3. \A j \in DOMAIN e : j > i => e[j].kind = "error"
    BY <1>1, <1>2, <2>1
  <2> QED
    BY <2>2, <2>3 DEF Newest, e
<1>4. CASE (\A j \in DOMAIN d : d[j].kind = "error") /\ (f.known => f.view = v)
  BY <1>1, <1>2, <1>4 DEF Newest
<1> QED
  BY <1>3, <1>4 DEF Newest, e

\* The page takes the message that has come.
LEMMA TakingKeepsNewest ==
    ASSUME NEW v \in Views, NEW f, NEW g, NEW d \in Seq(Answers), d # <<>>, Newest(v, f, d),
           \/ Head(d).kind = "state" /\ g.view = Head(d).state
           \/ Head(d).kind = "error" /\ g.view = f.view /\ g.known = f.known
    PROVE  Newest(v, g, Tail(d))
<1> DEFINE e == Tail(d)
<1>1. Len(d) \in Nat /\ DOMAIN d = 1..Len(d) /\ Head(d) = d[1] /\ 1 \in DOMAIN d
      /\ e \in Seq(Answers) /\ DOMAIN e = 1..(Len(d) - 1)
      /\ \A i \in DOMAIN e : e[i] = d[i + 1] /\ i + 1 \in DOMAIN d
  OBVIOUS
<1> HIDE DEF e
<1>2. CASE \E i \in DOMAIN d : /\ d[i] = Snapshot(v)
                               /\ \A j \in DOMAIN d : j > i => d[j].kind = "error"
  <2>1. PICK i \in DOMAIN d : /\ d[i] = Snapshot(v)
                              /\ \A j \in DOMAIN d : j > i => d[j].kind = "error"
    BY <1>2
  <2>2. CASE i = 1
    <3>1. Head(d).kind = "state" /\ Head(d).state = v
      BY <1>1, <2>1, <2>2, AnswerKinds
    <3>2. g.view = v
      BY <3>1
    <3>3. \A j \in DOMAIN e : e[j].kind = "error"
      BY <1>1, <2>1, <2>2
    <3> QED
      BY <3>2, <3>3 DEF Newest, e
  <2>3. CASE i # 1
    <3>1. i - 1 \in DOMAIN e /\ e[i - 1] = Snapshot(v)
      BY <1>1, <2>1, <2>3
    <3>2. \A j \in DOMAIN e : j > i - 1 => e[j].kind = "error"
      BY <1>1, <2>1, <2>3
    <3> QED
      BY <3>1, <3>2 DEF Newest, e
  <2> QED
    BY <2>2, <2>3
<1>3. CASE (\A j \in DOMAIN d : d[j].kind = "error") /\ (f.known => f.view = v)
  <2>1. g.view = f.view /\ g.known = f.known
    BY <1>1, <1>3
  <2>2. \A j \in DOMAIN e : e[j].kind = "error"
    BY <1>1, <1>3
  <2> QED
    BY <1>3, <2>1, <2>2 DEF Newest
<1> QED
  BY <1>2, <1>3 DEF Newest, e

\* The player's side moves on: what has been owed is owed or over, and what is over stays so.
Onward(v, w) ==
    /\ w \in Views /\ OwedInDiscard(w)
    /\ \A k \in Nat \X Nat : /\ Reached(v, k) => Reached(w, k)
                             /\ Passed(v, k) => Passed(w, k)

\* What a view shows as owed has been owed.
LEMMA OnwardComes ==
    ASSUME NEW v \in Views, NEW w, Onward(v, w), NEW x \in Views
    PROVE  /\ Comes(v, x) => Comes(w, x)
           /\ Comes(x, x)
<1>1. x.pending => ObligationKey(x) = <<x.hand, x.street>> /\ ObligationKey(x) \in Nat \X Nat
  BY DEF ObligationKey, Views
<1>2. Comes(x, x)
  BY <1>1 DEF Comes, Reached
<1>3. Comes(v, x) => Comes(w, x)
  BY <1>1 DEF Comes, Onward
<1> QED
  BY <1>2, <1>3

-----------------------------------------------------------------------------
(* The match.                                                               *)

\* The discard that is shown as submitted has been owed.
LEMMA SubmittedReached ==
    ASSUME IInv, open, page.next.submitted
    PROVE  Reached(seat, page.key) /\ page.key \in Nat \X Nat
<1>1. page.key # <<>> /\ page.key \in Keys /\ page.key = ObligationKey(page.shown.view)
  BY DEF IInv, SubmittedIsDue, PageTypeOK, Pages, KeyIsShown
<1>2. page.shown.view.pending
  BY <1>1 DEF ObligationKey
<1> QED
  BY <1>1, <1>2 DEF Keys, IInv, ViewsCome, Comes

\* A change of the table that is broadcast.
LEMMA ChangesKeep ==
    ASSUME IInv, NEW s, Changes(s), Onward(seat, s),
           UNCHANGED <<page, store, failed, open>>, up' \in Seq(Messages),
           elsewhere' \in Nat, elsewhere' >= elsewhere,
           open /\ page.next.submitted /\ InFlight("discard") =>
               Contains(up', Message("discard")) \/ Passed(s, page.key)
    PROVE  IInv'
<1>1. s \in Views /\ OwedInDiscard(s) /\ seat' = s
  BY DEF Onward, Changes
<1>2. /\ down' = IF open THEN Append(down, Snapshot(s)) ELSE down
      /\ down \in Seq(Answers) /\ Snapshot(s) \in Answers
  BY <1>1, AnswerKinds DEF Changes, IInv, PageTypeOK
<1>3. PageTypeOK'
  BY <1>1, <1>2 DEF IInv, PageTypeOK, Changes, Views
<1>4. ViewsCome'
  <2>1. \A x \in Views : (Comes(seat, x) => Comes(s, x)) /\ Comes(x, x)
    BY OnwardComes DEF IInv, PageTypeOK
  <2>2. page.shown.view \in Views /\ page.next.view \in Views
    BY DEF IInv, PageTypeOK, Pages, Faces
  <2>3. ASSUME NEW i \in DOMAIN down', down'[i].kind = "state" PROVE Comes(s, down'[i].state)
    <3>1. CASE i \in DOMAIN down /\ down'[i] = down[i]
      <4>1. down[i].state \in Views
        BY <1>2, <2>3, <3>1, AnswerKinds
      <4> QED
        BY <2>1, <2>3, <3>1, <4>1 DEF IInv, ViewsCome
    <3>2. CASE down'[i] = Snapshot(s)
      BY <1>1, <2>1, <3>2, AnswerKinds
    <3> QED
      BY <1>2, <2>3, <3>1, <3>2
  <2> QED
    BY <1>1, <2>1, <2>2, <2>3 DEF IInv, ViewsCome
<1>5. KeyIsShown' /\ StoredIsShown' /\ StaleByAnother'
  BY DEF IInv, PageTypeOK, KeyIsShown, StoredIsShown, StaleByAnother, Changes
<1>6. NewestIsDue'
  BY <1>1, <1>2, SnapshotIsNewest DEF NewestIsDue
<1>7. SubmittedIsDue'
  <2>1. SUFFICES ASSUME open, page.next.submitted
                 PROVE  page.key # <<>> /\ (Contains(up', Message("discard")) \/ Passed(s, page.key)
                                           \/ stale')
    BY <1>1 DEF SubmittedIsDue, InFlight
  <2>2. page.key # <<>> /\ (InFlight("discard") \/ Passed(seat, page.key) \/ stale)
    BY <2>1 DEF IInv, SubmittedIsDue
  <2>3. Reached(seat, page.key) /\ page.key \in Nat \X Nat
    BY <2>1, SubmittedReached
  <2>4. stale /\ ~stale' => Passed(s, page.key)
    BY <2>3 DEF Onward, Reached, Changes
  <2> QED
    BY <2>1, <2>2, <2>3, <2>4 DEF Onward
<1> QED
  BY <1>3, <1>4, <1>5, <1>6, <1>7 DEF IInv

\* A message that is refused.
LEMMA RefusalKeeps ==
    ASSUME IInv, NEW a \in {"discard", "other"}, seat' = seat,
           down' = IF open THEN Append(down, Error(a)) ELSE down,
           UNCHANGED <<page, store, failed, open, elsewhere>>, up' \in Seq(Messages),
           stale' \in BOOLEAN, stale => stale', stale' => elsewhere > 0,
           open /\ page.next.submitted /\ InFlight("discard") =>
               Contains(up', Message("discard")) \/ Passed(seat, page.key) \/ stale'
    PROVE  IInv'
<1>1. /\ down \in Seq(Answers) /\ Error(a) \in Answers /\ Error(a).kind = "error" /\ seat \in Views
  BY AnswerKinds DEF IInv, PageTypeOK
<1>2. PageTypeOK'
  BY <1>1 DEF IInv, PageTypeOK
<1>3. ViewsCome'
  <2>1. \A i \in DOMAIN down' : down'[i].kind = "state" => i \in DOMAIN down /\ down'[i] = down[i]
    BY <1>1
  <2> QED
    BY <2>1 DEF IInv, ViewsCome
<1>4. KeyIsShown' /\ StoredIsShown' /\ StaleByAnother'
  BY DEF IInv, KeyIsShown, StoredIsShown, StaleByAnother
<1>5. NewestIsDue'
  BY <1>1, ErrorsKeepNewest DEF IInv, NewestIsDue
<1>6. SubmittedIsDue'
  BY DEF IInv, SubmittedIsDue, InFlight
<1> QED
  BY <1>2, <1>3, <1>4, <1>5, <1>6 DEF IInv

\* The table changes by itself.
LEMMA TableKeeps ==
    ASSUME IInv, NEW s, Table(s), Onward(seat, s)
    PROVE  IInv'
BY ChangesKeep DEF Table, IInv, PageTypeOK, InFlight

\* Whatever moves forward through the hands and the streets moves on.
LEMMA MovesOn ==
    ASSUME NEW v \in Views, NEW w \in Views, OwedInDiscard(v), OwedInDiscard(w),
           \/ w.hand > v.hand
           \/ w.hand = v.hand /\ w.street > v.street
           \/ /\ w.hand = v.hand /\ w.street = v.street
              /\ \/ v.phase = "betting"
                 \/ w.phase # "betting" /\ (w.pending => v.pending)
              /\ w.phase = "betting" => v.phase = "betting"
              /\ v.pending => w.phase # "betting"
    PROVE  Onward(v, w)
<1>1. v.hand \in Nat /\ v.street \in Nat /\ w.hand \in Nat /\ w.street \in Nat
      /\ v.pending \in BOOLEAN /\ w.pending \in BOOLEAN
  BY DEF Views
<1>2. ASSUME NEW k \in Nat \X Nat
      PROVE  /\ Reached(v, k) => Reached(w, k)
             /\ Passed(v, k) => Passed(w, k)
  <2>1. k[1] \in Nat /\ k[2] \in Nat
    OBVIOUS
  <2> QED
    BY <1>1, <2>1 DEF Passed, Reached, OwedInDiscard
<1> QED
  BY <1>2 DEF Onward

\* A hand begins.
LEMMA StartHandKeeps ==
    ASSUME IInv, StartHand
    PROVE  IInv'
<1> DEFINE s == [seat EXCEPT !.phase = "betting", !.hand = seat.hand + 1, !.street = 1,
                             !.dealt = seat.chips /\ seat.status = "active"]
<1>1. seat \in Views /\ OwedInDiscard(seat) /\ MaxStreet \in Nat \ {0} /\ MaxHand \in Nat
  BY TablePageBounds DEF IInv, PageTypeOK, ViewsCome
<1>2. ~seat.pending /\ seat.hand < MaxHand
  BY <1>1 DEF StartHand, BetweenHands, OwedInDiscard, Views
<1>3. seat.hand + 1 \in 0..MaxHand /\ 1 \in 0..MaxStreet /\ seat.hand \in Nat
  BY <1>1, <1>2 DEF Views
<1>4. (seat.chips /\ seat.status = "active") \in BOOLEAN
  OBVIOUS
<1>5. s \in Views
  BY <1>1, <1>3, <1>4 DEF Views, Phases
<1>6. OwedInDiscard(s) /\ s.hand > seat.hand
  BY <1>1, <1>2, <1>3 DEF Views, OwedInDiscard
<1>7. Onward(seat, s)
  BY <1>1, <1>5, <1>6, MovesOn
<1> QED
  BY <1>7, TableKeeps DEF StartHand

\* A discard is owed.
LEMMA DemandDiscardKeeps ==
    ASSUME IInv, DemandDiscard
    PROVE  IInv'
<1> DEFINE s == [seat EXCEPT !.phase = "discard", !.pending = TRUE]
<1>1. seat \in Views /\ OwedInDiscard(seat)
  BY DEF IInv, PageTypeOK, ViewsCome
<1>2. /\ s \in Views /\ OwedInDiscard(s) /\ s.hand = seat.hand /\ s.street = seat.street
      /\ seat.phase = "betting" /\ s.phase = "discard"
  BY <1>1 DEF Views, OwedInDiscard, Phases, DemandDiscard
<1>3. Onward(seat, s)
  BY <1>1, <1>2, MovesOn
<1> QED
  BY <1>3, TableKeeps DEF DemandDiscard

\* It is not owed any more.
LEMMA AutoDiscardKeeps ==
    ASSUME IInv, AutoDiscard
    PROVE  IInv'
<1> DEFINE s == [seat EXCEPT !.pending = FALSE]
<1>1. seat \in Views /\ OwedInDiscard(seat)
  BY DEF IInv, PageTypeOK, ViewsCome
<1>2. /\ s \in Views /\ OwedInDiscard(s) /\ s.hand = seat.hand /\ s.street = seat.street
      /\ s.phase = seat.phase /\ seat.phase = "discard" /\ ~s.pending
  BY <1>1 DEF Views, OwedInDiscard, AutoDiscard
<1>3. Onward(seat, s)
  BY <1>1, <1>2, MovesOn
<1> QED
  BY <1>3, TableKeeps DEF AutoDiscard

\* The next street begins.
LEMMA CompleteDiscardPhaseKeeps ==
    ASSUME IInv, CompleteDiscardPhase
    PROVE  IInv'
<1> DEFINE s == [seat EXCEPT !.phase = "betting", !.street = seat.street + 1]
<1>1. seat \in Views /\ OwedInDiscard(seat) /\ MaxStreet \in Nat
  BY TablePageBounds DEF IInv, PageTypeOK, ViewsCome
<1>2. ~seat.pending /\ seat.street \in Nat /\ seat.street + 1 \in 0..MaxStreet
  BY <1>1 DEF Views, CompleteDiscardPhase
<1>3. s \in Views
  BY <1>1, <1>2 DEF Views, Phases
<1>4. OwedInDiscard(s) /\ s.hand = seat.hand /\ s.street > seat.street
  BY <1>1, <1>2 DEF Views, OwedInDiscard
<1>5. Onward(seat, s)
  BY <1>1, <1>3, <1>4, MovesOn
<1> QED
  BY <1>5, TableKeeps DEF CompleteDiscardPhase

\* The hand is over.
LEMMA FinishHandKeeps ==
    ASSUME IInv, FinishHand
    PROVE  IInv'
<1>1. seat \in Views /\ OwedInDiscard(seat) /\ ~seat.pending
  BY DEF IInv, PageTypeOK, ViewsCome, FinishHand
<1>2. PICK keeps \in BOOLEAN :
          Table([seat EXCEPT !.phase = "showdown", !.dealt = FALSE,
                !.chips = seat.chips /\ keeps,
                !.status = IF keeps THEN seat.status ELSE "busted"])
  BY DEF FinishHand
<1> DEFINE s == [seat EXCEPT !.phase = "showdown", !.dealt = FALSE,
                             !.chips = seat.chips /\ keeps,
                             !.status = IF keeps THEN seat.status ELSE "busted"]
<1>3. /\ s \in Views /\ OwedInDiscard(s) /\ s.hand = seat.hand /\ s.street = seat.street
      /\ s.phase = "showdown" /\ ~s.pending
  BY <1>1 DEF Views, OwedInDiscard, Phases
<1>4. Onward(seat, s)
  BY <1>1, <1>3, MovesOn
<1> QED
  BY <1>2, <1>4, TableKeeps

\* The table empties.
LEMMA ClearHandKeeps ==
    ASSUME IInv, ClearHand
    PROVE  IInv'
<1> DEFINE s == [seat EXCEPT !.phase = "none"]
<1>1. seat \in Views /\ OwedInDiscard(seat)
  BY DEF IInv, PageTypeOK, ViewsCome
<1>2. /\ s \in Views /\ OwedInDiscard(s) /\ s.hand = seat.hand /\ s.street = seat.street
      /\ s.phase = "none" /\ ~s.pending
  BY <1>1 DEF Views, OwedInDiscard, Phases, ClearHand
<1>3. Onward(seat, s)
  BY <1>1, <1>2, MovesOn
<1> QED
  BY <1>3, TableKeeps DEF ClearHand

\* A discard that is made is over.
LEMMA DoneIsOnward ==
    ASSUME NEW v \in Views, OwedInDiscard(v)
    PROVE  LET w == [v EXCEPT !.pending = FALSE]
           IN  w \in Views /\ Onward(v, w) /\ ~w.pending
<1> DEFINE w == [v EXCEPT !.pending = FALSE]
<1>1. /\ w \in Views /\ OwedInDiscard(w) /\ w.hand = v.hand /\ w.street = v.street
      /\ w.phase = v.phase /\ ~w.pending
  BY DEF Views, OwedInDiscard
<1> HIDE DEF w
<1>2. Onward(v, w)
  BY <1>1, MovesOn DEF OwedInDiscard
<1> QED
  BY <1>1, <1>2 DEF w

\* What another message does is not about discards.
LEMMA OtherIsOnward ==
    ASSUME seat \in Views, OwedInDiscard(seat), NEW kind, kind # "discard"
    PROVE  Onward(seat, Applied(kind))
<1> DEFINE s == Applied(kind)
<1>1. /\ s \in Views /\ s.hand = seat.hand /\ s.street = seat.street
      /\ s.phase = seat.phase /\ s.pending = seat.pending
  BY DEF Views, Applied
<1>2. OwedInDiscard(s)
  BY <1>1 DEF OwedInDiscard
<1> QED
  BY <1>1, <1>2, MovesOn DEF OwedInDiscard

\* The match handles a message.
LEMMA HandleMessageKeeps ==
    ASSUME IInv, HandleMessage
    PROVE  IInv'
<1> DEFINE kind == Head(up).kind
<1>1. /\ seat \in Views /\ OwedInDiscard(seat) /\ up \in Seq(Messages) /\ up # <<>>
      /\ up' = Tail(up) /\ UNCHANGED <<page, store, failed, open, elsewhere>>
      /\ elsewhere \in Nat /\ elsewhere' >= elsewhere /\ stale \in BOOLEAN
  BY DEF IInv, PageTypeOK, ViewsCome, HandleMessage
<1>2. up' \in Seq(Messages) /\ Head(up) \in Messages /\ (kind # "discard" => Head(up) # Message("discard"))
  BY <1>1 DEF Message
<1>3. kind # "discard" /\ InFlight("discard") => Contains(up', Message("discard"))
  BY <1>1, <1>2, TailHolds DEF InFlight
<1>4. open /\ page.next.submitted => Reached(seat, page.key) /\ page.key \in Nat \X Nat
  BY SubmittedReached
<1>5. CASE Accepts(kind) /\ Changes(Applied(kind))
  <2> DEFINE s == Applied(kind)
  <2>1. CASE kind = "discard"
    <3>1. seat.pending /\ s = [seat EXCEPT !.pending = FALSE]
      BY <1>5, <2>1 DEF Accepts, Applied
    <3>2. s \in Views /\ Onward(seat, s) /\ ~s.pending
      BY <1>1, <3>1, DoneIsOnward
    <3>3. open /\ page.next.submitted => Passed(s, page.key)
      BY <1>4, <3>2 DEF Onward, Reached
    <3> QED
      BY <1>1, <1>2, <1>5, <3>2, <3>3, ChangesKeep
  <2>2. CASE kind # "discard"
    <3>1. Onward(seat, s)
      BY <1>1, <2>2, OtherIsOnward
    <3> QED
      BY <1>1, <1>2, <1>3, <1>5, <2>2, <3>1, ChangesKeep
  <2> QED
    BY <2>1, <2>2
<1>6. ASSUME NEW fresh \in NumberIsFresh(kind),
             ~fresh \/ ~Accepts(kind) \/ kind = "chat", seat' = seat,
             down' = IF open THEN Append(down, Refusal(kind, fresh)) ELSE down,
             stale' = (stale \/ (kind = "discard" /\ ~fresh /\ seat.pending))
      PROVE  IInv'
  <2>1. PICK a \in {"discard", "other"} : Refusal(kind, fresh) = Error(a)
    BY DEF Refusal
  <2>2. kind = "discard" => ~seat.pending \/ stale'
    BY <1>6 DEF Accepts
  <2>3. open /\ page.next.submitted /\ kind = "discard" => Passed(seat, page.key) \/ stale'
    BY <1>4, <2>2 DEF Reached
  <2>4. ~fresh => elsewhere > 0
    BY DEF NumberIsFresh
  <2>5. stale' \in BOOLEAN /\ (stale => stale') /\ (stale' => elsewhere > 0)
    BY <1>1, <1>6, <2>4 DEF IInv, StaleByAnother
  <2> QED
    BY <1>1, <1>2, <1>3, <1>6, <2>1, <2>3, <2>5, RefusalKeeps
<1> QED
  BY <1>5, <1>6 DEF HandleMessage

\* The player uses another page.
LEMMA UseOtherPageKeeps ==
    ASSUME IInv, UseOtherPage
    PROVE  IInv'
<1>1. /\ seat \in Views /\ OwedInDiscard(seat) /\ up \in Seq(Messages)
      /\ elsewhere \in Nat /\ elsewhere' = elsewhere + 1
      /\ UNCHANGED <<page, up, failed, open>>
  BY DEF IInv, PageTypeOK, ViewsCome, UseOtherPage
<1>2. elsewhere' \in Nat /\ elsewhere' >= elsewhere /\ elsewhere' > 0
  BY <1>1
<1>3. ASSUME NEW kind \in Numbered, Accepts(kind), Changes(Applied(kind)), store' = store
      PROVE  IInv'
  <2>1. Onward(seat, Applied(kind))
    <3>1. CASE kind = "discard"
      BY <1>1, <3>1, DoneIsOnward DEF Applied
    <3>2. CASE kind # "discard"
      BY <1>1, <3>2, OtherIsOnward
    <3> QED
      BY <3>1, <3>2
  <2>2. InFlight("discard") => Contains(up', Message("discard"))
    BY <1>1 DEF InFlight
  <2> QED
    BY <1>1, <1>2, <1>3, <2>1, <2>2, ChangesKeep
<1>4. CASE store' \in Intents \cup {Nothing} /\ UNCHANGED <<seat, down, stale>>
  <2>1. PageTypeOK'
    BY <1>1, <1>2, <1>4 DEF IInv, PageTypeOK, Wishes
  <2>2. ViewsCome' /\ KeyIsShown' /\ NewestIsDue' /\ SubmittedIsDue'
    BY <1>1, <1>4 DEF IInv, ViewsCome, KeyIsShown, NewestIsDue, SubmittedIsDue, InFlight
  <2>3. StaleByAnother' /\ StoredIsShown'
    BY <1>2 DEF StaleByAnother, StoredIsShown
  <2> QED
    BY <2>1, <2>2, <2>3 DEF IInv
<1> QED
  BY <1>3, <1>4 DEF UseOtherPage

-----------------------------------------------------------------------------
(* The page.                                                                *)

\* The page as its handlers get it.
LEMMA NowIsDraft ==
    ASSUME IInv
    PROVE  /\ Now \in Drafts /\ Now.out = <<>> /\ Now.kept = store
           /\ Now.shown = page.shown /\ Now.next = page.next /\ Now.key = page.key
BY DEF IInv, PageTypeOK, Pages, Drafts, Now

\* The page becomes p: what its parts have to fulfil.
LEMMA BecomesKeeps ==
    ASSUME IInv, NEW p \in Drafts, Becomes(p), UNCHANGED <<seat, open, gate>>,
           p.key = ObligationKey(p.shown.view),
           p.shown.known /\ elsewhere = 0 => p.kept = p.shown.intent,
           Comes(seat, p.shown.view), Comes(seat, p.next.view),
           open /\ p.next.submitted =>
               p.key # <<>> /\ (InFlight("discard") \/ Discards(p) \/ Passed(seat, p.key)
                               \/ stale),
           down' \in Seq(Answers), open => Newest(seat, p.next, down'),
           \A i \in DOMAIN down' : down'[i].kind = "state" => Comes(seat, down'[i].state)
    PROVE  IInv'
<1>1. page \in Pages /\ page' = [f \in DOMAIN page |-> p[f]]
  BY DEF Becomes, IInv, PageTypeOK
<1>2. /\ page' \in Pages /\ page'.shown = p.shown /\ page'.next = p.next /\ page'.key = p.key
      /\ store' = p.kept /\ store' \in Wishes
  BY <1>1 DEF Pages, Drafts, Becomes
<1>3. up \in Seq(Messages) /\ p.out \in Seq(Messages)
  BY DEF IInv, PageTypeOK, Drafts
<1>4. /\ up' \in Seq(Messages) /\ (InFlight("discard") => InFlight("discard")')
      /\ open /\ Discards(p) => InFlight("discard")'
  BY <1>3, JoinHolds DEF Becomes, InFlight, Discards
<1>5. failed' \subseteq {"requestState", "discard", "rebuy", "sitOut", "ready", "chat"}
  <2>1. \A i \in DOMAIN p.out : p.out[i] \in Messages
    BY <1>3
  <2>2. \A i \in DOMAIN p.out :
          p.out[i].kind \in {"requestState", "discard", "rebuy", "sitOut", "ready", "chat"}
    BY <2>1 DEF Messages
  <2>3. failed' \subseteq failed \cup {p.out[i].kind : i \in DOMAIN p.out}
    BY DEF Becomes
  <2> QED
    BY <2>2, <2>3 DEF IInv, PageTypeOK
<1>6. PageTypeOK'
  BY <1>2, <1>4, <1>5 DEF IInv, PageTypeOK, gate
<1>7. ViewsCome' /\ KeyIsShown' /\ StoredIsShown' /\ NewestIsDue' /\ StaleByAnother'
  BY <1>2 DEF IInv, ViewsCome, KeyIsShown, StoredIsShown, NewestIsDue, StaleByAnother, gate
<1>8. SubmittedIsDue'
  BY <1>2, <1>4 DEF SubmittedIsDue, gate
<1> QED
  BY <1>6, <1>7, <1>8 DEF IInv

\* A render, or a click and the render that follows it: q is the page that is rendered.
LEMMA RenderingKeeps ==
    ASSUME IInv, NEW q, Follows(Now, q), q.key = page.key, q.kept = store,
           open /\ q.next.submitted =>
               page.key # <<>> /\ (InFlight("discard") \/ Discards(q) \/ Passed(seat, page.key)
                               \/ stale),
           \E r \in Rendered(q) : Becomes(r), UNCHANGED <<seat, down, open, gate>>
    PROVE  IInv'
<1>1. /\ q \in Drafts /\ q.shown = page.shown
      /\ q.next.view = page.next.view /\ q.next.known = page.next.known
  BY NowIsDraft DEF Follows
<1>2. PICK r \in Rendered(q) : Becomes(r)
  OBVIOUS
<1>3. page.shown \in Faces /\ q.key = ObligationKey(page.shown.view)
  BY DEF IInv, PageTypeOK, Pages, KeyIsShown
<1>4. /\ r \in Drafts /\ r.shown = q.next
      /\ r.next.view = q.next.view /\ r.next.known = q.next.known
      /\ Discards(q) => Discards(r)
      /\ r.kept = IF q.next.known
                     /\ (~page.shown.known \/ q.next.intent # page.shown.intent)
                  THEN q.next.intent ELSE q.kept
      /\ r.key = ObligationKey(q.next.view)
      /\ r.next.submitted => q.next.submitted /\ r.key = q.key
  BY <1>1, <1>3, RenderedFollows
<1>5. r.key = ObligationKey(r.shown.view)
  BY <1>4
<1>6. r.shown.known /\ elsewhere = 0 => r.kept = r.shown.intent
  BY <1>4 DEF IInv, StoredIsShown
<1>7. Comes(seat, r.shown.view) /\ Comes(seat, r.next.view)
  BY <1>1, <1>4 DEF IInv, ViewsCome
<1>8. open /\ r.next.submitted =>
          r.key # <<>> /\ (InFlight("discard") \/ Discards(r) \/ Passed(seat, r.key) \/ stale)
  BY <1>4
<1>9. down' \in Seq(Answers) /\ (open => Newest(seat, r.next, down'))
  BY <1>1, <1>4 DEF IInv, PageTypeOK, NewestIsDue, Newest
<1>10. \A i \in DOMAIN down' : down'[i].kind = "state" => Comes(seat, down'[i].state)
  BY DEF IInv, ViewsCome
<1> QED
  BY <1>2, <1>4, <1>5, <1>6, <1>7, <1>8, <1>9, <1>10, BecomesKeeps

\* The page is rendered.
LEMMA RenderKeeps ==
    ASSUME IInv, Render
    PROVE  IInv'
<1>1. Follows(Now, Now) /\ Now.key = page.key /\ Now.kept = store /\ Now.next = page.next
  BY NowIsDraft, SameFollows
<1>2. open /\ page.next.submitted =>
          page.key # <<>> /\ (InFlight("discard") \/ Passed(seat, page.key) \/ stale)
  BY DEF IInv, SubmittedIsDue
<1> QED
  BY <1>1, <1>2, RenderingKeeps DEF Render

\* A click that submits no discard.
LEMMA ClickKeeps ==
    ASSUME IInv, NEW q, Follows(Now, q), StaysOwed(Now, q), q.kept = store, Clicks(q)
    PROVE  IInv'
<1>1. q.key = page.key /\ q.next.submitted = page.next.submitted
  BY NowIsDraft DEF StaysOwed
<1>2. open /\ page.next.submitted =>
          page.key # <<>> /\ (InFlight("discard") \/ Passed(seat, page.key) \/ stale)
  BY DEF IInv, SubmittedIsDue
<1> QED
  BY <1>1, <1>2, RenderingKeeps DEF Clicks

\* The player chooses.
LEMMA ChooseNextHandIntentKeeps ==
    ASSUME IInv, NEW i \in Intents, ChooseNextHandIntent(i)
    PROVE  IInv'
<1> DEFINE u == UpdateQueuedNextHandIntent(Now, i)
           q == [u EXCEPT !.readied = FALSE, !.next.applying = Nothing]
<1>1. /\ Now \in Drafts /\ Follows(Now, u) /\ StaysOwed(Now, u) /\ u.kept = store
      /\ u \in Drafts
  BY NowIsDraft, ChoiceFollows DEF Wishes, Follows
<1> HIDE DEF u
<1>2. q \in Drafts
  BY <1>1 DEF Drafts, Faces, Wishes
<1>3. q.shown = u.shown /\ q.next.view = u.next.view /\ q.next.known = u.next.known
      /\ q.key = u.key /\ q.kept = u.kept /\ q.out = u.out
      /\ q.next.submitted = u.next.submitted
  BY <1>1 DEF Drafts, Faces
<1> HIDE DEF q
<1>4. Follows(u, q) /\ StaysOwed(u, q)
  BY <1>2, <1>3 DEF Follows, StaysOwed, Discards
<1>5. Follows(Now, q) /\ StaysOwed(Now, q) /\ q.kept = store
  BY <1>1, <1>3, <1>4, FollowsOn
<1>6. Clicks(q)
  BY DEF ChooseNextHandIntent, q, u
<1> QED
  BY <1>5, <1>6, ClickKeeps

\* The player submits a discard.
LEMMA SubmitDiscardKeeps ==
    ASSUME IInv, SubmitDiscard
    PROVE  IInv'
<1> DEFINE n == [Now EXCEPT !.next.submitted = TRUE]
           q == Send(n, "discard")
<1>1. n \in Drafts
  BY NowIsDraft DEF Drafts, Faces
<1>2. /\ n.shown = Now.shown /\ n.next.view = Now.next.view /\ n.next.known = Now.next.known
      /\ n.key = Now.key /\ n.kept = Now.kept /\ n.out = Now.out
  BY NowIsDraft DEF Drafts, Faces
<1> HIDE DEF n
<1>3. Follows(Now, n)
  BY <1>1, <1>2 DEF Follows, Discards
<1>4. Follows(n, q) /\ StaysOwed(n, q) /\ q.kept = n.kept /\ Discards(q)
  BY <1>1, SendFollows
<1>5. Follows(Now, q) /\ q.key = page.key /\ q.kept = store
  BY <1>2, <1>3, <1>4, FollowsOn, NowIsDraft DEF StaysOwed
<1>6. page.key # <<>>
  BY DEF SubmitDiscard, IInv, KeyIsShown, ObligationKey
<1>7. Clicks(q)
  BY DEF SubmitDiscard, n
<1> QED
  BY <1>4, <1>5, <1>6, <1>7, RenderingKeeps DEF Clicks

\* The player chats.
LEMMA SendChatMessageKeeps ==
    ASSUME IInv, SendChatMessage
    PROVE  IInv'
<1>1. Follows(Now, Send(Now, "chat")) /\ StaysOwed(Now, Send(Now, "chat"))
      /\ Send(Now, "chat").kept = store
  BY NowIsDraft, SendFollows
<1> QED
  BY <1>1, ClickKeeps DEF SendChatMessage

\* A discard submitted that was not taken is open again.
LEMMA RecoverFollows ==
    ASSUME NEW p \in Drafts
    PROVE  LET q == RecoverDiscardSubmission(p)
           IN  Follows(p, q) /\ q.kept = p.kept /\ q.key = p.key /\ q.next.submitted = FALSE
<1> DEFINE r == [p EXCEPT !.next.submitted = FALSE]
<1>1. r \in Drafts
  BY DEF Drafts, Faces
<1>2. r.shown = p.shown /\ r.next.view = p.next.view /\ r.next.known = p.next.known
      /\ r.key = p.key /\ r.kept = p.kept /\ r.out = p.out /\ r.next.submitted = FALSE
  BY DEF Drafts, Faces
<1> HIDE DEF r
<1>3. Follows(p, r)
  BY <1>1, <1>2 DEF Follows, Discards
<1> DEFINE q == Send(r, "requestState")
<1>4. Follows(r, q) /\ StaysOwed(r, q) /\ q.kept = r.kept
  BY <1>1, SendFollows
<1>5. Follows(p, q) /\ q.kept = p.kept /\ q.key = p.key /\ q.next.submitted = FALSE
  BY <1>2, <1>3, <1>4, FollowsOn DEF StaysOwed
<1> QED
  BY <1>5 DEF RecoverDiscardSubmission, r

\* A rebuy and a choice that were refused can be made again.
LEMMA RefusedFollows ==
    ASSUME NEW p \in Drafts
    PROVE  LET q == [UpdateRebuyState(p, "idle") EXCEPT !.readied = FALSE]
           IN  Follows(p, q) /\ StaysOwed(p, q) /\ q.kept = p.kept /\ q \in Drafts
<1> DEFINE c == UpdateRebuyState(p, "idle")
           q == [c EXCEPT !.readied = FALSE]
<1>1. Follows(p, c) /\ StaysOwed(p, c) /\ c.kept = p.kept /\ c \in Drafts
  BY RebuyFollows DEF Progress, Follows
<1> HIDE DEF c
<1>2. Follows(c, q) /\ StaysOwed(c, q) /\ q.kept = c.kept /\ q \in Drafts
  BY <1>1, ReadiedFollows DEF Follows
<1> HIDE DEF q
<1>3. Follows(p, q) /\ StaysOwed(p, q) /\ q.kept = p.kept /\ q \in Drafts
  BY <1>1, <1>2, FollowsOn
<1> QED
  BY <1>3 DEF c, q

\* The page is told of an error.
LEMMA ReceiveErrorFollows ==
    ASSUME NEW p \in Drafts, NEW about
    PROVE  LET q == ReceiveError(p, about)
           IN  /\ Follows(p, q) /\ q.kept = p.kept /\ q.key = p.key
               /\ q.next.submitted => p.next.submitted
<1> DEFINE p1 == IF p.rebuy # "idle"
                 THEN [UpdateRebuyState(p, "idle") EXCEPT !.readied = FALSE] ELSE p
           p2 == IF p.intent # Nothing
                 THEN [p1 EXCEPT !.next.applying = Nothing, !.sent = FALSE] ELSE p1
           q == IF about = "discard" THEN RecoverDiscardSubmission(p2) ELSE p2
<1>1. Follows(p, p1) /\ StaysOwed(p, p1) /\ p1.kept = p.kept /\ p1 \in Drafts
  BY SameFollows, RefusedFollows
<1> HIDE DEF p1
<1>2. Follows(p1, p2) /\ StaysOwed(p1, p2) /\ p2.kept = p1.kept /\ p2 \in Drafts
  <2> DEFINE a == [p1 EXCEPT !.next.applying = Nothing, !.sent = FALSE]
  <2>1. Follows(p1, a) /\ StaysOwed(p1, a) /\ a.kept = p1.kept
    BY <1>1, ApplyingFollows DEF Wishes
  <2>2. p2 = a \/ p2 = p1
    OBVIOUS
  <2> HIDE DEF a, p2
  <2> QED
    BY <1>1, <2>1, <2>2, SameFollows DEF Follows
<1> HIDE DEF p2
<1>3. /\ Follows(p2, q) /\ q.kept = p2.kept /\ q.key = p2.key
      /\ q.next.submitted => p2.next.submitted
  BY <1>2, SameFollows, RecoverFollows
<1> HIDE DEF q
<1>4. /\ Follows(p, q) /\ q.kept = p.kept /\ q.key = p.key
      /\ q.next.submitted => p.next.submitted
  BY <1>1, <1>2, <1>3, FollowsOn DEF StaysOwed
<1> QED
  BY <1>4 DEF ReceiveError, p1, p2, q

\* The page takes in a message.
LEMMA OnServerMessageKeeps ==
    ASSUME IInv, OnServerMessage
    PROVE  IInv'
<1> DEFINE m == Head(down)
           p == IF m.kind = "state" THEN ReceiveState(Now, m.state) ELSE ReceiveError(Now, m.about)
<1>1. Becomes(p) /\ down # <<>> /\ down' = Tail(down) /\ UNCHANGED <<seat, open, gate>>
  BY DEF OnServerMessage
<1>2. /\ down \in Seq(Answers) /\ down' \in Seq(Answers) /\ m \in Answers /\ 1 \in DOMAIN down
      /\ m = down[1] /\ \A i \in DOMAIN down' : i + 1 \in DOMAIN down /\ down'[i] = down[i + 1]
  BY <1>1 DEF IInv, PageTypeOK
<1>3. \A i \in DOMAIN down' : down'[i].kind = "state" => Comes(seat, down'[i].state)
  BY <1>2 DEF IInv, ViewsCome
<1>4. /\ Now \in Drafts /\ Now.shown = page.shown /\ Now.next = page.next
      /\ Now.key = page.key /\ Now.kept = store
  BY NowIsDraft
<1>5. /\ p \in Drafts /\ p.shown = page.shown /\ p.key = page.key /\ p.kept = store
      /\ p.next.submitted => page.next.submitted
      /\ \/ m.kind = "state" /\ p.next.view = m.state
         \/ m.kind = "error" /\ p.next.view = page.next.view /\ p.next.known = page.next.known
  <2>1. CASE m.kind = "state"
    <3>1. p = [Now EXCEPT !.next.view = m.state, !.next.known = TRUE] /\ m.state \in Views
      BY <1>2, <2>1, AnswerKinds DEF ReceiveState
    <3> HIDE DEF p
    <3>2. [Now EXCEPT !.next.view = m.state, !.next.known = TRUE] \in Drafts
      BY <1>4, <3>1 DEF Drafts, Faces
    <3>3. p.shown = Now.shown /\ p.key = Now.key /\ p.kept = Now.kept
          /\ p.next.submitted = Now.next.submitted /\ p.next.view = m.state
      BY <1>4, <3>1 DEF Drafts, Faces
    <3> QED
      BY <1>4, <2>1, <3>1, <3>2, <3>3
  <2>2. CASE m.kind # "state"
    <3>1. m.kind = "error" /\ p = ReceiveError(Now, m.about)
      BY <1>2, <2>2, AnswerKinds
    <3> HIDE DEF p
    <3>2. /\ Follows(Now, p) /\ p.kept = Now.kept /\ p.key = Now.key
          /\ p.next.submitted => Now.next.submitted
      BY <1>4, <3>1, ReceiveErrorFollows
    <3> QED
      BY <1>4, <3>1, <3>2 DEF Follows
  <2> QED
    BY <2>1, <2>2
<1> HIDE DEF p
<1>6. open => Newest(seat, p.next, down')
  <2>1. seat \in Views /\ (open => Newest(seat, page.next, down))
    BY DEF IInv, PageTypeOK, NewestIsDue
  <2>2. ASSUME open PROVE Newest(seat, p.next, Tail(down))
    BY <1>1, <1>2, <1>5, <2>1, <2>2, TakingKeepsNewest
  <2> QED
    BY <1>1, <2>2
<1>7. Comes(seat, p.shown.view) /\ Comes(seat, p.next.view)
  BY <1>2, <1>5 DEF IInv, ViewsCome
<1>8. /\ p.key = ObligationKey(p.shown.view)
      /\ p.shown.known /\ elsewhere = 0 => p.kept = p.shown.intent
  BY <1>5 DEF IInv, KeyIsShown, StoredIsShown
<1>9. open /\ p.next.submitted =>
          p.key # <<>> /\ (InFlight("discard") \/ Discards(p) \/ Passed(seat, p.key) \/ stale)
  BY <1>5 DEF IInv, SubmittedIsDue
<1> QED
  BY <1>1, <1>2, <1>3, <1>5, <1>6, <1>7, <1>8, <1>9, BecomesKeeps

\* A message that could not be sent is rejected.
LEMMA SendFailsKeeps ==
    ASSUME IInv, SendFails
    PROVE  IInv'
<1> DEFINE Q(kind) ==
        CASE kind = "discard" -> RecoverDiscardSubmission(Now)
          [] kind \in Intents ->
               [UpdateRebuyState(Now, "idle") EXCEPT !.readied = FALSE,
                   !.next.applying = Nothing, !.sent = FALSE]
          [] OTHER -> Now
<1>1. PICK kind \in failed :
          failed' = failed \ {kind} /\ page' = [f \in DOMAIN page |-> Q(kind)[f]]
  BY DEF SendFails
<1>2. UNCHANGED <<seat, store, up, down, open, elsewhere, stale>>
  BY DEF SendFails, gate
<1>3. /\ Now \in Drafts /\ Now.shown = page.shown /\ Now.next = page.next
      /\ Now.key = page.key /\ Now.kept = store
  BY NowIsDraft
<1> DEFINE q == Q(kind)
<1>4. /\ q \in Drafts /\ q.shown = page.shown /\ q.key = page.key
      /\ q.next.view = page.next.view /\ q.next.known = page.next.known
      /\ q.next.submitted => page.next.submitted
  <2>1. CASE q = RecoverDiscardSubmission(Now)
    <3>1. /\ Follows(Now, q) /\ q.key = Now.key /\ q.next.submitted = FALSE
      BY <1>3, <2>1, RecoverFollows
    <3> QED
      BY <1>3, <3>1 DEF Follows
  <2>2. CASE q = [UpdateRebuyState(Now, "idle") EXCEPT !.readied = FALSE,
                     !.next.applying = Nothing, !.sent = FALSE]
    <3> DEFINE c == UpdateRebuyState(Now, "idle")
               r == [c EXCEPT !.readied = FALSE, !.next.applying = Nothing, !.sent = FALSE]
    <3>1. Follows(Now, c) /\ StaysOwed(Now, c) /\ c \in Drafts
      BY <1>3, RebuyFollows DEF Progress, Follows
    <3>2. q = r
      BY <2>2
    <3> HIDE DEF c, q
    <3>3. r \in Drafts
      BY <3>1 DEF Drafts, Faces, Wishes
    <3>4. r.shown = c.shown /\ r.key = c.key /\ r.next.view = c.next.view
          /\ r.next.known = c.next.known /\ r.next.submitted = c.next.submitted
      BY <3>1 DEF Drafts, Faces
    <3> HIDE DEF r
    <3> QED
      BY <1>3, <3>1, <3>2, <3>3, <3>4 DEF Follows, StaysOwed
  <2>3. CASE q = Now
    BY <1>3, <2>3
  <2> QED
    BY <2>1, <2>2, <2>3
<1> HIDE DEF q, Q
<1>5. page' = [f \in DOMAIN page |-> q[f]] /\ page \in Pages
  BY <1>1 DEF q, IInv, PageTypeOK
<1>6. page' \in Pages /\ page'.shown = q.shown /\ page'.next = q.next /\ page'.key = q.key
  BY <1>4, <1>5 DEF Pages, Drafts
<1>7. PageTypeOK'
  BY <1>1, <1>2, <1>6 DEF IInv, PageTypeOK
<1>8. ViewsCome' /\ KeyIsShown' /\ StoredIsShown' /\ StaleByAnother'
  BY <1>2, <1>4, <1>6 DEF IInv, ViewsCome, KeyIsShown, StoredIsShown, StaleByAnother
<1>9. NewestIsDue'
  BY <1>2, <1>4, <1>6 DEF IInv, NewestIsDue, Newest
<1>10. SubmittedIsDue'
  BY <1>2, <1>4, <1>6 DEF IInv, SubmittedIsDue, InFlight
<1> QED
  BY <1>7, <1>8, <1>9, <1>10 DEF IInv

\* The socket goes down.
LEMMA LoseSocketKeeps ==
    ASSUME IInv, LoseSocket
    PROVE  IInv'
<1>1. /\ UNCHANGED <<seat, page, store, failed, elsewhere, stale>> /\ open' = FALSE /\ down' = <<>>
      /\ up' \in Seq(Messages) /\ down' \in Seq(Answers)
  <2>1. up \in Seq(Messages) /\ <<>> \in Seq(Messages) /\ <<>> \in Seq(Answers)
    BY DEF IInv, PageTypeOK
  <2>2. up' = up \/ up' = <<>>
    BY DEF LoseSocket
  <2> QED
    BY <2>1, <2>2 DEF LoseSocket, gate
<1>2. PageTypeOK'
  BY <1>1 DEF IInv, PageTypeOK
<1>3. ViewsCome' /\ KeyIsShown' /\ StoredIsShown' /\ StaleByAnother'
  BY <1>1 DEF IInv, ViewsCome, KeyIsShown, StoredIsShown, StaleByAnother
<1>4. NewestIsDue' /\ SubmittedIsDue'
  BY <1>1 DEF NewestIsDue, SubmittedIsDue
<1> QED
  BY <1>2, <1>3, <1>4 DEF IInv

\* A page that has just been loaded.
LEMMA FreshPageFits ==
    /\ FreshPage \in Pages /\ FreshPage.key = ObligationKey(FreshPage.shown.view)
    /\ ~FreshPage.shown.known /\ ~FreshPage.next.known /\ ~FreshPage.next.submitted
    /\ ~FreshPage.shown.view.pending /\ ~FreshPage.next.view.pending
<1>1. NoView \in Views /\ NoView.pending = FALSE
  BY TablePageBounds DEF NoView, Views, Phases
<1>2. Fresh \in Faces /\ Fresh.view = NoView /\ Fresh.known = FALSE /\ Fresh.submitted = FALSE
  BY <1>1 DEF Fresh, Faces, Progress, Wishes
<1>3. FreshPage \in Pages /\ FreshPage.shown = Fresh /\ FreshPage.next = Fresh
      /\ FreshPage.key = <<>>
  BY <1>2 DEF FreshPage, Pages, Keys, Wishes, Progress
<1> QED
  BY <1>1, <1>2, <1>3 DEF ObligationKey

\* It needs nothing but its types.
LEMMA FreshKeeps ==
    ASSUME page' = FreshPage, down' = <<>>, seat' \in Views, OwedInDiscard(seat'),
           elsewhere' \in Nat, stale' \in BOOLEAN, StaleByAnother', store' \in Wishes, up' \in Seq(Messages), open' \in BOOLEAN,
           failed' \subseteq {"requestState", "discard", "rebuy", "sitOut", "ready", "chat"}
    PROVE  IInv'
<1>1. PageTypeOK'
  BY FreshPageFits DEF PageTypeOK
<1>2. ViewsCome' /\ KeyIsShown' /\ StoredIsShown' /\ SubmittedIsDue'
  BY FreshPageFits DEF ViewsCome, KeyIsShown, StoredIsShown, SubmittedIsDue, Comes
<1>3. NewestIsDue'
  BY FreshPageFits DEF NewestIsDue, Newest
<1> QED
  BY <1>1, <1>2, <1>3 DEF IInv

\* The player leaves.
LEMMA HandleExitTableKeeps ==
    ASSUME IInv, HandleExitTable
    PROVE  IInv'
BY FreshKeeps DEF HandleExitTable, IInv, PageTypeOK, ViewsCome, Wishes, StaleByAnother, gate

\* The page is loaded again.
LEMMA ReloadKeeps ==
    ASSUME IInv, Reload
    PROVE  IInv'
<1>1. PICK kept \in {up, <<>>} : up' = Append(kept, Message("requestState"))
  BY DEF Reload
<1>2. Message("requestState") \in Messages /\ kept \in Seq(Messages)
  <2>1. up \in Seq(Messages) /\ <<>> \in Seq(Messages)
    BY DEF IInv, PageTypeOK
  <2>2. kept = up \/ kept = <<>>
    OBVIOUS
  <2>3. Message("requestState") \in Messages
    BY DEF Message, Messages
  <2> QED
    BY <2>1, <2>2, <2>3
<1>3. up' \in Seq(Messages)
  BY <1>1, <1>2
<1> QED
  BY <1>3, FreshKeeps DEF Reload, IInv, PageTypeOK, ViewsCome, StaleByAnother, gate

-----------------------------------------------------------------------------
(* The theorems.                                                            *)

\* The invariant holds to begin with.
LEMMA InitIsRight == Init => IInv
<1> SUFFICES ASSUME Init PROVE IInv
  OBVIOUS
<1>1. PICK chips \in BOOLEAN :
          seat = [NoView EXCEPT !.chips = chips, !.status = IF chips THEN "active" ELSE "busted"]
  BY DEF Init
<1>2. seat \in Views /\ OwedInDiscard(seat)
  <2>1. NoView \in Views /\ NoView.pending = FALSE
    BY TablePageBounds DEF NoView, Views, Phases
  <2>2. (IF chips THEN "active" ELSE "busted") \in {"active", "busted", "sitting_out"}
    OBVIOUS
  <2>3. seat \in Views /\ seat.pending = FALSE
    BY <1>1, <2>1, <2>2 DEF Views
  <2> QED
    BY <2>3 DEF OwedInDiscard
<1>3. up \in Seq(Messages) /\ down \in Seq(Answers)
  BY DEF Init, Message, Messages
<1>4. PageTypeOK
  BY <1>2, <1>3, FreshPageFits DEF Init, PageTypeOK, Wishes
<1>5. ViewsCome /\ KeyIsShown /\ StoredIsShown /\ SubmittedIsDue /\ StaleByAnother
  BY <1>2, FreshPageFits DEF Init, ViewsCome, KeyIsShown, StoredIsShown, SubmittedIsDue, Comes,
       StaleByAnother
<1>6. NewestIsDue
  BY FreshPageFits DEF Init, NewestIsDue, Newest
<1> QED
  BY <1>4, <1>5, <1>6 DEF IInv

\* Every step of the match, of the page and of the player keeps it.
LEMMA StepKeeps == IInv /\ [Next]_vars => IInv'
<1> SUFFICES ASSUME IInv, [Next]_vars PROVE IInv'
  OBVIOUS
<1>1. CASE UNCHANGED vars
  BY <1>1 DEF vars, gate, IInv, PageTypeOK, ViewsCome, KeyIsShown, NewestIsDue, SubmittedIsDue,
       StaleByAnother, StoredIsShown, InFlight
<1>2. CASE StartHand \/ DemandDiscard \/ AutoDiscard \/ CompleteDiscardPhase
  BY <1>2, StartHandKeeps, DemandDiscardKeeps, AutoDiscardKeeps, CompleteDiscardPhaseKeeps
<1>3. CASE FinishHand \/ ClearHand \/ HandleMessage \/ UseOtherPage
  BY <1>3, FinishHandKeeps, ClearHandKeeps, HandleMessageKeeps, UseOtherPageKeeps
<1>4. CASE Render \/ OnServerMessage \/ SendFails
  BY <1>4, RenderKeeps, OnServerMessageKeeps, SendFailsKeeps
<1>5. CASE (\E i \in Intents : ChooseNextHandIntent(i)) \/ SubmitDiscard \/ SendChatMessage
  BY <1>5, ChooseNextHandIntentKeeps, SubmitDiscardKeeps, SendChatMessageKeeps
<1>6. CASE LoseSocket \/ HandleExitTable \/ Reload
  BY <1>6, LoseSocketKeeps, HandleExitTableKeeps, ReloadKeeps
<1> QED
  BY <1>1, <1>2, <1>3, <1>4, <1>5, <1>6 DEF Next

\* The invariant, at every moment.
LEMMA PageIsRight == Spec => []IInv
BY InitIsRight, StepKeeps, PTL DEF Spec

\* A discard that is shown as owed and submitted waits for something, or was refused for
\* its number and is owed still.
LEMMA SubmittedWaits == IInv => NoDiscardHangs
<1> SUFFICES ASSUME IInv, open, page.next = page.shown, page.shown.known,
                    page.shown.view.pending, page.shown.submitted, down = <<>>,
                    ~InFlight("discard")
             PROVE  /\ elsewhere > 0 /\ stale
                    /\ ObligationKey(seat) = ObligationKey(page.shown.view)
  BY DEF NoDiscardHangs, Settled
<1>1. page.shown.view = seat
  BY DEF IInv, NewestIsDue, Newest
<1>2. /\ page.key = <<seat.hand, seat.street>> /\ seat.pending
      /\ seat.hand \in Nat /\ seat.street \in Nat
  BY <1>1 DEF IInv, KeyIsShown, ObligationKey, PageTypeOK, Views
<1>3. ~Passed(seat, page.key)
  BY <1>2 DEF Passed
<1>4. stale
  BY <1>3 DEF IInv, SubmittedIsDue
<1> QED
  BY <1>1, <1>4 DEF IInv, StaleByAnother

\* TablePage.NoDiscardHangs, for any hands, streets, messages in flight, reloads and uses
\* of another page: a page that shows a discard owed and says it has been submitted waits
\* for its discard, for an answer or for a snapshot (submitDiscard, the obligation effect
\* and recoverDiscardSubmission), unless the player has used another page, the match has
\* refused the discard for its number (reserveSequence) and still demands it.
THEOREM DiscardsDoNotHang == Spec => []NoDiscardHangs
BY PageIsRight, SubmittedWaits, PTL

\* TablePage.StoreMirrorsChoice, for any hands, streets, messages in flight and reloads:
\* what localStorage keeps for the next load is the choice the page shows (the effects
\* that read, store and drop the choice for the next hand), while the player has used no
\* other page.
THEOREM ChoicesAreStored == Spec => []StoreMirrorsChoice
<1>1. IInv => StoreMirrorsChoice
  BY DEF IInv, StoredIsShown, StoreMirrorsChoice, Settled
<1> QED
  BY <1>1, PageIsRight, PTL
=============================================================================
