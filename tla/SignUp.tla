------------------------------- MODULE SignUp -------------------------------
(***************************************************************************)
(* Early access: the form of the landing page (HeroSection), the handler   *)
(* of /api/early-access, the table of sign-ups in Postgres, and the two    *)
(* announcements of a new one, on Discord and by e-mail.                   *)
(*                                                                         *)
(* Left out: the name and tracking fields, how a message is worded, and    *)
(* the connection pool, whose limits show only as failed queries.          *)
(***************************************************************************)
EXTENDS Naturals, FiniteSets

CONSTANTS
    Visitors,       \* browsers showing the landing page
    Addresses,      \* what may be typed as an e-mail address
    Form,           \* the addresses the form lets pass (EMAIL_PATTERN)
    Emails,         \* addresses in lower case and trimmed
    NoEmail,
    NormalizeEmail, \* the e-mail of an address, or NoEmail (too long, say)
    Channels,       \* those of "discord" and "email" that are configured
    MaxRequests,    \* bound: the requests sent
    MaxFaults       \* bound: crashes of the web server, and lost connections to the database

ASSUME SignUpConstants ==
    /\ Form \subseteq Addresses /\ NoEmail \notin Emails
    /\ NormalizeEmail \in [Addresses -> Emails \cup {NoEmail}]
    /\ Channels \subseteq {"discord", "email"}
    /\ MaxRequests \in Nat /\ MaxFaults \in Nat

Requests == 1..MaxRequests

VARIABLES
    form,       \* per visitor: the form's state
    request,    \* the requests, and how far the handler is with each
    signups,    \* the rows of early_access_signups
    announced,  \* how often each e-mail was announced on each channel
    sent,       \* requests sent so far
    faults

signUpVars == <<form, request, signups, announced, sent, faults>>

-----------------------------------------------------------------------------
(* The form                                                                 *)

\* `request` is the newest request of this form, `confirmed` its address after success.
\* What is typed counts when it is sent, and is chosen then.
NewForm ==
    [open |-> TRUE, status |-> "idle", error |-> FALSE, request |-> 0, confirmed |-> NoEmail]

NoRequest == [step |-> "none", address |-> NoEmail, left |-> {}, result |-> "none"]

SignUpInit ==
    /\ form = [v \in Visitors |-> NewForm]
    /\ request = [r \in Requests |-> NoRequest]
    /\ signups = {}
    /\ announced = [e \in Emails |-> [ch \in Channels |-> 0]]
    /\ sent = 0 /\ faults = 0

\* The form is closed and opened again: what it knew is gone, its request goes on.
ToggleForm(v) ==
    /\ form' = [form EXCEPT ![v] = [NewForm EXCEPT !.open = ~form[v].open]]
    /\ UNCHANGED <<request, signups, announced, sent, faults>>

\* A field is edited, which takes the error away; not while the form is being sent.
UpdateField(v) ==
    /\ form[v].open /\ form[v].status = "idle" /\ form[v].error
    /\ form' = [form EXCEPT ![v].error = FALSE]
    /\ UNCHANGED <<request, signups, announced, sent, faults>>

ValidateEarlyAccessForm(address, agreed) == address \in Form /\ agreed

\* The button is disabled while the form is being sent.
HandleSubmit(v) ==
    /\ form[v].open /\ form[v].status = "idle"
    /\ \E address \in Addresses, agreed \in BOOLEAN :
          IF ValidateEarlyAccessForm(address, agreed)
          THEN /\ sent < MaxRequests /\ sent' = sent + 1
               /\ form' = [form EXCEPT ![v].status = "submitting", ![v].error = FALSE,
                                       ![v].request = sent + 1]
               /\ request' = [request EXCEPT ![sent + 1] =
                                 [NoRequest EXCEPT !.step = "sent", !.address = address]]
          ELSE /\ form' = [form EXCEPT ![v].error = TRUE]
               /\ UNCHANGED <<request, sent>>
    /\ UNCHANGED <<signups, announced, faults>>

-----------------------------------------------------------------------------
(* The handler                                                              *)

Goes(r, step) == request' = [request EXCEPT ![r].step = step]
Answers(r, result) == request' = [request EXCEPT ![r].step = "answer", ![r].result = result]

Email(r) == NormalizeEmail[request[r].address]

\* The handler looks at the body; the boxes have been ticked on the form.
Handler(r) ==
    /\ request[r].step = "sent"
    /\ IF Email(r) = NoEmail THEN Answers(r, "refused") ELSE Goes(r, "insert")
    /\ UNCHANGED <<form, signups, announced, sent, faults>>

\* INSERT ... ON CONFLICT DO NOTHING RETURNING gives a row to one insert only.
Created(email) == email \notin signups

CreateEarlyAccessSignup(r) ==
    /\ request[r].step = "insert"
    /\ IF Created(Email(r))
       THEN request' = [request EXCEPT ![r].step = "announce", ![r].left = Channels]
       ELSE Answers(r, "listed")
    /\ signups' = signups \cup {Email(r)}
    /\ UNCHANGED <<form, announced, sent, faults>>

\* The handler's catch.
FailedQuery(r) == Answers(r, "failed")

\* The database cannot be asked, or its answer is lost after the row was written.
QueryFails(r) ==
    /\ request[r].step = "insert"
    /\ faults < MaxFaults /\ faults' = faults + 1
    /\ FailedQuery(r)
    /\ \E written \in BOOLEAN : signups' = IF written THEN signups \cup {Email(r)} ELSE signups
    /\ UNCHANGED <<form, announced, sent>>

\* A wrong form of Settles: the first announcement that fails takes the others with it.
SettlesTogether(r, ch, ok) ==
    request' = [request EXCEPT ![r].left = IF ok THEN @ \ {ch} ELSE {}]

\* Promise.allSettled: an announcement that fails is logged and the other goes on.
Settles(r, ch, ok) == request' = [request EXCEPT ![r].left = @ \ {ch}]

\* The two announcements go on side by side, and each tries once.
Announce(r, ch) ==
    /\ request[r].step = "announce" /\ ch \in request[r].left
    /\ announced' = [announced EXCEPT ![Email(r)][ch] = @ + 1]
    /\ \E ok \in BOOLEAN : Settles(r, ch, ok)
    /\ UNCHANGED <<form, signups, sent, faults>>

NotifyEarlyAccessSignup(r) == Announce(r, "discord")
SendEarlyAccessEmailAlert(r) == Announce(r, "email")

Settled(r) ==
    /\ request[r].step = "announce" /\ request[r].left = {}
    /\ Answers(r, "created")
    /\ UNCHANGED <<form, signups, announced, sent, faults>>

-----------------------------------------------------------------------------
(* The answer                                                               *)

Waiting(r) == {v \in Visitors : form[v].request = r /\ form[v].status = "submitting"}

\* A wrong form of Told: a request that fails on its way is not caught.
ToldAnswers(f, r, result) ==
    CASE result \in {"created", "listed"} ->
            [f EXCEPT !.status = "success", !.confirmed = request[r].address]
      [] result \in {"refused", "failed"} -> [f EXCEPT !.status = "idle", !.error = TRUE]
      [] OTHER -> f

\* What the form makes of the answer, or of a request that fails on its way.
Told(f, r, result) ==
    IF result \in {"created", "listed"}
    THEN [f EXCEPT !.status = "success", !.confirmed = request[r].address]
    ELSE [f EXCEPT !.status = "idle", !.error = TRUE]

Ends(r, result) ==
    /\ request' = [request EXCEPT ![r].step = "over"]
    /\ form' = [v \in Visitors |-> IF v \in Waiting(r) THEN Told(form[v], r, result) ELSE form[v]]
    /\ UNCHANGED <<signups, announced, sent>>

AnswerArrives(r) ==
    request[r].step = "answer" /\ Ends(r, request[r].result) /\ UNCHANGED faults

\* The request does not reach the server, or its answer the visitor.
RequestLost(r) ==
    request[r].step \in {"sent", "answer"} /\ Ends(r, "lost") /\ UNCHANGED faults

\* The web server dies while it handles the request.
Crash(r) ==
    /\ request[r].step \in {"insert", "announce", "answer"}
    /\ faults < MaxFaults /\ faults' = faults + 1
    /\ Ends(r, "lost")

-----------------------------------------------------------------------------

RequestGoesOn(r) ==
    \/ Handler(r) \/ CreateEarlyAccessSignup(r)
    \/ NotifyEarlyAccessSignup(r) \/ SendEarlyAccessEmailAlert(r) \/ Settled(r)
    \/ AnswerArrives(r)

SignUpNext ==
    \/ \E v \in Visitors : ToggleForm(v) \/ UpdateField(v) \/ HandleSubmit(v)
    \/ \E r \in Requests : RequestGoesOn(r) \/ QueryFails(r) \/ RequestLost(r) \/ Crash(r)

\* Queries and announcements end by themselves or by their timeouts.
SignUpSpec ==
    /\ SignUpInit /\ [][SignUpNext]_signUpVars
    /\ WF_signUpVars(\E r \in Requests : RequestGoesOn(r))

-----------------------------------------------------------------------------
(* Properties                                                               *)

\* However often a form is sent, and by whomever, an e-mail is announced at most once
\* on each channel (ON CONFLICT DO NOTHING and `created`).
AnnouncedOnce == \A e \in Emails, ch \in Channels : announced[e][ch] <= 1

\* A visitor who is told that he is on the list is on it.
SuccessIsListed ==
    \A v \in Visitors : form[v].status = "success" =>
        NormalizeEmail[form[v].confirmed] \in signups

\* Unless the server or the database failed in between, whoever is on the list has been
\* announced on every channel, or the request that put him there is still at it: one
\* channel's failure does not silence the other.
ListedIsAnnounced ==
    \A e \in signups :
        \/ faults > 0
        \/ \A ch \in Channels : announced[e][ch] = 1
        \/ \E r \in Requests :
              /\ request[r].step = "announce" /\ Email(r) = e
              /\ \A ch \in Channels : announced[e][ch] = 1 \/ ch \in request[r].left

\* The list means the same to everybody: to the visitor, to whom its answer is read, and
\* to the two channels, to each of which an e-mail is announced at most once
\* (an attempt counts: nobody tries again after a failure).
ListIsTrue == AnnouncedOnce /\ SuccessIsListed /\ ListedIsAnnounced

\* A form never stays at "submitting", even if the server dies or an answer is lost.
FormsAreAnswered == \A v \in Visitors : form[v].status = "submitting" ~> form[v].status # "submitting"
=============================================================================
