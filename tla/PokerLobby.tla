------------------------------ MODULE PokerLobby ------------------------------
(***************************************************************************)
(* The lobby's remote procedures (apps/nakama/src/pokerLobby.ts) and       *)
(* ensurePdhMatch (apps/nakama/src/pdhMatch.ts): how players find the      *)
(* match of a table.                                                       *)
(*                                                                         *)
(* Nakama runs calls at the same time, each in a runtime of its own.  They *)
(* meet in the storage record of a table's code and in Nakama's list of    *)
(* matches; every access to either is a step.  Matches end at any time,    *)
(* and players come and go: how many a match has is decided when it is     *)
(* looked at.                                                              *)
(* All tables have the same number of seats: quick play leaves tables of   *)
(* another size aside.  A new code is one that no call has ever drawn.     *)
(***************************************************************************)
EXTENDS Integers, FiniteSets

CONSTANTS Callers, Codes,
          Ensured,    \* the tables ensurePdhMatch is asked for: main, after authentication
          NoCode,
          Inputs,     \* what quick play may be asked for: [buyIn, tier]
          Ops,        \* the procedures that are called
          Seats,      \* maxPlayers
          MaxListed,  \* MAX_MAX_PLAYERS, the most presences of a match that is listed
          MaxCrowd,   \* bound: presences in a match
          MaxMatch,   \* bound: matches that are created
          MaxDeaths   \* bound: matches that end

ASSUME SizesAssumption ==
    /\ Seats \in Nat \ {0} /\ MaxListed \in Nat /\ MaxCrowd \in Nat
    /\ Seats <= MaxListed
    /\ MaxMatch \in Nat /\ MaxDeaths \in Nat
ASSUME InputsAssumption == \A i \in Inputs : i \in [buyIn : Nat \ {0}, tier : 0..3]
ASSUME NoCodeAssumption == NoCode \notin Codes \cup Ensured

VARIABLES
    made,    \* the matches created so far are 1..made
    codeOf,  \* the tableId in the label of a match
    live,    \* the matches that are running
    table,   \* the record stored for a code; match 0: there is none
    kept,    \* the codes with a checkpoint to recover from
    drawn,   \* the codes that were ever drawn; how many of them tells createdAt
    call,    \* what a caller is doing
    answer,  \* what its last call was told
    anchor,  \* history: where an undisturbed rpcJoinByCode was sent, if nothing has
             \* ended since; otherwise 0
    strayed  \* history: a later one was sent elsewhere

nakama == <<made, codeOf, live>>
storage == <<table, kept>>
vars == <<nakama, storage, drawn, call, answer, anchor, strayed>>

Matches == 1..MaxMatch
DefaultMeta == [buyIn |-> 2, tier |-> 1]
NoTable == [match |-> 0, private |-> FALSE, meta |-> DefaultMeta, created |-> 0]

Metas == [buyIn : Nat \ {0}, tier : 0..3]
Records == [match : 0..MaxMatch, private : BOOLEAN, meta : Metas, created : Nat]

\* at: the next step.  got: the record read or about to be written.  match: the one
\* found or created.  list, offers: what quick play has still to look at, and may choose
\* from.  again: its second pass.  For history, gone: the matches that had ended when
\* the call began.  alone: nothing else has happened to matches or calls since.
\* expect: the anchor at that time, if nothing has ended since.
NoCall == [op |-> "none", at |-> "idle", code |-> NoCode, input |-> DefaultMeta,
           got |-> NoTable, match |-> 0, list |-> {}, offers |-> {}, again |-> FALSE,
           gone |-> {}, alone |-> FALSE, expect |-> 0]
Ids == Codes \cup Ensured \cup {NoCode}
Offers == [match : Matches, code : Codes, present : Nat, meta : Metas, created : Nat]
Calls == [op : Ops \cup {"none"},
          at : {"idle", "draw", "create", "write", "find", "return", "read", "look", "kept",
                "list", "scan"},
          code : Ids, input : Metas, got : Records, match : 0..MaxMatch,
          list : SUBSET Matches, offers : SUBSET Offers, again : BOOLEAN,
          gone : SUBSET Matches, alone : BOOLEAN, expect : 0..MaxMatch]
Answers == [op : Ops \cup {"none"}, code : Ids, match : 0..MaxMatch, stale : BOOLEAN]
NoAnswer == [op |-> "none", code |-> NoCode, match |-> 0, stale |-> FALSE]

Init ==
    /\ made = 0
    /\ codeOf = [m \in Matches |-> NoCode]
    /\ live = {}
    /\ table = [k \in Codes |-> NoTable]
    /\ kept = {}
    /\ drawn = {}
    /\ call = [c \in Callers |-> NoCall]
    /\ answer = [c \in Callers |-> NoAnswer]
    /\ anchor = [k \in Codes |-> 0]
    /\ strayed = FALSE

Busy == {c \in Callers : call[c].at # "idle"}
At(c, op, at) == call[c].op = op /\ call[c].at = at

-----------------------------------------------------------------------------
(* Steps that calls have in common.                                         *)

\* A call begins with a step at the place given; there are matches left for it to make.
Begin(c, op, at, code, input) ==
    /\ op \in Ops
    /\ c \notin Busy
    /\ made + Cardinality(Busy) < MaxMatch
    /\ call' = [d \in Callers |->
                  IF d # c THEN [call[d] EXCEPT !.alone = FALSE]
                  ELSE [NoCall EXCEPT
                          !.op = op, !.at = at, !.code = code, !.input = input,
                          !.gone = (1..made) \ live, !.alone = (Busy = {}),
                          !.expect = IF op = "join" THEN anchor[code] ELSE 0]]
    /\ answer' = [answer EXCEPT ![c] = NoAnswer]
    /\ UNCHANGED <<nakama, storage, drawn, anchor, strayed>>

\* The call returns; match 0 stands for an error.
Return(c, match) ==
    LET joins == call[c].op = "join" /\ match # 0
        code == call[c].code
    IN /\ call' = [call EXCEPT ![c] = NoCall]
       /\ answer' = [answer EXCEPT ![c] = [op |-> call[c].op, code |-> code, match |-> match,
                                           stale |-> match \in call[c].gone]]
       /\ anchor' = IF joins /\ call[c].alone /\ anchor[code] = 0
                    THEN [anchor EXCEPT ![code] = match] ELSE anchor
       /\ strayed' = (strayed \/ (joins /\ call[c].expect \notin {0, match}))

Goes(c, at) == call' = [call EXCEPT ![c].at = at]

\* createUniqueTableCode, and the time at which the table is said to be created
DrawCode(c, private, meta) ==
    \E code \in Codes \ drawn :
        /\ drawn' = drawn \cup {code}
        /\ call' = [call EXCEPT ![c] = [@ EXCEPT
                      !.at = "create", !.code = code,
                      !.got = [match |-> 0, private |-> private, meta |-> meta,
                               created |-> Cardinality(drawn) + 1]]]
        /\ UNCHANGED <<nakama, storage, answer, anchor, strayed>>

\* nk.matchCreate
MatchCreate(c) ==
    /\ call[c].at = "create"
    /\ made' = made + 1
    /\ codeOf' = [codeOf EXCEPT ![made + 1] = call[c].code]
    /\ live' = live \cup {made + 1}
    /\ call' = [call EXCEPT ![c] = [@ EXCEPT
                  !.match = made + 1,
                  !.at = IF call[c].op = "ensure" THEN "return" ELSE "write"]]
    /\ UNCHANGED <<storage, drawn, answer, anchor, strayed>>

Written(c) == [call[c].got EXCEPT !.match = call[c].match]

\* writeTableByCode.  Quick play looks around once more after it.
WriteTable(c) ==
    /\ call[c].at = "write"
    /\ table' = [table EXCEPT ![call[c].code] = Written(c)]
    /\ IF call[c].op = "quick"
       THEN /\ call' = [call EXCEPT ![c] = [@ EXCEPT !.at = "list", !.again = TRUE]]
            /\ UNCHANGED <<answer, anchor, strayed>>
       ELSE Return(c, call[c].match)
    /\ UNCHANGED <<nakama, kept, drawn>>

-----------------------------------------------------------------------------
(* rpcCreateTable and ensurePdhMatch.                                       *)

CreateTable(c) == Begin(c, "create", "draw", NoCode, DefaultMeta)

CreateDraws(c) ==
    /\ At(c, "create", "draw")
    /\ \E private \in BOOLEAN : DrawCode(c, private, DefaultMeta)

\* Mutant of OfTable: any pdh match will do.
OfTableAny(code) == live

\* findExistingAuthoritativeMatchId: the first of these that Nakama lists
OfTable(code) == {m \in live : codeOf[m] = code}

Ensure(c, id) == Begin(c, "ensure", "find", id, DefaultMeta)

EnsureFinds(c) ==
    /\ At(c, "ensure", "find")
    /\ \E m \in OfTable(call[c].code) : Return(c, m)
    /\ UNCHANGED <<nakama, storage, drawn>>

\* Nakama does not list a match with more than MaxListed presences.
FindsNone(c) ==
    /\ call[c].at = "find"
    /\ OfTable(call[c].code) = {} \/ MaxCrowd > MaxListed
    /\ Goes(c, "create")
    /\ UNCHANGED <<nakama, storage, drawn, answer, anchor, strayed>>

EnsureReturns(c) ==
    /\ At(c, "ensure", "return")
    /\ Return(c, call[c].match)
    /\ UNCHANGED <<nakama, storage, drawn>>

-----------------------------------------------------------------------------
(* rpcJoinByCode.                                                           *)

JoinByCode(c, code) == Begin(c, "join", "read", code, DefaultMeta)

JoinReads(c) ==
    /\ At(c, "join", "read")
    /\ IF table[call[c].code] = NoTable
       THEN Return(c, 0)
       ELSE /\ call' = [call EXCEPT ![c] = [@ EXCEPT !.at = "look", !.got = table[call[c].code]]]
            /\ UNCHANGED <<answer, anchor, strayed>>
    /\ UNCHANGED <<nakama, storage, drawn>>

\* resolveMatchSnapshot
JoinLooks(c) ==
    LET m == call[c].got.match
    IN /\ At(c, "join", "look")
       /\ IF m \in live
          THEN \E n \in 0..MaxCrowd : Return(c, IF n >= Seats THEN 0 ELSE m)
          ELSE Goes(c, "kept") /\ UNCHANGED <<answer, anchor, strayed>>
       /\ UNCHANGED <<nakama, storage, drawn>>

\* hasRecoverablePdhCheckpoint
JoinChecks(c) ==
    /\ At(c, "join", "kept")
    /\ IF call[c].code \in kept
       THEN Goes(c, "find") /\ UNCHANGED <<answer, anchor, strayed>>
       ELSE Return(c, 0)
    /\ UNCHANGED <<nakama, storage, drawn>>

\* Mutant of JoinFinds: the record is left as it is.
JoinFindsQuietly(c) ==
    /\ At(c, "join", "find")
    /\ \E m \in OfTable(call[c].code) : Return(c, m)
    /\ UNCHANGED <<nakama, storage, drawn>>

JoinFinds(c) ==
    /\ At(c, "join", "find")
    /\ \E m \in OfTable(call[c].code) :
          call' = [call EXCEPT ![c] = [@ EXCEPT !.at = "write", !.match = m]]
    /\ UNCHANGED <<nakama, storage, drawn, answer, anchor, strayed>>

-----------------------------------------------------------------------------
(* rpcQuickPlay.                                                            *)

QuickPlay(c, input) == Begin(c, "quick", "list", NoCode, input)

\* listActiveLobbyTables: the matches, and then the record of each
QuickLists(c) ==
    /\ At(c, "quick", "list")
    /\ call' = [call EXCEPT ![c] = [@ EXCEPT
                  !.at = "scan", !.list = live, !.offers = {}]]
    /\ UNCHANGED <<nakama, storage, drawn, answer, anchor, strayed>>

\* listQuickPlayCandidates: a match with n players; one that is not listed is full.
IsOffer(m, n) ==
    /\ codeOf[m] \in Codes
    /\ table[codeOf[m]].match = m
    /\ ~table[codeOf[m]].private
    /\ n < Seats

Offer(m, n) == [match |-> m, code |-> codeOf[m], present |-> n,
                meta |-> table[codeOf[m]].meta, created |-> table[codeOf[m]].created]

QuickScans(c) ==
    /\ At(c, "quick", "scan")
    /\ \E m \in call[c].list, n \in 0..MaxCrowd :
          call' = [call EXCEPT ![c] = [@ EXCEPT
                     !.list = call[c].list \ {m},
                     !.offers = call[c].offers
                                \cup (IF IsOffer(m, n) THEN {Offer(m, n)} ELSE {})]]
    /\ UNCHANGED <<nakama, storage, drawn, answer, anchor, strayed>>

Distance(a, b) == IF a < b THEN b - a ELSE a - b

\* preferredOccupancyForSkill, in hundredths
Preferred(tier) == CASE tier = 0 -> 45 [] tier = 1 -> 62 [] tier = 2 -> 78 [] tier = 3 -> 90

\* scoreQuickPlayCandidate, in thousandths
Score(offer, input) ==
    (2200 * Distance(offer.meta.buyIn, input.buyIn)) \div input.buyIn
    + 900 * Distance(offer.meta.tier, input.tier)
    + 11 * Distance((100 * offer.present) \div Seats, Preferred(input.tier))
    + (IF offer.present = Seats - 1 THEN 120 ELSE 0)
    + (IF offer.present = 0 THEN 80 ELSE 0)

\* chooseBestQuickPlayCandidate
IsBetter(a, b, input) ==
    \/ Score(a, input) < Score(b, input)
    \/ /\ Score(a, input) = Score(b, input)
       /\ a.present > b.present \/ (a.present = b.present /\ a.created < b.created)

Best(offers, input) ==
    {a \in offers : \A b \in offers : ~IsBetter(b, a, input)}

QuickChooses(c) ==
    /\ At(c, "quick", "scan")
    /\ call[c].list = {}
    /\ \E a \in Best(call[c].offers, call[c].input) : 
          /\ call' = [call EXCEPT ![c] = NoCall]
          /\ answer' = [answer EXCEPT ![c] = [op |-> "quick", code |-> a.code,
                                              match |-> a.match, stale |-> a.match \in call[c].gone]]
    /\ UNCHANGED <<nakama, storage, drawn, anchor, strayed>>

\* createQuickPlayTable
QuickDraws(c) ==
    /\ At(c, "quick", "scan") /\ ~call[c].again
    /\ call[c].list = {} /\ call[c].offers = {}
    /\ DrawCode(c, FALSE, call[c].input)

\* Even its own table is not among the offers the second time.
QuickKeepsOwn(c) ==
    /\ At(c, "quick", "scan") /\ call[c].again
    /\ call[c].list = {} /\ call[c].offers = {}
    /\ Return(c, call[c].match)
    /\ UNCHANGED <<nakama, storage, drawn>>

-----------------------------------------------------------------------------
(* Matches.                                                                 *)

\* persistCheckpoint
Checkpoint(m) ==
    /\ m \in live
    /\ kept' = kept \cup ({codeOf[m]} \cap Codes)
    /\ UNCHANGED <<nakama, table, drawn, call, answer, anchor, strayed>>

\* It becomes too old.
CheckpointExpires(code) ==
    /\ kept' = kept \ {code}
    /\ UNCHANGED <<nakama, table, drawn, call, answer, anchor, strayed>>

\* Its server fails or an administrator ends it.
MatchEnds(m) ==
    /\ m \in live
    /\ made - Cardinality(live) < MaxDeaths
    /\ live' = live \ {m}
    /\ anchor' = [k \in Codes |-> IF codeOf[m] = k THEN 0 ELSE anchor[k]]
    /\ call' = [c \in Callers |-> IF c \notin Busy THEN call[c] ELSE
                  [call[c] EXCEPT !.alone = FALSE,
                                  !.expect = IF call[c].code = codeOf[m] THEN 0 ELSE @]]
    /\ UNCHANGED <<made, codeOf, storage, drawn, answer, strayed>>

\* The runtime of a call fails with it.
CallLost(c) ==
    /\ c \in Busy
    /\ call' = [call EXCEPT ![c] = NoCall]
    /\ UNCHANGED <<nakama, storage, drawn, answer, anchor, strayed>>

Step(c) ==
    \/ MatchCreate(c) \/ WriteTable(c)
    \/ CreateDraws(c)
    \/ EnsureFinds(c) \/ FindsNone(c) \/ EnsureReturns(c)
    \/ JoinReads(c) \/ JoinLooks(c) \/ JoinChecks(c) \/ JoinFinds(c)
    \/ QuickLists(c) \/ QuickScans(c) \/ QuickChooses(c) \/ QuickDraws(c) \/ QuickKeepsOwn(c)

Begins(c) ==
    \/ CreateTable(c)
    \/ \E id \in Ensured : Ensure(c, id)
    \/ \E code \in Codes : JoinByCode(c, code)
    \/ \E input \in Inputs : QuickPlay(c, input)

Next ==
    \/ \E c \in Callers : Begins(c) \/ Step(c) \/ CallLost(c)
    \/ \E m \in Matches : Checkpoint(m) \/ MatchEnds(m)
    \/ \E code \in Codes : CheckpointExpires(code)

\* A call that is not lost goes on.
Spec == Init /\ [][Next]_vars /\ \A c \in Callers : WF_vars(Step(c))

-----------------------------------------------------------------------------
(* Properties.                                                              *)

\* Every variable keeps its type; only matches that were made run.
TypeOK ==
    /\ made \in 0..MaxMatch
    /\ codeOf \in [Matches -> Ids]
    /\ live \subseteq 1..made
    /\ table \in [Codes -> Records]
    /\ kept \subseteq Codes /\ drawn \subseteq Codes
    /\ call \in [Callers -> Calls]
    /\ answer \in [Callers -> Answers]
    /\ anchor \in [Codes -> 0..MaxMatch]
    /\ strayed \in BOOLEAN

\* Whatever calls run at the same time and whatever ends meanwhile, a caller is sent to
\* a match that was created for the code, and that was running at some time during the
\* call: an answer is never older than the question.
AnswersAreTrue ==
    \A c \in Callers :
        LET a == answer[c]
        IN a.match # 0 => codeOf[a.match] = a.code /\ ~a.stale

\* Once somebody, asking alone, was sent to a match by a table's code, everybody who asks
\* for the code later is sent to the same match until a match of the table ends.  Players
\* who ask side by side, as two do who both revive a table, may be led apart.
JoinersMeet == ~strayed

\* A table whose checkpoint can be recovered comes back: if players keep asking for its
\* code, then the record finally names a running match, although records are also
\* written by calls that have seen an older state.
TablesHeal ==
    \A code \in Codes :
        /\ <>[](table[code] # NoTable /\ code \in kept)
        /\ \E c \in Callers : /\ []<>(c \in Busy)
                              /\ []<>(answer[c].op = "join" /\ answer[c].code = code)
        => <>[](table[code].match \in live)
=============================================================================
