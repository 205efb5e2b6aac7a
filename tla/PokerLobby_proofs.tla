-------------------------- MODULE PokerLobby_proofs --------------------------
(***************************************************************************)
(* Theorems about PokerLobby, for any callers, codes, inputs and bounds.   *)
(***************************************************************************)
EXTENDS PokerLobby, FiniteSetTheorems, TLAPS

\* The calls that may still create a match.
Pending == {c \in Busy : call[c].match = 0}

\* The codes drawn can be counted, and there is a match left for each call that may create one.
Counted ==
    /\ IsFiniteSet(drawn) /\ IsFiniteSet(Busy)
    /\ made + Cardinality(Pending) <= MaxMatch

\* Where a call of each procedure can be.
Placed(k) ==
    \/ k.at = "idle"
    \/ k.op = "create" /\ k.at \in {"draw", "create", "write"}
    \/ k.op = "ensure" /\ k.at \in {"find", "create", "return"}
    \/ k.op = "join" /\ k.at \in {"read", "look", "kept", "find", "create", "write"}
    \/ k.op = "quick" /\ k.at \in {"list", "scan", "create", "write"}

\* A call has a match once it has created or found one, and a code once it has drawn one.
Matched(k) ==
    /\ k.at \in {"draw", "create", "find", "read", "look", "kept"} => k.match = 0
    /\ k.at \in {"write", "return"} => k.match # 0
    /\ k.at \in {"list", "scan"} => (k.again <=> k.match # 0)
    /\ k.op = "join" \/ (k.op # "ensure" /\ k.at \in {"create", "write"}) => k.code \in Codes

\* m was made for the code.
MadeFor(m, code) == m \in 1..made /\ codeOf[m] = code

\* What a call has found, or may choose, was made for its code and was running since it began.
Truthful(k) ==
    /\ k.gone \subseteq 1..made /\ k.gone \cap live = {}
    /\ k.match # 0 => MadeFor(k.match, k.code) /\ k.match \notin k.gone
    /\ k.at = "look" => MadeFor(k.got.match, k.code)
    /\ k.list \subseteq 1..made /\ k.list \cap k.gone = {}
    /\ \A a \in k.offers : MadeFor(a.match, a.code) /\ a.match \notin k.gone

\* Only ensurePdhMatch looks for a code that was never drawn.
Known(k) ==
    k.op # "ensure" /\ k.at \in {"create", "write", "look", "kept", "find"} => k.code \in drawn

\* A record was written for a code that was drawn, by a call that knew a match of the code.
RecordsAreTrue ==
    \A code \in Codes : table[code] # NoTable => MadeFor(table[code].match, code) /\ code \in drawn

\* What callers were told is true, and no older than the call.
Answered ==
    \A c \in Callers : answer[c].match # 0 =>
        MadeFor(answer[c].match, answer[c].code) /\ ~answer[c].stale

\* Nothing has changed what an undisturbed call has seen.
Undisturbed ==
    \A c \in Busy : call[c].alone =>
        /\ Busy = {c}
        /\ call[c].match # 0 => call[c].match \in live
        /\ call[c].at = "look" => call[c].got = table[call[c].code]

\* While a code has an anchor, that match runs and the record names it, and no call is
\* under way that could write another into the record or has read another from it.
Anchored ==
    \A code \in Codes : anchor[code] # 0 =>
        /\ anchor[code] \in live /\ codeOf[anchor[code]] = code
        /\ table[code].match = anchor[code]
        /\ \A c \in Busy : call[c].code = code /\ call[c].op # "ensure" =>
              /\ call[c].op = "join" => /\ call[c].at \in {"read", "look"}
                                        /\ call[c].at = "look" => call[c].got.match = anchor[code]
              /\ call[c].op # "join" => call[c].at \in {"list", "scan"}

\* What a call expects is still the anchor of its code.
Expecting ==
    \A c \in Busy : call[c].expect # 0 => call[c].op = "join" /\ call[c].expect = anchor[call[c].code]

\* The inductive invariant.
IInv ==
    /\ TypeOK /\ Counted
    /\ \A c \in Callers : Placed(call[c]) /\ Matched(call[c]) /\ Truthful(call[c]) /\ Known(call[c])
    /\ RecordsAreTrue /\ Answered /\ Undisturbed /\ Anchored /\ Expecting /\ ~strayed
-----------------------------------------------------------------------------
(* Calls that go on and calls that end.                                     *)

\* The invariant holds at first.
LEMMA InitIInv == Init => IInv
<1> SUFFICES ASSUME Init PROVE IInv OBVIOUS
<1> USE DEF Init
<1>1. NoCall \in Calls /\ NoAnswer \in Answers /\ NoTable \in Records
  BY SizesAssumption
  DEF NoCall, NoAnswer, NoTable, Calls, Answers, Records, Metas, DefaultMeta, Ids
<1>2. TypeOK
  <2>1. made \in 0..MaxMatch /\ live \subseteq 1..made BY SizesAssumption
  <2>2. codeOf \in [Matches -> Ids] /\ anchor \in [Codes -> 0..MaxMatch]
    BY SizesAssumption DEF Ids
  <2>3. /\ table \in [Codes -> Records] /\ call \in [Callers -> Calls]
        /\ answer \in [Callers -> Answers]
    BY <1>1
  <2> QED BY <2>1, <2>2, <2>3 DEF TypeOK
<1>3. Busy = {} /\ Pending = {} BY DEF Busy, Pending, NoCall
<1>4. Counted BY <1>3, FS_EmptySet, SizesAssumption DEF Counted
<1>5. Placed(NoCall) /\ Matched(NoCall) /\ Truthful(NoCall) /\ Known(NoCall)
  BY DEF Placed, Matched, Truthful, Known, NoCall
<1>6. RecordsAreTrue /\ Answered /\ Undisturbed /\ Anchored /\ Expecting
  BY <1>3 DEF RecordsAreTrue, Answered, Undisturbed, Anchored, Expecting, NoAnswer
<1> QED BY <1>2, <1>4, <1>5, <1>6 DEF IInv

\* What the anchors ask of a call.
Follows(k) ==
    \A code \in Codes : anchor[code] # 0 /\ k.code = code /\ k.op # "ensure" =>
        /\ k.op = "join" => /\ k.at \in {"read", "look"}
                            /\ k.at = "look" => k.got.match = anchor[code]
        /\ k.op # "join" => k.at \in {"list", "scan"}

\* What an undisturbed call has found is still there.
Unmoved(k) ==
    k.alone => /\ k.match # 0 => k.match \in live
               /\ k.at = "look" => k.got = table[k.code]

\* What a call expects is the anchor.
Expects(k) == k.expect # 0 => k.op = "join" /\ k.expect = anchor[k.code]

\* A call goes on, and nothing else happens than that a code may be drawn, or a record
\* written that no anchor forbids.
LEMMA GoesOn ==
    ASSUME IInv, NEW c \in Busy, NEW k \in Calls, call' = [call EXCEPT ![c] = k],
           UNCHANGED <<nakama, answer, anchor, strayed>>,
           \/ UNCHANGED storage
           \/ /\ kept' = kept /\ table' \in [Codes -> Records] /\ RecordsAreTrue'
              /\ \A code \in Codes : anchor[code] # 0 => table'[code].match = anchor[code]
              /\ k.at # "look",
           drawn \subseteq drawn', drawn' \subseteq Codes, IsFiniteSet(drawn'),
           k.at # "idle", k.alone = call[c].alone, k.match = 0 => call[c].match = 0,
           Placed(k), Matched(k), Truthful(k), Follows(k), Unmoved(k), Expects(k),
           k.op # "ensure" /\ k.at \in {"create", "write", "look", "kept", "find"}
               => k.code \in drawn'
    PROVE  IInv'
<1>1. c \in Callers /\ call \in [Callers -> Calls] BY DEF Busy, IInv, TypeOK
<1>2. \A d \in Callers : call'[d] = IF d = c THEN k ELSE call[d] BY <1>1
<1>3. TypeOK' BY <1>1 DEF IInv, TypeOK, nakama, storage
<1>4. Busy' = Busy /\ Pending' \subseteq Pending BY <1>1, <1>2 DEF Busy, Pending
<1>5. Counted'
  <2>1. IsFiniteSet(Pending) BY FS_Subset DEF IInv, Counted, Pending
  <2>2. Cardinality(Pending') <= Cardinality(Pending) BY <1>4, <2>1, FS_Subset
  <2>3. Cardinality(Pending) \in Nat /\ Cardinality(Pending') \in Nat
    BY <1>4, <2>1, FS_Subset, FS_CardinalityType
  <2>4. made \in Nat /\ MaxMatch \in Nat BY SizesAssumption DEF IInv, TypeOK
  <2> QED BY <1>4, <2>2, <2>3, <2>4 DEF IInv, Counted, nakama
<1>6. \A d \in Callers : (Placed(call[d]) /\ Matched(call[d]) /\ Truthful(call[d]) /\ Known(call[d]))'
  <2> SUFFICES ASSUME NEW d \in Callers
               PROVE  (Placed(call[d]) /\ Matched(call[d]) /\ Truthful(call[d]) /\ Known(call[d]))'
    OBVIOUS
  <2>1. Placed(call'[d]) /\ Matched(call'[d]) /\ Truthful(call'[d]) BY <1>2 DEF IInv
  <2>2. Placed(call[d])' BY <2>1 DEF Placed
  <2>3. Matched(call[d])' BY <2>1 DEF Matched
  <2>4. Truthful(call[d])' BY <2>1 DEF Truthful, MadeFor, nakama
  <2>5. Known(call[d])' BY <1>2 DEF IInv, Known
  <2> QED BY <2>2, <2>3, <2>4, <2>5
<1>7. RecordsAreTrue' BY DEF IInv, RecordsAreTrue, MadeFor, nakama, storage
<1>8. Answered' BY DEF IInv, Answered, MadeFor, nakama
<1>9. Undisturbed' BY <1>1, <1>2, <1>4 DEF IInv, Undisturbed, Unmoved, nakama, storage, Busy
<1>10. Anchored' BY <1>1, <1>2, <1>4 DEF IInv, Anchored, Follows, nakama, storage, Busy
<1>11. Expecting' BY <1>1, <1>2, <1>4 DEF IInv, Expecting, Expects, Busy
<1> QED BY <1>3, <1>5, <1>6, <1>7, <1>8, <1>9, <1>10, <1>11 DEF IInv

\* A call ends with an answer, or is lost; anchors change only if no other call is under way.
LEMMA Ends ==
    ASSUME IInv, NEW c \in Busy, NEW a \in Answers,
           call' = [call EXCEPT ![c] = NoCall], answer' = [answer EXCEPT ![c] = a],
           UNCHANGED <<nakama, kept, drawn>>,
           a.match # 0 => MadeFor(a.match, a.code) /\ ~a.stale,
           table' \in [Codes -> Records], RecordsAreTrue',
           anchor' \in [Codes -> 0..MaxMatch], anchor' = anchor \/ Busy = {c},
           \A code \in Codes : anchor'[code] # 0 =>
               /\ anchor'[code] \in live /\ codeOf[anchor'[code]] = code
               /\ table'[code].match = anchor'[code],
           strayed' = FALSE
    PROVE  IInv'
<1>1. /\ c \in Callers /\ call \in [Callers -> Calls] /\ answer \in [Callers -> Answers]
      /\ call[c].at # "idle"
  BY DEF Busy, IInv, TypeOK
<1>2. NoCall \in Calls /\ NoCall.at = "idle"
  BY SizesAssumption DEF NoCall, NoTable, Calls, Records, Metas, DefaultMeta, Ids
<1>3. \A d \in Callers : /\ call'[d] = IF d = c THEN NoCall ELSE call[d]
                         /\ answer'[d] = IF d = c THEN a ELSE answer[d]
  BY <1>1
<1>4. TypeOK'
  <2>1. call' \in [Callers -> Calls] /\ answer' \in [Callers -> Answers] BY <1>1, <1>2
  <2> QED BY <2>1 DEF IInv, TypeOK, nakama
<1>5. Busy' = Busy \ {c} /\ Pending' \subseteq Pending BY <1>1, <1>2, <1>3 DEF Busy, Pending
<1>6. Counted'
  <2>1. IsFiniteSet(Pending) /\ IsFiniteSet(Busy')
    BY <1>5, FS_Subset DEF IInv, Counted, Pending
  <2>2. Cardinality(Pending') <= Cardinality(Pending) BY <1>5, <2>1, FS_Subset
  <2>3. Cardinality(Pending) \in Nat /\ Cardinality(Pending') \in Nat
    BY <1>5, <2>1, FS_Subset, FS_CardinalityType
  <2>4. made \in Nat /\ MaxMatch \in Nat BY SizesAssumption DEF IInv, TypeOK
  <2> QED BY <2>1, <2>2, <2>3, <2>4 DEF IInv, Counted, nakama
<1>7. \A d \in Callers : (Placed(call[d]) /\ Matched(call[d]) /\ Truthful(call[d]) /\ Known(call[d]))'
  <2> SUFFICES ASSUME NEW d \in Callers
               PROVE  (Placed(call[d]) /\ Matched(call[d]) /\ Truthful(call[d]) /\ Known(call[d]))'
    OBVIOUS
  <2>1. Placed(NoCall) /\ Matched(NoCall) /\ Truthful(NoCall)
    BY DEF Placed, Matched, Truthful, NoCall
  <2>2. Placed(call'[d]) /\ Matched(call'[d]) /\ Truthful(call'[d]) BY <1>3, <2>1 DEF IInv
  <2>3. Placed(call[d])' BY <2>2 DEF Placed
  <2>4. Matched(call[d])' BY <2>2 DEF Matched
  <2>5. Truthful(call[d])' BY <2>2 DEF Truthful, MadeFor, nakama
  <2>6. Known(call[d])' BY <1>3 DEF IInv, Known, NoCall
  <2> QED BY <2>3, <2>4, <2>5, <2>6
<1>8. Answered' BY <1>3 DEF IInv, Answered, MadeFor, nakama
<1>9. Undisturbed' BY <1>3, <1>5 DEF IInv, Undisturbed
<1>10. Anchored'
  <2>1. CASE anchor' = anchor BY <1>3, <1>5, <2>1 DEF IInv, Anchored, nakama
  <2>2. CASE Busy = {c} BY <1>5, <2>2 DEF Anchored, nakama
  <2> QED BY <2>1, <2>2
<1>11. Expecting'
  <2>1. CASE anchor' = anchor BY <1>3, <1>5, <2>1 DEF IInv, Expecting
  <2>2. CASE Busy = {c} BY <1>5, <2>2 DEF Expecting
  <2> QED BY <2>1, <2>2
<1> QED BY <1>4, <1>6, <1>7, <1>8, <1>9, <1>10, <1>11 DEF IInv

\* A call returns a match that was made for its code and has been running since it began;
\* if it joins, the record then names that match, and the call did not expect another.
LEMMA Returns ==
    ASSUME IInv, NEW c \in Busy, NEW m \in 0..MaxMatch, Return(c, m),
           UNCHANGED <<nakama, kept, drawn>>,
           m # 0 => MadeFor(m, call[c].code) /\ m \notin call[c].gone,
           table' \in [Codes -> Records], RecordsAreTrue',
           \A code \in Codes : anchor[code] # 0 => table'[code].match = anchor[code],
           call[c].op = "join" /\ m # 0 =>
               /\ call[c].alone => m \in live /\ table'[call[c].code].match = m
               /\ call[c].expect \in {0, m}
    PROVE  IInv'
<1> DEFINE k == call[c]
           a == [op |-> k.op, code |-> k.code, match |-> m, stale |-> m \in k.gone]
           joins == k.op = "join" /\ m # 0
<1>1. k \in Calls /\ c \in Callers /\ Matched(k) BY DEF Busy, IInv, TypeOK
<1>2. /\ a \in Answers
      /\ call' = [call EXCEPT ![c] = NoCall] /\ answer' = [answer EXCEPT ![c] = a]
  BY <1>1 DEF Return, Answers, Calls
<1>3. a.match # 0 => MadeFor(a.match, a.code) /\ ~a.stale OBVIOUS
<1>4. strayed' = FALSE BY DEF Return, IInv
<1>5. anchor \in [Codes -> 0..MaxMatch] BY DEF IInv, TypeOK
<1>6. CASE joins /\ k.alone /\ anchor[k.code] = 0
  <2>1. k.code \in Codes BY <1>1, <1>6 DEF Matched
  <2>2. Busy = {c} BY <1>6 DEF IInv, Undisturbed
  <2>3. anchor' = [anchor EXCEPT ![k.code] = m] BY <1>6 DEF Return
  <2>4. anchor' \in [Codes -> 0..MaxMatch] BY <1>5, <2>3
  <2>5. \A code \in Codes : anchor'[code] # 0 =>
            /\ anchor'[code] \in live /\ codeOf[anchor'[code]] = code
            /\ table'[code].match = anchor'[code]
    BY <1>5, <1>6, <2>1, <2>3 DEF IInv, Anchored, MadeFor
  <2> HIDE DEF a
  <2> QED BY <1>2, <1>3, <1>4, <2>2, <2>4, <2>5, Ends
<1>7. CASE ~(joins /\ k.alone /\ anchor[k.code] = 0)
  <2>1. anchor' = anchor BY <1>7 DEF Return
  <2>2. \A code \in Codes : anchor'[code] # 0 =>
            /\ anchor'[code] \in live /\ codeOf[anchor'[code]] = code
            /\ table'[code].match = anchor'[code]
    BY <2>1 DEF IInv, Anchored
  <2> HIDE DEF a
  <2> QED BY <1>2, <1>3, <1>4, <1>5, <2>1, <2>2, Ends
<1> QED BY <1>6, <1>7

-----------------------------------------------------------------------------
(* The steps of a call.                                                     *)

\* The facts about one call, and about what is made.
LEMMA CallFacts ==
    ASSUME IInv, NEW c \in Callers, call[c].at # "idle"
    PROVE  /\ c \in Busy /\ call[c] \in Calls /\ Placed(call[c]) /\ Matched(call[c])
           /\ Truthful(call[c]) /\ Known(call[c]) /\ Follows(call[c]) /\ Unmoved(call[c]) /\ Expects(call[c])
           /\ call[c].op # "none"
           /\ \A x \in drawn : x \in Codes
           /\ made \in 0..MaxMatch /\ live \subseteq 1..made /\ IsFiniteSet(drawn)
<1>1. c \in Busy /\ call[c] \in Calls BY DEF Busy, IInv, TypeOK
<1>2. Placed(call[c]) /\ Matched(call[c]) /\ Truthful(call[c]) /\ Known(call[c]) BY DEF IInv
<1>3. Follows(call[c]) BY <1>1 DEF IInv, Anchored, Follows
<1>4. Unmoved(call[c]) BY <1>1 DEF IInv, Undisturbed, Unmoved
<1>5. Expects(call[c]) BY <1>1 DEF IInv, Expecting, Expects
<1>6. call[c].op # "none" BY <1>2 DEF Placed
<1> QED BY <1>1, <1>2, <1>3, <1>4, <1>5, <1>6 DEF IInv, TypeOK, Counted

\* A code that was never drawn has no record and no anchor.
LEMMA DrawStep ==
    ASSUME IInv, NEW c \in Callers, NEW private \in BOOLEAN, NEW meta \in Metas,
           DrawCode(c, private, meta),
           \/ At(c, "create", "draw")
           \/ At(c, "quick", "scan") /\ ~call[c].again /\ call[c].list = {} /\ call[c].offers = {}
    PROVE  IInv'
<1>1. PICK code \in Codes \ drawn :
        /\ drawn' = drawn \cup {code}
        /\ call' = [call EXCEPT ![c] = [@ EXCEPT
                      !.at = "create", !.code = code,
                      !.got = [match |-> 0, private |-> private, meta |-> meta,
                               created |-> Cardinality(drawn) + 1]]]
        /\ UNCHANGED <<nakama, storage, answer, anchor, strayed>>
  BY DEF DrawCode
<1> DEFINE got == [match |-> 0, private |-> private, meta |-> meta,
                   created |-> Cardinality(drawn) + 1]
           k == [call[c] EXCEPT !.at = "create", !.code = code, !.got = got]
<1>2. call[c].at # "idle" BY DEF At
<1>3. /\ c \in Busy /\ call[c] \in Calls /\ Placed(call[c]) /\ Matched(call[c])
      /\ Truthful(call[c]) /\ Expects(call[c]) /\ IsFiniteSet(drawn)
  BY <1>2, CallFacts
<1>4. got \in Records
  BY <1>3, FS_CardinalityType, SizesAssumption DEF Records
<1>5. k \in Calls BY <1>3, <1>4 DEF Calls, Ids
<1>6. /\ k.at = "create" /\ k.code = code /\ k.op = call[c].op /\ k.match = call[c].match
      /\ k.alone = call[c].alone /\ k.expect = call[c].expect /\ k.gone = call[c].gone
      /\ k.list = call[c].list /\ k.offers = call[c].offers
  BY <1>3 DEF Calls
<1>7. k.match = 0 /\ k.op \in {"create", "quick"} BY <1>3, <1>6 DEF Matched, At
<1>8. call' = [call EXCEPT ![c] = k] BY <1>1
<1>9. IsFiniteSet(drawn') /\ drawn \subseteq drawn' /\ drawn' \subseteq Codes
  BY <1>1, <1>3, FS_AddElement DEF IInv, TypeOK
<1>10. anchor[code] = 0
  BY <1>1, NoCodeAssumption DEF IInv, Anchored, RecordsAreTrue, NoTable
<1> HIDE DEF k
<1>11. Placed(k) /\ Matched(k) BY <1>6, <1>7 DEF Placed, Matched
<1>12. Truthful(k) BY <1>3, <1>6, <1>7 DEF Truthful
<1>13. Follows(k) BY <1>6, <1>10 DEF Follows
<1>14. Unmoved(k) BY <1>6, <1>7 DEF Unmoved
<1>15. Expects(k) BY <1>3, <1>6, <1>7 DEF Expects
<1>16. k.code \in drawn' BY <1>1, <1>6
<1> QED
  BY <1>16, <1>1, <1>3, <1>5, <1>6, <1>7, <1>8, <1>9, <1>11, <1>12, <1>13, <1>14, <1>15, GoesOn

\* createUniqueTableCode of rpcCreateTable
LEMMA CreateDrawsStep == ASSUME IInv, NEW c \in Callers, CreateDraws(c) PROVE IInv'
<1>1. DefaultMeta \in Metas BY DEF DefaultMeta, Metas
<1>2. PICK private \in BOOLEAN : DrawCode(c, private, DefaultMeta) BY DEF CreateDraws
<1> QED BY <1>1, <1>2, DrawStep DEF CreateDraws

\* createQuickPlayTable
LEMMA QuickDrawsStep == ASSUME IInv, NEW c \in Callers, QuickDraws(c) PROVE IInv'
<1>1. call[c].at # "idle" BY DEF QuickDraws, At
<1>2. call[c].input \in Metas BY <1>1, CallFacts DEF Calls
<1> QED BY <1>2, DrawStep DEF QuickDraws

\* ensurePdhMatch finds a match of the table.
LEMMA EnsureFindsStep == ASSUME IInv, NEW c \in Callers, EnsureFinds(c) PROVE IInv'
<1>1. call[c].at # "idle" BY DEF EnsureFinds, At
<1>2. PICK m \in OfTable(call[c].code) : Return(c, m) BY DEF EnsureFinds
<1>3. /\ c \in Busy /\ Truthful(call[c]) /\ live \subseteq 1..made /\ made \in 0..MaxMatch
  BY <1>1, CallFacts
<1>4. m \in live /\ codeOf[m] = call[c].code BY <1>2 DEF OfTable
<1>5. m \in 0..MaxMatch /\ MadeFor(m, call[c].code) /\ m \notin call[c].gone
  BY <1>3, <1>4, SizesAssumption DEF MadeFor, Truthful
<1>6. call[c].op # "join" BY DEF EnsureFinds, At
<1>7. UNCHANGED <<nakama, kept, drawn, table>> BY DEF EnsureFinds, storage
<1>8. table' \in [Codes -> Records] /\ RecordsAreTrue'
  BY <1>7 DEF IInv, TypeOK, RecordsAreTrue, MadeFor, nakama
<1>9. \A code \in Codes : anchor[code] # 0 => table'[code].match = anchor[code]
  BY <1>7 DEF IInv, Anchored
<1> QED BY <1>2, <1>3, <1>5, <1>6, <1>7, <1>8, <1>9, Returns

\* ensurePdhMatch returns the match it has made.
LEMMA EnsureReturnsStep == ASSUME IInv, NEW c \in Callers, EnsureReturns(c) PROVE IInv'
<1>1. call[c].at = "return" /\ call[c].op # "join" BY DEF EnsureReturns, At
<1>2. c \in Busy /\ Truthful(call[c]) /\ Matched(call[c]) /\ call[c] \in Calls BY <1>1, CallFacts
<1>3. /\ call[c].match \in 0..MaxMatch /\ MadeFor(call[c].match, call[c].code)
      /\ call[c].match \notin call[c].gone
  BY <1>1, <1>2 DEF Truthful, Matched, Calls
<1>4. UNCHANGED <<nakama, kept, drawn, table>> /\ Return(c, call[c].match)
  BY DEF EnsureReturns, storage
<1>5. table' \in [Codes -> Records] /\ RecordsAreTrue'
  BY <1>4 DEF IInv, TypeOK, RecordsAreTrue, MadeFor, nakama
<1>6. \A code \in Codes : anchor[code] # 0 => table'[code].match = anchor[code]
  BY <1>4 DEF IInv, Anchored
<1> QED BY <1>1, <1>2, <1>3, <1>4, <1>5, <1>6, Returns

\* An error is returned.
LEMMA ErrorStep ==
    ASSUME IInv, NEW c \in Busy, Return(c, 0), UNCHANGED <<nakama, storage, drawn>>
    PROVE  IInv'
<1>1. UNCHANGED <<nakama, kept, drawn, table>> BY DEF storage
<1>2. table' \in [Codes -> Records] /\ RecordsAreTrue'
  BY <1>1 DEF IInv, TypeOK, RecordsAreTrue, MadeFor, nakama
<1>3. \A code \in Codes : anchor[code] # 0 => table'[code].match = anchor[code]
  BY <1>1 DEF IInv, Anchored
<1>4. 0 \in 0..MaxMatch BY SizesAssumption
<1> QED BY <1>1, <1>2, <1>3, <1>4, Returns

\* Nothing but where the call is changes.
LEMMA PlaceChanges ==
    ASSUME NEW k \in Calls,
           NEW at \in {"create", "kept", "find"}
    PROVE  LET k1 == [k EXCEPT !.at = at]
           IN  /\ k1 \in Calls /\ k1.at = at /\ k1.op = k.op /\ k1.code = k.code
               /\ k1.match = k.match /\ k1.got = k.got /\ k1.alone = k.alone
               /\ k1.expect = k.expect /\ k1.gone = k.gone /\ k1.list = k.list
               /\ k1.offers = k.offers /\ k1.again = k.again
  BY DEF Calls

\* A call that has found nothing goes on to another place.
LEMMA GoesStep ==
    ASSUME IInv, NEW c \in Callers, NEW at \in {"create", "kept", "find"}, Goes(c, at),
           UNCHANGED <<nakama, storage, drawn, answer, anchor, strayed>>,
           \/ call[c].op = "ensure" /\ call[c].at = "find" /\ at = "create"
           \/ /\ call[c].op = "join" /\ call[c].at \in {"look", "kept", "find"}
              /\ call[c].at = "look" => call[c].got.match \notin live
    PROVE  IInv'
<1> DEFINE k == [call[c] EXCEPT !.at = at]
<1>1. /\ c \in Busy /\ call[c] \in Calls /\ Placed(call[c]) /\ Matched(call[c])
      /\ Truthful(call[c]) /\ Follows(call[c]) /\ Expects(call[c]) /\ IsFiniteSet(drawn)
      /\ drawn \subseteq Codes /\ Known(call[c])
  BY CallFacts
<1>2. call' = [call EXCEPT ![c] = k] BY DEF Goes
<1>3. /\ k \in Calls /\ k.at = at /\ k.op = call[c].op /\ k.code = call[c].code
      /\ k.match = call[c].match /\ k.alone = call[c].alone /\ k.expect = call[c].expect
      /\ k.gone = call[c].gone /\ k.list = call[c].list /\ k.offers = call[c].offers
  BY <1>1, PlaceChanges
<1> HIDE DEF k
<1>4. k.match = 0 BY <1>1, <1>3 DEF Matched
<1>5. Placed(k) BY <1>3 DEF Placed
<1>6. Matched(k) BY <1>1, <1>3, <1>4 DEF Matched
<1>7. Truthful(k) BY <1>1, <1>3, <1>4 DEF Truthful
<1>8. Follows(k)
  <2>1. ASSUME NEW code \in Codes, anchor[code] # 0, k.code = code, k.op # "ensure" PROVE FALSE
    <3>1. call[c].at = "look" /\ call[c].got.match = anchor[code]
      BY <1>1, <1>3, <2>1 DEF Follows
    <3> QED BY <2>1, <3>1 DEF IInv, Anchored
  <2> QED BY <2>1 DEF Follows
<1>9. Unmoved(k) BY <1>3, <1>4 DEF Unmoved
<1>10. Expects(k) BY <1>1, <1>3 DEF Expects
<1>11. k.op # "ensure" => k.code \in drawn' BY <1>1, <1>3 DEF Known
<1> QED BY <1>11, <1>1, <1>2, <1>3, <1>4, <1>5, <1>6, <1>7, <1>8, <1>9, <1>10, GoesOn

\* findExistingAuthoritativeMatchId lists no match of the table.
LEMMA FindsNoneStep == ASSUME IInv, NEW c \in Callers, FindsNone(c) PROVE IInv'
<1>1. call[c].at = "find" /\ Goes(c, "create") BY DEF FindsNone
<1>2. call[c].op \in {"ensure", "join"} BY <1>1, CallFacts DEF Placed
<1> QED BY <1>1, <1>2, GoesStep DEF FindsNone

\* rpcJoinByCode reads the record of the code.
LEMMA JoinReadsStep == ASSUME IInv, NEW c \in Callers, JoinReads(c) PROVE IInv'
<1>1. call[c].at = "read" /\ call[c].op = "join" BY DEF JoinReads, At
<1>2. /\ c \in Busy /\ call[c] \in Calls /\ Placed(call[c]) /\ Matched(call[c])
      /\ Truthful(call[c]) /\ Follows(call[c]) /\ Expects(call[c]) /\ IsFiniteSet(drawn)
      /\ drawn \subseteq Codes
  BY <1>1, CallFacts
<1>3. call[c].code \in Codes /\ call[c].match = 0 BY <1>1, <1>2 DEF Matched
<1>4. CASE table[call[c].code] = NoTable BY <1>2, <1>4, ErrorStep DEF JoinReads
<1>5. CASE table[call[c].code] # NoTable
  <2> DEFINE got == table[call[c].code]
             k == [call[c] EXCEPT !.at = "look", !.got = got]
  <2>1. /\ call' = [call EXCEPT ![c] = k]
        /\ UNCHANGED <<nakama, storage, drawn, answer, anchor, strayed>>
    BY <1>5 DEF JoinReads
  <2>2. got \in Records BY <1>3 DEF IInv, TypeOK
  <2>3. MadeFor(got.match, call[c].code) BY <1>3, <1>5 DEF IInv, RecordsAreTrue
  <2>4. /\ k \in Calls /\ k.at = "look" /\ k.got = got /\ k.op = "join" /\ k.match = 0
        /\ k.code = call[c].code /\ k.alone = call[c].alone /\ k.expect = call[c].expect
        /\ k.gone = call[c].gone /\ k.list = call[c].list /\ k.offers = call[c].offers
    BY <1>1, <1>2, <1>3, <2>2 DEF Calls
  <2> HIDE DEF k
  <2>5. Placed(k) /\ Matched(k) BY <1>3, <2>4 DEF Placed, Matched
  <2>6. Truthful(k) BY <1>2, <2>3, <2>4 DEF Truthful
  <2>7. Follows(k) BY <2>4 DEF Follows, IInv, Anchored
  <2>8. Unmoved(k) BY <2>4 DEF Unmoved
  <2>9. Expects(k) BY <1>2, <2>4 DEF Expects
  <2>10. k.code \in drawn' BY <1>3, <1>5, <2>1, <2>4 DEF IInv, RecordsAreTrue
  <2> HIDE DEF got
  <2> QED BY <2>10, <1>2, <1>3, <2>1, <2>4, <2>5, <2>6, <2>7, <2>8, <2>9, GoesOn
<1> QED BY <1>4, <1>5

\* resolveMatchSnapshot finds the match of the record running, or not.
LEMMA JoinLooksStep == ASSUME IInv, NEW c \in Callers, JoinLooks(c) PROVE IInv'
<1> DEFINE m == call[c].got.match
<1>1. /\ call[c].at = "look" /\ call[c].op = "join"
      /\ UNCHANGED <<nakama, storage, drawn>>
  BY DEF JoinLooks, At
<1>2. /\ c \in Busy /\ call[c] \in Calls /\ Matched(call[c]) /\ Truthful(call[c])
      /\ Follows(call[c]) /\ Unmoved(call[c]) /\ Expects(call[c])
      /\ live \subseteq 1..made /\ made \in 0..MaxMatch
  BY <1>1, CallFacts
<1>3. ASSUME m \in live, Return(c, m) PROVE IInv'
  <2>1. call[c].code \in Codes BY <1>1, <1>2 DEF Matched
  <2>2. m \in 0..MaxMatch /\ MadeFor(m, call[c].code) /\ m \notin call[c].gone
    <3>1. m \in 1..made BY <1>2, <1>3
    <3>2. m \in 0..MaxMatch BY <1>2, <3>1, SizesAssumption
    <3>3. MadeFor(m, call[c].code) BY <1>1, <1>2 DEF Truthful
    <3>4. m \notin call[c].gone BY <1>2, <1>3 DEF Truthful
    <3> QED BY <3>2, <3>3, <3>4
  <2>3. table' = table BY <1>1 DEF storage
  <2>4. table' \in [Codes -> Records] /\ RecordsAreTrue'
    BY <1>1, <2>3 DEF IInv, TypeOK, RecordsAreTrue, MadeFor, nakama
  <2>5. \A code \in Codes : anchor[code] # 0 => table'[code].match = anchor[code]
    BY <2>3 DEF IInv, Anchored
  <2>6. call[c].alone => table'[call[c].code].match = m BY <1>1, <1>2, <2>3 DEF Unmoved
  <2>7. call[c].expect \in {0, m} BY <1>1, <1>2, <2>1 DEF Expects, Follows
  <2>8. UNCHANGED <<nakama, kept, drawn>> BY <1>1 DEF storage
  <2> HIDE DEF m
  <2> QED BY <1>2, <1>3, <2>2, <2>4, <2>5, <2>6, <2>7, <2>8, Returns
<1>4. CASE m \in live
  <2>1. Return(c, m) \/ Return(c, 0) BY <1>4 DEF JoinLooks
  <2> QED BY <1>1, <1>2, <1>3, <1>4, <2>1, ErrorStep
<1>5. CASE m \notin live
  <2>1. Goes(c, "kept") /\ UNCHANGED <<nakama, storage, drawn, answer, anchor, strayed>>
    BY <1>5 DEF JoinLooks
  <2> QED BY <1>1, <1>5, <2>1, GoesStep
<1> QED BY <1>4, <1>5

\* hasRecoverablePdhCheckpoint
LEMMA JoinChecksStep == ASSUME IInv, NEW c \in Callers, JoinChecks(c) PROVE IInv'
<1>1. call[c].at = "kept" /\ call[c].op = "join" BY DEF JoinChecks, At
<1>2. CASE call[c].code \in kept
  <2>1. Goes(c, "find") /\ UNCHANGED <<nakama, storage, drawn, answer, anchor, strayed>>
    BY <1>2 DEF JoinChecks
  <2> QED BY <1>1, <2>1, GoesStep
<1>3. CASE call[c].code \notin kept BY <1>1, <1>3, CallFacts, ErrorStep DEF JoinChecks
<1> QED BY <1>2, <1>3

\* The call of a code finds a match of the table, which it will write into the record.
LEMMA JoinFindsStep == ASSUME IInv, NEW c \in Callers, JoinFinds(c) PROVE IInv'
<1>1. /\ call[c].at = "find" /\ call[c].op = "join"
      /\ UNCHANGED <<nakama, storage, drawn, answer, anchor, strayed>>
  BY DEF JoinFinds, At
<1>2. /\ c \in Busy /\ call[c] \in Calls /\ Matched(call[c]) /\ Truthful(call[c])
      /\ Follows(call[c]) /\ Expects(call[c]) /\ IsFiniteSet(drawn)
      /\ drawn \subseteq Codes /\ live \subseteq 1..made /\ made \in 0..MaxMatch
      /\ Known(call[c])
  BY <1>1, CallFacts
<1>3. call[c].code \in Codes BY <1>1, <1>2 DEF Matched
<1>4. PICK m \in OfTable(call[c].code) :
        call' = [call EXCEPT ![c] = [@ EXCEPT !.at = "write", !.match = m]]
  BY DEF JoinFinds
<1> DEFINE k == [call[c] EXCEPT !.at = "write", !.match = m]
<1>5. /\ m \in live /\ codeOf[m] = call[c].code /\ m \in 0..MaxMatch /\ m # 0
      /\ MadeFor(m, call[c].code)
  BY <1>2, <1>4, SizesAssumption DEF OfTable, MadeFor
<1>6. call' = [call EXCEPT ![c] = k] BY <1>4
<1>7. /\ k \in Calls /\ k.at = "write" /\ k.match = m /\ k.op = "join"
      /\ k.code = call[c].code /\ k.alone = call[c].alone /\ k.expect = call[c].expect
      /\ k.gone = call[c].gone /\ k.list = call[c].list /\ k.offers = call[c].offers
  BY <1>1, <1>2, <1>5 DEF Calls
<1> HIDE DEF k
<1>8. Placed(k) /\ Matched(k) BY <1>3, <1>5, <1>7 DEF Placed, Matched
<1>9. Truthful(k) BY <1>2, <1>5, <1>7 DEF Truthful
<1>10. Follows(k) BY <1>1, <1>2, <1>7 DEF Follows
<1>11. Unmoved(k) BY <1>5, <1>7 DEF Unmoved
<1>12. Expects(k) BY <1>2, <1>7 DEF Expects
<1>13. k.code \in drawn' BY <1>1, <1>2, <1>7 DEF Known
<1> QED BY <1>13, <1>1, <1>2, <1>5, <1>6, <1>7, <1>8, <1>9, <1>10, <1>11, <1>12, GoesOn

\* listActiveLobbyTables lists the matches that are running.
LEMMA QuickListsStep == ASSUME IInv, NEW c \in Callers, QuickLists(c) PROVE IInv'
<1>1. /\ call[c].at = "list" /\ call[c].op = "quick"
      /\ call' = [call EXCEPT ![c] = [@ EXCEPT !.at = "scan", !.list = live, !.offers = {}]]
      /\ UNCHANGED <<nakama, storage, drawn, answer, anchor, strayed>>
  BY DEF QuickLists, At
<1>2. /\ c \in Busy /\ call[c] \in Calls /\ Matched(call[c]) /\ Truthful(call[c])
      /\ Unmoved(call[c]) /\ Expects(call[c]) /\ IsFiniteSet(drawn)
      /\ drawn \subseteq Codes /\ live \subseteq 1..made /\ made \in 0..MaxMatch
  BY <1>1, CallFacts
<1> DEFINE k == [call[c] EXCEPT !.at = "scan", !.list = live, !.offers = {}]
<1>3. live \subseteq Matches BY <1>2, SizesAssumption DEF Matches
<1>4. /\ k \in Calls /\ k.at = "scan" /\ k.list = live /\ k.offers = {} /\ k.op = "quick"
      /\ k.code = call[c].code /\ k.match = call[c].match /\ k.alone = call[c].alone
      /\ k.expect = call[c].expect /\ k.gone = call[c].gone /\ k.again = call[c].again
  BY <1>1, <1>2, <1>3 DEF Calls
<1>5. call' = [call EXCEPT ![c] = k] BY <1>1
<1> HIDE DEF k
<1>6. Placed(k) /\ Matched(k) BY <1>1, <1>2, <1>4 DEF Placed, Matched
<1>7. Truthful(k) BY <1>2, <1>4 DEF Truthful
<1>8. Follows(k) BY <1>4 DEF Follows
<1>9. Unmoved(k) BY <1>2, <1>4 DEF Unmoved
<1>10. Expects(k) BY <1>1, <1>2, <1>4 DEF Expects
<1> QED BY <1>1, <1>2, <1>4, <1>5, <1>6, <1>7, <1>8, <1>9, <1>10, GoesOn

\* listQuickPlayCandidates reads the record of one match more.
LEMMA QuickScansStep == ASSUME IInv, NEW c \in Callers, QuickScans(c) PROVE IInv'
<1>1. /\ call[c].at = "scan" /\ call[c].op = "quick"
      /\ UNCHANGED <<nakama, storage, drawn, answer, anchor, strayed>>
  BY DEF QuickScans, At
<1>2. /\ c \in Busy /\ call[c] \in Calls /\ Matched(call[c]) /\ Truthful(call[c])
      /\ Unmoved(call[c]) /\ Expects(call[c]) /\ IsFiniteSet(drawn)
      /\ drawn \subseteq Codes /\ made \in 0..MaxMatch
  BY <1>1, CallFacts
<1>3. PICK m \in call[c].list, n \in 0..MaxCrowd :
        call' = [call EXCEPT ![c] = [@ EXCEPT
                   !.list = call[c].list \ {m},
                   !.offers = call[c].offers
                              \cup (IF IsOffer(m, n) THEN {Offer(m, n)} ELSE {})]]
  BY DEF QuickScans
<1> DEFINE list == call[c].list \ {m}
           offers == call[c].offers \cup (IF IsOffer(m, n) THEN {Offer(m, n)} ELSE {})
           k == [call[c] EXCEPT !.list = list, !.offers = offers]
<1>4. m \in 1..made /\ m \in Matches /\ m \notin call[c].gone
  BY <1>2, SizesAssumption DEF Truthful, Matches
<1>5. ASSUME IsOffer(m, n)
      PROVE  /\ Offer(m, n) \in Offers
             /\ MadeFor(Offer(m, n).match, Offer(m, n).code) /\ Offer(m, n).match = m
  <2>1. codeOf[m] \in Codes /\ table[codeOf[m]] \in Records
    BY <1>5 DEF IsOffer, IInv, TypeOK
  <2>2. n \in Nat BY SizesAssumption
  <2> QED BY <1>4, <2>1, <2>2 DEF Offer, Offers, Records, MadeFor
<1>6. offers \subseteq Offers BY <1>2, <1>5 DEF Calls
<1>7. \A a \in offers : MadeFor(a.match, a.code) /\ a.match \notin call[c].gone
  BY <1>2, <1>4, <1>5 DEF Truthful
<1>8. call' = [call EXCEPT ![c] = k] BY <1>3
<1> HIDE DEF offers
<1>9. /\ k \in Calls /\ k.at = "scan" /\ k.list = list /\ k.offers = offers /\ k.op = "quick"
      /\ k.code = call[c].code /\ k.match = call[c].match /\ k.alone = call[c].alone
      /\ k.expect = call[c].expect /\ k.gone = call[c].gone /\ k.again = call[c].again
  BY <1>1, <1>2, <1>6 DEF Calls
<1> HIDE DEF k
<1>10. Placed(k) /\ Matched(k) BY <1>1, <1>2, <1>9 DEF Placed, Matched
<1>11. Truthful(k) BY <1>2, <1>7, <1>9 DEF Truthful
<1>12. Follows(k) BY <1>9 DEF Follows
<1>13. Unmoved(k) BY <1>2, <1>9 DEF Unmoved
<1>14. Expects(k) BY <1>1, <1>2, <1>9 DEF Expects
<1> QED BY <1>1, <1>2, <1>8, <1>9, <1>10, <1>11, <1>12, <1>13, <1>14, GoesOn

\* chooseBestQuickPlayCandidate
LEMMA QuickChoosesStep == ASSUME IInv, NEW c \in Callers, QuickChooses(c) PROVE IInv'
<1>1. /\ call[c].at = "scan" /\ call[c].op = "quick"
      /\ UNCHANGED <<nakama, storage, drawn, anchor, strayed>>
  BY DEF QuickChooses, At
<1>2. c \in Busy /\ call[c] \in Calls /\ Truthful(call[c]) BY <1>1, CallFacts
<1>3. PICK a \in call[c].offers :
        /\ call' = [call EXCEPT ![c] = NoCall]
        /\ answer' = [answer EXCEPT ![c] = [op |-> "quick", code |-> a.code,
                                            match |-> a.match, stale |-> a.match \in call[c].gone]]
  BY DEF QuickChooses, Best
<1> DEFINE r == [op |-> "quick", code |-> a.code, match |-> a.match,
                 stale |-> a.match \in call[c].gone]
<1>4. a \in Offers /\ "quick" \in Ops \cup {"none"} BY <1>1, <1>2 DEF Calls
<1>5. r \in Answers BY <1>4, SizesAssumption DEF Offers, Answers, Matches, Ids
<1>6. MadeFor(r.match, r.code) /\ ~r.stale BY <1>2 DEF Truthful
<1>7. UNCHANGED <<nakama, kept, drawn, table>> /\ anchor' = anchor /\ strayed' = FALSE
  BY <1>1 DEF storage, IInv
<1>8. table' \in [Codes -> Records] /\ RecordsAreTrue'
  BY <1>7 DEF IInv, TypeOK, RecordsAreTrue, MadeFor, nakama
<1>9. /\ anchor' \in [Codes -> 0..MaxMatch]
      /\ \A code \in Codes : anchor'[code] # 0 =>
            /\ anchor'[code] \in live /\ codeOf[anchor'[code]] = code
            /\ table'[code].match = anchor'[code]
  BY <1>7 DEF IInv, Anchored, TypeOK
<1>10. call' = [call EXCEPT ![c] = NoCall] /\ answer' = [answer EXCEPT ![c] = r] BY <1>3
<1> HIDE DEF r
<1> QED BY <1>2, <1>5, <1>6, <1>7, <1>8, <1>9, <1>10, Ends

\* Quick play returns the match of its own table.
LEMMA QuickKeepsOwnStep == ASSUME IInv, NEW c \in Callers, QuickKeepsOwn(c) PROVE IInv'
<1>1. /\ call[c].at = "scan" /\ call[c].op = "quick" /\ call[c].again
      /\ Return(c, call[c].match) /\ UNCHANGED <<nakama, storage, drawn>>
  BY DEF QuickKeepsOwn, At
<1>2. c \in Busy /\ Truthful(call[c]) /\ Matched(call[c]) /\ call[c] \in Calls BY <1>1, CallFacts
<1>3. /\ call[c].match \in 0..MaxMatch /\ MadeFor(call[c].match, call[c].code)
      /\ call[c].match \notin call[c].gone
  BY <1>1, <1>2 DEF Truthful, Matched, Calls
<1>4. UNCHANGED <<nakama, kept, drawn, table>> BY <1>1 DEF storage
<1>5. table' \in [Codes -> Records] /\ RecordsAreTrue'
  BY <1>4 DEF IInv, TypeOK, RecordsAreTrue, MadeFor, nakama
<1>6. \A code \in Codes : anchor[code] # 0 => table'[code].match = anchor[code]
  BY <1>4 DEF IInv, Anchored
<1> QED BY <1>1, <1>2, <1>3, <1>4, <1>5, <1>6, Returns

\* writeTableByCode: no anchor forbids it, for the calls of an anchored code write nothing.
LEMMA WriteTableStep == ASSUME IInv, NEW c \in Callers, WriteTable(c) PROVE IInv'
<1> DEFINE m == call[c].match
           code == call[c].code
<1>1. /\ call[c].at = "write" /\ table' = [table EXCEPT ![code] = Written(c)]
      /\ UNCHANGED <<nakama, kept, drawn>>
  BY DEF WriteTable
<1>2. /\ c \in Busy /\ call[c] \in Calls /\ Placed(call[c]) /\ Matched(call[c])
      /\ Truthful(call[c]) /\ Known(call[c]) /\ Follows(call[c]) /\ Unmoved(call[c])
      /\ Expects(call[c]) /\ IsFiniteSet(drawn) /\ drawn \subseteq Codes
  BY <1>1, CallFacts
<1>3. call[c].op \in {"create", "join", "quick"} BY <1>1, <1>2 DEF Placed
<1>4. /\ code \in Codes /\ code \in drawn /\ m # 0 /\ m \in 0..MaxMatch
      /\ MadeFor(m, code) /\ m \notin call[c].gone
  BY <1>1, <1>2, <1>3 DEF Matched, Known, Truthful, Calls
<1>5. anchor[code] = 0 BY <1>1, <1>2, <1>3, <1>4 DEF Follows
<1>6. Written(c) \in Records /\ Written(c).match = m
  BY <1>2, <1>4 DEF Written, Records, Calls
<1>7. table \in [Codes -> Records] BY DEF IInv, TypeOK
<1>8. \A x \in Codes : table'[x] = IF x = code THEN Written(c) ELSE table[x]
  BY <1>1, <1>7
<1>9. table' \in [Codes -> Records] BY <1>1, <1>6, <1>7
<1>10. RecordsAreTrue'
  BY <1>1, <1>4, <1>6, <1>8 DEF IInv, RecordsAreTrue, MadeFor, nakama
<1>11. \A x \in Codes : anchor[x] # 0 => table'[x].match = anchor[x]
  BY <1>5, <1>8 DEF IInv, Anchored
<1>12. CASE call[c].op = "quick"
  <2> DEFINE k == [call[c] EXCEPT !.at = "list", !.again = TRUE]
  <2>1. call' = [call EXCEPT ![c] = k] /\ UNCHANGED <<answer, anchor, strayed>>
    BY <1>12 DEF WriteTable
  <2>2. /\ k \in Calls /\ k.at = "list" /\ k.again = TRUE /\ k.op = "quick"
        /\ k.code = code /\ k.match = m /\ k.alone = call[c].alone
        /\ k.expect = call[c].expect /\ k.gone = call[c].gone /\ k.list = call[c].list
        /\ k.offers = call[c].offers
    BY <1>2, <1>12 DEF Calls
  <2> HIDE DEF k
  <2>3. Placed(k) /\ Matched(k) BY <1>4, <2>2 DEF Placed, Matched
  <2>4. Truthful(k) BY <1>2, <2>2 DEF Truthful
  <2>5. Follows(k) BY <2>2 DEF Follows
  <2>6. Unmoved(k) BY <1>2, <2>2 DEF Unmoved
  <2>7. Expects(k) BY <1>2, <1>12, <2>2 DEF Expects
  <2>8. k.match # 0 BY <1>4, <2>2
  <2> QED
    BY <1>1, <1>2, <1>9, <1>10, <1>11, <2>1, <2>2, <2>3, <2>4, <2>5, <2>6, <2>7, <2>8, GoesOn
<1>13. CASE call[c].op # "quick"
  <2>1. Return(c, m) BY <1>13 DEF WriteTable
  <2>2. ASSUME call[c].op = "join"
        PROVE  /\ call[c].alone => m \in live /\ table'[code].match = m
               /\ call[c].expect \in {0, m}
    <3>1. call[c].alone => m \in live BY <1>2, <1>4 DEF Unmoved
    <3>2. table'[code].match = m BY <1>4, <1>6, <1>8
    <3>3. call[c].expect = 0 BY <1>2, <1>5 DEF Expects
    <3> QED BY <3>1, <3>2, <3>3
  <2> HIDE DEF m
  <2> QED BY <1>1, <1>2, <1>4, <1>9, <1>10, <1>11, <2>1, <2>2, Returns
<1> QED BY <1>12, <1>13

\* nk.matchCreate: the new match is nobody's yet, and there is still one for each other call.
LEMMA MatchCreateStep == ASSUME IInv, NEW c \in Callers, MatchCreate(c) PROVE IInv'
<1> DEFINE at == IF call[c].op = "ensure" THEN "return" ELSE "write"
           k == [call[c] EXCEPT !.match = made + 1, !.at = at]
<1>1. /\ call[c].at = "create" /\ made' = made + 1 /\ live' = live \cup {made + 1}
      /\ codeOf' = [codeOf EXCEPT ![made + 1] = call[c].code]
      /\ call' = [call EXCEPT ![c] = k]
      /\ UNCHANGED <<table, kept, drawn, answer, anchor, strayed>>
  BY DEF MatchCreate, storage
<1>2. /\ c \in Busy /\ call[c] \in Calls /\ Placed(call[c]) /\ Matched(call[c])
      /\ Truthful(call[c]) /\ Known(call[c]) /\ Follows(call[c]) /\ Expects(call[c])
      /\ made \in 0..MaxMatch /\ live \subseteq 1..made
  BY <1>1, CallFacts
<1>3. c \in Pending /\ IsFiniteSet(Pending)
  BY <1>1, <1>2, FS_Subset DEF Matched, Pending, IInv, Counted
<1>4. /\ Cardinality(Pending) \in Nat
      /\ Cardinality(Pending \ {c}) = Cardinality(Pending) - 1
      /\ Cardinality(Pending \ {c}) \in Nat /\ IsFiniteSet(Pending \ {c})
  BY <1>3, FS_CardinalityType, FS_RemoveElement
<1>5. made + 1 \in 1..MaxMatch /\ made \in Nat /\ MaxMatch \in Nat
  <2>1. made + Cardinality(Pending) <= MaxMatch BY DEF IInv, Counted
  <2> QED BY <1>2, <1>4, <2>1, SizesAssumption
<1>6. /\ k \in Calls /\ k.match = made + 1 /\ k.at = at /\ k.op = call[c].op
      /\ k.code = call[c].code /\ k.alone = call[c].alone /\ k.expect = call[c].expect
      /\ k.gone = call[c].gone /\ k.list = call[c].list /\ k.offers = call[c].offers
  <2>1. made + 1 \in 0..MaxMatch /\ at \in {"return", "write"} BY <1>5
  <2> HIDE DEF at
  <2> QED BY <1>2, <2>1 DEF Calls
<1>7. call \in [Callers -> Calls] /\ codeOf \in [Matches -> Ids] BY DEF IInv, TypeOK
<1>8. \A d \in Callers : call'[d] = IF d = c THEN k ELSE call[d] BY <1>1, <1>7
<1>9. \A m \in 1..made : codeOf'[m] = codeOf[m]
  BY <1>1, <1>5, <1>7 DEF Matches
<1>10. codeOf'[made + 1] = call[c].code BY <1>1, <1>5, <1>7 DEF Matches
<1>11. \A m, code : MadeFor(m, code) => MadeFor(m, code)'
  BY <1>1, <1>5, <1>9 DEF MadeFor
<1>12. k.match # 0 /\ k.at \in {"return", "write"} /\ k.at # "idle" BY <1>5, <1>6
<1>13. Busy' = Busy /\ Pending' \subseteq Pending \ {c}
  BY <1>1, <1>2, <1>8, <1>12 DEF Busy, Pending
<1> HIDE DEF k
<1>14. TypeOK'
  <2>1. made' \in 0..MaxMatch BY <1>1, <1>5
  <2>2. call[c].code \in Ids BY <1>2 DEF Calls
  <2>3. codeOf' \in [Matches -> Ids] BY <1>1, <1>7, <2>2
  <2>4. live' \subseteq 1..made' BY <1>1, <1>2, <1>5
  <2>5. call' \in [Callers -> Calls] BY <1>1, <1>6, <1>7
  <2> QED BY <1>1, <2>1, <2>3, <2>4, <2>5 DEF IInv, TypeOK
<1>15. Counted'
  <2>1. Cardinality(Pending') <= Cardinality(Pending \ {c}) /\ Cardinality(Pending') \in Nat
    BY <1>4, <1>13, FS_Subset, FS_CardinalityType
  <2>2. made + Cardinality(Pending) <= MaxMatch BY DEF IInv, Counted
  <2> QED BY <1>1, <1>4, <1>5, <1>13, <2>1, <2>2 DEF IInv, Counted
<1>16. ASSUME NEW d \in Callers
       PROVE  (Placed(call[d]) /\ Matched(call[d]) /\ Truthful(call[d]) /\ Known(call[d]))'
  <2>1. CASE d = c
    <3>1. call'[d] = k BY <1>8, <2>1
    <3>2. Placed(call[d])' BY <1>1, <1>2, <1>6, <3>1 DEF Placed
    <3>3. Matched(call[d])' BY <1>1, <1>2, <1>6, <1>12, <3>1 DEF Matched
    <3>4. Known(call[d])' BY <1>1, <1>2, <1>6, <1>12, <3>1 DEF Known
    <3>5. k.match \in 1..made' /\ codeOf'[k.match] = k.code BY <1>1, <1>5, <1>6, <1>10
    <3>6. k.gone \subseteq 1..made /\ k.gone \cap live = {} BY <1>2, <1>6 DEF Truthful
    <3>7. k.gone \subseteq 1..made' /\ k.gone \cap live' = {} /\ k.match \notin k.gone
      BY <1>1, <1>5, <1>6, <3>6
    <3>8. k.list \subseteq 1..made' /\ k.list \cap k.gone = {}
      BY <1>1, <1>2, <1>5, <1>6 DEF Truthful
    <3>9. \A a \in k.offers : MadeFor(a.match, a.code)' /\ a.match \notin k.gone
      BY <1>2, <1>6, <1>11 DEF Truthful
    <3>10. Truthful(call[d])'
      BY <1>12, <3>1, <3>5, <3>7, <3>8, <3>9 DEF Truthful, MadeFor
    <3> QED BY <3>2, <3>3, <3>4, <3>10
  <2>2. CASE d # c
    <3>1. call'[d] = call[d] BY <1>8, <2>2
    <3>2. Placed(call[d]) /\ Matched(call[d]) /\ Truthful(call[d]) /\ Known(call[d]) BY DEF IInv
    <3>3. (Placed(call[d]) /\ Matched(call[d]) /\ Known(call[d]))'
      BY <1>1, <3>1, <3>2 DEF Placed, Matched, Known
    <3>4. call[d].gone \subseteq 1..made' /\ call[d].gone \cap live' = {}
      BY <1>1, <1>5, <3>2 DEF Truthful
    <3>5. call[d].list \subseteq 1..made' BY <1>1, <1>5, <3>2 DEF Truthful
    <3>6. /\ call[d].match # 0 => MadeFor(call[d].match, call[d].code)'
          /\ call[d].at = "look" => MadeFor(call[d].got.match, call[d].code)'
          /\ \A a \in call[d].offers : MadeFor(a.match, a.code)'
      BY <1>11, <3>1, <3>2 DEF Truthful, MadeFor
    <3>7. Truthful(call[d])'
      BY <3>1, <3>2, <3>4, <3>5, <3>6 DEF Truthful, MadeFor
    <3> QED BY <3>3, <3>7
  <2> QED BY <2>1, <2>2
<1>17. RecordsAreTrue' BY <1>1, <1>11 DEF IInv, RecordsAreTrue, MadeFor
<1>18. Answered' BY <1>1, <1>11 DEF IInv, Answered, MadeFor
<1>19. Undisturbed'
  BY <1>1, <1>2, <1>6, <1>8, <1>12, <1>13 DEF IInv, Undisturbed, Busy
<1>20. Anchored'
  <2>1. ASSUME NEW code \in Codes, anchor[code] # 0
        PROVE  /\ anchor[code] \in live' /\ codeOf'[anchor[code]] = code
               /\ table[code].match = anchor[code]
    BY <1>1, <1>2, <1>9, <2>1 DEF IInv, Anchored
  <2>2. ASSUME NEW code \in Codes, anchor[code] # 0, k.code = code, k.op # "ensure" PROVE FALSE
    BY <1>1, <1>2, <1>6, <2>2 DEF Follows
  <2> QED BY <1>1, <1>8, <1>13, <2>1, <2>2 DEF IInv, Anchored, Busy
<1>21. Expecting' BY <1>1, <1>2, <1>6, <1>8, <1>13 DEF IInv, Expecting, Expects, Busy
<1> QED
  BY <1>1, <1>14, <1>15, <1>16, <1>17, <1>18, <1>19, <1>20, <1>21 DEF IInv

-----------------------------------------------------------------------------
(* Calls that begin or are lost, and matches.                               *)

\* A call that begins: no other is alone any longer, and there is a match left for it.
LEMMA BeginStep ==
    ASSUME IInv, NEW c \in Callers, NEW op, NEW at, NEW code \in Ids, NEW input \in Metas,
           Begin(c, op, at, code, input),
           \/ op = "create" /\ at = "draw" /\ code = NoCode
           \/ op = "ensure" /\ at = "find"
           \/ op = "join" /\ at = "read" /\ code \in Codes
           \/ op = "quick" /\ at = "list"
    PROVE  IInv'
<1> DEFINE quiet(d) == [call[d] EXCEPT !.alone = FALSE]
           expect == IF op = "join" THEN anchor[code] ELSE 0
           k == [NoCall EXCEPT !.op = op, !.at = at, !.code = code, !.input = input,
                               !.gone = (1..made) \ live, !.alone = (Busy = {}),
                               !.expect = expect]
<1>1. /\ op \in Ops /\ c \notin Busy /\ made + Cardinality(Busy) < MaxMatch
      /\ call' = [d \in Callers |-> IF d # c THEN quiet(d) ELSE k]
      /\ answer' = [answer EXCEPT ![c] = NoAnswer]
      /\ UNCHANGED <<nakama, storage, drawn, anchor, strayed>>
  BY DEF Begin
<1>2. /\ made \in 0..MaxMatch /\ live \subseteq 1..made /\ made \in Nat /\ MaxMatch \in Nat
      /\ anchor \in [Codes -> 0..MaxMatch] /\ call \in [Callers -> Calls]
      /\ answer \in [Callers -> Answers]
  BY SizesAssumption DEF IInv, TypeOK
<1>3. NoTable \in Records /\ 0 \in 0..MaxMatch /\ expect \in 0..MaxMatch
  BY <1>2, SizesAssumption DEF NoTable, Records, Metas, DefaultMeta
<1>4. (1..made) \ live \subseteq Matches BY <1>2 DEF Matches
<1>5. at \in {"draw", "find", "read", "list"} /\ (Busy = {}) \in BOOLEAN OBVIOUS
<1>6. /\ k \in Calls /\ k.op = op /\ k.at = at /\ k.code = code /\ k.match = 0
      /\ k.gone = (1..made) \ live /\ k.list = {} /\ k.offers = {} /\ k.again = FALSE
      /\ k.alone = (Busy = {}) /\ k.expect = expect
  <2> HIDE DEF expect
  <2> QED BY <1>1, <1>3, <1>4, <1>5 DEF NoCall, Calls
<1>7. ASSUME NEW d \in Callers
      PROVE  /\ quiet(d) \in Calls /\ quiet(d).op = call[d].op /\ quiet(d).at = call[d].at
             /\ quiet(d).code = call[d].code /\ quiet(d).match = call[d].match
             /\ quiet(d).got = call[d].got /\ quiet(d).list = call[d].list
             /\ quiet(d).offers = call[d].offers /\ quiet(d).again = call[d].again
             /\ quiet(d).gone = call[d].gone /\ quiet(d).expect = call[d].expect
             /\ ~quiet(d).alone
  BY <1>2 DEF Calls
<1> HIDE DEF k, quiet
<1>8. \A d \in Callers : call'[d] = IF d # c THEN quiet(d) ELSE k BY <1>1
<1>9. Busy' = Busy \cup {c}
  BY <1>1, <1>5, <1>6, <1>7, <1>8 DEF Busy
<1>10. Pending' \subseteq Busy' BY DEF Pending
<1>11. TypeOK'
  <2>1. NoAnswer \in Answers BY <1>3 DEF NoAnswer, Answers, Ids
  <2>2. call' \in [Callers -> Calls] BY <1>1, <1>6, <1>7
  <2>3. answer' \in [Callers -> Answers] BY <1>1, <1>2, <2>1
  <2> QED BY <1>1, <2>2, <2>3 DEF IInv, TypeOK, nakama, storage
<1>12. Counted'
  <2>1. IsFiniteSet(Busy) /\ Cardinality(Busy) \in Nat
    BY FS_CardinalityType DEF IInv, Counted
  <2>2. IsFiniteSet(Busy') /\ Cardinality(Busy') = Cardinality(Busy) + 1
    BY <1>1, <1>9, <2>1, FS_AddElement
  <2>3. Cardinality(Pending') <= Cardinality(Busy') /\ IsFiniteSet(Pending')
    BY <1>10, <2>2, FS_Subset
  <2>4. Cardinality(Pending') \in Nat BY <2>3, FS_CardinalityType
  <2>5. made' = made /\ drawn' = drawn BY <1>1 DEF nakama
  <2> QED BY <1>1, <1>2, <2>1, <2>2, <2>3, <2>4, <2>5 DEF IInv, Counted
<1>13. ASSUME NEW d \in Callers
       PROVE  (Placed(call[d]) /\ Matched(call[d]) /\ Truthful(call[d]) /\ Known(call[d]))'
  <2>1. CASE d = c
    <3>1. call'[d] = k BY <1>8, <2>1
    <3>2. Placed(call[d])' BY <1>6, <3>1 DEF Placed
    <3>3. Matched(call[d])' BY <1>5, <1>6, <3>1 DEF Matched
    <3>4. Known(call[d])'
      <4>1. op = "ensure" \/ at \notin {"create", "write", "look", "kept", "find"} OBVIOUS
      <4> QED BY <1>6, <3>1, <4>1 DEF Known
    <3>5. Truthful(call[d])' BY <1>1, <1>5, <1>6, <3>1 DEF Truthful, nakama
    <3> QED BY <3>2, <3>3, <3>4, <3>5
  <2>2. CASE d # c
    <3>1. call'[d] = quiet(d) BY <1>8, <2>2
    <3>2. Placed(call[d]) /\ Matched(call[d]) /\ Truthful(call[d]) /\ Known(call[d]) BY DEF IInv
    <3>3. Placed(call[d])' BY <1>7, <3>1, <3>2 DEF Placed
    <3>4. Matched(call[d])' BY <1>7, <3>1, <3>2 DEF Matched
    <3>5. Known(call[d])' BY <1>1, <1>7, <3>1, <3>2 DEF Known
    <3>6. Truthful(call[d])' BY <1>1, <1>7, <3>1, <3>2 DEF Truthful, MadeFor, nakama
    <3> QED BY <3>3, <3>4, <3>5, <3>6
  <2> QED BY <2>1, <2>2
<1>14. RecordsAreTrue' BY <1>1 DEF IInv, RecordsAreTrue, MadeFor, nakama, storage
<1>15. Answered'
  BY <1>1, <1>2 DEF IInv, Answered, MadeFor, nakama, NoAnswer
<1>16. Undisturbed'
  BY <1>1, <1>5, <1>6, <1>7, <1>8, <1>9 DEF IInv, Undisturbed, Busy
<1>17. Anchored'
  <2>1. ASSUME NEW x \in Codes, anchor[x] # 0, NEW d \in Busy',
               call'[d].code = x, call'[d].op # "ensure"
        PROVE  /\ call'[d].op = "join" =>
                     /\ call'[d].at \in {"read", "look"}
                     /\ call'[d].at = "look" => call'[d].got.match = anchor[x]
               /\ call'[d].op # "join" => call'[d].at \in {"list", "scan"}
    <3>1. CASE d = c
      <4>1. call'[d] = k /\ k.code = x BY <1>8, <2>1, <3>1
      <4>2. op # "create" BY <1>6, <2>1, <4>1, NoCodeAssumption
      <4> QED BY <1>6, <2>1, <4>1, <4>2
    <3>2. CASE d # c
      <4>1. call'[d] = quiet(d) /\ d \in Busy /\ d \in Callers
        BY <1>8, <1>9, <2>1, <3>2 DEF Busy
      <4> QED BY <1>7, <2>1, <4>1 DEF IInv, Anchored
    <3> QED BY <3>1, <3>2
  <2> QED BY <1>1, <2>1 DEF IInv, Anchored, nakama, storage
<1>18. Expecting'
  BY <1>1, <1>6, <1>7, <1>8, <1>9 DEF IInv, Expecting, Busy
<1> QED
  BY <1>1, <1>11, <1>12, <1>13, <1>14, <1>15, <1>16, <1>17, <1>18 DEF IInv

\* The runtime of a call fails with it.
LEMMA CallLostStep == ASSUME IInv, NEW c \in Callers, CallLost(c) PROVE IInv'
<1>1. /\ c \in Busy /\ call' = [call EXCEPT ![c] = NoCall]
      /\ UNCHANGED <<nakama, kept, drawn, table, answer, anchor>> /\ strayed' = FALSE
  BY DEF CallLost, storage, IInv
<1>2. answer[c] \in Answers /\ answer \in [Callers -> Answers] BY DEF IInv, TypeOK
<1>3. answer' = [answer EXCEPT ![c] = answer[c]] BY <1>1, <1>2
<1>4. answer[c].match # 0 => MadeFor(answer[c].match, answer[c].code) /\ ~answer[c].stale
  BY DEF IInv, Answered
<1>5. table' \in [Codes -> Records] /\ RecordsAreTrue'
  BY <1>1 DEF IInv, TypeOK, RecordsAreTrue, MadeFor, nakama
<1>6. /\ anchor' \in [Codes -> 0..MaxMatch]
      /\ \A code \in Codes : anchor'[code] # 0 =>
            /\ anchor'[code] \in live /\ codeOf[anchor'[code]] = code
            /\ table'[code].match = anchor'[code]
  BY <1>1 DEF IInv, Anchored, TypeOK
<1> QED BY <1>1, <1>2, <1>3, <1>4, <1>5, <1>6, Ends

\* Checkpoints come and go: the invariant does not speak of them, but for their type.
LEMMA KeptStep ==
    ASSUME IInv, kept' \subseteq Codes,
           UNCHANGED <<nakama, table, drawn, call, answer, anchor, strayed>>
    PROVE  IInv'
<1>1. TypeOK' BY DEF IInv, TypeOK, nakama
<1>2. Busy' = Busy /\ Pending' = Pending BY DEF Busy, Pending
<1>3. Counted' BY <1>2 DEF IInv, Counted, nakama
<1>4. \A c \in Callers : (Placed(call[c]) /\ Matched(call[c]) /\ Truthful(call[c]) /\ Known(call[c]))'
  BY DEF IInv, Placed, Matched, Truthful, Known, MadeFor, nakama
<1>5. RecordsAreTrue' BY DEF IInv, RecordsAreTrue, MadeFor, nakama
<1>6. Answered' BY DEF IInv, Answered, MadeFor, nakama
<1>7. Undisturbed' BY <1>2 DEF IInv, Undisturbed, nakama
<1>8. Anchored' BY <1>2 DEF IInv, Anchored, nakama
<1>9. Expecting' BY <1>2 DEF IInv, Expecting
<1> QED BY <1>1, <1>3, <1>4, <1>5, <1>6, <1>7, <1>8, <1>9 DEF IInv

\* A match ends: no call is alone any longer, and nobody expects a match of its table.
LEMMA MatchEndsStep == ASSUME IInv, NEW m \in Matches, MatchEnds(m) PROVE IInv'
<1> DEFINE expect(c) == IF call[c].code = codeOf[m] THEN 0 ELSE call[c].expect
           quiet(c) == [call[c] EXCEPT !.alone = FALSE, !.expect = expect(c)]
<1>1. /\ m \in live /\ live' = live \ {m}
      /\ anchor' = [k \in Codes |-> IF codeOf[m] = k THEN 0 ELSE anchor[k]]
      /\ call' = [c \in Callers |-> IF c \notin Busy THEN call[c] ELSE quiet(c)]
      /\ UNCHANGED <<made, codeOf, storage, drawn, answer, strayed>>
  BY DEF MatchEnds
<1>2. /\ call \in [Callers -> Calls] /\ anchor \in [Codes -> 0..MaxMatch]
      /\ live \subseteq 1..made /\ 0 \in 0..MaxMatch
  BY SizesAssumption DEF IInv, TypeOK
<1>3. ASSUME NEW c \in Callers
      PROVE  /\ quiet(c) \in Calls /\ quiet(c).op = call[c].op /\ quiet(c).at = call[c].at
             /\ quiet(c).code = call[c].code /\ quiet(c).match = call[c].match
             /\ quiet(c).got = call[c].got /\ quiet(c).list = call[c].list
             /\ quiet(c).offers = call[c].offers /\ quiet(c).again = call[c].again
             /\ quiet(c).gone = call[c].gone /\ quiet(c).expect = expect(c)
             /\ ~quiet(c).alone
  <2>1. call[c] \in Calls /\ expect(c) \in 0..MaxMatch BY <1>2 DEF Calls
  <2> HIDE DEF expect
  <2> QED BY <2>1 DEF Calls
<1> HIDE DEF quiet
<1>4. \A c \in Callers : call'[c] = IF c \notin Busy THEN call[c] ELSE quiet(c) BY <1>1
<1>5. Busy' = Busy BY <1>3, <1>4 DEF Busy
<1>6. Pending' = Pending BY <1>3, <1>4, <1>5 DEF Pending, Busy
<1>7. TypeOK'
  <2>1. call' \in [Callers -> Calls] BY <1>1, <1>2, <1>3
  <2>2. anchor' \in [Codes -> 0..MaxMatch] BY <1>1, <1>2
  <2>3. live' \subseteq 1..made' BY <1>1, <1>2
  <2> QED BY <1>1, <2>1, <2>2, <2>3 DEF IInv, TypeOK, storage
<1>8. Counted' BY <1>1, <1>5, <1>6 DEF IInv, Counted
<1>9. ASSUME NEW c \in Callers
      PROVE  (Placed(call[c]) /\ Matched(call[c]) /\ Truthful(call[c]) /\ Known(call[c]))'
  <2>1. Placed(call[c]) /\ Matched(call[c]) /\ Truthful(call[c]) /\ Known(call[c]) BY DEF IInv
  <2>2. CASE c \notin Busy
    <3>1. call'[c] = call[c] BY <1>4, <2>2
    <3>2. (Placed(call[c]) /\ Matched(call[c]) /\ Known(call[c]))'
      BY <1>1, <2>1, <3>1 DEF Placed, Matched, Known
    <3>3. Truthful(call[c])' BY <1>1, <2>1, <3>1 DEF Truthful, MadeFor
    <3> QED BY <3>2, <3>3
  <2>3. CASE c \in Busy
    <3>1. call'[c] = quiet(c) BY <1>4, <2>3
    <3>2. Placed(call[c])' BY <1>3, <2>1, <3>1 DEF Placed
    <3>3. Matched(call[c])' BY <1>3, <2>1, <3>1 DEF Matched
    <3>4. Known(call[c])' BY <1>1, <1>3, <2>1, <3>1 DEF Known
    <3>5. Truthful(call[c])' BY <1>1, <1>3, <2>1, <3>1 DEF Truthful, MadeFor
    <3> QED BY <3>2, <3>3, <3>4, <3>5
  <2> QED BY <2>2, <2>3
<1>10. RecordsAreTrue' BY <1>1 DEF IInv, RecordsAreTrue, MadeFor, storage
<1>11. Answered' BY <1>1 DEF IInv, Answered, MadeFor
<1>12. Undisturbed' BY <1>3, <1>4, <1>5 DEF Undisturbed, Busy
<1>13. Anchored'
  <2>1. ASSUME NEW code \in Codes, anchor'[code] # 0
        PROVE  /\ anchor[code] # 0 /\ anchor'[code] = anchor[code]
               /\ anchor[code] \in live' /\ codeOf[anchor[code]] = code
               /\ table[code].match = anchor[code]
    BY <1>1, <2>1 DEF IInv, Anchored
  <2>2. ASSUME NEW code \in Codes, anchor'[code] # 0, NEW c \in Busy
        PROVE  call[c].code = code /\ call[c].op # "ensure" =>
                 /\ call[c].op = "join" => /\ call[c].at \in {"read", "look"}
                                           /\ call[c].at = "look" => call[c].got.match = anchor[code]
                 /\ call[c].op # "join" => call[c].at \in {"list", "scan"}
    BY <2>1, <2>2 DEF IInv, Anchored
  <2>3. \A c \in Busy : /\ call'[c].code = call[c].code /\ call'[c].op = call[c].op
                        /\ call'[c].at = call[c].at /\ call'[c].got = call[c].got
    BY <1>3, <1>4 DEF Busy
  <2> QED BY <1>1, <1>5, <2>1, <2>2, <2>3 DEF Anchored, storage
<1>14. Expecting'
  <2>1. ASSUME NEW c \in Busy, call'[c].expect # 0
        PROVE  call'[c].op = "join" /\ call'[c].expect = anchor'[call'[c].code]
    <3>1. c \in Callers /\ call'[c] = quiet(c) BY <1>4 DEF Busy
    <3>2. call[c].code # codeOf[m] /\ call[c].expect # 0 /\ call'[c].expect = call[c].expect
      BY <1>3, <2>1, <3>1
    <3>3. call[c].op = "join" /\ call[c].expect = anchor[call[c].code]
      BY <3>2 DEF IInv, Expecting
    <3>4. call[c].code \in Codes BY <3>1, <3>3 DEF IInv, Matched
    <3>5. anchor'[call[c].code] = anchor[call[c].code] BY <1>1, <3>2, <3>4
    <3> QED BY <1>3, <3>1, <3>2, <3>3, <3>5
  <2> QED BY <1>5, <2>1 DEF Expecting
<1> QED
  BY <1>1, <1>7, <1>8, <1>9, <1>10, <1>11, <1>12, <1>13, <1>14 DEF IInv

-----------------------------------------------------------------------------
(* The theorems.                                                            *)

\* Every step keeps the invariant.
LEMMA NextIInv == IInv /\ [Next]_vars => IInv'
<1> SUFFICES ASSUME IInv, [Next]_vars PROVE IInv' OBVIOUS
<1>1. CASE UNCHANGED vars
  <2>1. kept' \subseteq Codes /\ UNCHANGED <<nakama, table, drawn, call, answer, anchor, strayed>>
    BY <1>1 DEF vars, storage, IInv, TypeOK
  <2> QED BY <2>1, KeptStep
<1>2. ASSUME NEW c \in Callers, Begins(c) PROVE IInv'
  <2>1. NoCode \in Ids /\ Codes \subseteq Ids /\ Ensured \subseteq Ids BY DEF Ids
  <2>2. DefaultMeta \in Metas BY DEF DefaultMeta, Metas
  <2>3. Inputs \subseteq Metas BY InputsAssumption DEF Metas
  <2>4. CASE CreateTable(c) BY <2>1, <2>2, <2>4, BeginStep DEF CreateTable
  <2>5. ASSUME NEW id \in Ensured, Ensure(c, id) PROVE IInv'
    BY <2>1, <2>2, <2>5, BeginStep DEF Ensure
  <2>6. ASSUME NEW code \in Codes, JoinByCode(c, code) PROVE IInv'
    BY <2>1, <2>2, <2>6, BeginStep DEF JoinByCode
  <2>7. ASSUME NEW input \in Inputs, QuickPlay(c, input) PROVE IInv'
    <3>1. input \in Metas BY <2>3
    <3> QED BY <2>1, <2>7, <3>1, BeginStep DEF QuickPlay
  <2> QED BY <1>2, <2>4, <2>5, <2>6, <2>7 DEF Begins
<1>3. ASSUME NEW c \in Callers, Step(c) PROVE IInv'
  <2>1. CASE MatchCreate(c) BY <2>1, MatchCreateStep
  <2>2. CASE WriteTable(c) BY <2>2, WriteTableStep
  <2>3. CASE CreateDraws(c) BY <2>3, CreateDrawsStep
  <2>4. CASE EnsureFinds(c) BY <2>4, EnsureFindsStep
  <2>5. CASE FindsNone(c) BY <2>5, FindsNoneStep
  <2>6. CASE EnsureReturns(c) BY <2>6, EnsureReturnsStep
  <2>7. CASE JoinReads(c) BY <2>7, JoinReadsStep
  <2>8. CASE JoinLooks(c) BY <2>8, JoinLooksStep
  <2>9. CASE JoinChecks(c) BY <2>9, JoinChecksStep
  <2>10. CASE JoinFinds(c) BY <2>10, JoinFindsStep
  <2>11. CASE QuickLists(c) BY <2>11, QuickListsStep
  <2>12. CASE QuickScans(c) BY <2>12, QuickScansStep
  <2>13. CASE QuickChooses(c) BY <2>13, QuickChoosesStep
  <2>14. CASE QuickDraws(c) BY <2>14, QuickDrawsStep
  <2>15. CASE QuickKeepsOwn(c) BY <2>15, QuickKeepsOwnStep
  <2> QED
    BY <1>3, <2>1, <2>2, <2>3, <2>4, <2>5, <2>6, <2>7, <2>8, <2>9, <2>10, <2>11, <2>12,
       <2>13, <2>14, <2>15 DEF Step
<1>4. ASSUME NEW c \in Callers, CallLost(c) PROVE IInv' BY <1>4, CallLostStep
<1>5. ASSUME NEW m \in Matches, Checkpoint(m) PROVE IInv'
  <2>1. kept' \subseteq Codes BY <1>5 DEF Checkpoint, IInv, TypeOK
  <2> QED BY <1>5, <2>1, KeptStep DEF Checkpoint
<1>6. ASSUME NEW m \in Matches, MatchEnds(m) PROVE IInv' BY <1>6, MatchEndsStep
<1>7. ASSUME NEW code \in Codes, CheckpointExpires(code) PROVE IInv'
  <2>1. kept' \subseteq Codes BY <1>7 DEF CheckpointExpires, IInv, TypeOK
  <2> QED BY <1>7, <2>1, KeptStep DEF CheckpointExpires
<1> QED BY <1>1, <1>2, <1>3, <1>4, <1>5, <1>6, <1>7 DEF Next

\* The invariant holds in every state that the lobby reaches.
LEMMA LobbyInvariant == Spec => []IInv
BY InitIInv, NextIInv, PTL DEF Spec

\* Every variable keeps its type, and no more matches are created than there are: a call
\* begins only if one is left for it (the bound of the model, not of the code).
THEOREM LobbyTypeCorrect == Spec => []TypeOK
<1>1. IInv => TypeOK BY DEF IInv
<1> QED BY <1>1, LobbyInvariant, PTL

\* Whoever is sent to a match by rpcCreateTable, rpcJoinByCode, rpcQuickPlay or
\* ensurePdhMatch is sent to one made for the code that the answer names, and which had
\* not ended before the call began, whatever runs at the same time.
THEOREM AnswersStayTrue == Spec => []AnswersAreTrue
<1>1. IInv => AnswersAreTrue BY DEF IInv, Answered, AnswersAreTrue, MadeFor
<1> QED BY <1>1, LobbyInvariant, PTL

\* Once an undisturbed rpcJoinByCode was answered, no write of a slower call sends a later
\* player of the code to another match, until a match of the table ends.
THEOREM JoinersStayTogether == Spec => []JoinersMeet
<1>1. IInv => JoinersMeet BY DEF IInv, JoinersMeet
<1> QED BY <1>1, LobbyInvariant, PTL
=============================================================================
