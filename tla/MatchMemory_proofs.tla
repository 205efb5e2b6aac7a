------------------------ MODULE MatchMemory_proofs ------------------------
(***************************************************************************)
(* What a match remembers: theorems about MessageGate, for any number of   *)
(* tabs, sessions and messages, and about MatchCheckpoint, for any number  *)
(* of matches and versions.                                                *)
(***************************************************************************)
EXTENDS MatchCheckpoint, MessageGate, TLAPS

-----------------------------------------------------------------------------
(* The checkpoint.                                                          *)

\* A match that will be allowed to write in the place of a recent checkpoint has seen
\* that it is not newer.
Compared ==
    \A m \in Matches :
        pc[m] = "write" /\ expects[m] # 0 /\ expects[m] = saved.stamp /\ saved.recent
            => saved.version <= version[m]

\* While everything is in order there is one match, and before its first write there
\* is nothing that could be lost.
InTurn ==
    orderly =>
        /\ \A m, n \in Matches : Live(m) /\ Live(n) => m = n
        /\ ~saved.recent =>
              /\ saved.version = 0 /\ saved.content = {}
              /\ client.version = 0 /\ client.content = {}
              /\ \A m \in Matches : Live(m) => pc[m] \in {"read", "write"}

\* What a client shows is in storage, and what is in storage is in the match, which is
\* not behind it and has nothing else when it is about to show its state.
Durably ==
    orderly =>
        /\ client.content \subseteq saved.content
        /\ \A m \in Matches :
              /\ Live(m) => saved.version <= version[m] /\ saved.content \subseteq content[m]
              /\ pc[m] \in {"show", "idle"} => content[m] = saved.content

\* Versions are ahead of storage by what was not written, and what a match is about to
\* show is newer than what its client shows.
Ahead ==
    orderly /\ quiet <= 1 =>
        /\ client.version <= saved.version + quiet
        /\ \A m \in Matches :
              /\ Live(m) => client.version <= version[m]
              /\ pc[m] \in {"show", "idle"} => version[m] = saved.version + quiet
              /\ client.at = m /\ pc[m] \in {"read", "write", "show"} => client.version < version[m]

IInv == CheckpointTypeOK /\ Compared /\ InTurn /\ Durably /\ Ahead /\ ClientIsCurrent

-----------------------------------------------------------------------------
(* The invariant is inductive: one lemma for each action.                   *)

LEMMA InitIInv == CheckpointInit => IInv
  BY NoMatchAssumption, SMT
  DEF CheckpointInit, IInv, CheckpointTypeOK, Compared, InTurn, Durably, Ahead, ClientIsCurrent,
      Live, Contents, Changes

LEMMA RestoreStep == ASSUME IInv, NEW m \in Matches, Restore(m) PROVE IInv'
<1> USE DEF Restore, Begin, RestoredVersion, Alone
<1>1. CheckpointTypeOK'
  BY SMT DEF IInv, CheckpointTypeOK, Live
<1>2. Compared'
  BY SMT DEF IInv, Compared, CheckpointTypeOK
<1>3. InTurn'
  <2>1. orderly' => \A n \in Matches : n # m => ~Live(n)'
    BY DEF IInv, CheckpointTypeOK, Live
  <2>2. saved.recent'
    OBVIOUS
  <2> QED BY <2>1, <2>2 DEF InTurn
<1>4. Durably'
  BY SMT DEF IInv, Durably, InTurn, Live, CheckpointTypeOK
<1>5. Ahead'
  BY SMT DEF IInv, Ahead, InTurn, Durably, Live, CheckpointTypeOK
<1>6. ClientIsCurrent'
  BY SMT DEF IInv, ClientIsCurrent, Ahead, InTurn, Durably, Live, CheckpointTypeOK
<1> QED BY <1>1, <1>2, <1>3, <1>4, <1>5, <1>6 DEF IInv

LEMMA StartFreshStep == ASSUME IInv, NEW m \in Matches, StartFresh(m) PROVE IInv'
<1> USE DEF StartFresh, Begin, Alone
<1>1. CheckpointTypeOK'
  BY SMT DEF IInv, CheckpointTypeOK, Live, Contents
<1>2. Compared'
  BY SMT DEF IInv, Compared, CheckpointTypeOK
<1>3. InTurn'
  BY SMT DEF IInv, InTurn, Live, CheckpointTypeOK
<1>4. Durably'
  BY SMT DEF IInv, Durably, InTurn, Live, CheckpointTypeOK
<1>5. Ahead'
  BY SMT DEF IInv, Ahead, InTurn, Durably, Live, CheckpointTypeOK
<1>6. ClientIsCurrent'
  BY SMT DEF IInv, ClientIsCurrent, Ahead, InTurn, Durably, Live, CheckpointTypeOK
<1> QED BY <1>1, <1>2, <1>3, <1>4, <1>5, <1>6 DEF IInv

LEMMA StartUnreadStep == ASSUME IInv, NEW m \in Matches, StartUnread(m) PROVE IInv'
<1> USE DEF StartUnread, Begin
<1>1. CheckpointTypeOK'
  <2>1. orderly' \in BOOLEAN
    OBVIOUS
  <2>2. \A n \in Matches : (client.at = n => Live(n))' /\ (expects[n] <= saved.stamp)'
    BY SMT DEF IInv, CheckpointTypeOK, Live
  <2> QED BY <2>1, <2>2, SMT DEF IInv, CheckpointTypeOK, Contents
<1>2. Compared'
  BY SMT DEF IInv, Compared, CheckpointTypeOK
<1>3. InTurn'
  BY SMT DEF IInv, InTurn, Live, CheckpointTypeOK
<1>4. Durably'
  BY SMT DEF IInv, Durably, InTurn, Live, CheckpointTypeOK
<1>5. Ahead'
  BY SMT DEF IInv, Ahead, InTurn, Durably, Live, CheckpointTypeOK
<1>6. ClientIsCurrent'
  BY SMT DEF IInv, ClientIsCurrent, Ahead, InTurn, Durably, Live, CheckpointTypeOK
<1> QED BY <1>1, <1>2, <1>3, <1>4, <1>5, <1>6 DEF IInv

LEMMA PersistSkipsStep == ASSUME IInv, NEW m \in Matches, PersistSkips(m) PROVE IInv'
<1> USE DEF PersistSkips, Moves, NewerExists
<1>1. CheckpointTypeOK'
  BY SMT DEF IInv, CheckpointTypeOK, Live
<1>2. Compared'
  BY SMT DEF IInv, Compared, CheckpointTypeOK
<1>3. InTurn'
  BY SMT DEF IInv, InTurn, Live, CheckpointTypeOK
<1>4. Durably'
  BY SMT DEF IInv, Durably, InTurn, Live, CheckpointTypeOK
<1>5. Ahead'
  BY SMT DEF IInv, Ahead, InTurn, Durably, Live, CheckpointTypeOK
<1>6. ClientIsCurrent'
  BY SMT DEF IInv, ClientIsCurrent, Ahead, InTurn, Durably, Live, CheckpointTypeOK
<1> QED BY <1>1, <1>2, <1>3, <1>4, <1>5, <1>6 DEF IInv

LEMMA PersistReadStep == ASSUME IInv, NEW m \in Matches, PersistRead(m) PROVE IInv'
<1> USE DEF PersistRead, Moves, NewerExists
<1>1. CheckpointTypeOK'
  BY SMT DEF IInv, CheckpointTypeOK, Live
<1>2. Compared'
  BY SMT DEF IInv, Compared, CheckpointTypeOK
<1>3. InTurn'
  BY SMT DEF IInv, InTurn, Live, CheckpointTypeOK
<1>4. Durably'
  BY SMT DEF IInv, Durably, InTurn, Live, CheckpointTypeOK
<1>5. Ahead'
  BY SMT DEF IInv, Ahead, InTurn, Durably, Live, CheckpointTypeOK
<1>6. ClientIsCurrent'
  BY SMT DEF IInv, ClientIsCurrent, Ahead, InTurn, Durably, Live, CheckpointTypeOK
<1> QED BY <1>1, <1>2, <1>3, <1>4, <1>5, <1>6 DEF IInv

LEMMA PersistWriteStep == ASSUME IInv, NEW m \in Matches, PersistWrite(m) PROVE IInv'
<1> USE DEF PersistWrite, Moves, Accepted
<1>1. CheckpointTypeOK'
  BY SMT DEF IInv, CheckpointTypeOK, Live
<1>2. Compared'
  BY SMT DEF IInv, Compared, CheckpointTypeOK
<1>3. InTurn'
  BY SMT DEF IInv, InTurn, Live, CheckpointTypeOK
<1>4. Durably'
  BY SMT DEF IInv, Durably, InTurn, Live, CheckpointTypeOK
<1>5. Ahead'
  BY SMT DEF IInv, Ahead, InTurn, Durably, Live, CheckpointTypeOK
<1>6. ClientIsCurrent'
  BY SMT DEF IInv, ClientIsCurrent, Ahead, InTurn, Durably, Live, CheckpointTypeOK
<1> QED BY <1>1, <1>2, <1>3, <1>4, <1>5, <1>6 DEF IInv

LEMMA PersistFailsStep == ASSUME IInv, NEW m \in Matches, PersistFails(m) PROVE IInv'
<1> USE DEF PersistFails, Moves
<1>1. CheckpointTypeOK'
  <2>1. orderly' \in BOOLEAN
    OBVIOUS
  <2>2. \A n \in Matches : (client.at = n => Live(n))' /\ (expects[n] <= saved.stamp)'
    BY SMT DEF IInv, CheckpointTypeOK, Live
  <2> QED BY <2>1, <2>2, SMT DEF IInv, CheckpointTypeOK
<1>2. Compared'
  BY SMT DEF IInv, Compared, CheckpointTypeOK
<1>3. InTurn'
  BY SMT DEF IInv, InTurn, Live, CheckpointTypeOK
<1>4. Durably'
  BY SMT DEF IInv, Durably, InTurn, Live, CheckpointTypeOK
<1>5. Ahead'
  BY SMT DEF IInv, Ahead, InTurn, Durably, Live, CheckpointTypeOK
<1>6. ClientIsCurrent'
  BY SMT DEF IInv, ClientIsCurrent, Ahead, InTurn, Durably, Live, CheckpointTypeOK
<1> QED BY <1>1, <1>2, <1>3, <1>4, <1>5, <1>6 DEF IInv

LEMMA ChangeStep == ASSUME IInv, NEW m \in Matches, Change(m) PROVE IInv'
<1> USE DEF Change, Moves
<1>1. CheckpointTypeOK'
  BY SMT DEF IInv, CheckpointTypeOK, Contents, Changes, Live
<1>2. Compared'
  BY SMT DEF IInv, Compared, CheckpointTypeOK
<1>3. InTurn'
  BY SMT DEF IInv, InTurn, Live, CheckpointTypeOK
<1>4. Durably'
  BY SMT DEF IInv, Durably, InTurn, Live, CheckpointTypeOK
<1>5. Ahead'
  BY SMT DEF IInv, Ahead, InTurn, Durably, Live, CheckpointTypeOK
<1>6. ClientIsCurrent'
  BY SMT DEF IInv, ClientIsCurrent, Ahead, InTurn, Durably, Live, CheckpointTypeOK
<1> QED BY <1>1, <1>2, <1>3, <1>4, <1>5, <1>6 DEF IInv

LEMMA ClientJoinsStep == ASSUME IInv, NEW m \in Matches, ClientJoins(m) PROVE IInv'
<1> USE DEF ClientJoins, Moves
<1>1. CheckpointTypeOK'
  BY SMT DEF IInv, CheckpointTypeOK, Contents, Changes, Live
<1>2. Compared'
  BY SMT DEF IInv, Compared, CheckpointTypeOK
<1>3. InTurn'
  BY SMT DEF IInv, InTurn, Live, CheckpointTypeOK
<1>4. Durably'
  BY SMT DEF IInv, Durably, InTurn, Live, CheckpointTypeOK
<1>5. Ahead'
  BY SMT DEF IInv, Ahead, InTurn, Durably, Live, CheckpointTypeOK
<1>6. ClientIsCurrent'
  BY SMT DEF IInv, ClientIsCurrent, Ahead, InTurn, Durably, Live, CheckpointTypeOK
<1> QED BY <1>1, <1>2, <1>3, <1>4, <1>5, <1>6 DEF IInv

LEMMA QuietRenewalStep == ASSUME IInv, NEW m \in Matches, QuietRenewal(m) PROVE IInv'
<1> USE DEF QuietRenewal, Moves
<1>1. CheckpointTypeOK'
  BY SMT DEF IInv, CheckpointTypeOK, Live
<1>2. Compared'
  BY SMT DEF IInv, Compared, CheckpointTypeOK
<1>3. InTurn'
  BY SMT DEF IInv, InTurn, Live, CheckpointTypeOK
<1>4. Durably'
  BY SMT DEF IInv, Durably, InTurn, Live, CheckpointTypeOK
<1>5. Ahead'
  BY SMT DEF IInv, Ahead, InTurn, Durably, Live, CheckpointTypeOK
<1>6. ClientIsCurrent'
  BY SMT DEF IInv, ClientIsCurrent, Ahead, InTurn, Durably, Live, CheckpointTypeOK
<1> QED BY <1>1, <1>2, <1>3, <1>4, <1>5, <1>6 DEF IInv

LEMMA ShowStep == ASSUME IInv, NEW m \in Matches, Show(m) PROVE IInv'
<1> USE DEF Show, Moves, Applies
<1>1. CheckpointTypeOK'
  BY SMT DEF IInv, CheckpointTypeOK, Live
<1>2. Compared'
  BY SMT DEF IInv, Compared, CheckpointTypeOK
<1>3. InTurn'
  BY SMT DEF IInv, InTurn, Live, CheckpointTypeOK
<1>4. Durably'
  BY SMT DEF IInv, Durably, InTurn, Live, CheckpointTypeOK
<1>5. Ahead'
  BY SMT DEF IInv, Ahead, InTurn, Durably, Live, CheckpointTypeOK
<1>6. ClientIsCurrent'
  BY SMT DEF IInv, ClientIsCurrent, Ahead, InTurn, Durably, Live, CheckpointTypeOK
<1> QED BY <1>1, <1>2, <1>3, <1>4, <1>5, <1>6 DEF IInv

LEMMA DieStep == ASSUME IInv, NEW m \in Matches, Die(m) PROVE IInv'
<1> USE DEF Die, Moves
<1>1. CheckpointTypeOK'
  BY NoMatchAssumption, SMT DEF IInv, CheckpointTypeOK, Contents, Changes, Live
<1>2. Compared'
  BY SMT DEF IInv, Compared, CheckpointTypeOK
<1>3. InTurn'
  BY SMT DEF IInv, InTurn, Live, CheckpointTypeOK
<1>4. Durably'
  BY SMT DEF IInv, Durably, InTurn, Live, CheckpointTypeOK
<1>5. Ahead'
  BY SMT DEF IInv, Ahead, InTurn, Durably, Live, CheckpointTypeOK
<1>6. ClientIsCurrent'
  BY SMT DEF IInv, ClientIsCurrent, Ahead, InTurn, Durably, Live, CheckpointTypeOK
<1> QED BY <1>1, <1>2, <1>3, <1>4, <1>5, <1>6 DEF IInv

LEMMA ExpireStep == ASSUME IInv, Expire PROVE IInv'
<1>1. CheckpointTypeOK'
  <2>1. orderly' \in BOOLEAN
    BY DEF Expire
  <2>2. \A n \in Matches : (client.at = n => Live(n))' /\ (expects[n] <= saved.stamp)'
    BY SMT DEF IInv, CheckpointTypeOK, Live, Expire
  <2>3. saved' \in [stamp : Nat, recent : BOOLEAN, version : Nat, content : Contents]
    BY DEF IInv, CheckpointTypeOK, Expire
  <2> QED BY <2>1, <2>2, <2>3 DEF IInv, CheckpointTypeOK, Expire, Live
<1>2. Compared'
  BY SMT DEF IInv, Compared, CheckpointTypeOK, Expire
<1>3. InTurn' /\ Durably' /\ Ahead' /\ ClientIsCurrent'
  BY DEF Expire, InTurn, Durably, Ahead, ClientIsCurrent
<1> QED BY <1>1, <1>2, <1>3 DEF IInv

LEMMA NextIInv == IInv /\ [CheckpointNext]_checkpointVars => IInv'
<1> SUFFICES ASSUME IInv, [CheckpointNext]_checkpointVars PROVE IInv'
  OBVIOUS
<1>1. CASE Expire
  BY <1>1, ExpireStep
<1>2. ASSUME NEW m \in Matches, MatchStep(m) PROVE IInv'
  BY <1>2, RestoreStep, StartFreshStep, StartUnreadStep, PersistSkipsStep, PersistReadStep,
     PersistWriteStep, PersistFailsStep, ChangeStep, ClientJoinsStep, QuietRenewalStep,
     ShowStep, DieStep DEF MatchStep
<1>3. CASE UNCHANGED checkpointVars
  BY <1>3 DEF checkpointVars, IInv, CheckpointTypeOK, Compared, InTurn, Durably, Ahead,
              ClientIsCurrent, Live
<1> QED BY <1>1, <1>2, <1>3 DEF CheckpointNext

-----------------------------------------------------------------------------
(* The theorems.                                                            *)

\* What the properties below follow from holds in every state, whatever matches there
\* are and wherever they are in reading, writing and showing.
THEOREM Invariant == CheckpointSpec => []IInv
  BY InitIInv, NextIInv, PTL DEF CheckpointSpec

\* Every variable keeps its type, nobody is joined to a match that has ended, and no
\* match has read an object that was not yet written (matchInit, persistCheckpoint).
THEOREM CheckpointTypeCorrect == CheckpointSpec => []CheckpointTypeOK
  BY Invariant, PTL DEF IInv

\* While storage works and matches follow one another, what a client was shown is in
\* the table of every later match (persistCheckpoint before broadcastState).
THEOREM Durability == CheckpointSpec => []NothingShownIsLost
<1>1. IInv => NothingShownIsLost
  BY DEF IInv, Durably, NothingShownIsLost
<1> QED BY <1>1, Invariant, PTL

\* A client that keeps its page open over restarts is not locked out by its version
\* gate (recoverFromCheckpoint, shouldApplyStateSnapshot).
THEOREM Currency == CheckpointSpec => []ClientIsCurrent
  BY Invariant, PTL DEF IInv

LEMMA StoredMovesOnStep ==
    ASSUME IInv, [CheckpointNext]_checkpointVars, NEW m \in Matches,
           pc[m] = "write", expects[m] # 0, saved.recent, saved' # saved, pc'[m] = "show"
    PROVE saved'.version >= saved.version
<1>1. ASSUME NEW n \in Matches, PersistWrite(n) PROVE saved'.version >= saved.version
  <2>1. n = m
    BY <1>1, SMT DEF PersistWrite, Moves, IInv, CheckpointTypeOK
  <2> QED BY <1>1, <2>1, SMT DEF PersistWrite, Accepted, IInv, CheckpointTypeOK, Compared
<1>2. CASE Expire
  BY <1>2 DEF Expire
<1>3. ASSUME NEW n \in Matches, MatchStep(n), ~PersistWrite(n) PROVE saved' = saved
  BY <1>3 DEF MatchStep, Restore, StartFresh, StartUnread, Begin, PersistSkips, PersistRead,
     PersistFails, Change, ClientJoins, QuietRenewal, Show, Die
<1>4. CASE UNCHANGED checkpointVars
  BY <1>4 DEF checkpointVars
<1> QED BY <1>1, <1>2, <1>3, <1>4 DEF CheckpointNext

\* A conditional write never puts an older state in the place of a recent checkpoint,
\* however many matches write (persistCheckpoint).
THEOREM ConditionalWritesMoveOn == CheckpointSpec => StoredMovesOn
<1>1. IInv /\ [CheckpointNext]_checkpointVars =>
        [ \A m \in Matches :
            pc[m] = "write" /\ expects[m] # 0 /\ saved.recent /\ saved' # saved /\ pc'[m] = "show"
                => saved'.version >= saved.version ]_checkpointVars
  BY StoredMovesOnStep
<1> QED BY <1>1, Invariant, PTL DEF CheckpointSpec, StoredMovesOn

-----------------------------------------------------------------------------
(* The numbers of messages.                                                 *)

USE DEF Sessions, Messages

-----------------------------------------------------------------------------
(* Sequences.                                                               *)

\* What Append makes of a sequence.
LEMMA AppendFacts ==
    ASSUME NEW S, NEW q \in Seq(S), NEW e \in S
    PROVE /\ Append(q, e) \in Seq(S)
          /\ Len(q) \in Nat
          /\ Len(Append(q, e)) = Len(q) + 1
          /\ \A i \in 1..Len(q) : Append(q, e)[i] = q[i]
          /\ Append(q, e)[Len(q) + 1] = e
  OBVIOUS

\* What Head and Tail take from it.
LEMMA TailFacts ==
    ASSUME NEW S, NEW q \in Seq(S), q # <<>>
    PROVE /\ Head(q) \in S /\ Tail(q) \in Seq(S)
          /\ Len(q) \in Nat \ {0}
          /\ Len(Tail(q)) = Len(q) - 1
          /\ Head(q) = q[1]
          /\ \A i \in 1..Len(Tail(q)) : Tail(q)[i] = q[i + 1]
  OBVIOUS

LEMMA EmptyFacts == ASSUME NEW S PROVE <<>> \in Seq(S) /\ Len(<<>>) = 0
  OBVIOUS

-----------------------------------------------------------------------------
(* No message is applied twice.                                             *)

\* What was accepted from a session that is still present is not above the last number,
\* and nothing has arrived from a session that has not joined yet.
Counted ==
    /\ ~replayed
    /\ \A m \in accepted : m[1] \in open => m[2] <= last
    /\ \A m \in arrived : session[m[1]] \in {"joined", "left"}

GateInv == TypeOK /\ Counted

LEMMA InitGateInv == Init => GateInv
<1> SUFFICES ASSUME Init PROVE GateInv
  OBVIOUS
<1>1. <<>> \in Seq(1..MaxSeq)
  BY EmptyFacts
<1>2. tab \in [Tabs -> [session : 0..MaxSession, next : 1..(MaxSeq + 1)]]
  BY BoundsAssumption, SMT DEF Init
<1>3. wire \in [Sessions -> Seq(1..MaxSeq)]
  BY <1>1 DEF Init
<1>4. last \in 0..MaxSeq /\ kept \in 0..MaxSeq /\ stored \in 0..(MaxSeq + 1)
  BY BoundsAssumption, SMT DEF Init
<1>5. open = {s \in Sessions : session[s] = "joined"}
  BY DEF Init
<1> QED BY <1>2, <1>3, <1>4, <1>5 DEF Init, GateInv, TypeOK, Counted

LEMMA LoadGate == ASSUME GateInv, NEW t \in Tabs, NEW s \in Sessions, Load(t, s) PROVE GateInv'
<1> USE BoundsAssumption DEF Load, FirstNumber, Loaded, serverVars, clientVars, history
<1>1. TypeOK'
  BY SMT DEF GateInv, TypeOK
<1>2. Counted'
  BY SMT DEF GateInv, TypeOK, Counted
<1> QED BY <1>1, <1>2 DEF GateInv

LEMMA SendGate == ASSUME GateInv, NEW t \in Tabs, Send(t) PROVE GateInv'
<1> USE BoundsAssumption DEF Send, Loaded, serverVars, clientVars, history
<1>1. TypeOK'
  <2>1. tab[t].session \in Sessions /\ tab[t].next \in 1..MaxSeq
    BY SMT DEF GateInv, TypeOK
  <2>2. Append(wire[tab[t].session], tab[t].next) \in Seq(1..MaxSeq)
    BY <2>1, AppendFacts DEF GateInv, TypeOK
  <2>3. wire' \in [Sessions -> Seq(1..MaxSeq)]
    BY <2>1, <2>2 DEF GateInv, TypeOK
  <2>4. tab' \in [Tabs -> [session : 0..MaxSession, next : 1..(MaxSeq + 1)]]
    BY <2>1, SMT DEF GateInv, TypeOK
  <2>5. stored' \in 0..(MaxSeq + 1)
    BY <2>1, SMT
  <2> QED BY <2>3, <2>4, <2>5 DEF GateInv, TypeOK
<1>2. Counted'
  BY SMT DEF GateInv, TypeOK, Counted
<1> QED BY <1>1, <1>2 DEF GateInv

LEMMA CloseGate == ASSUME GateInv, NEW t \in Tabs, Close(t) PROVE GateInv'
<1> USE BoundsAssumption DEF Close, Loaded, serverVars, clientVars, history
<1>1. TypeOK'
  <2>1. <<>> \in Seq(1..MaxSeq)
    BY EmptyFacts
  <2>2. wire' \in [Sessions -> Seq(1..MaxSeq)]
    BY <2>1 DEF GateInv, TypeOK
  <2>3. tab' \in [Tabs -> [session : 0..MaxSession, next : 1..(MaxSeq + 1)]]
    <3>1. 0 \in 0..MaxSession
      BY SMT
    <3>2. tab' = [tab EXCEPT ![t].session = 0]
      OBVIOUS
    <3> HIDE DEF Close
    <3> QED BY <3>1, <3>2 DEF GateInv, TypeOK
  <2>4. /\ session' \in [Sessions -> {"unused", "connecting", "joined", "left"}]
        /\ open' = {s \in Sessions : session'[s] = "joined"}
    BY DEF GateInv, TypeOK
  <2> QED BY <2>2, <2>3, <2>4 DEF GateInv, TypeOK
<1>2. Counted'
  BY SMT DEF GateInv, TypeOK, Counted
<1> QED BY <1>1, <1>2 DEF GateInv

LEMMA JoinsGate == ASSUME GateInv, NEW s \in Sessions, Joins(s) PROVE GateInv'
<1> USE BoundsAssumption DEF Joins, serverVars, clientVars, history
<1>1. TypeOK'
  BY SMT DEF GateInv, TypeOK
<1>2. Counted'
  BY SMT DEF GateInv, TypeOK, Counted
<1> QED BY <1>1, <1>2 DEF GateInv

LEMMA LeavesGate == ASSUME GateInv, NEW s \in Sessions, Leaves(s) PROVE GateInv'
<1> USE BoundsAssumption DEF Leaves, serverVars, clientVars, history
<1>1. TypeOK'
  BY SMT DEF GateInv, TypeOK
<1>2. Counted'
  BY SMT DEF GateInv, TypeOK, Counted
<1> QED BY <1>1, <1>2 DEF GateInv

LEMMA DeliverGate == ASSUME GateInv, NEW s \in Sessions, Deliver(s) PROVE GateInv'
<1> USE BoundsAssumption DEF Deliver, Receive, Bound, Fresh, RefusesOwn, serverVars, clientVars,
            history
<1>1. TypeOK'
  <2>1. Head(wire[s]) \in 1..MaxSeq /\ Tail(wire[s]) \in Seq(1..MaxSeq)
    BY TailFacts DEF GateInv, TypeOK
  <2>2. wire' \in [Sessions -> Seq(1..MaxSeq)]
    BY <2>1 DEF GateInv, TypeOK
  <2>3. last' \in 0..MaxSeq
    BY <2>1, SMT DEF GateInv, TypeOK
  <2>4. arrived' \subseteq Messages /\ accepted' \subseteq arrived'
    BY <2>1 DEF GateInv, TypeOK
  <2>5. replayed' \in BOOLEAN /\ refused' \in BOOLEAN
    OBVIOUS
  <2> QED BY <2>2, <2>3, <2>4, <2>5 DEF GateInv, TypeOK
<1>2. Counted'
  BY SMTT(40) DEF GateInv, TypeOK, Counted
<1> QED BY <1>1, <1>2 DEF GateInv

LEMMA RepeatGate == ASSUME GateInv, NEW s \in Sessions, NEW n \in 1..MaxSeq, Repeat(s, n) PROVE GateInv'
<1> USE BoundsAssumption DEF Repeat, Receive, Bound, Fresh, RefusesOwn, serverVars, clientVars,
            history
<1>1. TypeOK'
  <2>1. last' \in 0..MaxSeq
    BY SMT DEF GateInv, TypeOK
  <2>2. accepted' \subseteq arrived
    BY DEF GateInv, TypeOK
  <2>3. replayed' \in BOOLEAN /\ refused' \in BOOLEAN
    OBVIOUS
  <2> QED BY <2>1, <2>2, <2>3 DEF GateInv, TypeOK
<1>2. Counted'
  BY SMT DEF GateInv, TypeOK, Counted
<1> QED BY <1>1, <1>2 DEF GateInv

LEMMA ReleaseGate == ASSUME GateInv, Release PROVE GateInv'
<1> USE BoundsAssumption DEF Release, serverVars, clientVars, history
<1>1. TypeOK'
  BY SMT DEF GateInv, TypeOK
<1>2. Counted'
  BY SMT DEF GateInv, TypeOK, Counted
<1> QED BY <1>1, <1>2 DEF GateInv

LEMMA CheckpointGate == ASSUME GateInv, Checkpoint PROVE GateInv'
<1> USE BoundsAssumption DEF Checkpoint, serverVars, clientVars, history
<1>1. TypeOK'
  BY SMT DEF GateInv, TypeOK
<1>2. Counted'
  BY SMT DEF GateInv, TypeOK, Counted
<1> QED BY <1>1, <1>2 DEF GateInv

LEMMA RestartGate == ASSUME GateInv, Restart PROVE GateInv'
<1> USE BoundsAssumption DEF Restart, serverVars, clientVars, history
<1>1. TypeOK'
  BY SMT DEF GateInv, TypeOK
<1>2. Counted'
  BY SMT DEF GateInv, TypeOK, Counted
<1> QED BY <1>1, <1>2 DEF GateInv

LEMMA NextGateInv == GateInv /\ [Next]_vars => GateInv'
<1> SUFFICES ASSUME GateInv, [Next]_vars PROVE GateInv'
  OBVIOUS
<1>1. ASSUME NEW t \in Tabs, (\E s \in Sessions : Load(t, s)) \/ Send(t) \/ Close(t) PROVE GateInv'
  BY <1>1, LoadGate, SendGate, CloseGate
<1>2. ASSUME NEW s \in Sessions, Joins(s) \/ Leaves(s) \/ Deliver(s) PROVE GateInv'
  BY <1>2, JoinsGate, LeavesGate, DeliverGate
<1>3. ASSUME NEW m \in Messages, Repeat(m[1], m[2]) PROVE GateInv'
  BY <1>3, RepeatGate
<1>4. CASE Release \/ Checkpoint \/ Restart
  BY <1>4, ReleaseGate, CheckpointGate, RestartGate
<1>5. CASE UNCHANGED vars
  BY <1>5 DEF vars, serverVars, clientVars, history, GateInv, TypeOK, Counted
<1> QED BY <1>1, <1>2, <1>3, <1>4, <1>5 DEF Next

\* The invariant of the gate: accepted numbers of a present player are not above the last.
THEOREM GateInvariant == Spec => []GateInv
  BY InitGateInv, NextGateInv, PTL DEF Spec

\* The presences are the sessions that have joined and not left, and numbers stay in
\* their bounds (upsertPresence, removePresence, reserveSequence).
THEOREM TypeCorrect == Spec => []TypeOK
  BY GateInvariant, PTL DEF GateInv

\* No message is let through twice, though the last number is forgotten when the seat is
\* released (releaseExpiredDisconnectedSeats) and set back by a restart.
THEOREM NoReplay == Spec => []NothingIsReplayed
<1>1. GateInv => NothingIsReplayed
  BY DEF GateInv, Counted, NothingIsReplayed
<1> QED BY <1>1, GateInvariant, PTL

\* The last number never falls while the player stays present (reserveSequence).
THEOREM NumbersRise == Spec => NumbersOnlyRise
<1>1. GateInv /\ [Next]_vars => [open \cap open' # {} => last' >= last]_vars
  <2> SUFFICES ASSUME GateInv, [Next]_vars, open \cap open' # {} PROVE last' >= last
    OBVIOUS
  <2> USE DEF GateInv, TypeOK
  <2>1. ASSUME NEW s \in Sessions, Deliver(s) PROVE last' >= last
    <3>1. Head(wire[s]) \in 1..MaxSeq
      BY <2>1, TailFacts DEF Deliver
    <3> QED BY <2>1, <3>1, SMT DEF Deliver, Receive, Fresh, Bound
  <2>2. ASSUME NEW m \in Messages, Repeat(m[1], m[2]) PROVE last' >= last
    BY <2>2, SMT DEF Repeat, Receive, Fresh, Bound
  <2>3. CASE Release \/ Restart
    BY <2>3 DEF Release, Restart
  <2>4. CASE UNCHANGED last
    BY <2>4, SMT
  <2> QED BY <2>1, <2>2, <2>3, <2>4
          DEF Next, Load, Send, Close, Joins, Leaves, Checkpoint, vars, serverVars
<1> QED BY <1>1, GateInvariant, PTL DEF Spec, NumbersOnlyRise

-----------------------------------------------------------------------------
(* A player with one tab at a time.                                         *)

\* A session that was never used has sent nothing, and the session of a tab is used.
Used ==
    /\ \A s \in Sessions : session[s] = "unused" => wire[s] = <<>>
    /\ \A t \in Tabs : Loaded(t) => session[tab[t].session] # "unused"

\* There is one tab, and it counts with what is in localStorage.
OneCounter ==
    alone => /\ \A t, u \in Tabs : Loaded(t) /\ Loaded(u) => t = u
             /\ \A t \in Tabs : Loaded(t) => tab[t].next = FirstNumber

\* The next number has never been used.
Below ==
    alone => /\ last < FirstNumber /\ kept < FirstNumber
             /\ \A m \in arrived : m[2] < FirstNumber
             /\ \A s \in Sessions : \A i \in 1..Len(wire[s]) : wire[s][i] < FirstNumber

\* The number n, which session c has still to deliver at place i, is ahead of all that
\* the match has seen, of what other sessions may still deliver, and of what comes before.
IsAhead(c, i, n) ==
    /\ last < n /\ kept < n
    /\ \A m \in arrived : m[2] < n
    /\ \A s \in Sessions \ {c} : \A j \in 1..Len(wire[s]) : wire[s][j] < n
    /\ \A j \in 1..(i - 1) : wire[c][j] < n

Leads ==
    alone => \A t \in Tabs : Loaded(t) =>
                \A i \in 1..Len(wire[tab[t].session]) :
                    IsAhead(tab[t].session, i, wire[tab[t].session][i])

OwnInv == GateInv /\ Used /\ OneCounter /\ Below /\ Leads /\ OwnNumbersAreFresh

\* What a sequence holds.
LEMMA ElementFacts ==
    ASSUME NEW S, NEW q \in Seq(S)
    PROVE Len(q) \in Nat /\ \A i \in 1..Len(q) : q[i] \in S
  OBVIOUS

\* What a session has on the wire are numbers.
LEMMA WireNumbers ==
    ASSUME TypeOK, NEW s \in Sessions
    PROVE /\ Len(wire[s]) \in Nat
          /\ \A i \in 1..Len(wire[s]) : wire[s][i] \in 1..MaxSeq
<1>1. wire[s] \in Seq(1..MaxSeq)
  BY DEF TypeOK
<1> QED BY <1>1, ElementFacts

\* A tab that is loaded has a session.
LEMMA TabSession ==
    ASSUME TypeOK, NEW t \in Tabs, Loaded(t) PROVE tab[t].session \in Sessions
  BY BoundsAssumption, SMT DEF TypeOK, Loaded

LEMMA InitOwnInv == Init => OwnInv
<1> SUFFICES ASSUME Init PROVE OwnInv
  OBVIOUS
<1>1. \A s \in Sessions : wire[s] = <<>> /\ Len(wire[s]) = 0
  BY EmptyFacts DEF Init
<1>2. Below /\ Leads
  BY <1>1, BoundsAssumption, SMT DEF Init, Below, Leads, FirstNumber, Loaded
<1> QED BY <1>1, <1>2, InitGateInv DEF Init, OwnInv, Used, OneCounter, OwnNumbersAreFresh, Loaded

\* What is on the wire stays ahead if only the last numbers change, and to numbers that
\* were seen before.
LEMMA AheadKept ==
    ASSUME OwnInv, UNCHANGED <<wire, tab, arrived, alone>>,
           \A x \in 1..MaxSeq :
               last < x /\ kept < x /\ (\A m \in arrived : m[2] < x) => last' < x /\ kept' < x
    PROVE Leads'
<1> SUFFICES ASSUME alone', NEW t \in Tabs, Loaded(t)',
                    NEW i \in 1..Len(wire'[tab'[t].session])
             PROVE IsAhead(tab[t].session, i, wire[tab[t].session][i])'
  BY DEF Leads
<1> DEFINE c == tab[t].session
           x == wire[c][i]
<1>1. IsAhead(c, i, x)
  BY DEF OwnInv, Leads, Loaded
<1>2. x \in 1..MaxSeq
  <2>1. Loaded(t) /\ i \in 1..Len(wire[c])
    BY DEF Loaded
  <2>2. TypeOK
    BY DEF OwnInv, GateInv
  <2>3. c \in Sessions
    BY <2>1, <2>2, TabSession
  <2> HIDE DEF c
  <2> QED BY <2>1, <2>2, <2>3, WireNumbers
<1>3. last' < x /\ kept' < x
  BY <1>1, <1>2 DEF IsAhead
<1> QED BY <1>1, <1>3 DEF IsAhead

LEMMA LoadOwn == ASSUME OwnInv, NEW t \in Tabs, NEW s \in Sessions, Load(t, s) PROVE OwnInv'
<1> USE BoundsAssumption DEF Load, FirstNumber, Loaded, serverVars, clientVars, history, OwnInv
<1>1. GateInv'
  BY LoadGate
<1>2. Used'
  <2>1. \A r \in Sessions : session'[r] = "unused" => session[r] = "unused"
    BY DEF GateInv, TypeOK
  <2>2. \A u \in Tabs : u # t => tab'[u] = tab[u]
    BY DEF GateInv, TypeOK
  <2>3. tab'[t].session = s /\ session'[s] = "connecting"
    BY DEF GateInv, TypeOK
  <2>4. \A u \in Tabs : u # t /\ Loaded(u) => session'[tab[u].session] # "unused"
    <3> SUFFICES ASSUME NEW u \in Tabs, u # t, Loaded(u)
                 PROVE session'[tab[u].session] # "unused"
      OBVIOUS
    <3>1. tab[u].session \in Sessions /\ session[tab[u].session] # "unused"
      BY TabSession DEF GateInv, Used
    <3> QED BY <3>1, <2>1
  <2>5. wire' = wire
    OBVIOUS
  <2> HIDE DEF Load
  <2> QED BY <2>1, <2>2, <2>3, <2>4, <2>5 DEF Used, Loaded
<1>3. OneCounter'
  <2> SUFFICES ASSUME alone' PROVE OneCounter'
    BY DEF OneCounter
  <2>1. \A u \in Tabs \ {t} : ~Loaded(u)' /\ tab'[u] = tab[u]
    BY DEF Loaded, GateInv, TypeOK
  <2>2. tab'[t].next = FirstNumber'
    BY DEF GateInv, TypeOK, FirstNumber
  <2> QED BY <2>1, <2>2 DEF OneCounter
<1>4. Below'
  BY SMT DEF GateInv, TypeOK, Below, FirstNumber, OneCounter, Loaded
<1>5. Leads'
  <2> SUFFICES ASSUME alone' PROVE Leads'
    BY DEF Leads
  <2>1. \A u \in Tabs \ {t} : ~Loaded(u)'
    BY DEF Loaded, GateInv, TypeOK
  <2>2. tab'[t].session = s
    BY DEF GateInv, TypeOK
  <2>3. Len(wire'[s]) = 0
    BY EmptyFacts DEF Used
  <2> QED BY <2>1, <2>2, <2>3, SMT DEF Leads
<1>6. OwnNumbersAreFresh'
  BY SMT DEF GateInv, TypeOK, OwnNumbersAreFresh, Leads, IsAhead, Loaded
<1> QED BY <1>1, <1>2, <1>3, <1>4, <1>5, <1>6

LEMMA SendOwn == ASSUME OwnInv, NEW t \in Tabs, Send(t) PROVE OwnInv'
<1> USE BoundsAssumption
<1> DEFINE c == tab[t].session
           n == tab[t].next
<1>1. GateInv'
  BY SendGate DEF OwnInv
<1>2. /\ c \in Sessions /\ n \in 1..MaxSeq
      /\ tab' = [tab EXCEPT ![t].next = n + 1] /\ stored' = n + 1
      /\ UNCHANGED <<last, kept, arrived, session, alone, refused>>
  BY SMT DEF Send, OwnInv, GateInv, TypeOK, Loaded, serverVars, history
<1>3. /\ \A u \in Tabs : tab'[u].session = tab[u].session
      /\ tab'[t].next = n + 1
  BY <1>2 DEF OwnInv, GateInv, TypeOK
<1>4. Loaded(t) /\ (session[c] = "unused" => FALSE)
  BY DEF Send, OwnInv, Used
<1>5. /\ \A r \in Sessions \ {c} : wire'[r] = wire[r]
      /\ wire'[c] = wire[c] \/ wire'[c] = Append(wire[c], n)
  BY DEF Send, OwnInv, GateInv, TypeOK
<1>6. /\ Len(wire[c]) \in Nat
      /\ Len(wire'[c]) \in {Len(wire[c]), Len(wire[c]) + 1}
      /\ \A i \in 1..Len(wire[c]) : wire'[c][i] = wire[c][i]
      /\ \A i \in 1..Len(wire'[c]) : i \notin 1..Len(wire[c]) => i = Len(wire[c]) + 1 /\ wire'[c][i] = n
  <2>1. wire[c] \in Seq(1..MaxSeq)
    BY <1>2 DEF OwnInv, GateInv, TypeOK
  <2>2. Len(wire[c]) \in Nat
    BY <2>1
  <2>3. CASE wire'[c] = wire[c]
    BY <2>2, <2>3
  <2>4. CASE wire'[c] = Append(wire[c], n)
    <3>1. Append(wire[c], n)[Len(wire[c]) + 1] = n /\ Len(wire'[c]) = Len(wire[c]) + 1
          /\ \A i \in 1..Len(wire[c]) : wire'[c][i] = wire[c][i]
      BY <1>2, <2>1, <2>4, AppendFacts
    <3>2. \A i \in 1..Len(wire'[c]) : i \notin 1..Len(wire[c]) => i = Len(wire[c]) + 1
      BY <2>2, <3>1, SMT
    <3> QED BY <2>2, <2>4, <3>1, <3>2
  <2> QED BY <1>5, <2>3, <2>4
<1> HIDE DEF c, n
<1>7. Used'
  BY <1>2, <1>3, <1>4, <1>5 DEF OwnInv, Used, Loaded
<1>8. alone => /\ \A u \in Tabs : Loaded(u) => u = t
               /\ n = FirstNumber /\ FirstNumber' = n + 1
  BY <1>2, <1>4, SMT DEF OwnInv, OneCounter, FirstNumber, n
<1>9. OneCounter'
  BY <1>2, <1>3, <1>8 DEF OwnInv, OneCounter, Loaded
<1>10. Below'
  <2> SUFFICES ASSUME alone' PROVE Below'
    BY DEF Below
  <2>1. alone /\ Below /\ n = FirstNumber /\ FirstNumber' = n + 1
    BY <1>2, <1>8 DEF OwnInv
  <2>2. last \in Nat /\ kept \in Nat /\ (\A m \in arrived : m[2] \in Nat)
        /\ \A r \in Sessions : \A i \in 1..Len(wire[r]) : wire[r][i] \in Nat
    BY SMTT(40) DEF OwnInv, GateInv, TypeOK
  <2>3. last' < FirstNumber' /\ kept' < FirstNumber' /\ \A m \in arrived' : m[2] < FirstNumber'
    BY <1>2, <2>1, <2>2, SMT DEF Below
  <2>4. \A r \in Sessions : \A i \in 1..Len(wire'[r]) : wire'[r][i] < FirstNumber'
    <3> SUFFICES ASSUME NEW r \in Sessions, NEW i \in 1..Len(wire'[r])
                 PROVE wire'[r][i] < FirstNumber'
      OBVIOUS
    <3>1. CASE r # c
      <4>1. wire'[r][i] = wire[r][i] /\ i \in 1..Len(wire[r])
        BY <3>1, <1>5
      <4>2. wire[r][i] < FirstNumber /\ wire[r][i] \in Nat
        BY <4>1, <2>1, <2>2 DEF Below
      <4> HIDE DEF FirstNumber
      <4> QED BY <4>1, <4>2, <1>2, <2>1, SMT
    <3>2. CASE r = c /\ i \in 1..Len(wire[c])
      BY <3>2, <1>2, <1>6, <2>1, <2>2, SMT DEF Below
    <3>3. CASE r = c /\ i \notin 1..Len(wire[c])
      BY <3>3, <1>2, <1>6, <2>1, SMT
    <3> QED BY <3>1, <3>2, <3>3
  <2> QED BY <2>3, <2>4 DEF Below
<1>11. Leads'
  <2> SUFFICES ASSUME alone', NEW u \in Tabs, Loaded(u)', NEW i \in 1..Len(wire'[tab'[u].session])
               PROVE IsAhead(tab[u].session, i, wire[tab[u].session][i])'
    BY DEF Leads
  <2>1. alone /\ u = t /\ tab'[u].session = c /\ n = FirstNumber
    BY <1>2, <1>3, <1>8 DEF Loaded, c
  <2>2. i \in 1..Len(wire'[c]) /\ i \in Nat
    BY <2>1, SMT
  <2>3. CASE i \in 1..Len(wire[c])
    <3> DEFINE x == wire[c][i]
    <3>1. IsAhead(c, i, x)
      BY <2>1, <2>3, <1>4 DEF OwnInv, Leads, c
    <3>2. wire'[c][i] = x
      BY <1>6, <2>3
    <3> HIDE DEF x
    <3>3. \A j \in 1..(i - 1) : wire'[c][j] < x
      <4>1. \A j \in 1..(i - 1) : j \in 1..Len(wire[c])
        BY <1>6, <2>3, SMT
      <4> QED BY <4>1, <1>6, <3>1 DEF IsAhead
    <3>4. \A r \in Sessions \ {c} : \A j \in 1..Len(wire'[r]) : wire'[r][j] < x
      BY <1>5, <3>1 DEF IsAhead
    <3> QED BY <1>2, <2>1, <3>1, <3>2, <3>3, <3>4 DEF IsAhead
  <2>4. CASE i \notin 1..Len(wire[c])
    <3>1. i = Len(wire[c]) + 1 /\ wire'[c][i] = n
      BY <1>6, <2>2, <2>4
    <3>2. Below /\ last < n /\ kept < n /\ \A m \in arrived : m[2] < n
      BY <2>1 DEF OwnInv, Below
    <3>3. \A r \in Sessions \ {c} : \A j \in 1..Len(wire'[r]) : wire'[r][j] < n
      BY <1>5, <2>1, <3>2 DEF Below
    <3>4. \A j \in 1..(i - 1) : wire'[c][j] < n
      <4>1. \A j \in 1..(i - 1) : j \in 1..Len(wire[c])
        BY <1>6, <3>1, SMT
      <4> QED BY <4>1, <1>2, <1>6, <2>1, <3>2 DEF Below
    <3> QED BY <1>2, <2>1, <3>1, <3>2, <3>3, <3>4 DEF IsAhead
  <2> QED BY <2>3, <2>4
<1>12. OwnNumbersAreFresh'
  BY <1>2 DEF OwnInv, OwnNumbersAreFresh
<1> QED BY <1>1, <1>7, <1>9, <1>10, <1>11, <1>12 DEF OwnInv

LEMMA CloseOwn == ASSUME OwnInv, NEW t \in Tabs, Close(t) PROVE OwnInv'
<1> USE BoundsAssumption DEF Close, serverVars, clientVars, history, OwnInv
<1>1. GateInv'
  BY CloseGate
<1>2. Used'
  <2>1. \A u \in Tabs : Loaded(u)' => Loaded(u) /\ tab'[u].session = tab[u].session
    BY DEF GateInv, TypeOK, Loaded
  <2>2. \A r \in Sessions : session'[r] = "unused" => session[r] = "unused" /\ wire'[r] = wire[r]
    BY DEF GateInv, TypeOK
  <2>3. \A u \in Tabs : Loaded(u) => tab[u].session \in Sessions
    BY TabSession DEF GateInv
  <2> HIDE DEF Close
  <2> QED BY <2>1, <2>2, <2>3 DEF Used
<1>3. OneCounter'
  BY SMT DEF GateInv, TypeOK, OneCounter, FirstNumber, Loaded
<1>4. Below'
  <2>1. \A r \in Sessions : wire'[r] = wire[r] \/ Len(wire'[r]) = 0
    BY EmptyFacts DEF GateInv, TypeOK
  <2>2. UNCHANGED <<alone, last, kept, arrived, stored>>
    OBVIOUS
  <2> HIDE DEF Close
  <2> QED BY <2>1, <2>2, SMT DEF Below, FirstNumber
<1>5. Leads'
  BY SMT DEF GateInv, TypeOK, Leads, IsAhead, Below, Used, OneCounter, FirstNumber, Loaded
<1>6. OwnNumbersAreFresh'
  BY SMT DEF GateInv, TypeOK, OwnNumbersAreFresh, Leads, IsAhead, Loaded
<1> QED BY <1>1, <1>2, <1>3, <1>4, <1>5, <1>6

LEMMA JoinsOwn == ASSUME OwnInv, NEW s \in Sessions, Joins(s) PROVE OwnInv'
<1> USE BoundsAssumption DEF Joins, serverVars, clientVars, history, OwnInv
<1>1. GateInv'
  BY JoinsGate
<1>2. Used'
  BY SMT DEF GateInv, TypeOK, Used, Loaded
<1>3. OneCounter'
  BY SMT DEF GateInv, TypeOK, OneCounter, FirstNumber, Loaded
<1>4. Below'
  BY SMT DEF GateInv, TypeOK, Below, FirstNumber, OneCounter, Loaded
<1>5. Leads'
  BY AheadKept
<1>6. OwnNumbersAreFresh'
  BY SMT DEF GateInv, TypeOK, OwnNumbersAreFresh, Leads, IsAhead, Loaded
<1> QED BY <1>1, <1>2, <1>3, <1>4, <1>5, <1>6

LEMMA LeavesOwn == ASSUME OwnInv, NEW s \in Sessions, Leaves(s) PROVE OwnInv'
<1> USE BoundsAssumption DEF Leaves, serverVars, clientVars, history, OwnInv
<1>1. GateInv'
  BY LeavesGate
<1>2. Used'
  BY SMTT(40) DEF GateInv, TypeOK, Used, Loaded
<1>3. OneCounter'
  BY SMT DEF GateInv, TypeOK, OneCounter, FirstNumber, Loaded
<1>4. Below'
  BY SMT DEF GateInv, TypeOK, Below, FirstNumber, OneCounter, Loaded
<1>5. Leads'
  BY AheadKept
<1>6. OwnNumbersAreFresh'
  BY SMT DEF GateInv, TypeOK, OwnNumbersAreFresh, Leads, IsAhead, Loaded
<1> QED BY <1>1, <1>2, <1>3, <1>4, <1>5, <1>6

LEMMA DeliverOwn == ASSUME OwnInv, NEW s \in Sessions, Deliver(s) PROVE OwnInv'
<1> USE BoundsAssumption
<1> DEFINE h == Head(wire[s])
<1>1. GateInv'
  BY DeliverGate DEF OwnInv
<1>2. /\ \A r \in Sessions : wire[r] \in Seq(1..MaxSeq) /\ Len(wire[r]) \in Nat
      /\ last \in Nat /\ kept \in Nat /\ stored \in Nat
  BY SMT DEF OwnInv, GateInv, TypeOK
<1>3. /\ h \in 1..MaxSeq /\ h = wire[s][1]
      /\ Len(wire[s]) \in Nat \ {0}
      /\ Len(wire'[s]) = Len(wire[s]) - 1
      /\ \A i \in 1..Len(wire'[s]) : wire'[s][i] = wire[s][i + 1]
  BY <1>2, TailFacts DEF Deliver, OwnInv, GateInv, TypeOK
<1>4. \A r \in Sessions \ {s} : wire'[r] = wire[r]
  BY DEF Deliver, OwnInv, GateInv, TypeOK
<1>5. /\ last' \in {last, h}
      /\ arrived' = arrived \cup {<<s, h>>}
      /\ UNCHANGED <<kept, stored, tab, session, alone>>
  BY DEF Deliver, Receive, clientVars
<1>6. arrived \subseteq Messages
  BY DEF OwnInv, GateInv, TypeOK
<1> HIDE DEF h
<1>7. Used'
  <2>1. session[s] # "unused"
    BY DEF Deliver
  <2> QED BY <2>1, <1>4, <1>5 DEF OwnInv, Used, Loaded
<1>8. OneCounter'
  BY <1>5 DEF OwnInv, OneCounter, FirstNumber, Loaded
<1>9. Below'
  <2> SUFFICES ASSUME alone' PROVE Below'
    BY DEF Below
  <2>1. Below /\ alone /\ FirstNumber' = FirstNumber /\ FirstNumber \in Nat
    BY <1>2, <1>5, SMT DEF OwnInv, FirstNumber
  <2>2. h < FirstNumber
    BY <1>3, <2>1, SMT DEF Below
  <2>3. last' < FirstNumber /\ kept' < FirstNumber
    BY <1>5, <2>1, <2>2 DEF Below
  <2>4. \A m \in arrived' : m[2] < FirstNumber
    BY <1>5, <2>1, <2>2 DEF Below
  <2>5. \A r \in Sessions : \A i \in 1..Len(wire'[r]) : wire'[r][i] < FirstNumber
    <3> SUFFICES ASSUME NEW r \in Sessions, NEW i \in 1..Len(wire'[r])
                 PROVE wire'[r][i] < FirstNumber
      OBVIOUS
    <3>1. CASE r = s
      <4>1. i \in 1..Len(wire'[s]) /\ wire'[r][i] = wire[s][i + 1]
        BY <3>1, <1>3
      <4>2. i + 1 \in 1..Len(wire[s])
        BY <4>1, <1>3, SMT
      <4> QED BY <4>1, <4>2, <2>1 DEF Below
    <3>2. CASE r # s
      BY <3>2, <1>4, <2>1, SMT DEF Below
    <3> QED BY <3>1, <3>2
  <2> QED BY <2>1, <2>3, <2>4, <2>5 DEF Below
<1>10. ASSUME alone, NEW t \in Tabs, Loaded(t), NEW i \in 1..Len(wire[tab[t].session])
       PROVE IsAhead(tab[t].session, i, wire[tab[t].session][i])
  BY <1>10 DEF OwnInv, Leads
<1>11. \A t \in Tabs : Loaded(t) => tab[t].session \in Sessions
  BY SMT DEF OwnInv, GateInv, TypeOK, Loaded
<1>12. Leads'
  <2> SUFFICES ASSUME alone', NEW t \in Tabs, Loaded(t)',
                      NEW i \in 1..Len(wire'[tab'[t].session])
               PROVE IsAhead(tab[t].session, i, wire[tab[t].session][i])'
    BY DEF Leads
  <2> DEFINE c == tab[t].session
  <2>1. alone /\ Loaded(t) /\ tab'[t].session = c /\ c \in Sessions
    BY <1>5, <1>11 DEF Loaded
  <2> HIDE DEF c
  <2>2. CASE c = s
    <3> DEFINE x == wire[s][i + 1]
    <3>1. i \in Nat /\ i + 1 \in 1..Len(wire[s]) /\ wire'[c][i] = x /\ 1 \in 1..((i + 1) - 1)
      <4>1. i \in 1..Len(wire'[s])
        BY <2>1, <2>2
      <4>2. wire'[c][i] = x
        BY <4>1, <1>3, <2>2
      <4>3. \A k, l \in Nat : k \in 1..(l - 1) => k + 1 \in 1..l /\ 1 \in 1..((k + 1) - 1)
        BY SMT
      <4>4. i \in Nat /\ i \in 1..(Len(wire[s]) - 1)
        BY <4>1, <1>3
      <4> QED BY <4>2, <4>3, <4>4, <1>3
    <3>2. IsAhead(s, i + 1, x)
      BY <1>10, <2>1, <2>2, <3>1 DEF c
    <3> HIDE DEF x
    <3>3. h < x
      BY <1>3, <3>1, <3>2 DEF IsAhead
    <3>4. last' < x /\ kept' < x /\ \A m \in arrived' : m[2] < x
      BY <1>5, <3>2, <3>3 DEF IsAhead
    <3>5. \A r \in Sessions \ {s} : \A j \in 1..Len(wire'[r]) : wire'[r][j] < x
      BY <1>4, <3>2 DEF IsAhead
    <3>6. \A j \in 1..(i - 1) : wire'[s][j] < x
      <4> SUFFICES ASSUME NEW j \in 1..(i - 1) PROVE wire'[s][j] < x
        OBVIOUS
      <4>1. j \in 1..Len(wire'[s]) /\ j + 1 \in 1..((i + 1) - 1)
        <5>1. i \in 1..(Len(wire[s]) - 1)
          BY <1>3, <2>1, <2>2
        <5>2. \A k, l \in Nat : \A j_1 \in 1..(k - 1) :
                 k \in 1..(l - 1) => j_1 \in 1..(l - 1) /\ j_1 + 1 \in 1..((k + 1) - 1)
          BY SMT
        <5> QED BY <5>1, <5>2, <3>1, <1>3
      <4> QED BY <4>1, <1>3, <3>2 DEF IsAhead
    <3> QED BY <2>1, <2>2, <3>1, <3>4, <3>5, <3>6 DEF IsAhead, c
  <2>3. CASE c # s
    <3> DEFINE x == wire[c][i]
    <3>1. wire'[c] = wire[c] /\ i \in 1..Len(wire[c])
      BY <1>4, <2>1, <2>3
    <3>2. IsAhead(c, i, x)
      BY <1>10, <2>1, <3>1 DEF c
    <3> HIDE DEF x
    <3>3. h < x
      BY <1>3, <2>3, <3>2, SMT DEF IsAhead
    <3>4. last' < x /\ kept' < x /\ \A m \in arrived' : m[2] < x
      BY <1>5, <3>2, <3>3 DEF IsAhead
    <3>5. \A r \in Sessions \ {c} : \A j \in 1..Len(wire'[r]) : wire'[r][j] < x
      <4> SUFFICES ASSUME NEW r \in Sessions \ {c}, NEW j \in 1..Len(wire'[r])
                   PROVE wire'[r][j] < x
        OBVIOUS
      <4>1. CASE r = s
        <5>1. j + 1 \in 1..Len(wire[s]) /\ wire'[s][j] = wire[s][j + 1]
          BY <4>1, <1>3, SMT
        <5> QED BY <4>1, <5>1, <3>2 DEF IsAhead
      <4>2. CASE r # s
        BY <4>2, <1>4, <3>2 DEF IsAhead
      <4> QED BY <4>1, <4>2
    <3>6. \A j \in 1..(i - 1) : wire'[c][j] < x
      BY <3>1, <3>2 DEF IsAhead
    <3> QED BY <2>1, <3>1, <3>4, <3>5, <3>6 DEF IsAhead, c, x
  <2> QED BY <2>2, <2>3
<1>13. OwnNumbersAreFresh'
  <2>0. refused' = (refused \/ RefusesOwn(s, h))
    BY DEF Deliver, Receive, h
  <2>5. alone => ~refused
    BY DEF OwnInv, OwnNumbersAreFresh
  <2> SUFFICES ASSUME alone', RefusesOwn(s, h) PROVE FALSE
    BY <2>0, <2>5, <1>5 DEF OwnNumbersAreFresh
  <2>1. PICK t \in Tabs : tab[t].session = s
    BY DEF RefusesOwn
  <2>2. Loaded(t) /\ alone
    BY <2>1, <1>5, SMT DEF Loaded
  <2>3. 1 \in 1..Len(wire[s])
    BY <1>3, SMT
  <2>4. last < h
    BY <1>3, <1>10, <2>1, <2>2, <2>3 DEF IsAhead
  <2> QED BY <1>2, <1>3, <2>4, SMT DEF RefusesOwn, Fresh
<1> QED BY <1>1, <1>7, <1>8, <1>9, <1>12, <1>13 DEF OwnInv

LEMMA RepeatOwn == ASSUME OwnInv, NEW s \in Sessions, NEW n \in 1..MaxSeq, Repeat(s, n) PROVE OwnInv'
<1> USE BoundsAssumption DEF Repeat, Receive, Bound, Fresh, RefusesOwn, serverVars, clientVars,
            history, OwnInv
<1>1. GateInv'
  BY RepeatGate
<1>2. Used'
  BY SMT DEF GateInv, TypeOK, Used, Loaded
<1>3. OneCounter'
  BY SMT DEF GateInv, TypeOK, OneCounter, FirstNumber, Loaded
<1>4. Below'
  BY SMT DEF GateInv, TypeOK, Below, FirstNumber, OneCounter, Loaded
<1>5. Leads'
  <2>1. last' \in {last, n} /\ kept' = kept
    OBVIOUS
  <2>2. <<s, n>>[2] = n
    OBVIOUS
  <2>3. UNCHANGED <<wire, tab, arrived, alone>>
    OBVIOUS
  <2>4. <<s, n>> \in arrived
    OBVIOUS
  <2> HIDE DEF Repeat, OwnInv
  <2> QED BY <2>1, <2>2, <2>3, <2>4, AheadKept
<1>6. OwnNumbersAreFresh'
  BY SMT DEF GateInv, TypeOK, OwnNumbersAreFresh, Leads, IsAhead, Loaded
<1> QED BY <1>1, <1>2, <1>3, <1>4, <1>5, <1>6

LEMMA ReleaseOwn == ASSUME OwnInv, Release PROVE OwnInv'
<1> USE BoundsAssumption DEF Release, serverVars, clientVars, history, OwnInv
<1>1. GateInv'
  BY ReleaseGate
<1>2. Used'
  BY SMT DEF GateInv, TypeOK, Used, Loaded
<1>3. OneCounter'
  BY SMT DEF GateInv, TypeOK, OneCounter, FirstNumber, Loaded
<1>4. Below'
  BY SMT DEF GateInv, TypeOK, Below, FirstNumber, OneCounter, Loaded
<1>5. Leads'
  BY SMT DEF GateInv, TypeOK, Leads, IsAhead, Below, Used, OneCounter, FirstNumber, Loaded
<1>6. OwnNumbersAreFresh'
  BY SMT DEF GateInv, TypeOK, OwnNumbersAreFresh, Leads, IsAhead, Loaded
<1> QED BY <1>1, <1>2, <1>3, <1>4, <1>5, <1>6

LEMMA CheckpointOwn == ASSUME OwnInv, Checkpoint PROVE OwnInv'
<1> USE BoundsAssumption DEF Checkpoint, serverVars, clientVars, history, OwnInv
<1>1. GateInv'
  BY CheckpointGate
<1>2. Used'
  BY SMT DEF GateInv, TypeOK, Used, Loaded
<1>3. OneCounter'
  BY SMT DEF GateInv, TypeOK, OneCounter, FirstNumber, Loaded
<1>4. Below'
  BY SMT DEF GateInv, TypeOK, Below, FirstNumber, OneCounter, Loaded
<1>5. Leads'
  BY SMT DEF GateInv, TypeOK, Leads, IsAhead, Below, Used, OneCounter, FirstNumber, Loaded
<1>6. OwnNumbersAreFresh'
  BY SMT DEF GateInv, TypeOK, OwnNumbersAreFresh, Leads, IsAhead, Loaded
<1> QED BY <1>1, <1>2, <1>3, <1>4, <1>5, <1>6

LEMMA RestartOwn == ASSUME OwnInv, Restart PROVE OwnInv'
<1> USE BoundsAssumption DEF Restart, serverVars, clientVars, history, OwnInv
<1>1. GateInv'
  BY RestartGate
<1>2. Used'
  BY SMT DEF GateInv, TypeOK, Used, Loaded
<1>3. OneCounter'
  BY SMT DEF GateInv, TypeOK, OneCounter, FirstNumber, Loaded
<1>4. Below'
  BY SMT DEF GateInv, TypeOK, Below, FirstNumber, OneCounter, Loaded
<1>5. Leads'
  BY SMTT(40) DEF GateInv, TypeOK, Leads, IsAhead, Below, Used, OneCounter, FirstNumber, Loaded
<1>6. OwnNumbersAreFresh'
  BY SMT DEF GateInv, TypeOK, OwnNumbersAreFresh, Leads, IsAhead, Loaded
<1> QED BY <1>1, <1>2, <1>3, <1>4, <1>5, <1>6

LEMMA NextOwnInv == OwnInv /\ [Next]_vars => OwnInv'
<1> SUFFICES ASSUME OwnInv, [Next]_vars PROVE OwnInv'
  OBVIOUS
<1>1. ASSUME NEW t \in Tabs, (\E s \in Sessions : Load(t, s)) \/ Send(t) \/ Close(t) PROVE OwnInv'
  BY <1>1, LoadOwn, SendOwn, CloseOwn
<1>2. ASSUME NEW s \in Sessions, Joins(s) \/ Leaves(s) \/ Deliver(s) PROVE OwnInv'
  BY <1>2, JoinsOwn, LeavesOwn, DeliverOwn
<1>3. ASSUME NEW m \in Messages, Repeat(m[1], m[2]) PROVE OwnInv'
  BY <1>3, RepeatOwn
<1>4. CASE Release \/ Checkpoint \/ Restart
  BY <1>4, ReleaseOwn, CheckpointOwn, RestartOwn
<1>5. CASE UNCHANGED vars
  <2>1. GateInv'
    BY NextGateInv DEF OwnInv
  <2> QED BY <2>1, <1>5 DEF vars, serverVars, clientVars, history, OwnInv, Used, OneCounter,
                 Below, Leads, IsAhead, OwnNumbersAreFresh, Loaded, FirstNumber
<1> QED BY <1>1, <1>2, <1>3, <1>4, <1>5 DEF Next

\* A player with one tab at a time never has a message refused for its number, over
\* reloads, lost connections, released seats and restarts (reserveMutatingSeq).
THEOREM OwnNumbersFresh == Spec => []OwnNumbersAreFresh
<1>1. Spec => []OwnInv
  BY InitOwnInv, NextOwnInv, PTL DEF Spec
<1> QED BY <1>1, PTL DEF OwnInv
=============================================================================
