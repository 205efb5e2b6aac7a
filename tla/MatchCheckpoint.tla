-------------------------- MODULE MatchCheckpoint --------------------------
(***************************************************************************)
(* The checkpoint of a table in Nakama's storage, the matches that write   *)
(* it and are restored from it (apps/nakama/src/pdhMatch.ts), and a client *)
(* that applies only snapshots with a newer version                        *)
(* (apps/web/lib/stateVersion.ts).                                         *)
(*                                                                         *)
(* A match reads storage and then writes it: in between, another match of  *)
(* the table may run.  There can be one, because nothing keeps two callers *)
(* from each creating a match (see PokerLobby).  A match dies at any       *)
(* moment.  What a table holds is the set of changes made to it.           *)
(***************************************************************************)
EXTENDS Naturals

CONSTANTS Matches,   \* the matches that are ever created for the table
          NoMatch,
          MaxVersion \* bound: no match raises its stateVersion beyond this

ASSUME NoMatchAssumption == NoMatch \notin Matches
ASSUME MaxVersionAssumption == MaxVersion \in Nat

VARIABLES
    saved,   \* the storage object; stamp counts its writes, 0 is no object.
             \* recent: younger than CHECKPOINT_MAX_AGE_MS
    pc,      \* what a match does next: new, read, write, show, idle, dead
    version, \* stateVersion
    content, \* the changes that made the table what it is
    expects, \* the stamp of the object persistCheckpoint has read
    client,  \* the match a client's page is joined to, and what the page shows
    orderly, \* history: no storage call has failed, no checkpoint became too old,
             \* and never were there two matches at once
    quiet    \* history: versions broadcast since the last checkpoint was written;
             \* more than one is never forgotten

checkpointVars == <<saved, pc, version, content, expects, client, orderly, quiet>>

Changes == Matches \X Nat

Live(m) == pc[m] \notin {"new", "dead"}

CheckpointInit ==
    /\ saved = [stamp |-> 0, recent |-> FALSE, version |-> 0, content |-> {}]
    /\ pc = [m \in Matches |-> "new"]
    /\ version = [m \in Matches |-> 0]
    /\ content = [m \in Matches |-> {}]
    /\ expects = [m \in Matches |-> 0]
    /\ client = [at |-> NoMatch, version |-> 0, content |-> {}]
    /\ orderly = TRUE
    /\ quiet = 0

-----------------------------------------------------------------------------
(* matchInit.                                                               *)

Begin(m, v, c) ==
    /\ pc[m] = "new"
    /\ pc' = [pc EXCEPT ![m] = "read"]
    /\ version' = [version EXCEPT ![m] = v]
    /\ content' = [content EXCEPT ![m] = c]
    /\ UNCHANGED <<saved, expects, client, quiet>>

Alone == \A n \in Matches : ~Live(n)

\* Mutant of RestoredVersion: the version of the checkpoint itself.
RestoredVersionSame(checkpoint) == checkpoint.version

\* recoverFromCheckpoint
RestoredVersion(checkpoint) == checkpoint.version + 1

Restore(m) ==
    /\ saved.recent
    /\ saved.version < MaxVersion
    /\ Begin(m, RestoredVersion(saved), saved.content)
    /\ orderly' = (orderly /\ Alone)

\* No checkpoint, or one that is too old: a new table.
StartFresh(m) ==
    /\ ~saved.recent
    /\ Begin(m, 0, {})
    /\ orderly' = (orderly /\ Alone)

\* loadCheckpoint finds storage failing, and a new table is started all the same.
StartUnread(m) ==
    /\ Begin(m, 0, {})
    /\ orderly' = FALSE

-----------------------------------------------------------------------------
(* persistCheckpoint: read, compare, write.                                 *)

Moves(m, to) == pc' = [pc EXCEPT ![m] = to]

\* Mutant of NewerExists: the stored version is not looked at.
NewerExistsNever(m) == FALSE

NewerExists(m) == saved.recent /\ saved.version > version[m]

PersistSkips(m) ==
    /\ pc[m] = "read"
    /\ NewerExists(m)
    /\ Moves(m, "show")
    /\ UNCHANGED <<saved, version, content, expects, client, orderly, quiet>>

PersistRead(m) ==
    /\ pc[m] = "read"
    /\ ~NewerExists(m)
    /\ expects' = [expects EXCEPT ![m] = saved.stamp]
    /\ Moves(m, "write")
    /\ UNCHANGED <<saved, version, content, client, orderly, quiet>>

\* The write is conditional on the object that was read; on none, if there was none.
Accepted(m) == expects[m] = 0 \/ expects[m] = saved.stamp

PersistWrite(m) ==
    /\ pc[m] = "write"
    /\ Accepted(m)
    /\ saved' = [stamp |-> saved.stamp + 1, recent |-> TRUE,
                 version |-> version[m], content |-> content[m]]
    /\ quiet' = IF quiet > 1 THEN quiet ELSE 0
    /\ expects' = [expects EXCEPT ![m] = 0]
    /\ Moves(m, "show")
    /\ UNCHANGED <<version, content, client, orderly>>

\* Storage fails or refuses the write: that is logged, and the match goes on.
PersistFails(m) ==
    /\ pc[m] \in {"read", "write"}
    /\ Moves(m, "show")
    /\ expects' = [expects EXCEPT ![m] = 0]
    /\ orderly' = FALSE
    /\ UNCHANGED <<saved, version, content, client, quiet>>

-----------------------------------------------------------------------------
(* The match between persisting, and its client.                            *)

\* Mutant of Change: a kind of change that gives no reason for a checkpoint.
ChangeUnsaved(m) ==
    /\ pc[m] = "idle"
    /\ version[m] < MaxVersion
    /\ version' = [version EXCEPT ![m] = @ + 1]
    /\ content' = [content EXCEPT ![m] = @ \cup {<<m, version[m] + 1>>}]
    /\ Moves(m, "show")
    /\ UNCHANGED <<saved, expects, client, orderly, quiet>>

\* A handler changes the table and has reasons for a checkpoint.
Change(m) ==
    /\ pc[m] = "idle"
    /\ version[m] < MaxVersion
    /\ version' = [version EXCEPT ![m] = @ + 1]
    /\ content' = [content EXCEPT ![m] = @ \cup {<<m, version[m] + 1>>}]
    /\ Moves(m, "read")
    /\ UNCHANGED <<saved, expects, client, orderly, quiet>>

\* matchJoin: that somebody is connected is a change of the state as well
ClientJoins(m) ==
    /\ pc[m] = "idle"
    /\ version[m] < MaxVersion
    /\ version' = [version EXCEPT ![m] = @ + 1]
    /\ content' = [content EXCEPT ![m] = @ \cup {<<m, version[m] + 1>>}]
    /\ client' = [client EXCEPT !.at = m]
    /\ Moves(m, "read")
    /\ UNCHANGED <<saved, expects, orderly, quiet>>

\* autoAction without somebody who can act only gives the turn a new deadline: that
\* raises the version and is broadcast, but gives no reason for a checkpoint.
QuietRenewal(m) ==
    /\ pc[m] = "idle"
    /\ version[m] < MaxVersion
    /\ version' = [version EXCEPT ![m] = @ + 1]
    /\ quiet' = IF quiet > 1 THEN quiet ELSE quiet + 1
    /\ Moves(m, "show")
    /\ UNCHANGED <<saved, content, expects, client, orderly>>

\* shouldApplyStateSnapshot
Applies(v) == v > client.version

\* broadcastState
Show(m) ==
    /\ pc[m] = "show"
    /\ client' = IF client.at = m /\ Applies(version[m])
                 THEN [at |-> m, version |-> version[m], content |-> content[m]] ELSE client
    /\ Moves(m, "idle")
    /\ UNCHANGED <<saved, version, content, expects, orderly, quiet>>

\* The server dies, or an administrator ends the match; what it held is gone.
Die(m) ==
    /\ Live(m)
    /\ Moves(m, "dead")
    /\ version' = [version EXCEPT ![m] = 0]
    /\ content' = [content EXCEPT ![m] = {}]
    /\ expects' = [expects EXCEPT ![m] = 0]
    /\ client' = IF client.at = m THEN [client EXCEPT !.at = NoMatch] ELSE client
    /\ UNCHANGED <<saved, orderly, quiet>>

\* CHECKPOINT_MAX_AGE_MS has passed since the last write.
Expire ==
    /\ saved.recent
    /\ saved' = [saved EXCEPT !.recent = FALSE]
    /\ orderly' = FALSE
    /\ UNCHANGED <<pc, version, content, expects, client, quiet>>

MatchStep(m) ==
    \/ Restore(m) \/ StartFresh(m) \/ StartUnread(m)
    \/ PersistSkips(m) \/ PersistRead(m) \/ PersistWrite(m) \/ PersistFails(m)
    \/ Change(m) \/ ClientJoins(m) \/ QuietRenewal(m) \/ Show(m)
    \/ Die(m)

CheckpointNext == Expire \/ \E m \in Matches : MatchStep(m)

CheckpointSpec == CheckpointInit /\ [][CheckpointNext]_checkpointVars

-----------------------------------------------------------------------------
(* Properties.                                                              *)

Contents == SUBSET Changes

\* Every variable keeps its type, nobody is joined to a match that has ended, and no
\* match has read an object that was not yet written.
CheckpointTypeOK ==
    /\ saved \in [stamp : Nat, recent : BOOLEAN, version : Nat, content : Contents]
    /\ pc \in [Matches -> {"new", "read", "write", "show", "idle", "dead"}]
    /\ version \in [Matches -> Nat]
    /\ content \in [Matches -> Contents]
    /\ expects \in [Matches -> Nat]
    /\ client \in [at : Matches \cup {NoMatch}, version : Nat, content : Contents]
    /\ orderly \in BOOLEAN
    /\ quiet \in Nat
    /\ \A m \in Matches : (client.at = m => Live(m)) /\ expects[m] <= saved.stamp

\* However many matches write, and wherever they are in reading and writing, a write
\* that is conditional never puts an older state in the place of a recent checkpoint.
StoredMovesOn ==
    [][ \A m \in Matches :
            pc[m] = "write" /\ expects[m] # 0 /\ saved.recent /\ saved' # saved /\ pc'[m] = "show"
                => saved'.version >= saved.version ]_checkpointVars

\* While storage works and matches follow one another, nothing that a client was ever
\* shown is missing from the table of a later match.
NothingShownIsLost ==
    orderly => \A m \in Matches : Live(m) => client.content \subseteq content[m]

\* Under the same conditions a client that keeps its page open over a restart shows
\* what its match has broadcast: its version gate never locks it out, as long as at
\* most one version was ever given out without a checkpoint.
ClientIsCurrent ==
    orderly /\ quiet <= 1 =>
        \A m \in Matches :
            client.at = m /\ pc[m] = "idle" =>
                client.version = version[m] /\ client.content = content[m]

=============================================================================
