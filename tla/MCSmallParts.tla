---------------------------- MODULE MCSmallParts ----------------------------
(***************************************************************************)
(* Four parts that have nothing to do with each other and are small: the   *)
(* server for local play, the sign-up for early access, the ranking of     *)
(* hands, and the checkpoint of a table with two matches that write it, at *)
(* once or in turn.  A behaviour is one of one of them; the others stay as *)
(* they start.                                                             *)
(***************************************************************************)
EXTENDS LegacyServer, SignUp, HandEvaluator, MatchCheckpoint, TLC

CONSTANTS upper, lower, long, bad, mail

\* Two ways to write one address, one that is too long for the server, one the form stops.
Normal == upper :> mail @@ lower :> mail @@ long :> NoEmail @@ bad :> NoEmail

\* Straights from the ace, low and not, with a flush or without, and every number of pairs.
SmallDeck ==
    [rank : (2..6) \cup {Ace}, suit : {"S"}] \cup [rank : {2, Ace}, suit : {"H", "D"}]
    \cup [rank : {Ace}, suit : {"C"}]

VARIABLE part

partsVars == <<part, vars, signUpVars, dealt, checkpointVars>>

PartsInit ==
    /\ part \in {"local", "signup", "ranking", "restarts"}
    /\ Init /\ SignUpInit /\ DealInit /\ CheckpointInit

PartsNext ==
    \/ part = "local" /\ Next /\ UNCHANGED <<part, signUpVars, dealt, checkpointVars>>
    \/ part = "signup" /\ SignUpNext /\ UNCHANGED <<part, vars, dealt, checkpointVars>>
    \/ part = "ranking" /\ Deal /\ UNCHANGED <<part, vars, signUpVars, checkpointVars>>
    \/ part = "restarts" /\ CheckpointNext /\ UNCHANGED <<part, vars, signUpVars, dealt>>

\* The fairness of SignUpSpec.
PartsSpec ==
    /\ PartsInit /\ [][PartsNext]_partsVars
    /\ WF_signUpVars(part = "signup" /\ (\E r \in Requests : RequestGoesOn(r))
                     /\ UNCHANGED <<part, vars, dealt, checkpointVars>>)
=============================================================================
