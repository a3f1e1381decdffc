---------------------------- MODULE OneTimeGrant ----------------------------
(***************************************************************************)
(* What the authorization server promises about a sign-in attempt: it is   *)
(* opened once, may turn into an authorization code, ends once, and ends   *)
(* in at most one session.  Attempts can be given up at any time.          *)
(***************************************************************************)
EXTENDS Naturals

CONSTANT States

VARIABLES
  phase,    \* "new", "open" (with Google), "code" (with the client), "over"
  granted   \* granted[s]: sessions issued for attempt s

grantVars == <<phase, granted>>

GrantInit ==
  /\ phase = [s \in States |-> "new"]
  /\ granted = [s \in States |-> 0]

Begin(s) ==
  /\ phase[s] = "new"
  /\ phase' = [phase EXCEPT ![s] = "open"]
  /\ UNCHANGED granted

\* Attempts end without a session, and perhaps another begins.
GiveUp(gone) ==
  /\ \A s \in gone : phase[s] \in {"open", "code"}
  /\ \/ phase' = [s \in States |-> IF s \in gone THEN "over" ELSE phase[s]]
     \/ \E n \in States \ gone :
          /\ phase[n] = "new"
          /\ phase' = [s \in States |-> IF s \in gone THEN "over"
                                        ELSE IF s = n THEN "open" ELSE phase[s]]
  /\ UNCHANGED granted

Authorized(s) ==
  /\ phase[s] = "open"
  /\ phase' = [phase EXCEPT ![s] = "code"]
  /\ UNCHANGED granted

Grant(s) ==
  /\ phase[s] \in {"open", "code"}
  /\ phase' = [phase EXCEPT ![s] = "over"]
  /\ granted' = [granted EXCEPT ![s] = @ + 1]

GrantNext ==
  \/ \E s \in States : Begin(s) \/ Authorized(s) \/ Grant(s)
  \/ \E gone \in SUBSET States : GiveUp(gone)

GrantSpec == GrantInit /\ [][GrantNext]_grantVars
=============================================================================
