----------------------------- MODULE MCMailWork -----------------------------
(* Instances for TLC of the work on mail: both checks of a verification or *)
(* a send (Deadlines), a search (SearchOrder), the requests of an account  *)
(* (MailCommands).  They share no state, so each behaviour shows one of    *)
(* them at work.                                                           *)
EXTENDS Deadlines, SearchOrder, MailCommands

VARIABLE shown

shownVars == <<vars, searchVars, commandVars>>

NoJob == \A j \in Jobs : caller[j] = "none"

OneJob == \E q \in Verifications \cup Sends :
  \A j \in Jobs : caller[j] = IF j[1] = q THEN "start" ELSE "none"

\* What the search asks for does not matter when there is none.
NoSearch ==
  /\ phase = "none" /\ folder = {} /\ limit = 1
  /\ value = [u \in Uids |-> 1] /\ ~arrival /\ ~natural /\ reverse = "default"

WorkInit ==
  /\ Init /\ SearchInit /\ CommandsInit
  /\ shown \in {"job", "search", "commands"}
  /\ IF shown = "job" THEN OneJob ELSE NoJob
  /\ IF shown = "search" THEN phase = "search" ELSE NoSearch

WorkNext ==
  /\ UNCHANGED shown
  /\ \/ shown = "job" /\ Next /\ UNCHANGED <<searchVars, commandVars>>
     \/ shown = "search" /\ SearchNext /\ UNCHANGED <<vars, commandVars>>
     \/ shown = "commands" /\ CommandsNext /\ UNCHANGED <<vars, searchVars>>

WorkSpec == WorkInit /\ [][WorkNext]_<<shown, shownVars>> /\ Fairness
=============================================================================
