----------------------------- MODULE MCServing ------------------------------
(* Instances for TLC of a process that serves: the requests of one account  *)
(* at its pools (ImapPool), with liveness; and processes that start, serve  *)
(* and end (ServerLife).  Each behaviour shows one of the two.              *)
EXTENDS ImapPool, ServerLife

VARIABLE shown

\* Deployments that differ in what their processes can do: tables to be found
\* in SSM, one or both of them, or memory alone.
Deployments ==
  \/ /\ region /\ complete /\ transport = "http"
     /\ named \subseteq {"sessions"} /\ inSSM = Stores \ named
  \/ ~region /\ named = {} /\ inSSM = {}

ServingInit ==
  /\ Init /\ LifeInit
  /\ shown \in {"requests", "life"}
  /\ shown = "life" => Deployments /\ \A k \in Keys : present[k]
  /\ shown = "requests" =>
       named = {} /\ inSSM = {} /\ ~region /\ ~complete /\ transport = "stdio"

ServingNext ==
  /\ UNCHANGED shown
  /\ \/ shown = "requests" /\ Next /\ UNCHANGED lifeVars
     \/ shown = "life" /\ LifeNext /\ UNCHANGED vars

\* What is not shown is at rest, where nothing of its fairness is due.
ServingSpec ==
  /\ ServingInit /\ [][ServingNext]_<<shown, vars, lifeVars>>
  /\ Fairness
=============================================================================
