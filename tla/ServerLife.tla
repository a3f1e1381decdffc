----------------------------- MODULE ServerLife -----------------------------
(***************************************************************************)
(* The life of the server's processes: cmd/emailmcp/main.go with           *)
(* config.Load and FetchRemoteDefaults (internal/config/config.go) and     *)
(* server.New, which picks the session store and the account store.  A     *)
(* store is a DynamoDB table when its name is found, in the environment or *)
(* in SSM, and else a map in the process.                                  *)
(*                                                                         *)
(* A process crashes at any point, is told to stop by a signal, and may be *)
(* started again.  What the requests do is in the other modules: here one  *)
(* saves something in one of the stores.                                   *)
(***************************************************************************)
EXTENDS Integers

CONSTANTS
  Procs,       \* replicas of the server
  MaxInFlight  \* bound: requests one process serves at a time

Stores == {"sessions", "accounts"}

ASSUME MaxInFlightAssumption == MaxInFlight \in Nat

VARIABLES
  named,     \* the stores whose table is named in the environment
  inSSM,     \* the stores whose table is named by an SSM parameter
  region,    \* AWS_REGION is set
  complete,  \* the settings HTTP mode needs are set
  transport,
  life,      \* life[p]: how far process p is
  table,     \* table[p]: the stores whose table name p knows
  shutdown,  \* shutdown[p]: the goroutine that waits for the signal
  inFlight,  \* inFlight[p]: how many requests p is serving
  inMemory,  \* inMemory[p]: the stores whose map in p holds what was saved
  inTable,   \* the stores whose table holds what was saved
  unsure,    \* unsure[p]: the stores for which p's look at SSM failed
  saved      \* history; the stores something was saved in by a process that
             \* was not unsure of them

deployment == <<named, inSSM, region, complete, transport>>
lifeVars == <<deployment, life, table, shutdown, inFlight, inMemory, inTable, saved, unsure>>

\* A process that is not there: it crashed or gave up, or main returned.
Ended == {"failed", "stopped"}

LifeTypeOK ==
  /\ named \subseteq Stores /\ inSSM \subseteq Stores
  /\ region \in BOOLEAN /\ complete \in BOOLEAN
  /\ transport \in {"http", "stdio"}
  /\ life \in [Procs -> Ended \cup {"loaded", "resolved", "ready", "serving"}]
  /\ table \in [Procs -> SUBSET Stores]
  /\ shutdown \in [Procs -> {"no", "draining", "timeout"}]
  /\ inFlight \in [Procs -> 0..MaxInFlight]
  /\ inMemory \in [Procs -> SUBSET Stores]
  /\ inTable \subseteq Stores /\ saved \subseteq Stores
  /\ unsure \in [Procs -> SUBSET Stores]

\* The replicas of one deployment have one environment.
LifeInit ==
  /\ named \in SUBSET Stores /\ inSSM \in SUBSET Stores
  /\ region \in BOOLEAN /\ complete \in BOOLEAN
  /\ transport \in {"http", "stdio"}
  /\ life = [p \in Procs |-> "stopped"]
  /\ table = [p \in Procs |-> {}]
  /\ shutdown = [p \in Procs |-> "no"]
  /\ inFlight = [p \in Procs |-> 0]
  /\ inMemory = [p \in Procs |-> {}]
  /\ inTable = {} /\ saved = {}
  /\ unsure = [p \in Procs |-> {}]

To(p, state) == life' = [life EXCEPT ![p] = state]

\* The process ends: its requests are cut off and its memory is lost.
Exit(p, how) ==
  /\ To(p, how)
  /\ shutdown' = [shutdown EXCEPT ![p] = "no"]
  /\ inFlight' = [inFlight EXCEPT ![p] = 0]
  /\ inMemory' = [inMemory EXCEPT ![p] = {}]
  /\ table' = [table EXCEPT ![p] = {}]
  /\ unsure' = [unsure EXCEPT ![p] = {}]
  /\ UNCHANGED <<deployment, inTable, saved>>

-----------------------------------------------------------------------------
(* The start *)

Load(p) ==
  /\ life[p] \in Ended
  /\ To(p, "loaded")
  /\ table' = [table EXCEPT ![p] = named]
  /\ UNCHANGED <<deployment, shutdown, inFlight, inMemory, inTable, saved, unsure>>

\* Fault: one name in the environment is taken for both.
WantedIfNone == IF named = {} THEN Stores ELSE {}
\* The tables to look up in SSM.
Wanted == Stores \ named

\* Any look at SSM may fail, or the AWS configuration does, and with it all.
FetchRemoteDefaults(p) ==
  /\ life[p] = "loaded"
  /\ To(p, "resolved")
  /\ \E answered \in SUBSET Wanted :
       IF region
       THEN /\ table' = [table EXCEPT ![p] = @ \cup (answered \cap inSSM)]
            /\ unsure' = [unsure EXCEPT ![p] = Wanted \ answered]
       ELSE UNCHANGED <<table, unsure>>
  /\ UNCHANGED <<deployment, shutdown, inFlight, inMemory, inTable, saved>>

\* The stores are made; nothing is asked of the tables.
New(p) ==
  /\ life[p] = "resolved"
  /\ complete \/ transport = "stdio"
  /\ To(p, "ready")
  /\ UNCHANGED <<deployment, table, shutdown, inFlight, inMemory, inTable, saved, unsure>>

\* A setting is missing, or the AWS configuration of a store cannot be loaded.
NewFails(p) ==
  /\ life[p] = "resolved"
  /\ ~complete \/ table[p] # {}
  /\ Exit(p, "failed")

\* A server that was shut down before it listens does not begin.
Serve(p) ==
  /\ life[p] = "ready" /\ shutdown[p] = "no"
  /\ To(p, "serving")
  /\ UNCHANGED <<deployment, table, shutdown, inFlight, inMemory, inTable, saved, unsure>>

\* The address is in use: os.Exit(1); or the process is killed.
Crash(p) ==
  /\ life[p] \notin Ended
  /\ Exit(p, "failed")

-----------------------------------------------------------------------------
(* Requests *)

\* Shutdown closes the listener; requests of open connections go on.
Arrives(p) ==
  /\ life[p] = "serving" /\ shutdown[p] = "no" /\ inFlight[p] < MaxInFlight
  /\ inFlight' = [inFlight EXCEPT ![p] = @ + 1]
  /\ UNCHANGED <<deployment, life, table, shutdown, inMemory, inTable, saved, unsure>>

Save(p, s) ==
  /\ inFlight[p] > 0
  /\ saved' = IF s \in unsure[p] THEN saved ELSE saved \cup {s}
  /\ IF s \in table[p]
     THEN inTable' = inTable \cup {s} /\ UNCHANGED inMemory
     ELSE inMemory' = [inMemory EXCEPT ![p] = @ \cup {s}] /\ UNCHANGED inTable
  /\ UNCHANGED <<deployment, life, table, shutdown, inFlight, unsure>>

Answers(p) ==
  /\ inFlight[p] > 0
  /\ inFlight' = [inFlight EXCEPT ![p] = @ - 1]
  /\ UNCHANGED <<deployment, life, table, shutdown, inMemory, inTable, saved, unsure>>

-----------------------------------------------------------------------------
(* The end *)

\* The goroutine that main starts just before it listens calls Shutdown.
Signal(p) ==
  /\ life[p] \in {"ready", "serving"} /\ transport = "http" /\ shutdown[p] = "no"
  /\ shutdown' = [shutdown EXCEPT ![p] = "draining"]
  /\ UNCHANGED <<deployment, life, table, inFlight, inMemory, inTable, saved, unsure>>

\* Nothing catches the signal in stdio mode, or while the process starts.
SignalKills(p) ==
  /\ life[p] \notin Ended /\ (transport = "stdio" \/ life[p] # "serving")
  /\ Exit(p, "failed")

\* Shutdown has waited for ten seconds.
DrainTimesOut(p) ==
  /\ shutdown[p] = "draining"
  /\ shutdown' = [shutdown EXCEPT ![p] = "timeout"]
  /\ UNCHANGED <<deployment, life, table, inFlight, inMemory, inTable, saved, unsure>>

\* ListenAndServe returns at once when Shutdown is called, and main after it.
Stop(p) ==
  /\ shutdown[p] # "no"
  /\ Exit(p, "stopped")

\* Standard input ends.
StdioEnds(p) ==
  /\ life[p] = "serving" /\ transport = "stdio"
  /\ Exit(p, "stopped")

LifeStep(p) ==
  \/ Load(p) \/ FetchRemoteDefaults(p) \/ New(p) \/ NewFails(p) \/ Serve(p) \/ Crash(p)
  \/ Arrives(p) \/ Answers(p)
  \/ \E s \in Stores : Save(p, s)
  \/ Signal(p) \/ SignalKills(p) \/ DrainTimesOut(p) \/ Stop(p) \/ StdioEnds(p)

LifeNext == \E p \in Procs : LifeStep(p)

LifeSpec == LifeInit /\ [][LifeNext]_lifeVars

\* main goes on when it can; nothing says that a request ends.
LifeFairness == \A p \in Procs : WF_lifeVars(Stop(p))

LifeFairSpec == LifeSpec /\ LifeFairness

-----------------------------------------------------------------------------
(* Properties *)

\* The tables a process of this deployment finds when SSM answers.
FoundTables == named \cup (IF region THEN inSSM ELSE {})

(***************************************************************************)
(* What was saved in a store whose table is named, in the environment or   *)
(* in SSM, is found by every process that serves afterwards: by the other  *)
(* replicas, and after a restart ("sessions will not survive a restart or  *)
(* span replicas" is said of the map only, config.go:44).  Exempt are the  *)
(* processes whose own look at SSM failed, which silently serve from a map *)
(* beside the others: what they save is lost with them, but what the       *)
(* others save is not.                                                     *)
(***************************************************************************)
SavedIsFound == \A p \in Procs, s \in FoundTables :
  life[p] = "serving" /\ s \in saved \ unsure[p] => s \in table[p] /\ s \in inTable

(***************************************************************************)
(* "Graceful shutdown" (main.go:77): a process that was told to stop ends  *)
(* only when it has answered the requests it was serving, or ten seconds   *)
(* have passed.                                                            *)
(***************************************************************************)
GracefulShutdown ==
  [][\A p \in Procs : life[p] # "stopped" /\ life'[p] = "stopped" /\ shutdown[p] # "no"
        => inFlight[p] = 0 \/ shutdown[p] = "timeout"]_lifeVars

\* Why: a table that is found at all is known from before the process serves.
TablesInOrder == \A p \in Procs :
  /\ life[p] # "serving" => inFlight[p] = 0 /\ inMemory[p] = {}
  /\ life[p] \notin {"ready", "serving"} => shutdown[p] = "no"
  /\ life[p] \notin Ended => named \subseteq table[p]
  /\ life[p] \in {"resolved", "ready", "serving"} => FoundTables \ unsure[p] \subseteq table[p]
  /\ unsure[p] \cap named = {}

\* Inductive invariant of the processes.
LifeIInv == LifeTypeOK /\ TablesInOrder /\ (saved \cap FoundTables \subseteq inTable)
=============================================================================
