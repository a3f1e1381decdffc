-------------------------- MODULE ServerLifeProofs --------------------------
(* Proofs about the server's processes (module ServerLife), for any number  *)
(* of replicas and of requests they serve.                                  *)
EXTENDS ServerLife, TLAPS

-----------------------------------------------------------------------------
(* Every step preserves the inductive invariant *)

LEMMA LifeStart == LifeInit => LifeIInv
<1> SUFFICES ASSUME LifeInit PROVE LifeIInv
  OBVIOUS
<1> USE MaxInFlightAssumption DEF LifeInit, Ended
<1>1. LifeTypeOK
  BY DEF LifeTypeOK
<1>2. TablesInOrder
  BY DEF TablesInOrder
<1> QED BY <1>1, <1>2 DEF LifeIInv

\* A process that ends takes nothing of the others' along.
LEMMA ExitSafe ==
  ASSUME LifeIInv, NEW p \in Procs, NEW how \in Ended, Exit(p, how)
  PROVE  LifeIInv'
<1> USE MaxInFlightAssumption DEF Exit, To, Ended, deployment, LifeIInv
<1>1. LifeTypeOK'
  BY DEF LifeTypeOK
<1>2. TablesInOrder'
  BY DEF TablesInOrder, FoundTables, LifeTypeOK
<1>3. (saved \cap FoundTables \subseteq inTable)'
  BY DEF FoundTables
<1> QED BY <1>1, <1>2, <1>3

\* The start: what is named in the environment and what SSM answers.
LEMMA LookupSafe ==
  ASSUME LifeIInv, NEW p \in Procs, FetchRemoteDefaults(p)
  PROVE  LifeIInv'
<1> USE MaxInFlightAssumption DEF To, Ended, deployment, LifeIInv, Wanted
<1>1. PICK answered \in SUBSET Wanted :
        IF region
        THEN /\ table' = [table EXCEPT ![p] = @ \cup (answered \cap inSSM)]
             /\ unsure' = [unsure EXCEPT ![p] = Wanted \ answered]
        ELSE UNCHANGED <<table, unsure>>
  BY DEF FetchRemoteDefaults
<1>2. LifeTypeOK'
  BY <1>1 DEF LifeTypeOK, FetchRemoteDefaults
<1>3. FoundTables' = FoundTables /\ named' = named
  BY DEF FoundTables, FetchRemoteDefaults
<1>4. named \subseteq table[p] /\ shutdown[p] = "no" /\ inFlight[p] = 0 /\ inMemory[p] = {}
  BY DEF FetchRemoteDefaults, TablesInOrder
<1>5. FoundTables \ unsure'[p] \subseteq table'[p] /\ unsure'[p] \cap named = {}
  BY <1>1, <1>4 DEF FoundTables, FetchRemoteDefaults, LifeTypeOK, TablesInOrder
<1>6. /\ \A q \in Procs : table[q] \subseteq table'[q]
      /\ \A q \in Procs \ {p} : unsure'[q] = unsure[q]
  BY <1>1 DEF LifeTypeOK
<1>7. TablesInOrder'
  BY <1>3, <1>4, <1>5, <1>6 DEF TablesInOrder, FetchRemoteDefaults, LifeTypeOK
<1>8. (saved \cap FoundTables \subseteq inTable)'
  BY <1>3 DEF FetchRemoteDefaults
<1> QED BY <1>2, <1>7, <1>8

LEMMA StartSafe ==
  ASSUME LifeIInv, NEW p \in Procs, Load(p) \/ New(p) \/ Serve(p)
  PROVE  LifeIInv'
<1> USE MaxInFlightAssumption DEF Load, New, Serve, To, Ended, deployment, LifeIInv
<1>1. LifeTypeOK'
  BY DEF LifeTypeOK
<1>2. UNCHANGED <<FoundTables, named>>
  BY DEF FoundTables
<1>3. TablesInOrder'
  <2>1. CASE Load(p)
    BY <2>1, <1>2 DEF TablesInOrder, LifeTypeOK
  <2>2. CASE New(p)
    BY <2>2, <1>2 DEF TablesInOrder, LifeTypeOK
  <2>3. CASE Serve(p)
    BY <2>3, <1>2 DEF TablesInOrder, LifeTypeOK
  <2> QED BY <2>1, <2>2, <2>3
<1>4. (saved \cap FoundTables \subseteq inTable)'
  BY <1>2
<1> QED BY <1>1, <1>3, <1>4

\* What a process saves in a store whose table is found goes to the table.
LEMMA SaveSafe ==
  ASSUME LifeIInv, NEW p \in Procs, NEW s \in Stores, Save(p, s)
  PROVE  LifeIInv'
<1> USE MaxInFlightAssumption DEF Save, Ended, deployment, LifeIInv
<1>1. life[p] = "serving"
  BY DEF TablesInOrder, LifeTypeOK
<1>2. LifeTypeOK'
  BY DEF LifeTypeOK
<1>3. UNCHANGED <<FoundTables, named>>
  BY DEF FoundTables
<1>4. TablesInOrder'
  BY <1>1, <1>3 DEF TablesInOrder, LifeTypeOK
<1>5. (saved \cap FoundTables \subseteq inTable)'
  BY <1>1, <1>3 DEF TablesInOrder
<1> QED BY <1>2, <1>4, <1>5

LEMMA ServeSafe ==
  ASSUME LifeIInv, NEW p \in Procs,
         Arrives(p) \/ Answers(p) \/ Signal(p) \/ DrainTimesOut(p)
  PROVE  LifeIInv'
<1> USE MaxInFlightAssumption
    DEF Arrives, Answers, Signal, DrainTimesOut, Ended, deployment, LifeIInv
<1>1. LifeTypeOK'
  BY DEF LifeTypeOK
<1>2. UNCHANGED <<FoundTables, named>>
  BY DEF FoundTables
<1>3. TablesInOrder'
  BY <1>2 DEF TablesInOrder, LifeTypeOK
<1>4. (saved \cap FoundTables \subseteq inTable)'
  BY <1>2
<1> QED BY <1>1, <1>3, <1>4

LEMMA LifePreserved == LifeIInv /\ [LifeNext]_lifeVars => LifeIInv'
<1> SUFFICES ASSUME LifeIInv, [LifeNext]_lifeVars PROVE LifeIInv'
  OBVIOUS
<1>1. CASE UNCHANGED lifeVars
  BY <1>1 DEF lifeVars, deployment, LifeIInv, LifeTypeOK, TablesInOrder, FoundTables
<1>2. ASSUME NEW p \in Procs, LifeStep(p) PROVE LifeIInv'
  <2>1. ASSUME NewFails(p) \/ Crash(p) \/ SignalKills(p) \/ Stop(p) \/ StdioEnds(p)
        PROVE  Exit(p, "failed") \/ Exit(p, "stopped")
    BY <2>1 DEF NewFails, Crash, SignalKills, Stop, StdioEnds
  <2>2. "failed" \in Ended /\ "stopped" \in Ended
    BY DEF Ended
  <2> QED BY <1>2, <2>1, <2>2, ExitSafe, LookupSafe, StartSafe, SaveSafe, ServeSafe
          DEF LifeStep
<1> QED BY <1>1, <1>2 DEF LifeNext

-----------------------------------------------------------------------------
(* Theorems *)

(***************************************************************************)
(* The inductive invariant of the processes: a process knows the tables    *)
(* that are found at all before it serves (FetchRemoteDefaults precedes    *)
(* server.New in main.go), and what was saved in them is there.            *)
(***************************************************************************)
THEOREM LifeInductive == LifeSpec => []LifeIInv
  BY LifeStart, LifePreserved, PTL DEF LifeSpec

(***************************************************************************)
(* What was saved in a store whose table is found is found by every        *)
(* process that serves, on any replica and after any restart.              *)
(***************************************************************************)
THEOREM SavedStaysFound == LifeSpec => []SavedIsFound
<1>1. LifeIInv => SavedIsFound
  BY DEF LifeIInv, TablesInOrder, SavedIsFound, FoundTables, LifeTypeOK
<1> QED BY <1>1, LifeInductive, PTL
=============================================================================
