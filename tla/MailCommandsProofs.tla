------------------------- MODULE MailCommandsProofs -------------------------
(* Proofs about the mail requests of one account (module MailCommands), for *)
(* any number of requests, connections and folders.                         *)
EXTENDS MailCommands, TLAPS

-----------------------------------------------------------------------------
(* Every step preserves the inductive invariant *)

LEMMA CommandsStart == CommandsInit => CommandsIInv
<1> SUFFICES ASSUME CommandsInit PROVE CommandsIInv
  OBVIOUS
<1> USE MailNoneAssumption DEF CommandsInit
<1>1. CommandsTypeOK
  BY DEF CommandsTypeOK
<1>2. HoldsInOrder /\ OnlyNamed /\ Reusable
  BY DEF HoldsInOrder, OnlyNamed, Reusable
<1> QED BY <1>1, <1>2 DEF CommandsIInv

LEMMA AskSafe ==
  ASSUME CommandsIInv, NEW o \in MailOps, NEW kind \in {"list", "read", "change"},
         NEW input \in Folders \cup {NoFolder}, Ask(o, kind, input)
  PROVE  CommandsIInv'
<1> USE MailNoneAssumption DEF CommandsIInv, Ask, StepTo, mailConnVars
<1>1. asked' \in [MailOps -> MailRequests \cup {NoRequest}]
  BY DEF CommandsTypeOK, MailRequests, FolderOf
<1>2. asked'[o] # NoRequest /\ \A p \in MailOps : p # o => asked'[p] = asked[p]
  BY DEF CommandsTypeOK, MailRequests, FolderOf
<1>3. CommandsTypeOK'
  BY <1>1 DEF CommandsTypeOK
<1>4. HoldsInOrder'
  BY <1>2 DEF HoldsInOrder, CommandsTypeOK
<1>5. OnlyNamed' /\ Reusable'
  BY <1>2 DEF HoldsInOrder, OnlyNamed, Reusable, CommandsTypeOK
<1> QED BY <1>3, <1>4, <1>5

\* A request that gets a connection that is fine and that nobody holds.
LEMMA HoldSafe ==
  ASSUME CommandsIInv, NEW o \in MailOps, NEW c \in MailConns, Hold(o, c),
         open' \in SUBSET MailConns, parked' \in SUBSET MailConns,
         open \subseteq open', parked' \subseteq parked,
         c \in open' \ suspect, c \notin parked', \A p \in MailOps : held[p] # c
  PROVE  CommandsIInv'
<1> USE MailNoneAssumption DEF CommandsIInv, Hold, StepTo, First
<1>1. CommandsTypeOK'
  BY DEF CommandsTypeOK
<1>2. held'[o] = c /\ step'[o] \in {"select", "command"}
        /\ (step'[o] = "command" => asked[o].kind = "list")
  BY DEF CommandsTypeOK
<1>3. \A p \in MailOps : p # o => held'[p] = held[p] /\ step'[p] = step[p]
  BY DEF CommandsTypeOK
<1>4. HoldsInOrder'
  BY <1>2, <1>3 DEF HoldsInOrder
<1>5. OnlyNamed' /\ Reusable'
  BY <1>2, <1>3 DEF OnlyNamed, Reusable, CommandsTypeOK
<1> QED BY <1>1, <1>4, <1>5

LEMMA AcquireSafe ==
  ASSUME CommandsIInv, NEW o \in MailOps, NEW c \in MailConns,
         ReuseParked(o, c) \/ DialNew(o, c)
  PROVE  CommandsIInv'
<1>1. CASE ReuseParked(o, c)
  <2>1. c \in open \ suspect /\ \A p \in MailOps : held[p] # c
    BY <1>1 DEF ReuseParked, CommandsIInv, Reusable
  <2> QED BY <1>1, <2>1, HoldSafe DEF ReuseParked, CommandsIInv, CommandsTypeOK
<1>2. CASE DialNew(o, c)
  <2>1. c \notin parked
    BY <1>2 DEF DialNew, CommandsIInv
  <2>2. c \notin suspect
    BY <1>2 DEF DialNew, CommandsIInv, HoldsInOrder
  <2> QED BY <1>2, <2>1, <2>2, HoldSafe DEF DialNew, CommandsIInv, CommandsTypeOK
<1> QED BY <1>1, <1>2

LEMMA CloseParkedSafe ==
  ASSUME CommandsIInv, NEW c \in MailConns, CloseParked(c)
  PROVE  CommandsIInv'
<1> USE MailNoneAssumption DEF CommandsIInv, CloseParked, CloseConn, requestVars
<1>1. \A p \in MailOps : held[p] # c
  BY DEF Reusable
<1>2. CommandsTypeOK'
  BY DEF CommandsTypeOK
<1>3. \A p \in MailOps : selected'[held[p]] = selected[held[p]] \/ held[p] \notin MailConns
  BY <1>1 DEF CommandsTypeOK
<1>4. HoldsInOrder'
  BY <1>1, <1>3 DEF HoldsInOrder, CommandsTypeOK
<1>5. OnlyNamed' /\ Reusable'
  BY <1>1 DEF OnlyNamed, Reusable
<1> QED BY <1>2, <1>4, <1>5

\* The steps of a request between its connection and its release.
LEMMA CommandSafe ==
  ASSUME CommandsIInv, NEW o \in MailOps,
         SelectFolder(o) \/ SelectFails(o) \/ CommandOk(o) \/ CommandFails(o) \/ ListFails(o)
  PROVE  CommandsIInv'
<1> USE MailNoneAssumption DEF CommandsIInv
<1>1. step[o] \in {"select", "command"} /\ asked[o] \in MailRequests
  BY DEF SelectFolder, SelectFails, CommandOk, CommandFails, ListFails, HoldsInOrder,
         CommandsTypeOK
<1>2. held[o] \in open \ suspect /\ ~hadErr[o] /\ ~released[o] /\ actedOn[o] = NoFolder
  BY <1>1 DEF HoldsInOrder
<1>3. held[o] \in MailConns /\ held[o] \notin parked
  BY <1>2 DEF Reusable, CommandsTypeOK
<1>4. \A p \in MailOps : p # o => held[p] # held[o]
  BY <1>3 DEF Reusable
<1>5. asked[o].kind # "list" => asked[o].folder \in Folders
  BY <1>1 DEF MailRequests
<1>6. CASE SelectFolder(o)
  <2> USE <1>6 DEF SelectFolder, StepTo
  <2>0. asked[o].kind # "list"
    BY DEF HoldsInOrder
  <2>1. CommandsTypeOK'
    BY <1>5, <2>0 DEF CommandsTypeOK
  <2>2. HoldsInOrder'
    BY <1>2, <1>3, <1>4 DEF HoldsInOrder, CommandsTypeOK
  <2>3. OnlyNamed' /\ Reusable'
    BY DEF OnlyNamed, Reusable
  <2> QED BY <2>1, <2>2, <2>3
<1>7. CASE SelectFails(o)
  <2> USE <1>7 DEF SelectFails, NoteError, StepTo
  <2>1. CommandsTypeOK'
    BY <1>3 DEF CommandsTypeOK
  <2>2. HoldsInOrder'
    BY <1>2, <1>3, <1>4 DEF HoldsInOrder, CommandsTypeOK
  <2>3. OnlyNamed' /\ Reusable'
    BY <1>3 DEF OnlyNamed, Reusable
  <2> QED BY <2>1, <2>2, <2>3
<1>8. CASE CommandOk(o)
  <2> USE <1>8 DEF CommandOk, StepTo, mailConnVars
  <2>1. CommandsTypeOK'
    BY <1>3 DEF CommandsTypeOK
  <2>2. HoldsInOrder'
    BY <1>2, <1>3, <1>4 DEF HoldsInOrder, CommandsTypeOK
  <2>3. OnlyNamed' /\ Reusable'
    BY DEF OnlyNamed, Reusable, HoldsInOrder, CommandsTypeOK
  <2> QED BY <2>1, <2>2, <2>3
<1>9. CASE CommandFails(o)
  <2> USE <1>9 DEF CommandFails, NoteError, StepTo
  <2>1. CommandsTypeOK'
    BY <1>3 DEF CommandsTypeOK
  <2>2. HoldsInOrder'
    BY <1>2, <1>3, <1>4 DEF HoldsInOrder, CommandsTypeOK
  <2>3. OnlyNamed' /\ Reusable'
    BY <1>3 DEF OnlyNamed, Reusable, HoldsInOrder, CommandsTypeOK
  <2> QED BY <2>1, <2>2, <2>3
<1>10. CASE ListFails(o)
  <2> USE <1>10 DEF ListFails, CloseConn, StepTo
  <2>1. CommandsTypeOK'
    BY <1>3 DEF CommandsTypeOK
  <2>2. HoldsInOrder'
    BY <1>2, <1>3, <1>4 DEF HoldsInOrder, CommandsTypeOK
  <2>3. OnlyNamed' /\ Reusable'
    BY <1>3 DEF OnlyNamed, Reusable
  <2> QED BY <2>1, <2>2, <2>3
<1> QED BY <1>6, <1>7, <1>8, <1>9, <1>10

\* The deferred Release: it parks only what no command failed on.
LEMMA FinishSafe ==
  ASSUME CommandsIInv, NEW o \in MailOps, Finish(o)
  PROVE  CommandsIInv'
<1> USE MailNoneAssumption DEF CommandsIInv, Finish, StepTo
<1>1. held[o] \in MailConns /\ held[o] \notin parked
        /\ (hadErr[o] \/ released[o] \/ held[o] \in open \ suspect)
  BY DEF HoldsInOrder, Reusable
<1>2. \A p \in MailOps : p # o => held[p] # held[o]
  BY <1>1 DEF Reusable
<1>3. \A p \in MailOps : p # o =>
        /\ held'[p] = held[p] /\ step'[p] = step[p] /\ asked'[p] = asked[p]
        /\ hadErr'[p] = hadErr[p] /\ released'[p] = released[p] /\ actedOn'[p] = actedOn[p]
  BY DEF CommandsTypeOK
<1>4. /\ held'[o] = NoMailConn /\ step'[o] = "idle" /\ actedOn'[o] = NoFolder
      /\ ~hadErr'[o] /\ ~released'[o]
  BY DEF CommandsTypeOK
<1>5. \/ UNCHANGED mailConnVars
      \/ Park(held[o]) /\ held[o] \in open \ suspect
      \/ CloseConn(held[o]) /\ UNCHANGED parked
  BY <1>1 DEF ReleaseDeferred
<1>6. CommandsTypeOK'
  BY <1>1, <1>5 DEF CommandsTypeOK, Park, CloseConn, mailConnVars
<1>7. \A c \in MailConns : c # held[o] =>
        /\ selected'[c] = selected[c]
        /\ c \in open' <=> c \in open
        /\ c \in suspect' <=> c \in suspect
        /\ c \in parked' <=> c \in parked
  BY <1>5 DEF CommandsTypeOK, Park, CloseConn, mailConnVars
<1>8. suspect' \subseteq open' /\ parked' \subseteq open' \ suspect'
  BY <1>1, <1>5 DEF HoldsInOrder, Reusable, Park, CloseConn, mailConnVars
<1>9. HoldsInOrder'
  BY <1>2, <1>3, <1>4, <1>7, <1>8 DEF HoldsInOrder, CommandsTypeOK
<1>10. OnlyNamed'
  BY <1>3, <1>4 DEF OnlyNamed
<1>11. ASSUME NEW p \in MailOps PROVE held'[p] \notin parked'
  <2>1. CASE p = o
    BY <2>1, <1>4, <1>6 DEF CommandsTypeOK
  <2>2. CASE p # o
    <3>1. held'[p] = held[p] /\ held[p] # held[o] /\ held[p] \notin parked
      BY <2>2, <1>2, <1>3 DEF Reusable
    <3> QED BY <3>1, <1>6, <1>7 DEF CommandsTypeOK
  <2> QED BY <2>1, <2>2
<1>12. \A p, q \in MailOps : held'[p] = held'[q] /\ held'[p] # NoMailConn => p = q
  BY <1>3, <1>4 DEF Reusable
<1>13. Reusable'
  BY <1>8, <1>11, <1>12 DEF Reusable
<1> QED BY <1>6, <1>9, <1>10, <1>13

LEMMA CommandsStep == CommandsIInv /\ [CommandsNext]_commandVars => CommandsIInv'
<1> SUFFICES ASSUME CommandsIInv, [CommandsNext]_commandVars PROVE CommandsIInv'
  OBVIOUS
<1>1. ASSUME NEW o \in MailOps, AcquireFails(o) PROVE CommandsIInv'
  BY <1>1, MailNoneAssumption
     DEF CommandsIInv, AcquireFails, StepTo, mailConnVars, CommandsTypeOK, HoldsInOrder,
         OnlyNamed, Reusable
<1>2. CASE UNCHANGED commandVars
  BY <1>2 DEF commandVars, mailConnVars, requestVars, CommandsIInv, CommandsTypeOK,
              HoldsInOrder, OnlyNamed, Reusable
<1> QED BY <1>1, <1>2, AskSafe, AcquireSafe, CloseParkedSafe, CommandSafe, FinishSafe
        DEF CommandsNext

-----------------------------------------------------------------------------
(* Theorems *)

(***************************************************************************)
(* The inductive invariant of the mail requests: what a request holds and  *)
(* what failed on it, between acquire and the deferred Release (pool.go).  *)
(***************************************************************************)
THEOREM CommandsInductive == CommandsSpec => []CommandsIInv
  BY CommandsStart, CommandsStep, PTL DEF CommandsSpec

(***************************************************************************)
(* A command acts on the folder its request names: every request selects   *)
(* its folder, whatever lastSelected says.                                 *)
(***************************************************************************)
THEOREM CommandsActOnNamed == CommandsSpec => []OnlyNamed
<1>1. CommandsIInv => OnlyNamed
  BY DEF CommandsIInv
<1> QED BY <1>1, CommandsInductive, PTL

(***************************************************************************)
(* A parked connection is open, nobody's, and no command failed on it: the *)
(* deferred Release looks at hadErr and released.                          *)
(***************************************************************************)
THEOREM ParkedReusable == CommandsSpec => []Reusable
<1>1. CommandsIInv => Reusable
  BY DEF CommandsIInv
<1> QED BY <1>1, CommandsInductive, PTL
=============================================================================
