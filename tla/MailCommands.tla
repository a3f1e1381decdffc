---------------------------- MODULE MailCommands ----------------------------
(***************************************************************************)
(* What the mail requests of one account do with its connections           *)
(* (ListFolders, SearchEmails, GetEmail, MoveEmails, FlagEmails and        *)
(* DeleteEmails of internal/imap/pool.go).  A message is named by folder   *)
(* and UID, but an IMAP command names it by UID alone and means the folder *)
(* selected on its connection, which requests use one after the other.     *)
(*                                                                         *)
(* How connections are acquired and pooled is in ImapPool; here they are   *)
(* taken from the parked ones, dialled, parked again or closed.            *)
(***************************************************************************)
EXTENDS Integers, FiniteSets

CONSTANTS
  MailOps,   \* goroutines serving mail requests of one account
  MailConns, \* IMAP connections
  Folders,
  Inbox,
  NoFolder, NoMailConn, NoRequest

\* ListFolders; SearchEmails and GetEmail, which read; MoveEmails, FlagEmails
\* and DeleteEmails, which change.
MailRequests ==
  [kind : {"list"}, folder : {NoFolder}] \cup [kind : {"read", "change"}, folder : Folders]

ASSUME MailNoneAssumption ==
  /\ Inbox \in Folders /\ NoFolder \notin Folders
  /\ NoMailConn \notin MailConns /\ NoRequest \notin MailRequests

VARIABLES
  open,         \* the connections that are not closed
  selected,     \* selected[c]: the folder the server has selected on c
  lastSelected, \* lastSelected[c]: conn.lastSelected
  parked,       \* the connections in the idle list
  suspect,      \* history; connections whose last command failed
  step,         \* step[o]: where the request of o is
  asked,        \* asked[o]: the request
  held,         \* held[o]: its connection
  hadErr, released,
  actedOn       \* actedOn[o]: history; the folder its command meant

mailConnVars == <<open, selected, lastSelected, parked, suspect>>
requestVars == <<step, asked, held, hadErr, released, actedOn>>
commandVars == <<mailConnVars, requestVars>>

CommandsTypeOK ==
  /\ open \subseteq MailConns /\ parked \subseteq MailConns /\ suspect \subseteq MailConns
  /\ selected \in [MailConns -> Folders \cup {NoFolder}]
  /\ lastSelected \in [MailConns -> Folders \cup {NoFolder}]
  /\ step \in [MailOps -> {"idle", "acquire", "select", "command", "release"}]
  /\ asked \in [MailOps -> MailRequests \cup {NoRequest}]
  /\ held \in [MailOps -> MailConns \cup {NoMailConn}]
  /\ hadErr \in [MailOps -> BOOLEAN] /\ released \in [MailOps -> BOOLEAN]
  /\ actedOn \in [MailOps -> Folders \cup {NoFolder}]

CommandsInit ==
  /\ open = {} /\ parked = {} /\ suspect = {}
  /\ selected = [c \in MailConns |-> NoFolder]
  /\ lastSelected = [c \in MailConns |-> NoFolder]
  /\ step = [o \in MailOps |-> "idle"]
  /\ asked = [o \in MailOps |-> NoRequest]
  /\ held = [o \in MailOps |-> NoMailConn]
  /\ hadErr = [o \in MailOps |-> FALSE]
  /\ released = [o \in MailOps |-> FALSE]
  /\ actedOn = [o \in MailOps |-> NoFolder]

StepTo(o, label) == step' = [step EXCEPT ![o] = label]

CloseConn(c) ==
  /\ open' = open \ {c}
  /\ suspect' = suspect \ {c}
  /\ selected' = [selected EXCEPT ![c] = NoFolder]
  /\ lastSelected' = [lastSelected EXCEPT ![c] = NoFolder]

-----------------------------------------------------------------------------
(* A request gets a connection *)

\* Tool inputs name a folder, or none.
FolderOf(input) == IF input = NoFolder THEN Inbox ELSE input

\* A change of no messages is over before.
Ask(o, kind, input) ==
  /\ step[o] = "idle"
  /\ asked' = [asked EXCEPT ![o] = [kind |-> kind, folder |->
       IF kind = "list" THEN NoFolder ELSE FolderOf(input)]]
  /\ StepTo(o, "acquire")
  /\ UNCHANGED <<mailConnVars, held, hadErr, released, actedOn>>

\* Fault: no SELECT when the folder was the last one selected.
FirstIfSelected(c, r) ==
  IF r.kind = "list" \/ lastSelected[c] = r.folder THEN "command" ELSE "select"
\* Whatever was selected before is selected again.
First(c, r) == IF r.kind = "list" THEN "command" ELSE "select"

Hold(o, c) ==
  /\ step[o] = "acquire"
  /\ held' = [held EXCEPT ![o] = c]
  /\ StepTo(o, First(c, asked[o]))
  /\ UNCHANGED <<selected, lastSelected, suspect, asked, hadErr, released, actedOn>>

ReuseParked(o, c) ==
  /\ c \in parked
  /\ parked' = parked \ {c}
  /\ Hold(o, c)
  /\ UNCHANGED open

DialNew(o, c) ==
  /\ parked = {} /\ c \notin open /\ \A p \in MailOps : held[p] # c
  /\ open' = open \cup {c}
  /\ Hold(o, c)
  /\ UNCHANGED parked

AcquireFails(o) ==
  /\ step[o] = "acquire"
  /\ StepTo(o, "idle")
  /\ asked' = [asked EXCEPT ![o] = NoRequest]
  /\ UNCHANGED <<mailConnVars, held, hadErr, released, actedOn>>

\* It failed NOOP, or too many are parked, or the pool was dropped.
CloseParked(c) ==
  /\ c \in parked
  /\ parked' = parked \ {c}
  /\ CloseConn(c)
  /\ UNCHANGED requestVars

-----------------------------------------------------------------------------
(* SELECT and the command *)

\* Only searches and reads note the folder on the connection.
Notes(r) == r.kind = "read"

SelectFolder(o) ==
  LET f == asked[o].folder IN
  /\ step[o] = "select"
  /\ selected' = [selected EXCEPT ![held[o]] = f]
  /\ lastSelected' = IF Notes(asked[o]) THEN [lastSelected EXCEPT ![held[o]] = f]
                     ELSE lastSelected
  /\ StepTo(o, "command")
  /\ UNCHANGED <<open, parked, suspect, asked, held, hadErr, released, actedOn>>

\* Fault: the error does not reach the deferred Release.
ErrorUnnoticed(o) == UNCHANGED hadErr
NoteError(o) == hadErr' = [hadErr EXCEPT ![o] = TRUE]

SelectFails(o) ==
  /\ step[o] = "select"
  /\ selected' = [selected EXCEPT ![held[o]] = NoFolder]
  /\ suspect' = suspect \cup {held[o]}
  /\ NoteError(o)
  /\ StepTo(o, "release")
  /\ UNCHANGED <<open, lastSelected, parked, asked, held, released, actedOn>>

\* The server acts on the UIDs of the selected folder.  A SORT that fails and
\* the SEARCH sent instead of it (pool.go:555-567) are one command, which the
\* SEARCH decides: the failed SORT is not noted, in the code either.
CommandOk(o) ==
  /\ step[o] = "command"
  /\ actedOn' = [actedOn EXCEPT ![o] =
       IF asked[o].kind = "list" THEN NoFolder ELSE selected[held[o]]]
  /\ StepTo(o, "release")
  /\ UNCHANGED <<mailConnVars, asked, held, hadErr, released>>

\* The answer is NO, or there is none: the server may have acted.
CommandFails(o) ==
  /\ step[o] = "command" /\ asked[o].kind # "list"
  /\ \E f \in {NoFolder, selected[held[o]]} : actedOn' = [actedOn EXCEPT ![o] = f]
  /\ suspect' = suspect \cup {held[o]}
  /\ NoteError(o)
  /\ StepTo(o, "release")
  /\ UNCHANGED <<open, selected, lastSelected, parked, asked, held, released>>

\* ListFolders releases the connection itself, with an error.
ListFails(o) ==
  /\ step[o] = "command" /\ asked[o].kind = "list"
  /\ CloseConn(held[o])
  /\ released' = [released EXCEPT ![o] = TRUE]
  /\ StepTo(o, "release")
  /\ UNCHANGED <<parked, asked, held, hadErr, actedOn>>

-----------------------------------------------------------------------------
(* The deferred Release *)

ReleaseDeferred(o) == ~released[o]

Park(c) ==
  /\ parked' = parked \cup {c}
  /\ UNCHANGED <<open, selected, lastSelected, suspect>>

Finish(o) ==
  /\ step[o] = "release"
  /\ \/ ReleaseDeferred(o) /\ ~hadErr[o] /\ Park(held[o])
     \/ ReleaseDeferred(o) /\ hadErr[o] /\ CloseConn(held[o]) /\ UNCHANGED parked
     \/ ~ReleaseDeferred(o) /\ UNCHANGED mailConnVars
  /\ StepTo(o, "idle")
  /\ asked' = [asked EXCEPT ![o] = NoRequest]
  /\ held' = [held EXCEPT ![o] = NoMailConn]
  /\ hadErr' = [hadErr EXCEPT ![o] = FALSE]
  /\ released' = [released EXCEPT ![o] = FALSE]
  /\ actedOn' = [actedOn EXCEPT ![o] = NoFolder]

CommandsNext ==
  \/ \E o \in MailOps :
       \/ \E kind \in {"list", "read", "change"}, input \in Folders \cup {NoFolder} :
            Ask(o, kind, input)
       \/ \E c \in MailConns : ReuseParked(o, c) \/ DialNew(o, c)
       \/ AcquireFails(o)
       \/ SelectFolder(o) \/ SelectFails(o)
       \/ CommandOk(o) \/ CommandFails(o) \/ ListFails(o)
       \/ Finish(o)
  \/ \E c \in MailConns : CloseParked(c)

CommandsSpec == CommandsInit /\ [][CommandsNext]_commandVars

-----------------------------------------------------------------------------
(* Properties *)

(***************************************************************************)
(* A command acts on the folder its request names, however its connection  *)
(* was used before, by which request, and whatever failed on it ("we track *)
(* to reduce churn but still select each time for safety", pool.go:463):   *)
(* the UIDs a request names mean other messages in another folder.         *)
(***************************************************************************)
OnlyNamed == \A o \in MailOps :
  actedOn[o] # NoFolder => actedOn[o] = asked[o].folder

(***************************************************************************)
(* A connection that is parked can be used by the next request: it is not  *)
(* closed, nobody holds it, and no command on it failed or is unanswered,  *)
(* but for a SORT that the same request's SEARCH made up for.  Nor do two  *)
(* requests share one (the deferred Release of every request).             *)
(***************************************************************************)
Reusable ==
  /\ parked \subseteq open \ suspect
  /\ \A o \in MailOps : held[o] \notin parked
  /\ \A o, p \in MailOps : held[o] = held[p] /\ held[o] # NoMailConn => o = p

\* Where a request is: what it holds, what failed, what is selected.
HoldsInOrder ==
  /\ suspect \subseteq open
  /\ \A o \in MailOps :
       /\ step[o] \in {"idle", "acquire"} =>
            held[o] = NoMailConn /\ ~hadErr[o] /\ ~released[o] /\ actedOn[o] = NoFolder
       /\ step[o] # "idle" => asked[o] # NoRequest
       /\ step[o] \in {"select", "command"} =>
            /\ held[o] \in open \ suspect
            /\ ~hadErr[o] /\ ~released[o] /\ actedOn[o] = NoFolder
       /\ step[o] = "select" => asked[o].kind # "list"
       /\ step[o] = "command" /\ asked[o].kind # "list" =>
            selected[held[o]] = asked[o].folder
       /\ step[o] = "release" =>
            held[o] \in MailConns /\ (hadErr[o] \/ released[o] \/ held[o] \in open \ suspect)

\* Inductive invariant of the commands.
CommandsIInv == CommandsTypeOK /\ HoldsInOrder /\ OnlyNamed /\ Reusable
=============================================================================
