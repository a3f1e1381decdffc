----------------------------- MODULE Deadlines ------------------------------
(***************************************************************************)
(* Calls that stop waiting at a deadline while a goroutine of theirs goes  *)
(* on: the verification of an account (internal/server/verify.go, behind   *)
(* handleVerifyAccount of web.go), which checks IMAP and SMTP side by      *)
(* side, and the sending of a mail (internal/smtp/sender.go).              *)
(*                                                                         *)
(* A job is one check or one send.  Its caller waits for its worker, a     *)
(* goroutine it spawned, or for its context, whichever comes first.  Mail  *)
(* servers may answer, fail or stay silent for ever.                       *)
(***************************************************************************)
EXTENDS Integers

CONSTANTS
  Verifications,  \* requests to verify an account
  Sends           \* calls of send_email

Checks == Verifications \X {"imap", "smtp"}
Mails  == Sends \X {"send"}
Jobs   == Checks \cup Mails
Imap(j) == j[2] = "imap"
Mail(j) == j[2] = "send"

VARIABLES
  caller,  \* caller[j]: where the goroutine that answers for j is
  worker,  \* worker[j]: where the goroutine it spawned is
  result,  \* result[j]: what the worker returns; in errCh once it is at "end"
  ctx,     \* ctx[j]: timeoutCtx
  due,     \* due[j]: the instant of timeoutCtx's deadline has passed
  conn,    \* conn[j]: the connection of j
  guard,   \* guard[j]: the AfterFunc that closes it
  answer,  \* answer[j]: what the caller returns
  login,   \* login[j]: history; when the server took the credentials or mail
  reply    \* reply[q]: VerificationResult.Success sent for request q

vars == <<caller, worker, result, ctx, due, conn, guard, answer, login, reply>>

\* The places at which a caller is in the select of its wait.
Waiting == {"greeting", "login", "wait"}

TypeOK ==
  /\ caller \in [Jobs -> Waiting \cup
                   {"none", "start", "resolve", "dial", "tls", "arm", "close", "grace", "done"}]
  /\ worker \in [Jobs -> {"none", "dial", "tls", "arm", "greet", "talk",
                              "quit", "leave", "end"}]
  /\ result \in [Jobs -> {"none", "ok", "error"}]
  /\ ctx \in [Jobs -> {"none", "live", "done"}]
  /\ due \in [Jobs -> BOOLEAN]
  /\ conn \in [Jobs -> {"none", "open", "closed"}]
  /\ guard \in [Jobs -> {"none", "armed", "fired", "stopped"}]
  /\ answer \in [Jobs -> {"none", "ok", "failed", "timeout"}]
  /\ login \in [Jobs -> {"no", "intime", "late"}]
  /\ reply \in [Verifications -> {"none", "ok", "failed"}]

\* Any of the requests may have been made.
Init ==
  /\ \E made \in SUBSET (Verifications \cup Sends) :
       caller = [j \in Jobs |-> IF j[1] \in made THEN "start" ELSE "none"]
  /\ worker = [j \in Jobs |-> "none"]
  /\ result = [j \in Jobs |-> "none"]
  /\ ctx = [j \in Jobs |-> "none"]
  /\ due = [j \in Jobs |-> FALSE]
  /\ conn = [j \in Jobs |-> "none"]
  /\ guard = [j \in Jobs |-> "none"]
  /\ answer = [j \in Jobs |-> "none"]
  /\ login = [j \in Jobs |-> "no"]
  /\ reply = [q \in Verifications |-> "none"]

Live(j) == ctx[j] = "live"
Over(j) == ctx[j] = "done"

\* How a caller reports an error: by what its context says at that time.
Failure(j) == IF Over(j) THEN "timeout" ELSE "failed"

\* The caller returns a; the deferred cancel ends the context.
Return(j, a) ==
  /\ answer' = [answer EXCEPT ![j] = a]
  /\ caller' = [caller EXCEPT ![j] = "done"]
  /\ ctx' = [ctx EXCEPT ![j] = IF @ = "none" THEN "none" ELSE "done"]

-----------------------------------------------------------------------------
(***************************************************************************)
(* Time and the client.  A deadline passes; the context ends with it, or   *)
(* before it when the client leaves or the context of the whole request    *)
(* ends, which ends those of its jobs one after the other.                 *)
(***************************************************************************)
DeadlinePasses(j) ==
  /\ ctx[j] # "none" /\ ~due[j]
  /\ due' = [due EXCEPT ![j] = TRUE]
  /\ UNCHANGED <<caller, worker, result, ctx, conn, guard, answer, login, reply>>

ContextEnds(j) ==
  /\ Live(j)
  /\ ctx' = [ctx EXCEPT ![j] = "done"]
  /\ UNCHANGED <<caller, worker, result, due, conn, guard, answer, login, reply>>

\* The AfterFunc of the context closes the connection.
GuardFires(j) ==
  /\ guard[j] = "armed" /\ Over(j)
  /\ guard' = [guard EXCEPT ![j] = "fired"]
  /\ conn' = [conn EXCEPT ![j] = "closed"]
  /\ UNCHANGED <<caller, worker, result, ctx, due, answer, login, reply>>

-----------------------------------------------------------------------------
(***************************************************************************)
(* The start of a job.  A send has checked all of its input, the host      *)
(* included, before its context starts; a check resolves its host under    *)
(* the context.                                                            *)
(***************************************************************************)
Refuse(j) ==
  /\ caller[j] = "start"
  /\ Return(j, "failed")
  /\ UNCHANGED <<worker, result, due, conn, guard, login, reply>>

Begin(j) ==
  /\ caller[j] = "start"
  /\ ctx' = [ctx EXCEPT ![j] = "live"]
  /\ caller' = [caller EXCEPT ![j] = IF Mail(j) THEN "wait" ELSE "resolve"]
  /\ worker' = [worker EXCEPT ![j] = IF Mail(j) THEN "dial" ELSE "none"]
  /\ UNCHANGED <<result, due, conn, guard, answer, login, reply>>

Resolved(j) ==
  /\ caller[j] = "resolve"
  /\ caller' = [caller EXCEPT ![j] = IF Imap(j) THEN "dial" ELSE "wait"]
  /\ worker' = [worker EXCEPT ![j] = IF Imap(j) THEN "none" ELSE "dial"]
  /\ UNCHANGED <<result, ctx, due, conn, guard, answer, login, reply>>

ResolveFails(j) ==
  /\ caller[j] = "resolve"
  /\ Return(j, "failed")
  /\ UNCHANGED <<worker, result, due, conn, guard, login, reply>>

-----------------------------------------------------------------------------
(***************************************************************************)
(* dialVerifyConn: run by the caller of an IMAP check and by the worker of *)
(* an SMTP check.  The dial of a send is the mail library's and knows no   *)
(* context.                                                                *)
(***************************************************************************)
At(j, l) == IF Imap(j) THEN caller[j] = l ELSE worker[j] = l

Goto(j, l) ==
  IF Imap(j) THEN caller' = [caller EXCEPT ![j] = l] /\ UNCHANGED worker
             ELSE worker' = [worker EXCEPT ![j] = l] /\ UNCHANGED caller

\* The dialling goroutine leaves with an error.
ConnectFails(j) ==
  /\ IF Imap(j)
     THEN Return(j, Failure(j)) /\ UNCHANGED <<worker, result>>
     ELSE /\ worker' = [worker EXCEPT ![j] = "end"]
          /\ result' = [result EXCEPT ![j] = "error"]
          /\ UNCHANGED <<caller, ctx, answer>>
  /\ UNCHANGED <<due, guard, login, reply>>

Dialled(j) ==
  /\ ~Mail(j) /\ At(j, "dial") /\ Live(j)
  /\ conn' = [conn EXCEPT ![j] = "open"]
  /\ \E next \in {"tls", "arm"} : Goto(j, next)
  /\ UNCHANGED <<result, ctx, due, guard, answer, login, reply>>

MailDialled(j) ==
  /\ Mail(j) /\ worker[j] = "dial"
  /\ conn' = [conn EXCEPT ![j] = "open"]
  /\ worker' = [worker EXCEPT ![j] = "talk"]
  /\ UNCHANGED <<caller, result, ctx, due, guard, answer, login, reply>>

DialFails(j) == At(j, "dial") /\ ConnectFails(j) /\ UNCHANGED conn

Handshaken(j) ==
  /\ At(j, "tls") /\ Live(j)
  /\ Goto(j, "arm")
  /\ UNCHANGED <<result, ctx, due, conn, guard, answer, login, reply>>

HandshakeFails(j) ==
  /\ At(j, "tls")
  /\ ConnectFails(j)
  /\ conn' = [conn EXCEPT ![j] = "closed"]

\* setConnDeadline and AfterFunc; an IMAP check then waits for the greeting.
Arm(j) ==
  /\ At(j, "arm")
  /\ guard' = [guard EXCEPT ![j] = "armed"]
  /\ worker' = [worker EXCEPT ![j] = IF Imap(j) THEN "greet" ELSE "talk"]
  /\ caller' = [caller EXCEPT ![j] = IF Imap(j) THEN "greeting" ELSE @]
  /\ UNCHANGED <<result, ctx, due, conn, answer, login, reply>>

-----------------------------------------------------------------------------
(***************************************************************************)
(* The worker and the server.  Every reply it waits for may come, fail or  *)
(* never come; the connection of a check ends the wait when it is closed   *)
(* or past its deadline.                                                   *)
(***************************************************************************)
Cut(j) == ~Mail(j) /\ (conn[j] = "closed" \/ due[j])

\* The worker has its outcome: it still has a connection to close, or not.
Outcome(j, r, next) ==
  /\ result' = [result EXCEPT ![j] = r]
  /\ worker' = [worker EXCEPT ![j] = next]
  /\ UNCHANGED <<caller, ctx, due, guard, answer, reply>>

Greeted(j) ==
  /\ worker[j] = "greet" /\ conn[j] = "open"
  /\ Outcome(j, "ok", "end")
  /\ UNCHANGED <<conn, login>>

\* The server takes the credentials, or the mail.
Accepted(j) ==
  /\ worker[j] = "talk" /\ conn[j] = "open"
  /\ login' = [login EXCEPT ![j] = IF Live(j) THEN "intime" ELSE "late"]
  /\ Outcome(j, "ok", IF Imap(j) THEN "end" ELSE "quit")
  /\ UNCHANGED conn

TalkFails(j) ==
  /\ worker[j] \in {"greet", "talk"}
  /\ Outcome(j, "error", IF Imap(j) THEN "end" ELSE "leave")
  /\ UNCHANGED <<conn, login>>

\* QUIT: a check ignores its error, the mail library returns it.
Quit(j) ==
  /\ worker[j] = "quit"
  /\ \E r \in IF Mail(j) THEN {"ok", "error"} ELSE {"ok"} : Outcome(j, r, "leave")
  /\ UNCHANGED <<conn, login>>

\* Fault: the connection is left to the garbage collector.
LeaveOpen(j) ==
  /\ worker[j] = "leave"
  /\ worker' = [worker EXCEPT ![j] = "end"]
  /\ UNCHANGED <<caller, result, ctx, due, conn, guard, answer, login, reply>>

\* Fault: errCh without a buffer, so that a result needs its reader.
LeaveUnbuffered(j) ==
  /\ worker[j] = "leave" /\ caller[j] = "wait"
  /\ conn' = [conn EXCEPT ![j] = "closed"]
  /\ guard' = [guard EXCEPT ![j] = IF @ = "armed" THEN "stopped" ELSE @]
  /\ worker' = [worker EXCEPT ![j] = "end"]
  /\ UNCHANGED <<caller, result, ctx, due, answer, login, reply>>

\* The worker's deferred calls: close the connection, stop the AfterFunc.
Leave(j) ==
  /\ worker[j] = "leave"
  /\ conn' = [conn EXCEPT ![j] = "closed"]
  /\ guard' = [guard EXCEPT ![j] = IF @ = "armed" THEN "stopped" ELSE @]
  /\ worker' = [worker EXCEPT ![j] = "end"]
  /\ UNCHANGED <<caller, result, ctx, due, answer, login, reply>>

-----------------------------------------------------------------------------
(***************************************************************************)
(* The caller's select.  A check looks at its context again when it has    *)
(* the result; a send does not.                                            *)
(***************************************************************************)

\* Fault: the result counts whenever it comes.
NeverTooLate(j) == FALSE

TooLate(j) == Over(j) /\ ~Mail(j)

\* Fault: every caller returns at once.
ConcludeAtOnce(j, a) == Return(j, a)

\* Only the caller of an IMAP check has a connection to close.
Conclude(j, a) ==
  IF Imap(j)
  THEN /\ answer' = [answer EXCEPT ![j] = a]
       /\ caller' = [caller EXCEPT ![j] = "close"]
       /\ UNCHANGED ctx
  ELSE Return(j, a)

ContextWins(j) ==
  /\ caller[j] \in Waiting /\ Over(j)
  /\ Conclude(j, "timeout")
  /\ UNCHANGED <<worker, result, due, conn, guard, login, reply>>

ResultIn(j) == caller[j] \in Waiting /\ worker[j] = "end"

ResultFails(j) ==
  /\ ResultIn(j) /\ (TooLate(j) \/ result[j] = "error")
  /\ Conclude(j, IF Mail(j) THEN "failed" ELSE Failure(j))
  /\ UNCHANGED <<worker, result, due, conn, guard, login, reply>>

\* The greeting of an IMAP server has come: log in.
GreetingIn(j) ==
  /\ ResultIn(j) /\ ~TooLate(j) /\ result[j] = "ok" /\ caller[j] = "greeting"
  /\ caller' = [caller EXCEPT ![j] = "login"]
  /\ worker' = [worker EXCEPT ![j] = "talk"]
  /\ result' = [result EXCEPT ![j] = "none"]
  /\ UNCHANGED <<ctx, due, conn, guard, answer, login, reply>>

ResultOk(j) ==
  /\ ResultIn(j) /\ ~TooLate(j) /\ result[j] = "ok" /\ caller[j] # "greeting"
  /\ Conclude(j, "ok")
  /\ UNCHANGED <<worker, result, due, conn, guard, login, reply>>

\* closeIMAPClient closes the connection and waits for the client to close,
\* or verifyCloseGrace.
CloseClient(j) ==
  /\ caller[j] = "close"
  /\ conn' = [conn EXCEPT ![j] = "closed"]
  /\ caller' = [caller EXCEPT ![j] = "grace"]
  /\ UNCHANGED <<worker, result, ctx, due, guard, answer, login, reply>>

\* The client has closed, or the grace has passed: then the goroutine that
\* closes the client is left behind, which nothing here keeps track of.
GraceEnds(j) ==
  /\ caller[j] = "grace"
  /\ guard' = [guard EXCEPT ![j] = IF @ = "armed" THEN "stopped" ELSE @]
  /\ Return(j, answer[j])
  /\ UNCHANGED <<worker, result, due, conn, login, reply>>

\* VerifyAccountCredentials returns when both checks are done.
Reply(q) ==
  /\ reply[q] = "none"
  /\ \A j \in Checks : j[1] = q => caller[j] = "done"
  /\ reply' = [reply EXCEPT ![q] =
       IF \A j \in Checks : j[1] = q => answer[j] = "ok" THEN "ok" ELSE "failed"]
  /\ UNCHANGED <<caller, worker, result, ctx, due, conn, guard, answer, login>>

-----------------------------------------------------------------------------
CallerStep(j) ==
  \/ Refuse(j) \/ Begin(j) \/ Resolved(j) \/ ResolveFails(j)
  \/ ContextWins(j) \/ ResultFails(j) \/ GreetingIn(j) \/ ResultOk(j)
  \/ CloseClient(j) \/ GraceEnds(j)

WorkerStep(j) ==
  \/ Greeted(j) \/ Accepted(j) \/ TalkFails(j) \/ Quit(j) \/ Leave(j)

ConnectStep(j) ==
  \/ Dialled(j) \/ MailDialled(j) \/ DialFails(j)
  \/ Handshaken(j) \/ HandshakeFails(j) \/ Arm(j)

Next ==
  \/ \E j \in Jobs : DeadlinePasses(j) \/ ContextEnds(j) \/ GuardFires(j)
  \/ \E j \in Jobs : CallerStep(j)
  \/ \E j \in Jobs : ConnectStep(j)
  \/ \E j \in Jobs : WorkerStep(j)
  \/ \E q \in Verifications : Reply(q)

Spec == Init /\ [][Next]_vars

(***************************************************************************)
(* Fairness: clocks run, goroutines are scheduled, and network calls       *)
(* return once their context is over, their deadline has passed or their   *)
(* connection is closed.  Nothing is assumed of DNS and mail servers,      *)
(* except that the host lookup of a send, which has no deadline, returns.  *)
(***************************************************************************)
Interrupted(j) ==
  \/ Over(j) /\ ~Mail(j) /\ (ResolveFails(j) \/ DialFails(j) \/ HandshakeFails(j))
  \/ Cut(j) /\ (TalkFails(j) \/ Quit(j))

Local(j) ==
  \/ Refuse(j) \/ Begin(j) \/ Arm(j) \/ Leave(j)
  \/ ContextWins(j) \/ ResultFails(j) \/ GreetingIn(j) \/ ResultOk(j)
  \/ CloseClient(j) \/ GraceEnds(j)

Fairness ==
  /\ \A j \in Jobs :
       /\ WF_vars(DeadlinePasses(j))
       /\ WF_vars(due[j] /\ ContextEnds(j))
       /\ WF_vars(GuardFires(j))
       /\ WF_vars(Interrupted(j))
       /\ WF_vars(Local(j))
  /\ \A q \in Verifications : WF_vars(Reply(q))

FairSpec == Spec /\ Fairness

-----------------------------------------------------------------------------
(***************************************************************************)
(* What holds of a job between two of its goroutines' steps.               *)
(***************************************************************************)
Unstarted(j) == caller[j] \in {"none", "start", "resolve"}
Answered(j) == caller[j] \in {"close", "grace", "done"}

Places(j) ==
  /\ ctx[j] = "none" => caller[j] \in {"none", "start", "done"} /\ worker[j] = "none"
  /\ Unstarted(j) => worker[j] = "none" /\ conn[j] = "none"
  /\ caller[j] \in {"dial", "tls", "arm", "greeting", "login", "close", "grace"} => Imap(j)
  /\ caller[j] = "wait" => ~Imap(j)
  /\ Imap(j) /\ caller[j] \in {"dial", "tls", "arm"} => worker[j] = "none"
  /\ Imap(j) => worker[j] \in {"none", "greet", "talk", "end"}
  /\ worker[j] = "greet" => Imap(j) /\ caller[j] # "login"

Connections(j) ==
  /\ Imap(j) /\ caller[j] = "dial" => conn[j] = "none"
  /\ At(j, "tls") \/ At(j, "arm") \/ guard[j] # "none" => conn[j] # "none"
  /\ Imap(j) /\ caller[j] \in {"grace", "done"} => conn[j] # "open"
  /\ ~Imap(j) /\ worker[j] \in {"none", "dial", "end"} => conn[j] # "open"

Outcomes(j) ==
  /\ Unstarted(j) => result[j] = "none" /\ login[j] = "no"
  /\ worker[j] = "quit" => login[j] # "no"
  /\ result[j] = "ok" /\ caller[j] \in {"login", "wait"} => login[j] # "no"
  /\ login[j] = "late" => Over(j)
  /\ Answered(j) <=> answer[j] # "none"
  /\ answer[j] \in {"ok", "failed"} => worker[j] \in {"none", "end"}
  /\ answer[j] = "ok" => login[j] # "no" /\ (Mail(j) \/ login[j] = "intime")

Replies == \A j \in Checks :
  reply[j[1]] = "ok" => caller[j] = "done" /\ answer[j] = "ok"

IInv ==
  /\ TypeOK
  /\ \A j \in Jobs : Places(j) /\ Connections(j) /\ Outcomes(j)
  /\ Replies

-----------------------------------------------------------------------------
(***************************************************************************)
(* A check that reports success had its credentials accepted before its    *)
(* context ended, in whatever order the reply, the deadline and the close  *)
(* of the connection reached the three goroutines; a request reports       *)
(* success only if both checks did; a send only if the mail was taken.     *)
(***************************************************************************)
OkInTime ==
  /\ \A j \in Checks : answer[j] = "ok" => login[j] = "intime"
  /\ \A j \in Mails : answer[j] = "ok" => login[j] # "no"
  /\ \A j \in Checks : reply[j[1]] = "ok" => login[j] = "intime"

(***************************************************************************)
(* Only a timeout leaves work behind: when a caller has returned anything  *)
(* else, the job's worker is not running and its connection is not open;   *)
(* and an IMAP check leaves no open connection even then.  (The goroutine  *)
(* in which closeIMAPClient closes the client may outlive its grace,       *)
(* verify.go:314; it is not the worker, and not counted.)                  *)
(***************************************************************************)
OnlyTimeoutsLeaveWork == \A j \in Jobs :
  caller[j] = "done" /\ (worker[j] \notin {"none", "end"} \/ conn[j] = "open") =>
    answer[j] = "timeout" /\ (Imap(j) => conn[j] # "open")

(***************************************************************************)
(* Servers that never answer hold nobody up: every request is answered,    *)
(* and in the end a verification has no goroutine and no open connection   *)
(* left, whatever it reported.  (A send may: its worker has no deadline.)  *)
(***************************************************************************)
Quiet(j) == worker[j] \in {"none", "end"} /\ conn[j] # "open"
Settles ==
  /\ \A j \in Jobs : caller[j] = "start" => <>(caller[j] = "done")
  /\ \A j \in Checks : caller[j] = "start" => <>(reply[j[1]] # "none")
  /\ \A j \in Checks : <>[]Quiet(j)
=============================================================================
