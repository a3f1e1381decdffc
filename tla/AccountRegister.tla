-------------------------- MODULE AccountRegister ---------------------------
(***************************************************************************)
(* What the requests that save an account promise together: each saves one *)
(* request applied to ONE version that was current at some moment while    *)
(* the request ran.  A version is never a mixture of two requests, and a   *)
(* request that starts after a removal brings nothing removed back.  The   *)
(* creation time alone may come from another of those versions.            *)
(***************************************************************************)
EXTENDS Naturals

CONSTANTS Ops, Requests, Blank, NoSetting, NoAccount, NoRequest

VARIABLES
  clock,
  stored,  \* the stored account, or NoAccount
  req,     \* req[o]: what the request o saves, or NoRequest
  since    \* since[o]: the versions current since o started

regVars == <<clock, stored, req, since>>

Running(o) == req[o] # NoRequest

RegInit ==
  /\ req = [o \in Ops |-> NoRequest]
  /\ since = [o \in Ops |-> {}]

\* A request whose read fails proceeds as if there were no account.
Begin(o, r) ==
  /\ ~Running(o)
  /\ req' = [req EXCEPT ![o] = r]
  /\ \/ since' = [since EXCEPT ![o] = {stored}]
     \/ since' = [since EXCEPT ![o] = {stored, NoAccount}]
  /\ UNCHANGED <<clock, stored>>

GiveUp(o) ==
  /\ Running(o)
  /\ req' = [req EXCEPT ![o] = NoRequest]
  /\ since' = [since EXCEPT ![o] = {}]
  /\ UNCHANGED <<clock, stored>>

\* What an account says in a field; nothing if there is no account.
Old(base, field, none) == IF base = NoAccount THEN none ELSE base[field]

\* v is request r applied to version base.  A blank SMTP password falls back
\* to the one that was in use, then to the IMAP password; a created account
\* keeps no password.
Applied(v, r, base) ==
  LET imap == Old(base, "imap", Blank)
      smtp == Old(base, "smtp", Blank)
      used == IF r.kind = "create" THEN Blank ELSE IF smtp # Blank THEN smtp ELSE imap
  IN
  /\ v.setting = IF r.setting # NoSetting THEN r.setting ELSE Old(base, "setting", NoSetting)
  /\ v.imap = IF r.imap # Blank THEN r.imap ELSE imap
  /\ v.smtp = IF r.smtp # Blank THEN r.smtp ELSE IF used # Blank THEN used ELSE v.imap

\* The creation time of v is that of version age, if it had one.
Aged(v, age) ==
  IF Old(age, "created", 0) > 0 THEN v.created = age.created ELSE v.created \in 1..clock

Others(o, v) ==
  since' = [p \in Ops |-> IF p # o /\ Running(p) THEN since[p] \cup {v} ELSE {}]

Save(o) ==
  /\ Running(o)
  /\ stored' # NoAccount
  /\ \E base \in since[o] : Applied(stored', req[o], base)
  /\ \E age \in since[o] : Aged(stored', age)
  /\ req' = [req EXCEPT ![o] = NoRequest]
  /\ Others(o, stored')
  /\ UNCHANGED clock

Remove ==
  /\ stored # NoAccount
  /\ stored' = NoAccount
  /\ since' = [p \in Ops |-> IF Running(p) THEN since[p] \cup {NoAccount} ELSE {}]
  /\ UNCHANGED <<clock, req>>

Tick ==
  /\ clock' = clock + 1
  /\ UNCHANGED <<stored, req, since>>

RegNext ==
  \/ \E o \in Ops : Save(o) \/ GiveUp(o) \/ (\E r \in Requests : Begin(o, r))
  \/ Remove
  \/ Tick

RegSpec == RegInit /\ [][RegNext]_regVars
=============================================================================
