--------------------------- MODULE AccountConfig ----------------------------
(***************************************************************************)
(* One stored account: the requests that save and remove it (addEmail-     *)
(* Account in emailmcp/internal/server/server.go, the portal's create,     *)
(* update and delete in web.go) over the two backends of the configuration *)
(* store (internal/config/store.go).                                       *)
(*                                                                         *)
(* A save reads the account, applies its request to the copy and puts the  *)
(* whole copy back; DynamoDB's PutUserConfig reads once more, for the      *)
(* creation time.  Nothing holds these steps together.  The host, port,    *)
(* names and TLS switches are one value, the setting.  DropPool, the last  *)
(* call of each handler, is in module ImapPool.                            *)
(***************************************************************************)
EXTENDS Integers, FiniteSets

CONSTANTS
  Ops,        \* goroutines, of any replica, serving saves
  Settings, Passwords,
  Blank,      \* the empty password
  NoSetting,  \* an update that leaves the setting alone
  MaxTime,    \* bound: when the clock stops
  MaxWrites,  \* bound: saves and removals
  NoAccount, NoRequest

Account == [setting : Settings, imap : Passwords \cup {Blank},
            smtp : Passwords \cup {Blank}, own : BOOLEAN, created : 0..MaxTime]

Requests ==
  [kind : {"add"}, setting : Settings, imap : {Blank}, smtp : {Blank}]
  \cup [kind : {"create"}, setting : Settings, imap : Passwords,
        smtp : Passwords \cup {Blank}]
  \cup [kind : {"update"}, setting : Settings \cup {NoSetting},
        imap : Passwords \cup {Blank}, smtp : Passwords \cup {Blank}]

ASSUME BoundsAssumption == MaxTime \in Nat \ {0} /\ MaxWrites \in Nat
ASSUME NoneAssumption ==
  /\ Blank \notin Passwords
  /\ NoSetting \notin Settings
  /\ NoAccount \notin Account
  /\ NoRequest \notin Requests

VARIABLES
  backend,  \* "memory" or "dynamo"
  now,
  stored,   \* the item of the account's key, or NoAccount
  writes,   \* saves and removals that landed, for the bound
  pc, req,  \* the request's place and what it gives
  draft,    \* the account it is about to put
  since     \* since[o]: history; the versions current since o's read

opVars == <<pc, req, draft, since>>
vars == <<backend, now, stored, writes, pc, req, draft, since>>

TypeOK ==
  /\ backend \in {"memory", "dynamo"}
  /\ now \in 1..MaxTime
  /\ stored \in Account \cup {NoAccount}
  /\ writes \in Nat
  /\ pc \in [Ops -> {"idle", "put", "write"}]
  /\ req \in [Ops -> Requests \cup {NoRequest}]
  /\ draft \in [Ops -> Account \cup {NoAccount}]
  /\ since \in [Ops -> SUBSET (Account \cup {NoAccount})]

\* Items that a former version wrote: no creation time, SMTP password optional.
Legacy == {a \in Account : a.imap # Blank /\ a.created = 0 /\ a.own = (a.smtp # Blank)}

Init ==
  /\ \/ backend = "memory" /\ stored = NoAccount
     \/ backend = "dynamo" /\ stored \in Legacy \cup {NoAccount}
  /\ now = 1
  /\ writes = 0
  /\ pc = [o \in Ops |-> "idle"]
  /\ req = [o \in Ops |-> NoRequest]
  /\ draft = [o \in Ops |-> NoAccount]
  /\ since = [o \in Ops |-> {}]

-----------------------------------------------------------------------------
(* The account in the hands of a handler *)

SmtpPassword(a) == IF a.smtp = Blank THEN a.imap ELSE a.smtp

\* toAccount: what GetUserConfig answers for a stored item.
ToAccount(item) == [item EXCEPT !.smtp = SmtpPassword(item)]

Empty == [setting |-> NoSetting, imap |-> Blank, smtp |-> Blank, own |-> FALSE,
          created |-> 0]

\* Fault: a new IMAP password is taken for the SMTP server too.
ChangedBoth(a, r) ==
  [setting |-> IF r.setting = NoSetting THEN a.setting ELSE r.setting,
   imap |-> IF r.imap = Blank THEN a.imap ELSE r.imap,
   smtp |-> IF r.smtp # Blank THEN r.smtp ELSE IF r.imap = Blank THEN a.smtp ELSE r.imap,
   own |-> a.own \/ r.smtp # Blank,
   created |-> 0]

\* A request's non-empty fields replace those of a.  own is history: the
\* SMTP password was given for itself, once.
Changed(a, r) ==
  [setting |-> IF r.setting = NoSetting THEN a.setting ELSE r.setting,
   imap |-> IF r.imap = Blank THEN a.imap ELSE r.imap,
   smtp |-> IF r.smtp = Blank THEN a.smtp ELSE r.smtp,
   own |-> a.own \/ r.smtp # Blank,
   created |-> 0]

\* Fault: every save renews the creation time.
ItemCreatedNow(a) == [a EXCEPT !.smtp = SmtpPassword(a), !.created = now]
\* Fault: an empty SMTP password is stored as it is.
ItemRaw(a) ==
  [a EXCEPT !.created = IF stored # NoAccount /\ stored.created > 0
                        THEN stored.created ELSE now]
\* The item a put writes: SMTP password filled in, creation time preserved.
Item(a) ==
  [a EXCEPT !.smtp = SmtpPassword(a),
            !.created = IF stored # NoAccount /\ stored.created > 0
                        THEN stored.created ELSE now]

Running(o) == pc[o] # "idle"

Return(o) ==
  /\ pc' = [pc EXCEPT ![o] = "idle"]
  /\ req' = [req EXCEPT ![o] = NoRequest]
  /\ draft' = [draft EXCEPT ![o] = NoAccount]

\* A save of o, or a removal (NoRequest), leaves v in the store.
Landed(v, others) ==
  /\ stored' = v
  /\ writes' = writes + 1
  /\ since' = [p \in Ops |-> IF p \in others /\ Running(p) THEN since[p] \cup {v} ELSE {}]
  /\ UNCHANGED <<backend, now>>

Spare == writes + Cardinality({o \in Ops : Running(o)}) < MaxWrites

-----------------------------------------------------------------------------
(* The handlers *)

\* The handler goes on with draft a, having seen one of the versions seen.
Prepare(o, r, a, seen) ==
  /\ ~Running(o) /\ Spare
  /\ pc' = [pc EXCEPT ![o] = "put"]
  /\ req' = [req EXCEPT ![o] = r]
  /\ draft' = [draft EXCEPT ![o] = Changed(a, r)]
  /\ since' = [since EXCEPT ![o] = seen]
  /\ UNCHANGED <<backend, now, stored, writes>>

\* addEmailAccount keeps the stored passwords...
Add(o, r) ==
  /\ r.kind = "add"
  /\ LET old == IF stored = NoAccount THEN Empty ELSE ToAccount(stored) IN
     Prepare(o, r, old, {stored})

\* ...unless its read fails: any error is taken for "no such account".
AddReadFails(o, r) ==
  /\ r.kind = "add"
  /\ backend = "dynamo"
  /\ Prepare(o, r, Empty, {stored, NoAccount})

\* handleCreateAccount does not read: it replaces what is there.
Create(o, r) ==
  /\ r.kind = "create"
  /\ Prepare(o, r, Empty, {stored})

\* handleUpdateAccount; the account is not found, or its read fails: no step.
Update(o, r) ==
  /\ r.kind = "update"
  /\ stored # NoAccount
  /\ Prepare(o, r, ToAccount(stored), {stored})

\* The endpoints are refused (portal only), or DynamoDB reports an error.
GiveUp(o) ==
  /\ Running(o)
  /\ backend = "dynamo" \/ req[o].kind # "add"
  /\ Return(o)
  /\ since' = [since EXCEPT ![o] = {}]
  /\ UNCHANGED <<backend, now, stored, writes>>

\* memoryStore.PutUserConfig: one critical section.
Put(o) ==
  /\ backend = "memory"
  /\ pc[o] = "put"
  /\ Return(o)
  /\ Landed(Item(draft[o]), Ops \ {o})

\* dynamoStore.PutUserConfig: getItem for the creation time...
Stamp(o) ==
  /\ backend = "dynamo"
  /\ pc[o] = "put"
  /\ pc' = [pc EXCEPT ![o] = "write"]
  /\ draft' = [draft EXCEPT ![o] = Item(draft[o])]
  /\ UNCHANGED <<backend, now, stored, writes, req, since>>

\* ...then PutItem, whatever its answer says.
Write(o) ==
  /\ pc[o] = "write"
  /\ Return(o)
  /\ Landed(draft[o], Ops \ {o})

\* DeleteUserConfig, for removeEmailAccount and handleDeleteAccount.
Remove ==
  /\ stored # NoAccount
  /\ Spare
  /\ Landed(NoAccount, Ops)
  /\ UNCHANGED <<pc, req, draft>>

Tick ==
  /\ now < MaxTime
  /\ now' = now + 1
  /\ UNCHANGED <<backend, stored, writes, opVars>>

Next ==
  \/ \E o \in Ops, r \in Requests :
       Add(o, r) \/ AddReadFails(o, r) \/ Create(o, r) \/ Update(o, r)
  \/ \E o \in Ops : GiveUp(o) \/ Put(o) \/ Stamp(o) \/ Write(o)
  \/ Remove
  \/ Tick

Spec == Init /\ [][Next]_vars

-----------------------------------------------------------------------------
(* Properties *)

Register == INSTANCE AccountRegister WITH clock <- now

(***************************************************************************)
(* Whatever reads, puts and removals interleave, a stored account is one   *)
(* request applied to one version that was current while the request ran:  *)
(* a lost update loses a whole request, never half of one, and no request  *)
(* that starts after a removal brings anything removed back.               *)
(***************************************************************************)
ImplementsRegister == Register!RegSpec

(***************************************************************************)
(* A save during which no other save or removal landed, and whose read did *)
(* not fail, keeps every field its request leaves empty, the creation time *)
(* included, and sets the others.                                          *)
(***************************************************************************)
Keeps(new, old, r) ==
  LET was == ToAccount(old) IN
  /\ r.setting = NoSetting => new.setting = was.setting
  /\ r.kind # "create" /\ r.imap = Blank => new.imap = was.imap
  /\ r.kind # "create" /\ r.smtp = Blank /\ was.smtp # Blank => new.smtp = was.smtp
  /\ old.created > 0 => new.created = old.created
  /\ r.setting # NoSetting => new.setting = r.setting
  /\ r.imap # Blank => new.imap = r.imap
  /\ r.smtp # Blank => new.smtp = r.smtp

Saved(o) == writes' # writes /\ Running(o) /\ ~Running(o)'

UndisturbedKeeps ==
  [][\A o \in Ops, old \in Account :
       Saved(o) /\ since[o] = {old} => Keeps(stored', old, req[o])]_vars

(***************************************************************************)
(* "Leave blank to use IMAP password" (account-form.component.ts:312): as  *)
(* long as no SMTP password was ever given, mail is sent with the IMAP     *)
(* password.  It is false: the first put stores a copy of the IMAP         *)
(* password, and a later change of the IMAP password leaves the copy.      *)
(***************************************************************************)
BlankMeansImap ==
  stored # NoAccount /\ ~stored.own => SmtpPassword(stored) = stored.imap


(***************************************************************************)
(* The inductive invariant.  The account a request is about to put is its  *)
(* request applied to one version current since its start, the current one *)
(* among them; before PutItem it carries the creation time of one of them. *)
(***************************************************************************)
Draws(o) ==
  \E base \in since[o] :
    /\ req[o].kind = "update" => base # NoAccount
    /\ draft[o] = Changed(IF base = NoAccount \/ req[o].kind = "create" THEN Empty
                          ELSE ToAccount(base), req[o])

RequestSound(o) ==
  /\ Running(o) <=> req[o] # NoRequest
  /\ IF Running(o) THEN stored \in since[o] ELSE since[o] = {}
  /\ Running(o) => draft[o] # NoAccount
  /\ pc[o] = "put" => Draws(o)
  /\ pc[o] = "write" =>
       /\ \E base \in since[o] : Register!Applied(draft[o], req[o], base)
       /\ \E age \in since[o] : Register!Aged(draft[o], age)

RequestInv == \A o \in Ops : RequestSound(o)

IInv == TypeOK /\ RequestInv
=============================================================================
