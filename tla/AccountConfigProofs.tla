------------------------ MODULE AccountConfigProofs -------------------------
(***************************************************************************)
(* For any number of requests, settings and passwords, without bounds: the *)
(* account requests of AccountConfig keep their inductive invariant and    *)
(* implement AccountRegister.                                              *)
(***************************************************************************)
EXTENDS AccountConfig, TLAPS

Typed(a) ==
  /\ a = [setting |-> a.setting, imap |-> a.imap, smtp |-> a.smtp, own |-> a.own,
          created |-> a.created]
  /\ a.setting \in Settings /\ a.imap \in Passwords \cup {Blank}
  /\ a.smtp \in Passwords \cup {Blank} /\ a.own \in BOOLEAN /\ a.created \in 0..MaxTime

\* An account is its five fields.
LEMMA Fields == \A a : a \in Account <=> Typed(a)
BY DEF Account, Typed

\* What a request can be: the kinds and the fields each kind gives.
LEMMA RequestFields ==
  ASSUME NEW r \in Requests
  PROVE  /\ r.kind \in {"add", "create", "update"}
         /\ r.setting \in Settings \cup {NoSetting}
         /\ r.setting = NoSetting => r.kind = "update"
         /\ r.imap \in Passwords \cup {Blank}
         /\ r.smtp \in Passwords \cup {Blank}
         /\ r # NoRequest
BY NoneAssumption DEF Requests

\* The account a handler starts from: a stored one as it is read, or an empty one.
LEMMA ReadFields ==
  ASSUME NEW v \in Account
  PROVE  ToAccount(v) \in Account
BY Fields DEF ToAccount, SmtpPassword, Account

\* Applying a request to a version gives an account without a creation time.
LEMMA ChangedFields ==
  ASSUME NEW r \in Requests, NEW a \in Account \cup {Empty},
         r.kind = "update" => a \in Account
  PROVE  Changed(a, r) \in Account
<1>1. a.setting \in Settings \/ r.setting \in Settings
  BY RequestFields DEF Account
<1>2. /\ a.imap \in Passwords \cup {Blank}
      /\ a.smtp \in Passwords \cup {Blank}
      /\ a.own \in BOOLEAN
  <2>1. CASE a \in Account
    BY <2>1 DEF Account
  <2>2. CASE a = Empty
    BY <2>2 DEF Empty
  <2> QED
    BY <2>1, <2>2
<1>3. r.setting \in Settings \cup {NoSetting} /\ r.imap \in Passwords \cup {Blank}
      /\ r.smtp \in Passwords \cup {Blank}
  BY RequestFields
<1>4. /\ (IF r.setting = NoSetting THEN a.setting ELSE r.setting) \in Settings
      /\ (IF r.imap = Blank THEN a.imap ELSE r.imap) \in Passwords \cup {Blank}
      /\ (IF r.smtp = Blank THEN a.smtp ELSE r.smtp) \in Passwords \cup {Blank}
  BY <1>1, <1>2, <1>3, NoneAssumption, RequestFields
<1>5. (a.own \/ r.smtp # Blank) \in BOOLEAN /\ 0 \in 0..MaxTime
  BY <1>2, BoundsAssumption
<1> QED
  BY <1>4, <1>5 DEF Changed, Account

\* The item of an account is an account with a creation time in the past.
LEMMA ItemFields ==
  ASSUME TypeOK, NEW a \in Account
  PROVE  /\ Item(a) \in Account
         /\ Item(a).setting = a.setting
         /\ Item(a).imap = a.imap
         /\ Item(a).smtp = SmtpPassword(a)
         /\ Register!Aged(Item(a), stored)
<1> DEFINE t == IF stored # NoAccount /\ stored.created > 0 THEN stored.created ELSE now
<1>1. stored # NoAccount => stored \in Account /\ stored.created \in 0..MaxTime
  BY DEF TypeOK, Account
<1>2. t \in 0..MaxTime
  BY <1>1, BoundsAssumption DEF TypeOK
<1>3. SmtpPassword(a) \in Passwords \cup {Blank}
  BY DEF SmtpPassword, Account
<1> HIDE DEF t
<1>4. Item(a) = [setting |-> a.setting, imap |-> a.imap, smtp |-> SmtpPassword(a),
                 own |-> a.own, created |-> t]
  <2>1. Item(a) = [a EXCEPT !.smtp = SmtpPassword(a), !.created = t]
    BY DEF Item, t
  <2> QED
    BY <2>1 DEF Account
<1>5. now \in 1..now
  BY BoundsAssumption DEF TypeOK
<1>6. Item(a) \in Account /\ Item(a).created = t
  BY <1>2, <1>3, <1>4 DEF Account
<1>7. Register!Aged(Item(a), stored)
  BY <1>1, <1>5, <1>6, BoundsAssumption DEF Register!Aged, Register!Old, t, TypeOK
<1> QED
  BY <1>4, <1>6, <1>7

\* What a handler starts from when it saw version base.
Start(base, r) ==
  IF base = NoAccount \/ r.kind = "create" THEN Empty ELSE ToAccount(base)

LEMMA StartFields ==
  ASSUME NEW r \in Requests, NEW base \in Account \cup {NoAccount},
         r.kind = "update" => base # NoAccount
  PROVE  /\ Start(base, r) \in Account \cup {Empty}
         /\ r.kind = "update" => Start(base, r) \in Account
BY ReadFields DEF Start

\* The item a put writes is the request applied to the version it started from.
LEMMA ItemApplies ==
  ASSUME TypeOK, NEW r \in Requests, NEW base \in Account \cup {NoAccount},
         r.kind = "update" => base # NoAccount
  PROVE  Register!Applied(Item(Changed(Start(base, r), r)), r, base)
<1> DEFINE s == Start(base, r)
           a == Changed(s, r)
<1>1. a \in Account
  BY StartFields, ChangedFields
<1>2. /\ Item(a).setting = a.setting
      /\ Item(a).imap = a.imap
      /\ Item(a).smtp = SmtpPassword(a)
  BY <1>1, ItemFields
<1>3. /\ a.setting = IF r.setting = NoSetting THEN s.setting ELSE r.setting
      /\ a.imap = IF r.imap = Blank THEN s.imap ELSE r.imap
      /\ a.smtp = IF r.smtp = Blank THEN s.smtp ELSE r.smtp
  BY DEF Changed
<1> SUFFICES Register!Applied(Item(a), r, base)
  OBVIOUS
<1>4. CASE base = NoAccount
  <2>1. s.setting = NoSetting /\ s.imap = Blank /\ s.smtp = Blank
    BY <1>4 DEF Start, Empty
  <2> HIDE DEF a, s
  <2> QED
    BY <1>2, <1>3, <1>4, <2>1 DEF Register!Applied, Register!Old, SmtpPassword
<1>5. CASE base # NoAccount /\ r.kind = "create"
  <2>1. s.setting = NoSetting /\ s.imap = Blank /\ s.smtp = Blank
    BY <1>5 DEF Start, Empty
  <2>2. r.setting # NoSetting /\ r.imap # Blank
    BY <1>5, NoneAssumption DEF Requests
  <2> HIDE DEF a, s
  <2> QED
    BY <1>2, <1>3, <1>5, <2>1, <2>2 DEF Register!Applied, Register!Old, SmtpPassword
<1>6. CASE base # NoAccount /\ r.kind # "create"
  <2>1. s.setting = base.setting /\ s.imap = base.imap /\ s.smtp = SmtpPassword(base)
    BY <1>6 DEF Start, ToAccount, Account
  <2> HIDE DEF a, s
  <2> QED
    BY <1>2, <1>3, <1>6, <2>1 DEF Register!Applied, Register!Old, SmtpPassword
<1> QED
  BY <1>4, <1>5, <1>6

-----------------------------------------------------------------------------
(* The invariant *)

LEMMA InitIInv == Init => IInv
BY BoundsAssumption DEF Init, IInv, TypeOK, RequestInv, RequestSound, Legacy, Running

\* A request that a step leaves alone stays sound: the versions it may have
\* seen only grow, and time only passes.
LEMMA Frame ==
  ASSUME IInv, NEW p \in Ops,
         pc'[p] = pc[p], req'[p] = req[p], draft'[p] = draft[p],
         since[p] \subseteq since'[p],
         IF Running(p) THEN stored' \in since'[p] ELSE since'[p] = {},
         now \in Nat, now' \in Nat, now' >= now
  PROVE  RequestSound(p)'
<1>1. RequestSound(p)
  BY DEF IInv, RequestInv
<1>2. Draws(p) => Draws(p)'
  BY DEF Draws
<1>3. ASSUME NEW age, Register!Aged(draft[p], age)
      PROVE  Register!Aged(draft[p], age)'
  BY <1>3 DEF Register!Aged, Register!Old
<1>4. ASSUME NEW age \in since[p], Register!Aged(draft[p], age)
      PROVE  (\E a \in since[p] : Register!Aged(draft[p], a))'
  <2>1. Register!Aged(draft[p], age)'
    BY <1>3, <1>4
  <2> QED
    BY <2>1 DEF Register!Aged, Register!Old
<1>5. ASSUME NEW base \in since[p], Register!Applied(draft[p], req[p], base)
      PROVE  (\E b \in since[p] : Register!Applied(draft[p], req[p], b))'
  BY <1>5 DEF Register!Applied, Register!Old
<1> QED
  BY <1>1, <1>2, <1>4, <1>5 DEF RequestSound, Running
\* A request starts.
LEMMA PrepareStep ==
  ASSUME IInv, NEW o \in Ops, NEW r \in Requests, NEW seen, NEW base \in seen,
         stored \in seen, seen \subseteq Account \cup {NoAccount},
         r.kind = "update" => base # NoAccount,
         Prepare(o, r, Start(base, r), seen)
  PROVE  IInv'
<1>1. Changed(Start(base, r), r) \in Account
  BY StartFields, ChangedFields
<1>2. TypeOK'
  BY <1>1 DEF IInv, TypeOK, Prepare
<1>3. ASSUME NEW p \in Ops, p # o
      PROVE  RequestSound(p)'
  <2>1. /\ pc'[p] = pc[p] /\ req'[p] = req[p] /\ draft'[p] = draft[p]
        /\ since'[p] = since[p] /\ stored' = stored /\ now' = now
    BY <1>3 DEF Prepare, IInv, TypeOK
  <2>2. now \in Nat /\ RequestSound(p)
    BY BoundsAssumption DEF IInv, TypeOK, RequestInv
  <2> QED
    BY <2>1, <2>2, Frame DEF RequestSound
<1>4. RequestSound(o)'
  <2>1. /\ pc'[o] = "put" /\ req'[o] = r /\ draft'[o] = Changed(Start(base, r), r)
        /\ since'[o] = seen /\ stored' = stored
    BY DEF Prepare, IInv, TypeOK
  <2>2. r # NoRequest /\ draft'[o] # NoAccount
    BY <1>1, <2>1, NoneAssumption
  <2>3. Draws(o)'
    BY <2>1 DEF Draws, Start
  <2> QED
    BY <2>1, <2>2, <2>3 DEF RequestSound, Running
<1> QED
  BY <1>2, <1>3, <1>4 DEF IInv, RequestInv

\* Each kind of request starts from a version that is current when it starts.
LEMMA StartStep ==
  ASSUME IInv, NEW o \in Ops, NEW r \in Requests,
         Add(o, r) \/ AddReadFails(o, r) \/ Create(o, r) \/ Update(o, r)
  PROVE  /\ IInv'
         /\ Register!Begin(o, r)
<1>1. stored \in Account \cup {NoAccount}
  BY DEF IInv, TypeOK
<1>2. CASE Add(o, r)
  <2>1. Prepare(o, r, Start(stored, r), {stored}) /\ r.kind = "add"
    BY <1>2 DEF Add, Start
  <2> QED
    BY <1>1, <2>1, PrepareStep DEF Prepare, Register!Begin, Register!Running, Running,
       IInv, RequestInv, RequestSound
<1>3. CASE AddReadFails(o, r)
  <2>1. Prepare(o, r, Start(NoAccount, r), {stored, NoAccount}) /\ r.kind = "add"
    BY <1>3 DEF AddReadFails, Start
  <2> QED
    BY <1>1, <2>1, PrepareStep DEF Prepare, Register!Begin, Register!Running, Running,
       IInv, RequestInv, RequestSound
<1>4. CASE Create(o, r)
  <2>1. Prepare(o, r, Start(stored, r), {stored}) /\ r.kind = "create"
    BY <1>4 DEF Create, Start
  <2> QED
    BY <1>1, <2>1, PrepareStep DEF Prepare, Register!Begin, Register!Running, Running,
       IInv, RequestInv, RequestSound
<1>5. CASE Update(o, r)
  <2>1. Prepare(o, r, Start(stored, r), {stored}) /\ stored # NoAccount
    BY <1>5 DEF Update, Start
  <2> QED
    BY <1>1, <2>1, PrepareStep DEF Prepare, Register!Begin, Register!Running, Running,
       IInv, RequestInv, RequestSound
<1> QED
  BY <1>2, <1>3, <1>4, <1>5

\* A request ends without a save.
LEMMA GiveUpStep ==
  ASSUME IInv, NEW o \in Ops, GiveUp(o)
  PROVE  IInv' /\ Register!GiveUp(o)
<1>1. TypeOK'
  BY DEF IInv, TypeOK, GiveUp, Return
<1>2. ASSUME NEW p \in Ops, p # o
      PROVE  RequestSound(p)'
  <2>1. /\ pc'[p] = pc[p] /\ req'[p] = req[p] /\ draft'[p] = draft[p]
        /\ since'[p] = since[p] /\ stored' = stored /\ now' = now
    BY <1>2 DEF GiveUp, Return, IInv, TypeOK
  <2>2. now \in Nat /\ RequestSound(p)
    BY BoundsAssumption DEF IInv, TypeOK, RequestInv
  <2> QED
    BY <2>1, <2>2, Frame DEF RequestSound
<1>3. RequestSound(o)'
  BY DEF GiveUp, Return, IInv, TypeOK, RequestSound, Running
<1>4. Register!GiveUp(o)
  BY DEF GiveUp, Return, Register!GiveUp, Register!Running, IInv, RequestInv, RequestSound
<1> QED
  BY <1>1, <1>2, <1>3, <1>4 DEF IInv, RequestInv

\* Version v lands; request o, if it is one's own, ends.  All others stay sound.
LEMMA LandedFrame ==
  ASSUME IInv, NEW v \in Account \cup {NoAccount}, NEW others \in SUBSET Ops,
         Landed(v, others), NEW p \in others,
         pc'[p] = pc[p], req'[p] = req[p], draft'[p] = draft[p]
  PROVE  RequestSound(p)'
<1>1. /\ since'[p] = IF Running(p) THEN since[p] \cup {v} ELSE {}
      /\ stored' = v /\ now' = now
  BY DEF Landed
<1>2. now \in Nat /\ RequestSound(p)
  BY BoundsAssumption DEF IInv, TypeOK, RequestInv
<1> QED
  BY <1>1, <1>2, Frame DEF RequestSound

\* A save: v is the request of o applied to one version since its start.
LEMMA SaveStep ==
  ASSUME IInv, NEW o \in Ops, Running(o), NEW v \in Account,
         Return(o), Landed(v, Ops \ {o}),
         \E base \in since[o] : Register!Applied(v, req[o], base),
         \E age \in since[o] : Register!Aged(v, age)
  PROVE  IInv' /\ Register!Save(o)
<1>1. TypeOK'
  BY DEF IInv, TypeOK, Return, Landed
<1>2. ASSUME NEW p \in Ops, p # o
      PROVE  RequestSound(p)'
  <2>1. pc'[p] = pc[p] /\ req'[p] = req[p] /\ draft'[p] = draft[p]
    BY <1>2 DEF Return, IInv, TypeOK
  <2> QED
    BY <1>2, <2>1, LandedFrame
<1>3. RequestSound(o)'
  BY DEF Return, Landed, IInv, TypeOK, RequestSound, Running
<1>4. Register!Save(o)
  <2>1. stored' = v /\ v # NoAccount /\ now' = now
    BY NoneAssumption DEF Landed
  <2>2. \A p \in Ops : Running(p) <=> req[p] # NoRequest
    BY DEF IInv, RequestInv, RequestSound
  <2>3. Register!Others(o, v)
    BY <2>2 DEF Landed, Register!Others, Register!Running
  <2>4. req' = [req EXCEPT ![o] = NoRequest]
    BY DEF Return
  <2> QED
    BY <2>1, <2>2, <2>3, <2>4 DEF Register!Save, Register!Running
<1> QED
  BY <1>1, <1>2, <1>3, <1>4 DEF IInv, RequestInv

\* What a request that waits to put is about to store.
LEMMA DraftApplies ==
  ASSUME IInv, NEW o \in Ops, pc[o] = "put"
  PROVE  /\ draft[o] \in Account /\ Item(draft[o]) \in Account
         /\ \E base \in since[o] : Register!Applied(Item(draft[o]), req[o], base)
         /\ \E age \in since[o] : Register!Aged(Item(draft[o]), age)
<1>1. /\ Running(o) /\ req[o] \in Requests /\ draft[o] \in Account
      /\ stored \in since[o] /\ since[o] \subseteq Account \cup {NoAccount}
  BY DEF IInv, TypeOK, RequestInv, RequestSound, Running
<1>2. PICK base \in since[o] :
        /\ req[o].kind = "update" => base # NoAccount
        /\ draft[o] = Changed(Start(base, req[o]), req[o])
  BY DEF IInv, RequestInv, RequestSound, Draws, Start
<1>3. Register!Applied(Item(draft[o]), req[o], base)
  BY <1>1, <1>2, ItemApplies DEF IInv
<1>4. Item(draft[o]) \in Account /\ Register!Aged(Item(draft[o]), stored)
  BY <1>1, ItemFields DEF IInv
<1> QED
  BY <1>1, <1>3, <1>4

\* The memory store's put.
LEMMA PutStep ==
  ASSUME IInv, NEW o \in Ops, Put(o)
  PROVE  IInv' /\ Register!Save(o)
BY DraftApplies, SaveStep DEF Put, Running

\* DynamoDB's second read.
LEMMA StampStep ==
  ASSUME IInv, NEW o \in Ops, Stamp(o)
  PROVE  IInv' /\ UNCHANGED Register!regVars
<1>1. /\ Item(draft[o]) \in Account /\ Item(draft[o]) # NoAccount
      /\ \E base \in since[o] : Register!Applied(Item(draft[o]), req[o], base)
      /\ \E age \in since[o] : Register!Aged(Item(draft[o]), age)
  BY DraftApplies, NoneAssumption DEF Stamp
<1>2. TypeOK'
  BY <1>1 DEF IInv, TypeOK, Stamp
<1>3. ASSUME NEW p \in Ops, p # o
      PROVE  RequestSound(p)'
  <2>1. /\ pc'[p] = pc[p] /\ req'[p] = req[p] /\ draft'[p] = draft[p]
        /\ since'[p] = since[p] /\ stored' = stored /\ now' = now
    BY <1>3 DEF Stamp, IInv, TypeOK
  <2>2. now \in Nat /\ RequestSound(p)
    BY BoundsAssumption DEF IInv, TypeOK, RequestInv
  <2> QED
    BY <2>1, <2>2, Frame DEF RequestSound
<1>4. RequestSound(o)'
  <2>1. /\ pc'[o] = "write" /\ draft'[o] = Item(draft[o]) /\ req'[o] = req[o]
        /\ since'[o] = since[o] /\ stored' = stored /\ now' = now
    BY DEF Stamp, IInv, TypeOK
  <2>2. RequestSound(o) /\ Running(o) /\ Running(o)'
    BY <2>1 DEF IInv, RequestInv, Stamp, Running
  <2>3. (\E base \in since[o] : Register!Applied(draft[o], req[o], base))'
    BY <1>1, <2>1 DEF Register!Applied, Register!Old
  <2>4. (\E age \in since[o] : Register!Aged(draft[o], age))'
    BY <1>1, <2>1 DEF Register!Aged, Register!Old
  <2> QED
    BY <1>1, <2>1, <2>2, <2>3, <2>4 DEF RequestSound
<1> QED
  BY <1>2, <1>3, <1>4 DEF IInv, RequestInv, Stamp, Register!regVars

\* DynamoDB's PutItem.
LEMMA WriteStep ==
  ASSUME IInv, NEW o \in Ops, Write(o)
  PROVE  IInv' /\ Register!Save(o)
<1>1. /\ Running(o) /\ draft[o] \in Account
      /\ \E base \in since[o] : Register!Applied(draft[o], req[o], base)
      /\ \E age \in since[o] : Register!Aged(draft[o], age)
  BY DEF Write, Running, IInv, TypeOK, RequestInv, RequestSound
<1> QED
  BY <1>1, SaveStep DEF Write

\* A removal.
LEMMA RemoveStep ==
  ASSUME IInv, Remove
  PROVE  IInv' /\ Register!Remove
<1>1. TypeOK'
  BY DEF IInv, TypeOK, Remove, Landed
<1>2. ASSUME NEW p \in Ops
      PROVE  RequestSound(p)'
  BY <1>2, LandedFrame DEF Remove
<1>3. \A p \in Ops : Running(p) <=> req[p] # NoRequest
  BY DEF IInv, RequestInv, RequestSound
<1>4. Register!Remove
  BY <1>3 DEF Remove, Landed, Register!Remove, Register!Running
<1> QED
  BY <1>1, <1>2, <1>4 DEF IInv, RequestInv

\* Time passes.
LEMMA TickStep ==
  ASSUME IInv, Tick
  PROVE  IInv' /\ Register!Tick
<1>1. TypeOK' /\ now \in Nat /\ now' = now + 1
  BY BoundsAssumption DEF IInv, TypeOK, Tick, opVars
<1>2. ASSUME NEW p \in Ops
      PROVE  RequestSound(p)'
  <2>1. RequestSound(p)
    BY DEF IInv, RequestInv
  <2> QED
    BY <1>1, <2>1, Frame DEF Tick, opVars, RequestSound
<1> QED
  BY <1>1, <1>2 DEF IInv, RequestInv, Tick, opVars, Register!Tick

\* Every step keeps the invariant and is a step of the register, or none.
LEMMA Step ==
  ASSUME IInv, [Next]_vars
  PROVE  IInv' /\ [Register!RegNext]_(Register!regVars)
<1>1. ASSUME NEW o \in Ops, NEW r \in Requests,
             Add(o, r) \/ AddReadFails(o, r) \/ Create(o, r) \/ Update(o, r)
      PROVE  IInv' /\ Register!RegNext
  BY <1>1, StartStep DEF Register!RegNext
<1>2. ASSUME NEW o \in Ops, GiveUp(o) \/ Put(o) \/ Stamp(o) \/ Write(o)
      PROVE  IInv' /\ [Register!RegNext]_(Register!regVars)
  BY <1>2, GiveUpStep, PutStep, StampStep, WriteStep DEF Register!RegNext
<1>3. CASE Remove
  BY <1>3, RemoveStep DEF Register!RegNext
<1>4. CASE Tick
  BY <1>4, TickStep DEF Register!RegNext
<1>5. CASE UNCHANGED vars
  <2>1. IInv'
    BY <1>5 DEF vars, IInv, TypeOK, RequestInv, RequestSound, Running, Draws,
       Register!Applied, Register!Aged, Register!Old
  <2> QED
    BY <1>5, <2>1 DEF vars, Register!regVars
<1> QED
  BY <1>1, <1>2, <1>3, <1>4, <1>5 DEF Next

-----------------------------------------------------------------------------
(* The theorems *)

\* The invariant holds in every state.
THEOREM ConfigInvariance == Spec => []IInv
<1>1. IInv /\ [Next]_vars => IInv'
  BY Step
<1> QED
  BY InitIInv, <1>1, PTL DEF Spec

\* The types of the variables.
THEOREM ConfigTypes == Spec => []TypeOK
<1>1. IInv => TypeOK
  BY DEF IInv
<1> QED
  BY ConfigInvariance, <1>1, PTL

\* However reads, puts and removals interleave, each save is one request
\* applied to one version that was current while the request ran.
THEOREM ConfigImplementsRegister == Spec => ImplementsRegister
<1>1. Init => Register!RegInit
  BY DEF Init, Register!RegInit
<1>2. IInv /\ [Next]_vars => [Register!RegNext]_(Register!regVars)
  BY Step
<1> QED
  BY ConfigInvariance, <1>1, <1>2, PTL DEF Spec, ImplementsRegister, Register!RegSpec
\* One request applied to one version keeps what the request leaves empty.
LEMMA AppliedKeeps ==
  ASSUME NEW r \in Requests, NEW old \in Account, NEW v,
         Register!Applied(v, r, old), Register!Aged(v, old)
  PROVE  Keeps(v, old, r)
<1>1. old # NoAccount
  BY NoneAssumption
<1>2. ToAccount(old).setting = old.setting /\ ToAccount(old).imap = old.imap
      /\ ToAccount(old).smtp = SmtpPassword(old)
  BY DEF ToAccount, Account
<1> QED
  BY <1>1, <1>2 DEF Keeps, SmtpPassword, Register!Applied, Register!Aged, Register!Old

\* The step that ends a request with a save is its Put or its Write.
LEMMA SavedBy ==
  ASSUME IInv, [Next]_vars, NEW o \in Ops, Saved(o)
  PROVE  Put(o) \/ Write(o)
<1>1. writes' # writes /\ pc[o] # "idle" /\ pc'[o] = "idle" /\ writes \in Nat
  BY DEF Saved, Running, IInv, TypeOK
<1>2. ~Remove /\ ~Tick /\ ~UNCHANGED vars
  BY <1>1 DEF Remove, Tick, opVars, vars
<1>3. ASSUME NEW p \in Ops, NEW r \in Requests
      PROVE  ~(Add(p, r) \/ AddReadFails(p, r) \/ Create(p, r) \/ Update(p, r))
  BY <1>1 DEF Add, AddReadFails, Create, Update, Prepare
<1>4. ASSUME NEW p \in Ops
      PROVE  ~GiveUp(p) /\ ~Stamp(p)
  BY <1>1 DEF GiveUp, Stamp
<1>5. ASSUME NEW p \in Ops, p # o
      PROVE  ~Put(p) /\ ~Write(p)
  BY <1>1, <1>5 DEF Put, Write, Return, IInv, TypeOK
<1> QED
  BY <1>2, <1>3, <1>4, <1>5 DEF Next

\* A save that nothing disturbed keeps every field its request leaves empty.
THEOREM UndisturbedSavesKeep == Spec => UndisturbedKeeps
<1> DEFINE Undisturbed ==
      \A o \in Ops, old \in Account :
        Saved(o) /\ since[o] = {old} => Keeps(stored', old, req[o])
<1>1. ASSUME IInv, [Next]_vars
      PROVE  Undisturbed
  <2> SUFFICES ASSUME NEW o \in Ops, NEW old \in Account, Saved(o), since[o] = {old}
               PROVE  Keeps(stored', old, req[o])
    OBVIOUS
  <2>1. Register!Save(o)
    BY <1>1, SavedBy, PutStep, WriteStep
  <2>2. req[o] \in Requests
    BY <1>1, <2>1 DEF IInv, TypeOK, Register!Save, Register!Running
  <2>3. Register!Applied(stored', req[o], old) /\ Register!Aged(stored', old)
    BY <2>1 DEF Register!Save
  <2> QED
    BY <2>2, <2>3, AppliedKeeps
<1> QED
  BY <1>1, ConfigInvariance, PTL DEF Spec, UndisturbedKeeps
=============================================================================
