-------------------------- MODULE OAuthFlowProofs ---------------------------
(***************************************************************************)
(* What OAuthFlow's runs check on two replicas, proved for every number of *)
(* attempts, codes, replicas and requests, and for every lifetime; then    *)
(* where codes are sent (ClientRegistry), for any clients, addresses and   *)
(* times to live.                                                          *)
(***************************************************************************)
EXTENDS OAuthFlow, ClientRegistry, FiniteSetTheorems, TLAPS

(***************************************************************************)
(* The type invariant.                                                     *)
(***************************************************************************)
LEMMA TypesInit == Init => TypeOK
  BY FlowTimeAssumption, FlowNoneAssumption DEF Init, TypeOK, NoCode, NoSession, Paths

LEMMA ReturnTypes ==
  ASSUME TypeOK, NEW o \in Ops, Return(o)
  PROVE  /\ pc' \in [Ops -> {"idle", "exchange", "verify"}]
         /\ replica' \in [Ops -> Replicas \cup {NoReplica}]
         /\ attempt' \in [Ops -> States \cup {NoState}]
         /\ via' \in [Ops -> Paths]
         /\ since' \in [Ops -> 0..MaxTime]
         /\ proof' \in [Ops -> States \cup {NoState}]
  BY FlowTimeAssumption DEF TypeOK, Return, Goto, Paths

LEMMA ServeTypes ==
  ASSUME TypeOK, NEW o \in Ops, NEW r \in Replicas, NEW s \in States,
         NEW path \in Paths, NEW x \in States \cup {NoState},
         NEW label \in {"idle", "exchange", "verify"},
         Serve(o, r, s, path, x), Goto(o, label)
  PROVE  /\ pc' \in [Ops -> {"idle", "exchange", "verify"}]
         /\ replica' \in [Ops -> Replicas \cup {NoReplica}]
         /\ attempt' \in [Ops -> States \cup {NoState}]
         /\ via' \in [Ops -> Paths]
         /\ since' \in [Ops -> 0..MaxTime]
         /\ proof' \in [Ops -> States \cup {NoState}]
  BY DEF TypeOK, Serve, Goto

LEMMA TypesOpen ==
  ASSUME TypeOK, NEW r \in Replicas, NEW s \in States, NEW cl \in Clients \cup {WebUI},
         Open(r, s, cl)
  PROVE  TypeOK'
  <1>1. CleanPending(r) \in [States -> Nat]
    BY DEF TypeOK, CleanPending
  <1>2. pending' \in [Replicas -> [States -> Nat]]
    <2>1. now + PendingTTL \in Nat
      BY FlowTimeAssumption DEF TypeOK
    <2>2. [CleanPending(r) EXCEPT ![s] = now + PendingTTL] \in [States -> Nat]
      BY <1>1, <2>1
    <2> QED BY <2>2 DEF TypeOK, Open
  <1>3. CleanCodes(r) \in [Codes -> [attempt : States \cup {NoState}, expires : Nat]]
    BY DEF TypeOK, CleanCodes, NoCode
  <1>4. codes' \in [Replicas -> [Codes -> [attempt : States \cup {NoState}, expires : Nat]]]
    BY <1>3 DEF TypeOK, Open
  <1>5. cleanupAt' \in [Replicas -> Nat]
    <2>1. now + CleanupPeriod \in Nat
      BY FlowTimeAssumption DEF TypeOK
    <2> QED BY <2>1 DEF TypeOK, Open
  <1> QED BY <1>2, <1>4, <1>5 DEF TypeOK, Open, opVars

LEMMA TypesCode ==
  ASSUME TypeOK, NEW o \in Ops, NEW c \in Codes, IssueCode(o, c), WorkInOrder(o)
  PROVE  TypeOK'
  <1>1. replica[o] \in Replicas /\ attempt[o] \in States
    BY DEF IssueCode, WorkInOrder
  <1>2. [attempt |-> attempt[o], expires |-> CodeExpiry]
          \in [attempt : States \cup {NoState}, expires : Nat]
    BY <1>1, FlowTimeAssumption DEF TypeOK, CodeExpiry
  <1>3. codes' \in [Replicas -> [Codes -> [attempt : States \cup {NoState}, expires : Nat]]]
    BY <1>1, <1>2 DEF TypeOK, IssueCode
  <1> QED BY <1>3, ReturnTypes DEF TypeOK, IssueCode

LEMMA TypesGrant ==
  ASSUME TypeOK, NEW o \in Ops, PutSession(o), WorkInOrder(o), pc[o] # "idle"
  PROVE  TypeOK'
  <1>1. attempt[o] \in States
    BY DEF WorkInOrder
  <1>2. [path |-> via[o], verifier |-> proof[o]]
          \in [path : Paths, verifier : States \cup {NoState}]
    BY DEF TypeOK
  <1> QED BY <1>1, <1>2, ReturnTypes DEF TypeOK, PutSession, flowVars

LEMMA TypesRestart ==
  ASSUME TypeOK, NEW r \in Replicas, Restart(r)
  PROVE  TypeOK'
  BY FlowTimeAssumption DEF TypeOK, Restart, NoCode, Paths

LEMMA TypesNext ==
  ASSUME TypeOK, \A o \in Ops : WorkInOrder(o), [Next]_vars
  PROVE  TypeOK'
  <1>1. CASE Tick
    BY <1>1, FlowTimeAssumption DEF Tick, TypeOK, flowVars, opVars
  <1>2. ASSUME NEW r \in Replicas, NEW s \in States, NEW cl \in Clients \cup {WebUI},
               Open(r, s, cl)
        PROVE  TypeOK'
    BY <1>2, TypesOpen
  <1>3. ASSUME NEW r \in Replicas, NEW s \in States, CallbackLate(r, s)
        PROVE  TypeOK'
    BY <1>3 DEF CallbackLate, TakePending, TypeOK, opVars
  <1>4. ASSUME NEW r \in Replicas, NEW o \in Ops, NEW s \in States, NEW path \in Callbacks,
               Callback(o, r, s, path)
        PROVE  TypeOK'
    <2>1. pending' \in [Replicas -> [States -> Nat]]
      BY <1>4 DEF Callback, TakePending, TypeOK
    <2> QED BY <1>4, <2>1, ServeTypes DEF Callback, TypeOK, Paths
  <1>5. ASSUME NEW r \in Replicas, NEW c \in Codes, NEW x \in States,
               NEW cl \in Clients \cup {NoClient}, NEW sameUri \in BOOLEAN,
               RedeemRefused(r, c, x, cl, sameUri)
        PROVE  TypeOK'
    BY <1>5 DEF RedeemRefused, TakeCode, TypeOK, NoCode, opVars
  <1>6. ASSUME NEW r \in Replicas, NEW o \in Ops, NEW c \in Codes, NEW x \in States,
               NEW cl \in Clients \cup {NoClient}, NEW sameUri \in BOOLEAN,
               Redeem(o, r, c, x, cl, sameUri)
        PROVE  TypeOK'
    <2>1. codes' \in [Replicas -> [Codes -> [attempt : States \cup {NoState}, expires : Nat]]]
      BY <1>6 DEF Redeem, TakeCode, TypeOK, NoCode
    <2>2. codes[r][c].attempt \in States
      BY <1>6, FlowNoneAssumption DEF Redeem, Verified, TypeOK
    <2> QED BY <1>6, <2>1, <2>2, ServeTypes DEF Redeem, TypeOK, Paths
  <1>7. ASSUME NEW r \in Replicas, Restart(r)
        PROVE  TypeOK'
    BY <1>7, TypesRestart
  <1>8. ASSUME NEW o \in Ops, NEW c \in Codes, IssueCode(o, c)
        PROVE  TypeOK'
    BY <1>8, TypesCode
  <1>9. ASSUME NEW o \in Ops, CompleteWebLogin(o) \/ GrantSession(o)
        PROVE  TypeOK'
    BY <1>9, TypesGrant DEF CompleteWebLogin, GrantSession
  <1>10. ASSUME NEW o \in Ops, Refused(o)
         PROVE  TypeOK'
    BY <1>10, ReturnTypes DEF Refused, TypeOK, flowVars
  <1>11. CASE UNCHANGED vars
    BY <1>11 DEF vars, TypeOK
  <1> QED BY <1>1, <1>2, <1>3, <1>4, <1>5, <1>6, <1>7, <1>8, <1>9, <1>10, <1>11
          DEF Next, Arrive, Work, CallbackUnknown

(***************************************************************************)
(* Where each action leaves the attempts.  All but four of them only give  *)
(* attempts up.                                                            *)
(***************************************************************************)
Shrinks(s) ==
  /\ client'[s] = client[s] /\ granted'[s] = granted[s]
  /\ PendingAt(s)' \subseteq PendingAt(s) /\ ExchangedBy(s)' \subseteq ExchangedBy(s)
  /\ CodesOf(s)' \subseteq CodesOf(s) /\ VerifiedBy(s)' \subseteq VerifiedBy(s)

Stays(s) ==
  /\ client'[s] = client[s] /\ granted'[s] = granted[s]
  /\ PendingAt(s)' = PendingAt(s) /\ ExchangedBy(s)' = ExchangedBy(s)
  /\ CodesOf(s)' = CodesOf(s) /\ VerifiedBy(s)' = VerifiedBy(s)

Empty(s) ==
  PendingAt(s) = {} /\ ExchangedBy(s) = {} /\ CodesOf(s) = {} /\ VerifiedBy(s) = {}

Opens(s) ==
  /\ client[s] = NoClient /\ client'[s] # NoClient /\ granted'[s] = granted[s]
  /\ \E r \in Replicas : PendingAt(s)' = {r}
  /\ ExchangedBy(s)' = {} /\ CodesOf(s)' = {} /\ VerifiedBy(s)' = {}

Takes(s) ==
  /\ client'[s] = client[s] /\ granted'[s] = granted[s]
  /\ PendingAt(s) # {} /\ PendingAt(s)' = {}
  /\ \E o \in Ops : ExchangedBy(s)' = {o}
  /\ CodesOf(s)' = {} /\ VerifiedBy(s)' = {}

Codifies(s) ==
  /\ client'[s] = client[s] /\ granted'[s] = granted[s]
  /\ ExchangedBy(s) # {} /\ ExchangedBy(s)' = {} /\ PendingAt(s)' = {}
  /\ \E rc \in Replicas \X Codes : CodesOf(s)' = {rc}
  /\ VerifiedBy(s)' = {}

Redeems(s) ==
  /\ client'[s] = client[s] /\ granted'[s] = granted[s]
  /\ CodesOf(s) # {} /\ CodesOf(s)' = {}
  /\ PendingAt(s)' = {} /\ ExchangedBy(s)' = {}
  /\ \E o \in Ops : VerifiedBy(s)' = {o}

Ends(s) ==
  /\ client'[s] = client[s] /\ granted[s] = 0 /\ granted'[s] = 1
  /\ ExchangedBy(s) # {} \/ VerifiedBy(s) # {}
  /\ Empty(s)'

Moved(s) == Shrinks(s) \/ Opens(s) \/ Takes(s) \/ Codifies(s) \/ Redeems(s) \/ Ends(s)

LEMMA MovedKeepsPlace ==
  ASSUME NEW s \in States, TypeOK, TypeOK', InOnePlace(s), Moved(s)
  PROVE  InOnePlace(s)'
  <1> USE DEF InOnePlace, Lone
  <1>1. CASE Shrinks(s)
    <2> HIDE DEF Lone
    <2>1. Lone(PendingAt(s))' /\ Lone(ExchangedBy(s))' /\ Lone(CodesOf(s))' /\ Lone(VerifiedBy(s))'
      BY <1>1 DEF Shrinks, Lone
    <2> QED BY <1>1, <2>1 DEF Shrinks
  <1>2. CASE Opens(s)
    BY <1>2 DEF Opens, TypeOK
  <1>3. CASE Takes(s)
    BY <1>3 DEF Takes, TypeOK
  <1>4. CASE Codifies(s)
    BY <1>4 DEF Codifies, TypeOK
  <1>5. CASE Redeems(s)
    BY <1>5 DEF Redeems, TypeOK
  <1>6. CASE Ends(s)
    BY <1>6 DEF Ends, Empty, TypeOK
  <1> QED BY <1>1, <1>2, <1>3, <1>4, <1>5, <1>6 DEF Moved

Placed == \A s \in States : InOnePlace(s)
OpsInOrder == \A o \in Ops : WorkInOrder(o)

LEMMA OpenMoves ==
  ASSUME TypeOK, Placed, NEW r \in Replicas, NEW s \in States, NEW cl \in Clients \cup {WebUI},
         Open(r, s, cl)
  PROVE  Opens(s) /\ \A t \in States \ {s} : Shrinks(t)
  <1>1. UNCHANGED <<pc, attempt, granted>>
    BY DEF Open, opVars
  <1>2. \A t \in States : ExchangedBy(t)' = ExchangedBy(t) /\ VerifiedBy(t)' = VerifiedBy(t)
    BY <1>1 DEF ExchangedBy, VerifiedBy
  <1>3. \A t \in States : CodesOf(t)' \subseteq CodesOf(t)
    <2> TAKE t \in States
    <2>1. \A q \in Replicas, c \in Codes :
            codes'[q][c].attempt = t => codes[q][c].attempt = t
      BY FlowNoneAssumption DEF Open, CleanCodes, NoCode, TypeOK
    <2> QED BY <2>1 DEF CodesOf
  <1>4. \A t \in States \ {s} : PendingAt(t)' \subseteq PendingAt(t)
    <2> TAKE t \in States \ {s}
    <2>1. \A q \in Replicas : pending'[q][t] > 0 => pending[q][t] > 0
      BY DEF Open, CleanPending, TypeOK
    <2> QED BY <2>1 DEF PendingAt
  <1>5. client' = [client EXCEPT ![s] = cl] /\ client[s] = NoClient
    BY DEF Open
  <1>6. Empty(s) /\ InOnePlace(s)
    BY <1>5 DEF Placed, InOnePlace, Empty
  <1>7. PendingAt(s)' = {r}
    <2>1. \A q \in Replicas : pending[q][s] = 0
      BY <1>6 DEF Empty, PendingAt, TypeOK
    <2>2. now + PendingTTL > 0
      BY FlowTimeAssumption DEF TypeOK
    <2>3. \A q \in Replicas : pending'[q][s] = IF q = r THEN now + PendingTTL ELSE 0
      BY <2>1 DEF Open, TypeOK, CleanPending
    <2> QED BY <2>2, <2>3 DEF PendingAt
  <1>8. Opens(s)
    BY <1>1, <1>2, <1>3, <1>5, <1>6, <1>7, FlowNoneAssumption DEF Opens, Empty, TypeOK
  <1>9. \A t \in States \ {s} : Shrinks(t)
    BY <1>1, <1>2, <1>3, <1>4, <1>5 DEF Shrinks, TypeOK
  <1> QED BY <1>8, <1>9

LEMMA CallbackMoves ==
  ASSUME TypeOK, Placed, NEW r \in Replicas, NEW o \in Ops, NEW s \in States,
         NEW path \in Callbacks, Callback(o, r, s, path)
  PROVE  Takes(s) /\ ExchangedBy(s)' = {o} /\ \A t \in States \ {s} : Shrinks(t)
  <1>1. /\ pending' = [pending EXCEPT ![r][s] = 0] /\ pending[r][s] > 0
        /\ pc[o] = "idle" /\ pc' = [pc EXCEPT ![o] = "exchange"]
        /\ attempt' = [attempt EXCEPT ![o] = s]
        /\ UNCHANGED <<client, granted, codes>>
    BY DEF Callback, TakePending, Serve, Goto
  <1>2. r \in PendingAt(s)
    BY <1>1 DEF PendingAt
  <1>3. /\ \A q \in PendingAt(s) : q = r
        /\ ExchangedBy(s) = {} /\ CodesOf(s) = {} /\ VerifiedBy(s) = {}
    BY <1>2 DEF Placed, InOnePlace, Lone
  <1>4. PendingAt(s)' = {}
    BY <1>1, <1>3 DEF PendingAt, TypeOK
  <1>5. ExchangedBy(s)' = {o}
    BY <1>1, <1>3 DEF ExchangedBy, TypeOK
  <1>6. \A t \in States : CodesOf(t)' = CodesOf(t)
    BY <1>1 DEF CodesOf
  <1>7. VerifiedBy(s)' = {}
    BY <1>1, <1>3 DEF VerifiedBy, TypeOK
  <1>8. \A t \in States \ {s} :
          /\ PendingAt(t)' = PendingAt(t) /\ ExchangedBy(t)' = ExchangedBy(t)
          /\ VerifiedBy(t)' = VerifiedBy(t)
    BY <1>1 DEF PendingAt, ExchangedBy, VerifiedBy, TypeOK
  <1> QED BY <1>1, <1>2, <1>3, <1>4, <1>5, <1>6, <1>7, <1>8 DEF Takes, Shrinks

LEMMA CodeMoves ==
  ASSUME TypeOK, Placed, OpsInOrder, NEW o \in Ops, NEW c \in Codes, IssueCode(o, c),
         NEW s \in States, attempt[o] = s, NEW r \in Replicas, replica[o] = r,
         CleanedInTime(r)
  PROVE  Codifies(s) /\ \A t \in States \ {s} : Stays(t)
  <1>1. /\ pc[o] = "exchange" /\ c \notin usedCodes
        /\ codes' = [codes EXCEPT ![r][c] = [attempt |-> s, expires |-> CodeExpiry]]
        /\ pc' = [pc EXCEPT ![o] = "idle"] /\ attempt' = [attempt EXCEPT ![o] = NoState]
        /\ UNCHANGED <<client, granted, pending>>
    BY DEF IssueCode, Return, Goto
  <1>2. o \in ExchangedBy(s)
    BY <1>1 DEF ExchangedBy
  <1>3. /\ \A p \in ExchangedBy(s) : p = o
        /\ PendingAt(s) = {} /\ CodesOf(s) = {} /\ VerifiedBy(s) = {}
    BY <1>1, <1>2 DEF Placed, InOnePlace, Lone
  <1>4. \A t \in States : PendingAt(t)' = PendingAt(t)
    BY <1>1 DEF PendingAt
  <1>5. ExchangedBy(s)' = {}
    BY <1>1, <1>3, FlowNoneAssumption DEF ExchangedBy, TypeOK
  <1>6. codes[r][c] = NoCode
    BY <1>1 DEF CleanedInTime
  <1>7. CodesOf(s)' = {<<r, c>>}
    <2>1. \A q \in Replicas, d \in Codes :
            codes'[q][d].attempt = s <=> q = r /\ d = c
      <3>1. ASSUME NEW q \in Replicas, NEW d \in Codes PROVE codes[q][d].attempt # s
        <4>1. <<q, d>> \notin CodesOf(s)
          BY <1>3
        <4> QED BY <4>1 DEF CodesOf
      <3> QED BY <1>1, <3>1 DEF TypeOK
    <2>2. \A rc \in Replicas \X Codes : rc = <<r, c>> <=> rc[1] = r /\ rc[2] = c
      OBVIOUS
    <2>3. <<r, c>> \in Replicas \X Codes
      OBVIOUS
    <2> QED BY <2>1, <2>2, <2>3 DEF CodesOf
  <1>8. \A t \in States \ {s} : CodesOf(t)' = CodesOf(t)
    <2> TAKE t \in States \ {s}
    <2>1. \A q \in Replicas, d \in Codes :
            codes'[q][d].attempt = t <=> codes[q][d].attempt = t
      BY <1>1, <1>6, FlowNoneAssumption DEF TypeOK, NoCode
    <2> QED BY <2>1 DEF CodesOf
  <1>9. VerifiedBy(s)' = {}
    BY <1>1, <1>3, FlowNoneAssumption DEF VerifiedBy, TypeOK
  <1>10. \A t \in States \ {s} :
           ExchangedBy(t)' = ExchangedBy(t) /\ VerifiedBy(t)' = VerifiedBy(t)
    BY <1>1, FlowNoneAssumption DEF ExchangedBy, VerifiedBy, TypeOK
  <1> QED
    <2>1. Codifies(s)
      BY <1>1, <1>2, <1>3, <1>4, <1>5, <1>7, <1>9 DEF Codifies
    <2>2. \A t \in States \ {s} : Stays(t)
      BY <1>1, <1>4, <1>8, <1>10 DEF Stays
    <2> QED BY <2>1, <2>2

LEMMA RedeemMoves ==
  ASSUME TypeOK, Placed, NEW r \in Replicas, NEW o \in Ops, NEW c \in Codes, NEW x \in States,
         NEW cl \in Clients \cup {NoClient}, NEW sameUri \in BOOLEAN,
         Redeem(o, r, c, x, cl, sameUri)
  PROVE  Redeems(x) /\ \A t \in States \ {x} : Shrinks(t)
  <1>1. /\ codes[r][c].attempt = x
        /\ codes' = [codes EXCEPT ![r][c] = NoCode]
        /\ pc[o] = "idle" /\ pc' = [pc EXCEPT ![o] = "verify"]
        /\ attempt' = [attempt EXCEPT ![o] = x]
        /\ UNCHANGED <<client, granted, pending>>
    BY DEF Redeem, Verified, TakeCode, Serve, Goto
  <1>2. <<r, c>> \in CodesOf(x)
    BY <1>1 DEF CodesOf
  <1>3. /\ \A rc \in CodesOf(x) : rc = <<r, c>>
        /\ PendingAt(x) = {} /\ ExchangedBy(x) = {} /\ VerifiedBy(x) = {}
    BY <1>2 DEF Placed, InOnePlace, Lone
  <1>4. \A t \in States : PendingAt(t)' = PendingAt(t)
    BY <1>1 DEF PendingAt
  <1>5. \A t \in States, q \in Replicas, d \in Codes :
          codes'[q][d].attempt = t <=> codes[q][d].attempt = t /\ <<q, d>> # <<r, c>>
    BY <1>1, FlowNoneAssumption DEF TypeOK, NoCode
  <1>6. CodesOf(x)' = {}
    BY <1>3, <1>5 DEF CodesOf
  <1>7. \A t \in States : CodesOf(t)' \subseteq CodesOf(t)
    BY <1>5 DEF CodesOf
  <1>8. VerifiedBy(x)' = {o} /\ ExchangedBy(x)' = {}
    BY <1>1, <1>3 DEF VerifiedBy, ExchangedBy, TypeOK
  <1>9. \A t \in States \ {x} : ExchangedBy(t)' = ExchangedBy(t) /\ VerifiedBy(t)' = VerifiedBy(t)
    BY <1>1 DEF VerifiedBy, ExchangedBy, TypeOK
  <1> QED BY <1>1, <1>2, <1>3, <1>4, <1>6, <1>7, <1>8, <1>9 DEF Redeems, Shrinks

LEMMA GrantMoves ==
  ASSUME TypeOK, Placed, OpsInOrder, NEW o \in Ops, CompleteWebLogin(o) \/ GrantSession(o),
         NEW s \in States, attempt[o] = s
  PROVE  Ends(s) /\ \A t \in States \ {s} : Stays(t)
  <1>1. /\ pc[o] \in {"exchange", "verify"}
        /\ granted' = [granted EXCEPT ![s] = @ + 1]
        /\ pc' = [pc EXCEPT ![o] = "idle"] /\ attempt' = [attempt EXCEPT ![o] = NoState]
        /\ UNCHANGED <<client, pending, codes>>
    BY DEF CompleteWebLogin, GrantSession, PutSession, Return, Goto, flowVars
  <1>2. o \in ExchangedBy(s) \/ o \in VerifiedBy(s)
    BY <1>1 DEF ExchangedBy, VerifiedBy
  <1>3. /\ ExchangedBy(s) \subseteq {o} /\ VerifiedBy(s) \subseteq {o}
        /\ PendingAt(s) = {} /\ CodesOf(s) = {} /\ granted[s] = 0
    <2>1. InOnePlace(s) /\ granted[s] \in Nat
      BY DEF Placed, TypeOK
    <2>2. PendingAt(s) = {} /\ CodesOf(s) = {} /\ granted[s] = 0
      BY <1>2, <2>1 DEF InOnePlace
    <2>3. \A p \in ExchangedBy(s) : p = o
      BY <1>2, <2>1 DEF InOnePlace, Lone
    <2>4. \A p \in VerifiedBy(s) : p = o
      BY <1>2, <2>1 DEF InOnePlace, Lone
    <2> QED BY <2>2, <2>3, <2>4
  <1>4. \A t \in States : PendingAt(t)' = PendingAt(t) /\ CodesOf(t)' = CodesOf(t)
    BY <1>1 DEF PendingAt, CodesOf
  <1>5. ExchangedBy(s)' = {} /\ VerifiedBy(s)' = {}
    BY <1>1, <1>3, FlowNoneAssumption DEF ExchangedBy, VerifiedBy, TypeOK
  <1>6. \A t \in States \ {s} :
           ExchangedBy(t)' = ExchangedBy(t) /\ VerifiedBy(t)' = VerifiedBy(t)
    BY <1>1, FlowNoneAssumption DEF ExchangedBy, VerifiedBy, TypeOK
  <1>7. \A t \in States \ {s} : granted'[t] = granted[t]
    BY <1>1 DEF TypeOK
  <1>8. granted'[s] = 1
    BY <1>1, <1>3 DEF TypeOK
  <1> QED
    <2>1. Ends(s)
      BY <1>1, <1>2, <1>3, <1>4, <1>5, <1>8 DEF Ends, Empty
    <2>2. \A t \in States \ {s} : Stays(t)
      BY <1>1, <1>4, <1>6, <1>7 DEF Stays
    <2> QED BY <2>1, <2>2

GivesUp ==
  \/ Tick
  \/ \E r \in Replicas :
       \/ \E s \in States : CallbackLate(r, s) \/ CallbackUnknown(r, s)
       \/ \E c \in Codes, x \in States, cl \in Clients \cup {NoClient}, sameUri \in BOOLEAN :
            RedeemRefused(r, c, x, cl, sameUri)
       \/ Restart(r)
  \/ \E o \in Ops : Refused(o)
  \/ UNCHANGED vars

LEMMA GiveUpMoves ==
  ASSUME TypeOK, OpsInOrder, GivesUp
  PROVE  \A t \in States : Shrinks(t)
  <1> SUFFICES ASSUME NEW t \in States PROVE Shrinks(t)
    OBVIOUS
  <1> USE DEF Shrinks, PendingAt, ExchangedBy, CodesOf, VerifiedBy
  <1>1. CASE Tick \/ UNCHANGED vars
    BY <1>1 DEF Tick, flowVars, opVars, vars
  <1>2. ASSUME NEW r \in Replicas, NEW s \in States, CallbackLate(r, s) PROVE Shrinks(t)
    <2>1. \A q \in Replicas : pending'[q][t] > 0 => pending[q][t] > 0
      BY <1>2 DEF CallbackLate, TakePending, TypeOK
    <2> QED BY <1>2, <2>1 DEF CallbackLate, opVars
  <1>3. ASSUME NEW r \in Replicas, NEW s \in States, CallbackUnknown(r, s) PROVE Shrinks(t)
    BY <1>3 DEF CallbackUnknown, vars
  <1>4. ASSUME NEW r \in Replicas, NEW c \in Codes, NEW x \in States,
               NEW cl \in Clients \cup {NoClient}, NEW sameUri \in BOOLEAN,
               RedeemRefused(r, c, x, cl, sameUri)
        PROVE  Shrinks(t)
    <2>1. \A q \in Replicas, d \in Codes : codes'[q][d].attempt = t => codes[q][d].attempt = t
      BY <1>4, FlowNoneAssumption DEF RedeemRefused, TakeCode, TypeOK, NoCode
    <2> QED BY <1>4, <2>1 DEF RedeemRefused, opVars
  <1>5. ASSUME NEW r \in Replicas, Restart(r) PROVE Shrinks(t)
    <2>1. \A q \in Replicas, d \in Codes : codes'[q][d].attempt = t => codes[q][d].attempt = t
      BY <1>5, FlowNoneAssumption DEF Restart, TypeOK, NoCode
    <2>2. \A q \in Replicas : pending'[q][t] > 0 => pending[q][t] > 0
      BY <1>5 DEF Restart, TypeOK
    <2>3. \A o \in Ops : pc'[o] # "idle" => pc'[o] = pc[o] /\ attempt'[o] = attempt[o]
      BY <1>5 DEF Restart, TypeOK
    <2> QED BY <1>5, <2>1, <2>2, <2>3 DEF Restart
  <1>6. ASSUME NEW o \in Ops, Refused(o) PROVE Shrinks(t)
    <2>1. \A p \in Ops : pc'[p] # "idle" => pc'[p] = pc[p] /\ attempt'[p] = attempt[p]
      BY <1>6 DEF Refused, Return, Goto, TypeOK
    <2> QED BY <1>6, <2>1 DEF Refused, flowVars
  <1> QED BY <1>1, <1>2, <1>3, <1>4, <1>5, <1>6 DEF GivesUp

(***************************************************************************)
(* The inductive invariant.                                                *)
(***************************************************************************)
LEMMA InvInit == Init => IInv
  <1> SUFFICES ASSUME Init PROVE IInv
    OBVIOUS
  <1>1. TypeOK
    BY TypesInit
  <1>2. ASSUME NEW s \in States
        PROVE  InOnePlace(s) /\ opened[s] <= now
    <2>1. Empty(s)
      BY FlowNoneAssumption DEF Init, Empty, PendingAt, ExchangedBy, CodesOf, VerifiedBy, NoCode
    <2> QED BY <2>1 DEF Init, InOnePlace, Empty, Lone
  <1>3. \A o \in Ops : WorkInOrder(o)
    BY DEF Init, WorkInOrder
  <1>4. \A r \in Replicas : CleanedInTime(r)
    BY FlowTimeAssumption DEF Init, CleanedInTime
  <1>5. ProofOfPossession
    BY DEF Init, ProofOfPossession
  <1>6. InTime
    BY FlowTimeAssumption, FlowNoneAssumption DEF Init, InTime, CodesOf, VerifiedBy, NoCode
  <1>7. MapsBounded
    BY DEF Init, MapsBounded
  <1> QED BY <1>1, <1>2, <1>3, <1>4, <1>5, <1>6, <1>7 DEF IInv

\* One attempt moves on, or some are given up (and perhaps one is opened).
OneMoves ==
  \/ \A t \in States : Shrinks(t)
  \/ \E s \in States :
       /\ Opens(s) \/ Takes(s) \/ Redeems(s)
       /\ \A t \in States \ {s} : Shrinks(t)
  \/ \E s \in States :
       /\ Codifies(s) \/ Ends(s)
       /\ \A t \in States \ {s} : Stays(t)

LEMMA NextMoves ==
  ASSUME IInv, [Next]_vars
  PROVE  OneMoves
  <1>1. TypeOK /\ Placed /\ OpsInOrder /\ \A r \in Replicas : CleanedInTime(r)
    BY DEF IInv, Placed, OpsInOrder
  <1>2. CASE GivesUp
    BY <1>1, <1>2, GiveUpMoves DEF OneMoves
  <1>3. ASSUME NEW r \in Replicas, NEW s \in States, NEW cl \in Clients \cup {WebUI},
               Open(r, s, cl)
        PROVE  OneMoves
    BY <1>1, <1>3, OpenMoves DEF OneMoves
  <1>4. ASSUME NEW r \in Replicas, NEW o \in Ops, NEW s \in States, NEW path \in Callbacks,
               Callback(o, r, s, path)
        PROVE  OneMoves
    BY <1>1, <1>4, CallbackMoves DEF OneMoves
  <1>5. ASSUME NEW r \in Replicas, NEW o \in Ops, NEW c \in Codes, NEW x \in States,
               NEW cl \in Clients \cup {NoClient}, NEW sameUri \in BOOLEAN,
               Redeem(o, r, c, x, cl, sameUri)
        PROVE  OneMoves
    BY <1>1, <1>5, RedeemMoves DEF OneMoves
  <1>6. ASSUME NEW o \in Ops, NEW c \in Codes, IssueCode(o, c)
        PROVE  OneMoves
    <2>1. attempt[o] \in States /\ replica[o] \in Replicas
      BY <1>1, <1>6 DEF IssueCode, OpsInOrder, WorkInOrder
    <2> QED BY <1>1, <1>6, <2>1, CodeMoves DEF OneMoves
  <1>7. ASSUME NEW o \in Ops, CompleteWebLogin(o) \/ GrantSession(o)
        PROVE  OneMoves
    <2>1. attempt[o] \in States
      BY <1>1, <1>7 DEF CompleteWebLogin, GrantSession, OpsInOrder, WorkInOrder
    <2> QED BY <1>1, <1>7, <2>1, GrantMoves DEF OneMoves
  <1> QED BY <1>2, <1>3, <1>4, <1>5, <1>6, <1>7 DEF Next, Arrive, Work, GivesUp

LEMMA OneMovesMoved == OneMoves => \A t \in States : Moved(t)
  <1>1. \A t \in States : Stays(t) => Shrinks(t)
    BY DEF Stays, Shrinks
  <1> QED BY <1>1 DEF OneMoves, Moved

\* A request that goes on keeps to its schedule, whatever else happens.
LEMMA ReturnInOrder ==
  ASSUME TypeOK, OpsInOrder, NEW o \in Ops, Return(o), UNCHANGED <<now, opened>>
  PROVE  OpsInOrder'
  <1> SUFFICES ASSUME NEW p \in Ops PROVE WorkInOrder(p)'
    BY DEF OpsInOrder
  <1>1. CASE p = o
    BY <1>1 DEF WorkInOrder, Return, Goto, TypeOK
  <1>2. CASE p # o
    BY <1>2 DEF WorkInOrder, OpsInOrder, Return, Goto, TypeOK
  <1> QED BY <1>1, <1>2

LEMMA ServeInOrder ==
  ASSUME TypeOK, OpsInOrder, UNCHANGED <<now, opened>>,
         NEW o \in Ops, NEW r \in Replicas, NEW s \in States, NEW path, NEW x,
         NEW label \in {"exchange", "verify"},
         Serve(o, r, s, path, x), Goto(o, label),
         label = "exchange" =>
           path \in Callbacks /\ x = NoState /\ now <= opened[s] + PendingTTL,
         label = "verify" =>
           /\ path = "/oauth/token" /\ x = s
           /\ now <= opened[s] + PendingTTL + MaxDelay + CodeTTL
  PROVE  OpsInOrder'
  <1> SUFFICES ASSUME NEW p \in Ops PROVE WorkInOrder(p)'
    BY DEF OpsInOrder
  <1>1. CASE p = o
    BY <1>1, FlowTimeAssumption DEF WorkInOrder, Serve, Goto, TypeOK
  <1>2. CASE p # o
    BY <1>2 DEF WorkInOrder, OpsInOrder, Serve, Goto, TypeOK
  <1> QED BY <1>1, <1>2

LEMMA OpsNext ==
  ASSUME IInv, [Next]_vars
  PROVE  OpsInOrder'
  <1>1. TypeOK /\ OpsInOrder
    BY DEF IInv, OpsInOrder
  <1>2. CASE Tick
    BY <1>1, <1>2, FlowTimeAssumption
       DEF OpsInOrder, WorkInOrder, Tick, flowVars, opVars, TypeOK
  <1>3. CASE UNCHANGED vars
    BY <1>1, <1>3 DEF OpsInOrder, WorkInOrder, vars
  <1>4. ASSUME NEW r \in Replicas, NEW s \in States, NEW cl \in Clients \cup {WebUI},
               Open(r, s, cl)
        PROVE  OpsInOrder'
    <2>1. ASSUME NEW o \in Ops, pc[o] # "idle" PROVE attempt[o] # s
      <3>1. ExchangedBy(s) = {} /\ VerifiedBy(s) = {}
        BY <1>4 DEF IInv, InOnePlace, Open
      <3> QED BY <1>1, <2>1, <3>1 DEF ExchangedBy, VerifiedBy, TypeOK
    <2>2. opened' = [opened EXCEPT ![s] = now] /\ UNCHANGED <<now, opVars>>
      BY <1>4 DEF Open
    <2> QED BY <1>1, <2>1, <2>2 DEF OpsInOrder, WorkInOrder, opVars, TypeOK
  <1>5. ASSUME NEW r \in Replicas, NEW s \in States, CallbackLate(r, s) PROVE OpsInOrder'
    BY <1>1, <1>5 DEF CallbackLate, opVars, OpsInOrder, WorkInOrder
  <1>6. ASSUME NEW r \in Replicas, NEW o \in Ops, NEW s \in States, NEW path \in Callbacks,
               Callback(o, r, s, path)
        PROVE  OpsInOrder'
    <2>1. now <= opened[s] + PendingTTL
      BY <1>6, FlowTimeAssumption DEF Callback, Expired, IInv, InTime, TypeOK
    <2> QED BY <1>1, <1>6, <2>1, ServeInOrder DEF Callback
  <1>7. ASSUME NEW r \in Replicas, NEW c \in Codes, NEW x \in States,
               NEW cl \in Clients \cup {NoClient}, NEW sameUri \in BOOLEAN,
               RedeemRefused(r, c, x, cl, sameUri)
        PROVE  OpsInOrder'
    BY <1>1, <1>7 DEF RedeemRefused, opVars, OpsInOrder, WorkInOrder
  <1>8. ASSUME NEW r \in Replicas, NEW o \in Ops, NEW c \in Codes, NEW x \in States,
               NEW cl \in Clients \cup {NoClient}, NEW sameUri \in BOOLEAN,
               Redeem(o, r, c, x, cl, sameUri)
        PROVE  OpsInOrder'
    <2>1. <<r, c>> \in CodesOf(x) /\ codes[r][c].attempt = x
      BY <1>8 DEF Redeem, Verified, CodesOf
    <2>2. codes[r][c].expires <= opened[x] + PendingTTL + MaxDelay + CodeTTL
      BY <2>1 DEF IInv, InTime
    <2>3. now <= opened[x] + PendingTTL + MaxDelay + CodeTTL
      BY <1>1, <1>8, <2>2, FlowTimeAssumption DEF Redeem, Expired, TypeOK
    <2> QED BY <1>1, <1>8, <2>1, <2>3, ServeInOrder DEF Redeem
  <1>9. ASSUME NEW r \in Replicas, Restart(r) PROVE OpsInOrder'
    <2>1. \A o \in Ops : pc'[o] # "idle" =>
            /\ pc'[o] = pc[o] /\ replica'[o] = replica[o] /\ attempt'[o] = attempt[o]
            /\ via'[o] = via[o] /\ since'[o] = since[o] /\ proof'[o] = proof[o]
      BY <1>1, <1>9 DEF Restart, TypeOK
    <2> QED BY <1>1, <1>9, <2>1 DEF OpsInOrder, WorkInOrder, Restart
  <1>10. ASSUME NEW o \in Ops, NEW c \in Codes, IssueCode(o, c) PROVE OpsInOrder'
    BY <1>1, <1>10, ReturnInOrder DEF IssueCode
  <1>11. ASSUME NEW o \in Ops, CompleteWebLogin(o) \/ GrantSession(o) PROVE OpsInOrder'
    BY <1>1, <1>11, ReturnInOrder DEF CompleteWebLogin, GrantSession, PutSession, flowVars
  <1>12. ASSUME NEW o \in Ops, Refused(o) PROVE OpsInOrder'
    BY <1>1, <1>12, ReturnInOrder DEF Refused, flowVars
  <1> QED BY <1>2, <1>3, <1>4, <1>5, <1>6, <1>7, <1>8, <1>9, <1>10, <1>11, <1>12
          DEF Next, Arrive, Work, CallbackUnknown

(***************************************************************************)
(* What the maps hold, and until when.  A step leaves an entry alone,      *)
(* drops it, or writes one that expires a lifetime from now.               *)
(***************************************************************************)
PendingWritten(q, s) ==
  \/ pending'[q][s] \in {pending[q][s], 0}
  \/ pending'[q][s] = now + PendingTTL /\ opened'[s] = now
CodeWritten(q, c) ==
  \/ codes'[q][c] \in {codes[q][c], NoCode}
  \/ /\ codes'[q][c].attempt \in States /\ c \in usedCodes'
     /\ codes'[q][c].expires = now + CodeTTL
     /\ now <= opened[codes'[q][c].attempt] + PendingTTL + MaxDelay

\* r opens an attempt now, after a cleanup that is not overdue.
Opened(r) ==
  /\ lastOpen' = [lastOpen EXCEPT ![r] = now]
  /\ cleanupAt' = [cleanupAt EXCEPT ![r] = IF Cleans(r) THEN now + CleanupPeriod ELSE @]
  /\ \A s \in States : pending'[r][s] > 0 => ~Cleans(r) \/ now <= pending'[r][s]
  /\ \A c \in Codes : codes'[r][c] # NoCode => ~Cleans(r) \/ now <= codes'[r][c].expires

KeptClean ==
  \/ UNCHANGED <<cleanupAt, lastOpen>>
  \/ \E r \in Replicas : Opened(r)
  \/ \E r \in Replicas :
       /\ cleanupAt' = [cleanupAt EXCEPT ![r] = 0] /\ lastOpen' = [lastOpen EXCEPT ![r] = 0]

Written ==
  /\ now <= now' /\ usedCodes \subseteq usedCodes'
  /\ \A s \in States : opened'[s] \in {opened[s], now}
  /\ \A q \in Replicas, s \in States : PendingWritten(q, s)
  /\ \A q \in Replicas, c \in Codes : CodeWritten(q, c)
  /\ KeptClean

LEMMA OpenWrites ==
  ASSUME TypeOK, NEW r \in Replicas, NEW s \in States, NEW cl \in Clients \cup {WebUI},
         Open(r, s, cl), \A q \in Replicas : pending[q][s] = 0
  PROVE  Written
  <1>1. \A q \in Replicas, t \in States :
          pending'[q][t] = IF q = r /\ t = s THEN now + PendingTTL
                           ELSE IF q = r /\ Cleans(r) /\ Expired(pending[q][t]) THEN 0
                           ELSE pending[q][t]
    BY DEF Open, CleanPending, TypeOK
  <1>2. \A q \in Replicas, c \in Codes :
          codes'[q][c] = IF q = r /\ Cleans(r) /\ Expired(codes[q][c].expires) THEN NoCode
                         ELSE codes[q][c]
    BY DEF Open, CleanCodes, TypeOK
  <1>3. \A q \in Replicas, t \in States : PendingWritten(q, t)
    BY <1>1 DEF PendingWritten, Open, TypeOK
  <1>4. \A q \in Replicas, c \in Codes : CodeWritten(q, c)
    BY <1>2 DEF CodeWritten
  <1>5. Opened(r)
    <2>1. \A t \in States : pending'[r][t] > 0 => ~Cleans(r) \/ now <= pending'[r][t]
      <3> TAKE t \in States
      <3>1. /\ now \in Nat /\ PendingTTL \in Nat /\ pending[r][t] \in Nat
            /\ pending'[r][t] = IF t = s THEN now + PendingTTL
                                ELSE IF Cleans(r) /\ Expired(pending[r][t]) THEN 0
                                ELSE pending[r][t]
        BY <1>1, FlowTimeAssumption DEF TypeOK
      <3> HIDE DEF Cleans
      <3> QED BY <3>1 DEF Expired
    <2>2. \A c \in Codes : codes'[r][c] # NoCode => ~Cleans(r) \/ now <= codes'[r][c].expires
      BY <1>2 DEF Expired, TypeOK
    <2> QED BY <2>1, <2>2 DEF Opened, Open
  <1> QED BY <1>3, <1>4, <1>5 DEF Written, KeptClean, Open, TypeOK

LEMMA CodeWrites ==
  ASSUME TypeOK, OpsInOrder, NEW o \in Ops, NEW c \in Codes, IssueCode(o, c)
  PROVE  Written
  <1>1. /\ attempt[o] \in States /\ replica[o] \in Replicas
        /\ now <= opened[attempt[o]] + PendingTTL + MaxDelay
    BY FlowTimeAssumption DEF IssueCode, OpsInOrder, WorkInOrder, TypeOK
  <1>2. \A q \in Replicas, d \in Codes :
          codes'[q][d] = IF q = replica[o] /\ d = c
                         THEN [attempt |-> attempt[o], expires |-> now + CodeTTL]
                         ELSE codes[q][d]
    BY <1>1 DEF IssueCode, CodeExpiry, TypeOK
  <1>3. \A q \in Replicas, d \in Codes : CodeWritten(q, d)
    BY <1>1, <1>2 DEF CodeWritten, IssueCode
  <1>4. UNCHANGED <<now, pending, opened, cleanupAt, lastOpen>> /\ usedCodes \subseteq usedCodes'
    BY DEF IssueCode
  <1> QED BY <1>3, <1>4 DEF Written, KeptClean, PendingWritten, TypeOK

LEMMA NextWrites ==
  ASSUME IInv, [Next]_vars
  PROVE  Written
  <1>1. TypeOK /\ OpsInOrder
    BY DEF IInv, OpsInOrder
  <1> USE DEF Written, PendingWritten, CodeWritten, KeptClean
  <1>2. CASE Tick
    BY <1>1, <1>2 DEF Tick, flowVars, TypeOK
  <1>3. CASE UNCHANGED vars
    BY <1>1, <1>3 DEF vars, TypeOK
  <1>4. ASSUME NEW r \in Replicas, NEW s \in States, NEW cl \in Clients \cup {WebUI},
               Open(r, s, cl)
        PROVE  Written
    <2>1. PendingAt(s) = {}
      BY <1>4 DEF Open, IInv, InOnePlace
    <2>2. \A q \in Replicas : pending[q][s] = 0
      BY <1>1, <2>1 DEF PendingAt, TypeOK
    <2> HIDE DEF Written
    <2> QED BY <1>1, <1>4, <2>2, OpenWrites
  <1>5. ASSUME NEW r \in Replicas, NEW s \in States, CallbackLate(r, s) PROVE Written
    BY <1>1, <1>5 DEF CallbackLate, TakePending, TypeOK
  <1>6. ASSUME NEW r \in Replicas, NEW o \in Ops, NEW s \in States, NEW path \in Callbacks,
               Callback(o, r, s, path)
        PROVE  Written
    BY <1>1, <1>6 DEF Callback, TakePending, TypeOK
  <1>7. ASSUME NEW r \in Replicas, NEW c \in Codes, NEW x \in States,
               NEW cl \in Clients \cup {NoClient}, NEW sameUri \in BOOLEAN,
               RedeemRefused(r, c, x, cl, sameUri)
        PROVE  Written
    BY <1>1, <1>7 DEF RedeemRefused, TakeCode, TypeOK
  <1>8. ASSUME NEW r \in Replicas, NEW o \in Ops, NEW c \in Codes, NEW x \in States,
               NEW cl \in Clients \cup {NoClient}, NEW sameUri \in BOOLEAN,
               Redeem(o, r, c, x, cl, sameUri)
        PROVE  Written
    BY <1>1, <1>8 DEF Redeem, TakeCode, TypeOK
  <1>9. ASSUME NEW r \in Replicas, Restart(r) PROVE Written
    <2>1. \A q \in Replicas, s \in States : pending'[q][s] \in {pending[q][s], 0}
      BY <1>1, <1>9 DEF Restart, TypeOK
    <2>2. \A q \in Replicas, c \in Codes : codes'[q][c] \in {codes[q][c], NoCode}
      BY <1>1, <1>9 DEF Restart, TypeOK
    <2>3. /\ cleanupAt' = [cleanupAt EXCEPT ![r] = 0] /\ lastOpen' = [lastOpen EXCEPT ![r] = 0]
          /\ UNCHANGED <<now, opened, usedCodes>>
      BY <1>9 DEF Restart
    <2>4. KeptClean
      BY <2>3
    <2> HIDE DEF KeptClean
    <2> QED BY <1>1, <2>1, <2>2, <2>3, <2>4 DEF TypeOK
  <1>10. ASSUME NEW o \in Ops, NEW c \in Codes, IssueCode(o, c) PROVE Written
    <2> HIDE DEF Written
    <2> QED BY <1>1, <1>10, CodeWrites
  <1>11. ASSUME NEW o \in Ops, CompleteWebLogin(o) \/ GrantSession(o) PROVE Written
    BY <1>1, <1>11 DEF CompleteWebLogin, GrantSession, PutSession, flowVars, TypeOK
  <1>12. ASSUME NEW o \in Ops, Refused(o) PROVE Written
    BY <1>1, <1>12 DEF Refused, flowVars, TypeOK
  <1> HIDE DEF Written
  <1> QED BY <1>2, <1>3, <1>4, <1>5, <1>6, <1>7, <1>8, <1>9, <1>10, <1>11, <1>12
          DEF Next, Arrive, Work, CallbackUnknown

LEMMA ZeroLeastSum == \A m, n \in Nat : 0 <= m /\ 0 <= m + n
  OBVIOUS

LEMMA CleanNext ==
  ASSUME IInv, Written, TypeOK'
  PROVE  (\A r \in Replicas : CleanedInTime(r))' /\ MapsBounded'
  <1> SUFFICES ASSUME NEW r \in Replicas
               PROVE  /\ CleanedInTime(r)'
                      /\ (\A s \in States :
                            pending[r][s] > 0 => lastOpen[r] <= pending[r][s] + CleanupPeriod)'
                      /\ (\A c \in Codes : codes[r][c] # NoCode =>
                            lastOpen[r] <= codes[r][c].expires + CleanupPeriod)'
    BY DEF MapsBounded
  <1>1. TypeOK /\ CleanedInTime(r)
    BY DEF IInv
  <1>2. /\ \A s \in States :
             pending[r][s] > 0 => lastOpen[r] <= pending[r][s] + CleanupPeriod
        /\ \A c \in Codes : codes[r][c] # NoCode =>
             lastOpen[r] <= codes[r][c].expires + CleanupPeriod
    BY DEF IInv, MapsBounded
  <1>3. /\ now \in Nat /\ now' \in Nat /\ now <= now' /\ lastOpen[r] \in Nat
        /\ cleanupAt[r] \in Nat /\ PendingTTL \in Nat /\ CodeTTL \in Nat /\ CleanupPeriod \in Nat
    BY <1>1, FlowTimeAssumption DEF TypeOK, Written
  \* What is in the maps after the step was in them before, or is new.
  <1>4. \A s \in States : pending'[r][s] > 0 =>
          pending'[r][s] \in {pending[r][s], now + PendingTTL}
    <2> TAKE s \in States
    <2>1. pending'[r][s] \in {pending[r][s], now + PendingTTL, 0}
      BY DEF Written, PendingWritten
    <2> QED BY <2>1
  <1>5. \A c \in Codes : codes'[r][c] # NoCode =>
          \/ codes'[r][c] = codes[r][c]
          \/ /\ codes'[r][c].attempt \in States /\ c \in usedCodes'
             /\ codes'[r][c].expires = now + CodeTTL
    BY DEF Written, CodeWritten
  <1>6. \A s \in States : pending[r][s] \in Nat /\ pending'[r][s] \in Nat
    BY <1>1 DEF TypeOK
  <1>7. \A c \in Codes : codes[r][c].expires \in Nat /\ codes'[r][c].expires \in Nat
    BY <1>1 DEF TypeOK
  <1>8. \A c \in Codes : codes'[r][c] # NoCode =>
          codes'[r][c].attempt # NoState /\ c \in usedCodes'
    BY <1>1, <1>5, FlowNoneAssumption DEF CleanedInTime, Written
  <1>9. \/ UNCHANGED <<cleanupAt, lastOpen>>
        \/ Opened(r)
        \/ cleanupAt'[r] = 0 /\ lastOpen'[r] = 0
        \/ cleanupAt'[r] = cleanupAt[r] /\ lastOpen'[r] = lastOpen[r]
    BY <1>1 DEF Written, KeptClean, Opened, TypeOK
  <1>10. CASE cleanupAt'[r] = cleanupAt[r] /\ lastOpen'[r] = lastOpen[r]
    BY <1>1, <1>2, <1>3, <1>4, <1>5, <1>6, <1>7, <1>8, <1>10 DEF CleanedInTime
  <1>11. CASE cleanupAt'[r] = 0 /\ lastOpen'[r] = 0
    <2>1. \A s \in States : pending'[r][s] > 0 =>
            /\ cleanupAt'[r] <= pending'[r][s] + CleanupPeriod
            /\ lastOpen'[r] <= pending'[r][s] + CleanupPeriod
      BY <1>3, <1>6, <1>11
    <2>2. \A c \in Codes :
            /\ cleanupAt'[r] <= codes'[r][c].expires + CleanupPeriod
            /\ lastOpen'[r] <= codes'[r][c].expires + CleanupPeriod
      BY <1>3, <1>7, <1>11
    <2>3. lastOpen'[r] <= now' /\ cleanupAt'[r] <= now' + CleanupPeriod
      <3>1. now' \in Nat /\ CleanupPeriod \in Nat
        BY <1>3
      <3>2. lastOpen'[r] = 0
        BY <1>11
      <3>3. cleanupAt'[r] = 0
        BY <1>11
      <3>4. lastOpen'[r] <= now'
        BY <3>1, <3>2, ZeroLeastSum, Zenon
      <3>5. cleanupAt'[r] <= now' + CleanupPeriod
        BY <3>1, <3>3, ZeroLeastSum, Zenon
      <3> QED BY <3>4, <3>5
    <2>4. CleanedInTime(r)'
      BY <1>8, <2>1, <2>2, <2>3 DEF CleanedInTime
    <2> QED BY <2>1, <2>2, <2>4
  <1>12. CASE Opened(r)
    <2>1. lastOpen'[r] = now
      BY <1>1, <1>12 DEF Opened, TypeOK
    <2>2. CASE Cleans(r)
      <3>1. cleanupAt'[r] = now + CleanupPeriod
        BY <1>1, <1>12, <2>2 DEF Opened, TypeOK
      <3>2. /\ \A s \in States : pending'[r][s] > 0 => now <= pending'[r][s]
            /\ \A c \in Codes : codes'[r][c] # NoCode => now <= codes'[r][c].expires
        BY <1>12, <2>2 DEF Opened
      <3>3. \A s \in States : pending'[r][s] > 0 =>
              cleanupAt'[r] <= pending'[r][s] + CleanupPeriod
        BY <1>3, <1>6, <3>1, <3>2
      <3>4. \A c \in Codes : codes'[r][c] # NoCode =>
              cleanupAt'[r] <= codes'[r][c].expires + CleanupPeriod
        BY <1>3, <1>7, <3>1, <3>2
      <3>5. lastOpen'[r] <= now' /\ cleanupAt'[r] <= now' + CleanupPeriod
        BY <1>3, <2>1, <3>1
      <3>6. CleanedInTime(r)'
        BY <1>8, <3>3, <3>4, <3>5 DEF CleanedInTime
      <3> QED BY <1>3, <1>6, <1>7, <2>1, <3>2, <3>6
    <2>3. CASE ~Cleans(r)
      <3>1. cleanupAt'[r] = cleanupAt[r] /\ now < cleanupAt[r]
        BY <1>1, <1>3, <1>12, <2>3 DEF Opened, Cleans, TypeOK
      <3> QED BY <1>1, <1>3, <1>4, <1>5, <1>6, <1>7, <1>8, <2>1, <3>1 DEF CleanedInTime
    <2> QED BY <2>2, <2>3
  <1> QED BY <1>9, <1>10, <1>11, <1>12

LEMMA InTimeNext ==
  ASSUME IInv, Written, TypeOK', OpsInOrder'
  PROVE  InTime' /\ (\A s \in States : opened[s] <= now)'
  <1>1. TypeOK /\ \A s \in States : opened[s] <= now
    BY DEF IInv
  <1> DEFINE Late == PendingTTL + MaxDelay + CodeTTL
  <1>2. Late \in Nat /\ PendingTTL \in Nat /\ MaxDelay \in Nat /\ CodeTTL \in Nat
    BY FlowTimeAssumption
  <1>3. \A s \in States : /\ opened[s] \in Nat /\ opened'[s] \in Nat /\ now \in Nat /\ now' \in Nat
                         /\ opened[s] <= opened'[s] /\ opened'[s] <= now'
    <2> TAKE s \in States
    <2>1. opened[s] \in Nat /\ opened'[s] \in Nat /\ now \in Nat /\ now' \in Nat /\ opened[s] <= now
      BY <1>1 DEF TypeOK
    <2>2. now <= now' /\ opened'[s] \in {opened[s], now}
      BY DEF Written
    <2> QED BY <2>1, <2>2
  <1>4. ASSUME NEW q \in Replicas, NEW s \in States
        PROVE  pending'[q][s] <= opened'[s] + PendingTTL
    <2>1. pending[q][s] <= opened[s] + PendingTTL /\ pending[q][s] \in Nat
      BY <1>1 DEF IInv, InTime, TypeOK
    <2>2. PendingWritten(q, s)
      BY DEF Written
    <2> QED BY <1>2, <1>3, <2>1, <2>2 DEF PendingWritten
  <1>5. ASSUME NEW s \in States, NEW rc \in CodesOf(s)'
        PROVE  codes'[rc[1]][rc[2]].expires <= opened'[s] + PendingTTL + MaxDelay + CodeTTL
    <2>1. /\ rc \in Replicas \X Codes /\ rc[1] \in Replicas /\ rc[2] \in Codes
          /\ codes'[rc[1]][rc[2]].attempt = s
      BY DEF CodesOf
    <2>2. CodeWritten(rc[1], rc[2]) /\ codes'[rc[1]][rc[2]] # NoCode
      BY <2>1, FlowNoneAssumption DEF Written, NoCode
    <2>3. CASE codes'[rc[1]][rc[2]] = codes[rc[1]][rc[2]]
      <3>1. rc \in CodesOf(s)
        BY <2>1, <2>3 DEF CodesOf
      <3>2. codes[rc[1]][rc[2]].expires <= opened[s] + PendingTTL + MaxDelay + CodeTTL
        BY <3>1 DEF IInv, InTime
      <3>3. codes[rc[1]][rc[2]].expires \in Nat
        BY <1>1, <2>1 DEF TypeOK
      <3> QED BY <1>2, <1>3, <2>3, <3>2, <3>3
    <2>4. CASE /\ codes'[rc[1]][rc[2]].expires = now + CodeTTL
               /\ now <= opened[s] + PendingTTL + MaxDelay
      BY <1>2, <1>3, <2>4
    <2> QED BY <2>1, <2>2, <2>3, <2>4 DEF CodeWritten
  <1>6. ASSUME NEW s \in States, NEW o \in VerifiedBy(s)'
        PROVE  since'[o] <= opened'[s] + PendingTTL + MaxDelay + CodeTTL
    BY DEF VerifiedBy, OpsInOrder, WorkInOrder
  <1> QED BY <1>3, <1>4, <1>5, <1>6 DEF InTime

\* A session is stored for an attempt of its own kind, or none is.
LEMMA GrantProof ==
  ASSUME IInv, NEW o \in Ops, CompleteWebLogin(o) \/ GrantSession(o)
  PROVE  ProofOfPossession'
  <1> DEFINE a == attempt[o]
  <1>1. TypeOK /\ WorkInOrder(o) /\ ProofOfPossession
    BY DEF IInv
  <1>2. /\ a \in States /\ UNCHANGED client
        /\ session' = [session EXCEPT ![a] = [path |-> via[o], verifier |-> proof[o]]]
        /\ granted' = [granted EXCEPT ![a] = @ + 1]
    BY <1>1 DEF CompleteWebLogin, GrantSession, PutSession, WorkInOrder, flowVars
  <1>3. \/ via[o] = "/oauth/token" /\ proof[o] = a
        \/ via[o] = "/oauth/callback" /\ proof[o] = NoState /\ client[a] = WebUI
        \/ via[o] = "/auth/callback" /\ proof[o] = NoState
    BY <1>1 DEF CompleteWebLogin, GrantSession, IsWebLogin, WorkInOrder, Callbacks
  <1>4. session'[a] = [path |-> via[o], verifier |-> proof[o]]
    BY <1>1, <1>2 DEF TypeOK
  <1>5. ASSUME NEW s \in States \ {a}
        PROVE  session'[s] = session[s] /\ granted'[s] = granted[s]
    BY <1>1, <1>2 DEF TypeOK
  <1> QED BY <1>1, <1>2, <1>3, <1>4, <1>5 DEF ProofOfPossession

LEMMA ProofNext ==
  ASSUME IInv, [Next]_vars
  PROVE  ProofOfPossession'
  <1>1. ProofOfPossession
    BY DEF IInv
  <1>2. CASE UNCHANGED <<session, granted, client>>
    BY <1>1, <1>2 DEF ProofOfPossession
  <1>3. ASSUME NEW r \in Replicas, NEW s \in States, NEW cl \in Clients \cup {WebUI},
               Open(r, s, cl)
        PROVE  ProofOfPossession'
    <2>1. granted[s] = 0 /\ UNCHANGED <<session, granted>>
      BY <1>3 DEF Open, IInv, InOnePlace
    <2>2. \A t \in States \ {s} : client'[t] = client[t]
      BY <1>3 DEF Open, IInv, TypeOK
    <2> QED BY <1>1, <2>1, <2>2 DEF ProofOfPossession
  <1>4. ASSUME NEW r \in Replicas, Arrive(r) \/ Restart(r),
               ~\E s \in States, cl \in Clients \cup {WebUI} : Open(r, s, cl)
        PROVE  UNCHANGED <<session, granted, client>>
    BY <1>4 DEF Arrive, CallbackLate, CallbackUnknown, Callback, RedeemRefused, Redeem,
                Restart, vars
  <1>5. ASSUME NEW o \in Ops, Work(o), ~(CompleteWebLogin(o) \/ GrantSession(o))
        PROVE  UNCHANGED <<session, granted, client>>
    BY <1>5 DEF Work, IssueCode, Refused, flowVars
  <1>6. CASE Tick \/ UNCHANGED vars
    BY <1>2, <1>6 DEF Tick, vars, flowVars
  <1> QED BY <1>2, <1>3, <1>4, <1>5, <1>6, GrantProof DEF Next

LEMMA InvNext == IInv /\ [Next]_vars => IInv'
  <1> SUFFICES ASSUME IInv, [Next]_vars PROVE IInv'
    OBVIOUS
  <1>1. TypeOK'
    BY TypesNext DEF IInv
  <1>2. \A s \in States : InOnePlace(s)'
    BY <1>1, NextMoves, OneMovesMoved, MovedKeepsPlace DEF IInv
  <1>3. OpsInOrder' /\ Written
    BY OpsNext, NextWrites
  <1>4. (\A r \in Replicas : CleanedInTime(r))' /\ MapsBounded'
    BY <1>1, <1>3, CleanNext
  <1>5. InTime' /\ (\A s \in States : opened[s] <= now)'
    BY <1>1, <1>3, InTimeNext
  <1>6. ProofOfPossession'
    BY ProofNext
  <1> QED BY <1>1, <1>2, <1>3, <1>4, <1>5, <1>6 DEF IInv, OpsInOrder

(***************************************************************************)
(* Every reachable state of the sign-in flow satisfies the inductive       *)
(* invariant: each attempt is in one map entry or with one request.        *)
(***************************************************************************)
THEOREM FlowInductive == Spec => []IInv
  <1> QED BY InvInit, InvNext, PTL DEF Spec

LEMMA AtMostOne == \A S : Lone(S) => Cardinality(S) = IF S = {} THEN 0 ELSE 1
  <1> SUFFICES ASSUME NEW S, Lone(S) PROVE Cardinality(S) = IF S = {} THEN 0 ELSE 1
    OBVIOUS
  <1>1. CASE S = {}
    BY <1>1, FS_EmptySet
  <1>2. CASE S # {}
    <2>1. PICK x \in S : TRUE
      BY <1>2
    <2>2. S = {x}
      BY <2>1 DEF Lone
    <2> QED BY <1>2, <2>2, FS_Singleton
  <1> QED BY <1>1, <1>2

(***************************************************************************)
(* One-time use of attempts and codes (handleCallback, handleWebCallback,  *)
(* tokenAuthorizationCode): no interleaving of callbacks, token requests,  *)
(* cleanups and restarts makes one sign-in two sessions.                   *)
(***************************************************************************)
THEOREM FlowOneTime == Spec => []OneTime
  <1>1. IInv => OneTime
    <2> SUFFICES ASSUME IInv, NEW s \in States
                 PROVE  Cardinality(PendingAt(s)) + Cardinality(ExchangedBy(s))
                          + Cardinality(CodesOf(s)) + Cardinality(VerifiedBy(s)) + granted[s] <= 1
      BY DEF OneTime
    <2>1. InOnePlace(s) /\ granted[s] \in Nat
      BY DEF IInv, TypeOK
    <2>2. /\ Cardinality(PendingAt(s)) = IF PendingAt(s) = {} THEN 0 ELSE 1
          /\ Cardinality(ExchangedBy(s)) = IF ExchangedBy(s) = {} THEN 0 ELSE 1
          /\ Cardinality(CodesOf(s)) = IF CodesOf(s) = {} THEN 0 ELSE 1
          /\ Cardinality(VerifiedBy(s)) = IF VerifiedBy(s) = {} THEN 0 ELSE 1
      BY <2>1, AtMostOne DEF InOnePlace
    <2> QED BY <2>1, <2>2 DEF InOnePlace
  <1> QED BY <1>1, FlowInductive, PTL

(***************************************************************************)
(* PKCE and state binding (verifyPKCE): a session the token endpoint       *)
(* issued went to the holder of its own attempt's verifier; any other is a *)
(* portal session, of the portal's own attempt or of one whose state came  *)
(* to /auth/callback.                                                      *)
(***************************************************************************)
THEOREM FlowPossession == Spec => []ProofOfPossession
  <1>1. IInv => ProofOfPossession
    BY DEF IInv
  <1> QED BY <1>1, FlowInductive, PTL

(***************************************************************************)
(* oauthPendingTTL and oauthCodeTTL bound what an attempt is good for.     *)
(***************************************************************************)
THEOREM FlowInTime == Spec => []InTime
  <1>1. IInv => InTime
    BY DEF IInv
  <1> QED BY <1>1, FlowInductive, PTL

(***************************************************************************)
(* cleanupLocked keeps the two maps from growing with abandoned sign-ins.  *)
(***************************************************************************)
THEOREM FlowMapsBounded == Spec => []MapsBounded
  <1>1. IInv => MapsBounded
    BY DEF IInv
  <1> QED BY <1>1, FlowInductive, PTL

(***************************************************************************)
(* The flow implements OneTimeGrant: what happens to an attempt as the     *)
(* specification of one-time grants sees it.                               *)
(***************************************************************************)
LEMMA PhaseMoves ==
  ASSUME NEW s \in States, TypeOK, TypeOK', InOnePlace(s), InOnePlace(s)'
  PROVE  /\ Shrinks(s) => \/ Phase(s)' = Phase(s)
                          \/ Phase(s) \in {"open", "code"} /\ Phase(s)' = "over"
         /\ Stays(s) => Phase(s)' = Phase(s)
         /\ Opens(s) => Phase(s) = "new" /\ Phase(s)' = "open"
         /\ Takes(s) \/ Redeems(s) => Phase(s)' = Phase(s)
         /\ Codifies(s) => Phase(s) = "open" /\ Phase(s)' = "code"
         /\ Ends(s) => Phase(s) \in {"open", "code"} /\ Phase(s)' = "over"
  <1> USE DEF Phase, InOnePlace
  <1>1. Shrinks(s) => \/ Phase(s)' = Phase(s)
                      \/ Phase(s) \in {"open", "code"} /\ Phase(s)' = "over"
    BY DEF Shrinks
  <1>2. Stays(s) => Phase(s)' = Phase(s)
    BY DEF Stays
  <1>3. Opens(s) => Phase(s) = "new" /\ Phase(s)' = "open"
    BY DEF Opens
  <1>4. Takes(s) => Phase(s)' = Phase(s)
    BY DEF Takes
  <1>5. Redeems(s) => Phase(s)' = Phase(s)
    BY DEF Redeems
  <1>6. Codifies(s) => Phase(s) = "open" /\ Phase(s)' = "code"
    BY DEF Codifies
  <1>7. Ends(s) => Phase(s) \in {"open", "code"} /\ Phase(s)' = "over"
    BY DEF Ends, Empty, TypeOK
  <1> HIDE DEF Phase, InOnePlace
  <1> QED BY ONLY <1>1, <1>2, <1>3, <1>4, <1>5, <1>6, <1>7

Phases == [s \in States |-> Phase(s)]

LEMMA GrantStep ==
  ASSUME IInv, IInv', [Next]_vars
  PROVE  [OneTimeGrants!GrantNext]_OneTimeGrants!grantVars
  <1>1. TypeOK /\ TypeOK' /\ \A s \in States : InOnePlace(s) /\ InOnePlace(s)'
    BY DEF IInv
  <1>2. /\ granted \in [States -> Nat] /\ granted' \in [States -> Nat]
        /\ Phases' = [s \in States |-> Phase(s)']
    BY <1>1 DEF TypeOK, Phases
  <1> DEFINE gone == {t \in States : Phase(t)' # Phase(t) /\ Shrinks(t)}
  <1>3. \A t \in States : Shrinks(t) =>
          IF t \in gone THEN Phase(t) \in {"open", "code"} /\ Phase(t)' = "over"
                       ELSE Phase(t)' = Phase(t)
    BY <1>1, PhaseMoves
  <1>4. \A t \in gone : Phase(t) \in {"open", "code"} /\ Phase(t)' = "over"
    BY <1>3
  <1> HIDE DEF gone
  <1>5. CASE \A t \in States : Shrinks(t)
    <2>1. UNCHANGED granted
      BY <1>2, <1>5 DEF Shrinks
    <2>2. Phases' = [s \in States |-> IF s \in gone THEN "over" ELSE Phases[s]]
      BY <1>2, <1>3, <1>5 DEF Phases
    <2>3. OneTimeGrants!GiveUp(gone)
      BY <1>4, <2>1, <2>2 DEF OneTimeGrants!GiveUp, Phases, gone
    <2>4. gone \in SUBSET States
      BY DEF gone
    <2> QED BY <2>3, <2>4 DEF OneTimeGrants!GrantNext
  <1>6. ASSUME NEW s \in States, Opens(s), \A t \in States \ {s} : Shrinks(t)
        PROVE  OneTimeGrants!GrantNext
    <2>1. UNCHANGED granted
      BY <1>2, <1>6 DEF Shrinks, Opens
    <2>2. Phase(s) = "new" /\ Phase(s)' = "open"
      BY <1>1, <1>6, PhaseMoves
    <2>3. s \notin gone
      BY <1>4, <2>2
    <2>4. Phases' = [t \in States |-> IF t \in gone THEN "over"
                                     ELSE IF t = s THEN "open" ELSE Phases[t]]
      BY <1>2, <1>3, <1>6, <2>2, <2>3 DEF Phases
    <2>5. s \in States \ gone /\ Phases[s] = "new" /\ gone \in SUBSET States
      BY <2>2, <2>3 DEF Phases, gone
    <2>6. \A t \in gone : Phases[t] \in {"open", "code"}
      BY <1>4 DEF Phases, gone
    <2>7. OneTimeGrants!GiveUp(gone)
      BY <2>1, <2>4, <2>5, <2>6 DEF OneTimeGrants!GiveUp, Phases
    <2> QED BY <2>5, <2>7 DEF OneTimeGrants!GrantNext
  <1>7. ASSUME NEW s \in States, Takes(s) \/ Redeems(s), \A t \in States \ {s} : Shrinks(t)
        PROVE  OneTimeGrants!GrantNext
    <2>1. UNCHANGED granted
      BY <1>2, <1>7 DEF Shrinks, Takes, Redeems
    <2>2. Phase(s)' = Phase(s)
      BY <1>1, <1>7, PhaseMoves
    <2>3. s \notin gone
      BY <2>2 DEF gone
    <2>4. Phases' = [t \in States |-> IF t \in gone THEN "over" ELSE Phases[t]]
      BY <1>2, <1>3, <1>7, <2>2, <2>3 DEF Phases
    <2>5. OneTimeGrants!GiveUp(gone)
      BY <1>4, <2>1, <2>4 DEF OneTimeGrants!GiveUp, Phases, gone
    <2>6. gone \in SUBSET States
      BY DEF gone
    <2> QED BY <2>5, <2>6 DEF OneTimeGrants!GrantNext
  <1>8. ASSUME NEW s \in States, Codifies(s), \A t \in States \ {s} : Stays(t)
        PROVE  OneTimeGrants!GrantNext
    <2>1. UNCHANGED granted
      BY <1>2, <1>8 DEF Stays, Codifies
    <2>2. Phase(s) = "open" /\ Phase(s)' = "code"
      BY <1>1, <1>8, PhaseMoves
    <2>3. \A t \in States \ {s} : Phase(t)' = Phase(t)
      BY <1>1, <1>8, PhaseMoves
    <2>4. Phases' = [Phases EXCEPT ![s] = "code"] /\ Phases[s] = "open"
      BY <1>2, <2>2, <2>3 DEF Phases
    <2>5. OneTimeGrants!Authorized(s)
      BY <2>1, <2>4 DEF OneTimeGrants!Authorized, Phases
    <2> QED BY <2>5 DEF OneTimeGrants!GrantNext
  <1>9. ASSUME NEW s \in States, Ends(s), \A t \in States \ {s} : Stays(t)
        PROVE  OneTimeGrants!GrantNext
    <2>1. granted' = [granted EXCEPT ![s] = @ + 1]
      BY <1>2, <1>9 DEF Stays, Ends
    <2>2. Phase(s) \in {"open", "code"} /\ Phase(s)' = "over"
      BY <1>1, <1>9, PhaseMoves
    <2>3. \A t \in States \ {s} : Phase(t)' = Phase(t)
      BY <1>1, <1>9, PhaseMoves
    <2>4. Phases' = [Phases EXCEPT ![s] = "over"] /\ Phases[s] \in {"open", "code"}
      BY <1>2, <2>2, <2>3 DEF Phases
    <2>5. OneTimeGrants!Grant(s)
      BY <2>1, <2>4 DEF OneTimeGrants!Grant, Phases
    <2> QED BY <2>5 DEF OneTimeGrants!GrantNext
  <1> QED BY <1>5, <1>6, <1>7, <1>8, <1>9, NextMoves DEF OneMoves

(***************************************************************************)
(* The sign-in flow of any number of replicas implements one-time grants:  *)
(* an attempt is opened once, becomes a code at most once and ends in at   *)
(* most one session.                                                       *)
(***************************************************************************)
THEOREM FlowImplementsGrant == Spec => ImplementsOneTimeGrant
  <1>1. Init => OneTimeGrants!GrantInit
    BY DEF Init, OneTimeGrants!GrantInit, Phase
  <1> QED BY <1>1, FlowInductive, GrantStep, PTL
          DEF ImplementsOneTimeGrant, OneTimeGrants!GrantSpec, Spec

LEMMA AttemptStays ==
  ASSUME IInv, Next, NEW r \in Replicas, NEW s \in States
  PROVE  AttemptKept(r, s)
  <1> USE DEF AttemptKept
  <1>1. TypeOK /\ Placed
    BY DEF IInv, Placed
  <1>2. CASE UNCHANGED pending
    BY <1>2
  <1>3. ASSUME NEW q \in Replicas, NEW t \in States, NEW cl \in Clients \cup {WebUI},
               Open(q, t, cl)
        PROVE  AttemptKept(r, s)
    <2>1. now + PendingTTL > 0
      BY <1>1, FlowTimeAssumption DEF TypeOK
    <2>2. pending'[r][s] = IF r = q /\ s = t THEN now + PendingTTL
                           ELSE IF r = q /\ Cleans(q) /\ Expired(pending[r][s]) THEN 0
                           ELSE pending[r][s]
      BY <1>1, <1>3 DEF Open, CleanPending, TypeOK
    <2> HIDE DEF Expired
    <2> QED BY <2>1, <2>2
  <1>4. ASSUME NEW q \in Replicas, NEW t \in States, CallbackLate(q, t) PROVE AttemptKept(r, s)
    <2>1. pending'[r][s] = IF r = q /\ s = t THEN 0 ELSE pending[r][s]
      BY <1>1, <1>4 DEF CallbackLate, TakePending, TypeOK
    <2> QED BY <1>4, <2>1 DEF CallbackLate
  <1>5. ASSUME NEW q \in Replicas, NEW o \in Ops, NEW t \in States, NEW path \in Callbacks,
               Callback(o, q, t, path)
        PROVE  AttemptKept(r, s)
    <2>1. pending'[r][s] = IF r = q /\ s = t THEN 0 ELSE pending[r][s]
      BY <1>1, <1>5 DEF Callback, TakePending, TypeOK
    <2>2. ExchangedBy(t)' = {o}
      BY <1>1, <1>5, CallbackMoves
    <2> QED BY <2>1, <2>2
  <1>6. ASSUME NEW q \in Replicas, Restart(q) PROVE AttemptKept(r, s)
    <2>1. q # r => pending'[r][s] = pending[r][s]
      BY <1>1, <1>6 DEF Restart, TypeOK
    <2> QED BY <1>6, <2>1
  <1>7. ASSUME NEW q \in Replicas, Arrive(q) PROVE AttemptKept(r, s)
    BY <1>2, <1>3, <1>4, <1>5, <1>7 DEF Arrive, CallbackUnknown, vars, Redeem, RedeemRefused
  <1>8. ASSUME NEW o \in Ops, Work(o) PROVE AttemptKept(r, s)
    BY <1>2, <1>8 DEF Work, IssueCode, CompleteWebLogin, GrantSession, PutSession, Refused, flowVars
  <1>9. CASE Tick
    BY <1>2, <1>9 DEF Tick, flowVars
  <1> QED BY <1>6, <1>7, <1>8, <1>9 DEF Next

LEMMA CodeStays ==
  ASSUME IInv, Next, NEW r \in Replicas, NEW c \in Codes, NEW s \in States
  PROVE  CodeKept(r, c, s)
  <1> USE DEF CodeKept
  <1>1. TypeOK /\ Placed /\ OpsInOrder
    BY DEF IInv, Placed, OpsInOrder
  <1>2. CASE codes'[r][c] = codes[r][c]
    BY <1>1, <1>2, FlowNoneAssumption DEF NoCode
  <1>3. ASSUME NEW q \in Replicas, NEW t \in States, NEW cl \in Clients \cup {WebUI},
               Open(q, t, cl)
        PROVE  CodeKept(r, c, s)
    <2>1. codes'[r][c] = codes[r][c] \/ Expired(codes[r][c].expires)
      BY <1>1, <1>3 DEF Open, CleanCodes, TypeOK
    <2> QED BY <1>2, <2>1
  <1>4. ASSUME NEW q \in Replicas, NEW o \in Ops, NEW d \in Codes, NEW x \in States,
               NEW cl \in Clients \cup {NoClient}, NEW sameUri \in BOOLEAN,
               Redeem(o, q, d, x, cl, sameUri)
        PROVE  CodeKept(r, c, s)
    <2>1. <<r, c>> # <<q, d>> => codes'[r][c] = codes[r][c]
      BY <1>1, <1>4 DEF Redeem, TakeCode, TypeOK
    <2>2. codes[q][d].attempt = x
      BY <1>4 DEF Redeem, Verified
    <2>3. \E p \in Ops : VerifiedBy(x)' = {p}
      BY <1>1, <1>4, RedeemMoves DEF Redeems
    <2> QED BY <1>2, <2>1, <2>2, <2>3
  <1>5. ASSUME NEW q \in Replicas, NEW d \in Codes, NEW x \in States,
               NEW cl \in Clients \cup {NoClient}, NEW sameUri \in BOOLEAN,
               RedeemRefused(q, d, x, cl, sameUri)
        PROVE  CodeKept(r, c, s)
    <2>1. <<r, c>> # <<q, d>> => codes'[r][c] = codes[r][c]
      BY <1>1, <1>5 DEF RedeemRefused, TakeCode, TypeOK
    <2> QED BY <1>2, <1>5, <2>1
  <1>6. ASSUME NEW q \in Replicas, Restart(q) PROVE CodeKept(r, c, s)
    <2>1. q # r => codes'[r][c] = codes[r][c]
      BY <1>1, <1>6 DEF Restart, TypeOK
    <2> QED BY <1>2, <1>6, <2>1
  <1>7. ASSUME NEW o \in Ops, NEW d \in Codes, IssueCode(o, d) PROVE CodeKept(r, c, s)
    <2>1. attempt[o] # NoState
      BY <1>1, <1>7, FlowNoneAssumption DEF IssueCode, OpsInOrder, WorkInOrder
    <2>2. codes'[r][c] = codes[r][c] \/ codes'[r][c].attempt = attempt[o]
      BY <1>1, <1>7 DEF IssueCode, TypeOK
    <2> QED BY <1>2, <2>1, <2>2 DEF NoCode
  <1>8. ASSUME NEW q \in Replicas, Arrive(q) PROVE CodeKept(r, c, s)
    BY <1>2, <1>3, <1>4, <1>5, <1>8 DEF Arrive, CallbackLate, Callback, CallbackUnknown, vars
  <1>9. ASSUME NEW o \in Ops, Work(o) PROVE CodeKept(r, c, s)
    BY <1>2, <1>7, <1>9 DEF Work, CompleteWebLogin, GrantSession, PutSession, Refused, flowVars
  <1>10. CASE Tick
    BY <1>2, <1>10 DEF Tick, flowVars
  <1> QED BY <1>6, <1>8, <1>9, <1>10 DEF Next

(***************************************************************************)
(* A running server forgets no attempt and no code that is still in time:  *)
(* while its process runs, an entry in time leaves its map only with the   *)
(* callback or token request that presents it (cleanupLocked drops expired *)
(* entries alone).                                                         *)
(***************************************************************************)
THEOREM FlowForgetsNothing == Spec => NothingForgotten
  <1>1. IInv /\ [Next]_vars =>
          [\A r \in Replicas, s \in States :
             AttemptKept(r, s) /\ \A c \in Codes : CodeKept(r, c, s)]_vars
    BY AttemptStays, CodeStays
  <1> QED BY <1>1, FlowInductive, PTL DEF NothingForgotten, Spec

-----------------------------------------------------------------------------
(* Where codes are sent: every step of ClientRegistry preserves its inductive
   invariant *)

LEMMA RegistryStart == RegistryInit => RegistryIInv
<1> SUFFICES ASSUME RegistryInit PROVE RegistryIInv
  OBVIOUS
<1> USE RegistryTimes, RegistryNone DEF RegistryInit
<1>1. RegistryTypeOK
  BY DEF RegistryTypeOK, NoRecord
<1>2. TryingAllowed /\ SentWhereAllowed
  BY DEF TryingAllowed, Recorded, AttemptAllowed, ExchangeAllowed, SentWhereAllowed, NoRecord
<1> QED BY <1>1, <1>2 DEF RegistryIInv

LEMMA RegisterSafe ==
  ASSUME RegistryIInv, NEW c \in ClientIds, NEW uris \in SUBSET Addresses, Register(c, uris)
  PROVE  RegistryIInv'
<1> USE RegistryTimes, RegistryNone DEF RegistryIInv, Register
<1>1. RegistryTypeOK'
  BY DEF RegistryTypeOK
<1>2. registered \subseteq registered'
  OBVIOUS
<1>3. ASSUME NEW d \in ClientIds, NEW u \in Addresses
      PROVE  Recorded(d, u)'
  <2>1. CASE d = c
    <3> DEFINE r == [client |-> c, uri |-> u, at |-> clock]
    <3>1. clients'[c] = [uris |-> uris, expires |-> clock + ClientTTL]
      BY DEF RegistryTypeOK
    <3>2. u \in uris => r \in registered'
      OBVIOUS
    <3> QED BY <2>1, <3>1, <3>2 DEF Recorded
  <2>2. CASE d # c
    <3>1. clients'[d] = clients[d] /\ Recorded(d, u)
      BY <2>2 DEF TryingAllowed, RegistryTypeOK
    <3> QED BY <1>2, <3>1 DEF Recorded
  <2> QED BY <2>1, <2>2
<1>4. TryingAllowed'
  <2>1. (allowlist # {} => enforced)'
    BY DEF TryingAllowed
  <2>2. ASSUME NEW a \in Attempts PROVE AttemptAllowed(a)' /\ ExchangeAllowed(a)'
    <3>1. AttemptAllowed(a) /\ ExchangeAllowed(a)
      BY DEF TryingAllowed
    <3> QED BY <1>2, <3>1 DEF AttemptAllowed, ExchangeAllowed, Covered, IsAllowed
  <2> QED BY <1>3, <2>1, <2>2 DEF TryingAllowed
<1>5. SentWhereAllowed'
  BY <1>2 DEF SentWhereAllowed, Covered
<1> QED BY <1>1, <1>4, <1>5

\* A client that is known registered the address no longer ago than its time.
LEMMA KnownRegistered ==
  ASSUME RegistryIInv, NEW c \in ClientIds, NEW u \in Addresses, MayAsk(c, u)
  PROVE  u \in Loopback \/ Covered(c, u, clock + AttemptTTL)
<1>1. CASE Known(c)
  <2>1. u \in clients[c].uris /\ clock <= clients[c].expires
    BY <1>1 DEF MayAsk, Known
  <2>2. PICK r \in registered :
          r.client = c /\ r.uri = u /\ clients[c].expires = r.at + ClientTTL
    BY <2>1 DEF RegistryIInv, TryingAllowed, Recorded
  <2>3. r.at \in Nat /\ clock \in Nat
    BY <2>2 DEF RegistryIInv, RegistryTypeOK
  <2>4. clock + AttemptTTL <= r.at + ClientTTL + AttemptTTL
    BY <2>1, <2>2, <2>3, RegistryTimes
  <2> QED BY <2>2, <2>4 DEF Covered
<1>2. CASE ~Known(c)
  BY <1>2 DEF MayAsk
<1> QED BY <1>1, <1>2

LEMMA AuthorizeSafe ==
  ASSUME RegistryIInv, NEW a \in Attempts, NEW c \in ClientIds, NEW u \in Addresses,
         Authorize(a, c, u)
  PROVE  RegistryIInv'
<1> USE RegistryTimes, RegistryNone DEF RegistryIInv, Authorize
<1> DEFINE new == [client |-> c, uri |-> u, expires |-> clock + AttemptTTL]
<1>1. new \in Tries /\ new # NoAttempt
  BY DEF RegistryTypeOK, Tries
<1>2. RegistryTypeOK'
  BY <1>1 DEF RegistryTypeOK
<1>3. IsAllowed(u)' /\ (u \in Loopback \/ Covered(c, u, clock + AttemptTTL))
  BY KnownRegistered DEF IsAllowed
<1>4. \A b \in Attempts : trying'[b] = IF b = a THEN new ELSE trying[b]
  BY DEF RegistryTypeOK
<1>5. TryingAllowed'
  <2>1. /\ (allowlist # {} => enforced)'
        /\ \A d \in ClientIds, w \in Addresses : Recorded(d, w)'
    BY DEF TryingAllowed, Recorded
  <2>2. ASSUME NEW b \in Attempts PROVE AttemptAllowed(b)' /\ ExchangeAllowed(b)'
    <3>1. AttemptAllowed(b) /\ ExchangeAllowed(b)
      BY DEF TryingAllowed
    <3>2. ExchangeAllowed(b)'
      BY <3>1 DEF ExchangeAllowed, IsAllowed, Covered
    <3>3. AttemptAllowed(b)'
      BY <1>3, <1>4, <3>1 DEF AttemptAllowed, IsAllowed, Covered
    <3> QED BY <3>2, <3>3
  <2> QED BY <2>1, <2>2 DEF TryingAllowed
<1>6. SentWhereAllowed'
  BY DEF SentWhereAllowed, Covered
<1> QED BY <1>2, <1>5, <1>6

LEMMA TakeAttemptSafe ==
  ASSUME RegistryIInv, NEW a \in Attempts, TakeAttempt(a)
  PROVE  RegistryIInv'
<1> USE RegistryTimes, RegistryNone DEF RegistryIInv
<1> DEFINE p == trying[a]
<1> DEFINE taken == [client |-> p.client, uri |-> p.uri, taken |-> clock]
<1>1. p \in Tries /\ clock <= p.expires /\ clock \in 0..LastTime
  BY DEF TakeAttempt, RegistryTypeOK
<1>2. IsAllowed(p.uri) /\ (p.uri \in Loopback \/ Covered(p.client, p.uri, p.expires))
  BY DEF TakeAttempt, TryingAllowed, AttemptAllowed
<1>3. p.uri \in Loopback \/ Covered(p.client, p.uri, clock)
  <2> SUFFICES ASSUME p.uri \notin Loopback PROVE Covered(p.client, p.uri, clock)
    OBVIOUS
  <2>1. PICK r \in registered : /\ r.client = p.client /\ r.uri = p.uri
                                /\ p.expires <= r.at + ClientTTL + AttemptTTL
    BY <1>2 DEF Covered
  <2>2. r.at \in Nat /\ p.expires \in Nat
    BY <1>1, <2>1 DEF RegistryTypeOK, Tries
  <2>3. clock <= r.at + ClientTTL + AttemptTTL
    BY <1>1, <2>1, <2>2
  <2> QED BY <2>1, <2>3 DEF Covered
<1>4. taken \in Exchanges /\ taken # NoAttempt
  BY <1>1 DEF Tries, Exchanges
<1>5. UNCHANGED <<clock, durable, enforced, allowlist, clients, sent, registered>>
  BY DEF TakeAttempt
<1>6. RegistryTypeOK'
  BY <1>4 DEF TakeAttempt, RegistryTypeOK
<1>7. ASSUME NEW b \in Attempts PROVE AttemptAllowed(b)' /\ ExchangeAllowed(b)'
  <2>1. /\ trying'[b] = IF b = a THEN NoAttempt ELSE trying[b]
        /\ exchanging'[b] = IF b = a THEN taken ELSE exchanging[b]
    BY DEF TakeAttempt, RegistryTypeOK
  <2>2. AttemptAllowed(b) /\ ExchangeAllowed(b)
    BY DEF TryingAllowed
  <2>3. AttemptAllowed(b)'
    BY <1>5, <2>1, <2>2 DEF AttemptAllowed, IsAllowed, Covered
  <2>4. ExchangeAllowed(b)'
    BY <1>2, <1>3, <1>5, <2>1, <2>2 DEF ExchangeAllowed, IsAllowed, Covered
  <2> QED BY <2>3, <2>4
<1>8. TryingAllowed'
  BY <1>5, <1>7 DEF TryingAllowed, Recorded
<1>9. SentWhereAllowed'
  BY <1>5 DEF SentWhereAllowed, Covered
<1> QED BY <1>6, <1>8, <1>9

LEMMA SendCodeSafe ==
  ASSUME RegistryIInv, NEW a \in Attempts, SendCode(a)
  PROVE  RegistryIInv'
<1> USE RegistryTimes, RegistryNone DEF RegistryIInv
<1> DEFINE p == exchanging[a]
<1> DEFINE code == [client |-> p.client, uri |-> p.uri, taken |-> p.taken,
                    allowed |-> IsAllowed(p.uri)]
<1>1. p \in Exchanges
  BY DEF SendCode, RegistryTypeOK
<1>2. IsAllowed(p.uri) /\ (p.uri \in Loopback \/ Covered(p.client, p.uri, p.taken))
  BY DEF SendCode, TryingAllowed, ExchangeAllowed
<1>3. sent' = sent \cup {code} /\ UNCHANGED registered
  BY DEF SendCode
<1>4. RegistryTypeOK'
  <2>1. IsAllowed(p.uri) \in BOOLEAN
    BY DEF IsAllowed
  <2>2. code \in [client : ClientIds, uri : Addresses, taken : Nat, allowed : BOOLEAN]
    BY <1>1, <2>1 DEF Exchanges
  <2> QED BY <1>3, <2>2 DEF SendCode, RegistryTypeOK
<1>5. TryingAllowed'
  <2>1. UNCHANGED <<enforced, allowlist, clients, trying, registered>>
    BY DEF SendCode
  <2>2. ASSUME NEW b \in Attempts PROVE exchanging'[b] \in {exchanging[b], NoAttempt}
    BY DEF SendCode, RegistryTypeOK
  <2> QED BY <2>1, <2>2 DEF TryingAllowed, Recorded, AttemptAllowed, ExchangeAllowed,
                            IsAllowed, Covered
<1>6. SentWhereAllowed'
  <2>1. ASSUME NEW s \in sent'
        PROVE  s.allowed /\ (s.uri \in Loopback \/ Covered(s.client, s.uri, s.taken)')
    <3>1. CASE s \in sent
      BY <1>3, <3>1 DEF SentWhereAllowed, Covered
    <3>2. CASE s = code
      BY <1>2, <1>3, <3>2 DEF Covered
    <3> QED BY <1>3, <3>1, <3>2
  <2> QED BY <2>1 DEF SentWhereAllowed, Covered
<1> QED BY <1>4, <1>5, <1>6

\* Records and attempts that go, and the clock.
LEMMA EndingSafe ==
  ASSUME RegistryIInv,
         \/ \E c \in ClientIds : TimeToLive(c)
         \/ \E a \in Attempts : Discard(a) \/ ExchangeFails(a)
         \/ NewProcess
         \/ RegistryTick
  PROVE  RegistryIInv'
<1> USE RegistryTimes, RegistryNone DEF RegistryIInv, NoRecord
<1>1. UNCHANGED <<sent, registered>>
  BY DEF TimeToLive, Discard, ExchangeFails, NewProcess, RegistryTick
<1>2. SentWhereAllowed'
  BY <1>1 DEF SentWhereAllowed, Covered
<1>3. ASSUME NEW a \in Attempts, trying'[a] \in {trying[a], NoAttempt},
             exchanging'[a] \in {exchanging[a], NoAttempt}, UNCHANGED <<enforced, allowlist>>
      PROVE  AttemptAllowed(a)' /\ ExchangeAllowed(a)'
  BY <1>1, <1>3 DEF TryingAllowed, AttemptAllowed, ExchangeAllowed, IsAllowed, Covered
<1>4. ASSUME NEW c \in ClientIds, NEW u \in Addresses,
             clients'[c] = clients[c] \/ clients'[c].uris = {}
      PROVE  Recorded(c, u)'
  BY <1>1, <1>4 DEF TryingAllowed, Recorded
<1>5. ASSUME NEW c \in ClientIds, TimeToLive(c) PROVE RegistryTypeOK' /\ TryingAllowed'
  <2>1. RegistryTypeOK'
    BY <1>5 DEF TimeToLive, RegistryTypeOK
  <2>2. \A d \in ClientIds : clients'[d] = clients[d] \/ clients'[d].uris = {}
    BY <1>5 DEF TimeToLive, RegistryTypeOK
  <2> QED BY <1>3, <1>4, <1>5, <2>1, <2>2 DEF TimeToLive, TryingAllowed
<1>6. ASSUME NEW a \in Attempts, Discard(a) \/ ExchangeFails(a)
      PROVE  RegistryTypeOK' /\ TryingAllowed'
  <2>1. RegistryTypeOK'
    BY <1>6 DEF Discard, ExchangeFails, RegistryTypeOK
  <2>2. \A b \in Attempts : /\ trying'[b] \in {trying[b], NoAttempt}
                            /\ exchanging'[b] \in {exchanging[b], NoAttempt}
    BY <1>6 DEF Discard, ExchangeFails, RegistryTypeOK
  <2> QED BY <1>3, <1>4, <1>6, <2>1, <2>2 DEF Discard, ExchangeFails, TryingAllowed
<1>7. CASE NewProcess
  <2>1. RegistryTypeOK'
    BY <1>7 DEF NewProcess, RegistryTypeOK
  <2>2. \A a \in Attempts : AttemptAllowed(a)' /\ ExchangeAllowed(a)'
    BY <1>7 DEF NewProcess, AttemptAllowed, ExchangeAllowed
  <2>3. \A c \in ClientIds : clients'[c] = clients[c] \/ clients'[c].uris = {}
    BY <1>7 DEF NewProcess
  <2>4. TryingAllowed'
    BY <1>4, <1>7, <2>2, <2>3 DEF NewProcess, TryingAllowed
  <2> QED BY <1>2, <2>1, <2>4
<1>8. CASE RegistryTick
  <2>1. RegistryTypeOK'
    BY <1>8 DEF RegistryTick, RegistryTypeOK
  <2>2. TryingAllowed'
    BY <1>3, <1>4, <1>8 DEF RegistryTick, TryingAllowed
  <2> QED BY <1>2, <2>1, <2>2
<1> QED BY <1>2, <1>5, <1>6, <1>7, <1>8

LEMMA RegistryStep == RegistryIInv /\ [RegistryNext]_registryVars => RegistryIInv'
<1> SUFFICES ASSUME RegistryIInv, [RegistryNext]_registryVars PROVE RegistryIInv'
  OBVIOUS
<1>1. CASE UNCHANGED registryVars
  BY <1>1 DEF registryVars, RegistryIInv, RegistryTypeOK, TryingAllowed, Recorded,
              AttemptAllowed, ExchangeAllowed, SentWhereAllowed, IsAllowed, Covered
<1> QED BY <1>1, RegisterSafe, AuthorizeSafe, TakeAttemptSafe, SendCodeSafe, EndingSafe DEF RegistryNext

-----------------------------------------------------------------------------
(* What follows about client registration *)

(***************************************************************************)
(* The inductive invariant of client registration, handleAuthorize and     *)
(* handleCallback (oauth.go): an attempt, pending or waiting for Google,   *)
(* is for an address that is still allowed, and that is loopback or was    *)
(* registered recently enough when the callback took the attempt.          *)
(***************************************************************************)
THEOREM RegistryInductive == RegistrySpec => []RegistryIInv
  BY RegistryStart, RegistryStep, PTL DEF RegistrySpec

(***************************************************************************)
(* Codes are sent where a registration of now would be accepted, and to a  *)
(* loopback address or one that the client had registered recently enough  *)
(* when the callback took the attempt, whatever records outlived their     *)
(* time or their allowlist, and however long Google kept the callback.     *)
(***************************************************************************)
THEOREM CodesSentWhereAllowed == RegistrySpec => []SentWhereAllowed
<1>1. RegistryIInv => SentWhereAllowed
  BY DEF RegistryIInv
<1> QED BY <1>1, RegistryInductive, PTL
=============================================================================
