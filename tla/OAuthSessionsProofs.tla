------------------------ MODULE OAuthSessionsProofs -------------------------
(* Proofs about OAuthSessions for every value of its constants. *)
EXTENDS OAuthSessions, TLAPS

USE TimeAssumption, NoneAssumption

\* An access token outlives neither accessTokenTTL nor Google's ID token.
LEMMA AccessFacts ==
  ASSUME TypeOK, NEW e \in GoogleExpiries
  PROVE  AccessExpiry(e) \in Nat /\ AccessExpiry(e) <= now + AccessTTL
BY DEF AccessExpiry, GoogleExpiries, TypeOK

\* Time passes; nothing that was in time was waiting longer than MaxDelay.
LEMMA TickStep ==
  ASSUME IInv, Tick
  PROVE  IInv'
<1>1. TypeOK'
  BY DEF IInv, TypeOK, storeVars, opVars, Tick
<1>2. StoreInv'
  BY DEF IInv, StoreInv, SessionOf, Live, storeVars, Tick
<1>3. NewestInv'
  BY DEF IInv, NewestInv, Live, storeVars, Tick
<1>4. RefreshInv'
  BY DEF IInv, TypeOK, RefreshInv, Live, storeVars, opVars, Tick
<1>5. Survives'
  BY DEF IInv, TypeOK, Survives, Live, storeVars, Tick
<1> QED
  BY <1>1, <1>2, <1>3, <1>4, <1>5 DEF IInv

\* The index catches up with one item of the table.
LEMMA PropagateStep ==
  ASSUME IInv, NEW a \in Tokens, Propagate(a)
  PROVE  IInv'
<1>1. TypeOK'
  BY DEF IInv, TypeOK, opVars, Propagate
<1>2. StoreInv'
  BY DEF IInv, StoreInv, SessionOf, Live, Propagate
<1>3. NewestInv'
  BY DEF IInv, NewestInv, Live, Propagate
<1>4. RefreshInv'
  BY DEF IInv, RefreshInv, Live, opVars, Propagate
<1>5. Survives'
  BY DEF IInv, Survives, Live, Propagate
<1> QED
  BY <1>1, <1>2, <1>3, <1>4, <1>5 DEF IInv

\* DynamoDB removes an item past its due time.
LEMMA TimeToLiveStep ==
  ASSUME IInv, NEW a \in Tokens, TimeToLive(a)
  PROVE  IInv'
<1>1. TypeOK'
  BY DEF IInv, TypeOK, opVars, TimeToLive, DeleteSession
<1>2. StoreInv'
  BY DEF IInv, StoreInv, SessionOf, Live, TimeToLive, DeleteSession
<1>3. NewestInv'
  BY DEF IInv, NewestInv, Live, TimeToLive, DeleteSession
<1>4. RefreshInv'
  BY DEF IInv, RefreshInv, Live, opVars, TimeToLive, DeleteSession
<1>5. Survives'
  BY DEF IInv, TypeOK, StoreInv, SessionOf, NewestInv, Survives, Live, TimeToLive,
       DeleteSession
<1> QED
  BY <1>1, <1>2, <1>3, <1>4, <1>5 DEF IInv

\* A logout ends the sign-in of the session it deletes.
LEMMA LogoutStep ==
  ASSUME IInv, NEW a \in Tokens, Logout(a)
  PROVE  IInv'
<1>1. TypeOK'
  BY DEF IInv, TypeOK, opVars, Logout, DeleteSession, DropMapping
<1>2. StoreInv'
  BY DEF IInv, StoreInv, SessionOf, Live, Logout, DeleteSession, DropMapping
<1>3. NewestInv'
  BY DEF IInv, NewestInv, Live, Logout, DeleteSession
<1>4. RefreshInv'
  BY DEF IInv, RefreshInv, Live, opVars, Logout, DeleteSession
<1>5. Survives'
  BY DEF IInv, TypeOK, NewestInv, Survives, Live, Logout, DeleteSession, DropMapping
<1> QED
  BY <1>1, <1>2, <1>3, <1>4, <1>5 DEF IInv

\* A sign-in starts with a fresh refresh token and a fresh access token.
LEMMA SignInStep ==
  ASSUME IInv, NEW g \in Grants, NEW a \in Tokens, NEW e \in GoogleExpiries, SignIn(g,
      a, e)
  PROVE  IInv'
<1>a. AccessExpiry(e) \in Nat /\ AccessExpiry(e) <= now + AccessTTL
  BY AccessFacts DEF IInv
<1>1. TypeOK'
  BY <1>a DEF IInv, TypeOK, Session, opVars, SignIn, PutSession
<1>2. StoreInv'
  BY <1>a DEF IInv, TypeOK, StoreInv, SessionOf, Live, Session, SignIn, PutSession
<1>3. NewestInv'
  BY <1>a DEF IInv, TypeOK, StoreInv, SessionOf, NewestInv, Live, SignIn, PutSession
<1>4. RefreshInv'
  BY <1>a DEF IInv, RefreshInv, Live, opVars, SignIn, PutSession
<1>5. Survives'
  BY <1>a DEF IInv, TypeOK, Survives, Live, Session, SignIn, PutSession
<1> QED
  BY <1>1, <1>2, <1>3, <1>4, <1>5 DEF IInv

\* A lookup reads a session of the sign-in, possibly one that is gone.
LEMMA LookupStep ==
  ASSUME IInv, NEW o \in Ops, NEW g \in Grants, NEW a \in Tokens, Lookup(o, g, a)
  PROVE  IInv'
<1>1. TypeOK'
  BY DEF IInv, TypeOK, Session, storeVars, Lookup, Found, Goto
<1>2. StoreInv'
  BY DEF IInv, StoreInv, SessionOf, Live, storeVars, Lookup
<1>3. NewestInv'
  BY DEF IInv, NewestInv, Live, storeVars, Lookup
<1>4. RefreshInv'
  BY DEF IInv, TypeOK, StoreInv, SessionOf, RefreshInv, Live, storeVars, Lookup, Found,
       Goto
<1>5. Survives'
  BY DEF IInv, Survives, Live, storeVars, Lookup
<1> QED
  BY <1>1, <1>2, <1>3, <1>4, <1>5 DEF IInv

\* An expired refresh deletes a session whose sign-in is past due.
LEMMA DeleteExpiredStep ==
  ASSUME IInv, NEW o \in Ops, DeleteExpired(o)
  PROVE  IInv'
<1>1. TypeOK'
  BY DEF IInv, TypeOK, RefreshInv, DeleteExpired, DeleteSession, DropMapping, Return,
       Goto
<1>2. StoreInv'
  BY DEF IInv, StoreInv, SessionOf, Live, DeleteExpired, DeleteSession, DropMapping
<1>3. NewestInv'
  BY DEF IInv, NewestInv, Live, DeleteExpired, DeleteSession
<1>4. RefreshInv'
  BY DEF IInv, TypeOK, RefreshInv, Live, DeleteExpired, DeleteSession, Return, Goto
<1>5. Survives'
  BY DEF IInv, TypeOK, NewestInv, RefreshInv, Survives, Live, DeleteExpired,
       DeleteSession, DropMapping
<1> QED
  BY <1>1, <1>2, <1>3, <1>4, <1>5 DEF IInv

\* A refresh stores the session that is the newest from then on.
LEMMA MintStep ==
  ASSUME IInv, NEW o \in Ops, NEW a \in Tokens, NEW e \in GoogleExpiries, Mint(o, a, e)
  PROVE  IInv'
<1>a. AccessExpiry(e) \in Nat /\ AccessExpiry(e) <= now + AccessTTL
  BY AccessFacts DEF IInv
<1>1. TypeOK'
  BY <1>a DEF IInv, TypeOK, Session, RefreshInv, Mint, Store, Answered, PutSession, KeptExpiry,
       Goto
<1>2. StoreInv'
  BY <1>a DEF IInv, TypeOK, StoreInv, SessionOf, RefreshInv, Live, Session, Mint,
       Store, Answered, PutSession, NewToken, KeptExpiry
<1>3. NewestInv'
  BY <1>a DEF IInv, StoreInv, SessionOf, NewestInv, Live, Mint, Store, Answered, PutSession,
       NewToken
<1>4. RefreshInv'
  BY <1>a DEF IInv, TypeOK, RefreshInv, Live, Mint, Store, Answered, PutSession, NewToken, Goto
<1>5. Survives'
  BY <1>a DEF IInv, TypeOK, NewestInv, Survives, Live, Session, Mint, Store, Answered,
       PutSession, NewToken, KeptExpiry
<1> QED
  BY <1>1, <1>2, <1>3, <1>4, <1>5 DEF IInv

\* The same when the answer of the store is lost.
LEMMA MintUnansweredStep ==
  ASSUME IInv, NEW o \in Ops, NEW a \in Tokens, NEW e \in GoogleExpiries,
      MintUnanswered(o, a, e)
  PROVE  IInv'
<1>a. AccessExpiry(e) \in Nat /\ AccessExpiry(e) <= now + AccessTTL
  BY AccessFacts DEF IInv
<1>1. TypeOK'
  BY <1>a DEF IInv, TypeOK, Session, RefreshInv, MintUnanswered, Store, Answered, PutSession,
       KeptExpiry, Return, Goto
<1>2. StoreInv'
  BY <1>a DEF IInv, TypeOK, StoreInv, SessionOf, RefreshInv, Live, MintUnanswered,
       Store, Answered, PutSession, NewToken, KeptExpiry
<1>3. NewestInv'
  BY <1>a DEF IInv, StoreInv, SessionOf, NewestInv, Live, MintUnanswered, Store, Answered,
       PutSession, NewToken
<1>4. RefreshInv'
  BY <1>a DEF IInv, TypeOK, RefreshInv, Live, MintUnanswered, Store, Answered, PutSession,
       NewToken, Return, Goto
<1>5. Survives'
  BY <1>a DEF IInv, TypeOK, NewestInv, Survives, Live, Session, MintUnanswered, Store, Answered,
       PutSession, NewToken, KeptExpiry
<1> QED
  BY <1>1, <1>2, <1>3, <1>4, <1>5 DEF IInv

\* A refresh deletes the session it read, which is not the newest.
LEMMA RotateStep ==
  ASSUME IInv, NEW o \in Ops, Rotate(o)
  PROVE  IInv'
<1>1. TypeOK'
  BY DEF IInv, TypeOK, RefreshInv, Rotate, DeleteSession, DropMapping, Return, Goto
<1>2. StoreInv'
  BY DEF IInv, StoreInv, SessionOf, Live, Rotate, DeleteSession, DropMapping
<1>3. NewestInv'
  BY DEF IInv, NewestInv, Live, Rotate, DeleteSession
<1>4. RefreshInv'
  BY DEF IInv, TypeOK, RefreshInv, Live, Rotate, DeleteSession, Return, Goto
<1>5. Survives'
  BY DEF IInv, TypeOK, NewestInv, RefreshInv, Survives, Live, Rotate, DeleteSession,
       DropMapping
<1> QED
  BY <1>1, <1>2, <1>3, <1>4, <1>5 DEF IInv

\* A request that ends early changes nothing else.
LEMMA AbandonStep ==
  ASSUME IInv, NEW o \in Ops, Abandon(o)
  PROVE  IInv'
<1>1. TypeOK'
  BY DEF IInv, TypeOK, storeVars, Abandon, Return, Goto
<1>2. StoreInv'
  BY DEF IInv, StoreInv, SessionOf, Live, storeVars, Abandon
<1>3. NewestInv'
  BY DEF IInv, NewestInv, Live, storeVars, Abandon
<1>4. RefreshInv'
  BY DEF IInv, TypeOK, RefreshInv, Live, storeVars, Abandon, Return, Goto
<1>5. Survives'
  BY DEF IInv, Survives, Live, storeVars, Abandon
<1> QED
  BY <1>1, <1>2, <1>3, <1>4, <1>5 DEF IInv

\* A restart empties the memory store and ends every sign-in.
LEMMA RestartStep ==
  ASSUME IInv, Restart
  PROVE  IInv'
<1>1. TypeOK'
  BY DEF IInv, TypeOK, Restart
<1>2. StoreInv'
  BY DEF IInv, StoreInv, SessionOf, Live, Restart
<1>3. NewestInv'
  BY DEF IInv, TypeOK, NewestInv, Live, Restart
<1>4. RefreshInv'
  BY DEF RefreshInv, Restart
<1>5. Survives'
  BY DEF Survives, Restart
<1> QED
  BY <1>1, <1>2, <1>3, <1>4, <1>5 DEF IInv

\* Every step keeps the invariant.
LEMMA Step == ASSUME IInv, [Next]_vars PROVE IInv'
<1>1. CASE UNCHANGED vars
  BY <1>1 DEF IInv, TypeOK, StoreInv, SessionOf, NewestInv, RefreshInv, Survives, Live,
       vars
<1>2. CASE Next
  <2>1. ASSUME NEW o \in Ops, Refresh(o)
        PROVE  IInv'
    <3>1. ASSUME NEW g \in Grants, LookupFails(o, g)
          PROVE  IInv'
      BY <3>1, <1>1 DEF LookupFails
    <3>2. QED
      BY <2>1, <3>1, LookupStep, DeleteExpiredStep, MintStep, MintUnansweredStep,
         RotateStep, AbandonStep, Zenon DEF Refresh
  <2>2. QED
    BY <1>2, <2>1, TickStep, RestartStep, PropagateStep, TimeToLiveStep, LogoutStep,
       SignInStep, Zenon DEF Next
<1>3. QED
  BY <1>1, <1>2

\* The inductive invariant, for any sets of tokens, sign-ins and goroutines,
\* either backend and any lifetimes.
THEOREM SessionInvariance == Spec => []IInv
<1>1. Init => IInv
  BY DEF Init, IInv, TypeOK, StoreInv, NewestInv, RefreshInv, Survives, Live
<1>2. IInv /\ [Next]_vars => IInv'
  BY Step
<1>3. QED
  BY <1>1, <1>2, PTL DEF Spec

\* Every variable keeps its type.
THEOREM SessionTypes == Spec => []TypeOK
<1>1. IInv => TypeOK
  BY DEF IInv
<1>2. QED
  BY <1>1, SessionInvariance, PTL

\* No interleaving of refreshes loses a sign-in that is due later and whose
\* user has not logged out.
THEOREM SignInsSurvive == Spec => []Survives
<1>1. IInv => Survives
  BY DEF IInv
<1>2. QED
  BY <1>1, SessionInvariance, PTL

\* Refreshing prolongs no sign-in.
THEOREM LifetimesBounded == Spec => []BoundedLifetime
<1>1. IInv => BoundedLifetime
  BY DEF IInv, StoreInv, SessionOf, BoundedLifetime
<1>2. QED
  BY <1>1, SessionInvariance, PTL

\* A deleted access token stays deleted.
THEOREM RevokedStays == Spec => RevokedForever
<1> DEFINE Dead == \A a \in issued : ~Live(a) => sessions'[a] = NoSession
<1>1. ASSUME IInv, [Next]_vars
      PROVE  Dead
  <2> SUFFICES ASSUME NEW a \in issued, ~Live(a)
               PROVE  sessions'[a] = NoSession
    OBVIOUS
  <2>t. a \in Tokens /\ sessions \in [Tokens -> Session \cup {NoSession}]
    BY <1>1 DEF IInv, TypeOK
  <2>1. CASE UNCHANGED sessions
    BY <2>1 DEF Live
  <2>2. ASSUME NEW b \in Tokens, DeleteSession(b)
        PROVE  sessions'[a] = NoSession
    BY <2>2, <2>t DEF DeleteSession, Live
  <2>3. ASSUME NEW b \in Tokens, NEW s, b \notin issued, PutSession(b, s)
        PROVE  sessions'[a] = NoSession
    BY <2>3, <2>t DEF PutSession, Live
  <2>4. ASSUME NEW o \in Ops, Refresh(o)
        PROVE  sessions'[a] = NoSession
    <3>1. ASSUME NEW b \in Tokens, NEW e \in GoogleExpiries, Store(o, b, e)
          PROVE  sessions'[a] = NoSession
      BY <3>1, <2>3 DEF Store, Answered, NewToken
    <3>2. ASSUME DeleteExpired(o) \/ Rotate(o)
          PROVE  sessions'[a] = NoSession
      <4>1. tok[o] \in Tokens
        BY <3>2, <1>1 DEF IInv, TypeOK, RefreshInv, DeleteExpired, Rotate
      <4>2. QED
        BY <4>1, <3>2, <2>2 DEF DeleteExpired, Rotate
    <3>3. ASSUME \/ Abandon(o)
                 \/ \E g \in Grants :
                      LookupFails(o, g) \/ \E b \in Tokens : Lookup(o, g, b)
          PROVE  UNCHANGED sessions
      BY <3>3 DEF Abandon, LookupFails, Lookup, storeVars, vars
    <3>4. QED
      BY <2>1, <2>4, <3>1, <3>2, <3>3 DEF Refresh, Mint, MintUnanswered
  <2>5. ASSUME NEW b \in Tokens, Propagate(b) \/ TimeToLive(b) \/ Logout(b)
        PROVE  sessions'[a] = NoSession
    BY <2>5, <2>1, <2>2 DEF Propagate, TimeToLive, Logout
  <2>6. ASSUME NEW g \in Grants, NEW b \in Tokens, NEW e \in GoogleExpiries,
               SignIn(g, b, e)
        PROVE  sessions'[a] = NoSession
    BY <2>6, <2>3 DEF SignIn
  <2>7. ASSUME Tick \/ Restart
        PROVE  sessions'[a] = NoSession
    BY <2>7, <2>1, <2>t DEF Tick, Restart, storeVars
  <2>8. CASE UNCHANGED vars
    BY <2>8, <2>1 DEF vars
  <2>9. QED
    BY <1>1, <2>4, <2>5, <2>6, <2>7, <2>8 DEF Next
<1>2. IInv /\ [Next]_vars => [Dead]_vars
  BY <1>1
<1>3. QED
  BY <1>2, SessionInvariance, PTL DEF Spec, RevokedForever

\* A sign-in without a session, stored, indexed or about to be, never gets one.
THEOREM SignInsStayOver == Spec => StaysOver
<1>1. ASSUME IInv, [Next]_vars, NEW g \in started, Over(g)
      PROVE  Over(g)'
  <2> USE DEF Over, Live
  <2>t. TypeOK /\ RefreshInv
    BY <1>1 DEF IInv
  <2>1. CASE UNCHANGED <<sessions, gsi, pc, grant>>
    BY <2>1, <1>1
  <2>2. ASSUME NEW b \in Tokens, DeleteSession(b), UNCHANGED <<pc, grant>>
        PROVE  Over(g)'
    BY <2>2, <1>1, <2>t DEF DeleteSession, TypeOK
  <2>3. ASSUME NEW b \in Tokens, NEW h \in Grants, NEW e \in GoogleExpiries, SignIn(h, b, e)
        PROVE  Over(g)'
    <3>1. h # g /\ UNCHANGED <<gsi, pc, grant>>
      BY <2>3 DEF SignIn, PutSession, opVars
    <3>2. \A a \in Tokens : sessions'[a] = sessions[a] \/ sessions'[a].grant = h
      BY <2>3, <2>t DEF SignIn, PutSession, TypeOK
    <3> QED BY <1>1, <3>1, <3>2
  <2>4. ASSUME NEW o \in Ops, NEW b \in Tokens, NEW e \in GoogleExpiries, Store(o, b, e),
               (Goto(o, "rotate") /\ UNCHANGED grant) \/ Return(o)
        PROVE  Over(g)'
    <3>1. grant[o] # g /\ grant[o] \in Grants
      BY <1>1, <2>4, <2>t DEF Store, Answered, RefreshInv, TypeOK
    <3>2. \A a \in Tokens : sessions'[a] = sessions[a] \/ sessions'[a].grant = grant[o]
      BY <2>4, <2>t DEF Store, Answered, PutSession, TypeOK
    <3>3. UNCHANGED gsi /\ \A p \in Ops : pc'[p] = "google" => pc[p] = "google" /\ grant'[p] = grant[p]
      BY <2>4, <2>t DEF Store, Answered, PutSession, Goto, Return, TypeOK
    <3> QED BY <1>1, <3>1, <3>2, <3>3
  <2>5. ASSUME NEW o \in Ops, NEW h \in Grants, NEW a \in Tokens, Lookup(o, h, a)
        PROVE  Over(g)'
    <3>1. PICK s \in {sessions[a], gsi[a]} : Found(h, a, s)
      BY <2>5 DEF Lookup
    <3>2. h # g
      BY <1>1, <3>1, <2>t DEF Found, IInv, StoreInv
    <3>3. ASSUME NEW p \in Ops
          PROVE  grant'[p] = h \/ (pc'[p] = pc[p] /\ grant'[p] = grant[p])
      <4>1. grant' = [grant EXCEPT ![o] = h]
        BY <2>5 DEF Lookup
      <4>2. PICK label : pc' = [pc EXCEPT ![o] = label]
        BY <2>5 DEF Lookup, Goto
      <4> QED BY <4>1, <4>2, <2>t DEF TypeOK
    <3>4. UNCHANGED <<sessions, gsi>>
      BY <2>5 DEF Lookup, storeVars
    <3> QED BY <1>1, <3>2, <3>3, <3>4
  <2>6. ASSUME NEW o \in Ops, DeleteExpired(o) \/ Rotate(o) \/ Abandon(o)
        PROVE  Over(g)'
    <3>1. \A p \in Ops : pc'[p] = "google" => pc[p] = "google" /\ grant'[p] = grant[p]
      BY <2>6, <2>t DEF DeleteExpired, Rotate, Abandon, Return, Goto, TypeOK
    <3>2. UNCHANGED gsi /\ \A a \in Tokens : sessions'[a] \in {sessions[a], NoSession}
      BY <2>6, <2>t DEF DeleteExpired, Rotate, Abandon, DeleteSession, storeVars, TypeOK
    <3> QED BY <1>1, <3>1, <3>2
  <2>7. CASE Restart
    BY <2>7, <1>1, <2>t DEF Restart, TypeOK
  <2>8. ASSUME NEW a \in Tokens, Propagate(a)
        PROVE  Over(g)'
    <3>1. \A b \in Tokens : gsi'[b] \in {gsi[b], sessions[b]}
      BY <2>8, <2>t DEF Propagate, TypeOK
    <3>2. UNCHANGED <<sessions, pc, grant>>
      BY <2>8 DEF Propagate, opVars
    <3> QED BY <1>1, <3>1, <3>2
  <2>9. ASSUME NEW a \in Tokens, TimeToLive(a) \/ Logout(a)
        PROVE  Over(g)'
    BY <2>9, <2>2 DEF TimeToLive, Logout, opVars
  <2>10. CASE UNCHANGED vars \/ Tick \/ \E o \in Ops, h \in Grants : LookupFails(o, h)
    BY <2>10, <2>1 DEF vars, Tick, LookupFails, storeVars, opVars
  <2> HIDE DEF Over
  <2>11. ASSUME NEW o \in Ops, Refresh(o)
         PROVE  Over(g)'
    BY <2>11, <2>4, <2>5, <2>6, <2>10 DEF Refresh, Mint, MintUnanswered
  <2>12. QED
    BY <1>1, <2>3, <2>7, <2>8, <2>9, <2>10, <2>11 DEF Next
<1>2. IInv /\ [Next]_vars => [\A g \in started : Over(g) => Over(g)']_vars
  BY <1>1
<1>3. QED
  BY <1>2, SessionInvariance, PTL DEF Spec, StaysOver
=============================================================================
