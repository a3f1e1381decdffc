--------------------------- MODULE OAuthSessions ----------------------------
(***************************************************************************)
(* OAuth sessions after sign-in: the session store with its two backends   *)
(* (emailmcp/internal/server/store.go), the refresh_token grant and the    *)
(* end of a sign-in (oauth.go), logout (web.go) and the check of a bearer  *)
(* token (auth.go).                                                        *)
(*                                                                         *)
(* A grant is one sign-in and stands for its refresh token, which never    *)
(* changes; access tokens are random and never repeat.  An element of Ops  *)
(* is a goroutine, of any replica, serving a refresh.  Between its lookup, *)
(* its call of Google, its PutSession and its DeleteSession anything may   *)
(* happen.  Time is counted in units; a lifetime is a number of units.     *)
(***************************************************************************)
EXTENDS Integers, FiniteSets

CONSTANTS
  Tokens,      \* access tokens
  Grants,      \* sign-ins, each with its refresh token
  Ops,         \* goroutines serving refreshes
  AccessTTL,   \* accessTokenTTL
  RefreshTTL,  \* refreshTokenTTL
  MaxDelay,    \* bound: how long Google and the store keep one refresh waiting
  MaxTime,     \* bound: when the clock stops
  NoToken, NoGrant, NoSession

Session == [grant : Grants, access : Nat, refresh : Nat]

ASSUME TimeAssumption ==
  /\ AccessTTL \in Nat /\ RefreshTTL \in Nat /\ MaxDelay \in Nat /\ MaxTime \in Nat
ASSUME NoneAssumption ==
  NoToken \notin Tokens /\ NoGrant \notin Grants /\ NoSession \notin Session

VARIABLES
  now,
  backend,    \* "memory" or "dynamo", for the life of the system
  sessions,   \* access token -> stored session (table items, or the map)
  byRefresh,  \* memory: refresh token -> access token
  gsi,        \* dynamo: what the eventually consistent refresh-index holds
  issued,     \* history; the access tokens generated so far
  started,    \* the sign-ins completed so far
  due,        \* due[g]: history; when the refresh token of g was to expire
  newest,     \* newest[g]: history; the last session stored for g
  ended,      \* history; grants that a logout or the loss of the store ended
  pc, grant, tok, refresh, since  \* the refresh, its session as read, its start

storeVars == <<backend, sessions, byRefresh, gsi>>
opVars == <<pc, grant, tok, refresh, since>>
vars == <<now, backend, sessions, byRefresh, gsi, issued, started, due, newest,
          ended, pc, grant, tok, refresh, since>>

TypeOK ==
  /\ now \in 0..MaxTime
  /\ backend \in {"memory", "dynamo"}
  /\ sessions \in [Tokens -> Session \cup {NoSession}]
  /\ byRefresh \in [Grants -> Tokens \cup {NoToken}]
  /\ gsi \in [Tokens -> Session \cup {NoSession}]
  /\ issued \subseteq Tokens
  /\ started \subseteq Grants
  /\ due \in [Grants -> Nat]
  /\ newest \in [Grants -> Tokens \cup {NoToken}]
  /\ ended \subseteq Grants
  /\ pc \in [Ops -> {"idle", "google", "rotate", "expire"}]
  /\ grant \in [Ops -> Grants \cup {NoGrant}]
  /\ tok \in [Ops -> Tokens \cup {NoToken}]
  /\ refresh \in [Ops -> Nat]
  /\ since \in [Ops -> Nat]

Init ==
  /\ now = 0
  /\ backend \in {"memory", "dynamo"}
  /\ sessions = [a \in Tokens |-> NoSession]
  /\ byRefresh = [g \in Grants |-> NoToken]
  /\ gsi = [a \in Tokens |-> NoSession]
  /\ issued = {}
  /\ started = {}
  /\ due = [g \in Grants |-> 0]
  /\ newest = [g \in Grants |-> NoToken]
  /\ ended = {}
  /\ pc = [o \in Ops |-> "idle"]
  /\ grant = [o \in Ops |-> NoGrant]
  /\ tok = [o \in Ops |-> NoToken]
  /\ refresh = [o \in Ops |-> 0]
  /\ since = [o \in Ops |-> 0]

-----------------------------------------------------------------------------
(* The session store *)

Live(a) == sessions[a] # NoSession

PutSession(a, s) ==
  /\ sessions' = [sessions EXCEPT ![a] = s]
  /\ byRefresh' = IF backend = "memory" THEN [byRefresh EXCEPT ![s.grant] = a]
                                        ELSE byRefresh
  /\ UNCHANGED <<backend, gsi>>

\* Fault: the refresh mapping goes whichever token it points at.
ForgetMapping(a) ==
  [g \in Grants |-> IF sessions[a].grant = g THEN NoToken ELSE byRefresh[g]]
\* The memory store drops the mapping only if it still points at this token.
DropMapping(a) ==
  [g \in Grants |-> IF sessions[a].grant = g /\ byRefresh[g] = a THEN NoToken ELSE byRefresh[g]]

DeleteSession(a) ==
  /\ sessions' = [sessions EXCEPT ![a] = NoSession]
  /\ byRefresh' = IF backend = "memory" /\ Live(a) THEN DropMapping(a) ELSE byRefresh
  /\ UNCHANGED <<backend, gsi>>

\* GetSessionByRefreshToken may answer session s of access token a.
Found(g, a, s) ==
  /\ s # NoSession
  /\ IF backend = "memory" THEN byRefresh[g] = a /\ sessions[a] = s
                           ELSE gsi[a] = s /\ s.grant = g

\* The index follows the table item by item, in no particular order.
Propagate(a) ==
  /\ backend = "dynamo"
  /\ gsi[a] # sessions[a]
  /\ gsi' = [gsi EXCEPT ![a] = sessions[a]]
  /\ UNCHANGED <<now, backend, sessions, byRefresh, issued, started, due, newest, ended,
                 opVars>>

\* DynamoDB removes an item some time after its ttl attribute.
TimeToLive(a) ==
  /\ backend = "dynamo"
  /\ Live(a)
  /\ sessions[a].refresh < now
  /\ DeleteSession(a)
  /\ UNCHANGED <<now, issued, started, due, newest, ended, opVars>>

-----------------------------------------------------------------------------
(* Sign-in, logout, bearer check *)

\* Fault: the access token lives as long as Google's ID token.
GoogleDecides(google) == google
\* accessTokenExpiry: capped by the expiry of Google's ID token.
AccessExpiry(google) == IF google < now + AccessTTL THEN google ELSE now + AccessTTL
GoogleExpiries == now..(now + AccessTTL + 1)

\* The end of tokenAuthorizationCode and completeWebLogin.
SignIn(g, a, google) ==
  /\ g \notin started
  /\ a \notin issued
  /\ PutSession(a, [grant |-> g, access |-> AccessExpiry(google),
                    refresh |-> now + RefreshTTL])
  /\ issued' = issued \cup {a}
  /\ started' = started \cup {g}
  /\ due' = [due EXCEPT ![g] = now + RefreshTTL]
  /\ newest' = [newest EXCEPT ![g] = a]
  /\ UNCHANGED <<now, ended, opVars>>

\* handleAPILogout deletes the session of the presented token.
Logout(a) ==
  /\ a \in issued
  /\ DeleteSession(a)
  /\ ended' = ended \cup {g \in Grants : Live(a) /\ sessions[a].grant = g}
  /\ UNCHANGED <<now, issued, started, due, newest, opVars>>

\* Authenticate and Middleware.
Accepted(a) == Live(a) /\ now <= sessions[a].access

-----------------------------------------------------------------------------
(* tokenRefresh *)

Goto(o, label) == pc' = [pc EXCEPT ![o] = label]

Return(o) ==
  /\ Goto(o, "idle")
  /\ grant' = [grant EXCEPT ![o] = NoGrant]
  /\ tok' = [tok EXCEPT ![o] = NoToken]
  /\ refresh' = [refresh EXCEPT ![o] = 0]
  /\ since' = [since EXCEPT ![o] = 0]

\* Fault: the session is deleted as soon as it is read.
LookupDeletes(o, g, a) ==
  \E s \in {sessions[a], gsi[a]} :
    /\ pc[o] = "idle"
    /\ Found(g, a, s)
    /\ DeleteSession(a)
    /\ Goto(o, IF now > s.refresh THEN "expire" ELSE "google")
    /\ grant' = [grant EXCEPT ![o] = g]
    /\ tok' = [tok EXCEPT ![o] = a]
    /\ refresh' = [refresh EXCEPT ![o] = s.refresh]
    /\ since' = [since EXCEPT ![o] = now]
    /\ UNCHANGED <<now, issued, started, due, newest, ended>>

Lookup(o, g, a) ==
  \E s \in {sessions[a], gsi[a]} :
    /\ pc[o] = "idle"
    /\ Found(g, a, s)
    /\ Goto(o, IF now > s.refresh THEN "expire" ELSE "google")
    /\ grant' = [grant EXCEPT ![o] = g]
    /\ tok' = [tok EXCEPT ![o] = a]
    /\ refresh' = [refresh EXCEPT ![o] = s.refresh]
    /\ since' = [since EXCEPT ![o] = now]
    /\ UNCHANGED <<now, storeVars, issued, started, due, newest, ended>>

LookupFails(o, g) ==
  /\ pc[o] = "idle"
  /\ \A a \in Tokens : ~Found(g, a, sessions[a]) /\ ~Found(g, a, gsi[a])
  /\ UNCHANGED vars

\* The refresh token has expired: its session is deleted, the answer is an error.
DeleteExpired(o) ==
  /\ pc[o] = "expire"
  /\ DeleteSession(tok[o])
  /\ Return(o)
  /\ UNCHANGED <<now, issued, started, due, newest, ended>>

\* Fault: the refresh token is renewed as well.
RenewedExpiry(o) == now + RefreshTTL
KeptExpiry(o) == refresh[o]

\* Fault: the access token is kept.
SameToken(o, a) == a = tok[o]
NewToken(o, a) == a \notin issued

\* Fault: a session that is stored may be stored again.
AnsweredOrStored(o) == pc[o] \in {"google", "rotate"}
Answered(o) == pc[o] = "google"

\* Google answered with a valid ID token: store the session under a new
\* access token, with the refresh token's old expiry.
Store(o, a, google) ==
  /\ Answered(o)
  /\ NewToken(o, a)
  /\ PutSession(a, [grant |-> grant[o], access |-> AccessExpiry(google),
                    refresh |-> KeptExpiry(o)])
  /\ issued' = issued \cup {a}
  /\ newest' = [newest EXCEPT ![grant[o]] = a]
  /\ UNCHANGED <<now, started, due, ended>>

Mint(o, a, google) ==
  Store(o, a, google) /\ Goto(o, "rotate") /\ UNCHANGED <<grant, tok, refresh, since>>

\* DynamoDB stored the session but the answer was lost: an error is returned.
MintUnanswered(o, a, google) ==
  backend = "dynamo" /\ Store(o, a, google) /\ Return(o)

\* Delete the session that was read and answer the new token.
Rotate(o) ==
  /\ pc[o] = "rotate"
  /\ DeleteSession(tok[o])
  /\ Return(o)
  /\ UNCHANGED <<now, issued, started, due, newest, ended>>

\* The request ends early: Google or the ID token is refused, the store fails
\* (an error of DeleteSession is ignored), the process dies.
Abandon(o) ==
  /\ \/ pc[o] = "google"
     \/ pc[o] # "idle" /\ backend = "dynamo"
  /\ Return(o)
  /\ UNCHANGED <<now, storeVars, issued, started, due, newest, ended>>

-----------------------------------------------------------------------------
\* The only process restarts; a memory store is lost with it.
Restart ==
  /\ backend = "memory"
  /\ sessions' = [a \in Tokens |-> NoSession]
  /\ byRefresh' = [g \in Grants |-> NoToken]
  /\ ended' = started
  /\ pc' = [o \in Ops |-> "idle"]
  /\ grant' = [o \in Ops |-> NoGrant]
  /\ tok' = [o \in Ops |-> NoToken]
  /\ refresh' = [o \in Ops |-> 0]
  /\ since' = [o \in Ops |-> 0]
  /\ UNCHANGED <<now, backend, gsi, issued, started, due, newest>>

Tick ==
  /\ now < MaxTime
  /\ \A o \in Ops : pc[o] # "idle" => now < since[o] + MaxDelay
  /\ now' = now + 1
  /\ UNCHANGED <<storeVars, issued, started, due, newest, ended, opVars>>

Refresh(o) ==
  \/ \E g \in Grants : LookupFails(o, g) \/ \E a \in Tokens : Lookup(o, g, a)
  \/ DeleteExpired(o)
  \/ \E a \in Tokens, google \in GoogleExpiries :
       Mint(o, a, google) \/ MintUnanswered(o, a, google)
  \/ Rotate(o)
  \/ Abandon(o)

Next ==
  \/ Tick
  \/ Restart
  \/ \E a \in Tokens : Propagate(a) \/ TimeToLive(a) \/ Logout(a)
  \/ \E g \in Grants, a \in Tokens, google \in GoogleExpiries : SignIn(g, a, google)
  \/ \E o \in Ops : Refresh(o)

Spec == Init /\ [][Next]_vars

\* DynamoDB keeps its index up to date; nothing else is assumed to happen.
FairSpec == Spec /\ \A a \in Tokens : WF_vars(Propagate(a))

-----------------------------------------------------------------------------
(* Properties *)

(***************************************************************************)
(* Until it is due or its user logs out a sign-in is never lost: the       *)
(* session stored for it last is still there, and in the memory store the  *)
(* refresh token resolves to it.  However many refreshes of one token run  *)
(* at a time, read each other's stale sessions or stop half way, none of   *)
(* them deletes the last session (tokenRefresh stores before it deletes;   *)
(* DeleteSession drops the mapping only if it still points at the token).  *)
(***************************************************************************)
Survives == \A g \in started \ ended : now <= due[g] =>
  Live(newest[g]) /\ (backend = "memory" => byRefresh[g] = newest[g])

(***************************************************************************)
(* "so sessions are not extended indefinitely" (oauth.go:656): refreshing  *)
(* again and again, at the last moment and at a time, gives no session an  *)
(* access token beyond one access token's lifetime after the refresh token *)
(* of the sign-in was due, plus the time the last refresh took.            *)
(***************************************************************************)
BoundedLifetime == \A a \in Tokens : Live(a) =>
  sessions[a].access <= due[sessions[a].grant] + MaxDelay + AccessTTL

(***************************************************************************)
(* An access token that was deleted, by a logout, a rotation or an expiry, *)
(* is never accepted again, whatever refresh was in progress meanwhile.    *)
(***************************************************************************)
RevokedForever == [][\A a \in issued : ~Live(a) => sessions'[a] = NoSession]_vars

(***************************************************************************)
(* A sign-in that is over stays over.  A logout alone does not end it: a   *)
(* refresh that looked it up before stores a new session after, and so may *)
(* one that reads the index before it catches up.  But once no session is  *)
(* stored, the index shows none and no such refresh is waiting for Google, *)
(* the refresh token never gets an access token again.                     *)
(***************************************************************************)
Over(g) ==
  /\ \A a \in Tokens : Live(a) => sessions[a].grant # g
  /\ \A a \in Tokens : gsi[a] # NoSession => gsi[a].grant # g
  /\ \A o \in Ops : pc[o] = "google" => grant[o] # g
StaysOver == [][\A g \in started : Over(g) => Over(g)']_vars

(***************************************************************************)
(* A client that keeps trying gets through: although the index may show    *)
(* neither the old nor the new session of a rotation, again and again a    *)
(* lookup of a refresh token finds a session of its sign-in.               *)
(***************************************************************************)
Findable == \A g \in Grants : []<>(g \in started \ ended /\ now <= due[g] =>
  \E a \in Tokens : Found(g, a, sessions[a]) \/ Found(g, a, gsi[a]))

(***************************************************************************)
(* The inductive invariant.                                                *)
(***************************************************************************)
\* What the table and the index say of a sign-in agrees with its history.
SessionOf(a, s) ==
  /\ a \in issued
  /\ s.grant \in started
  /\ s.refresh = due[s.grant]
  /\ s.access <= due[s.grant] + MaxDelay + AccessTTL
StoreInv ==
  /\ \A a \in Tokens : Live(a) => SessionOf(a, sessions[a])
  /\ \A a \in Tokens : gsi[a] # NoSession => SessionOf(a, gsi[a])
  /\ \A a \in Tokens : Live(a) /\ gsi[a] # NoSession => gsi[a] = sessions[a]
  /\ \A g \in Grants : byRefresh[g] # NoToken =>
       backend = "memory" /\ Live(byRefresh[g]) /\ sessions[byRefresh[g]].grant = g

\* The last session of a sign-in is its own.
NewestInv == \A g \in started :
  /\ newest[g] \in issued
  /\ Live(newest[g]) => sessions[newest[g]].grant = g
  /\ gsi[newest[g]] # NoSession => gsi[newest[g]].grant = g

\* A refresh works on a session of its sign-in, and deletes it only when a
\* newer one is stored or the sign-in is past due.
RefreshInv == \A o \in Ops : pc[o] # "idle" =>
  /\ grant[o] \in started
  /\ tok[o] \in issued
  /\ refresh[o] = due[grant[o]]
  /\ Live(tok[o]) => sessions[tok[o]].grant = grant[o]
  /\ gsi[tok[o]] # NoSession => gsi[tok[o]].grant = grant[o]
  /\ since[o] <= now /\ now <= since[o] + MaxDelay
  /\ pc[o] = "google" => since[o] <= refresh[o]
  /\ pc[o] = "rotate" => tok[o] # newest[grant[o]]
  /\ pc[o] = "expire" => since[o] > refresh[o]

IInv == TypeOK /\ StoreInv /\ NewestInv /\ RefreshInv /\ Survives

(***************************************************************************)
(* "Access tokens rotate on refresh" (security_review.md:67): when no      *)
(* refresh of it is in progress, a refresh token has one access token that *)
(* is accepted.                                                            *)
(***************************************************************************)
RotationReplaces == \A g \in Grants : (\A o \in Ops : grant[o] # g) =>
  Cardinality({a \in Tokens : Accepted(a) /\ sessions[a].grant = g}) <= 1
=============================================================================
