----------------------------- MODULE OAuthFlow ------------------------------
(***************************************************************************)
(* The sign-in part of the authorization server                            *)
(* (emailmcp/internal/server/oauth.go, and the portal's own sign-in in     *)
(* web.go): an attempt is opened with a state for Google, comes back       *)
(* through a callback, becomes a one-time code for the client or a portal  *)
(* session, and the code is redeemed at the token endpoint.                *)
(*                                                                         *)
(* Attempts and codes live in two maps of one process; a callback or token *)
(* request may reach any replica, at any time and any number of times.     *)
(* The step from taking an entry out of a map to storing what follows from *)
(* it waits for Google or the session store; an element of Ops is a        *)
(* goroutine between the two.  Time is counted in units.                   *)
(***************************************************************************)
EXTENDS Integers, FiniteSets

CONSTANTS
  States,         \* Google states, one per attempt
  Codes,          \* authorization codes
  Replicas,       \* server processes
  Ops,            \* goroutines serving callbacks and token requests
  Clients,        \* MCP clients
  WebUI,          \* webUIClientID, the portal itself
  PendingTTL,     \* oauthPendingTTL
  CodeTTL,        \* oauthCodeTTL
  CleanupPeriod,  \* the minute between two cleanups
  MaxDelay,       \* bound: how long Google and the store keep a request waiting
  MaxTime,        \* bound: when the clock stops
  NoClient, NoState, NoReplica

ASSUME FlowTimeAssumption ==
  /\ PendingTTL \in Nat \ {0} /\ CodeTTL \in Nat \ {0}
  /\ CleanupPeriod \in Nat /\ MaxDelay \in Nat /\ MaxTime \in Nat
ASSUME FlowNoneAssumption ==
  /\ WebUI \notin Clients /\ NoClient \notin Clients \cup {WebUI}
  /\ NoState \notin States /\ NoReplica \notin Replicas

VARIABLES
  now,
  client,     \* client[s]: who opened attempt s; NoClient: nobody yet
  opened,     \* opened[s]: history; when attempt s was opened
  pending,    \* pending[r][s]: expiry of the pending attempt; 0: none
  codes,      \* codes[r][c]: [attempt, expires]; attempt NoState: none
  cleanupAt,  \* cleanupAt[r]: no cleanup before this time
  lastOpen,   \* lastOpen[r]: history; when r opened an attempt last
  usedCodes,  \* history; the codes generated so far
  granted,    \* granted[s]: history; sessions issued for attempt s
  session,    \* session[s]: history; [path, verifier] of the request that obtained
              \* the session: where it came in, and whose PKCE verifier it had
  pc, replica, attempt, via, since, proof  \* the request in progress

flowVars == <<client, opened, pending, codes, cleanupAt, lastOpen, usedCodes>>
opVars == <<pc, replica, attempt, via, since, proof>>
vars == <<now, client, opened, pending, codes, cleanupAt, lastOpen, usedCodes,
          granted, session, pc, replica, attempt, via, since, proof>>

NoCode == [attempt |-> NoState, expires |-> 0]
Callbacks == {"/oauth/callback", "/auth/callback"}
Paths == Callbacks \cup {"none", "/oauth/token"}
NoSession == [path |-> "none", verifier |-> NoState]

TypeOK ==
  /\ now \in 0..MaxTime
  /\ client \in [States -> Clients \cup {WebUI, NoClient}]
  /\ opened \in [States -> 0..MaxTime]
  /\ pending \in [Replicas -> [States -> Nat]]
  /\ codes \in [Replicas -> [Codes -> [attempt : States \cup {NoState}, expires : Nat]]]
  /\ cleanupAt \in [Replicas -> Nat]
  /\ lastOpen \in [Replicas -> 0..MaxTime]
  /\ usedCodes \subseteq Codes
  /\ granted \in [States -> Nat]
  /\ session \in [States -> [path : Paths, verifier : States \cup {NoState}]]
  /\ pc \in [Ops -> {"idle", "exchange", "verify"}]
  /\ replica \in [Ops -> Replicas \cup {NoReplica}]
  /\ attempt \in [Ops -> States \cup {NoState}]
  /\ via \in [Ops -> Paths]
  /\ since \in [Ops -> 0..MaxTime]
  /\ proof \in [Ops -> States \cup {NoState}]

Init ==
  /\ now = 0
  /\ client = [s \in States |-> NoClient]
  /\ opened = [s \in States |-> 0]
  /\ pending = [r \in Replicas |-> [s \in States |-> 0]]
  /\ codes = [r \in Replicas |-> [c \in Codes |-> NoCode]]
  /\ cleanupAt = [r \in Replicas |-> 0]
  /\ lastOpen = [r \in Replicas |-> 0]
  /\ usedCodes = {}
  /\ granted = [s \in States |-> 0]
  /\ session = [s \in States |-> NoSession]
  /\ pc = [o \in Ops |-> "idle"]
  /\ replica = [o \in Ops |-> NoReplica]
  /\ attempt = [o \in Ops |-> NoState]
  /\ via = [o \in Ops |-> "none"]
  /\ since = [o \in Ops |-> 0]
  /\ proof = [o \in Ops |-> NoState]

-----------------------------------------------------------------------------
(* Opening an attempt *)

\* Fault: the next cleanup is put off without cleaning.
CleansNever(r) == FALSE
\* cleanupLocked runs at most once a CleanupPeriod.
Cleans(r) == now >= cleanupAt[r]

\* Fault: the expiry is not looked at.
NeverExpired(t) == FALSE
\* time.Now().After(ExpiresAt)
Expired(t) == now > t

\* Fault: the cleanup starts a new map.
WipePending(r) == [s \in States |-> IF Cleans(r) THEN 0 ELSE pending[r][s]]
CleanPending(r) ==
  [s \in States |-> IF Cleans(r) /\ Expired(pending[r][s]) THEN 0 ELSE pending[r][s]]
CleanCodes(r) ==
  [c \in Codes |-> IF Cleans(r) /\ Expired(codes[r][c].expires) THEN NoCode ELSE codes[r][c]]

\* handleAuthorize for an accepted request of an MCP client (or of one that
\* names itself "web-ui"), handleWebLogin for the portal.
Open(r, s, cl) ==
  /\ client[s] = NoClient
  /\ client' = [client EXCEPT ![s] = cl]
  /\ opened' = [opened EXCEPT ![s] = now]
  /\ cleanupAt' = [cleanupAt EXCEPT ![r] = IF Cleans(r) THEN now + CleanupPeriod ELSE @]
  /\ pending' = [pending EXCEPT ![r] = [CleanPending(r) EXCEPT ![s] = now + PendingTTL]]
  /\ codes' = [codes EXCEPT ![r] = CleanCodes(r)]
  /\ lastOpen' = [lastOpen EXCEPT ![r] = now]
  /\ UNCHANGED <<now, usedCodes, granted, session, opVars>>

-----------------------------------------------------------------------------
(* The callback *)

Goto(o, label) == pc' = [pc EXCEPT ![o] = label]

Return(o) ==
  /\ Goto(o, "idle")
  /\ replica' = [replica EXCEPT ![o] = NoReplica]
  /\ attempt' = [attempt EXCEPT ![o] = NoState]
  /\ via' = [via EXCEPT ![o] = "none"]
  /\ since' = [since EXCEPT ![o] = 0]
  /\ proof' = [proof EXCEPT ![o] = NoState]

Serve(o, r, s, path, x) ==
  /\ replica' = [replica EXCEPT ![o] = r]
  /\ attempt' = [attempt EXCEPT ![o] = s]
  /\ via' = [via EXCEPT ![o] = path]
  /\ since' = [since EXCEPT ![o] = now]
  /\ proof' = [proof EXCEPT ![o] = x]

\* Fault: the entry stays in the map until the code is exchanged.
KeepPending(r, s) == UNCHANGED pending
TakePending(r, s) == pending' = [pending EXCEPT ![r][s] = 0]

\* handleCallback and handleWebCallback take the attempt out of the map.
Callback(o, r, s, path) ==
  /\ pc[o] = "idle"
  /\ pending[r][s] > 0
  /\ ~Expired(pending[r][s])
  /\ TakePending(r, s)
  /\ Serve(o, r, s, path, NoState)
  /\ Goto(o, "exchange")
  /\ UNCHANGED <<now, client, opened, codes, cleanupAt, lastOpen, usedCodes, granted, session>>

CallbackLate(r, s) ==
  /\ pending[r][s] > 0
  /\ Expired(pending[r][s])
  /\ TakePending(r, s)
  /\ UNCHANGED <<now, client, opened, codes, cleanupAt, lastOpen, usedCodes, granted,
                 session, opVars>>

\* Another replica, a restarted process, a callback delivered before.
CallbackUnknown(r, s) == pending[r][s] = 0 /\ UNCHANGED vars

\* /auth/callback does not look at the client.
IsWebLogin(o) == via[o] = "/auth/callback" \/ client[attempt[o]] = WebUI

\* Fault: ExpiresAt is left at the zero time, before the epoch.
NoCodeExpiry == -1
CodeExpiry == now + CodeTTL

IssueCode(o, c) ==
  /\ pc[o] = "exchange"
  /\ ~IsWebLogin(o)
  /\ c \notin usedCodes
  /\ usedCodes' = usedCodes \cup {c}
  /\ codes' = [codes EXCEPT ![replica[o]][c] =
                 [attempt |-> attempt[o], expires |-> CodeExpiry]]
  /\ Return(o)
  /\ UNCHANGED <<now, client, opened, pending, cleanupAt, lastOpen, granted, session>>

\* A session is stored; whether the answer arrives makes no difference here.
PutSession(o) ==
  /\ granted' = [granted EXCEPT ![attempt[o]] = @ + 1]
  /\ session' = [session EXCEPT ![attempt[o]] = [path |-> via[o], verifier |-> proof[o]]]
  /\ Return(o)
  /\ UNCHANGED <<now, flowVars>>

CompleteWebLogin(o) == pc[o] = "exchange" /\ IsWebLogin(o) /\ PutSession(o)

-----------------------------------------------------------------------------
(* The token endpoint *)

\* Fault: the code is deleted only when the session is stored.
KeepCode(r, c) == UNCHANGED codes
TakeCode(r, c) == codes' = [codes EXCEPT ![r][c] = NoCode]

\* Fault: no PKCE check.
AnyVerifier(r, c, x) == TRUE
\* verifyPKCE: each attempt has a challenge of its own, and x names the
\* attempt whose verifier is presented.
Verified(r, c, x) == x = codes[r][c].attempt
\* redirect_uri is that of the attempt; a client_id may be missing.
Matches(r, c, cl, sameUri) == sameUri /\ cl \in {NoClient, client[codes[r][c].attempt]}

\* tokenAuthorizationCode with a code in time, everything matching.
Redeem(o, r, c, x, cl, sameUri) ==
  /\ pc[o] = "idle"
  /\ codes[r][c] # NoCode
  /\ ~Expired(codes[r][c].expires)
  /\ Matches(r, c, cl, sameUri) /\ Verified(r, c, x)
  /\ TakeCode(r, c)
  /\ Serve(o, r, codes[r][c].attempt, "/oauth/token", x)
  /\ Goto(o, "verify")
  /\ UNCHANGED <<now, client, opened, pending, cleanupAt, lastOpen, usedCodes, granted, session>>

\* A late or mismatched request is refused, and the code is gone too.
RedeemRefused(r, c, x, cl, sameUri) ==
  /\ codes[r][c] # NoCode
  /\ \/ Expired(codes[r][c].expires)
     \/ ~(Matches(r, c, cl, sameUri) /\ Verified(r, c, x))
  /\ TakeCode(r, c)
  /\ UNCHANGED <<now, client, opened, pending, cleanupAt, lastOpen, usedCodes, granted,
                 session, opVars>>

\* Google's ID token was verified once more.
GrantSession(o) == pc[o] = "verify" /\ PutSession(o)

\* Google refuses, the ID token is not valid (any more), the store fails.
Refused(o) ==
  /\ pc[o] # "idle"
  /\ Return(o)
  /\ UNCHANGED <<now, flowVars, granted, session>>

-----------------------------------------------------------------------------
\* The process of r restarts: its maps and its requests are gone.
Restart(r) ==
  LET dead == {o \in Ops : replica[o] = r}
      Reset(f, none) == [o \in Ops |-> IF o \in dead THEN none ELSE f[o]]
  IN
  /\ pending' = [pending EXCEPT ![r] = [s \in States |-> 0]]
  /\ codes' = [codes EXCEPT ![r] = [c \in Codes |-> NoCode]]
  /\ cleanupAt' = [cleanupAt EXCEPT ![r] = 0]
  /\ lastOpen' = [lastOpen EXCEPT ![r] = 0]
  /\ pc' = Reset(pc, "idle")
  /\ replica' = Reset(replica, NoReplica)
  /\ attempt' = Reset(attempt, NoState)
  /\ via' = Reset(via, "none")
  /\ since' = Reset(since, 0)
  /\ proof' = Reset(proof, NoState)
  /\ UNCHANGED <<now, client, opened, usedCodes, granted, session>>

Tick ==
  /\ now < MaxTime
  /\ \A o \in Ops : pc[o] # "idle" => now < since[o] + MaxDelay
  /\ now' = now + 1
  /\ UNCHANGED <<flowVars, granted, session, opVars>>

Arrive(r) ==
  \/ \E s \in States, cl \in Clients \cup {WebUI} : Open(r, s, cl)
  \/ \E s \in States : CallbackLate(r, s) \/ CallbackUnknown(r, s)
  \/ \E o \in Ops, s \in States, path \in Callbacks : Callback(o, r, s, path)
  \/ \E c \in Codes, x \in States, cl \in Clients \cup {NoClient}, sameUri \in BOOLEAN :
       \/ RedeemRefused(r, c, x, cl, sameUri)
       \/ \E o \in Ops : Redeem(o, r, c, x, cl, sameUri)

Work(o) ==
  \/ \E c \in Codes : IssueCode(o, c)
  \/ CompleteWebLogin(o) \/ GrantSession(o) \/ Refused(o)

Next ==
  \/ Tick
  \/ \E r \in Replicas : Arrive(r) \/ Restart(r)
  \/ \E o \in Ops : Work(o)

Spec == Init /\ [][Next]_vars

-----------------------------------------------------------------------------
(* Properties *)

(***************************************************************************)
(* Where an attempt is: in a map of one replica, or with one request.      *)
(***************************************************************************)
PendingAt(s) == {r \in Replicas : pending[r][s] > 0}
ExchangedBy(s) == {o \in Ops : pc[o] = "exchange" /\ attempt[o] = s}
CodesOf(s) == {rc \in Replicas \X Codes : codes[rc[1]][rc[2]].attempt = s}
VerifiedBy(s) == {o \in Ops : pc[o] = "verify" /\ attempt[o] = s}

(***************************************************************************)
(* One-time use: however often a callback or a code is presented, at       *)
(* whichever replica and at whatever pace, an attempt is in at most one    *)
(* place, and the session it ends in is its only one.                      *)
(***************************************************************************)
OneTime == \A s \in States :
  Cardinality(PendingAt(s)) + Cardinality(ExchangedBy(s)) + Cardinality(CodesOf(s))
    + Cardinality(VerifiedBy(s)) + granted[s] <= 1

(***************************************************************************)
(* A session went to the holder of the verifier for the challenge its      *)
(* attempt was opened with ("PKCE S256 required ... one-time auth codes;   *)
(* state binding", security_review.md:105).  Two kinds need none: the      *)
(* portal's own sign-in, and an attempt of any client whose state was      *)
(* presented at /auth/callback, which ends in a portal session.            *)
(***************************************************************************)
ProofOfPossession == \A s \in States : granted[s] > 0 =>
  \/ session[s] = [path |-> "/oauth/token", verifier |-> s]
  \/ session[s] = [path |-> "/oauth/callback", verifier |-> NoState] /\ client[s] = WebUI
  \/ session[s] = [path |-> "/auth/callback", verifier |-> NoState]

(***************************************************************************)
(* An attempt is worth nothing after its lifetimes: whatever is stored or  *)
(* in progress for it is gone or refused by then, up to two waits.         *)
(***************************************************************************)
InTime == \A s \in States :
  /\ \A r \in Replicas : pending[r][s] <= opened[s] + PendingTTL
  /\ \A rc \in CodesOf(s) :
       codes[rc[1]][rc[2]].expires <= opened[s] + PendingTTL + MaxDelay + CodeTTL
  /\ \A o \in VerifiedBy(s) : since[o] <= opened[s] + PendingTTL + MaxDelay + CodeTTL

(***************************************************************************)
(* The maps do not grow with abandoned sign-ins: when an attempt is        *)
(* opened, no entry is left that had expired a CleanupPeriod before.       *)
(***************************************************************************)
MapsBounded == \A r \in Replicas :
  /\ \A s \in States : pending[r][s] > 0 => lastOpen[r] <= pending[r][s] + CleanupPeriod
  /\ \A c \in Codes : codes[r][c] # NoCode =>
       lastOpen[r] <= codes[r][c].expires + CleanupPeriod

(***************************************************************************)
(* A running server forgets no attempt and no code that is still in time:  *)
(* an attempt leaves its map with a callback that presents it, a code with *)
(* a token request that presents it (and is served or refused), or both    *)
(* with their process.                                                     *)
(***************************************************************************)
AttemptKept(r, s) ==
  pending[r][s] > 0 /\ ~Expired(pending[r][s]) /\ pending'[r][s] = 0 =>
    (\E o \in Ops : ExchangedBy(s)' = {o}) \/ Restart(r)

CodeKept(r, c, s) ==
  codes[r][c].attempt = s /\ ~Expired(codes[r][c].expires) /\ codes'[r][c] = NoCode =>
    \/ \E o \in Ops : VerifiedBy(s)' = {o}
    \/ \E x \in States, cl \in Clients \cup {NoClient}, sameUri \in BOOLEAN :
         RedeemRefused(r, c, x, cl, sameUri)
    \/ Restart(r)

NothingForgotten == [][\A r \in Replicas, s \in States :
  AttemptKept(r, s) /\ \A c \in Codes : CodeKept(r, c, s)]_vars

(***************************************************************************)
(* Why: an attempt is in one place or none, which is empty before it is    *)
(* opened and after its session; a request in progress knows its attempt,  *)
(* has not waited longer than MaxDelay and set out in time; a cleanup was  *)
(* at most a CleanupPeriod before the next one is due.                     *)
(***************************************************************************)
Lone(S) == \A x, y \in S : x = y

InOnePlace(s) ==
  /\ Lone(PendingAt(s)) /\ Lone(ExchangedBy(s)) /\ Lone(CodesOf(s)) /\ Lone(VerifiedBy(s))
  /\ PendingAt(s) # {} => ExchangedBy(s) = {}
  /\ PendingAt(s) # {} \/ ExchangedBy(s) # {} => CodesOf(s) = {}
  /\ PendingAt(s) # {} \/ ExchangedBy(s) # {} \/ CodesOf(s) # {} => VerifiedBy(s) = {}
  /\ client[s] = NoClient \/ granted[s] > 0 =>
       /\ PendingAt(s) = {} /\ ExchangedBy(s) = {} /\ CodesOf(s) = {} /\ VerifiedBy(s) = {}
  /\ client[s] = NoClient => granted[s] = 0
  /\ granted[s] <= 1

WorkInOrder(o) == pc[o] # "idle" =>
  /\ attempt[o] \in States /\ replica[o] \in Replicas
  /\ since[o] <= now /\ now <= since[o] + MaxDelay
  /\ pc[o] = "exchange" =>
       /\ via[o] \in Callbacks /\ proof[o] = NoState
       /\ since[o] <= opened[attempt[o]] + PendingTTL
  /\ pc[o] = "verify" =>
       /\ via[o] = "/oauth/token" /\ proof[o] = attempt[o]
       /\ since[o] <= opened[attempt[o]] + PendingTTL + MaxDelay + CodeTTL

CleanedInTime(r) ==
  /\ lastOpen[r] <= now /\ cleanupAt[r] <= now + CleanupPeriod
  /\ \A s \in States : pending[r][s] > 0 => cleanupAt[r] <= pending[r][s] + CleanupPeriod
  /\ \A c \in Codes : codes[r][c] # NoCode =>
       /\ codes[r][c].attempt # NoState
       /\ c \in usedCodes
       /\ cleanupAt[r] <= codes[r][c].expires + CleanupPeriod

IInv ==
  /\ TypeOK
  /\ \A s \in States : InOnePlace(s) /\ opened[s] <= now
  /\ \A o \in Ops : WorkInOrder(o)
  /\ \A r \in Replicas : CleanedInTime(r)
  /\ ProofOfPossession /\ InTime /\ MapsBounded

\* The flow implements one-time grants.
Phase(s) ==
  IF client[s] = NoClient THEN "new"
  ELSE IF PendingAt(s) # {} \/ ExchangedBy(s) # {} THEN "open"
  ELSE IF CodesOf(s) # {} \/ VerifiedBy(s) # {} THEN "code"
  ELSE "over"
OneTimeGrants == INSTANCE OneTimeGrant WITH phase <- [s \in States |-> Phase(s)]
ImplementsOneTimeGrant == OneTimeGrants!GrantSpec
=============================================================================
