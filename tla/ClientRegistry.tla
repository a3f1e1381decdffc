--------------------------- MODULE ClientRegistry ---------------------------
(***************************************************************************)
(* Where authorization codes may be sent: client registration and the      *)
(* client half of handleAuthorize (internal/server/oauth.go), over the     *)
(* registered clients of internal/server/store.go, which outlive the       *)
(* process and the redirect allowlist it was started with.                 *)
(*                                                                         *)
(* An address stands for a redirect URI, by its kind.  An attempt is       *)
(* pending until a callback takes it; the callback then waits for Google,  *)
(* as long as that takes, and sends the code or gives up.  The code's own  *)
(* fate is in OAuthFlow.                                                   *)
(***************************************************************************)
EXTENDS Integers

CONSTANTS
  ClientIds,
  Loopback,   \* addresses http://localhost/... and the like
  Https,      \* https addresses with a host
  Custom,     \* custom schemes of desktop clients
  Other,      \* any other address, or text that is none
  Attempts,
  ClientTTL, AttemptTTL,
  LastTime,    \* bound of the clock
  NoAttempt

Addresses == Loopback \cup Https \cup Custom \cup Other

ASSUME AddressAssumption ==
  /\ Loopback \cap (Https \cup Custom \cup Other) = {}
  /\ Https \cap (Custom \cup Other) = {} /\ Custom \cap Other = {}
ASSUME RegistryTimes == ClientTTL \in Nat /\ AttemptTTL \in Nat /\ LastTime \in Nat
Tries == [client : ClientIds, uri : Addresses, expires : 0..(LastTime + AttemptTTL)]

Exchanges == [client : ClientIds, uri : Addresses, taken : 0..LastTime]

ASSUME RegistryNone == NoAttempt \notin Tries \cup Exchanges

VARIABLES
  clock,
  durable,    \* the store of clients is a DynamoDB table
  enforced,   \* the allowlist has entries
  allowlist,  \* the https addresses they match
  clients,    \* clients[c]: [uris, expires], with no uris when there is no record
  trying,     \* trying[a]: pending[state] of the attempt, or NoAttempt
  exchanging, \* exchanging[a]: what the callback of a that waits for Google
              \* took: [client, uri, taken], taken when; or NoAttempt
  sent,       \* history; [client, uri, taken, allowed] of the codes sent, where
              \* allowed tells whether a registration of uri would be accepted
  registered  \* history; [client, uri, at] of the registrations

registryVars ==
  <<clock, durable, enforced, allowlist, clients, trying, exchanging, sent, registered>>

NoRecord == [uris |-> {}, expires |-> 0]
RegistryTypeOK ==
  /\ clock \in 0..LastTime
  /\ durable \in BOOLEAN /\ enforced \in BOOLEAN /\ allowlist \subseteq Https
  /\ clients \in [ClientIds -> [uris : SUBSET Addresses, expires : Nat]]
  /\ trying \in [Attempts -> Tries \cup {NoAttempt}]
  /\ exchanging \in [Attempts -> Exchanges \cup {NoAttempt}]
  /\ sent \subseteq [client : ClientIds, uri : Addresses, taken : Nat, allowed : BOOLEAN]
  /\ registered \subseteq [client : ClientIds, uri : Addresses, at : Nat]

RegistryInit ==
  /\ clock = 0 /\ durable \in BOOLEAN
  /\ allowlist \in SUBSET Https /\ enforced \in BOOLEAN
  /\ allowlist # {} => enforced
  /\ clients = [c \in ClientIds |-> NoRecord]
  /\ trying = [a \in Attempts |-> NoAttempt]
  /\ exchanging = [a \in Attempts |-> NoAttempt]
  /\ sent = {} /\ registered = {}

\* The rules of isAllowedRedirectURI, with an address matched by the allowlist.
IsAllowed(u) ==
  \/ u \in Loopback \cup Custom
  \/ u \in Https /\ (enforced => u \in allowlist)

-----------------------------------------------------------------------------
(* Registration *)

\* Whether or not PutClient answers; an id is never issued twice.
Register(c, uris) ==
  /\ \A r \in registered : r.client # c
  /\ uris # {} /\ \A u \in uris : IsAllowed(u)
  /\ clients' = [clients EXCEPT ![c] = [uris |-> uris, expires |-> clock + ClientTTL]]
  /\ registered' = registered \cup [client : {c}, uri : uris, at : {clock}]
  /\ UNCHANGED <<clock, durable, enforced, allowlist, trying, exchanging, sent>>

\* DynamoDB removes a record some time after its ttl; the map never does.
TimeToLive(c) ==
  /\ durable /\ clients[c] # NoRecord /\ clock > clients[c].expires
  /\ clients' = [clients EXCEPT ![c] = NoRecord]
  /\ UNCHANGED <<clock, durable, enforced, allowlist, trying, exchanging, sent, registered>>

-----------------------------------------------------------------------------
(* An attempt *)

\* Fault: a record counts as long as it is there.
HasRecord(c) == clients[c] # NoRecord
Known(c) == clients[c] # NoRecord /\ clock <= clients[c].expires

\* An unknown client may only ask for a loopback address.
MayAsk(c, u) == IF Known(c) THEN u \in clients[c].uris ELSE u \in Loopback

Authorize(a, c, u) ==
  /\ trying[a] = NoAttempt /\ exchanging[a] = NoAttempt
  /\ IsAllowed(u) /\ MayAsk(c, u)
  /\ trying' = [trying EXCEPT ![a] =
                   [client |-> c, uri |-> u, expires |-> clock + AttemptTTL]]
  /\ UNCHANGED <<clock, durable, enforced, allowlist, clients, exchanging, sent, registered>>

\* A callback takes the attempt out of the map; one in time goes to Google.
TakeAttempt(a) ==
  LET p == trying[a] IN
  /\ p # NoAttempt /\ clock <= p.expires
  /\ trying' = [trying EXCEPT ![a] = NoAttempt]
  /\ exchanging' = [exchanging EXCEPT ![a] =
                       [client |-> p.client, uri |-> p.uri, taken |-> clock]]
  /\ UNCHANGED <<clock, durable, enforced, allowlist, clients, sent, registered>>

\* Late, removed by cleanupLocked, or a portal sign-in through /auth/callback.
Discard(a) ==
  /\ trying[a] # NoAttempt
  /\ trying' = [trying EXCEPT ![a] = NoAttempt]
  /\ UNCHANGED <<clock, durable, enforced, allowlist, clients, exchanging, sent, registered>>

\* Google answered, however much later; the time is not looked at again.
SendCode(a) ==
  LET p == exchanging[a] IN
  /\ p # NoAttempt
  /\ sent' = sent \cup {[client |-> p.client, uri |-> p.uri, taken |-> p.taken,
                          allowed |-> IsAllowed(p.uri)]}
  /\ exchanging' = [exchanging EXCEPT ![a] = NoAttempt]
  /\ UNCHANGED <<clock, durable, enforced, allowlist, clients, trying, registered>>

\* Google refuses the exchange, or the ID token does not verify.
ExchangeFails(a) ==
  /\ exchanging[a] # NoAttempt
  /\ exchanging' = [exchanging EXCEPT ![a] = NoAttempt]
  /\ UNCHANGED <<clock, durable, enforced, allowlist, clients, trying, sent, registered>>

\* The next process may have another allowlist.
NewProcess ==
  /\ trying' = [a \in Attempts |-> NoAttempt]
  /\ exchanging' = [a \in Attempts |-> NoAttempt]
  /\ IF durable THEN UNCHANGED clients ELSE clients' = [c \in ClientIds |-> NoRecord]
  /\ allowlist' \in SUBSET Https
  /\ enforced' \in BOOLEAN /\ (allowlist' # {} => enforced')
  /\ UNCHANGED <<clock, durable, sent, registered>>

RegistryTick ==
  /\ clock < LastTime
  /\ clock' = clock + 1
  /\ UNCHANGED <<durable, enforced, allowlist, clients, trying, exchanging, sent, registered>>

RegistryNext ==
  \/ \E c \in ClientIds :
       \/ \E uris \in SUBSET Addresses : Register(c, uris)
       \/ TimeToLive(c)
       \/ \E a \in Attempts, u \in Addresses : Authorize(a, c, u)
  \/ \E a \in Attempts : TakeAttempt(a) \/ Discard(a) \/ SendCode(a) \/ ExchangeFails(a)
  \/ NewProcess \/ RegistryTick

RegistrySpec == RegistryInit /\ [][RegistryNext]_registryVars

-----------------------------------------------------------------------------
(* Properties *)

(***************************************************************************)
(* A code only goes to an address that could be registered now, and to a   *)
(* loopback address or one its client registered: no longer than a         *)
(* registration and an attempt last before the callback that sends the     *)
(* code took the attempt.  A record may outlive its time, and the          *)
(* allowlist it was accepted under, by restarts in between; how long       *)
(* Google then keeps the callback waiting is not bounded.                  *)
(***************************************************************************)
Covered(c, u, t) == \E r \in registered :
  r.client = c /\ r.uri = u /\ t <= r.at + ClientTTL + AttemptTTL

SentWhereAllowed == \A s \in sent :
  s.allowed /\ (s.uri \in Loopback \/ Covered(s.client, s.uri, s.taken))

\* Why: a record is of a registration, and an attempt is allowed as long as it
\* is pending or with Google.
Recorded(c, u) == u \in clients[c].uris => \E r \in registered :
  r.client = c /\ r.uri = u /\ clients[c].expires = r.at + ClientTTL

AttemptAllowed(a) ==
  LET p == trying[a] IN p # NoAttempt =>
    IsAllowed(p.uri) /\ (p.uri \in Loopback \/ Covered(p.client, p.uri, p.expires))

ExchangeAllowed(a) ==
  LET p == exchanging[a] IN p # NoAttempt =>
    IsAllowed(p.uri) /\ (p.uri \in Loopback \/ Covered(p.client, p.uri, p.taken))

TryingAllowed ==
  /\ allowlist # {} => enforced
  /\ \A c \in ClientIds, u \in Addresses : Recorded(c, u)
  /\ \A a \in Attempts : AttemptAllowed(a) /\ ExchangeAllowed(a)

RegistryIInv == RegistryTypeOK /\ TryingAllowed /\ SentWhereAllowed
=============================================================================
