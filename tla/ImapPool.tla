------------------------------ MODULE ImapPool ------------------------------
(***************************************************************************)
(* The IMAP connection manager (emailmcp/internal/imap/pool.go) together   *)
(* with what the handlers of internal/server do around it: a mail request  *)
(* reads the stored account, acquires a connection, runs its commands and  *)
(* releases the connection; saving or removing an account writes the       *)
(* configuration store and then drops the account's pool.                  *)
(*                                                                         *)
(* An element of Ops is a goroutine serving one request at a time.  The    *)
(* two kinds of mutex are explicit: mu is Manager.mu, plock[p] the mutex   *)
(* of pool p.  A step of the model is the code between two points at which *)
(* another goroutine could observe the difference, so every network wait   *)
(* under a mutex is the gap between two steps.                             *)
(*                                                                         *)
(* Identities of pools and connections are reused once nothing refers to   *)
(* them, as the garbage collector and the mail server do; no counter of    *)
(* either is needed and the state space is finite.                         *)
(***************************************************************************)
EXTENDS Integers, Sequences, FiniteSets, Functions

CONSTANTS
  Keys,       \* pool keys: (owner, account id) pairs
  Ops,        \* goroutines serving requests
  Pools,      \* identities of accountPool objects
  Conns,      \* connections the mail servers accept at one time
  MaxConns,   \* Config.MaxConnsPerAccount
  MaxWrites,  \* bound: configuration writes per account
  NoOp, NoKey, NoPool, NoConn

ASSUME MaxConnsAssumption == MaxConns \in Nat \ {0}
ASSUME MaxWritesAssumption == MaxWrites \in Nat
ASSUME FiniteAssumption == IsFiniteSet(Ops) /\ IsFiniteSet(Conns)
ASSUME NullAssumption ==
  /\ NoOp \notin Ops
  /\ NoKey \notin Keys
  /\ NoPool \notin Pools
  /\ NoConn \notin Conns

VARIABLES
  present,  \* present[k]: the configuration store has the account
  version,  \* version[k]: how often the stored account was written
  settled,  \* settled[k]: history; the newest write whose DropPool returned
  mu,       \* holder of Manager.mu
  pools,    \* Manager.pools
  poolKey,  \* accountPool.poolKey
  poolVer,  \* accountPool.imapCfg: the account version it was copied from
  idle,     \* accountPool.idle, oldest first
  inUse,    \* accountPool.inUse
  closed,   \* accountPool.closed
  plock,    \* holder of accountPool.mu
  tenant,   \* tenant[c]: whose mailbox c is connected to; NoKey: not open
  login,    \* login[c]: version of the credentials c logged in with
  pc, key, ver,  \* the request's place, account key and account snapshot
  floor,    \* floor[o]: history; settled[key] when the request started
  pool,     \* the *accountPool the goroutine refers to
  from,     \* history; the pool the connection was acquired from
  conn      \* the *pooledConn the goroutine holds

storeVars == <<present, version, settled>>
poolVars  == <<poolKey, poolVer, idle, inUse, closed>>
connVars  == <<tenant, login>>
reqVars   == <<key, ver, floor>>
opVars    == <<pc, key, ver, floor, pool, from, conn>>
vars == <<present, version, settled, mu, pools, poolKey, poolVer, idle, inUse,
          closed, plock, tenant, login, pc, key, ver, floor, pool, from, conn>>

Labels == {"start", "lookup", "create", "acquire", "scan", "login", "held",
           "put", "drop", "close", "logout"}

TypeOK ==
  /\ present \in [Keys -> BOOLEAN]
  /\ version \in [Keys -> 0..MaxWrites]
  /\ settled \in [Keys -> 0..MaxWrites]
  /\ mu \in Ops \cup {NoOp}
  /\ pools \in [Keys -> Pools \cup {NoPool}]
  /\ poolKey \in [Pools -> Keys \cup {NoKey}]
  /\ poolVer \in [Pools -> 0..MaxWrites]
  /\ idle \in [Pools -> Seq(Conns)]
  /\ inUse \in [Pools -> Int]
  /\ closed \in [Pools -> BOOLEAN]
  /\ plock \in [Pools -> Ops \cup {NoOp}]
  /\ tenant \in [Conns -> Keys \cup {NoKey}]
  /\ login \in [Conns -> 0..MaxWrites]
  /\ pc \in [Ops -> Labels]
  /\ key \in [Ops -> Keys \cup {NoKey}]
  /\ ver \in [Ops -> 0..MaxWrites]
  /\ floor \in [Ops -> 0..MaxWrites]
  /\ pool \in [Ops -> Pools \cup {NoPool}]
  /\ from \in [Ops -> Pools \cup {NoPool}]
  /\ conn \in [Ops -> Conns \cup {NoConn}]

(***************************************************************************)
(* A process starts with no pools.  The configuration store outlives it,   *)
(* so an account may already be stored.                                    *)
(***************************************************************************)
Init ==
  /\ present \in [Keys -> BOOLEAN]
  /\ version = [k \in Keys |-> 0]
  /\ settled = [k \in Keys |-> 0]
  /\ mu = NoOp
  /\ pools = [k \in Keys |-> NoPool]
  /\ poolKey = [p \in Pools |-> NoKey]
  /\ poolVer = [p \in Pools |-> 0]
  /\ idle = [p \in Pools |-> <<>>]
  /\ inUse = [p \in Pools |-> 0]
  /\ closed = [p \in Pools |-> FALSE]
  /\ plock = [p \in Pools |-> NoOp]
  /\ tenant = [c \in Conns |-> NoKey]
  /\ login = [c \in Conns |-> 0]
  /\ pc = [o \in Ops |-> "start"]
  /\ key = [o \in Ops |-> NoKey]
  /\ ver = [o \in Ops |-> 0]
  /\ floor = [o \in Ops |-> 0]
  /\ pool = [o \in Ops |-> NoPool]
  /\ from = [o \in Ops |-> NoPool]
  /\ conn = [o \in Ops |-> NoConn]

-----------------------------------------------------------------------------
(* Steps of a goroutine *)

Goto(o, label) == pc' = [pc EXCEPT ![o] = label]

\* The handler returns; the goroutine's locals are gone.
Return(o) ==
  /\ Goto(o, "start")
  /\ key' = [key EXCEPT ![o] = NoKey]
  /\ ver' = [ver EXCEPT ![o] = 0]
  /\ floor' = [floor EXCEPT ![o] = 0]
  /\ pool' = [pool EXCEPT ![o] = NoPool]
  /\ from' = [from EXCEPT ![o] = NoPool]
  /\ conn' = [conn EXCEPT ![o] = NoConn]

Close(cs) ==
  /\ tenant' = [c \in Conns |-> IF c \in cs THEN NoKey ELSE tenant[c]]
  /\ login' = [c \in Conns |-> IF c \in cs THEN 0 ELSE login[c]]

Lock(p, o) == plock[p] = NoOp /\ plock' = [plock EXCEPT ![p] = o]
Unlock(p) == plock' = [plock EXCEPT ![p] = NoOp]

LastOf(s)  == s[Len(s)]
ButLast(s) == SubSeq(s, 1, Len(s) - 1)
\* Fault: no trim of the idle list.
NoExcess(s) == 0
Excess(s)  == IF Len(s) > MaxConns THEN Len(s) - MaxConns ELSE 0
Kept(s)    == SubSeq(s, Excess(s) + 1, Len(s))
Trimmed(s) == {s[i] : i \in 1..Excess(s)}

\* Fault: closeAll takes every connection of the account, those in use too.
TenantConns(p) == {c \in Conns : tenant[c] = poolKey[p]}
IdleConns(p) == Range(idle[p])

\* Pools nothing refers to: a new accountPool may take such an identity.
FreePools == {p \in Pools : /\ \A k \in Keys : pools[k] # p
                            /\ \A o \in Ops : pool[o] # p /\ from[o] # p}
FreeConns == {c \in Conns : tenant[c] = NoKey}

-----------------------------------------------------------------------------
(* Mail requests: getAccount, getOrCreatePool, acquire, commands, release *)

\* getAccount copies the stored account; from here on the request works with
\* this copy.
GetAccount(o, k) ==
  /\ pc[o] = "start"
  /\ present[k]
  /\ Goto(o, "lookup")
  /\ key' = [key EXCEPT ![o] = k]
  /\ ver' = [ver EXCEPT ![o] = version[k]]
  /\ floor' = [floor EXCEPT ![o] = settled[k]]
  /\ UNCHANGED <<storeVars, mu, pools, poolVars, plock, connVars, pool, from, conn>>

\* The account is not stored: an error, and nothing changes.
NotFound(o, k) == pc[o] = "start" /\ ~present[k] /\ UNCHANGED vars

\* Fault: the map is keyed by the account id alone.
FindAnyPool(o) ==
  /\ pc[o] = "lookup"
  /\ mu = NoOp
  /\ \E k \in Keys : pools[k] # NoPool /\ pool' = [pool EXCEPT ![o] = pools[k]]
  /\ Goto(o, "acquire")
  /\ UNCHANGED <<storeVars, mu, pools, poolVars, plock, connVars, reqVars, from, conn>>

\* getOrCreatePool, the pool exists.
FindPool(o) ==
  /\ pc[o] = "lookup"
  /\ mu = NoOp
  /\ pools[key[o]] # NoPool
  /\ pool' = [pool EXCEPT ![o] = pools[key[o]]]
  /\ Goto(o, "acquire")
  /\ UNCHANGED <<storeVars, mu, pools, poolVars, plock, connVars, reqVars, from, conn>>

\* getOrCreatePool, no pool: the host is resolved with Manager.mu held.
LockForCreate(o) ==
  /\ pc[o] = "lookup"
  /\ mu = NoOp
  /\ pools[key[o]] = NoPool
  /\ mu' = o
  /\ Goto(o, "create")
  /\ UNCHANGED <<storeVars, pools, poolVars, plock, connVars, reqVars, pool, from, conn>>

\* No password, a host that does not resolve or is not allowed, no TLS.
RejectAccount(o) ==
  /\ pc[o] = "create"
  /\ mu' = NoOp
  /\ Return(o)
  /\ UNCHANGED <<storeVars, pools, poolVars, plock, connVars>>

CreatePool(o, p) ==
  /\ pc[o] = "create"
  /\ p \in FreePools
  /\ poolKey' = [poolKey EXCEPT ![p] = key[o]]
  /\ poolVer' = [poolVer EXCEPT ![p] = ver[o]]
  /\ idle' = [idle EXCEPT ![p] = <<>>]
  /\ inUse' = [inUse EXCEPT ![p] = 0]
  /\ closed' = [closed EXCEPT ![p] = FALSE]
  /\ pools' = [pools EXCEPT ![key[o]] = p]
  /\ pool' = [pool EXCEPT ![o] = p]
  /\ mu' = NoOp
  /\ Goto(o, "acquire")
  /\ UNCHANGED <<storeVars, plock, connVars, reqVars, from, conn>>

\* acquire on a pool dropped since it was looked up.
AcquireClosed(o) ==
  /\ pc[o] = "acquire"
  /\ plock[pool[o]] = NoOp
  /\ closed[pool[o]]
  /\ Return(o)
  /\ UNCHANGED <<storeVars, mu, pools, poolVars, plock, connVars>>

LockPool(o) ==
  /\ pc[o] = "acquire"
  /\ ~closed[pool[o]]
  /\ Lock(pool[o], o)
  /\ Goto(o, "scan")
  /\ UNCHANGED <<storeVars, mu, pools, poolVars, connVars, reqVars, pool, from, conn>>

\* Fault: the connection stays in the list.
PeekIdle(p) == UNCHANGED idle
PopIdle(p) == idle' = [idle EXCEPT ![p] = ButLast(@)]

\* The newest idle connection is past the idle timeout or fails its NOOP.
DiscardIdle(o) ==
  LET p == pool[o] IN
  /\ pc[o] = "scan"
  /\ idle[p] # <<>>
  /\ PopIdle(p)
  /\ Close({LastOf(idle[p])})
  /\ UNCHANGED <<storeVars, mu, pools, poolKey, poolVer, inUse, closed, plock, opVars>>

ReuseIdle(o) ==
  LET p == pool[o] IN
  /\ pc[o] = "scan"
  /\ idle[p] # <<>>
  /\ PopIdle(p)
  /\ inUse' = [inUse EXCEPT ![p] = @ + 1]
  /\ conn' = [conn EXCEPT ![o] = LastOf(idle[p])]
  /\ from' = [from EXCEPT ![o] = p]
  /\ Unlock(p)
  /\ Goto(o, "held")
  /\ UNCHANGED <<storeVars, mu, pools, poolKey, poolVer, closed, connVars, reqVars, pool>>

\* Fault: the early return keeps the mutex.
LimitReachedLocked(o) ==
  /\ pc[o] = "scan"
  /\ idle[pool[o]] = <<>>
  /\ inUse[pool[o]] >= MaxConns
  /\ Return(o)
  /\ UNCHANGED <<storeVars, mu, pools, poolVars, plock, connVars>>

LimitReached(o) ==
  LET p == pool[o] IN
  /\ pc[o] = "scan"
  /\ idle[p] = <<>>
  /\ inUse[p] >= MaxConns
  /\ Unlock(p)
  /\ Return(o)
  /\ UNCHANGED <<storeVars, mu, pools, poolVars, connVars>>

\* Fault: the limit is off by one.
MayDialOneMore(p) == idle[p] = <<>> /\ inUse[p] <= MaxConns
MayDial(p) == idle[p] = <<>> /\ inUse[p] < MaxConns

\* dialAndLogin: the host is refused or the dial fails ...
DialFails(o) ==
  /\ pc[o] = "scan"
  /\ MayDial(pool[o])
  /\ Unlock(pool[o])
  /\ Return(o)
  /\ UNCHANGED <<storeVars, mu, pools, poolVars, connVars>>

\* ... or the server accepts, with the credentials the pool was created with.
Dial(o, c) ==
  LET p == pool[o] IN
  /\ pc[o] = "scan"
  /\ MayDial(p)
  /\ c \in FreeConns
  /\ tenant' = [tenant EXCEPT ![c] = poolKey[p]]
  /\ login' = [login EXCEPT ![c] = poolVer[p]]
  /\ conn' = [conn EXCEPT ![o] = c]
  /\ Goto(o, "login")
  /\ UNCHANGED <<storeVars, mu, pools, poolVars, plock, reqVars, pool, from>>

\* Fault: the slot is taken before the login and not given back.
LoginFailsCounted(o) ==
  /\ pc[o] = "login"
  /\ inUse' = [inUse EXCEPT ![pool[o]] = @ + 1]
  /\ Close({conn[o]})
  /\ Unlock(pool[o])
  /\ Return(o)
  /\ UNCHANGED <<storeVars, mu, pools, poolKey, poolVer, idle, closed>>

\* Fault: the login error is lost and acquire hands out a nil connection.
LoginErrorLost(o) ==
  LET p == pool[o] IN
  /\ pc[o] = "login"
  /\ inUse' = [inUse EXCEPT ![p] = @ + 1]
  /\ from' = [from EXCEPT ![o] = p]
  /\ Close({conn[o]})
  /\ conn' = [conn EXCEPT ![o] = NoConn]
  /\ Unlock(p)
  /\ Goto(o, "held")
  /\ UNCHANGED <<storeVars, mu, pools, poolKey, poolVer, idle, closed, reqVars, pool>>

LoginFails(o) ==
  /\ pc[o] = "login"
  /\ Close({conn[o]})
  /\ Unlock(pool[o])
  /\ Return(o)
  /\ UNCHANGED <<storeVars, mu, pools, poolVars>>

LoginOk(o) ==
  LET p == pool[o] IN
  /\ pc[o] = "login"
  /\ inUse' = [inUse EXCEPT ![p] = @ + 1]
  /\ from' = [from EXCEPT ![o] = p]
  /\ Unlock(p)
  /\ Goto(o, "held")
  /\ UNCHANGED <<storeVars, mu, pools, poolKey, poolVer, idle, closed, connVars,
                 reqVars, pool, conn>>

\* The commands are done.  Release finds the pool by key, not the pool the
\* connection came from; without one it closes the connection.
ReleaseNoPool(o) ==
  /\ pc[o] = "held"
  /\ mu = NoOp
  /\ pools[key[o]] = NoPool
  /\ Close({conn[o]})
  /\ Return(o)
  /\ UNCHANGED <<storeVars, mu, pools, poolVars, plock>>

ReleaseFind(o) ==
  /\ pc[o] = "held"
  /\ mu = NoOp
  /\ pools[key[o]] # NoPool
  /\ pool' = [pool EXCEPT ![o] = pools[key[o]]]
  /\ Goto(o, "put")
  /\ UNCHANGED <<storeVars, mu, pools, poolVars, plock, connVars, reqVars, from, conn>>

\* Fault: release does not look at closed.
ParksAnyway(p, hadError) == ~hadError
Parks(p, hadError) == ~hadError /\ ~closed[p]

\* accountPool.release: a command failed (hadError) or the pool was closed.
ReleaseClose(o, hadError) ==
  LET p == pool[o] IN
  /\ pc[o] = "put"
  /\ plock[p] = NoOp
  /\ ~Parks(p, hadError)
  /\ inUse' = [inUse EXCEPT ![p] = @ - 1]
  /\ Close({conn[o]})
  /\ Return(o)
  /\ UNCHANGED <<storeVars, mu, pools, poolKey, poolVer, idle, closed, plock>>

\* accountPool.release: back to idle, then the oldest above maxConns go.
ReleaseIdle(o) ==
  LET p == pool[o]
      s == Append(idle[p], conn[o])
  IN
  /\ pc[o] = "put"
  /\ plock[p] = NoOp
  /\ Parks(p, FALSE)
  /\ inUse' = [inUse EXCEPT ![p] = @ - 1]
  /\ idle' = [idle EXCEPT ![p] = Kept(s)]
  /\ Close(Trimmed(s))
  /\ Return(o)
  /\ UNCHANGED <<storeVars, mu, pools, poolKey, poolVer, closed, plock>>

-----------------------------------------------------------------------------
(* Account writes: the store first, then DropPool *)

Write(o, k) ==
  /\ pc[o] = "start"
  /\ version[k] < MaxWrites
  /\ version' = [version EXCEPT ![k] = @ + 1]
  /\ key' = [key EXCEPT ![o] = k]
  /\ ver' = [ver EXCEPT ![o] = version[k] + 1]
  /\ Goto(o, "drop")
  /\ UNCHANGED <<settled, mu, pools, poolVars, plock, connVars, floor, pool, from, conn>>

\* addEmailAccount, handleCreateAccount, handleUpdateAccount.
SaveAccount(o, k) == Write(o, k) /\ present' = [present EXCEPT ![k] = TRUE]

\* removeEmailAccount, handleDeleteAccount.
RemoveAccount(o, k) ==
  /\ present[k]
  /\ Write(o, k)
  /\ present' = [present EXCEPT ![k] = FALSE]

Settle(o) ==
  /\ settled' = [settled EXCEPT ![key[o]] = IF @ < ver[o] THEN ver[o] ELSE @]
  /\ UNCHANGED <<present, version>>

DropMissing(o) ==
  /\ pc[o] = "drop"
  /\ mu = NoOp
  /\ pools[key[o]] = NoPool
  /\ Settle(o)
  /\ Return(o)
  /\ UNCHANGED <<mu, pools, poolVars, plock, connVars>>

DropFromMap(o) ==
  /\ pc[o] = "drop"
  /\ mu = NoOp
  /\ pools[key[o]] # NoPool
  /\ pools' = [pools EXCEPT ![key[o]] = NoPool]
  /\ pool' = [pool EXCEPT ![o] = pools[key[o]]]
  /\ Goto(o, "close")
  /\ UNCHANGED <<storeVars, mu, poolVars, plock, connVars, reqVars, from, conn>>

\* closeAll marks the pool closed, then logs out of every idle connection
\* with the pool's mutex held.
MarkClosed(o) ==
  /\ pc[o] = "close"
  /\ Lock(pool[o], o)
  /\ closed' = [closed EXCEPT ![pool[o]] = TRUE]
  /\ Goto(o, "logout")
  /\ UNCHANGED <<storeVars, mu, pools, poolKey, poolVer, idle, inUse, connVars,
                 reqVars, pool, from, conn>>

CloseIdle(o) ==
  LET p == pool[o] IN
  /\ pc[o] = "logout"
  /\ Close(IdleConns(p))
  /\ idle' = [idle EXCEPT ![p] = <<>>]
  /\ Unlock(p)
  /\ Settle(o)
  /\ Return(o)
  /\ UNCHANGED <<mu, pools, poolKey, poolVer, inUse, closed>>

-----------------------------------------------------------------------------
Acquire(o) ==
  \/ FindPool(o) \/ LockForCreate(o) \/ RejectAccount(o)
  \/ \E p \in Pools : CreatePool(o, p)
  \/ AcquireClosed(o) \/ LockPool(o)
  \/ DiscardIdle(o) \/ ReuseIdle(o) \/ LimitReached(o) \/ DialFails(o)
  \/ \E c \in Conns : Dial(o, c)
  \/ LoginFails(o) \/ LoginOk(o)

Release(o) ==
  \/ ReleaseNoPool(o) \/ ReleaseFind(o)
  \/ \E hadError \in BOOLEAN : ReleaseClose(o, hadError)
  \/ ReleaseIdle(o)

DropPool(o) == DropMissing(o) \/ DropFromMap(o) \/ MarkClosed(o) \/ CloseIdle(o)

Arrive(o) == \E k \in Keys :
  GetAccount(o, k) \/ NotFound(o, k) \/ SaveAccount(o, k) \/ RemoveAccount(o, k)

Next == \E o \in Ops : Arrive(o) \/ Acquire(o) \/ Release(o) \/ DropPool(o)

Spec == Init /\ [][Next]_vars

(***************************************************************************)
(* Requests need not arrive, but one in progress keeps running: the Go     *)
(* scheduler runs every runnable goroutine, a mutex in starvation mode is  *)
(* handed to the longest waiter (so a waiter that finds it free again and  *)
(* again gets it: strong fairness), and every network call returns, with a *)
(* result or an error.  The last is an assumption on the mail servers: the *)
(* code sets no deadline on them.                                          *)
(***************************************************************************)
Waits(o) ==
  \/ FindPool(o) \/ LockForCreate(o) \/ AcquireClosed(o) \/ LockPool(o)
  \/ ReleaseNoPool(o) \/ ReleaseFind(o)
  \/ \E hadError \in BOOLEAN : ReleaseClose(o, hadError)
  \/ ReleaseIdle(o) \/ DropMissing(o) \/ DropFromMap(o) \/ MarkClosed(o)

Fairness == \A o \in Ops :
  /\ WF_vars(Acquire(o) \/ Release(o) \/ DropPool(o))
  /\ SF_vars(Waits(o))

FairSpec == Spec /\ Fairness

-----------------------------------------------------------------------------
(* Properties *)

Parked(c) == UNION {{p} \X {i \in DOMAIN idle[p] : idle[p][i] = c} : p \in Pools}
Holders(c) == {o \in Ops : conn[o] = c}

(***************************************************************************)
(* An open connection is in exactly one place, one request's hands or one  *)
(* slot of one idle list, and a closed one is in none.  So no two requests *)
(* ever talk on one connection, none is leaked by any error path, and none *)
(* is reused after it was closed.                                          *)
(***************************************************************************)
OnePlace == \A c \in Conns :
  Cardinality(Holders(c)) + Cardinality(Parked(c)) = IF tenant[c] = NoKey THEN 0 ELSE 1

(***************************************************************************)
(* A request only ever holds a connection logged in for its own account,   *)
(* also when the pool it was looked up in was dropped, re-created or       *)
(* recycled meanwhile (PoolKey, pool.go:53).                               *)
(***************************************************************************)
TenantIsolation == \A o \in Ops : conn[o] # NoConn => tenant[conn[o]] = key[o]

(***************************************************************************)
(* No connection is stranded: idle connections are in a pool that the map  *)
(* still holds or that a DropPool in progress is about to close, whatever  *)
(* releases arrive between the removal from the map and closeAll.          *)
(***************************************************************************)
NoStrandedConns == \A p \in Pools : idle[p] # <<>> =>
  \/ \E k \in Keys : pools[k] = p
  \/ \E o \in Ops : pc[o] \in {"close", "logout"} /\ pool[o] = p

(***************************************************************************)
(* The pool in the map never counts a connection nobody holds, so "limit   *)
(* reached" is never reported for slots lost on some error path.           *)
(***************************************************************************)
InUseBy(p) == {o \in Ops : from[o] = p}
NoLostSlots == \A k \in Keys : pools[k] # NoPool =>
  inUse[pools[k]] <= Cardinality(InUseBy(pools[k]))

\* A pool never keeps more idle connections than maxConns.
IdleBounded == \A p \in Pools : Len(idle[p]) <= MaxConns

(***************************************************************************)
(* The documented limit, as far as the code keeps it: until the first      *)
(* write to an account (hence the first DropPool) its open connections,    *)
(* idle, in use and being dialled, are at most maxConns.                   *)
(***************************************************************************)
OpenFor(k) == {c \in Conns : tenant[c] = k}
LimitBeforeDrop == \A k \in Keys :
  version[k] = 0 => Cardinality(OpenFor(k)) <= MaxConns

(***************************************************************************)
(* A connection in a request's hands is closed by that request only: a     *)
(* DropPool, a trim or another acquire never closes it under the request.  *)
(***************************************************************************)
InFlightUntouched == [][\A o \in Ops :
  conn[o] # NoConn /\ conn'[o] = conn[o] => tenant'[conn[o]] = tenant[conn[o]]]_vars

-----------------------------------------------------------------------------
(***************************************************************************)
(* The inductive invariant.  None of the properties above is inductive:    *)
(* that a release cannot strand a connection, for example, rests on who    *)
(* holds which mutex and on a pool being closed only after it left the map.*)
(***************************************************************************)
\* A mutex is held exactly by the goroutine inside its critical section.
LockInv ==
  /\ \A o \in Ops : mu = o <=> pc[o] = "create"
  /\ \A o \in Ops : pc[o] = "create" => pools[key[o]] = NoPool
  /\ \A o \in Ops, p \in Pools :
       plock[p] = o <=> pc[o] \in {"scan", "login", "logout"} /\ pool[o] = p

\* What a goroutine refers to at each place.
RequestInv == \A o \in Ops :
  /\ key[o] = NoKey <=> pc[o] = "start"
  /\ pool[o] # NoPool <=>
       pc[o] \in {"acquire", "scan", "login", "held", "put", "close", "logout"}
  /\ conn[o] # NoConn <=> pc[o] \in {"login", "held", "put"}
  /\ from[o] # NoPool <=> pc[o] \in {"held", "put"}
  /\ pool[o] # NoPool => poolKey[pool[o]] = key[o]
  /\ from[o] # NoPool => poolKey[from[o]] = key[o]
  /\ pc[o] \in {"drop", "close", "logout"} => version[key[o]] > 0

\* A pool in the map is open; the pool a DropPool closes has left the map, and
\* one that was closed, or never was in the map, is empty or being emptied.
PoolInv ==
  /\ \A k \in Keys : pools[k] # NoPool => poolKey[pools[k]] = k /\ ~closed[pools[k]]
  /\ \A o \in Ops :
       /\ pc[o] \in {"scan", "login"} => ~closed[pool[o]]
       /\ pc[o] \in {"close", "logout"} => pools[key[o]] # pool[o]
       /\ pc[o] = "logout" => closed[pool[o]]
  /\ \A p \in Pools :
       /\ idle[p] # <<>> => poolKey[p] # NoKey
       /\ closed[p] /\ idle[p] # <<>> => plock[p] # NoOp /\ pc[plock[p]] = "logout"

\* An open pool is in the map, or a DropPool is about to close it.
Reachable(p) == \/ pools[poolKey[p]] = p
                \/ \E o \in Ops : pc[o] = "close" /\ pool[o] = p
DropInv == \A p \in Pools : poolKey[p] # NoKey /\ ~closed[p] => Reachable(p)

\* Nobody shares a connection: requests with each other, pools with each
\* other, a pool with a request; and an idle list has no duplicates.
HeldInv ==
  /\ TenantIsolation
  /\ \A o1, o2 \in Ops : conn[o1] = conn[o2] /\ conn[o1] # NoConn => o1 = o2
IdleInv ==
  /\ \A p \in Pools : IsInjective(idle[p])
  /\ \A p \in Pools : \A c \in IdleConns(p) : tenant[c] = poolKey[p]
  /\ \A p, q \in Pools : \A c \in IdleConns(p) : c \in IdleConns(q) => p = q
  /\ \A p \in Pools, o \in Ops : conn[o] \notin IdleConns(p)
NoLeakInv == \A c \in Conns : tenant[c] # NoKey =>
  \/ \E o \in Ops : conn[o] = c
  \/ \E p \in Pools : c \in IdleConns(p)

\* A goroutine that logs in found nothing idle and a slot; one that puts a
\* connection back into the pool of the map puts it where it came from, or it
\* came from a pool that left the map.
SlotInv == \A o \in Ops :
  /\ pc[o] = "login" => idle[pool[o]] = <<>> /\ inUse[pool[o]] < MaxConns
  /\ pc[o] = "put" /\ pools[key[o]] = from[o] => pool[o] = from[o]

\* Before the first write the accounting is exact.
SteadyInv == \A p \in Pools :
  poolKey[p] # NoKey /\ version[poolKey[p]] = 0 =>
    /\ pools[poolKey[p]] = p
    /\ inUse[p] = Cardinality(InUseBy(p))
    /\ Len(idle[p]) + inUse[p] <= MaxConns

ControlInv == LockInv /\ RequestInv /\ PoolInv /\ DropInv
OwnershipInv == HeldInv /\ IdleInv /\ NoLeakInv
AccountingInv == IdleBounded /\ SlotInv /\ NoLostSlots /\ SteadyInv
IInv == TypeOK /\ ControlInv /\ OwnershipInv /\ AccountingInv

\* The manager implements leases: who holds what, for whom.
HolderOf(c) == IF Holders(c) = {} THEN NoOp ELSE CHOOSE o \in Ops : conn[o] = c
Lease == INSTANCE ConnLease WITH holder <- [c \in Conns |-> HolderOf(c)]
ImplementsLease == Lease!LeaseSpec

(***************************************************************************)
(* Every request ends: no order of the mutexes and no queue of waiters     *)
(* keeps a mail request, a save or a removal from returning.               *)
(***************************************************************************)
RequestsEnd == \A o \in Ops : pc[o] # "start" ~> pc[o] = "start"

(***************************************************************************)
(* "Max connections per account" (emailmcp/README.md:151): the connections *)
(* acquired from the pool in the map and not yet released.  A connection   *)
(* of a dropped pool is released into the pool that replaced it, whose     *)
(* inUse goes down for a connection it never counted.                      *)
(***************************************************************************)
PoolLimit == \A k \in Keys : pools[k] # NoPool =>
  Cardinality(InUseBy(pools[k])) <= MaxConns

(***************************************************************************)
(* "Drop any existing pool so credential/host changes take effect          *)
(* immediately" (server.go:539): a request that starts after the DropPool  *)
(* of a save has returned does not use the credentials from before it.     *)
(***************************************************************************)
ChangesTakeEffect == \A o \in Ops : pc[o] = "held" => login[conn[o]] >= floor[o]
=============================================================================
