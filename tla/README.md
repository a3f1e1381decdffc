# A formal model of the email MCP server

TLA+ modules, TLC configurations and TLAPS proofs for the Go service under
`src/emailmcp`: an MCP server that gives a language model access to a user's
IMAP and SMTP accounts, with its own OAuth 2.1 authorization server in front of
Google sign-in, a session store, a store of mail accounts, a pool of IMAP
connections per account, and a REST API for a web portal. All source paths below
are relative to `src/emailmcp` unless they start with `src/`.

## 1. Inventory

| Component | Source | State | Operations |
|---|---|---|---|
| IMAP connection manager | `internal/imap/pool.go` | `Manager.pools` under `Manager.mu`; per pool `idle`, `inUse`, `closed` under its own mutex; open connections | `Acquire`, `Release`, `DropPool` (`CloseAll` has no caller) |
| Mail and account tools | `internal/server/server.go` | none of its own | mail tools (read account, acquire, work, release), `add_email_account`, `remove_email_account`, list |
| OAuth authorization server | `internal/server/oauth.go`, `google.go` | `pending` attempts, `codes`, `cleanupAt`, under one mutex, in one process | register, authorize, callback, token (code, refresh) |
| Session store | `internal/server/store.go` | sessions by access token, by refresh token (memory map, or DynamoDB table and global secondary index), clients | put, get by either token, delete |
| Bearer authentication | `internal/server/auth.go` | none | accept or refuse a token |
| Portal REST API | `internal/server/web.go` | none | web sign-in and callback, logout, create/update/delete/verify account |
| Account configuration store | `internal/config/store.go` | one item per (owner, account id), memory or DynamoDB | get, list, put, delete |
| Connection verification | `internal/server/verify.go` | goroutines racing a deadline | verify IMAP, verify SMTP |
| SMTP sender | `internal/smtp/sender.go` | a goroutine racing a deadline | send |
| Search ordering | `internal/imap/sort.go` | none (pure) | sort, reverse, limit |
| Host and TLS policy | `internal/netutil/host.go` | none (pure, and DNS) | refuse hosts |
| Configuration, start, shutdown | `internal/config/config.go`, `cmd/emailmcp/main.go`, `New` in `internal/server/server.go` | the table names found, which stores are tables; requests in flight | load, look up in SSM, make the stores, serve, shut down |
| Routing and logging | `internal/server/server.go` | none | routes |
| Portal user interface | `src/web` | browser | calls of the REST API |
| Deployment | `src/cdk` | none | tables, service |

How they interact. A mail tool authenticates its bearer token against the
session store, reads the account from the configuration store, takes a
connection from the manager, uses it and gives it back. A save or a removal of
an account, from a tool or from the portal, writes the configuration store and
then calls `DropPool`. What a request does with its connection, a SELECT and one
command, is done on a connection that other requests used before. A sign-in passes from the authorization server through
Google to the session store; a refresh reads the session store, may call Google
and writes the session store twice. Several replicas share the two tables and
nothing else: pools, pending attempts and codes are per process.

What is hard in it, and what makes each part correct:

* **Pool**: two levels of mutexes, network calls under them, a pool that is
  found by key again at release time, and a `DropPool` in two critical
  sections. A connection must be in one place, belong to its user, never be
  stranded or closed under a request; slots must not be lost; requests must end.
* **Sign-in**: callbacks and token requests are repeated, late, or sent to the
  wrong replica, and the code waits for Google between taking an entry and
  storing what follows. An attempt must end in one session at most, in time, and
  with the proof key of whoever opened it, wherever the code asks for one.
* **Redirects**: a registered client is kept longer than the process that
  accepted it and its allowlist, and may be kept longer than its own lifetime. A
  code must go only where a registration would be accepted now, and only to a
  loopback address or to one its client registered recently.
* **Sessions**: refreshes race each other, logouts, expiry and an eventually
  consistent index, and each of their calls can fail. A sign-in that is still
  due must survive, one that is not must not be prolonged, one that is over must
  stay over.
* **Accounts**: read, change and put with nothing that holds the three together.
  No stored account may mix two requests; nobody's credentials may be lost or
  go stale without a conflicting write. A list over pages and lagging replicas
  must have what was there all the while, once.
* **Commands**: a message is named by folder and UID, a command by UID alone; the
  folder is whatever was selected on the connection. A command must act on the
  folder its request names, and a connection on which something failed must not be
  parked.
* **Processes**: a table name that is not found turns a store into a map, silently.
  What was saved where a table is found must be found by every process that serves
  later, unless its own look at SSM failed; a process that is told to stop must
  first answer what it serves.
* **Deadlines**: a caller stops waiting while its goroutine goes on, and the
  clock, the connection's own deadline, its `AfterFunc` and the server's reply
  arrive in any order. A success must not be late, and nothing may be left open.
* **Search**: the limit is applied before the fetch or after the sort, the fetch
  answers in any order, and messages go away in between.

`PROJECT.json` lists every hazard with its line and the properties about it.

## 2. Modules

| Module | Models | Extended or instantiated by |
|---|---|---|
| `ImapPool` | the connection manager and the requests around it | `MCImapPool`, `ImapPoolProofs` |
| `ConnLease` | abstract: who holds which connection, for whom | `ImapPool` (refinement) |
| `MailCommands` | folders and commands on pooled connections | `MCMailWork`, `MailCommandsProofs` |
| `OAuthFlow` | attempts, callbacks, codes, over replicas and restarts | `MCOAuthFlow`, `OAuthFlowProofs` |
| `OneTimeGrant` | abstract: an attempt ends once, in at most one session | `OAuthFlow` (refinement) |
| `ClientRegistry` | registered clients and where codes may be sent | `MCOAuthFlow`, `OAuthFlowProofs` |
| `OAuthSessions` | session store, refresh, logout, bearer check | `MCOAuthSessions`, `OAuthSessionsProofs` |
| `AccountConfig` | the requests that save an account, over both stores | `MCAccountConfig`, `AccountConfigProofs` |
| `AccountRegister` | abstract: a save is one request applied to one version | `AccountConfig` (refinement) |
| `AccountListing` | the list of a user's accounts | `MCAccountConfig`, `OrderingProofs` |
| `Deadlines` | verification of an account, sending of a mail | `MCMailWork`, `DeadlinesProofs` |
| `SearchOrder` | one search: sort, limit, fetch | `MCMailWork`, `OrderingProofs` |
| `ServerLife` | processes: configuration, start, crash, shutdown | `MCServing`, `ServerLifeProofs` |

The `MC*` modules hold symmetry sets. `MCMailWork`, `MCOAuthFlow`,
`MCAccountConfig` and `MCServing` put modules without common state into one run:
the variable `shown` is chosen at the start and says which of them moves, so each
behaviour shows one module and the others rest in one initial state. Nothing is
lost by this, as neither reads what the other writes. Operators marked "Fault"
are plausible bugs in the code; nothing in a specification uses them, they show
that a property can fail (`PROJECT.json`, "mutants").

### ImapPool

`Ops` are goroutines, each with a place `pc`. `mu` is `Manager.mu`, `plock[p]`
the mutex of pool `p`; `pools`, `idle`, `inUse`, `closed` are the fields of the
same names; `tenant[c]` and `login[c]` say whose mailbox a connection is
connected to and with which version of the credentials. A step is the code
between two points where another goroutine could see a difference, so every
network wait under a mutex lies between two steps. `GetAccount`, `FindPool`,
`CreatePool`, `PopIdle`/`DiscardIdle`/`ReuseIdle`, `LimitReached`, `Dial`,
`LoginOk`/`LoginFails` are `Acquire`; `ReleaseNoPool`, `ReleaseClose`,
`ReleaseIdle` are `Release`; `DropFromMap`, `MarkClosed`, `CloseIdle` are
`DropPool`. Host checks, dials, NOOPs and logins are an arbitrary success or
failure. The stored account is a version number, so that a stale copy shows.

### MailCommands

`MailOps` are mail requests of one account: `list` (`ListFolders`), `read`
(`SearchEmails`, `GetEmail`) and `change` (`MoveEmails`, `FlagEmails`,
`DeleteEmails`). `selected[c]` is what the server has selected on connection `c`,
`lastSelected[c]` what the code noted, which only reads do. Requests go `acquire`,
`select`, `command`, `release`; `SelectFails` and `CommandFails` set `hadErr`,
which the deferred `Release` passes on, while `ListFails` releases by itself and
sets `released`. A failed SELECT leaves nothing selected, a failed command may
have acted. A SORT that fails and the SEARCH that takes its place are one command, which
succeeds if the SEARCH does and leaves `hadErr` false, as in the code
(`pool.go:555-567`). `suspect` (connections whose last command failed) and
`actedOn` are history. The pool is reduced to what of it matters here: `ReuseParked`, `DialNew`,
`CloseParked`; `ImapPool` has the rest.

### OAuthFlow

`pending[r]`, `codes[r]` and `cleanupAt[r]` are the maps of replica `r`. A
request that took an entry out of a map is a goroutine in `Ops` until it stored
what follows (`IssueCode`, `PutSession`, `GrantSession`) or was refused; it may
wait up to `MaxDelay`. Both callbacks serve attempts of either kind, as in the
code (`IsWebLogin`). Where a code is sent is in `ClientRegistry`; PKCE is kept as
whose verifier was presented (`Verified`), and the wording of errors is left out.
`session[s]` is history: by which of the three ways session `s` was granted
(`Paths`), and with whose verifier, which only the token endpoint asks for.

### ClientRegistry

An address stands for a redirect URI of one of the kinds `isAllowedRedirectURI`
tells apart; `allowlist` is the set of https addresses the configured entries
match, `enforced` says that there are entries. `clients[c]` is the record with its
time to live, which DynamoDB removes late (`TimeToLive`) and the memory map never;
`Known` is the check of `GetClient` and `handleAuthorize`. `Authorize` stores an
attempt. The callback is `TakeAttempt`, which takes it out of the map and checks
that it is in time (`oauth.go:400-409`), and then, after a wait for Google that has
no bound, `SendCode` or `ExchangeFails`; in between the attempt is in `exchanging`.
`Discard` is any other end of a pending attempt. `NewProcess` is a restart, with any allowlist and, without a table, no
clients. `sent` and `registered` are history; `taken` is when the callback took the
attempt, which is the last time the code looks at the clock.

### OAuthSessions

A grant stands for one sign-in and its refresh token, which stays the same. The
variable `backend`, chosen at the start, selects the memory map with its
`byRefresh` mapping, or the table `sessions` with its index `gsi` that `Propagate`
brings up to date item by item. `tokenRefresh` is `Lookup`, then `Mint` (Google and `PutSession`) or
`MintUnanswered` (stored, the answer lost) or `Abandon`, then `Rotate`
(`DeleteSession`, which may fail unnoticed) or `DeleteExpired`. `Restart` empties
the memory store.

### AccountConfig

One account, any number of requests. A request reads (`Add`, `AddReadFails`,
`Create`, which does not read, `Update`), holds the account it is about to put in
`draft`, and then either puts it in one critical section (`Put`, memory) or reads
the creation time (`Stamp`) and writes (`Write`, DynamoDB). `GiveUp` is a refused
host or a failed call. A `Write` whose answer is lost took effect like any other.
Hosts, ports, names and TLS switches are one value; the two passwords and the
creation time are kept. `Legacy` are the items of the Lambda this store replaced
(`config/store.go:24-30`), for which `toAccount` has its fallbacks. `since` and
`own` are history.

### AccountListing

`Sorted` is the order of the sort keys: the sequence of a set's accounts in
increasing order, of which there is one. `QueryPage` is one turn of the loop around
`Query`: the page may end after any account, each page may come from a replica
that misses any of the writes that still lag, and the loop goes on from
`startKey` until an answer has no `LastEvaluatedKey`. Puts and deletions happen
between the pages. `there` and `gone` are history: accounts stored everywhere, or
nowhere, all the while a list ran.

### Deadlines

A job is one check (`<<request, "imap">>` or `<<request, "smtp">>`) or one send.
`caller` is the goroutine that answers for it, `worker` the one it spawned
(`waitWithContext`, or the goroutine of `SendEmail`); `result` is what is in
`errCh` once the worker is at its end. `ctx` is `timeoutCtx` and `due` its
deadline, which are separate because the timer and the deadline of the connection
go off in either order; `guard` is the `AfterFunc`. An IMAP check dials in its
caller (`At`, `Goto`), an SMTP check in its worker, and a send's worker knows no
context at all (`MailDialled`). `ContextWins`, `ResultFails`, `GreetingIn` and
`ResultOk` are the two cases of the select, `Leave`, `CloseClient` and
`GraceEnds` the deferred calls. `CloseClient` closes the connection of
an IMAP check, and `GraceEnds` is either that the client has closed too or that the
grace of `closeIMAPClient` is over (`verify.go:314-322`); the goroutine that closes
the client, left behind in the second case, is not tracked. Servers answer, fail or stay silent.

### SearchOrder

`ServerSort` is the path with the SORT extension, `ClientSort` the one without it
or after it failed. The limit is at least one, as the tool replaces a smaller one
by 50 (`server.go:660-663`) and is the only caller; both paths apply the limit where the code does
(`LimitBeforeFetch`). `Fetch` takes the responses in any order and reorders or
sorts and cuts them. `value[u]` is what the key compares, so that the kinds of
keys are two: arrival, for which the UID stands in, and the others. A sort is
modelled by what it returns: `Arranged` is the sequence of a set's elements that
is sorted by a relation, which is unique because the relations used decide any
two elements: the order of UIDs, and `StablyBefore`, by which `sort.SliceStable`
orders positions (the key, then the position). `Picked` is a selection that keeps
the order, which is what `orderSummariesByUIDs` makes of the fetched messages.

### ServerLife

`named`, `inSSM`, `region` and `complete` are the deployment, equal for all
replicas; `life[p]` is how far `main` is: `loaded` (after `Load`), `resolved`
(after `FetchRemoteDefaults`), `ready` (after `New`), `serving`. `table[p]` are the
stores whose table name `p` found; a store without one is a map, `inMemory[p]`.
Each lookup in SSM may fail by itself, is logged and leaves the name empty;
`unsure[p]` remembers for which stores that happened to the process `p` that is
running now, and `saved` what was saved by processes to which it did not. `Signal` is the goroutine that calls
`Shutdown`, `Stop` the return of `main`, which waits for `ListenAndServe` only.
Requests are a number, and a `Save` stands for any of them that stores something.
The transports are http and stdio; the code serves any other name like http, without
the settings that http needs and without OAuth, which is left out.

## 3. Runs

Each run checks what its name says; bounds are the constants of its `.cfg`.
Symmetry is used only where no liveness is checked.

| Run | Instance | Shows |
|---|---|---|
| `pool_contention` | 1 account, 3 goroutines, 3 pools, 2 connections, limit 1, 2 writes | one place per connection, nothing stranded, no lost slot, idle bound, limit before the first drop, nothing closed under a request, and the inductive invariant |
| `pool_tenants` | 2 accounts, 2 goroutines, 4 pools, 3 connections, limit 2, 1 write each | isolation of accounts; refinement of `ConnLease` |
| `pool_liveness` | 1 account, 2 goroutines, 2 pools; or 2 replicas with 1 request each, 2 stores; fairness | every request ends; what one process saves where a table is found, every process finds whose own look-ups succeeded, and the inductive invariant of the processes |
| `pool_limit` (violation) | as contention, 3 connections | the documented limit is exceeded after a drop |
| `pool_changes` (violation) | 2 goroutines, 1 write | a saved change does not always take effect |
| `oauth_flow` | 2 attempts, 2 codes, 2 replicas, 2 goroutines, 1 client and the portal, 6 units of time; or 1 client, an address of each kind, 1 attempt at a time, 3 units | one-time use, proof of possession, lifetimes, bounded maps, no attempt and no code lost; refinement of `OneTimeGrant`; codes go only where they may; the inductive invariant of the flow |
| `sessions` | 3 tokens, 1 sign-in, 2 refreshes, 2 units, both stores, fairness of the index | sign-ins survive and stay over, lifetimes are bounded, deleted tokens stay dead, the inductive invariant; a client that keeps trying gets through |
| `sessions_rotation` (violation) | 3 tokens, 1 sign-in, 2 refreshes, 3 units, memory store | two concurrent refreshes leave two valid access tokens |
| `config_saves` | 2 requests, 1 setting, 2 passwords, 2 units, 3 writes, both stores; or 1 list of up to 3 accounts, both stores | refinement of `AccountRegister`; undisturbed saves keep what they do not set; the inductive invariant; lists are complete and without repetition |
| `config_smtp` (violation) | 2 settings, otherwise the same | an SMTP password left blank does not stay the IMAP password |
| `mail_work` | one verification, or one send, or one search of 3 messages with 2 values of the key and limit 1 or 2, or 2 mail requests with 2 connections and 2 folders; fairness | a success is never late, only a timeout leaves a worker or a connection behind, verifications settle; search results are in order and the first ones; commands act on the folder named, and parked connections can be used; the inductive invariant of the checks |
| `server_shutdown` (violation) | 1 process, 2 requests | main returns with requests in flight |

Why the bounds are enough. Three goroutines are a holder, a `DropPool` and a
newcomer: the shortest run that moves a connection into a pool that never counted
it needs these three and two pools of one key. Pools and connections are reused
once nothing refers to them, so their numbers bound only how many exist at once.
The writes and the clock bound every run. In `OAuthFlow` a lifetime of 2, a code
lifetime of 1 and a clock of 6 let an attempt expire, be cleaned up and be
followed by another; in `ClientRegistry` both lifetimes are 1, and a clock of 3
passes the end of an attempt begun at the end of a registration. An id is issued
once, so one client shows registered, expired and unknown ones. In `OAuthSessions`
the clock passes the expiry of the refresh token, and there is a token for the
sign-in and one for each refresh. In `AccountConfig` three writes are one to
create the account and two that overlap; with a single setting lost settings
cannot show, but the passwords, which the code treats alike, can, and the proofs
cover all settings. In `AccountListing` three accounts are one before, one at and
one after the end of a page. Two replicas of a server are one that saves and one
that should find it, or one before and after its restart. `MCServing` leaves out
deployments that differ from those it keeps only in which store's table is found
how (`Deployments`): both names in SSM, the sessions' in the environment and the
accounts' in SSM, and memory alone, where also the transport and the settings
vary; the proof covers all of them. In `MailCommands` the requests of the run
share a connection or have one each, and every order of two folders on it occurs.
In `mail_work` jobs share nothing, so one at a time shows all there is; three
messages are the fewest with a limit in the middle and one that goes away, two
values give both ties and differences.

Deadlock is not checked in `config_saves`, `config_smtp` and `mail_work`: without
requests the server rests, a job or a search ends, and the bounded number of
writes lets the models rest too.

Fairness. `pool_liveness` assumes that a goroutine that can run does run (weak
fairness), that a mutex is handed to a goroutine that finds it free again and
again (strong fairness: Go's mutexes hand over to a waiter that starves for 1 ms),
and that every network call returns with a result or an error. The last is about
the mail servers: the pool sets no deadline on dial, NOOP, login or logout, all of
which run under the pool's mutex, so a server that never answers does block every
request of its account. `server_shutdown` assumes only that `main` goes on once
`ListenAndServe` returned. `sessions` assumes only that DynamoDB brings its index up to date.
`mail_work` assumes that clocks run, goroutines are scheduled, and a network call
returns once its context is over, its deadline has passed or its connection is
closed, as Go's `net` and `crypto/tls` do; nothing is assumed of DNS and of mail
servers, except that the host lookup of a send, which has no context
(`sender.go:52`), returns. Elsewhere no request is assumed to arrive, and no clock
to tick.

### What the violations say

* `pool_limit`: `README.md:151` documents a maximum of connections per account.
  `Release` looks the pool up by key, so a connection of a dropped pool is
  counted out of the pool that replaced it.
* `pool_changes`: `server.go:539` says that a change takes effect immediately. A
  mail request that read the account before the save re-creates the pool after it
  was dropped, with the old credentials, for all later requests. There is one
  other way, which `FreshUnderCare` (section 4) shows to be the only other one: a
  connection of the dropped pool is released after the pool was re-created, and
  `Release` parks it there.
* `sessions_rotation`: `src/security_review.md:67` says that access tokens rotate
  on refresh. Two refreshes of the same session that both look it up before either
  deletes it leave two valid ones. The run is of the memory store, where no call
  fails; with DynamoDB one refresh is enough, if the answer of its `PutSession` is
  lost or its `DeleteSession` fails unnoticed.
* `config_smtp`: the form and `types/account.go:32` say that an empty SMTP
  password means the IMAP password. A read fills in the IMAP password for an empty
  SMTP password (`config/store.go:159-161`), and the next update that leaves the
  password blank stores that copy, which goes stale when the IMAP password alone
  changes.
* `server_shutdown`: `main.go:77` says "Graceful shutdown" and gives requests ten
  seconds. `ListenAndServe` (`main.go:94`) returns as soon as `Shutdown` is
  called, nobody waits for the goroutine that called it, and `main` returns.

## 4. Proofs

TLAPS checks these for every value of the constants that their named assumptions
allow: finite sets of goroutines and connections, a limit of at least one,
lifetimes that are natural numbers, null values outside the sets. The bounds on
writes and clock are constants too, so no result depends on their size.

* `ImapPoolProofs`: `Invariance` (the inductive invariant `IInv`), and from it
  `TypeCorrect`, `Isolation`, `NothingStranded`, `SlotsKept`, `IdleLimit`,
  `InFlight`, `ExactlyOnePlace`, `LimitUntilDrop`, and `ImplementsTheLease`.
  None of the safety properties is inductive. That a release cannot strand a
  connection rests on who holds which mutex (`LockInv`), on what a goroutine
  refers to at each place (`RequestInv`), and on a pool being closed only after
  it left the map (`PoolInv`, `DropInv`); that a connection is in one place rests
  on disjoint idle lists (`IdleInv`, `HeldInv`, `NoLeakInv`). The proof goes
  conjunct by conjunct, with one step per action that can disturb it.
  `WaitersEndAtAHolder` adds that whoever waits for a mutex waits for a goroutine
  that is not waiting (`NoWaitChain`), so no number of requests, saves and pools
  deadlocks. `BoundedRequests` gives every request a measure, `Ahead`, of at most
  `MaxConns + 7`: each of its steps lowers it, the retries over stale idle
  connections included, because the idle list of a locked pool is only shortened,
  and no step of another goroutine raises it.
* Two theorems of `ImapPoolProofs` are about the two promises that the code breaks
  (`pool_changes`, `pool_limit`), and say what keeps them. They are about the
  behaviours of the model in which every step also meets a condition on that step.
  `FreshUnderCare`: if a pool is only created from the account as it is stored at
  that moment (`LoadsCurrent`), and a connection is only parked in the pool it came
  from (`ReturnsHome`), then `ChangesTakeEffect` holds. Both are needed: with
  either one alone TLC finds a violation. `LimitWhenReturned`: if a slot is only
  given back to the pool it was taken from (`SlotsReturn`), then `PoolLimit` holds
  for dropped and re-created pools too. The conditions exclude only the steps they
  name: with 3 goroutines, 2 pools, 2 connections, a limit of 1 and 2 writes, TLC
  reaches 106,616 states under the first and 147,427 under the second, saves, drops
  and re-created pools among them.
* `MailCommandsProofs`: `CommandsInductive` (`CommandsIInv`), `CommandsActOnNamed`
  and `ParkedReusable`. `HoldsInOrder` says of a request at each place what it
  holds and what is selected there; a connection is in use by one request only,
  so nothing another request selects can come between.
* `OAuthFlowProofs`: `FlowInductive` (`IInv`), and from it `FlowOneTime`,
  `FlowPossession`, `FlowInTime`, `FlowMapsBounded`, `FlowForgetsNothing` and
  `FlowImplementsGrant`. The invariant says where an attempt can be: pending in
  one replica, with one request, behind one code, or over. One-time use follows,
  as every step takes the attempt out of one place before the next has it; that
  the maps are bounded rests on `cleanupAt` and the clock. `FlowPossession` says
  that a session of the token endpoint was granted with the verifier of the client
  that opened the attempt, and that a session without any verifier came from the
  portal's own attempt or from a callback at `/auth/callback`, which the code lets
  end any attempt this way. `FlowForgetsNothing` says that within its lifetime a
  pending attempt leaves only with a callback that presents it, and a code only
  with a token request that presents it; a restart, which empties both maps, is
  excepted.
* `OAuthFlowProofs` also has the proofs about `ClientRegistry`, which shares no
  state with the flow: `RegistryInductive` (`RegistryIInv`) and
  `CodesSentWhereAllowed`. A record goes back to a registration and a pending
  attempt is allowed under the allowlist of its own process (`TryingAllowed`),
  because attempts do not survive the process. It stays allowed while it is with
  Google (`ExchangeAllowed`), however long that takes: the bound is on the time at
  which the callback took the attempt, as nothing bounds the time of the redirect.
* `OAuthSessionsProofs`: `SessionInvariance` (`IInv`), `SessionTypes`,
  `SignInsSurvive`, `LifetimesBounded`, `RevokedStays`, `SignInsStayOver`. A sign-in survives because
  a refresh that is about to delete a session knows that it is not the newest, or
  that the sign-in is past due (`RefreshInv`), and because table, index and
  mapping agree with the history of the sign-in (`StoreInv`, `NewestInv`).
* `AccountConfigProofs`: `ConfigInvariance` (`IInv`), `ConfigTypes`,
  `ConfigImplementsRegister` and `UndisturbedSavesKeep`. The invariant says of a
  request that waits to put which version its draft comes from; it is an existing
  one, current since the request's start, in every interleaving.
* `DeadlinesProofs`: `Invariance` (`IInv`), `TypeCorrect`, `SuccessInTime` and
  `NothingLeft`, for any number of verifications and sends. `Outcomes` ties what a
  caller may answer to what the server did and when, `Connections` says who still
  owns an open connection, `Places` which goroutine can be where. Each step is of
  one job (`Own`) and leaves the others alone (`Others`, `Frame`). `BoundedWork`:
  a job makes at most 20 steps, its caller's, worker's, deadline's, context's and
  `AfterFunc`'s together; each lowers its measure `Left` (`OwnLess`) and leaves that
  of other jobs as it was (`OthersLeft`), and a request is answered once.
* `OrderingProofs`: `ListingInductive` and `ListsOnce` of `AccountListing`;
  `SearchInductive` (`SearchIInv`), `AnswersInOrder`, `AnswersBest` and
  `AnswersFull` of `SearchOrder`, for any finite set of messages, any values and
  any order of the FETCH responses. A list is complete because what it gathered is
  all of what was there up to `startKey`, in order, whichever replicas answered. A
  search keeps the first messages because `uids` is, before the fetch, either all
  that was found or a sorted beginning of it that is closed under `Before`
  (`FetchList`), and a removal takes nothing from that. Both rest on lemmas about
  the sequences the models are built from: that a finite set has a sorted
  arrangement, that `Reverse`, `SubSeq` and `Picked` of a sorted sequence are
  sorted, and what they contain.
* `ServerLifeProofs`: `LifeInductive` (`LifeIInv`) and `SavedStaysFound`, for any
  number of replicas and every deployment. A name that is found at all is known
  before the process serves (`TablesInOrder`), except to a process whose own
  look-up failed, which serves from a map without saying so; it does not spoil
  what the others save.

Only model-checked are the liveness properties: `RequestsEnd`, `Findable` and
`Settles`, because fairness and ENABLED are out of the prover's reach. Of the first and the third the safety half is proved (`BoundedRequests`,
`WaitersEndAtAHolder`, `BoundedWork`): nothing starts over and nobody waits in a
circle, so what fairness has to add is only that the next step is taken. Every
invariant and every action property that a passing run checks, and all three
refinements, are proved.

What `mail_work` also makes plain, without contradicting a document: a send that
is reported as timed out may still be delivered, and its goroutine and connection
have no deadline; an SMTP check whose server accepts the credentials and then
never answers QUIT is reported as timed out.

## 5. Not modelled

* The metadata documents of the OAuth server and the parsing of URIs: an address
  is one of four kinds, and matched by the allowlist or not.
* The contents of mail, MIME, and the answers of the tools: data that no property
  tells apart. IMAP commands are a SELECT and one command that succeeds or fails.
* Host checks and DNS (`internal/netutil/host.go`): predicates without state, a
  nondeterministic refusal where the handlers call them. The exception of
  `RequireTLSUnlessLocalhost` for local hosts is out of reach wherever the host
  was validated as a public one before.
* `CloseAll`: nothing calls it. `updated_at`, which is only shown, and the
  identifiers derived from names.
* The comparison of addresses, subjects and dates in a search: the order of their
  values.
* Routing, logging, the portal's user interface, the deployment stack, and all
  settings but the table names and whether the rest is complete.
* Two requests that change one account at the same time, a put of unknown outcome
  and an account that is removed under an update: `AccountConfig` has them all, and
  its properties permit what the code does with them, as the code promises nothing
  there; the hazards are listed without a property.
* Pools of other replicas: `ImapPool` is one process. A save on one replica drops
  no pool of another, which is listed as a hazard, as is the `DropPool` that a put
  of unknown outcome leaves out.

Two comments that the code does not keep, seen while modelling and not run:
`README.md:67` says that startup fails when the configured table is
unreachable, but `New` asks nothing of the tables, which the model follows;
`config/store.go:43-45` says that `NewStore` falls back to memory when the AWS
configuration cannot be loaded, but it returns an error (`NewFails`).

## 6. Plan

What is left, in this order:

1. Pools of several replicas over one account store: what a save on one replica
   leaves behind on another, and the `DropPool` that a failed answer skips.
2. `ImapPool` and `MailCommands` composed: today the second has a pool of its own
   that may do anything the first does to a connection.
3. The result of an account list with an `updated_at` and the portal's view of it.
4. Proofs of what 1 and 2 add, and of the steps from `BoundedRequests` and
   `BoundedWork` towards the liveness properties that need no fairness: that a
   request which is not waiting for a mutex always has a step to take.
