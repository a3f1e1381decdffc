----------------------------- MODULE ConnLease ------------------------------
(***************************************************************************)
(* What the connection manager promises its callers: an open connection    *)
(* belongs to one account, at most one request holds it, and it is closed  *)
(* only by the request that holds it or while nobody does.  Pools, mutexes *)
(* and limits are the implementation's business.                           *)
(***************************************************************************)
CONSTANTS Keys, Ops, Conns, NoKey, NoOp

VARIABLES
  tenant,  \* tenant[c]: the account c is logged in for; NoKey: not open
  holder   \* holder[c]: the request that holds c; NoOp: nobody

leaseVars == <<tenant, holder>>

LeaseInit ==
  /\ tenant = [c \in Conns |-> NoKey]
  /\ holder = [c \in Conns |-> NoOp]

Idle(c) == tenant[c] # NoKey /\ holder[c] = NoOp
HoldsNothing(o) == \A c \in Conns : holder[c] # o

\* A request opens a connection for its account.
Open(o, k, c) ==
  /\ tenant[c] = NoKey
  /\ HoldsNothing(o)
  /\ tenant' = [tenant EXCEPT ![c] = k]
  /\ holder' = [holder EXCEPT ![c] = o]

\* A request is given an idle connection.
Take(o, c) ==
  /\ Idle(c)
  /\ HoldsNothing(o)
  /\ holder' = [holder EXCEPT ![c] = o]
  /\ UNCHANGED tenant

\* It hands its connection c back, and idle connections are closed: those in
\* cs, and c itself or not.
GiveBack(o, c, cs) ==
  /\ holder[c] = o
  /\ \A d \in cs : d = c \/ Idle(d)
  /\ holder' = [holder EXCEPT ![c] = NoOp]
  /\ tenant' = [d \in Conns |-> IF d \in cs THEN NoKey ELSE tenant[d]]

\* Idle connections are closed.
CloseIdleConns(cs) ==
  /\ \A c \in cs : Idle(c)
  /\ tenant' = [d \in Conns |-> IF d \in cs THEN NoKey ELSE tenant[d]]
  /\ UNCHANGED holder

LeaseNext ==
  \/ \E o \in Ops, k \in Keys, c \in Conns : Open(o, k, c)
  \/ \E o \in Ops, c \in Conns : Take(o, c)
  \/ \E o \in Ops, c \in Conns, cs \in SUBSET Conns : GiveBack(o, c, cs)
  \/ \E cs \in SUBSET Conns : CloseIdleConns(cs)

LeaseSpec == LeaseInit /\ [][LeaseNext]_leaseVars
=============================================================================
