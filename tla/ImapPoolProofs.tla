--------------------------- MODULE ImapPoolProofs ---------------------------
(* Proofs about ImapPool for every value of its constants. *)
EXTENDS ImapPool, FiniteSetTheorems, SequenceTheorems, TLAPS

USE MaxConnsAssumption, MaxWritesAssumption, NullAssumption

-----------------------------------------------------------------------------
(* Idle lists *)

\* Cutting the newest connection off an idle list keeps the others in place.
LEMMA ButLastFacts ==
  ASSUME NEW s \in Seq(Conns), s # <<>>
  PROVE  /\ ButLast(s) \in Seq(Conns)
         /\ Len(ButLast(s)) = Len(s) - 1
         /\ \A i \in 1..(Len(s) - 1) : ButLast(s)[i] = s[i]
         /\ Len(s) \in 1..Len(s)
         /\ LastOf(s) = s[Len(s)]
         /\ LastOf(s) \in Conns
<1>1. Len(s) \in Nat /\ Len(s) > 0
  BY EmptySeq, LenProperties
<1>2. ButLast(s) \in Seq(Conns)
  BY DEF ButLast
<1>3. Len(ButLast(s)) = Len(s) - 1
  <2>1. ASSUME NEW n \in Nat, n < Len(s)
        PROVE  Len(SubSeq(s, 1, n)) = n
    BY <2>1
  <2>2. Len(s) - 1 \in Nat /\ Len(s) - 1 < Len(s)
    BY <1>1
  <2>3. Len(SubSeq(s, 1, Len(s) - 1)) = Len(s) - 1
    BY <2>1, <2>2, Zenon
  <2>4. QED
    BY <2>3 DEF ButLast
<1>4. \A i \in 1..(Len(s) - 1) : ButLast(s)[i] = s[i]
  BY DEF ButLast
<1>5. QED
  BY <1>1, <1>2, <1>3, <1>4 DEF LastOf

\* A sequence without duplicates loses exactly its last element.
LEMMA ButLastRange ==
  ASSUME NEW s \in Seq(Conns), s # <<>>, IsInjective(s)
  PROVE  /\ LastOf(s) \in Range(s)
         /\ Range(ButLast(s)) = Range(s) \ {LastOf(s)}
         /\ IsInjective(ButLast(s))
<1> DEFINE t == ButLast(s)
<1>1. /\ t \in Seq(Conns) /\ Len(t) = Len(s) - 1
      /\ \A i \in 1..(Len(s) - 1) : t[i] = s[i]
      /\ Len(s) \in 1..Len(s) /\ LastOf(s) = s[Len(s)]
  BY ButLastFacts
<1>2. DOMAIN s = 1..Len(s) /\ DOMAIN t = 1..(Len(s) - 1) /\ Len(s) \in Nat
  BY <1>1, LenProperties
<1> HIDE DEF t
<1>3. \A i, j \in 1..Len(s) : s[i] = s[j] => i = j
  BY <1>2 DEF IsInjective
<1>4. IsInjective(t)
  BY <1>1, <1>2, <1>3 DEF IsInjective
<1>5. LastOf(s) \in Range(s)
  BY <1>1, <1>2 DEF Range
<1>6. ASSUME NEW c \in Range(t)
      PROVE  c \in Range(s) \ {LastOf(s)}
  <2>1. PICK i \in 1..(Len(s) - 1) : c = t[i]
    BY <1>2 DEF Range
  <2>2. i \in 1..Len(s) /\ c = s[i] /\ i # Len(s)
    BY <2>1, <1>1, <1>2
  <2>3. QED
    BY <2>2, <1>1, <1>2, <1>3 DEF Range
<1>7. ASSUME NEW c \in Range(s), c # LastOf(s)
      PROVE  c \in Range(t)
  <2>1. PICK i \in 1..Len(s) : c = s[i]
    BY <1>2 DEF Range
  <2>2. i \in 1..(Len(s) - 1)
    BY <2>1, <1>1, <1>2, <1>7
  <2>3. QED
    BY <2>1, <2>2, <1>1, <1>2 DEF Range
<1>8. QED
  BY <1>4, <1>5, <1>6, <1>7 DEF t

\* Trimming keeps the newest elements, at most MaxConns of them.
LEMMA TrimFacts ==
  ASSUME NEW s \in Seq(Conns)
  PROVE  /\ Excess(s) \in 0..Len(s)
         /\ Kept(s) \in Seq(Conns)
         /\ Len(Kept(s)) = Len(s) - Excess(s)
         /\ Len(Kept(s)) <= MaxConns
         /\ \A i \in 1..Len(Kept(s)) : Kept(s)[i] = s[i + Excess(s)]
<1> DEFINE n == Excess(s)
           t == SubSeq(s, n + 1, Len(s))
<1>1. Len(s) \in Nat /\ n \in 0..Len(s) /\ Len(s) - n <= MaxConns
  BY LenProperties DEF Excess
<1>2. t \in Seq(Conns) /\ Len(t) = Len(s) - n /\ \A i \in 1..Len(t) : t[i] = s[i + n]
  <2> HIDE DEF n
  <2>1. QED
    BY <1>1
<1>3. QED
  BY <1>1, <1>2 DEF Kept

\* Parking a connection: s is the idle list, u is s with c appended.  What is
\* trimmed leaves the list, the rest stays.
LEMMA ParkFacts ==
  ASSUME NEW s \in Seq(Conns), IsInjective(s), NEW c \in Conns, c \notin Range(s),
         NEW u \in Seq(Conns), Len(u) = Len(s) + 1, u[Len(s) + 1] = c,
         \A i \in 1..Len(s) : u[i] = s[i]
  PROVE  /\ Len(Kept(u)) <= MaxConns
         /\ Len(Kept(u)) <= Len(s) + 1
         /\ IsInjective(Kept(u))
         /\ Trimmed(u) \subseteq Range(s) \cup {c}
         /\ Range(Kept(u)) = (Range(s) \cup {c}) \ Trimmed(u)
<1> DEFINE n == Excess(u)
           t == Kept(u)
           out == {u[i] : i \in 1..n}
<1>1. /\ Len(s) \in Nat /\ Len(u) = Len(s) + 1
      /\ u[Len(s) + 1] = c /\ \A i \in 1..Len(s) : u[i] = s[i]
  BY LenProperties
<1>2. /\ n \in 0..Len(u) /\ t \in Seq(Conns) /\ Len(t) = Len(u) - n /\ Len(t) <= MaxConns
      /\ \A i \in 1..Len(t) : t[i] = u[i + n]
  BY TrimFacts
<1> HIDE DEF n, t
<1>3. DOMAIN s = 1..Len(s) /\ DOMAIN t = 1..Len(t) /\ Len(t) \in Nat
  BY <1>2, LenProperties
<1>4. \A i \in 1..Len(s) : s[i] \in Range(s)
  BY <1>3 DEF Range
<1>5. \A d \in Range(s) : \E i \in 1..Len(s) : d = s[i]
  BY <1>3 DEF Range
<1>6. \A i, j \in 1..Len(s) : s[i] = s[j] => i = j
  BY <1>3 DEF IsInjective
<1>7. \A i, j \in 1..Len(u) : u[i] = u[j] => i = j
  <2> SUFFICES ASSUME NEW i \in 1..Len(u), NEW j \in 1..Len(u), u[i] = u[j]
               PROVE  i = j
    OBVIOUS
  <2>1. \A m \in 1..Len(u) : m \in 1..Len(s) \/ m = Len(s) + 1
    BY <1>1
  <2>2. CASE i \in 1..Len(s) /\ j \in 1..Len(s)
    BY <2>2, <1>1, <1>6
  <2>3. CASE i \in 1..Len(s) /\ j = Len(s) + 1
    BY <2>3, <1>1, <1>4
  <2>4. CASE i = Len(s) + 1 /\ j \in 1..Len(s)
    BY <2>4, <1>1, <1>4
  <2>5. QED
    BY <2>1, <2>2, <2>3, <2>4
<1>8. IsInjective(t)
  <2> SUFFICES ASSUME NEW i \in 1..Len(t), NEW j \in 1..Len(t), t[i] = t[j]
               PROVE  i = j
    BY <1>3 DEF IsInjective
  <2>1. i + n \in 1..Len(u) /\ j + n \in 1..Len(u) /\ u[i + n] = u[j + n]
    BY <1>1, <1>2, <1>3
  <2>2. QED
    BY <2>1, <1>7, <1>2
<1>9. \A i \in 1..Len(u) : u[i] \in Range(s) \cup {c}
  BY <1>1, <1>4
<1>10. out \subseteq Range(s) \cup {c}
  BY <1>1, <1>2, <1>9
<1>11. ASSUME NEW d \in Range(t)
       PROVE  d \in (Range(s) \cup {c}) \ out
  <2>1. PICK i \in 1..Len(t) : d = t[i]
    BY <1>3 DEF Range
  <2>2. i + n \in 1..Len(u) /\ d = u[i + n] /\ ~(i + n \in 1..n)
    BY <2>1, <1>1, <1>2, <1>3
  <2>3. \A j \in 1..n : j \in 1..Len(u) /\ j # i + n
    BY <2>2, <1>1, <1>2
  <2>4. d \notin out
    BY <2>2, <2>3, <1>7
  <2>5. QED
    BY <2>2, <2>4, <1>9
<1>12. ASSUME NEW d \in (Range(s) \cup {c}) \ out
       PROVE  d \in Range(t)
  <2>1. PICK i \in 1..Len(u) : d = u[i]
    <3>1. CASE d = c
      BY <3>1, <1>1
    <3>2. CASE d \in Range(s)
      <4>1. PICK i \in 1..Len(s) : d = s[i]
        BY <3>2, <1>5
      <4>2. i \in 1..Len(u) /\ d = u[i]
        BY <4>1, <1>1
      <4>3. QED
        BY <4>2
    <3>3. QED
      BY <1>12, <3>1, <3>2
  <2>2. ~(i \in 1..n)
    BY <2>1, <1>12
  <2>3. i - n \in 1..Len(t) /\ t[i - n] = u[i]
    BY <2>1, <2>2, <1>1, <1>2
  <2>4. QED
    BY <2>1, <2>3, <1>3 DEF Range
<1>13. Len(t) <= Len(s) + 1
  BY <1>1, <1>2
<1>14. QED
  BY <1>2, <1>8, <1>10, <1>11, <1>12, <1>13 DEF n, t, Trimmed

\* The empty list.
LEMMA EmptyFacts == Range(<<>>) = {} /\ IsInjective(<<>>) /\ Len(<<>>) = 0
BY DEF Range, IsInjective

\* A list is empty exactly when nothing is in it.
LEMMA RangeEmpty ==
  ASSUME NEW s \in Seq(Conns)
  PROVE  (s = <<>>) <=> (Range(s) = {})
<1>1. DOMAIN s = 1..Len(s) /\ Len(s) \in Nat
  BY LenProperties
<1>2. CASE s # <<>>
  <2>1. 1 \in DOMAIN s
    BY <1>1, <1>2, EmptySeq
  <2>2. QED
    BY <1>2, <2>1 DEF Range
<1>3. QED
  BY <1>2, EmptyFacts

-----------------------------------------------------------------------------
(* Types *)

\* The variables that Return, Close and Settle assign keep their types.
LEMMA HelperTypes ==
  ASSUME TypeOK, NEW o \in Ops
  PROVE  /\ Return(o) => /\ pc' \in [Ops -> Labels]
                         /\ key' \in [Ops -> Keys \cup {NoKey}]
                         /\ ver' \in [Ops -> 0..MaxWrites]
                         /\ floor' \in [Ops -> 0..MaxWrites]
                         /\ pool' \in [Ops -> Pools \cup {NoPool}]
                         /\ from' \in [Ops -> Pools \cup {NoPool}]
                         /\ conn' \in [Ops -> Conns \cup {NoConn}]
         /\ \A cs : Close(cs) => /\ tenant' \in [Conns -> Keys \cup {NoKey}]
                                 /\ login' \in [Conns -> 0..MaxWrites]
         /\ Settle(o) /\ key[o] \in Keys => /\ settled' \in [Keys -> 0..MaxWrites]
                                            /\ UNCHANGED <<present, version>>
<1>1. Return(o) => /\ pc' \in [Ops -> Labels]
                   /\ key' \in [Ops -> Keys \cup {NoKey}]
                   /\ ver' \in [Ops -> 0..MaxWrites]
                   /\ floor' \in [Ops -> 0..MaxWrites]
                   /\ pool' \in [Ops -> Pools \cup {NoPool}]
                   /\ from' \in [Ops -> Pools \cup {NoPool}]
                   /\ conn' \in [Ops -> Conns \cup {NoConn}]
  BY DEF TypeOK, Return, Goto, Labels
<1>2. \A cs : Close(cs) => /\ tenant' \in [Conns -> Keys \cup {NoKey}]
                           /\ login' \in [Conns -> 0..MaxWrites]
  BY DEF TypeOK, Close
<1>3. Settle(o) /\ key[o] \in Keys => /\ settled' \in [Keys -> 0..MaxWrites]
                                      /\ UNCHANGED <<present, version>>
  BY DEF TypeOK, Settle
<1>4. QED
  BY <1>1, <1>2, <1>3

\* What RequestInv says of the types of a goroutine's references.
LEMMA RequestTypes ==
  ASSUME TypeOK, RequestInv, NEW o \in Ops
  PROVE  /\ pc[o] # "start" => key[o] \in Keys
         /\ pc[o] \in {"acquire", "scan", "login", "held", "put", "close", "logout"}
              => pool[o] \in Pools
         /\ pc[o] \in {"login", "held", "put"} => conn[o] \in Conns
BY DEF TypeOK, RequestInv

\* Every step keeps the types.
LEMMA TypeStep ==
  ASSUME TypeOK, RequestInv, [Next]_vars
  PROVE  TypeOK'
<1>1. ASSUME NEW o \in Ops, NEW k \in Keys, GetAccount(o, k)
      PROVE  TypeOK'
  BY <1>1 DEF GetAccount, Goto, storeVars, poolVars, connVars, reqVars, TypeOK, RequestInv, Labels
<1>2. ASSUME NEW o \in Ops, NEW k \in Keys, NotFound(o, k)
      PROVE  TypeOK'
  BY <1>2 DEF NotFound, vars, Goto, storeVars, poolVars, connVars, reqVars, TypeOK, RequestInv, Labels
<1>3. ASSUME NEW o \in Ops, NEW k \in Keys, SaveAccount(o, k)
      PROVE  TypeOK'
  BY <1>3 DEF SaveAccount, Write, Goto, storeVars, poolVars, connVars, reqVars, TypeOK, RequestInv, Labels
<1>4. ASSUME NEW o \in Ops, NEW k \in Keys, RemoveAccount(o, k)
      PROVE  TypeOK'
  BY <1>4 DEF RemoveAccount, Write, Goto, storeVars, poolVars, connVars, reqVars, TypeOK, RequestInv, Labels
<1>5. ASSUME NEW o \in Ops, FindPool(o)
      PROVE  TypeOK'
  BY <1>5 DEF FindPool, Goto, storeVars, poolVars, connVars, reqVars, TypeOK, RequestInv, Labels
<1>6. ASSUME NEW o \in Ops, LockForCreate(o)
      PROVE  TypeOK'
  BY <1>6 DEF LockForCreate, Goto, storeVars, poolVars, connVars, reqVars, TypeOK, RequestInv, Labels
<1>7. ASSUME NEW o \in Ops, RejectAccount(o)
      PROVE  TypeOK'
  BY <1>7, HelperTypes, RequestTypes DEF RejectAccount, Labels, storeVars, poolVars, connVars, reqVars, opVars, TypeOK
<1>8. ASSUME NEW o \in Ops, NEW p \in Pools, CreatePool(o, p)
      PROVE  TypeOK'
  <2>1. key[o] \in Keys
    BY <1>8, RequestTypes DEF CreatePool
  <2>2. QED
    BY <1>8, <2>1, EmptySeq DEF CreatePool, Goto, storeVars, connVars, reqVars, TypeOK, Labels
<1>9. ASSUME NEW o \in Ops, AcquireClosed(o)
      PROVE  TypeOK'
  BY <1>9, HelperTypes, RequestTypes DEF AcquireClosed, Labels, storeVars, poolVars, connVars, reqVars, opVars, TypeOK
<1>10. ASSUME NEW o \in Ops, LockPool(o)
      PROVE  TypeOK'
  BY <1>10 DEF LockPool, Lock, Goto, storeVars, poolVars, connVars, reqVars, TypeOK, RequestInv, Labels
<1>11. ASSUME NEW o \in Ops, DiscardIdle(o)
      PROVE  TypeOK'
  <2>1. pool[o] \in Pools /\ idle[pool[o]] \in Seq(Conns) /\ idle[pool[o]] # <<>>
    BY <1>11, RequestTypes DEF DiscardIdle, TypeOK
  <2>2. ButLast(idle[pool[o]]) \in Seq(Conns) /\ LastOf(idle[pool[o]]) \in Conns
    BY <2>1, ButLastFacts
  <2>3. idle' \in [Pools -> Seq(Conns)]
    BY <1>11, <2>1, <2>2 DEF DiscardIdle, PopIdle, TypeOK
  <2>4. QED
    BY <1>11, <2>1, <2>2, <2>3, HelperTypes DEF DiscardIdle, opVars, TypeOK, storeVars, connVars, reqVars
<1>12. ASSUME NEW o \in Ops, ReuseIdle(o)
      PROVE  TypeOK'
  <2>1. pool[o] \in Pools /\ idle[pool[o]] \in Seq(Conns) /\ idle[pool[o]] # <<>>
    BY <1>12, RequestTypes DEF ReuseIdle, TypeOK
  <2>2. ButLast(idle[pool[o]]) \in Seq(Conns) /\ LastOf(idle[pool[o]]) \in Conns
    BY <2>1, ButLastFacts
  <2>3. idle' \in [Pools -> Seq(Conns)]
    BY <1>12, <2>1, <2>2 DEF ReuseIdle, PopIdle, TypeOK
  <2>4. inUse' \in [Pools -> Int] /\ plock' \in [Pools -> Ops \cup {NoOp}]
    BY <1>12, <2>1 DEF ReuseIdle, Unlock, TypeOK
  <2>5. /\ pc' \in [Ops -> Labels] /\ from' \in [Ops -> Pools \cup {NoPool}]
        /\ conn' \in [Ops -> Conns \cup {NoConn}]
    BY <1>12, <2>1, <2>2 DEF ReuseIdle, Goto, Labels, TypeOK
  <2>6. QED
    BY <1>12, <2>3, <2>4, <2>5 DEF ReuseIdle, TypeOK, storeVars, connVars, reqVars
<1>13. ASSUME NEW o \in Ops, LimitReached(o)
      PROVE  TypeOK'
  BY <1>13, HelperTypes, RequestTypes DEF LimitReached, Unlock, storeVars, poolVars, connVars, reqVars, opVars, TypeOK
<1>14. ASSUME NEW o \in Ops, DialFails(o)
      PROVE  TypeOK'
  BY <1>14, HelperTypes, RequestTypes DEF DialFails, Unlock, storeVars, poolVars, connVars, reqVars, opVars, TypeOK
<1>15. ASSUME NEW o \in Ops, NEW c \in Conns, Dial(o, c)
      PROVE  TypeOK'
  BY <1>15 DEF Dial, MayDial, FreeConns, Goto, storeVars, poolVars, connVars, reqVars, TypeOK, RequestInv, Labels
<1>16. ASSUME NEW o \in Ops, LoginFails(o)
      PROVE  TypeOK'
  BY <1>16, HelperTypes, RequestTypes DEF LoginFails, Unlock, storeVars, poolVars, connVars, reqVars, opVars, TypeOK
<1>17. ASSUME NEW o \in Ops, LoginOk(o)
      PROVE  TypeOK'
  BY <1>17 DEF LoginOk, Unlock, Goto, storeVars, poolVars, connVars, reqVars, TypeOK, RequestInv, Labels
<1>18. ASSUME NEW o \in Ops, ReleaseNoPool(o)
      PROVE  TypeOK'
  BY <1>18, HelperTypes, RequestTypes DEF ReleaseNoPool, Labels, storeVars, poolVars, connVars, reqVars, opVars, TypeOK
<1>19. ASSUME NEW o \in Ops, ReleaseFind(o)
      PROVE  TypeOK'
  <2>1. key[o] \in Keys
    BY <1>19, RequestTypes DEF ReleaseFind
  <2>2. pool' \in [Ops -> Pools \cup {NoPool}]
    BY <1>19, <2>1 DEF ReleaseFind, TypeOK
  <2>3. QED
    BY <1>19, <2>2 DEF ReleaseFind, Goto, Labels, storeVars, poolVars, connVars, reqVars, TypeOK
<1>20. ASSUME NEW o \in Ops, NEW hadError \in BOOLEAN, ReleaseClose(o, hadError)
      PROVE  TypeOK'
  <2>1. pool[o] \in Pools
    BY <1>20, RequestTypes DEF ReleaseClose
  <2>2. inUse' \in [Pools -> Int]
    BY <1>20, <2>1 DEF ReleaseClose, TypeOK
  <2>3. QED
    BY <1>20, <2>2, HelperTypes DEF ReleaseClose, storeVars, TypeOK
<1>21. ASSUME NEW o \in Ops, ReleaseIdle(o)
      PROVE  TypeOK'
  <2> DEFINE u == Append(idle[pool[o]], conn[o])
  <2>1. pool[o] \in Pools /\ conn[o] \in Conns /\ idle[pool[o]] \in Seq(Conns)
    BY <1>21, RequestTypes DEF ReleaseIdle, TypeOK
  <2> DEFINE t == Kept(u)
  <2>2. t \in Seq(Conns)
    <3>1. u \in Seq(Conns)
      BY <2>1
    <3> HIDE DEF u
    <3>2. QED
      BY <3>1, TrimFacts
  <2>3. idle' \in [Pools -> Seq(Conns)] /\ inUse' \in [Pools -> Int]
    <3>1. idle' = [idle EXCEPT ![pool[o]] = t] /\ inUse' = [inUse EXCEPT ![pool[o]] = @ - 1]
      BY <1>21 DEF ReleaseIdle
    <3> HIDE DEF t
    <3>2. idle' \in [Pools -> Seq(Conns)]
      BY <3>1, <2>2 DEF TypeOK
    <3>3. inUse' \in [Pools -> Int]
      BY <2>1, <3>1 DEF TypeOK
    <3>4. QED
      BY <3>2, <3>3
  <2>4. Return(o) /\ \E cs : Close(cs)
    BY <1>21 DEF ReleaseIdle
  <2>5. UNCHANGED <<present, version, settled, mu, pools, poolKey, poolVer, closed, plock>>
    BY <1>21 DEF ReleaseIdle, storeVars
  <2>6. QED
    BY <2>3, <2>4, <2>5, HelperTypes DEF TypeOK
<1>22. ASSUME NEW o \in Ops, DropMissing(o)
      PROVE  TypeOK'
  BY <1>22, HelperTypes, RequestTypes DEF DropMissing, Labels, storeVars, poolVars, connVars, reqVars, opVars, TypeOK
<1>23. ASSUME NEW o \in Ops, DropFromMap(o)
      PROVE  TypeOK'
  BY <1>23 DEF DropFromMap, Goto, storeVars, poolVars, connVars, reqVars, TypeOK, RequestInv, Labels
<1>24. ASSUME NEW o \in Ops, MarkClosed(o)
      PROVE  TypeOK'
  BY <1>24 DEF MarkClosed, Lock, Goto, storeVars, poolVars, connVars, reqVars, TypeOK, RequestInv, Labels
<1>25. ASSUME NEW o \in Ops, CloseIdle(o)
      PROVE  TypeOK'
  <2>1. key[o] \in Keys /\ pool[o] \in Pools
    BY <1>25, RequestTypes DEF CloseIdle
  <2>2. idle' \in [Pools -> Seq(Conns)] /\ plock' \in [Pools -> Ops \cup {NoOp}]
    BY <1>25, <2>1, EmptySeq DEF CloseIdle, Unlock, TypeOK
  <2>3. Return(o) /\ Settle(o) /\ Close(IdleConns(pool[o]))
        /\ UNCHANGED <<mu, pools, poolKey, poolVer, inUse, closed>>
    BY <1>25 DEF CloseIdle
  <2>4. QED
    BY <2>1, <2>2, <2>3, HelperTypes DEF TypeOK
<1>26. CASE UNCHANGED vars
  BY <1>26 DEF vars, TypeOK, RequestInv, Labels
<1>27. QED
  BY <1>1, <1>2, <1>3, <1>4, <1>5, <1>6, <1>7, <1>8, <1>9, <1>10, <1>11, <1>12, <1>13, <1>14, <1>15, <1>16, <1>17, <1>18, <1>19, <1>20, <1>21, <1>22, <1>23, <1>24, <1>25, <1>26 DEF Next, Arrive, Acquire, Release, DropPool

\* A mutex stays with the goroutine in its critical section.
LEMMA LockStep ==
  ASSUME TypeOK, LockInv, RequestInv, [Next]_vars
  PROVE  LockInv'
<1>1. ASSUME NEW o \in Ops, NEW k \in Keys, GetAccount(o, k)
      PROVE  LockInv'
  BY <1>1 DEF GetAccount, Goto, storeVars, poolVars, connVars, reqVars, TypeOK, LockInv, RequestInv
<1>2. ASSUME NEW o \in Ops, NEW k \in Keys, NotFound(o, k)
      PROVE  LockInv'
  BY <1>2 DEF NotFound, vars, Goto, storeVars, poolVars, connVars, reqVars, TypeOK, LockInv, RequestInv
<1>3. ASSUME NEW o \in Ops, NEW k \in Keys, SaveAccount(o, k)
      PROVE  LockInv'
  BY <1>3 DEF SaveAccount, Write, Goto, storeVars, poolVars, connVars, reqVars, TypeOK, LockInv, RequestInv
<1>4. ASSUME NEW o \in Ops, NEW k \in Keys, RemoveAccount(o, k)
      PROVE  LockInv'
  BY <1>4 DEF RemoveAccount, Write, Goto, storeVars, poolVars, connVars, reqVars, TypeOK, LockInv, RequestInv
<1>5. ASSUME NEW o \in Ops, FindPool(o)
      PROVE  LockInv'
  BY <1>5 DEF FindPool, Goto, storeVars, poolVars, connVars, reqVars, TypeOK, LockInv, RequestInv
<1>6. ASSUME NEW o \in Ops, LockForCreate(o)
      PROVE  LockInv'
  BY <1>6 DEF LockForCreate, Goto, storeVars, poolVars, connVars, reqVars, TypeOK, LockInv, RequestInv
<1>7. ASSUME NEW o \in Ops, RejectAccount(o)
      PROVE  LockInv'
  BY <1>7 DEF RejectAccount, Return, Goto, storeVars, poolVars, connVars, reqVars, TypeOK, LockInv, RequestInv
<1>8. ASSUME NEW o \in Ops, NEW p \in Pools, CreatePool(o, p)
      PROVE  LockInv'
  BY <1>8 DEF CreatePool, FreePools, Goto, storeVars, poolVars, connVars, reqVars, TypeOK, LockInv, RequestInv
<1>9. ASSUME NEW o \in Ops, AcquireClosed(o)
      PROVE  LockInv'
  BY <1>9 DEF AcquireClosed, Return, Goto, storeVars, poolVars, connVars, reqVars, TypeOK, LockInv, RequestInv
<1>10. ASSUME NEW o \in Ops, LockPool(o)
      PROVE  LockInv'
  BY <1>10 DEF LockPool, Lock, Goto, storeVars, poolVars, connVars, reqVars, TypeOK, LockInv, RequestInv
<1>11. ASSUME NEW o \in Ops, DiscardIdle(o)
      PROVE  LockInv'
  <2>1. UNCHANGED <<version, mu, pools, poolKey, closed, plock, opVars>>
    BY <1>11 DEF DiscardIdle, storeVars
  <2>2. QED
    BY <2>1 DEF opVars, TypeOK, LockInv, RequestInv
<1>12. ASSUME NEW o \in Ops, ReuseIdle(o)
      PROVE  LockInv'
  <2>1. /\ UNCHANGED <<version, mu, pools, poolKey, closed, key, pool>>
        /\ pc[o] = "scan" /\ pc' = [pc EXCEPT ![o] = "held"]
        /\ plock' = [plock EXCEPT ![pool[o]] = NoOp]
        /\ from' = [from EXCEPT ![o] = pool[o]]
        /\ conn' = [conn EXCEPT ![o] = LastOf(idle[pool[o]])]
    BY <1>12 DEF ReuseIdle, storeVars, reqVars, Unlock, Goto
  <2>2. pool[o] \in Pools /\ LastOf(idle[pool[o]]) \in Conns
    BY <1>12, RequestTypes, ButLastFacts DEF ReuseIdle, TypeOK
  <2>3. QED
    BY <2>1, <2>2 DEF TypeOK, LockInv, RequestInv
<1>13. ASSUME NEW o \in Ops, LimitReached(o)
      PROVE  LockInv'
  BY <1>13 DEF LimitReached, Unlock, Return, Goto, storeVars, poolVars, connVars, reqVars, TypeOK, LockInv, RequestInv
<1>14. ASSUME NEW o \in Ops, DialFails(o)
      PROVE  LockInv'
  BY <1>14 DEF DialFails, Unlock, Return, MayDial, Goto, storeVars, poolVars, connVars, reqVars, TypeOK, LockInv, RequestInv
<1>15. ASSUME NEW o \in Ops, NEW c \in Conns, Dial(o, c)
      PROVE  LockInv'
  BY <1>15 DEF Dial, MayDial, FreeConns, Goto, storeVars, poolVars, connVars, reqVars, TypeOK, LockInv, RequestInv
<1>16. ASSUME NEW o \in Ops, LoginFails(o)
      PROVE  LockInv'
  BY <1>16 DEF LoginFails, Close, Unlock, Return, Goto, storeVars, poolVars, connVars, reqVars, TypeOK, LockInv, RequestInv
<1>17. ASSUME NEW o \in Ops, LoginOk(o)
      PROVE  LockInv'
  BY <1>17 DEF LoginOk, Unlock, Goto, storeVars, poolVars, connVars, reqVars, TypeOK, LockInv, RequestInv
<1>18. ASSUME NEW o \in Ops, ReleaseNoPool(o)
      PROVE  LockInv'
  BY <1>18 DEF ReleaseNoPool, Close, Return, Goto, storeVars, poolVars, connVars, reqVars, TypeOK, LockInv, RequestInv
<1>19. ASSUME NEW o \in Ops, ReleaseFind(o)
      PROVE  LockInv'
  BY <1>19 DEF ReleaseFind, Goto, storeVars, poolVars, connVars, reqVars, TypeOK, LockInv, RequestInv
<1>20. ASSUME NEW o \in Ops, NEW hadError \in BOOLEAN, ReleaseClose(o, hadError)
      PROVE  LockInv'
  BY <1>20 DEF ReleaseClose, Close, Return, Parks, Goto, storeVars, poolVars, connVars, reqVars, TypeOK, LockInv, RequestInv
<1>21. ASSUME NEW o \in Ops, ReleaseIdle(o)
      PROVE  LockInv'
  <2>1. /\ UNCHANGED <<present, version, settled, mu, pools, poolKey, poolVer, closed, plock>>
        /\ pc[o] = "put" /\ Return(o)
    BY <1>21 DEF ReleaseIdle, storeVars
  <2>2. QED
    BY <2>1 DEF Return, Goto, TypeOK, LockInv, RequestInv
<1>22. ASSUME NEW o \in Ops, DropMissing(o)
      PROVE  LockInv'
  BY <1>22 DEF DropMissing, Settle, Return, Goto, storeVars, poolVars, connVars, reqVars, TypeOK, LockInv, RequestInv
<1>23. ASSUME NEW o \in Ops, DropFromMap(o)
      PROVE  LockInv'
  BY <1>23 DEF DropFromMap, Goto, storeVars, poolVars, connVars, reqVars, TypeOK, LockInv, RequestInv
<1>24. ASSUME NEW o \in Ops, MarkClosed(o)
      PROVE  LockInv'
  BY <1>24 DEF MarkClosed, Lock, Goto, storeVars, poolVars, connVars, reqVars, TypeOK, LockInv, RequestInv
<1>25. ASSUME NEW o \in Ops, CloseIdle(o)
      PROVE  LockInv'
  <2>1. /\ UNCHANGED <<version, mu, pools, poolKey, closed>>
        /\ pc[o] = "logout" /\ Return(o) /\ plock' = [plock EXCEPT ![pool[o]] = NoOp]
        /\ idle' = [idle EXCEPT ![pool[o]] = <<>>]
    BY <1>25 DEF CloseIdle, Settle, Unlock
  <2>2. QED
    BY <2>1 DEF Return, Goto, TypeOK, LockInv, RequestInv
<1>26. CASE UNCHANGED vars
  BY <1>26 DEF vars, TypeOK, LockInv, RequestInv
<1>27. QED
  BY <1>1, <1>2, <1>3, <1>4, <1>5, <1>6, <1>7, <1>8, <1>9, <1>10, <1>11, <1>12, <1>13, <1>14, <1>15, <1>16, <1>17, <1>18, <1>19, <1>20, <1>21, <1>22, <1>23, <1>24, <1>25, <1>26 DEF Next, Arrive, Acquire, Release, DropPool

\* A goroutine's references stay consistent with its place.
LEMMA RequestStep ==
  ASSUME TypeOK, LockInv, RequestInv, PoolInv, [Next]_vars
  PROVE  RequestInv'
<1>1. ASSUME NEW o \in Ops, NEW k \in Keys, GetAccount(o, k)
      PROVE  RequestInv'
  BY <1>1 DEF GetAccount, Goto, storeVars, poolVars, connVars, reqVars, TypeOK, RequestInv, PoolInv, LockInv
<1>2. ASSUME NEW o \in Ops, NEW k \in Keys, NotFound(o, k)
      PROVE  RequestInv'
  BY <1>2 DEF NotFound, vars, Goto, storeVars, poolVars, connVars, reqVars, TypeOK, RequestInv, PoolInv, LockInv
<1>3. ASSUME NEW o \in Ops, NEW k \in Keys, SaveAccount(o, k)
      PROVE  RequestInv'
  BY <1>3 DEF SaveAccount, Write, Goto, storeVars, poolVars, connVars, reqVars, TypeOK, RequestInv, PoolInv, LockInv
<1>4. ASSUME NEW o \in Ops, NEW k \in Keys, RemoveAccount(o, k)
      PROVE  RequestInv'
  BY <1>4 DEF RemoveAccount, Write, Goto, storeVars, poolVars, connVars, reqVars, TypeOK, RequestInv, PoolInv, LockInv
<1>5. ASSUME NEW o \in Ops, FindPool(o)
      PROVE  RequestInv'
  BY <1>5 DEF FindPool, Goto, storeVars, poolVars, connVars, reqVars, TypeOK, RequestInv, PoolInv, LockInv
<1>6. ASSUME NEW o \in Ops, LockForCreate(o)
      PROVE  RequestInv'
  BY <1>6 DEF LockForCreate, Goto, storeVars, poolVars, connVars, reqVars, TypeOK, RequestInv, PoolInv, LockInv
<1>7. ASSUME NEW o \in Ops, RejectAccount(o)
      PROVE  RequestInv'
  BY <1>7 DEF RejectAccount, Return, Goto, storeVars, poolVars, connVars, reqVars, TypeOK, RequestInv, PoolInv, LockInv
<1>8. ASSUME NEW o \in Ops, NEW p \in Pools, CreatePool(o, p)
      PROVE  RequestInv'
  <2>1. /\ UNCHANGED <<version, key, from, conn>>
        /\ pc[o] = "create" /\ pc' = [pc EXCEPT ![o] = "acquire"]
        /\ poolKey' = [poolKey EXCEPT ![p] = key[o]]
        /\ pool' = [pool EXCEPT ![o] = p]
        /\ \A r \in Ops : pool[r] # p /\ from[r] # p
    BY <1>8 DEF CreatePool, FreePools, storeVars, reqVars, Goto
  <2>2. QED
    BY <2>1 DEF TypeOK, RequestInv
<1>9. ASSUME NEW o \in Ops, AcquireClosed(o)
      PROVE  RequestInv'
  BY <1>9 DEF AcquireClosed, Return, Goto, storeVars, poolVars, connVars, reqVars, TypeOK, RequestInv, PoolInv, LockInv
<1>10. ASSUME NEW o \in Ops, LockPool(o)
      PROVE  RequestInv'
  BY <1>10 DEF LockPool, Lock, Goto, storeVars, poolVars, connVars, reqVars, TypeOK, RequestInv, PoolInv, LockInv
<1>11. ASSUME NEW o \in Ops, DiscardIdle(o)
      PROVE  RequestInv'
  <2>1. UNCHANGED <<version, mu, pools, poolKey, closed, plock, opVars>>
    BY <1>11 DEF DiscardIdle, storeVars
  <2>2. QED
    BY <2>1 DEF opVars, RequestInv
<1>12. ASSUME NEW o \in Ops, ReuseIdle(o)
      PROVE  RequestInv'
  <2>1. /\ UNCHANGED <<version, mu, pools, poolKey, closed, key, pool>>
        /\ pc[o] = "scan" /\ pc' = [pc EXCEPT ![o] = "held"]
        /\ plock' = [plock EXCEPT ![pool[o]] = NoOp]
        /\ from' = [from EXCEPT ![o] = pool[o]]
        /\ conn' = [conn EXCEPT ![o] = LastOf(idle[pool[o]])]
    BY <1>12 DEF ReuseIdle, storeVars, reqVars, Unlock, Goto
  <2>2. pool[o] \in Pools /\ LastOf(idle[pool[o]]) \in Conns
    BY <1>12, RequestTypes, ButLastFacts DEF ReuseIdle, TypeOK
  <2>3. QED
    BY <2>1, <2>2 DEF TypeOK, RequestInv
<1>13. ASSUME NEW o \in Ops, LimitReached(o)
      PROVE  RequestInv'
  BY <1>13 DEF LimitReached, Unlock, Return, Goto, storeVars, poolVars, connVars, reqVars, TypeOK, RequestInv, PoolInv, LockInv
<1>14. ASSUME NEW o \in Ops, DialFails(o)
      PROVE  RequestInv'
  BY <1>14 DEF DialFails, Unlock, Return, MayDial, Goto, storeVars, poolVars, connVars, reqVars, TypeOK, RequestInv, PoolInv, LockInv
<1>15. ASSUME NEW o \in Ops, NEW c \in Conns, Dial(o, c)
      PROVE  RequestInv'
  BY <1>15 DEF Dial, MayDial, FreeConns, Goto, storeVars, poolVars, connVars, reqVars, TypeOK, RequestInv, PoolInv, LockInv
<1>16. ASSUME NEW o \in Ops, LoginFails(o)
      PROVE  RequestInv'
  BY <1>16 DEF LoginFails, Close, Unlock, Return, Goto, storeVars, poolVars, connVars, reqVars, TypeOK, RequestInv, PoolInv, LockInv
<1>17. ASSUME NEW o \in Ops, LoginOk(o)
      PROVE  RequestInv'
  BY <1>17 DEF LoginOk, Unlock, Goto, storeVars, poolVars, connVars, reqVars, TypeOK, RequestInv, PoolInv, LockInv
<1>18. ASSUME NEW o \in Ops, ReleaseNoPool(o)
      PROVE  RequestInv'
  BY <1>18 DEF ReleaseNoPool, Close, Return, Goto, storeVars, poolVars, connVars, reqVars, TypeOK, RequestInv, PoolInv, LockInv
<1>19. ASSUME NEW o \in Ops, ReleaseFind(o)
      PROVE  RequestInv'
  BY <1>19 DEF ReleaseFind, Goto, storeVars, poolVars, connVars, reqVars, TypeOK, RequestInv, PoolInv, LockInv
<1>20. ASSUME NEW o \in Ops, NEW hadError \in BOOLEAN, ReleaseClose(o, hadError)
      PROVE  RequestInv'
  BY <1>20 DEF ReleaseClose, Close, Return, Parks, Goto, storeVars, poolVars, connVars, reqVars, TypeOK, RequestInv, PoolInv, LockInv
<1>21. ASSUME NEW o \in Ops, ReleaseIdle(o)
      PROVE  RequestInv'
  <2>1. /\ UNCHANGED <<present, version, settled, mu, pools, poolKey, poolVer, closed, plock>>
        /\ pc[o] = "put" /\ Return(o)
    BY <1>21 DEF ReleaseIdle, storeVars
  <2>2. QED
    BY <2>1 DEF Return, Goto, TypeOK, RequestInv
<1>22. ASSUME NEW o \in Ops, DropMissing(o)
      PROVE  RequestInv'
  BY <1>22 DEF DropMissing, Settle, Return, Goto, storeVars, poolVars, connVars, reqVars, TypeOK, RequestInv, PoolInv, LockInv
<1>23. ASSUME NEW o \in Ops, DropFromMap(o)
      PROVE  RequestInv'
  BY <1>23 DEF DropFromMap, Goto, storeVars, poolVars, connVars, reqVars, TypeOK, RequestInv, PoolInv, LockInv
<1>24. ASSUME NEW o \in Ops, MarkClosed(o)
      PROVE  RequestInv'
  BY <1>24 DEF MarkClosed, Lock, Goto, storeVars, poolVars, connVars, reqVars, TypeOK, RequestInv, PoolInv, LockInv
<1>25. ASSUME NEW o \in Ops, CloseIdle(o)
      PROVE  RequestInv'
  <2>1. /\ UNCHANGED <<version, mu, pools, poolKey, closed>>
        /\ pc[o] = "logout" /\ Return(o) /\ plock' = [plock EXCEPT ![pool[o]] = NoOp]
        /\ idle' = [idle EXCEPT ![pool[o]] = <<>>]
    BY <1>25 DEF CloseIdle, Settle, Unlock
  <2>2. QED
    BY <2>1 DEF Return, Goto, TypeOK, RequestInv
<1>26. CASE UNCHANGED vars
  BY <1>26 DEF vars, TypeOK, RequestInv, PoolInv, LockInv
<1>27. QED
  BY <1>1, <1>2, <1>3, <1>4, <1>5, <1>6, <1>7, <1>8, <1>9, <1>10, <1>11, <1>12, <1>13, <1>14, <1>15, <1>16, <1>17, <1>18, <1>19, <1>20, <1>21, <1>22, <1>23, <1>24, <1>25, <1>26 DEF Next, Arrive, Acquire, Release, DropPool

\* A pool identity nothing refers to has an empty idle list: nothing is lost
\* when a new pool takes it.
LEMMA FreePoolEmpty ==
  ASSUME TypeOK, LockInv, RequestInv, PoolInv, DropInv, NEW p \in FreePools
  PROVE  idle[p] = <<>>
<1> SUFFICES ASSUME idle[p] # <<>>
             PROVE  FALSE
  OBVIOUS
<1>1. p \in Pools /\ poolKey[p] \in Keys
  BY DEF FreePools, PoolInv, TypeOK
<1>2. CASE closed[p]
  <2>1. plock[p] \in Ops /\ pc[plock[p]] = "logout"
    BY <1>1, <1>2 DEF PoolInv, TypeOK
  <2>2. pool[plock[p]] = p
    BY <1>1, <2>1 DEF LockInv
  <2>3. QED
    BY <2>1, <2>2 DEF FreePools
<1>3. CASE ~closed[p]
  BY <1>1, <1>3 DEF DropInv, Reachable, FreePools
<1>4. QED
  BY <1>2, <1>3

\* A pool is closed only after it left the map, and stays empty.
LEMMA PoolStep ==
  ASSUME TypeOK, LockInv, RequestInv, PoolInv, DropInv, [Next]_vars
  PROVE  PoolInv'
<1>1. ASSUME NEW o \in Ops, NEW k \in Keys, GetAccount(o, k)
      PROVE  PoolInv'
  BY <1>1 DEF GetAccount, Goto, storeVars, poolVars, connVars, reqVars, TypeOK, LockInv, RequestInv, PoolInv
<1>2. ASSUME NEW o \in Ops, NEW k \in Keys, NotFound(o, k)
      PROVE  PoolInv'
  BY <1>2 DEF NotFound, vars, Goto, storeVars, poolVars, connVars, reqVars, TypeOK, LockInv, RequestInv, PoolInv
<1>3. ASSUME NEW o \in Ops, NEW k \in Keys, SaveAccount(o, k)
      PROVE  PoolInv'
  BY <1>3 DEF SaveAccount, Write, Goto, storeVars, poolVars, connVars, reqVars, TypeOK, LockInv, RequestInv, PoolInv
<1>4. ASSUME NEW o \in Ops, NEW k \in Keys, RemoveAccount(o, k)
      PROVE  PoolInv'
  BY <1>4 DEF RemoveAccount, Write, Goto, storeVars, poolVars, connVars, reqVars, TypeOK, LockInv, RequestInv, PoolInv
<1>5. ASSUME NEW o \in Ops, FindPool(o)
      PROVE  PoolInv'
  BY <1>5 DEF FindPool, Goto, storeVars, poolVars, connVars, reqVars, TypeOK, LockInv, RequestInv, PoolInv
<1>6. ASSUME NEW o \in Ops, LockForCreate(o)
      PROVE  PoolInv'
  BY <1>6 DEF LockForCreate, Goto, storeVars, poolVars, connVars, reqVars, TypeOK, LockInv, RequestInv, PoolInv
<1>7. ASSUME NEW o \in Ops, RejectAccount(o)
      PROVE  PoolInv'
  BY <1>7 DEF RejectAccount, Return, Goto, storeVars, poolVars, connVars, reqVars, TypeOK, LockInv, RequestInv, PoolInv
<1>8. ASSUME NEW o \in Ops, NEW p \in Pools, CreatePool(o, p)
      PROVE  PoolInv'
  BY <1>8 DEF CreatePool, FreePools, Goto, storeVars, poolVars, connVars, reqVars, TypeOK, LockInv, RequestInv, PoolInv
<1>9. ASSUME NEW o \in Ops, AcquireClosed(o)
      PROVE  PoolInv'
  BY <1>9 DEF AcquireClosed, Return, Goto, storeVars, poolVars, connVars, reqVars, TypeOK, LockInv, RequestInv, PoolInv
<1>10. ASSUME NEW o \in Ops, LockPool(o)
      PROVE  PoolInv'
  BY <1>10 DEF LockPool, Lock, Goto, storeVars, poolVars, connVars, reqVars, TypeOK, LockInv, RequestInv, PoolInv
<1>11. ASSUME NEW o \in Ops, DiscardIdle(o)
      PROVE  PoolInv'
  BY <1>11 DEF DiscardIdle, PopIdle, Close, opVars, Goto, storeVars, poolVars, connVars, reqVars, TypeOK, LockInv, RequestInv, PoolInv
<1>12. ASSUME NEW o \in Ops, ReuseIdle(o)
      PROVE  PoolInv'
  BY <1>12 DEF ReuseIdle, PopIdle, Unlock, Goto, storeVars, poolVars, connVars, reqVars, TypeOK, LockInv, RequestInv, PoolInv
<1>13. ASSUME NEW o \in Ops, LimitReached(o)
      PROVE  PoolInv'
  <2>1. pool[o] \in Pools /\ ~closed[pool[o]] /\ pc[o] \in {"scan", "login"}
    BY <1>13, RequestTypes DEF LimitReached, PoolInv
  <2>2. \A q \in Pools : closed[q] /\ idle[q] # <<>> =>
          plock[q] \in Ops /\ q # pool[o] /\ plock[q] # o /\ pc[plock[q]] = "logout"
    BY <2>1 DEF TypeOK, PoolInv
  <2>3. /\ UNCHANGED <<pools, poolKey, closed, idle>>
        /\ plock' = [plock EXCEPT ![pool[o]] = NoOp]
        /\ Return(o)
    BY <1>13 DEF LimitReached, Unlock, poolVars, Goto, reqVars
  <2>4. QED
    BY <2>1, <2>2, <2>3 DEF Return, Goto, TypeOK, RequestInv, PoolInv
<1>14. ASSUME NEW o \in Ops, DialFails(o)
      PROVE  PoolInv'
  <2>1. pool[o] \in Pools /\ ~closed[pool[o]] /\ pc[o] \in {"scan", "login"}
    BY <1>14, RequestTypes DEF DialFails, PoolInv
  <2>2. \A q \in Pools : closed[q] /\ idle[q] # <<>> =>
          plock[q] \in Ops /\ q # pool[o] /\ plock[q] # o /\ pc[plock[q]] = "logout"
    BY <2>1 DEF TypeOK, PoolInv
  <2>3. /\ UNCHANGED <<pools, poolKey, closed, idle>>
        /\ plock' = [plock EXCEPT ![pool[o]] = NoOp]
        /\ Return(o)
    BY <1>14 DEF DialFails, Unlock, poolVars, Goto, reqVars
  <2>4. QED
    BY <2>1, <2>2, <2>3 DEF Return, Goto, TypeOK, RequestInv, PoolInv
<1>15. ASSUME NEW o \in Ops, NEW c \in Conns, Dial(o, c)
      PROVE  PoolInv'
  BY <1>15 DEF Dial, MayDial, FreeConns, Goto, storeVars, poolVars, connVars, reqVars, TypeOK, LockInv, RequestInv, PoolInv
<1>16. ASSUME NEW o \in Ops, LoginFails(o)
      PROVE  PoolInv'
  <2>1. pool[o] \in Pools /\ ~closed[pool[o]] /\ pc[o] \in {"scan", "login"}
    BY <1>16, RequestTypes DEF LoginFails, PoolInv
  <2>2. \A q \in Pools : closed[q] /\ idle[q] # <<>> =>
          plock[q] \in Ops /\ q # pool[o] /\ plock[q] # o /\ pc[plock[q]] = "logout"
    BY <2>1 DEF TypeOK, PoolInv
  <2>3. /\ UNCHANGED <<pools, poolKey, closed, idle>>
        /\ plock' = [plock EXCEPT ![pool[o]] = NoOp]
        /\ Return(o)
    BY <1>16 DEF LoginFails, Unlock, poolVars, Goto, reqVars
  <2>4. QED
    BY <2>1, <2>2, <2>3 DEF Return, Goto, TypeOK, RequestInv, PoolInv
<1>17. ASSUME NEW o \in Ops, LoginOk(o)
      PROVE  PoolInv'
  <2>1. pool[o] \in Pools /\ ~closed[pool[o]] /\ pc[o] \in {"scan", "login"}
    BY <1>17, RequestTypes DEF LoginOk, PoolInv
  <2>2. \A q \in Pools : closed[q] /\ idle[q] # <<>> =>
          plock[q] \in Ops /\ q # pool[o] /\ plock[q] # o /\ pc[plock[q]] = "logout"
    BY <2>1 DEF TypeOK, PoolInv
  <2>3. /\ UNCHANGED <<pools, poolKey, closed, idle>>
        /\ plock' = [plock EXCEPT ![pool[o]] = NoOp]
        /\ UNCHANGED <<key, pool>> /\ pc' = [pc EXCEPT ![o] = "held"]
    BY <1>17 DEF LoginOk, Unlock, poolVars, Goto, reqVars
  <2>4. QED
    BY <2>1, <2>2, <2>3 DEF Return, Goto, TypeOK, RequestInv, PoolInv
<1>18. ASSUME NEW o \in Ops, ReleaseNoPool(o)
      PROVE  PoolInv'
  BY <1>18 DEF ReleaseNoPool, Close, Return, Goto, storeVars, poolVars, connVars, reqVars, TypeOK, LockInv, RequestInv, PoolInv
<1>19. ASSUME NEW o \in Ops, ReleaseFind(o)
      PROVE  PoolInv'
  BY <1>19 DEF ReleaseFind, Goto, storeVars, poolVars, connVars, reqVars, TypeOK, LockInv, RequestInv, PoolInv
<1>20. ASSUME NEW o \in Ops, NEW hadError \in BOOLEAN, ReleaseClose(o, hadError)
      PROVE  PoolInv'
  BY <1>20 DEF ReleaseClose, Close, Return, Parks, Goto, storeVars, poolVars, connVars, reqVars, TypeOK, LockInv, RequestInv, PoolInv
<1>21. ASSUME NEW o \in Ops, ReleaseIdle(o)
      PROVE  PoolInv'
  <2>1. /\ pool[o] \in Pools /\ poolKey[pool[o]] # NoKey /\ ~closed[pool[o]]
        /\ pc[o] = "put" /\ plock[pool[o]] = NoOp
    BY <1>21, RequestTypes DEF ReleaseIdle, Parks, RequestInv, TypeOK
  <2>2. /\ UNCHANGED <<pools, poolKey, closed, plock>>
        /\ Return(o)
        /\ \A q \in Pools : q # pool[o] => idle'[q] = idle[q]
    BY <1>21 DEF ReleaseIdle, TypeOK
  <2>3. \A q \in Pools : closed[q] /\ idle[q] # <<>> => plock[q] \in Ops /\ plock[q] # o
    BY <2>1 DEF PoolInv, TypeOK
  <2>4. QED
    BY <2>1, <2>2, <2>3 DEF Return, Goto, TypeOK, PoolInv
<1>22. ASSUME NEW o \in Ops, DropMissing(o)
      PROVE  PoolInv'
  BY <1>22 DEF DropMissing, Settle, Return, Goto, storeVars, poolVars, connVars, reqVars, TypeOK, LockInv, RequestInv, PoolInv
<1>23. ASSUME NEW o \in Ops, DropFromMap(o)
      PROVE  PoolInv'
  BY <1>23 DEF DropFromMap, Goto, storeVars, poolVars, connVars, reqVars, TypeOK, LockInv, RequestInv, PoolInv
<1>24. ASSUME NEW o \in Ops, MarkClosed(o)
      PROVE  PoolInv'
  <2>1. pool[o] \in Pools /\ key[o] \in Keys /\ poolKey[pool[o]] = key[o] /\ pc[o] = "close"
    BY <1>24, RequestTypes DEF MarkClosed, RequestInv, TypeOK
  <2>2. ASSUME NEW k \in Keys, pools[k] = pool[o]
        PROVE  FALSE
    <3>1. pools[k] # NoPool
      BY <2>1, <2>2
    <3>2. poolKey[pools[k]] = k
      BY <3>1 DEF PoolInv
    <3>3. pools[key[o]] # pool[o]
      BY <2>1 DEF PoolInv
    <3>4. QED
      BY <2>1, <2>2, <3>2, <3>3
  <2>3. plock[pool[o]] = NoOp /\ \A r \in Ops : pc[r] \in {"scan", "login"} => pool[r] # pool[o]
    BY <1>24, <2>1 DEF MarkClosed, Lock, LockInv
  <2>4. \A q \in Pools : closed[q] /\ idle[q] # <<>> =>
          plock[q] \in Ops /\ plock[q] # o /\ q # pool[o] /\ pc[plock[q]] = "logout"
    <3>1. \A q \in Pools : closed[q] /\ idle[q] # <<>> => plock[q] # NoOp /\ pc[plock[q]] = "logout"
      BY DEF PoolInv
    <3>2. \A q \in Pools : plock[q] \in Ops \cup {NoOp}
      BY DEF TypeOK
    <3>3. QED
      BY <2>1, <2>3, <3>1, <3>2
  <2>5. /\ UNCHANGED <<pools, poolKey, idle, key, pool>>
        /\ plock' = [plock EXCEPT ![pool[o]] = o]
        /\ closed' = [closed EXCEPT ![pool[o]] = TRUE]
        /\ pc' = [pc EXCEPT ![o] = "logout"]
    BY <1>24 DEF MarkClosed, Lock, Goto, reqVars
  <2>6. QED
    BY <2>1, <2>2, <2>3, <2>4, <2>5 DEF TypeOK, PoolInv
<1>25. ASSUME NEW o \in Ops, CloseIdle(o)
      PROVE  PoolInv'
  BY <1>25 DEF CloseIdle, Close, Unlock, Settle, Return, IdleConns, Goto, storeVars, poolVars, connVars, reqVars, TypeOK, LockInv, RequestInv, PoolInv
<1>26. CASE UNCHANGED vars
  BY <1>26 DEF vars, TypeOK, LockInv, RequestInv, PoolInv
<1>27. QED
  BY <1>1, <1>2, <1>3, <1>4, <1>5, <1>6, <1>7, <1>8, <1>9, <1>10, <1>11, <1>12, <1>13, <1>14, <1>15, <1>16, <1>17, <1>18, <1>19, <1>20, <1>21, <1>22, <1>23, <1>24, <1>25, <1>26 DEF Next, Arrive, Acquire, Release, DropPool

\* An open pool stays reachable.
LEMMA DropStep ==
  ASSUME TypeOK, LockInv, RequestInv, PoolInv, DropInv, [Next]_vars
  PROVE  DropInv'
<1>1. ASSUME NEW o \in Ops, NEW k \in Keys, GetAccount(o, k)
      PROVE  DropInv'
  BY <1>1 DEF GetAccount, Goto, storeVars, poolVars, connVars, reqVars, TypeOK, RequestInv, PoolInv, DropInv, Reachable
<1>2. ASSUME NEW o \in Ops, NEW k \in Keys, NotFound(o, k)
      PROVE  DropInv'
  BY <1>2 DEF NotFound, vars, Goto, storeVars, poolVars, connVars, reqVars, TypeOK, RequestInv, PoolInv, DropInv, Reachable
<1>3. ASSUME NEW o \in Ops, NEW k \in Keys, SaveAccount(o, k)
      PROVE  DropInv'
  BY <1>3 DEF SaveAccount, Write, Goto, storeVars, poolVars, connVars, reqVars, TypeOK, RequestInv, PoolInv, DropInv, Reachable
<1>4. ASSUME NEW o \in Ops, NEW k \in Keys, RemoveAccount(o, k)
      PROVE  DropInv'
  BY <1>4 DEF RemoveAccount, Write, Goto, storeVars, poolVars, connVars, reqVars, TypeOK, RequestInv, PoolInv, DropInv, Reachable
<1>5. ASSUME NEW o \in Ops, FindPool(o)
      PROVE  DropInv'
  BY <1>5 DEF FindPool, Goto, storeVars, poolVars, connVars, reqVars, TypeOK, RequestInv, PoolInv, DropInv, Reachable
<1>6. ASSUME NEW o \in Ops, LockForCreate(o)
      PROVE  DropInv'
  BY <1>6 DEF LockForCreate, Goto, storeVars, poolVars, connVars, reqVars, TypeOK, RequestInv, PoolInv, DropInv, Reachable
<1>7. ASSUME NEW o \in Ops, RejectAccount(o)
      PROVE  DropInv'
  BY <1>7 DEF RejectAccount, Return, Goto, storeVars, poolVars, connVars, reqVars, TypeOK, RequestInv, PoolInv, DropInv, Reachable
<1>8. ASSUME NEW o \in Ops, NEW p \in Pools, CreatePool(o, p)
      PROVE  DropInv'
  <2>1. key[o] \in Keys /\ pools[key[o]] = NoPool /\ pc[o] = "create"
    BY <1>8, RequestTypes DEF CreatePool, LockInv
  <2>2. /\ pools' = [pools EXCEPT ![key[o]] = p]
        /\ poolKey' = [poolKey EXCEPT ![p] = key[o]]
        /\ closed' = [closed EXCEPT ![p] = FALSE]
        /\ pool' = [pool EXCEPT ![o] = p]
        /\ pc' = [pc EXCEPT ![o] = "acquire"]
    BY <1>8 DEF CreatePool, Goto
  <2>3. ASSUME NEW q \in Pools, q # p, poolKey[q] # NoKey, ~closed[q]
        PROVE  Reachable(q)'
    <3>1. CASE pools[poolKey[q]] = q
      BY <2>1, <2>2, <2>3, <3>1 DEF Reachable, TypeOK
    <3>2. CASE \E r \in Ops : pc[r] = "close" /\ pool[r] = q
      BY <2>1, <2>2, <3>2 DEF Reachable, TypeOK
    <3>3. QED
      BY <2>3, <3>1, <3>2 DEF DropInv, Reachable
  <2>4. Reachable(p)'
    BY <2>1, <2>2 DEF Reachable, TypeOK
  <2>5. QED
    BY <2>2, <2>3, <2>4 DEF DropInv, TypeOK
<1>9. ASSUME NEW o \in Ops, AcquireClosed(o)
      PROVE  DropInv'
  BY <1>9 DEF AcquireClosed, Return, Goto, storeVars, poolVars, connVars, reqVars, TypeOK, RequestInv, PoolInv, DropInv, Reachable
<1>10. ASSUME NEW o \in Ops, LockPool(o)
      PROVE  DropInv'
  BY <1>10 DEF LockPool, Lock, Goto, storeVars, poolVars, connVars, reqVars, TypeOK, RequestInv, PoolInv, DropInv, Reachable
<1>11. ASSUME NEW o \in Ops, DiscardIdle(o)
      PROVE  DropInv'
  BY <1>11 DEF DiscardIdle, PopIdle, Close, opVars, Goto, storeVars, poolVars, connVars, reqVars, TypeOK, RequestInv, PoolInv, DropInv, Reachable
<1>12. ASSUME NEW o \in Ops, ReuseIdle(o)
      PROVE  DropInv'
  BY <1>12 DEF ReuseIdle, PopIdle, Unlock, Goto, storeVars, poolVars, connVars, reqVars, TypeOK, RequestInv, PoolInv, DropInv, Reachable
<1>13. ASSUME NEW o \in Ops, LimitReached(o)
      PROVE  DropInv'
  BY <1>13 DEF LimitReached, Unlock, Return, Goto, storeVars, poolVars, connVars, reqVars, TypeOK, RequestInv, PoolInv, DropInv, Reachable
<1>14. ASSUME NEW o \in Ops, DialFails(o)
      PROVE  DropInv'
  BY <1>14 DEF DialFails, Unlock, Return, MayDial, Goto, storeVars, poolVars, connVars, reqVars, TypeOK, RequestInv, PoolInv, DropInv, Reachable
<1>15. ASSUME NEW o \in Ops, NEW c \in Conns, Dial(o, c)
      PROVE  DropInv'
  BY <1>15 DEF Dial, MayDial, FreeConns, Goto, storeVars, poolVars, connVars, reqVars, TypeOK, RequestInv, PoolInv, DropInv, Reachable
<1>16. ASSUME NEW o \in Ops, LoginFails(o)
      PROVE  DropInv'
  BY <1>16 DEF LoginFails, Close, Unlock, Return, Goto, storeVars, poolVars, connVars, reqVars, TypeOK, RequestInv, PoolInv, DropInv, Reachable
<1>17. ASSUME NEW o \in Ops, LoginOk(o)
      PROVE  DropInv'
  BY <1>17 DEF LoginOk, Unlock, Goto, storeVars, poolVars, connVars, reqVars, TypeOK, RequestInv, PoolInv, DropInv, Reachable
<1>18. ASSUME NEW o \in Ops, ReleaseNoPool(o)
      PROVE  DropInv'
  BY <1>18 DEF ReleaseNoPool, Close, Return, Goto, storeVars, poolVars, connVars, reqVars, TypeOK, RequestInv, PoolInv, DropInv, Reachable
<1>19. ASSUME NEW o \in Ops, ReleaseFind(o)
      PROVE  DropInv'
  BY <1>19 DEF ReleaseFind, Goto, storeVars, poolVars, connVars, reqVars, TypeOK, RequestInv, PoolInv, DropInv, Reachable
<1>20. ASSUME NEW o \in Ops, NEW hadError \in BOOLEAN, ReleaseClose(o, hadError)
      PROVE  DropInv'
  BY <1>20 DEF ReleaseClose, Close, Return, Parks, Goto, storeVars, poolVars, connVars, reqVars, TypeOK, RequestInv, PoolInv, DropInv, Reachable
<1>21. ASSUME NEW o \in Ops, ReleaseIdle(o)
      PROVE  DropInv'
  BY <1>21 DEF ReleaseIdle, Close, Return, Parks, Goto, storeVars, poolVars, connVars, reqVars, TypeOK, RequestInv, PoolInv, DropInv, Reachable
<1>22. ASSUME NEW o \in Ops, DropMissing(o)
      PROVE  DropInv'
  BY <1>22 DEF DropMissing, Settle, Return, Goto, storeVars, poolVars, connVars, reqVars, TypeOK, RequestInv, PoolInv, DropInv, Reachable
<1>23. ASSUME NEW o \in Ops, DropFromMap(o)
      PROVE  DropInv'
  BY <1>23 DEF DropFromMap, Goto, storeVars, poolVars, connVars, reqVars, TypeOK, RequestInv, PoolInv, DropInv, Reachable
<1>24. ASSUME NEW o \in Ops, MarkClosed(o)
      PROVE  DropInv'
  BY <1>24 DEF MarkClosed, Lock, Goto, storeVars, poolVars, connVars, reqVars, TypeOK, RequestInv, PoolInv, DropInv, Reachable
<1>25. ASSUME NEW o \in Ops, CloseIdle(o)
      PROVE  DropInv'
  BY <1>25 DEF CloseIdle, Close, Unlock, Settle, Return, IdleConns, Goto, storeVars, poolVars, connVars, reqVars, TypeOK, RequestInv, PoolInv, DropInv, Reachable
<1>26. CASE UNCHANGED vars
  BY <1>26 DEF vars, TypeOK, RequestInv, PoolInv, DropInv, Reachable
<1>27. QED
  BY <1>1, <1>2, <1>3, <1>4, <1>5, <1>6, <1>7, <1>8, <1>9, <1>10, <1>11, <1>12, <1>13, <1>14, <1>15, <1>16, <1>17, <1>18, <1>19, <1>20, <1>21, <1>22, <1>23, <1>24, <1>25, <1>26 DEF Next, Arrive, Acquire, Release, DropPool

-----------------------------------------------------------------------------
(* Ownership of connections *)

\* The steps that neither open, close nor move a connection.
Quiet(o) ==
  \/ Arrive(o) \/ FindPool(o) \/ LockForCreate(o) \/ RejectAccount(o)
  \/ \E p \in Pools : CreatePool(o, p)
  \/ AcquireClosed(o) \/ LockPool(o) \/ LimitReached(o) \/ DialFails(o) \/ LoginOk(o)
  \/ ReleaseFind(o) \/ DropMissing(o) \/ DropFromMap(o) \/ MarkClosed(o)

\* The steps in which a request closes the connection it holds.
ClosesOwn(o) ==
  \/ LoginFails(o) \/ ReleaseNoPool(o) \/ \E hadError \in BOOLEAN : ReleaseClose(o, hadError)

ControlHyp == TypeOK /\ ControlInv

\* Every step is quiet or one of six that concern a connection.
LEMMA StepKinds ==
  ASSUME [Next]_vars
  PROVE  \/ \E o \in Ops : \/ Quiet(o) \/ ClosesOwn(o) \/ (\E c \in Conns : Dial(o, c))
                           \/ DiscardIdle(o) \/ ReuseIdle(o) \/ ReleaseIdle(o) \/ CloseIdle(o)
         \/ UNCHANGED vars
BY DEF Next, Acquire, Release, DropPool, Quiet, ClosesOwn

\* A quiet step leaves tenants, idle lists and held connections as they are.
LEMMA QuietEffect ==
  ASSUME ControlHyp, NEW o \in Ops, Quiet(o)
  PROVE  /\ UNCHANGED <<tenant, idle, conn>>
         /\ \A r \in Ops : conn[r] # NoConn => key'[r] = key[r]
         /\ \A p \in Pools : idle[p] # <<>> => poolKey'[p] = poolKey[p]
<1> USE DEF ControlHyp, ControlInv
<1>1. CASE RejectAccount(o) \/ AcquireClosed(o) \/ LimitReached(o) \/ DialFails(o) \/ DropMissing(o)
  <2>1. Return(o) /\ UNCHANGED <<tenant, idle, poolKey>> /\ conn[o] = NoConn
    BY <1>1 DEF RejectAccount, AcquireClosed, LimitReached, DialFails, DropMissing,
                connVars, poolVars, RequestInv
  <2>2. QED
    BY <2>1 DEF Return, TypeOK
<1>2. CASE Arrive(o)
  <2>1. /\ UNCHANGED <<tenant, idle, poolKey, conn>> /\ conn[o] = NoConn
        /\ \A r \in Ops \ {o} : key'[r] = key[r]
    BY <1>2 DEF Arrive, GetAccount, NotFound, SaveAccount, RemoveAccount, Write,
                connVars, poolVars, vars, RequestInv, TypeOK
  <2>2. QED
    BY <2>1
<1>3. CASE \E p \in Pools : CreatePool(o, p)
  <2>1. PICK p \in Pools : CreatePool(o, p)
    BY <1>3
  <2>2. idle[p] = <<>>
    BY <2>1, FreePoolEmpty DEF CreatePool
  <2>3. UNCHANGED <<tenant, conn, key>> /\ poolKey' = [poolKey EXCEPT ![p] = key[o]]
        /\ idle' = [idle EXCEPT ![p] = <<>>]
    BY <2>1 DEF CreatePool, connVars, reqVars
  <2>4. idle' = idle
    BY <2>2, <2>3 DEF TypeOK
  <2>5. QED
    BY <2>2, <2>3, <2>4 DEF TypeOK
<1>4. CASE FindPool(o) \/ LockForCreate(o) \/ LockPool(o) \/ LoginOk(o) \/ ReleaseFind(o)
           \/ DropFromMap(o) \/ MarkClosed(o)
  BY <1>4 DEF FindPool, LockForCreate, LockPool, LoginOk, ReleaseFind, DropFromMap,
              MarkClosed, connVars, poolVars, reqVars
<1>5. QED
  BY <1>1, <1>2, <1>3, <1>4 DEF Quiet

\* LoginFails, ReleaseNoPool and ReleaseClose close the connection held, no other.
LEMMA ClosesOwnEffect ==
  ASSUME ControlHyp, NEW o \in Ops, ClosesOwn(o)
  PROVE  /\ conn[o] \in Conns
         /\ tenant' = [c \in Conns |-> IF c = conn[o] THEN NoKey ELSE tenant[c]]
         /\ conn' = [conn EXCEPT ![o] = NoConn]
         /\ UNCHANGED <<idle, poolKey>>
         /\ \A r \in Ops \ {o} : key'[r] = key[r]
<1>1. Close({conn[o]}) /\ Return(o) /\ UNCHANGED <<idle, poolKey>> /\ pc[o] \in {"login", "held", "put"}
  BY DEF ClosesOwn, LoginFails, ReleaseNoPool, ReleaseClose, poolVars
<1>2. QED
  BY <1>1, RequestTypes DEF Close, Return, ControlHyp, ControlInv, TypeOK

\* Dial opens an unused connection for the goroutine's own account.
LEMMA DialEffect ==
  ASSUME ControlHyp, NEW o \in Ops, NEW c \in Conns, Dial(o, c)
  PROVE  /\ tenant[c] = NoKey /\ key[o] \in Keys /\ conn[o] = NoConn
         /\ tenant' = [tenant EXCEPT ![c] = key[o]]
         /\ conn' = [conn EXCEPT ![o] = c]
         /\ UNCHANGED <<idle, key, poolKey>>
BY RequestTypes DEF Dial, FreeConns, reqVars, poolVars, ControlHyp, ControlInv, RequestInv, TypeOK

\* Taking the newest connection off the idle list of the goroutine's pool.
LEMMA PopEffect ==
  ASSUME ControlHyp, IdleInv, NEW o \in Ops, pc[o] = "scan", NEW p, p = pool[o],
         idle[p] # <<>>, NEW c, c = LastOf(idle[p]), PopIdle(p)
  PROVE  /\ p \in Pools /\ c \in Conns /\ c \in IdleConns(p) /\ poolKey[p] = key[o]
         /\ IdleConns(p)' = IdleConns(p) \ {c}
         /\ \A q \in Pools \ {p} : idle'[q] = idle[q] /\ IdleConns(q)' = IdleConns(q)
         /\ \A q \in Pools : IsInjective(idle'[q])
         /\ Len(idle'[p]) = Len(idle[p]) - 1
<1>1. p \in Pools /\ idle[p] \in Seq(Conns) /\ poolKey[p] = key[o]
  BY RequestTypes DEF ControlHyp, ControlInv, RequestInv, TypeOK
<1>2. IsInjective(idle[p])
  BY <1>1 DEF IdleInv
<1>3. /\ c \in Conns /\ c \in Range(idle[p])
      /\ Range(ButLast(idle[p])) = Range(idle[p]) \ {c}
      /\ IsInjective(ButLast(idle[p]))
      /\ Len(ButLast(idle[p])) = Len(idle[p]) - 1
  BY <1>1, <1>2, ButLastFacts, ButLastRange
<1>4. idle'[p] = ButLast(idle[p]) /\ \A q \in Pools \ {p} : idle'[q] = idle[q]
  BY <1>1 DEF PopIdle, ControlHyp, TypeOK
<1>5. \A q \in Pools : IsInjective(idle'[q])
  BY <1>3, <1>4 DEF IdleInv
<1>6. IdleConns(p)' = IdleConns(p) \ {c}
  BY <1>3, <1>4 DEF IdleConns
<1>7. \A q \in Pools \ {p} : IdleConns(q)' = IdleConns(q)
  BY <1>4 DEF IdleConns
<1>8. c \in IdleConns(p)
  BY <1>3 DEF IdleConns
<1>9. QED
  BY <1>1, <1>3, <1>4, <1>5, <1>6, <1>7, <1>8

\* Release into the idle list.
LEMMA ParkEffect ==
  ASSUME ControlHyp, HeldInv, IdleInv, NEW o \in Ops, ReleaseIdle(o),
         NEW p, p = pool[o], NEW c, c = conn[o]
  PROVE  /\ p \in Pools /\ c \in Conns /\ poolKey[p] = key[o] /\ tenant[c] = key[o]
         /\ UNCHANGED poolKey
         /\ conn' = [conn EXCEPT ![o] = NoConn]
         /\ \A r \in Ops \ {o} : key'[r] = key[r]
         /\ Len(idle'[p]) <= MaxConns /\ Len(idle'[p]) <= Len(idle[p]) + 1
         /\ \A q \in Pools \ {p} : idle'[q] = idle[q] /\ IdleConns(q)' = IdleConns(q)
         /\ \A q \in Pools : IsInjective(idle'[q])
         /\ \E out \in SUBSET (IdleConns(p) \cup {c}) :
              /\ tenant' = [d \in Conns |-> IF d \in out THEN NoKey ELSE tenant[d]]
              /\ IdleConns(p)' = (IdleConns(p) \cup {c}) \ out
<1>1. /\ p \in Pools /\ c \in Conns /\ poolKey[p] = key[o] /\ tenant[c] = key[o]
      /\ idle[p] \in Seq(Conns)
  BY RequestTypes DEF ReleaseIdle, ControlHyp, ControlInv, RequestInv, TypeOK, HeldInv, TenantIsolation
<1>2. IsInjective(idle[p]) /\ c \notin Range(idle[p])
  BY <1>1 DEF IdleInv, IdleConns
<1>3. PICK u : u = Append(idle[p], c)
  OBVIOUS
<1>3a. /\ u \in Seq(Conns) /\ Len(u) = Len(idle[p]) + 1 /\ u[Len(idle[p]) + 1] = c
       /\ \A i \in 1..Len(idle[p]) : u[i] = idle[p][i]
  BY <1>1, <1>3, LenProperties
<1>4. PICK s, out : s = Kept(u) /\ out = Trimmed(u)
  OBVIOUS
<1>5. /\ idle' = [idle EXCEPT ![p] = s] /\ Close(out) /\ Return(o) /\ UNCHANGED poolKey
  BY <1>3, <1>4 DEF ReleaseIdle
<1>6. /\ Len(s) <= MaxConns /\ Len(s) <= Len(idle[p]) + 1 /\ IsInjective(s)
      /\ out \subseteq Range(idle[p]) \cup {c}
      /\ Range(s) = (Range(idle[p]) \cup {c}) \ out
  BY <1>1, <1>2, <1>3a, <1>4, ParkFacts
<1>7. idle'[p] = s /\ \A q \in Pools \ {p} : idle'[q] = idle[q]
  BY <1>1, <1>5 DEF ControlHyp, TypeOK
<1>8. \A q \in Pools : IsInjective(idle'[q])
  BY <1>6, <1>7 DEF IdleInv
<1>9. tenant' = [d \in Conns |-> IF d \in out THEN NoKey ELSE tenant[d]]
  BY <1>5 DEF Close
<1>10. conn' = [conn EXCEPT ![o] = NoConn] /\ \A r \in Ops \ {o} : key'[r] = key[r]
  BY <1>5 DEF Return, ControlHyp, TypeOK
<1>11. /\ out \in SUBSET (IdleConns(p) \cup {c})
       /\ IdleConns(p)' = (IdleConns(p) \cup {c}) \ out
       /\ \A q \in Pools \ {p} : IdleConns(q)' = IdleConns(q)
  BY <1>6, <1>7 DEF IdleConns
<1>12. QED
  BY <1>1, <1>5, <1>6, <1>7, <1>8, <1>9, <1>10, <1>11

\* closeAll closes what is idle in its pool and empties the list.
LEMMA CloseIdleEffect ==
  ASSUME ControlHyp, IdleInv, NEW o \in Ops, CloseIdle(o), NEW p, p = pool[o]
  PROVE  /\ p \in Pools /\ conn[o] = NoConn
         /\ UNCHANGED <<conn, poolKey>>
         /\ \A r \in Ops \ {o} : key'[r] = key[r]
         /\ tenant' = [d \in Conns |-> IF d \in IdleConns(p) THEN NoKey ELSE tenant[d]]
         /\ IdleConns(p)' = {} /\ idle'[p] = <<>>
         /\ \A q \in Pools \ {p} : idle'[q] = idle[q] /\ IdleConns(q)' = IdleConns(q)
         /\ \A q \in Pools : IsInjective(idle'[q])
<1>1. p \in Pools /\ conn[o] = NoConn
  BY RequestTypes DEF CloseIdle, ControlHyp, ControlInv, RequestInv, TypeOK
<1>2. idle' = [idle EXCEPT ![p] = <<>>] /\ Close(IdleConns(p)) /\ Return(o) /\ UNCHANGED poolKey
  BY DEF CloseIdle
<1>3. idle'[p] = <<>> /\ \A q \in Pools \ {p} : idle'[q] = idle[q]
  BY <1>1, <1>2 DEF ControlHyp, TypeOK
<1>4. UNCHANGED conn /\ \A r \in Ops \ {o} : key'[r] = key[r]
  BY <1>1, <1>2 DEF Return, ControlHyp, TypeOK
<1>5. tenant' = [d \in Conns |-> IF d \in IdleConns(p) THEN NoKey ELSE tenant[d]]
  BY <1>2 DEF Close
<1>6. \A q \in Pools : IsInjective(idle'[q])
  BY <1>3, EmptyFacts DEF IdleInv
<1>7. IdleConns(p)' = {} /\ \A q \in Pools \ {p} : IdleConns(q)' = IdleConns(q)
  BY <1>3, EmptyFacts DEF IdleConns
<1>8. QED
  BY <1>1, <1>2, <1>3, <1>4, <1>5, <1>6, <1>7


\* What the ownership invariant says, in terms of single connections.
LEMMA OwnershipFacts ==
  ASSUME ControlHyp, OwnershipInv
  PROVE  /\ conn \in [Ops -> Conns \cup {NoConn}] /\ tenant \in [Conns -> Keys \cup {NoKey}]
         /\ \A r \in Ops : conn[r] # NoConn =>
              conn[r] \in Conns /\ tenant[conn[r]] = key[r] /\ key[r] # NoKey
         /\ \A r1, r2 \in Ops : conn[r1] = conn[r2] /\ conn[r1] # NoConn => r1 = r2
         /\ \A p \in Pools : \A c \in IdleConns(p) :
              /\ c \in Conns /\ tenant[c] = poolKey[p] /\ poolKey[p] # NoKey /\ idle[p] # <<>>
              /\ \A r \in Ops : conn[r] # c
              /\ \A q \in Pools : c \in IdleConns(q) => p = q
         /\ \A c \in Conns : tenant[c] # NoKey =>
              (\E r \in Ops : conn[r] = c) \/ \E p \in Pools : c \in IdleConns(p)
<1> USE DEF OwnershipInv
<1>1. conn \in [Ops -> Conns \cup {NoConn}] /\ tenant \in [Conns -> Keys \cup {NoKey}]
  BY DEF ControlHyp, TypeOK
<1>2. \A r \in Ops : conn[r] # NoConn =>
        conn[r] \in Conns /\ tenant[conn[r]] = key[r] /\ key[r] # NoKey
  BY <1>1 DEF HeldInv, TenantIsolation, ControlHyp, ControlInv, RequestInv
<1>3. \A r1, r2 \in Ops : conn[r1] = conn[r2] /\ conn[r1] # NoConn => r1 = r2
  BY DEF HeldInv
<1>4. ASSUME NEW p \in Pools, NEW c \in IdleConns(p)
      PROVE  /\ c \in Conns /\ tenant[c] = poolKey[p] /\ poolKey[p] # NoKey /\ idle[p] # <<>>
             /\ \A r \in Ops : conn[r] # c
             /\ \A q \in Pools : c \in IdleConns(q) => p = q
  <2>1. idle[p] \in Seq(Conns) /\ idle[p] # <<>>
    BY RangeEmpty DEF ControlHyp, TypeOK, IdleConns
  <2>2. c \in Conns
    BY <2>1, LenProperties DEF IdleConns, Range
  <2>3. QED
    BY <2>1, <2>2 DEF IdleInv, ControlHyp, ControlInv, PoolInv
<1>5. \A c \in Conns : tenant[c] # NoKey =>
        (\E r \in Ops : conn[r] = c) \/ \E p \in Pools : c \in IdleConns(p)
  BY DEF NoLeakInv
<1>6. QED
  BY <1>1, <1>2, <1>3, <1>4, <1>5


\* Steps that leave the idle lists alone leave what is in them alone.
LEMMA SameIdle ==
  ASSUME idle' = idle, ControlHyp
  PROVE  \A p \in Pools : IdleConns(p)' = IdleConns(p)
BY DEF IdleConns


\* A held connection stays its holder's alone, and of its holder's account.
LEMMA HeldStep ==
  ASSUME ControlHyp, OwnershipInv, [Next]_vars
  PROVE  HeldInv'
<1> DEFINE Owned(r) == conn[r] # NoConn => tenant[conn[r]] = key[r]
           Alone(r1, r2) == conn[r1] = conn[r2] /\ conn[r1] # NoConn => r1 = r2
           Goal == (\A r \in Ops : Owned(r)') /\ \A r1, r2 \in Ops : Alone(r1, r2)'
<1>a. SUFFICES Goal
  BY DEF HeldInv, TenantIsolation
<1>1. ASSUME NEW o \in Ops, Quiet(o)
      PROVE  Goal
  <2>1. /\ UNCHANGED <<tenant, idle, conn>>
        /\ \A r \in Ops : conn[r] # NoConn => key'[r] = key[r]
        /\ \A p \in Pools : idle[p] # <<>> => poolKey'[p] = poolKey[p]
    BY <1>1, QuietEffect
  <2>q. QED
    BY <2>1, OwnershipFacts
<1>2. ASSUME NEW o \in Ops, ClosesOwn(o)
      PROVE  Goal
  <2>1. /\ conn[o] \in Conns
        /\ tenant' = [c \in Conns |-> IF c = conn[o] THEN NoKey ELSE tenant[c]]
        /\ conn' = [conn EXCEPT ![o] = NoConn]
        /\ \A r \in Ops \ {o} : key'[r] = key[r]
        /\ UNCHANGED <<idle, poolKey>>
    BY <1>2, ClosesOwnEffect
  <2>q. QED
    BY <2>1, OwnershipFacts
<1>3. ASSUME NEW o \in Ops, NEW c \in Conns, Dial(o, c)
      PROVE  Goal
  <2>1. /\ tenant[c] = NoKey /\ key[o] \in Keys /\ conn[o] = NoConn
        /\ tenant' = [tenant EXCEPT ![c] = key[o]]
        /\ conn' = [conn EXCEPT ![o] = c]
        /\ UNCHANGED <<idle, key, poolKey>>
    BY <1>3, DialEffect
  <2>q. QED
    BY <2>1, OwnershipFacts
<1>4. ASSUME NEW o \in Ops, DiscardIdle(o)
      PROVE  Goal
  <2>a. PICK p, c : p = pool[o] /\ c = LastOf(idle[p])
    OBVIOUS
  <2>b. pc[o] = "scan" /\ idle[p] # <<>> /\ PopIdle(p)
    BY <1>4, <2>a DEF DiscardIdle
  <2>1. /\ p \in Pools /\ c \in Conns /\ c \in IdleConns(p) /\ poolKey[p] = key[o]
        /\ IdleConns(p)' = IdleConns(p) \ {c}
        /\ \A q \in Pools \ {p} : IdleConns(q)' = IdleConns(q)
        /\ \A q \in Pools : IsInjective(idle'[q])
    BY <2>a, <2>b, PopEffect DEF OwnershipInv
  <2>2. /\ UNCHANGED <<poolKey, conn, key>>
        /\ tenant' = [d \in Conns |-> IF d \in {c} THEN NoKey ELSE tenant[d]]
    BY <1>4, <2>a DEF DiscardIdle, Close, opVars
  <2>q. QED
    BY <2>1, <2>2, OwnershipFacts
<1>5. ASSUME NEW o \in Ops, ReuseIdle(o)
      PROVE  Goal
  <2>a. PICK p, c : p = pool[o] /\ c = LastOf(idle[p])
    OBVIOUS
  <2>b. pc[o] = "scan" /\ idle[p] # <<>> /\ PopIdle(p)
    BY <1>5, <2>a DEF ReuseIdle
  <2>1. /\ p \in Pools /\ c \in Conns /\ c \in IdleConns(p) /\ poolKey[p] = key[o]
        /\ IdleConns(p)' = IdleConns(p) \ {c}
        /\ \A q \in Pools \ {p} : IdleConns(q)' = IdleConns(q)
        /\ \A q \in Pools : IsInjective(idle'[q])
    BY <2>a, <2>b, PopEffect DEF OwnershipInv
  <2>2. /\ UNCHANGED <<poolKey, tenant, key>> /\ conn' = [conn EXCEPT ![o] = c]
        /\ conn[o] = NoConn
    BY <1>5, <2>a, <2>b DEF ReuseIdle, connVars, reqVars, ControlHyp, ControlInv, RequestInv
  <2>q. QED
    BY <2>1, <2>2, OwnershipFacts
<1>6. ASSUME NEW o \in Ops, ReleaseIdle(o)
      PROVE  Goal
  <2>a. PICK p, c : p = pool[o] /\ c = conn[o]
    OBVIOUS
  <2>1. /\ p \in Pools /\ c \in Conns /\ poolKey[p] = key[o] /\ tenant[c] = key[o]
        /\ UNCHANGED poolKey
        /\ conn' = [conn EXCEPT ![o] = NoConn]
        /\ \A r \in Ops \ {o} : key'[r] = key[r]
        /\ \A q \in Pools \ {p} : IdleConns(q)' = IdleConns(q)
        /\ \A q \in Pools : IsInjective(idle'[q])
    BY <1>6, <2>a, ParkEffect DEF OwnershipInv
  <2>2. PICK out \in SUBSET (IdleConns(p) \cup {c}) :
          /\ tenant' = [d \in Conns |-> IF d \in out THEN NoKey ELSE tenant[d]]
          /\ IdleConns(p)' = (IdleConns(p) \cup {c}) \ out
    BY <1>6, <2>a, ParkEffect DEF OwnershipInv
  <2>q. QED
    BY <2>1, <2>2, <2>a, OwnershipFacts
<1>7. ASSUME NEW o \in Ops, CloseIdle(o)
      PROVE  Goal
  <2>a. PICK p : p = pool[o]
    OBVIOUS
  <2>1. /\ p \in Pools /\ conn[o] = NoConn
        /\ UNCHANGED <<conn, poolKey>>
        /\ \A r \in Ops \ {o} : key'[r] = key[r]
        /\ tenant' = [d \in Conns |-> IF d \in IdleConns(p) THEN NoKey ELSE tenant[d]]
        /\ IdleConns(p)' = {}
        /\ \A q \in Pools \ {p} : IdleConns(q)' = IdleConns(q)
        /\ \A q \in Pools : IsInjective(idle'[q])
    BY <1>7, <2>a, CloseIdleEffect DEF OwnershipInv
  <2>q. QED
    BY <2>1, OwnershipFacts
<1>8. CASE UNCHANGED vars
  BY <1>8 DEF vars, OwnershipInv, HeldInv, TenantIsolation
<1>9. QED
  BY <1>1, <1>2, <1>3, <1>4, <1>5, <1>6, <1>7, <1>8, StepKinds


\* Idle lists stay disjoint and hold nothing that is in use.
LEMMA IdleStep ==
  ASSUME ControlHyp, OwnershipInv, [Next]_vars
  PROVE  IdleInv'
<1> DEFINE InTenant(p) == \A c \in IdleConns(p) : tenant[c] = poolKey[p]
           Disjoint(p, q) == \A c \in IdleConns(p) : c \in IdleConns(q) => p = q
           NotHeld(p, r) == conn[r] \notin IdleConns(p)
           Goal == /\ \A p \in Pools : IsInjective(idle'[p])
                   /\ \A p \in Pools : InTenant(p)'
                   /\ \A p, q \in Pools : Disjoint(p, q)'
                   /\ \A p \in Pools, r \in Ops : NotHeld(p, r)'
<1>a. SUFFICES Goal
  BY DEF IdleInv
<1>b. \A p \in Pools : IsInjective(idle[p])
  BY DEF OwnershipInv, IdleInv
<1>1. ASSUME NEW o \in Ops, Quiet(o)
      PROVE  Goal
  <2>1. /\ UNCHANGED <<tenant, idle, conn>>
        /\ \A r \in Ops : conn[r] # NoConn => key'[r] = key[r]
        /\ \A p \in Pools : idle[p] # <<>> => poolKey'[p] = poolKey[p]
    BY <1>1, QuietEffect
  <2>c. \A p \in Pools : IdleConns(p)' = IdleConns(p)
    BY <2>1, SameIdle
  <2>p. \A q \in Pools : IsInjective(idle'[q])
    BY <2>1, <1>b
  <2>q. \A q \in Pools : InTenant(q)'
    BY <2>1, <2>c, OwnershipFacts
  <2>r. \A q1, q2 \in Pools : Disjoint(q1, q2)'
    BY <2>1, <2>c, OwnershipFacts
  <2>s. \A q \in Pools, r \in Ops : NotHeld(q, r)'
    BY <2>1, <2>c, OwnershipFacts
  <2>t. QED
    BY <2>p, <2>q, <2>r, <2>s
<1>2. ASSUME NEW o \in Ops, ClosesOwn(o)
      PROVE  Goal
  <2>1. /\ conn[o] \in Conns
        /\ tenant' = [c \in Conns |-> IF c = conn[o] THEN NoKey ELSE tenant[c]]
        /\ conn' = [conn EXCEPT ![o] = NoConn]
        /\ \A r \in Ops \ {o} : key'[r] = key[r]
        /\ UNCHANGED <<idle, poolKey>>
    BY <1>2, ClosesOwnEffect
  <2>c. \A p \in Pools : IdleConns(p)' = IdleConns(p)
    BY <2>1, SameIdle
  <2>p. \A q \in Pools : IsInjective(idle'[q])
    BY <2>1, <1>b
  <2>q. \A q \in Pools : InTenant(q)'
    BY <2>1, <2>c, OwnershipFacts
  <2>r. \A q1, q2 \in Pools : Disjoint(q1, q2)'
    BY <2>1, <2>c, OwnershipFacts
  <2>s. \A q \in Pools, r \in Ops : NotHeld(q, r)'
    BY <2>1, <2>c, OwnershipFacts
  <2>t. QED
    BY <2>p, <2>q, <2>r, <2>s
<1>3. ASSUME NEW o \in Ops, NEW c \in Conns, Dial(o, c)
      PROVE  Goal
  <2>1. /\ tenant[c] = NoKey /\ key[o] \in Keys /\ conn[o] = NoConn
        /\ tenant' = [tenant EXCEPT ![c] = key[o]]
        /\ conn' = [conn EXCEPT ![o] = c]
        /\ UNCHANGED <<idle, key, poolKey>>
    BY <1>3, DialEffect
  <2>c. \A p \in Pools : IdleConns(p)' = IdleConns(p)
    BY <2>1, SameIdle
  <2>p. \A q \in Pools : IsInjective(idle'[q])
    BY <2>1, <1>b
  <2>q. \A q \in Pools : InTenant(q)'
    BY <2>1, <2>c, OwnershipFacts
  <2>r. \A q1, q2 \in Pools : Disjoint(q1, q2)'
    BY <2>1, <2>c, OwnershipFacts
  <2>s. \A q \in Pools, r \in Ops : NotHeld(q, r)'
    BY <2>1, <2>c, OwnershipFacts
  <2>t. QED
    BY <2>p, <2>q, <2>r, <2>s
<1>4. ASSUME NEW o \in Ops, DiscardIdle(o)
      PROVE  Goal
  <2>a. PICK p, c : p = pool[o] /\ c = LastOf(idle[p])
    OBVIOUS
  <2>b. pc[o] = "scan" /\ idle[p] # <<>> /\ PopIdle(p)
    BY <1>4, <2>a DEF DiscardIdle
  <2>1. /\ p \in Pools /\ c \in Conns /\ c \in IdleConns(p) /\ poolKey[p] = key[o]
        /\ IdleConns(p)' = IdleConns(p) \ {c}
        /\ \A q \in Pools \ {p} : IdleConns(q)' = IdleConns(q)
        /\ \A q \in Pools : IsInjective(idle'[q])
    BY <2>a, <2>b, PopEffect DEF OwnershipInv
  <2>2. /\ UNCHANGED <<poolKey, conn, key>>
        /\ tenant' = [d \in Conns |-> IF d \in {c} THEN NoKey ELSE tenant[d]]
    BY <1>4, <2>a DEF DiscardIdle, Close, opVars
  <2>p. \A q \in Pools : IsInjective(idle'[q])
    BY <2>1, <1>b
  <2>q. \A q \in Pools : InTenant(q)'
    BY <2>1, <2>2, OwnershipFacts
  <2>r. \A q1, q2 \in Pools : Disjoint(q1, q2)'
    BY <2>1, <2>2, OwnershipFacts
  <2>s. \A q \in Pools, r \in Ops : NotHeld(q, r)'
    BY <2>1, <2>2, OwnershipFacts
  <2>t. QED
    BY <2>p, <2>q, <2>r, <2>s
<1>5. ASSUME NEW o \in Ops, ReuseIdle(o)
      PROVE  Goal
  <2>a. PICK p, c : p = pool[o] /\ c = LastOf(idle[p])
    OBVIOUS
  <2>b. pc[o] = "scan" /\ idle[p] # <<>> /\ PopIdle(p)
    BY <1>5, <2>a DEF ReuseIdle
  <2>1. /\ p \in Pools /\ c \in Conns /\ c \in IdleConns(p) /\ poolKey[p] = key[o]
        /\ IdleConns(p)' = IdleConns(p) \ {c}
        /\ \A q \in Pools \ {p} : IdleConns(q)' = IdleConns(q)
        /\ \A q \in Pools : IsInjective(idle'[q])
    BY <2>a, <2>b, PopEffect DEF OwnershipInv
  <2>2. /\ UNCHANGED <<poolKey, tenant, key>> /\ conn' = [conn EXCEPT ![o] = c]
        /\ conn[o] = NoConn
    BY <1>5, <2>a, <2>b DEF ReuseIdle, connVars, reqVars, ControlHyp, ControlInv, RequestInv
  <2>p. \A q \in Pools : IsInjective(idle'[q])
    BY <2>1, <1>b
  <2>q. \A q \in Pools : InTenant(q)'
    BY <2>1, <2>2, OwnershipFacts
  <2>r. \A q1, q2 \in Pools : Disjoint(q1, q2)'
    BY <2>1, <2>2, OwnershipFacts
  <2>s. \A q \in Pools, r \in Ops : NotHeld(q, r)'
    BY <2>1, <2>2, OwnershipFacts
  <2>t. QED
    BY <2>p, <2>q, <2>r, <2>s
<1>6. ASSUME NEW o \in Ops, ReleaseIdle(o)
      PROVE  Goal
  <2>a. PICK p, c : p = pool[o] /\ c = conn[o]
    OBVIOUS
  <2>1. /\ p \in Pools /\ c \in Conns /\ poolKey[p] = key[o] /\ tenant[c] = key[o]
        /\ UNCHANGED poolKey
        /\ conn' = [conn EXCEPT ![o] = NoConn]
        /\ \A r \in Ops \ {o} : key'[r] = key[r]
        /\ \A q \in Pools \ {p} : IdleConns(q)' = IdleConns(q)
        /\ \A q \in Pools : IsInjective(idle'[q])
    BY <1>6, <2>a, ParkEffect DEF OwnershipInv
  <2>2. PICK out \in SUBSET (IdleConns(p) \cup {c}) :
          /\ tenant' = [d \in Conns |-> IF d \in out THEN NoKey ELSE tenant[d]]
          /\ IdleConns(p)' = (IdleConns(p) \cup {c}) \ out
    BY <1>6, <2>a, ParkEffect DEF OwnershipInv
  <2>p. \A q \in Pools : IsInjective(idle'[q])
    BY <2>1, <1>b
  <2>q. \A q \in Pools : InTenant(q)'
    BY <2>1, <2>2, <2>a, OwnershipFacts
  <2>r. \A q1, q2 \in Pools : Disjoint(q1, q2)'
    BY <2>1, <2>2, <2>a, OwnershipFacts
  <2>s. \A q \in Pools, r \in Ops : NotHeld(q, r)'
    BY <2>1, <2>2, <2>a, OwnershipFacts
  <2>t. QED
    BY <2>p, <2>q, <2>r, <2>s
<1>7. ASSUME NEW o \in Ops, CloseIdle(o)
      PROVE  Goal
  <2>a. PICK p : p = pool[o]
    OBVIOUS
  <2>1. /\ p \in Pools /\ conn[o] = NoConn
        /\ UNCHANGED <<conn, poolKey>>
        /\ \A r \in Ops \ {o} : key'[r] = key[r]
        /\ tenant' = [d \in Conns |-> IF d \in IdleConns(p) THEN NoKey ELSE tenant[d]]
        /\ IdleConns(p)' = {}
        /\ \A q \in Pools \ {p} : IdleConns(q)' = IdleConns(q)
        /\ \A q \in Pools : IsInjective(idle'[q])
    BY <1>7, <2>a, CloseIdleEffect DEF OwnershipInv
  <2>p. \A q \in Pools : IsInjective(idle'[q])
    BY <2>1, <1>b
  <2>q. \A q \in Pools : InTenant(q)'
    BY <2>1, OwnershipFacts
  <2>r. \A q1, q2 \in Pools : Disjoint(q1, q2)'
    BY <2>1, OwnershipFacts
  <2>s. \A q \in Pools, r \in Ops : NotHeld(q, r)'
    BY <2>1, OwnershipFacts
  <2>t. QED
    BY <2>p, <2>q, <2>r, <2>s
<1>8. CASE UNCHANGED vars
  BY <1>8 DEF vars, OwnershipInv, IdleInv, IdleConns
<1>9. QED
  BY <1>1, <1>2, <1>3, <1>4, <1>5, <1>6, <1>7, <1>8, StepKinds


\* An open connection stays held or idle.
LEMMA NoLeakStep ==
  ASSUME ControlHyp, OwnershipInv, [Next]_vars
  PROVE  NoLeakInv'
<1> DEFINE Placed(c) == tenant[c] # NoKey =>
              (\E r \in Ops : conn[r] = c) \/ \E p \in Pools : c \in IdleConns(p)
           Goal == \A c \in Conns : Placed(c)'
<1>a. SUFFICES Goal
  BY DEF NoLeakInv
<1>1. ASSUME NEW o \in Ops, Quiet(o)
      PROVE  Goal
  <2>1. /\ UNCHANGED <<tenant, idle, conn>>
        /\ \A r \in Ops : conn[r] # NoConn => key'[r] = key[r]
        /\ \A p \in Pools : idle[p] # <<>> => poolKey'[p] = poolKey[p]
    BY <1>1, QuietEffect
  <2>c. \A p \in Pools : IdleConns(p)' = IdleConns(p)
    BY <2>1, SameIdle
  <2>q. QED
    BY <2>1, <2>c, OwnershipFacts
<1>2. ASSUME NEW o \in Ops, ClosesOwn(o)
      PROVE  Goal
  <2>1. /\ conn[o] \in Conns
        /\ tenant' = [c \in Conns |-> IF c = conn[o] THEN NoKey ELSE tenant[c]]
        /\ conn' = [conn EXCEPT ![o] = NoConn]
        /\ \A r \in Ops \ {o} : key'[r] = key[r]
        /\ UNCHANGED <<idle, poolKey>>
    BY <1>2, ClosesOwnEffect
  <2>c. \A p \in Pools : IdleConns(p)' = IdleConns(p)
    BY <2>1, SameIdle
  <2>q. QED
    BY <2>1, <2>c, OwnershipFacts
<1>3. ASSUME NEW o \in Ops, NEW c \in Conns, Dial(o, c)
      PROVE  Goal
  <2>1. /\ tenant[c] = NoKey /\ key[o] \in Keys /\ conn[o] = NoConn
        /\ tenant' = [tenant EXCEPT ![c] = key[o]]
        /\ conn' = [conn EXCEPT ![o] = c]
        /\ UNCHANGED <<idle, key, poolKey>>
    BY <1>3, DialEffect
  <2>c. \A p \in Pools : IdleConns(p)' = IdleConns(p)
    BY <2>1, SameIdle
  <2>q. QED
    BY <2>1, <2>c, OwnershipFacts
<1>4. ASSUME NEW o \in Ops, DiscardIdle(o)
      PROVE  Goal
  <2>a. PICK p, c : p = pool[o] /\ c = LastOf(idle[p])
    OBVIOUS
  <2>b. pc[o] = "scan" /\ idle[p] # <<>> /\ PopIdle(p)
    BY <1>4, <2>a DEF DiscardIdle
  <2>1. /\ p \in Pools /\ c \in Conns /\ c \in IdleConns(p) /\ poolKey[p] = key[o]
        /\ IdleConns(p)' = IdleConns(p) \ {c}
        /\ \A q \in Pools \ {p} : IdleConns(q)' = IdleConns(q)
        /\ \A q \in Pools : IsInjective(idle'[q])
    BY <2>a, <2>b, PopEffect DEF OwnershipInv
  <2>2. /\ UNCHANGED <<poolKey, conn, key>>
        /\ tenant' = [d \in Conns |-> IF d \in {c} THEN NoKey ELSE tenant[d]]
    BY <1>4, <2>a DEF DiscardIdle, Close, opVars
  <2>q. QED
    BY <2>1, <2>2, OwnershipFacts
<1>5. ASSUME NEW o \in Ops, ReuseIdle(o)
      PROVE  Goal
  <2>a. PICK p, c : p = pool[o] /\ c = LastOf(idle[p])
    OBVIOUS
  <2>b. pc[o] = "scan" /\ idle[p] # <<>> /\ PopIdle(p)
    BY <1>5, <2>a DEF ReuseIdle
  <2>1. /\ p \in Pools /\ c \in Conns /\ c \in IdleConns(p) /\ poolKey[p] = key[o]
        /\ IdleConns(p)' = IdleConns(p) \ {c}
        /\ \A q \in Pools \ {p} : IdleConns(q)' = IdleConns(q)
        /\ \A q \in Pools : IsInjective(idle'[q])
    BY <2>a, <2>b, PopEffect DEF OwnershipInv
  <2>2. /\ UNCHANGED <<poolKey, tenant, key>> /\ conn' = [conn EXCEPT ![o] = c]
        /\ conn[o] = NoConn
    BY <1>5, <2>a, <2>b DEF ReuseIdle, connVars, reqVars, ControlHyp, ControlInv, RequestInv
  <2>q. QED
    BY <2>1, <2>2, OwnershipFacts
<1>6. ASSUME NEW o \in Ops, ReleaseIdle(o)
      PROVE  Goal
  <2>a. PICK p, c : p = pool[o] /\ c = conn[o]
    OBVIOUS
  <2>1. /\ p \in Pools /\ c \in Conns /\ poolKey[p] = key[o] /\ tenant[c] = key[o]
        /\ UNCHANGED poolKey
        /\ conn' = [conn EXCEPT ![o] = NoConn]
        /\ \A r \in Ops \ {o} : key'[r] = key[r]
        /\ \A q \in Pools \ {p} : IdleConns(q)' = IdleConns(q)
        /\ \A q \in Pools : IsInjective(idle'[q])
    BY <1>6, <2>a, ParkEffect DEF OwnershipInv
  <2>2. PICK out \in SUBSET (IdleConns(p) \cup {c}) :
          /\ tenant' = [d \in Conns |-> IF d \in out THEN NoKey ELSE tenant[d]]
          /\ IdleConns(p)' = (IdleConns(p) \cup {c}) \ out
    BY <1>6, <2>a, ParkEffect DEF OwnershipInv
  <2>q. QED
    BY <2>1, <2>2, <2>a, OwnershipFacts
<1>7. ASSUME NEW o \in Ops, CloseIdle(o)
      PROVE  Goal
  <2>a. PICK p : p = pool[o]
    OBVIOUS
  <2>1. /\ p \in Pools /\ conn[o] = NoConn
        /\ UNCHANGED <<conn, poolKey>>
        /\ \A r \in Ops \ {o} : key'[r] = key[r]
        /\ tenant' = [d \in Conns |-> IF d \in IdleConns(p) THEN NoKey ELSE tenant[d]]
        /\ IdleConns(p)' = {}
        /\ \A q \in Pools \ {p} : IdleConns(q)' = IdleConns(q)
        /\ \A q \in Pools : IsInjective(idle'[q])
    BY <1>7, <2>a, CloseIdleEffect DEF OwnershipInv
  <2>q. QED
    BY <2>1, OwnershipFacts
<1>8. CASE UNCHANGED vars
  BY <1>8 DEF vars, OwnershipInv, NoLeakInv, IdleConns
<1>9. QED
  BY <1>1, <1>2, <1>3, <1>4, <1>5, <1>6, <1>7, <1>8, StepKinds


-----------------------------------------------------------------------------
(* Accounting of slots *)

\* The steps that neither take nor return a slot of a pool.
NoSlot(o) ==
  \/ Arrive(o) \/ FindPool(o) \/ LockForCreate(o) \/ RejectAccount(o)
  \/ AcquireClosed(o) \/ LockPool(o) \/ DiscardIdle(o) \/ LimitReached(o) \/ DialFails(o)
  \/ (\E c \in Conns : Dial(o, c)) \/ LoginFails(o) \/ ReleaseFind(o)
  \/ DropMissing(o) \/ DropFromMap(o) \/ MarkClosed(o) \/ CloseIdle(o)
TakesSlot(o) == ReuseIdle(o) \/ LoginOk(o)
ReturnsSlot(o) == ReleaseIdle(o) \/ \E hadError \in BOOLEAN : ReleaseClose(o, hadError)

\* Every step is one of five kinds for the slots of a pool.
LEMMA SlotKinds ==
  ASSUME [Next]_vars
  PROVE  \/ \E o \in Ops : \/ NoSlot(o) \/ (\E p \in Pools : CreatePool(o, p))
                           \/ TakesSlot(o) \/ ReturnsSlot(o) \/ ReleaseNoPool(o)
         \/ UNCHANGED vars
BY DEF Next, Acquire, Release, DropPool, NoSlot, TakesSlot, ReturnsSlot


\* Idle lists and pool keys, in every step but CreatePool.
LEMMA IdleEffect ==
  ASSUME ControlHyp, OwnershipInv, NEW o \in Ops, NEW p \in Pools,
         NoSlot(o) \/ TakesSlot(o) \/ ReleaseNoPool(o)
  PROVE  /\ UNCHANGED poolKey
         /\ \/ idle'[p] = idle[p]
            \/ Len(idle'[p]) = Len(idle[p]) - 1
            \/ CloseIdle(o) /\ idle'[p] = <<>>
<1>1. CASE DiscardIdle(o) \/ ReuseIdle(o)
  <2>1. PICK q, c : q = pool[o] /\ c = LastOf(idle[q])
    OBVIOUS
  <2>2. pc[o] = "scan" /\ idle[q] # <<>> /\ PopIdle(q) /\ UNCHANGED poolKey
    BY <1>1, <2>1 DEF DiscardIdle, ReuseIdle
  <2>3. Len(idle'[q]) = Len(idle[q]) - 1 /\ (p # q => idle'[p] = idle[p])
    BY <2>1, <2>2, PopEffect DEF OwnershipInv
  <2>4. QED
    BY <2>2, <2>3
<1>2. CASE CloseIdle(o)
  <2>1. PICK q : q = pool[o]
    OBVIOUS
  <2>2. UNCHANGED poolKey /\ idle'[q] = <<>> /\ (p # q => idle'[p] = idle[p])
    BY <1>2, <2>1, CloseIdleEffect DEF OwnershipInv
  <2>3. QED
    BY <1>2, <2>2
<1>3. CASE \E c \in Conns : Dial(o, c)
  BY <1>3 DEF Dial, poolVars
<1>4. CASE NoSlot(o) /\ ~DiscardIdle(o) /\ ~CloseIdle(o) /\ ~(\E c \in Conns : Dial(o, c))
  BY <1>4 DEF NoSlot, Arrive, GetAccount, NotFound, SaveAccount, RemoveAccount, Write,
     FindPool, LockForCreate, RejectAccount, AcquireClosed, LockPool, LimitReached, DialFails,
     LoginFails, ReleaseFind, DropMissing, DropFromMap, MarkClosed, poolVars, vars
<1>5. CASE LoginOk(o) \/ ReleaseNoPool(o)
  BY <1>5 DEF LoginOk, ReleaseNoPool, poolVars
<1>6. QED
  BY <1>1, <1>2, <1>3, <1>4, <1>5 DEF TakesSlot

\* Such a step keeps inUse and from; the map only loses pools of written accounts.
LEMMA NoSlotEffect ==
  ASSUME ControlHyp, NEW o \in Ops, NoSlot(o)
  PROVE  /\ UNCHANGED inUse
         /\ \A r \in Ops : from'[r] = from[r]
         /\ \A k \in Keys : version'[k] >= version[k]
         /\ \A k \in Keys : pools'[k] = pools[k] \/ (pools'[k] = NoPool /\ version[k] > 0)
<1> USE DEF ControlHyp, ControlInv
<1>0. \A k \in Keys : version[k] \in Nat
  BY DEF TypeOK
<1>1. CASE Arrive(o)
  <2>1. PICK k \in Keys : GetAccount(o, k) \/ NotFound(o, k) \/ SaveAccount(o, k) \/ RemoveAccount(o, k)
    BY <1>1 DEF Arrive
  <2>2. UNCHANGED <<inUse, from, pools>>
        /\ (version' = version \/ version' = [version EXCEPT ![k] = @ + 1])
    BY <2>1 DEF GetAccount, NotFound, SaveAccount, RemoveAccount, Write, poolVars, storeVars, vars
  <2>3. \A m \in Keys : version'[m] = version[m] \/ version'[m] = version[m] + 1
    BY <2>2 DEF TypeOK
  <2>4. QED
    BY <1>0, <2>2, <2>3
<1>2. CASE DropFromMap(o)
  <2>1. /\ UNCHANGED <<inUse, from, version>> /\ pools' = [pools EXCEPT ![key[o]] = NoPool]
        /\ pc[o] = "drop"
    BY <1>2 DEF DropFromMap, poolVars, storeVars
  <2>2. key[o] \in Keys /\ version[key[o]] > 0
    BY <2>1, RequestTypes DEF RequestInv
  <2>3. QED
    BY <1>0, <2>1, <2>2 DEF TypeOK
<1>3. CASE \/ RejectAccount(o) \/ AcquireClosed(o) \/ LimitReached(o) \/ DialFails(o)
           \/ LoginFails(o) \/ DropMissing(o) \/ CloseIdle(o)
  <2>1. /\ UNCHANGED <<inUse, version, pools>> /\ Return(o)
        /\ pc[o] \in {"create", "acquire", "scan", "login", "drop", "logout"}
    BY <1>3 DEF RejectAccount, AcquireClosed, LimitReached, DialFails, LoginFails, DropMissing,
                CloseIdle, Settle, poolVars, storeVars
  <2>2. from[o] = NoPool
    BY <2>1 DEF RequestInv
  <2>3. QED
    BY <1>0, <2>1, <2>2 DEF Return, TypeOK
<1>4. CASE \/ FindPool(o) \/ LockForCreate(o) \/ LockPool(o) \/ DiscardIdle(o)
           \/ (\E c \in Conns : Dial(o, c)) \/ ReleaseFind(o) \/ MarkClosed(o)
  <2>1. UNCHANGED <<inUse, version, pools, from>>
    BY <1>4 DEF FindPool, LockForCreate, LockPool, DiscardIdle, Dial, ReleaseFind, MarkClosed,
                poolVars, storeVars, opVars
  <2>2. QED
    BY <1>0, <2>1
<1>5. QED
  BY <1>1, <1>2, <1>3, <1>4 DEF NoSlot

\* A new pool starts without slots taken and takes an unused identity.
LEMMA CreateEffect ==
  ASSUME ControlHyp, NEW o \in Ops, NEW p \in Pools, CreatePool(o, p)
  PROVE  /\ key[o] \in Keys /\ pools[key[o]] = NoPool
         /\ pools' = [pools EXCEPT ![key[o]] = p]
         /\ poolKey' = [poolKey EXCEPT ![p] = key[o]]
         /\ inUse' = [inUse EXCEPT ![p] = 0]
         /\ UNCHANGED <<idle, from, version>>
         /\ idle[p] = <<>>
         /\ \A r \in Ops : from[r] # p /\ pool[r] # p
         /\ \A k \in Keys : pools[k] # p
<1> USE DEF ControlHyp, ControlInv
<1>1. idle[p] = <<>> /\ p \in FreePools
  BY FreePoolEmpty DEF CreatePool
<1>2. idle' = idle
  BY <1>1 DEF CreatePool, TypeOK
<1>3. key[o] \in Keys /\ pools[key[o]] = NoPool
  BY RequestTypes DEF CreatePool, LockInv
<1>4. QED
  BY <1>1, <1>2, <1>3 DEF CreatePool, FreePools, storeVars

\* Taking a slot counts it and records the pool it came from.
LEMMA TakesEffect ==
  ASSUME ControlHyp, NEW o \in Ops, TakesSlot(o)
  PROVE  /\ pool[o] \in Pools /\ from[o] = NoPool
         /\ inUse' = [inUse EXCEPT ![pool[o]] = @ + 1]
         /\ from' = [from EXCEPT ![o] = pool[o]]
         /\ UNCHANGED <<version, pools>>
<1>1. pc[o] \in {"scan", "login"}
  BY DEF TakesSlot, ReuseIdle, LoginOk
<1>2. pool[o] \in Pools /\ from[o] = NoPool
  BY <1>1, RequestTypes DEF ControlHyp, ControlInv, RequestInv
<1>3. QED
  BY <1>2 DEF TakesSlot, ReuseIdle, LoginOk, storeVars

\* release gives a slot back to the pool it found, under that pool's mutex.
LEMMA ReturnsEffect ==
  ASSUME ControlHyp, OwnershipInv, NEW o \in Ops, ReturnsSlot(o)
  PROVE  /\ pc[o] = "put" /\ pool[o] \in Pools /\ plock[pool[o]] = NoOp
         /\ inUse' = [inUse EXCEPT ![pool[o]] = @ - 1]
         /\ from' = [from EXCEPT ![o] = NoPool]
         /\ UNCHANGED <<version, pools, poolKey>>
         /\ \A p \in Pools :
              \/ idle'[p] = idle[p]
              \/ p = pool[o] /\ Len(idle'[p]) <= Len(idle[p]) + 1 /\ Len(idle'[p]) <= MaxConns
<1>1. CASE ReleaseIdle(o)
  <2>1. /\ pc[o] = "put" /\ plock[pool[o]] = NoOp
        /\ inUse' = [inUse EXCEPT ![pool[o]] = @ - 1] /\ UNCHANGED <<version, pools, poolKey>>
        /\ from' = [from EXCEPT ![o] = NoPool]
    BY <1>1 DEF ReleaseIdle, Return, storeVars
  <2>2. pool[o] \in Pools
    BY <2>1, RequestTypes DEF ControlHyp, ControlInv
  <2>3. PICK q, c : q = pool[o] /\ c = conn[o]
    OBVIOUS
  <2>4. /\ Len(idle'[q]) <= MaxConns /\ Len(idle'[q]) <= Len(idle[q]) + 1
        /\ \A p \in Pools \ {q} : idle'[p] = idle[p]
    BY <1>1, <2>3, ParkEffect DEF OwnershipInv
  <2>5. QED
    BY <2>1, <2>2, <2>3, <2>4
<1>2. CASE \E hadError \in BOOLEAN : ReleaseClose(o, hadError)
  BY <1>2, RequestTypes DEF ReleaseClose, Return, storeVars, ControlHyp, ControlInv
<1>3. QED
  BY <1>1, <1>2 DEF ReturnsSlot


\* An idle list never exceeds MaxConns.
LEMMA BoundedStep ==
  ASSUME ControlHyp, OwnershipInv, IdleBounded, [Next]_vars
  PROVE  IdleBounded'
<1> SUFFICES ASSUME NEW p \in Pools
             PROVE  Len(idle'[p]) <= MaxConns
  BY DEF IdleBounded
<1>0. Len(idle[p]) <= MaxConns /\ Len(idle[p]) \in Nat
  BY LenProperties DEF IdleBounded, ControlHyp, TypeOK
<1>1. ASSUME NEW o \in Ops, NoSlot(o) \/ TakesSlot(o) \/ ReleaseNoPool(o)
      PROVE  Len(idle'[p]) <= MaxConns
  <2>1. idle'[p] = idle[p] \/ Len(idle'[p]) = Len(idle[p]) - 1 \/ idle'[p] = <<>>
    BY <1>1, IdleEffect
  <2>2. QED
    BY <1>0, <2>1, EmptyFacts
<1>2. ASSUME NEW o \in Ops, ReturnsSlot(o)
      PROVE  Len(idle'[p]) <= MaxConns
  <2>1. idle'[p] = idle[p] \/ Len(idle'[p]) <= MaxConns
    BY <1>2, ReturnsEffect
  <2>2. QED
    BY <1>0, <2>1
<1>3. ASSUME NEW o \in Ops, NEW q \in Pools, CreatePool(o, q)
      PROVE  Len(idle'[p]) <= MaxConns
  BY <1>0, <1>3, CreateEffect
<1>4. CASE UNCHANGED vars
  BY <1>0, <1>4 DEF vars
<1>5. QED
  BY <1>1, <1>2, <1>3, <1>4, SlotKinds


\* The requests that hold a connection of pool p are finitely many.
LEMMA InUseFinite ==
  ASSUME NEW p
  PROVE  IsFiniteSet(InUseBy(p)) /\ Cardinality(InUseBy(p)) \in Nat
<1>1. IsFiniteSet(InUseBy(p))
  BY FiniteAssumption, FS_Subset DEF InUseBy
<1>2. QED
  BY <1>1, FS_CardinalityType

\* Who holds a connection of pool p depends on from alone.
LEMMA InUseSame ==
  ASSUME \A r \in Ops : from'[r] = from[r], NEW p
  PROVE  Cardinality(InUseBy(p))' = Cardinality(InUseBy(p))
<1>1. {r \in Ops : from'[r] = p} = {r \in Ops : from[r] = p}
  OBVIOUS
<1>2. QED
  BY <1>1 DEF InUseBy

\* One request more holds a connection of q.
LEMMA InUseTake ==
  ASSUME TypeOK, NEW o \in Ops, NEW q \in Pools, from[o] = NoPool,
         from' = [from EXCEPT ![o] = q], NEW p \in Pools
  PROVE  Cardinality(InUseBy(p))' = Cardinality(InUseBy(p)) + (IF p = q THEN 1 ELSE 0)
<1>1. CASE p # q
  <2>1. {r \in Ops : from'[r] = p} = {r \in Ops : from[r] = p}
    BY <1>1 DEF TypeOK
  <2>2. Cardinality(InUseBy(p))' = Cardinality(InUseBy(p))
    BY <2>1 DEF InUseBy
  <2>3. QED
    BY <1>1, <2>2, InUseFinite
<1>2. CASE p = q
  <2>1. {r \in Ops : from'[r] = p} = {r \in Ops : from[r] = p} \cup {o}
    BY <1>2 DEF TypeOK
  <2>2. o \notin {r \in Ops : from[r] = p}
    OBVIOUS
  <2>3. IsFiniteSet({r \in Ops : from[r] = p})
    BY InUseFinite DEF InUseBy
  <2>4. Cardinality({r \in Ops : from[r] = p} \cup {o}) = Cardinality({r \in Ops : from[r] = p}) + 1
    BY <2>2, <2>3, FS_AddElement
  <2>5. QED
    BY <1>2, <2>1, <2>4 DEF InUseBy
<1>3. QED
  BY <1>1, <1>2

\* One request less holds a connection of the pool it came from.
LEMMA InUseReturn ==
  ASSUME TypeOK, NEW o \in Ops, from' = [from EXCEPT ![o] = NoPool], NEW p \in Pools
  PROVE  Cardinality(InUseBy(p))' = Cardinality(InUseBy(p)) - (IF p = from[o] THEN 1 ELSE 0)
<1>1. CASE p # from[o]
  <2>1. {r \in Ops : from'[r] = p} = {r \in Ops : from[r] = p}
    BY <1>1 DEF TypeOK
  <2>2. Cardinality(InUseBy(p))' = Cardinality(InUseBy(p))
    BY <2>1 DEF InUseBy
  <2>3. QED
    BY <1>1, <2>2, InUseFinite
<1>2. CASE p = from[o]
  <2>1. {r \in Ops : from'[r] = p} = {r \in Ops : from[r] = p} \ {o}
    BY <1>2 DEF TypeOK
  <2>2. o \in {r \in Ops : from[r] = p}
    BY <1>2
  <2>3. IsFiniteSet({r \in Ops : from[r] = p})
    BY InUseFinite DEF InUseBy
  <2>4. Cardinality({r \in Ops : from[r] = p} \ {o}) = Cardinality({r \in Ops : from[r] = p}) - 1
    BY <2>2, <2>3, FS_RemoveElement
  <2>5. QED
    BY <1>2, <2>1, <2>4 DEF InUseBy
<1>3. QED
  BY <1>1, <1>2


\* No slot of a pool in the map is lost.
LEMMA LostSlotsStep ==
  ASSUME ControlHyp, OwnershipInv, SlotInv, NoLostSlots, [Next]_vars
  PROVE  NoLostSlots'
<1> DEFINE N(p) == Cardinality(InUseBy(p))
<1> SUFFICES ASSUME NEW k \in Keys, pools'[k] # NoPool, NEW p, p = pools'[k]
             PROVE  inUse'[p] <= N(p)'
  BY DEF NoLostSlots
<1>0. /\ \A q \in Pools : inUse[q] \in Int /\ N(q) \in Nat
      /\ pools \in [Keys -> Pools \cup {NoPool}] /\ inUse \in [Pools -> Int]
      /\ pools[k] # NoPool => pools[k] \in Pools /\ inUse[pools[k]] <= N(pools[k])
      /\ poolKey \in [Pools -> Keys \cup {NoKey}]
  BY InUseFinite DEF NoLostSlots, ControlHyp, TypeOK
<1> HIDE DEF N
<1>1. ASSUME NEW o \in Ops, NoSlot(o)
      PROVE  inUse'[p] <= N(p)'
  <2>1. UNCHANGED inUse /\ pools[k] = p
    BY <1>1, NoSlotEffect
  <2>2. N(p)' = N(p)
    BY <1>1, NoSlotEffect, InUseSame DEF N
  <2>3. QED
    BY <1>0, <2>1, <2>2
<1>2. ASSUME NEW o \in Ops, NEW q \in Pools, CreatePool(o, q)
      PROVE  inUse'[p] <= N(p)'
  <2>1. /\ key[o] \in Keys /\ pools' = [pools EXCEPT ![key[o]] = q]
        /\ inUse' = [inUse EXCEPT ![q] = 0] /\ UNCHANGED from /\ \A m \in Keys : pools[m] # q
    BY <1>2, CreateEffect
  <2>2. N(p)' = N(p)
    BY <2>1, InUseSame DEF N
  <2>3. QED
    BY <1>0, <2>1, <2>2
<1>3. ASSUME NEW o \in Ops, TakesSlot(o)
      PROVE  inUse'[p] <= N(p)'
  <2>1. /\ pool[o] \in Pools /\ from[o] = NoPool /\ UNCHANGED pools
        /\ inUse' = [inUse EXCEPT ![pool[o]] = @ + 1] /\ from' = [from EXCEPT ![o] = pool[o]]
    BY <1>3, TakesEffect
  <2>2. p \in Pools
    BY <1>0, <2>1
  <2>3. N(p)' = N(p) + (IF p = pool[o] THEN 1 ELSE 0)
    BY <2>1, <2>2, InUseTake DEF N, ControlHyp
  <2>4. QED
    BY <1>0, <2>1, <2>2, <2>3
<1>4. ASSUME NEW o \in Ops, ReturnsSlot(o)
      PROVE  inUse'[p] <= N(p)'
  <2>1. /\ pool[o] \in Pools /\ pc[o] = "put" /\ UNCHANGED <<pools, poolKey>>
        /\ inUse' = [inUse EXCEPT ![pool[o]] = @ - 1] /\ from' = [from EXCEPT ![o] = NoPool]
    BY <1>4, ReturnsEffect
  <2>2. p \in Pools
    BY <1>0, <2>1
  <2>3. N(p)' = N(p) - (IF p = from[o] THEN 1 ELSE 0)
    BY <2>1, <2>2, InUseReturn DEF N, ControlHyp
  <2>4. p = from[o] => pool[o] = p
    <3>1. p = from[o] => poolKey[p] = key[o] /\ poolKey[p] = k
      BY <2>1, <2>2 DEF ControlHyp, ControlInv, RequestInv, PoolInv
    <3>2. QED
      BY <2>1, <3>1 DEF SlotInv
  <2>5. QED
    BY <1>0, <2>1, <2>2, <2>3, <2>4
<1>5. ASSUME NEW o \in Ops, ReleaseNoPool(o)
      PROVE  inUse'[p] <= N(p)'
  <2>1. /\ pools[key[o]] = NoPool /\ UNCHANGED <<pools, inUse>> /\ from' = [from EXCEPT ![o] = NoPool]
    BY <1>5 DEF ReleaseNoPool, Return, poolVars
  <2>2. p \in Pools
    BY <1>0, <2>1
  <2>3. N(p)' = N(p) - (IF p = from[o] THEN 1 ELSE 0)
    BY <2>1, <2>2, InUseReturn DEF N, ControlHyp
  <2>4. p # from[o]
    BY <2>1, <2>2 DEF ControlHyp, ControlInv, RequestInv, PoolInv
  <2>5. QED
    BY <1>0, <2>1, <2>2, <2>3, <2>4
<1>6. CASE UNCHANGED vars
  <2>1. UNCHANGED <<inUse, pools, from>>
    BY <1>6 DEF vars
  <2>2. N(p)' = N(p)
    BY <2>1, InUseSame DEF N
  <2>3. QED
    BY <1>0, <2>1, <2>2
<1>7. QED
  BY <1>1, <1>2, <1>3, <1>4, <1>5, <1>6, SlotKinds


\* Before the first write to an account its accounting is exact.
LEMMA SteadyStep ==
  ASSUME ControlHyp, OwnershipInv, SlotInv, SteadyInv, [Next]_vars
  PROVE  SteadyInv'
<1> DEFINE N(p) == Cardinality(InUseBy(p))
           Steady(p) == /\ pools[poolKey[p]] = p
                        /\ inUse[p] = N(p)
                        /\ Len(idle[p]) + inUse[p] <= MaxConns
<1> SUFFICES ASSUME NEW p \in Pools, poolKey'[p] # NoKey, version'[poolKey'[p]] = 0
             PROVE  Steady(p)'
  BY DEF SteadyInv
<1>0. /\ N(p) \in Nat /\ Len(idle[p]) \in Nat /\ inUse \in [Pools -> Int]
      /\ pools \in [Keys -> Pools \cup {NoPool}] /\ poolKey \in [Pools -> Keys \cup {NoKey}]
      /\ version \in [Keys -> Nat]
      /\ \A q \in Pools : poolKey[q] # NoKey /\ version[poolKey[q]] = 0 => Steady(q)
  BY InUseFinite, LenProperties DEF SteadyInv, ControlHyp, TypeOK
<1> HIDE DEF N
<1>1. ASSUME NEW o \in Ops, NoSlot(o)
      PROVE  Steady(p)'
  <2>1. /\ UNCHANGED <<inUse, poolKey>>
        /\ \A k \in Keys : version'[k] >= version[k]
        /\ \A k \in Keys : pools'[k] = pools[k] \/ (pools'[k] = NoPool /\ version[k] > 0)
    BY <1>1, NoSlotEffect, IdleEffect
  <2>2. poolKey[p] \in Keys /\ version[poolKey[p]] = 0
    BY <1>0, <2>1
  <2>3. N(p)' = N(p)
    BY <1>1, NoSlotEffect, InUseSame DEF N
  <2>4. idle'[p] = idle[p] \/ Len(idle'[p]) = Len(idle[p]) - 1 \/ idle'[p] = <<>>
    BY <1>1, IdleEffect
  <2>5. Len(idle'[p]) <= Len(idle[p]) /\ Len(idle'[p]) \in Int
    BY <1>0, <2>4, EmptyFacts
  <2>6. QED
    BY <1>0, <2>1, <2>2, <2>3, <2>5
<1>2. ASSUME NEW o \in Ops, NEW q \in Pools, CreatePool(o, q)
      PROVE  Steady(p)'
  <2>1. /\ key[o] \in Keys /\ pools[key[o]] = NoPool /\ pools' = [pools EXCEPT ![key[o]] = q]
        /\ poolKey' = [poolKey EXCEPT ![q] = key[o]] /\ inUse' = [inUse EXCEPT ![q] = 0]
        /\ UNCHANGED <<idle, from, version>> /\ idle[q] = <<>>
        /\ \A r \in Ops : from[r] # q
    BY <1>2, CreateEffect
  <2>2. N(p)' = N(p)
    BY <2>1, InUseSame DEF N
  <2>3. CASE p # q
    BY <1>0, <2>1, <2>2, <2>3
  <2>4. CASE p = q
    <3>1. N(p) = 0
      <4>1. InUseBy(p) = {}
        BY <2>1, <2>4 DEF InUseBy
      <4>2. QED
        BY <4>1, FS_EmptySet DEF N
    <3>2. QED
      BY <1>0, <2>1, <2>2, <2>4, <3>1, EmptyFacts
  <2>5. QED
    BY <2>3, <2>4
<1>3. ASSUME NEW o \in Ops, TakesSlot(o)
      PROVE  Steady(p)'
  <2>1. /\ pool[o] \in Pools /\ from[o] = NoPool /\ UNCHANGED <<version, pools, poolKey>>
        /\ inUse' = [inUse EXCEPT ![pool[o]] = @ + 1] /\ from' = [from EXCEPT ![o] = pool[o]]
    BY <1>3, TakesEffect, IdleEffect
  <2>2. Steady(p)
    BY <1>0, <2>1
  <2>3. N(p)' = N(p) + (IF p = pool[o] THEN 1 ELSE 0)
    BY <2>1, InUseTake DEF N, ControlHyp
  <2>4. Len(idle'[p]) \in Int /\ Len(idle'[p]) <= Len(idle[p])
    <3>1. idle'[p] = idle[p] \/ Len(idle'[p]) = Len(idle[p]) - 1 \/ idle'[p] = <<>>
      BY <1>3, IdleEffect
    <3>2. QED
      BY <1>0, <3>1, EmptyFacts
  <2>5. p = pool[o] => Len(idle'[p]) + inUse[p] + 1 <= MaxConns
    <3>1. CASE ReuseIdle(o)
      <4>1. PICK q, c : q = pool[o] /\ c = LastOf(idle[q])
        OBVIOUS
      <4>2. pc[o] = "scan" /\ idle[q] # <<>> /\ PopIdle(q)
        BY <3>1, <4>1 DEF ReuseIdle
      <4>3. Len(idle'[q]) = Len(idle[q]) - 1
        BY <4>1, <4>2, PopEffect DEF OwnershipInv
      <4>4. QED
        BY <1>0, <2>2, <4>1, <4>3
    <3>2. CASE LoginOk(o)
      <4>1. UNCHANGED idle /\ pc[o] = "login"
        BY <3>2 DEF LoginOk
      <4>2. p = pool[o] => idle'[p] = <<>> /\ inUse[p] < MaxConns
        BY <4>1 DEF SlotInv
      <4>3. QED
        BY <1>0, <4>2, EmptyFacts
    <3>3. QED
      BY <1>3, <3>1, <3>2 DEF TakesSlot
  <2>6. QED
    BY <1>0, <2>1, <2>2, <2>3, <2>4, <2>5
<1>4. ASSUME NEW o \in Ops, ReturnsSlot(o)
      PROVE  Steady(p)'
  <2>1. /\ pc[o] = "put" /\ pool[o] \in Pools /\ UNCHANGED <<version, pools, poolKey>>
        /\ inUse' = [inUse EXCEPT ![pool[o]] = @ - 1] /\ from' = [from EXCEPT ![o] = NoPool]
        /\ \/ idle'[p] = idle[p]
           \/ p = pool[o] /\ Len(idle'[p]) <= Len(idle[p]) + 1
    BY <1>4, ReturnsEffect
  <2>2. Steady(p)
    BY <1>0, <2>1
  <2>3. N(p)' = N(p) - (IF p = from[o] THEN 1 ELSE 0)
    BY <2>1, InUseReturn DEF N, ControlHyp
  <2>4. p = from[o] <=> p = pool[o]
    <3>1. /\ from[o] \in Pools /\ poolKey[from[o]] = key[o] /\ poolKey[pool[o]] = key[o]
          /\ key[o] # NoKey
      BY <2>1 DEF ControlHyp, ControlInv, RequestInv, TypeOK
    <3>2. version[key[o]] = 0 => Steady(from[o]) /\ Steady(pool[o])
      BY <1>0, <2>1, <3>1
    <3>3. QED
      BY <1>0, <2>1, <3>1, <3>2
  <2>5. Len(idle'[p]) \in Nat
    <3>1. idle'[p] \in Seq(Conns)
      BY TypeStep DEF ControlHyp, ControlInv, TypeOK
    <3>2. QED
      BY <3>1, LenProperties
  <2>6. QED
    BY <1>0, <2>1, <2>2, <2>3, <2>4, <2>5
<1>5. ASSUME NEW o \in Ops, ReleaseNoPool(o)
      PROVE  Steady(p)'
  <2>1. /\ pc[o] = "held" /\ pools[key[o]] = NoPool /\ UNCHANGED <<version, pools, inUse, poolKey, idle>>
        /\ from' = [from EXCEPT ![o] = NoPool]
    BY <1>5 DEF ReleaseNoPool, Return, poolVars, storeVars
  <2>2. Steady(p)
    BY <1>0, <2>1
  <2>3. N(p)' = N(p) - (IF p = from[o] THEN 1 ELSE 0)
    BY <2>1, InUseReturn DEF N, ControlHyp
  <2>4. p # from[o]
    BY <1>0, <2>1, <2>2 DEF ControlHyp, ControlInv, RequestInv
  <2>5. QED
    BY <1>0, <2>1, <2>2, <2>3, <2>4
<1>6. CASE UNCHANGED vars
  <2>1. UNCHANGED <<inUse, pools, from, version, poolKey, idle>>
    BY <1>6 DEF vars
  <2>2. N(p)' = N(p)
    BY <2>1, InUseSame DEF N
  <2>3. QED
    BY <1>0, <2>1, <2>2
<1>7. QED
  BY <1>1, <1>2, <1>3, <1>4, <1>5, <1>6, SlotKinds

\* One step of a goroutine.
Step(o) == Arrive(o) \/ Acquire(o) \/ Release(o) \/ DropPool(o)

\* A goroutine's step changes no other goroutine's locals.
LEMMA OthersEffect ==
  ASSUME TypeOK, NEW o \in Ops, Step(o), NEW r \in Ops, r # o
  PROVE  pc'[r] = pc[r] /\ pool'[r] = pool[r] /\ key'[r] = key[r] /\ from'[r] = from[r]
<1>1. CASE Arrive(o)
  BY <1>1 DEF Arrive, GetAccount, NotFound, SaveAccount, RemoveAccount, Write, Goto, vars, TypeOK
<1>2. CASE /\ UNCHANGED <<key>>
           /\ pc' = pc \/ \E label : Goto(o, label)
           /\ pool' = pool \/ \E p : pool' = [pool EXCEPT ![o] = p]
           /\ from' = from \/ \E p : from' = [from EXCEPT ![o] = p]
  BY <1>2 DEF Goto, TypeOK
<1>3. CASE Return(o)
  BY <1>3 DEF Return, Goto, TypeOK
<1>4. CASE Acquire(o)
  BY <1>2, <1>3, <1>4 DEF Acquire, FindPool, LockForCreate, RejectAccount, CreatePool, AcquireClosed,
     LockPool, DiscardIdle, ReuseIdle, LimitReached, DialFails, Dial, LoginFails, LoginOk,
     reqVars, opVars
<1>5. CASE Release(o) \/ DropPool(o)
  BY <1>2, <1>3, <1>5 DEF Release, ReleaseNoPool, ReleaseFind, ReleaseClose, ReleaseIdle,
     DropPool, DropMissing, DropFromMap, MarkClosed, CloseIdle, reqVars
<1>6. QED
  BY <1>1, <1>4, <1>5 DEF Step

\* A goroutine's step changes no pool that another one has locked.
LEMMA LockedEffect ==
  ASSUME ControlHyp, NEW o \in Ops, Step(o), NEW r \in Ops, r # o, NEW q \in Pools,
         q = pool[r], plock[q] = r
  PROVE  idle'[q] = idle[q] /\ inUse'[q] = inUse[q]
<1> USE DEF ControlHyp, ControlInv
<1>0. plock[q] # NoOp
  OBVIOUS
<1>1. CASE Arrive(o)
  BY <1>1 DEF Arrive, GetAccount, NotFound, SaveAccount, RemoveAccount, Write, poolVars, vars
<1>2. CASE \E p \in Pools : CreatePool(o, p)
  <2>1. PICK p \in Pools : CreatePool(o, p)
    BY <1>2
  <2>2. p # q /\ idle' = [idle EXCEPT ![p] = <<>>] /\ inUse' = [inUse EXCEPT ![p] = 0]
    BY <2>1 DEF CreatePool, FreePools
  <2>3. QED
    BY <2>2 DEF TypeOK
<1>3. CASE DiscardIdle(o) \/ ReuseIdle(o) \/ LoginOk(o) \/ CloseIdle(o)
  <2>1. pc[o] \in {"scan", "login", "logout"}
    BY <1>3 DEF DiscardIdle, ReuseIdle, LoginOk, CloseIdle
  <2>2. pool[o] # q
    BY <2>1, <1>0 DEF LockInv
  <2>3. /\ idle' = idle \/ \E s : idle' = [idle EXCEPT ![pool[o]] = s]
        /\ inUse' = inUse \/ \E n : inUse' = [inUse EXCEPT ![pool[o]] = n]
    BY <1>3 DEF DiscardIdle, ReuseIdle, LoginOk, CloseIdle, PopIdle
  <2>4. QED
    BY <2>2, <2>3 DEF TypeOK
<1>4. CASE ReleaseIdle(o) \/ \E hadError \in BOOLEAN : ReleaseClose(o, hadError)
  <2>1. pool[o] # q
    BY <1>4, <1>0 DEF ReleaseIdle, ReleaseClose
  <2>2. /\ idle' = idle \/ \E s : idle' = [idle EXCEPT ![pool[o]] = s]
        /\ inUse' = [inUse EXCEPT ![pool[o]] = @ - 1]
    BY <1>4 DEF ReleaseIdle, ReleaseClose
  <2>3. QED
    BY <2>1, <2>2 DEF TypeOK
<1>5. CASE UNCHANGED <<idle, inUse>>
  BY <1>5
<1>6. QED
  BY <1>1, <1>2, <1>3, <1>4, <1>5 DEF Step, Acquire, Release, DropPool, FindPool, LockForCreate,
     RejectAccount, AcquireClosed, LockPool, LimitReached, DialFails, Dial, LoginFails,
     ReleaseNoPool, ReleaseFind, DropMissing, DropFromMap, MarkClosed, poolVars


\* Who arrives at the places SlotInv speaks of.
LEMMA SlotPlaces ==
  ASSUME TypeOK, NEW o \in Ops, Step(o)
  PROVE  /\ pc'[o] = "login" => \E c \in Conns : Dial(o, c)
         /\ pc'[o] = "put" => ReleaseFind(o)
<1>1. CASE Arrive(o)
  BY <1>1 DEF Arrive, GetAccount, NotFound, SaveAccount, RemoveAccount, Write, Goto, vars, TypeOK
<1>2. CASE Return(o)
  BY <1>2 DEF Return, Goto, TypeOK
<1>3. CASE Acquire(o)
  BY <1>2, <1>3 DEF Acquire, FindPool, LockForCreate, RejectAccount, CreatePool, AcquireClosed,
     LockPool, DiscardIdle, ReuseIdle, LimitReached, DialFails, LoginFails, LoginOk,
     opVars, Goto, TypeOK, Dial
<1>4. CASE Release(o) \/ DropPool(o)
  BY <1>2, <1>4 DEF Release, ReleaseNoPool, ReleaseClose, ReleaseIdle, ReleaseFind,
     DropPool, DropMissing, DropFromMap, MarkClosed, CloseIdle, Goto, TypeOK
<1>5. QED
  BY <1>1, <1>3, <1>4 DEF Step

\* SlotInv is kept: both its places are protected by a mutex or by the map.
LEMMA SlotStep ==
  ASSUME ControlHyp, OwnershipInv, SlotInv, [Next]_vars
  PROVE  SlotInv'
<1> DEFINE Login(r) == pc[r] = "login" => idle[pool[r]] = <<>> /\ inUse[pool[r]] < MaxConns
           Put(r) == pc[r] = "put" /\ pools[key[r]] = from[r] => pool[r] = from[r]
<1> SUFFICES ASSUME NEW r \in Ops
             PROVE  Login(r)' /\ Put(r)'
  BY DEF SlotInv
<1>0. Login(r) /\ Put(r)
  BY DEF SlotInv
<1>1. ASSUME NEW o \in Ops, Step(o), r # o
      PROVE  Login(r)' /\ Put(r)'
  <2>1. pc'[r] = pc[r] /\ pool'[r] = pool[r] /\ key'[r] = key[r] /\ from'[r] = from[r]
    BY <1>1, OthersEffect DEF ControlHyp
  <2>2. Login(r)'
    <3>1. CASE pc[r] = "login"
      <4>1. PICK q : q = pool[r]
        OBVIOUS
      <4>2. q \in Pools /\ plock[q] = r
        BY <3>1, <4>1, RequestTypes DEF ControlHyp, ControlInv, LockInv
      <4>3. idle'[q] = idle[q] /\ inUse'[q] = inUse[q]
        BY <1>1, <4>1, <4>2, LockedEffect
      <4>4. QED
        BY <1>0, <2>1, <4>1, <4>3
    <3>2. QED
      BY <2>1, <3>1
  <2>3. Put(r)'
    <3>1. CASE pc[r] = "put"
      <4>1. key[r] \in Keys /\ from[r] \in Pools
        BY <3>1, RequestTypes DEF ControlHyp, ControlInv, RequestInv, TypeOK
      <4>2. pools'[key[r]] = from[r] => pools[key[r]] = from[r]
        <5>1. CASE \E p \in Pools : CreatePool(o, p)
          <6>1. PICK p \in Pools : CreatePool(o, p)
            BY <5>1
          <6>2. pools' = [pools EXCEPT ![key[o]] = p] /\ from[r] # p
            BY <6>1, CreateEffect
          <6>3. QED
            BY <4>1, <6>2 DEF ControlHyp, TypeOK
        <5>2. CASE NoSlot(o)
          BY <4>1, <5>2, NoSlotEffect
        <5>3. CASE TakesSlot(o) \/ ReturnsSlot(o) \/ ReleaseNoPool(o)
          BY <5>3, TakesEffect, ReturnsEffect DEF ReleaseNoPool
        <5>4. QED
          BY <1>1, <5>1, <5>2, <5>3 DEF Step, Acquire, Release, DropPool, NoSlot, TakesSlot, ReturnsSlot
      <4>3. QED
        BY <1>0, <2>1, <3>1, <4>2
    <3>2. QED
      BY <2>1, <3>1
  <2>4. QED
    BY <2>2, <2>3
<1>2. ASSUME NEW o \in Ops, Step(o), r = o
      PROVE  Login(r)' /\ Put(r)'
  <2>1. ASSUME NEW c \in Conns, Dial(o, c)
        PROVE  Login(o)'
    BY <2>1 DEF Dial, MayDial, poolVars
  <2>2. ASSUME ReleaseFind(o)
        PROVE  Put(o)'
    BY <2>2 DEF ReleaseFind, reqVars, ControlHyp, TypeOK
  <2>3. QED
    BY <1>2, <2>1, <2>2, SlotPlaces DEF ControlHyp
<1>3. CASE UNCHANGED vars
  BY <1>0, <1>3 DEF vars
<1>4. QED
  BY <1>1, <1>2, <1>3 DEF Next, Step


-----------------------------------------------------------------------------
(* Theorems *)


\* The initial state has no pools, no requests and no connections.
LEMMA InitInv == Init => IInv
<1> SUFFICES ASSUME Init
             PROVE  IInv
  OBVIOUS
<1>1. TypeOK
  BY EmptySeq DEF Init, TypeOK, Labels
<1>2. ControlInv
  BY DEF Init, ControlInv, LockInv, RequestInv, PoolInv, DropInv
<1>3. OwnershipInv
  <2>1. \A p \in Pools : IdleConns(p) = {} /\ IsInjective(idle[p])
    BY EmptyFacts DEF Init, IdleConns
  <2>2. QED
    BY <2>1 DEF Init, OwnershipInv, HeldInv, TenantIsolation, IdleInv, NoLeakInv
<1>4. AccountingInv
  BY EmptyFacts DEF Init, AccountingInv, IdleBounded, SlotInv, NoLostSlots, SteadyInv
<1>5. QED
  BY <1>1, <1>2, <1>3, <1>4 DEF IInv

\* Every step keeps the inductive invariant.
LEMMA StepInv ==
  ASSUME IInv, [Next]_vars
  PROVE  IInv'
<1>1. ControlHyp /\ TypeOK /\ LockInv /\ RequestInv /\ PoolInv /\ DropInv
  BY DEF IInv, ControlHyp, ControlInv
<1>2. OwnershipInv /\ IdleBounded /\ SlotInv /\ NoLostSlots /\ SteadyInv
  BY DEF IInv, AccountingInv
<1>3. TypeOK' /\ ControlInv'
  BY <1>1, TypeStep, LockStep, RequestStep, PoolStep, DropStep DEF ControlInv
<1>4. OwnershipInv'
  BY <1>1, <1>2, HeldStep, IdleStep, NoLeakStep DEF OwnershipInv
<1>5. AccountingInv'
  BY <1>1, <1>2, BoundedStep, SlotStep, LostSlotsStep, SteadyStep DEF AccountingInv
<1>6. QED
  BY <1>3, <1>4, <1>5 DEF IInv

\* The inductive invariant holds in every reachable state.
THEOREM Invariance == Spec => []IInv
<1>1. Init => IInv
  BY InitInv
<1>2. IInv /\ [Next]_vars => IInv'
  BY StepInv
<1>3. QED
  BY <1>1, <1>2, PTL DEF Spec

\* Every variable keeps its type: in particular inUse stays an integer, which
\* is all that can be said of it, and idle lists hold connections.
THEOREM TypeCorrect == Spec => []TypeOK
<1>1. IInv => TypeOK
  BY DEF IInv
<1>2. QED
  BY <1>1, Invariance, PTL

\* No request ever holds a connection of another account, whatever pools are
\* dropped, re-created or recycled while it runs.
THEOREM Isolation == Spec => []TenantIsolation
<1>1. IInv => TenantIsolation
  BY DEF IInv, OwnershipInv, HeldInv
<1>2. QED
  BY <1>1, Invariance, PTL

\* No idle connection is left in a pool that nobody can reach or will close.
THEOREM NothingStranded == Spec => []NoStrandedConns
<1>1. IInv => NoStrandedConns
  <2> SUFFICES ASSUME IInv, NEW p \in Pools, idle[p] # <<>>
               PROVE  \/ \E k \in Keys : pools[k] = p
                      \/ \E o \in Ops : pc[o] \in {"close", "logout"} /\ pool[o] = p
    BY DEF NoStrandedConns
  <2>1. TypeOK /\ LockInv /\ PoolInv /\ DropInv
    BY DEF IInv, ControlInv
  <2>2. poolKey[p] \in Keys
    BY <2>1 DEF TypeOK, PoolInv
  <2>3. CASE closed[p]
    <3>1. plock[p] \in Ops /\ pc[plock[p]] = "logout"
      BY <2>1, <2>3 DEF PoolInv, TypeOK
    <3>2. pool[plock[p]] = p
      BY <2>1, <3>1 DEF LockInv
    <3>3. QED
      BY <3>1, <3>2
  <2>4. CASE ~closed[p]
    BY <2>1, <2>2, <2>4 DEF DropInv, Reachable
  <2>5. QED
    BY <2>3, <2>4
<1>2. QED
  BY <1>1, Invariance, PTL

\* No error path loses a slot of a pool in the map.
THEOREM SlotsKept == Spec => []NoLostSlots
<1>1. IInv => NoLostSlots
  BY DEF IInv, AccountingInv
<1>2. QED
  BY <1>1, Invariance, PTL

\* An idle list never grows beyond MaxConns.
THEOREM IdleLimit == Spec => []IdleBounded
<1>1. IInv => IdleBounded
  BY DEF IInv, AccountingInv
<1>2. QED
  BY <1>1, Invariance, PTL


\* A goroutine keeps its key as long as it keeps its connection.
LEMMA KeyKept ==
  ASSUME TypeOK, RequestInv, [Next]_vars, NEW o \in Ops, conn[o] # NoConn, conn'[o] = conn[o]
  PROVE  key'[o] = key[o]
<1>1. ASSUME NEW r \in Ops, Step(r), r # o
      PROVE  key'[o] = key[o]
  BY <1>1, OthersEffect
<1>2. ASSUME Step(o)
      PROVE  key'[o] = key[o]
  <2>1. pc[o] \in {"login", "held", "put"} /\ ~Return(o)
    BY DEF RequestInv, Return, TypeOK
  <2>2. ~Arrive(o) /\ ~DropPool(o)
    BY <2>1 DEF Arrive, GetAccount, NotFound, SaveAccount, RemoveAccount, Write,
                DropPool, DropMissing, DropFromMap, MarkClosed, CloseIdle
  <2>3. CASE Acquire(o)
    BY <2>1, <2>3 DEF Acquire, FindPool, LockForCreate, RejectAccount, CreatePool, AcquireClosed,
       LockPool, DiscardIdle, ReuseIdle, LimitReached, DialFails, Dial, LoginFails, LoginOk, reqVars
  <2>4. CASE Release(o)
    BY <2>1, <2>4 DEF Release, ReleaseNoPool, ReleaseFind, ReleaseClose, ReleaseIdle, reqVars
  <2>5. QED
    BY <1>2, <2>2, <2>3, <2>4 DEF Step
<1>3. QED
  BY <1>1, <1>2 DEF Next, Step, vars

\* A connection in a request's hands is closed by that request only.
THEOREM InFlight == Spec => InFlightUntouched
<1> DEFINE Untouched == \A o \in Ops :
             conn[o] # NoConn /\ conn'[o] = conn[o] => tenant'[conn[o]] = tenant[conn[o]]
<1>1. ASSUME IInv, [Next]_vars
      PROVE  [Untouched]_vars
  <2>1. ControlHyp /\ OwnershipInv
    BY <1>1 DEF IInv, ControlHyp
  <2>2. ControlHyp'
    BY <1>1, StepInv DEF IInv, ControlHyp
  <2>3. OwnershipInv'
    BY <1>1, StepInv DEF IInv
  <2>4. \A o \in Ops : conn[o] # NoConn => tenant[conn[o]] = key[o]
    BY <2>1 DEF OwnershipInv, HeldInv, TenantIsolation
  <2>5. \A o \in Ops : conn'[o] # NoConn => tenant'[conn'[o]] = key'[o]
    BY <2>3 DEF OwnershipInv, HeldInv, TenantIsolation
  <2>6. ASSUME NEW o \in Ops, conn[o] # NoConn, conn'[o] = conn[o]
        PROVE  key'[o] = key[o]
    BY <1>1, <2>6, KeyKept DEF IInv, ControlInv
  <2>7. QED
    BY <2>4, <2>5, <2>6
<1>2. QED
  BY <1>1, Invariance, PTL DEF Spec, InFlightUntouched


\* A sequence's elements are at most as many as its positions.
LEMMA RangeBound ==
  ASSUME NEW s \in Seq(Conns)
  PROVE  IsFiniteSet(Range(s)) /\ Cardinality(Range(s)) <= Len(s) /\ Cardinality(Range(s)) \in Nat
<1>1. DOMAIN s = 1..Len(s) /\ Len(s) \in Nat
  BY LenProperties
<1>2. IsFiniteSet(1..Len(s)) /\ Cardinality(1..Len(s)) = Len(s)
  BY <1>1, FS_Interval
<1>3. s \in Surjection(1..Len(s), Range(s))
  BY <1>1 DEF Surjection, Range
<1>4. QED
  BY <1>1, <1>2, <1>3, FS_Surjection, FS_CardinalityType DEF ExistsSurjection


\* The connections that a set of requests holds are at most as many as they.
LEMMA HeldBound ==
  ASSUME NEW S \in SUBSET Ops
  PROVE  LET T == {conn[o] : o \in S} IN
         IsFiniteSet(T) /\ Cardinality(T) <= Cardinality(S) /\ Cardinality(T) \in Nat
<1> DEFINE T == {conn[o] : o \in S}
           f == [o \in S |-> conn[o]]
<1>1. IsFiniteSet(S)
  BY FiniteAssumption, FS_Subset
<1>2. f \in Surjection(S, T)
  BY DEF Surjection
<1>3. QED
  BY <1>1, <1>2, FS_Surjection, FS_CardinalityType DEF ExistsSurjection

\* A subset of a union is no larger than the two parts together.
LEMMA UnionBound ==
  ASSUME NEW A, NEW B, IsFiniteSet(A), IsFiniteSet(B), NEW C, C \subseteq A \cup B
  PROVE  Cardinality(C) <= Cardinality(A) + Cardinality(B)
<1>1. IsFiniteSet(A \cup B) /\ Cardinality(A \cup B) <= Cardinality(A) + Cardinality(B)
  <2>1. /\ IsFiniteSet(A \cup B)
        /\ Cardinality(A \cup B) = Cardinality(A) + Cardinality(B) - Cardinality(A \cap B)
    BY FS_Union
  <2>2. Cardinality(A) \in Nat /\ Cardinality(B) \in Nat /\ Cardinality(A \cap B) \in Nat
    BY FS_Intersection, FS_CardinalityType
  <2>3. QED
    BY <2>1, <2>2
<1>2. Cardinality(C) <= Cardinality(A \cup B) /\ Cardinality(C) \in Nat /\ Cardinality(A \cup B) \in Nat
  BY <1>1, FS_Subset, FS_CardinalityType
<1>3. Cardinality(A) \in Nat /\ Cardinality(B) \in Nat
  BY FS_CardinalityType
<1>4. QED
  BY <1>1, <1>2, <1>3

\* An open connection is in exactly one place, a closed one in none.
THEOREM ExactlyOnePlace == Spec => []OnePlace
<1>1. IInv => OnePlace
  <2> SUFFICES ASSUME IInv, NEW c \in Conns
               PROVE  Cardinality(Holders(c)) + Cardinality(Parked(c))
                        = IF tenant[c] = NoKey THEN 0 ELSE 1
    BY DEF OnePlace
  <2>1. ControlHyp /\ OwnershipInv
    BY DEF IInv, ControlHyp
  <2>2. \A x : x \in Parked(c) <=>
          \E p \in Pools : \E i \in DOMAIN idle[p] : idle[p][i] = c /\ x = <<p, i>>
    BY DEF Parked
  <2>3. \A p \in Pools : c \in IdleConns(p) <=> \E i \in DOMAIN idle[p] : idle[p][i] = c
    BY DEF IdleConns, Range
  <2>4. /\ \A r \in Ops : conn[r] = c => tenant[c] # NoKey
        /\ \A p \in Pools : c \in IdleConns(p) => tenant[c] # NoKey
    BY <2>1, OwnershipFacts
  <2>5. \A p, q \in Pools : \A i, j :
          i \in DOMAIN idle[p] /\ j \in DOMAIN idle[q] /\ idle[p][i] = c /\ idle[q][j] = c
            => p = q /\ i = j
    <3>1. \A p, q \in Pools : c \in IdleConns(p) /\ c \in IdleConns(q) => p = q
      BY <2>1, OwnershipFacts
    <3>2. \A p \in Pools : IsInjective(idle[p])
      BY <2>1 DEF OwnershipInv, IdleInv
    <3>3. QED
      BY <3>1, <3>2, <2>3 DEF IsInjective
  <2>6. CASE tenant[c] = NoKey
    <3>1. Holders(c) = {}
      BY <2>4, <2>6 DEF Holders
    <3>2. Parked(c) = {}
      BY <2>2, <2>3, <2>4, <2>6
    <3>3. QED
      BY <2>6, <3>1, <3>2, FS_EmptySet
  <2>7. CASE \E r \in Ops : conn[r] = c
    <3>1. PICK r \in Ops : conn[r] = c
      BY <2>7
    <3>2. Holders(c) = {r}
      BY <3>1, <2>1, OwnershipFacts DEF Holders
    <3>3. Parked(c) = {}
      BY <3>1, <2>1, <2>2, <2>3, OwnershipFacts
    <3>4. QED
      BY <2>4, <3>1, <3>2, <3>3, FS_EmptySet, FS_Singleton
  <2>8. CASE \E p \in Pools : c \in IdleConns(p)
    <3>0. PICK p \in Pools : c \in IdleConns(p)
      BY <2>8
    <3>1. PICK i \in DOMAIN idle[p] : idle[p][i] = c
      BY <2>3, <3>0
    <3>2. Parked(c) = {<<p, i>>}
      BY <2>2, <2>5, <3>1
    <3>3. Holders(c) = {}
      BY <2>1, <2>8, OwnershipFacts DEF Holders
    <3>4. Cardinality(Holders(c)) = 0 /\ Cardinality(Parked(c)) = 1
      BY <3>2, <3>3, FS_EmptySet, FS_Singleton
    <3>5. tenant[c] # NoKey
      BY <2>4, <2>8
    <3>6. QED
      BY <3>4, <3>5
  <2>9. QED
    BY <2>1, <2>6, <2>7, <2>8, OwnershipFacts
<1>2. QED
  BY <1>1, Invariance, PTL

\* Until the first write to an account its connections are at most MaxConns.
THEOREM LimitUntilDrop == Spec => []LimitBeforeDrop
<1>1. IInv => LimitBeforeDrop
  <2> SUFFICES ASSUME IInv, NEW k \in Keys, version[k] = 0
               PROVE  Cardinality(OpenFor(k)) <= MaxConns
    BY DEF LimitBeforeDrop
  <2> DEFINE p == pools[k]
             held == {conn[r] : r \in InUseBy(p)}
  <2>1. /\ ControlHyp /\ OwnershipInv /\ TypeOK /\ RequestInv /\ LockInv /\ SlotInv /\ SteadyInv
    BY DEF IInv, ControlHyp, ControlInv, AccountingInv
  <2>2. \A q \in Pools : poolKey[q] = k => q = p
    BY <2>1 DEF SteadyInv, TypeOK
  <2>3. ASSUME NEW c \in OpenFor(k)
        PROVE  \/ p \in Pools /\ c \in IdleConns(p)
               \/ p \in Pools /\ c \in held
               \/ p \in Pools /\ \E r \in Ops : pc[r] = "login" /\ pool[r] = p /\ c = conn[r]
    <3>1. c \in Conns /\ tenant[c] = k
      BY <2>3 DEF OpenFor
    <3>2. CASE \E q \in Pools : c \in IdleConns(q)
      BY <2>1, <2>2, <3>1, <3>2, OwnershipFacts
    <3>3. CASE \E r \in Ops : conn[r] = c
      <4>1. PICK r \in Ops : conn[r] = c
        BY <3>3
      <4>2. key[r] = k /\ pc[r] \in {"login", "held", "put"}
        BY <2>1, <3>1, <4>1, OwnershipFacts DEF RequestInv
      <4>3. CASE pc[r] = "login"
        <5>1. pool[r] \in Pools /\ poolKey[pool[r]] = k
          BY <2>1, <4>2, <4>3, RequestTypes DEF RequestInv
        <5>2. QED
          BY <2>2, <4>1, <4>3, <5>1
      <4>4. CASE pc[r] \in {"held", "put"}
        <5>1. from[r] \in Pools /\ poolKey[from[r]] = k
          BY <2>1, <4>2, <4>4 DEF RequestInv, TypeOK
        <5>2. QED
          BY <2>2, <4>1, <5>1 DEF InUseBy
      <4>5. QED
        BY <4>2, <4>3, <4>4
    <3>4. QED
      BY <2>1, <3>1, <3>2, <3>3, OwnershipFacts
  <2>4. CASE p \in Pools
    <3>1. /\ poolKey[p] = k
          /\ inUse[p] = Cardinality(InUseBy(p)) /\ Len(idle[p]) + inUse[p] <= MaxConns
          /\ inUse[p] \in Nat /\ idle[p] \in Seq(Conns) /\ Len(idle[p]) \in Nat
      <4>1. poolKey[p] = k
        BY <2>1, <2>4 DEF ControlHyp, ControlInv, PoolInv
      <4>2. QED
        BY <2>1, <2>4, <4>1, InUseFinite, LenProperties DEF SteadyInv, TypeOK
    <3>2. IsFiniteSet(held) /\ Cardinality(held) <= inUse[p] /\ Cardinality(held) \in Nat
      <4>1. InUseBy(p) \in SUBSET Ops
        BY DEF InUseBy
      <4>2. QED
        BY <3>1, <4>1, HeldBound
    <3> HIDE DEF held
    <3>3. CASE \E r \in Ops : pc[r] = "login" /\ pool[r] = p
      <4>1. PICK r \in Ops : pc[r] = "login" /\ pool[r] = p
        BY <3>3
      <4>2. /\ idle[p] = <<>> /\ inUse[p] < MaxConns
            /\ \A o \in Ops : pc[o] = "login" /\ pool[o] = p => o = r
        BY <2>1, <2>4, <4>1 DEF SlotInv, LockInv
      <4>3. OpenFor(k) \subseteq held \cup {conn[r]}
        BY <2>3, <4>2, EmptyFacts DEF IdleConns
      <4>4. IsFiniteSet({conn[r]}) /\ Cardinality({conn[r]}) = 1
        BY FS_Singleton
      <4>5. Cardinality(OpenFor(k)) <= Cardinality(held) + 1
        BY <3>2, <4>3, <4>4, UnionBound
      <4>6. OpenFor(k) \in SUBSET Conns /\ Cardinality(OpenFor(k)) \in Nat
        BY FiniteAssumption, FS_Subset, FS_CardinalityType DEF OpenFor
      <4>7. QED
        BY <3>1, <3>2, <4>2, <4>5, <4>6
    <3>4. CASE ~\E r \in Ops : pc[r] = "login" /\ pool[r] = p
      <4>1. OpenFor(k) \subseteq IdleConns(p) \cup held
        BY <2>3, <3>4
      <4>2. /\ IsFiniteSet(IdleConns(p)) /\ Cardinality(IdleConns(p)) <= Len(idle[p])
            /\ Cardinality(IdleConns(p)) \in Nat
        BY <3>1, RangeBound DEF IdleConns
      <4>3. Cardinality(OpenFor(k)) <= Cardinality(IdleConns(p)) + Cardinality(held)
        BY <3>2, <4>1, <4>2, UnionBound
      <4>4. OpenFor(k) \in SUBSET Conns /\ Cardinality(OpenFor(k)) \in Nat
        BY FiniteAssumption, FS_Subset, FS_CardinalityType DEF OpenFor
      <4>5. QED
        BY <3>1, <3>2, <4>2, <4>3, <4>4
    <3>5. QED
      BY <3>3, <3>4
  <2>5. CASE p \notin Pools
    <3>1. OpenFor(k) = {}
      BY <2>3, <2>5
    <3>2. QED
      BY <3>1, FS_EmptySet
  <2>6. QED
    BY <2>4, <2>5
<1>2. QED
  BY <1>1, Invariance, PTL

-----------------------------------------------------------------------------
(* Progress: who waits for whom, and how far a request has to go *)

\* The mutex that o needs next is held by r.
WaitsFor(o, r) ==
  \/ pc[o] \in {"lookup", "held", "drop"} /\ mu = r
  \/ pc[o] \in {"acquire", "put", "close"} /\ plock[pool[o]] = r

(***************************************************************************)
(* The two mutexes never nest in a request: a goroutine that another one   *)
(* waits for waits for nobody, so no cycle of waiters can form, and        *)
(* Manager.mu is never held across the wait for a pool (pool.go:105, 175,  *)
(* 196, 226, 330, 362).  CloseAll, which would nest them, has no caller.   *)
(***************************************************************************)
NoWaitChain == \A o, q \in Ops : WaitsFor(o, q) =>
  /\ pc[q] \in {"create", "scan", "login", "logout"}
  /\ \A r \in Ops : ~WaitsFor(q, r)

\* A goroutine that another one waits for can always go on: no deadlock on the
\* manager's mutexes, for any number of requests and pools.
THEOREM WaitersEndAtAHolder == Spec => []NoWaitChain
<1>1. IInv => NoWaitChain
  <2> SUFFICES ASSUME IInv, NEW o \in Ops, NEW q \in Ops, WaitsFor(o, q)
               PROVE  pc[q] \in {"create", "scan", "login", "logout"}
    BY DEF NoWaitChain, WaitsFor
  <2>1. CASE mu = q
    BY <2>1 DEF IInv, ControlInv, LockInv
  <2>2. CASE pc[o] \in {"acquire", "put", "close"} /\ plock[pool[o]] = q
    <3>1. pool[o] \in Pools
      BY <2>2, RequestTypes DEF IInv, ControlInv
    <3>2. QED
      BY <2>2, <3>1 DEF IInv, ControlInv, LockInv
  <2>3. QED
    BY <2>1, <2>2 DEF WaitsFor
<1>2. QED
  BY <1>1, Invariance, PTL

\* How many of its own steps a request can still make.
Ahead(o) ==
  CASE pc[o] = "start"             -> 0
    [] pc[o] \in {"put", "logout"} -> 1
    [] pc[o] \in {"held", "close"} -> 2
    [] pc[o] \in {"login", "drop"} -> 3
    [] pc[o] = "scan"              -> 4 + Len(idle[pool[o]])
    [] pc[o] = "acquire"           -> 5 + MaxConns
    [] pc[o] = "create"            -> 6 + MaxConns
    [] pc[o] = "lookup"            -> 7 + MaxConns

\* The measure is bounded, and zero exactly when no request is in progress.
LEMMA AheadBounds ==
  ASSUME IInv, NEW o \in Ops
  PROVE  /\ Ahead(o) \in 0..(7 + MaxConns)
         /\ Ahead(o) = 0 <=> pc[o] = "start"
         /\ pc[o] = "scan" => pool[o] \in Pools /\ Len(idle[pool[o]]) \in 0..MaxConns
<1>1. pc[o] \in Labels
  BY DEF IInv, TypeOK
<1>2. ASSUME pc[o] = "scan"
      PROVE  pool[o] \in Pools /\ Len(idle[pool[o]]) \in 0..MaxConns
  <2>1. pool[o] \in Pools
    BY <1>2, RequestTypes DEF IInv, ControlInv
  <2>2. Len(idle[pool[o]]) \in Nat
    BY <2>1, LenProperties DEF IInv, TypeOK
  <2>3. QED
    BY <2>1, <2>2 DEF IInv, AccountingInv, IdleBounded
<1>3. CASE pc[o] = "scan"
  <2>1. Ahead(o) = 4 + Len(idle[pool[o]])
    BY <1>3 DEF Ahead
  <2>2. Ahead(o) \in 0..(7 + MaxConns) /\ Ahead(o) # 0
    BY <1>2, <1>3, <2>1
  <2>3. QED
    BY <1>2, <1>3, <2>2
<1>4. CASE pc[o] # "scan"
  <2>1. CASE pc[o] = "start"
    BY <2>1 DEF Ahead
  <2>2. CASE pc[o] \in {"put", "logout", "held", "close", "login", "drop"}
    <3>1. Ahead(o) \in 1..3
      BY <2>2 DEF Ahead
    <3>2. QED
      BY <2>2, <3>1
  <2>3. CASE pc[o] \in {"acquire", "create", "lookup"}
    <3>1. Ahead(o) \in (5 + MaxConns)..(7 + MaxConns)
      BY <2>3 DEF Ahead
    <3>2. QED
      BY <2>3, <3>1
  <2>4. QED
    BY <1>1, <1>4, <2>1, <2>2, <2>3 DEF Labels
<1>5. QED
  BY <1>3, <1>4

\* The locals of other goroutines, and the idle list that a scanning one has
\* locked, stay as they are: only its own steps move a request.
LEMMA OthersStay ==
  ASSUME IInv, NEW o \in Ops, Step(o), NEW r \in Ops, r # o
  PROVE  Ahead(r)' = Ahead(r)
<1>1. pc'[r] = pc[r] /\ pool'[r] = pool[r]
  BY OthersEffect DEF IInv
<1>2. ASSUME pc[r] = "scan"
      PROVE  idle'[pool[r]] = idle[pool[r]]
  <2>1. PICK q : q = pool[r]
    OBVIOUS
  <2>2. q \in Pools /\ plock[q] = r
    BY <1>2, <2>1, RequestTypes DEF IInv, ControlInv, LockInv
  <2>3. QED
    BY <2>1, <2>2, LockedEffect DEF IInv, ControlHyp
<1>3. CASE pc[r] = "scan"
  <2>1. Ahead(r) = 4 + Len(idle[pool[r]]) /\ Ahead(r)' = 4 + Len(idle'[pool'[r]])
    BY <1>1, <1>3 DEF Ahead
  <2>2. QED
    BY <1>1, <1>2, <1>3, <2>1
<1>4. CASE pc[r] # "scan"
  <2>1. pc[r] \in Labels
    BY DEF IInv, TypeOK
  <2>2. QED
    BY <1>1, <1>4, <2>1 DEF Ahead, Labels
<1>5. QED
  BY <1>3, <1>4

\* Every step of a request in progress, the retries of the idle loop included,
\* leaves it fewer steps to make.
LEMMA OwnAdvances ==
  ASSUME IInv, NEW o \in Ops, Step(o), pc[o] # "start"
  PROVE  Ahead(o)' < Ahead(o)
<1> DEFINE p == pool[o]
<1>0. MaxConns \in Nat /\ pc \in [Ops -> Labels]
  BY DEF IInv, TypeOK
<1>b. Ahead(o) \in 0..(7 + MaxConns) /\ Ahead(o) # 0
  BY AheadBounds
<1>1. ASSUME Return(o)
      PROVE  Ahead(o)' < Ahead(o)
  <2>1. Ahead(o)' = 0
    BY <1>0, <1>1 DEF Return, Goto, Ahead
  <2>2. QED
    BY <1>0, <1>b, <2>1
<1>2. CASE LockPool(o)
  <2>1. pc[o] = "acquire" /\ pc'[o] = "scan" /\ pool' = pool /\ idle' = idle
    BY <1>0, <1>2 DEF LockPool, Goto, poolVars
  <2>2. Len(idle[pool[o]]) \in 0..MaxConns
    <3>1. pool[o] \in Pools
      BY <2>1, RequestTypes DEF IInv, ControlInv
    <3>2. Len(idle[pool[o]]) \in Nat
      BY <3>1, LenProperties DEF IInv, TypeOK
    <3>3. QED
      BY <3>1, <3>2 DEF IInv, AccountingInv, IdleBounded
  <2>3. Ahead(o) = 5 + MaxConns /\ Ahead(o)' = 4 + Len(idle[pool[o]])
    BY <2>1 DEF Ahead
  <2>4. QED
    BY <1>0, <2>2, <2>3
<1>3. CASE DiscardIdle(o)
  <2>1. /\ pc[o] = "scan" /\ pc' = pc /\ pool' = pool
        /\ idle[pool[o]] # <<>> /\ PopIdle(pool[o])
    BY <1>3 DEF DiscardIdle, opVars
  <2>2. PICK q, c : q = pool[o] /\ c = LastOf(idle[q])
    OBVIOUS
  <2>3. Len(idle'[q]) = Len(idle[q]) - 1
    BY <2>1, <2>2, PopEffect DEF IInv, ControlHyp, OwnershipInv
  <2>4. Ahead(o) = 4 + Len(idle[q]) /\ Ahead(o)' = 4 + Len(idle'[q])
    BY <2>1, <2>2 DEF Ahead
  <2>5. Len(idle[q]) \in Nat
    BY <2>1, <2>2, AheadBounds
  <2>6. QED
    BY <2>3, <2>4, <2>5
<1>4. CASE ReuseIdle(o) \/ \E c \in Conns : Dial(o, c)
  <2>1. pc[o] = "scan" /\ pc'[o] \in {"held", "login"}
    BY <1>0, <1>4 DEF ReuseIdle, Dial, Goto
  <2>2. Ahead(o)' \in {2, 3} /\ Ahead(o) = 4 + Len(idle[pool[o]])
    BY <2>1 DEF Ahead
  <2>3. Len(idle[pool[o]]) \in Nat
    BY <2>1, AheadBounds
  <2>4. QED
    BY <2>2, <2>3
<1>5. CASE FindPool(o) \/ LockForCreate(o) \/ \E q \in Pools : CreatePool(o, q)
  <2>1. \/ pc[o] = "lookup" /\ pc'[o] \in {"acquire", "create"}
        \/ pc[o] = "create" /\ pc'[o] = "acquire"
    BY <1>0, <1>5 DEF FindPool, LockForCreate, CreatePool, Goto
  <2>2. QED
    BY <1>0, <2>1 DEF Ahead
<1>6. CASE LoginOk(o) \/ ReleaseFind(o) \/ DropFromMap(o) \/ MarkClosed(o)
  <2>1. \/ pc[o] = "login" /\ pc'[o] = "held"
        \/ pc[o] = "held" /\ pc'[o] = "put"
        \/ pc[o] = "drop" /\ pc'[o] = "close"
        \/ pc[o] = "close" /\ pc'[o] = "logout"
    BY <1>0, <1>6 DEF LoginOk, ReleaseFind, DropFromMap, MarkClosed, Goto
  <2>2. QED
    BY <2>1 DEF Ahead
<1>7. ~Arrive(o)
  BY DEF Arrive, GetAccount, NotFound, SaveAccount, RemoveAccount, Write
<1>8. QED
  BY <1>1, <1>2, <1>3, <1>4, <1>5, <1>6, <1>7 DEF Step, Acquire, Release, DropPool,
     RejectAccount, AcquireClosed, LimitReached, DialFails, LoginFails, ReleaseNoPool,
     ReleaseClose, ReleaseIdle, DropMissing, CloseIdle

(***************************************************************************)
(* No request loops: whatever the order of the steps, and however often    *)
(* its idle connections turn out stale, a request makes at most            *)
(* MaxConns + 7 steps after the one that starts it, and no step of another *)
(* request gives it more to do.                                            *)
(***************************************************************************)
AheadBounded == \A o \in Ops :
  /\ Ahead(o) \in 0..(7 + MaxConns)
  /\ Ahead(o) = 0 <=> pc[o] = "start"
Advances == \E o \in Ops :
  /\ pc[o] = "start" \/ Ahead(o)' < Ahead(o)
  /\ \A r \in Ops \ {o} : Ahead(r)' = Ahead(r)

\* The safety half of RequestsEnd: every request's steps are bounded, and each
\* of them brings it nearer to its end (acquire, pool.go:225-276).
THEOREM BoundedRequests == Spec => []AheadBounded /\ [][Advances]_vars
<1>1. IInv => AheadBounded
  BY AheadBounds DEF AheadBounded
<1>2. ASSUME IInv, [Next]_vars
      PROVE  [Advances]_vars
  <2>1. CASE UNCHANGED vars
    BY <2>1
  <2>2. CASE Next
    <3>1. PICK o \in Ops : Step(o)
      BY <2>2 DEF Next, Step
    <3>2. pc[o] = "start" \/ Ahead(o)' < Ahead(o)
      BY <1>2, <3>1, OwnAdvances
    <3>3. \A r \in Ops \ {o} : Ahead(r)' = Ahead(r)
      BY <1>2, <3>1, OthersStay
    <3>4. QED
      BY <3>2, <3>3 DEF Advances
  <2>3. QED
    BY <1>2, <2>1, <2>2
<1>3. QED
  BY <1>1, <1>2, Invariance, PTL DEF Spec

-----------------------------------------------------------------------------
(* What the two findings about pools rest on *)

(***************************************************************************)
(* The clocks of an account: the store's version, the newest write whose   *)
(* DropPool returned, and the version each pool was created from.  Together*)
(* with IInv they are inductive when every step is Careful.                *)
(***************************************************************************)
FreshPools == \A k \in Keys :
  /\ settled[k] <= version[k]
  /\ pools[k] # NoPool => settled[k] <= poolVer[pools[k]]
FreshDrop(o) ==
  /\ pc[o] \in {"drop", "close", "logout"} => ver[o] <= version[key[o]]
  /\ pc[o] \in {"close", "logout"} /\ pools[key[o]] # NoPool => ver[o] <= poolVer[pools[key[o]]]
FreshRequest(o) ==
  /\ pc[o] \in {"lookup", "create"} => floor[o] <= settled[key[o]]
  /\ pc[o] \in {"acquire", "scan", "login"} => floor[o] <= poolVer[pool[o]]
  /\ pc[o] \in {"held", "put"} => floor[o] <= poolVer[from[o]]
FreshConn(o) ==
  /\ pc[o] = "login" => login[conn[o]] = poolVer[pool[o]]
  /\ pc[o] \in {"held", "put"} => login[conn[o]] = poolVer[from[o]]
FreshIdle == \A p \in Pools : \A c \in IdleConns(p) : login[c] = poolVer[p]
FreshInv ==
  /\ FreshPools
  /\ \A o \in Ops : FreshDrop(o) /\ FreshRequest(o) /\ FreshConn(o)
  /\ FreshIdle

\* getOrCreatePool creates a pool from the account as it is stored now, not from
\* the copy its request read before.
LoadsCurrent(o) == (\E p \in Pools : CreatePool(o, p)) => ver[o] = version[key[o]]
\* release parks a connection in the pool it came from, not in the one that the
\* map holds under its key.
ReturnsHome(o) == ReleaseIdle(o) => pool[o] = from[o]
Careful == \A o \in Ops : LoadsCurrent(o) /\ ReturnsHome(o)

\* Stored versions: only writes and drops touch the clocks, never downwards.
LEMMA ClockEffect ==
  ASSUME ControlHyp, NEW o \in Ops, Step(o)
  PROVE  \A k \in Keys : version[k] <= version'[k] /\ settled[k] <= settled'[k]
<1>0. /\ \A k \in Keys : version[k] \in Nat /\ settled[k] \in Nat
      /\ version \in [Keys -> 0..MaxWrites] /\ settled \in [Keys -> 0..MaxWrites]
      /\ ver[o] \in Nat
  BY DEF ControlHyp, TypeOK
<1>1. CASE DropMissing(o) \/ CloseIdle(o)
  <2>1. Settle(o)
    BY <1>1 DEF DropMissing, CloseIdle
  <2>2. QED
    BY <1>0, <2>1 DEF Settle
<1>2. CASE Arrive(o)
  <2>1. PICK k \in Keys : GetAccount(o, k) \/ NotFound(o, k) \/ SaveAccount(o, k) \/ RemoveAccount(o, k)
    BY <1>2 DEF Arrive
  <2>2. settled' = settled /\ (version' = version \/ version' = [version EXCEPT ![k] = @ + 1])
    BY <2>1 DEF GetAccount, NotFound, SaveAccount, RemoveAccount, Write, storeVars, vars
  <2>3. QED
    BY <1>0, <2>2
<1>3. CASE UNCHANGED storeVars
  BY <1>0, <1>3 DEF storeVars
<1>4. QED
  BY <1>1, <1>2, <1>3 DEF Step, Acquire, Release, DropPool, FindPool, LockForCreate,
     RejectAccount, CreatePool, AcquireClosed, LockPool, DiscardIdle, ReuseIdle, LimitReached,
     DialFails, Dial, LoginFails, LoginOk, ReleaseNoPool, ReleaseFind, ReleaseClose, ReleaseIdle,
     DropFromMap, MarkClosed

\* A pool keeps the credentials it was created with as long as anything refers to it.
LEMMA PoolVerEffect ==
  ASSUME ControlHyp, NEW o \in Ops, Step(o)
  PROVE  \/ UNCHANGED poolVer /\ \A k \in Keys : pools'[k] \in {pools[k], NoPool}
         \/ \E p \in Pools : CreatePool(o, p)
<1>1. CASE DropFromMap(o)
  BY <1>1 DEF DropFromMap, poolVars, ControlHyp, TypeOK
<1>2. CASE Arrive(o)
  BY <1>2 DEF Arrive, GetAccount, NotFound, SaveAccount, RemoveAccount, Write, poolVars, vars
<1>3. QED
  BY <1>1, <1>2 DEF Step, Acquire, Release, DropPool, FindPool, LockForCreate,
     RejectAccount, AcquireClosed, LockPool, DiscardIdle, ReuseIdle, LimitReached,
     DialFails, Dial, LoginFails, LoginOk, ReleaseNoPool, ReleaseFind, ReleaseClose, ReleaseIdle,
     DropMissing, MarkClosed, CloseIdle, poolVars

\* The pools in the map are as new as the newest save whose DropPool returned.
LEMMA FreshPoolsStep ==
  ASSUME ControlHyp, FreshInv, NEW o \in Ops, Step(o), LoadsCurrent(o)
  PROVE  FreshPools'
<1>0. /\ \A k \in Keys : version[k] \in Nat /\ settled[k] \in Nat
      /\ version \in [Keys -> 0..MaxWrites] /\ settled \in [Keys -> 0..MaxWrites]
      /\ poolVer \in [Pools -> 0..MaxWrites] /\ pools \in [Keys -> Pools \cup {NoPool}]
      /\ ver[o] \in Nat
  BY DEF ControlHyp, TypeOK
<1>1. CASE \E p \in Pools : CreatePool(o, p)
  <2>1. PICK p \in Pools : CreatePool(o, p)
    BY <1>1
  <2>2. /\ UNCHANGED <<version, settled>> /\ key[o] \in Keys /\ ver[o] = version[key[o]]
        /\ pools' = [pools EXCEPT ![key[o]] = p]
        /\ poolVer' = [poolVer EXCEPT ![p] = ver[o]]
        /\ \A k \in Keys : pools[k] # p
    BY <1>1, <2>1, CreateEffect DEF CreatePool, storeVars, LoadsCurrent
  <2>3. QED
    BY <1>0, <2>2 DEF FreshInv, FreshPools
<1>2. CASE ~\E p \in Pools : CreatePool(o, p)
  <2>1. UNCHANGED poolVer /\ \A k \in Keys : pools'[k] \in {pools[k], NoPool}
    BY <1>2, PoolVerEffect
  <2>2. CASE DropMissing(o) \/ CloseIdle(o)
    <3>1. /\ Settle(o) /\ UNCHANGED pools
          /\ (pc[o] = "drop" /\ pools[key[o]] = NoPool) \/ pc[o] = "logout"
      BY <2>2 DEF DropMissing, CloseIdle
    <3>2. key[o] \in Keys
      BY <3>1, RequestTypes DEF ControlHyp, ControlInv
    <3>3. UNCHANGED version /\ settled' = [settled EXCEPT ![key[o]] = IF @ < ver[o] THEN ver[o] ELSE @]
      BY <3>1 DEF Settle
    <3>4. ver[o] <= version[key[o]] /\ (pools[key[o]] # NoPool => ver[o] <= poolVer[pools[key[o]]])
      BY <3>1 DEF FreshInv, FreshDrop
    <3>5. QED
      BY <1>0, <2>1, <3>1, <3>2, <3>3, <3>4 DEF FreshInv, FreshPools
  <2>3. CASE UNCHANGED settled
    <3>1. \A k \in Keys : version[k] <= version'[k] /\ version'[k] \in Int
      <4>1. version' = version \/ \E k \in Keys : version' = [version EXCEPT ![k] = @ + 1]
        BY DEF Step, Arrive, GetAccount, NotFound, SaveAccount, RemoveAccount, Write, Settle,
           Acquire, Release, DropPool, FindPool, LockForCreate,
           RejectAccount, CreatePool, AcquireClosed, LockPool, DiscardIdle, ReuseIdle, LimitReached,
           DialFails, Dial, LoginFails, LoginOk, ReleaseNoPool, ReleaseFind, ReleaseClose, ReleaseIdle,
           DropMissing, DropFromMap, MarkClosed, CloseIdle, storeVars, vars
      <4>2. QED
        BY <1>0, <4>1
    <3>2. QED
      BY <1>0, <2>1, <2>3, <3>1 DEF FreshInv, FreshPools
  <2>4. QED
    BY <2>2, <2>3 DEF Step, Arrive, GetAccount, NotFound, SaveAccount, RemoveAccount, Write,
       Acquire, Release, DropPool, FindPool, LockForCreate,
       RejectAccount, CreatePool, AcquireClosed, LockPool, DiscardIdle, ReuseIdle, LimitReached,
       DialFails, Dial, LoginFails, LoginOk, ReleaseNoPool, ReleaseFind, ReleaseClose, ReleaseIdle,
       DropFromMap, MarkClosed, storeVars, vars
<1>3. QED
  BY <1>1, <1>2

\* A goroutine's step changes no other goroutine's snapshot or connection.
LEMMA OthersSnapshot ==
  ASSUME TypeOK, NEW o \in Ops, Step(o), NEW r \in Ops, r # o
  PROVE  ver'[r] = ver[r] /\ floor'[r] = floor[r] /\ conn'[r] = conn[r]
<1>1. CASE Arrive(o)
  BY <1>1 DEF Arrive, GetAccount, NotFound, SaveAccount, RemoveAccount, Write, vars, TypeOK
<1>2. CASE UNCHANGED reqVars /\ (conn' = conn \/ \E c : conn' = [conn EXCEPT ![o] = c])
  BY <1>2 DEF reqVars, TypeOK
<1>3. CASE Return(o)
  BY <1>3 DEF Return, TypeOK
<1>4. CASE Acquire(o)
  BY <1>2, <1>3, <1>4 DEF Acquire, FindPool, LockForCreate, RejectAccount, CreatePool, AcquireClosed,
     LockPool, DiscardIdle, ReuseIdle, LimitReached, DialFails, Dial, LoginFails, LoginOk,
     reqVars, opVars
<1>5. CASE Release(o) \/ DropPool(o)
  BY <1>2, <1>3, <1>5 DEF Release, ReleaseNoPool, ReleaseFind, ReleaseClose, ReleaseIdle,
     DropPool, DropMissing, DropFromMap, MarkClosed, CloseIdle, reqVars
<1>6. QED
  BY <1>1, <1>4, <1>5 DEF Step

\* An open connection stays logged in with the credentials it logged in with.
LEMMA LoginKept ==
  ASSUME TypeOK, NEW o \in Ops, Step(o), NEW c \in Conns, tenant[c] # NoKey, tenant'[c] # NoKey
  PROVE  login'[c] = login[c]
<1>1. ASSUME NEW cs, Close(cs)
      PROVE  login'[c] = login[c]
  BY <1>1 DEF Close
<1>2. CASE \E d \in Conns : Dial(o, d)
  BY <1>2 DEF Dial, FreeConns, TypeOK
<1>3. CASE UNCHANGED login
  BY <1>3
<1>4. QED
  BY <1>1, <1>2, <1>3 DEF Step, Arrive, GetAccount, NotFound, SaveAccount, RemoveAccount, Write,
     Acquire, Release, DropPool, FindPool, LockForCreate,
     RejectAccount, CreatePool, AcquireClosed, LockPool, DiscardIdle, ReuseIdle, LimitReached,
     DialFails, LoginFails, LoginOk, ReleaseNoPool, ReleaseFind, ReleaseClose, ReleaseIdle,
     DropMissing, DropFromMap, MarkClosed, CloseIdle, connVars, vars

\* What is idle was idle before, or has just been put back.
LEMMA IdleSource ==
  ASSUME ControlHyp, OwnershipInv, NEW o \in Ops, Step(o), NEW p \in Pools,
         NEW c, c \in IdleConns(p)'
  PROVE  c \in IdleConns(p) \/ (ReleaseIdle(o) /\ p = pool[o] /\ c = conn[o])
<1>1. CASE DiscardIdle(o) \/ ReuseIdle(o)
  <2>1. PICK q, d : q = pool[o] /\ d = LastOf(idle[q])
    OBVIOUS
  <2>2. pc[o] = "scan" /\ idle[q] # <<>> /\ PopIdle(q)
    BY <1>1, <2>1 DEF DiscardIdle, ReuseIdle
  <2>3. IdleConns(q)' = IdleConns(q) \ {d} /\ (p # q => IdleConns(p)' = IdleConns(p))
    BY <2>1, <2>2, PopEffect DEF OwnershipInv
  <2>4. QED
    BY <2>3
<1>2. CASE ReleaseIdle(o)
  <2>1. PICK q, d : q = pool[o] /\ d = conn[o]
    OBVIOUS
  <2>2. PICK out \in SUBSET (IdleConns(q) \cup {d}) :
          /\ tenant' = [e \in Conns |-> IF e \in out THEN NoKey ELSE tenant[e]]
          /\ IdleConns(q)' = (IdleConns(q) \cup {d}) \ out
    BY <1>2, <2>1, ParkEffect DEF OwnershipInv
  <2>3. p # q => IdleConns(p)' = IdleConns(p)
    BY <1>2, <2>1, ParkEffect DEF OwnershipInv
  <2>4. CASE p = q
    <3>1. c \in IdleConns(q) \cup {d}
      BY <2>2, <2>4
    <3>2. QED
      BY <1>2, <2>1, <2>4, <3>1
  <2>5. QED
    BY <2>3, <2>4
<1>3. CASE CloseIdle(o)
  <2>1. PICK q : q = pool[o]
    OBVIOUS
  <2>2. IdleConns(q)' = {} /\ (p # q => IdleConns(p)' = IdleConns(p))
    BY <1>3, <2>1, CloseIdleEffect DEF OwnershipInv
  <2>3. QED
    BY <2>2
<1>4. CASE \E q \in Pools : CreatePool(o, q)
  BY <1>4, CreateEffect, SameIdle
<1>5. CASE UNCHANGED idle
  BY <1>5, SameIdle
<1>6. QED
  BY <1>1, <1>2, <1>3, <1>4, <1>5 DEF Step, Arrive, GetAccount, NotFound, SaveAccount,
     RemoveAccount, Write, Acquire, Release, DropPool, FindPool, LockForCreate, RejectAccount,
     AcquireClosed, LockPool, LimitReached, DialFails, Dial, LoginFails, LoginOk,
     ReleaseNoPool, ReleaseFind, ReleaseClose, DropMissing, DropFromMap, MarkClosed, poolVars, vars

\* A pool that something refers to keeps the credentials it was created with.
LEMMA PoolVerKept ==
  ASSUME ControlHyp, NEW o \in Ops, Step(o), NEW p \in Pools,
         \/ \E r \in Ops : pool[r] = p \/ from[r] = p
         \/ idle[p] # <<>>
         \/ \E k \in Keys : pools[k] = p
  PROVE  poolVer'[p] = poolVer[p]
<1>1. CASE \E q \in Pools : CreatePool(o, q)
  <2>1. PICK q \in Pools : CreatePool(o, q)
    BY <1>1
  <2>2. poolVer' = [poolVer EXCEPT ![q] = ver[o]] /\ q # p
    BY <2>1, CreateEffect DEF CreatePool
  <2>3. QED
    BY <2>2 DEF ControlHyp, TypeOK
<1>2. QED
  BY <1>1, PoolVerEffect

\* A removal in progress stays older than the pool that replaced the one it drops.
LEMMA FreshDropStep ==
  ASSUME ControlHyp, FreshInv, NEW o \in Ops, Step(o), LoadsCurrent(o), NEW r \in Ops
  PROVE  FreshDrop(r)'
<1>0. /\ \A k \in Keys : version[k] \in Nat
      /\ pools \in [Keys -> Pools \cup {NoPool}]
      /\ version \in [Keys -> 0..MaxWrites] /\ pc \in [Ops -> Labels] /\ ver \in [Ops -> 0..MaxWrites]
      /\ key \in [Ops -> Keys \cup {NoKey}]
  BY DEF ControlHyp, TypeOK
<1>m. \A k \in Keys : version[k] <= version'[k]
  BY ClockEffect
<1>t. \A k \in Keys : version'[k] \in Nat
  <2>1. TypeOK'
    BY TypeStep DEF ControlHyp, ControlInv, Step, Next
  <2>2. QED
    BY <2>1 DEF TypeOK
<1>v. \A p \in Pools : poolVer[p] \in Nat
  BY DEF ControlHyp, TypeOK
<1>1. CASE r # o
  <2>1. pc'[r] = pc[r] /\ key'[r] = key[r] /\ ver'[r] = ver[r]
    BY <1>1, OthersEffect, OthersSnapshot DEF ControlHyp
  <2>2. SUFFICES ASSUME pc[r] \in {"drop", "close", "logout"}
                 PROVE  FreshDrop(r)'
    BY <2>1 DEF FreshDrop
  <2>3. key[r] \in Keys /\ ver[r] \in Nat
    BY <2>2, RequestTypes DEF ControlHyp, ControlInv, TypeOK
  <2>4. ver[r] <= version[key[r]]
    BY <2>2 DEF FreshInv, FreshDrop
  <2>5. ver[r] <= version'[key[r]]
    BY <1>0, <1>m, <1>t, <2>3, <2>4
  <2>6. ASSUME pc[r] \in {"close", "logout"}, pools'[key[r]] # NoPool
        PROVE  ver[r] <= poolVer'[pools'[key[r]]]
    <3>1. CASE \E p \in Pools : CreatePool(o, p)
      <4>1. PICK p \in Pools : CreatePool(o, p)
        BY <3>1
      <4>2. /\ key[o] \in Keys /\ ver[o] = version[key[o]]
            /\ pools' = [pools EXCEPT ![key[o]] = p]
            /\ poolVer' = [poolVer EXCEPT ![p] = ver[o]]
            /\ \A k \in Keys : pools[k] # p
        BY <3>1, <4>1, CreateEffect DEF CreatePool, LoadsCurrent
      <4>3. poolVer \in [Pools -> 0..MaxWrites]
        BY DEF ControlHyp, TypeOK
      <4>4. QED
        BY <1>0, <2>3, <2>4, <2>6, <4>2, <4>3 DEF FreshInv, FreshDrop
    <3>2. CASE ~\E p \in Pools : CreatePool(o, p)
      <4>1. UNCHANGED poolVer /\ pools'[key[r]] = pools[key[r]]
        BY <2>3, <2>6, <3>2, PoolVerEffect
      <4>2. QED
        BY <2>6, <4>1 DEF FreshInv, FreshDrop
    <3>3. QED
      BY <3>1, <3>2
  <2>7. QED
    BY <2>1, <2>5, <2>6 DEF FreshDrop
<1>2. CASE r = o
  <2>1. CASE \E k \in Keys : SaveAccount(o, k) \/ RemoveAccount(o, k)
    <3>1. PICK k \in Keys : Write(o, k)
      BY <2>1 DEF SaveAccount, RemoveAccount
    <3>2. /\ pc'[o] = "drop" /\ key'[o] = k /\ ver'[o] = version[k] + 1
          /\ version'[k] = version[k] + 1
      BY <1>0, <3>1 DEF Write, Goto
    <3>3. QED
      BY <1>0, <1>2, <3>2 DEF FreshDrop
  <2>2. CASE DropFromMap(o)
    <3>1. /\ pc[o] = "drop" /\ UNCHANGED <<key, ver, version>>
          /\ pools' = [pools EXCEPT ![key[o]] = NoPool]
      BY <2>2 DEF DropFromMap, storeVars, reqVars
    <3>2. key[o] \in Keys
      BY <3>1, RequestTypes DEF ControlHyp, ControlInv
    <3>3. QED
      BY <1>0, <1>2, <3>1, <3>2 DEF FreshInv, FreshDrop
  <2>3. CASE MarkClosed(o)
    <3>1. pc[o] = "close" /\ UNCHANGED <<key, ver, version, pools, poolVer>>
      BY <2>3 DEF MarkClosed, storeVars, reqVars
    <3>2. QED
      BY <1>2, <3>1 DEF FreshInv, FreshDrop
  <2>4. CASE pc'[o] \notin {"drop", "close", "logout"}
    BY <1>2, <2>4 DEF FreshDrop
  <2>5. CASE Return(o)
    BY <1>0, <2>4, <2>5 DEF Return, Goto
  <2>6. CASE \E label \in {"lookup", "create", "acquire", "scan", "login", "held", "put"} : Goto(o, label)
    BY <1>0, <2>4, <2>6 DEF Goto
  <2>7. CASE Arrive(o)
    <3>1. PICK k \in Keys : GetAccount(o, k) \/ NotFound(o, k) \/ SaveAccount(o, k) \/ RemoveAccount(o, k)
      BY <2>7 DEF Arrive
    <3>2. CASE NotFound(o, k)
      BY <2>4, <3>2 DEF NotFound, vars
    <3>3. QED
      BY <2>1, <2>6, <3>1, <3>2 DEF GetAccount
  <2>8. CASE DiscardIdle(o)
    BY <2>4, <2>8 DEF DiscardIdle, opVars
  <2>9. QED
    BY <2>2, <2>3, <2>5, <2>6, <2>7, <2>8 DEF Step, Acquire, Release, DropPool,
       FindPool, LockForCreate, RejectAccount, CreatePool, AcquireClosed, LockPool, ReuseIdle,
       LimitReached, DialFails, Dial, LoginFails, LoginOk, ReleaseNoPool, ReleaseFind,
       ReleaseClose, ReleaseIdle, DropMissing, CloseIdle
<1>3. QED
  BY <1>1, <1>2

\* A request works with a pool at least as new as the drops that preceded it.
LEMMA FreshRequestStep ==
  ASSUME ControlHyp, FreshInv, NEW o \in Ops, Step(o), LoadsCurrent(o), NEW r \in Ops
  PROVE  FreshRequest(r)'
<1>0. /\ pc \in [Ops -> Labels] /\ key \in [Ops -> Keys \cup {NoKey}]
      /\ floor \in [Ops -> 0..MaxWrites] /\ ver \in [Ops -> 0..MaxWrites]
      /\ pool \in [Ops -> Pools \cup {NoPool}] /\ from \in [Ops -> Pools \cup {NoPool}]
      /\ poolVer \in [Pools -> 0..MaxWrites]
      /\ settled \in [Keys -> 0..MaxWrites] /\ version \in [Keys -> 0..MaxWrites]
  BY DEF ControlHyp, TypeOK
<1>m. \A k \in Keys : settled[k] <= settled'[k]
  BY ClockEffect
<1>t. settled' \in [Keys -> 0..MaxWrites]
  <2>1. TypeOK'
    BY TypeStep DEF ControlHyp, ControlInv, Step, Next
  <2>2. QED
    BY <2>1 DEF TypeOK
<1>f. FreshRequest(r)
  BY DEF FreshInv
<1>1. CASE r # o
  <2>1. /\ pc'[r] = pc[r] /\ key'[r] = key[r] /\ pool'[r] = pool[r] /\ from'[r] = from[r]
        /\ floor'[r] = floor[r]
    BY <1>1, OthersEffect, OthersSnapshot DEF ControlHyp
  <2>2. CASE pc[r] \in {"lookup", "create"}
    <3>1. key[r] \in Keys
      BY <2>2, RequestTypes DEF ControlHyp, ControlInv
    <3>2. floor[r] <= settled[key[r]]
      BY <1>f, <2>2 DEF FreshRequest
    <3>3. floor[r] <= settled'[key[r]]
      BY <1>0, <1>m, <1>t, <3>1, <3>2
    <3>4. QED
      BY <2>1, <2>2, <3>3 DEF FreshRequest
  <2>3. CASE pc[r] \in {"acquire", "scan", "login"}
    <3>1. pool[r] \in Pools
      BY <2>3, RequestTypes DEF ControlHyp, ControlInv
    <3>2. poolVer'[pool[r]] = poolVer[pool[r]]
      BY <3>1, PoolVerKept
    <3>3. QED
      BY <1>f, <2>1, <2>3, <3>2 DEF FreshRequest
  <2>4. CASE pc[r] \in {"held", "put"}
    <3>1. from[r] \in Pools
      BY <1>0, <2>4 DEF ControlHyp, ControlInv, RequestInv
    <3>2. poolVer'[from[r]] = poolVer[from[r]]
      BY <3>1, PoolVerKept
    <3>3. QED
      BY <1>f, <2>1, <2>4, <3>2 DEF FreshRequest
  <2>5. QED
    BY <2>1, <2>2, <2>3, <2>4 DEF FreshRequest
<1>2. CASE r = o
  <2>1. CASE Arrive(o)
    <3>1. PICK k \in Keys : GetAccount(o, k) \/ NotFound(o, k) \/ SaveAccount(o, k) \/ RemoveAccount(o, k)
      BY <2>1 DEF Arrive
    <3>2. CASE GetAccount(o, k)
      <4>1. pc'[o] = "lookup" /\ key'[o] = k /\ floor'[o] = settled[k] /\ settled' = settled
        BY <1>0, <3>2 DEF GetAccount, Goto, storeVars
      <4>2. QED
        BY <1>0, <1>2, <4>1 DEF FreshRequest
    <3>3. CASE NotFound(o, k)
      BY <1>2, <1>f, <3>3 DEF NotFound, vars, FreshRequest
    <3>4. CASE Write(o, k)
      <4>1. pc'[o] = "drop"
        BY <1>0, <3>4 DEF Write, Goto
      <4>2. QED
        BY <1>2, <4>1 DEF FreshRequest
    <3>5. QED
      BY <3>1, <3>2, <3>3, <3>4 DEF SaveAccount, RemoveAccount
  <2>2. CASE FindPool(o)
    <3>1. /\ pc[o] = "lookup" /\ pc'[o] = "acquire" /\ UNCHANGED <<floor, poolVer, settled>>
          /\ pools[key[o]] # NoPool /\ pool'[o] = pools[key[o]]
      BY <1>0, <2>2 DEF FindPool, Goto, poolVars, reqVars, storeVars
    <3>2. key[o] \in Keys
      BY <3>1, RequestTypes DEF ControlHyp, ControlInv
    <3>3. settled[key[o]] <= poolVer[pools[key[o]]] /\ floor[o] <= settled[key[o]]
      BY <1>2, <1>f, <3>1, <3>2 DEF FreshInv, FreshPools, FreshRequest
    <3>4. pools[key[o]] \in Pools
      BY <3>1, <3>2 DEF ControlHyp, TypeOK
    <3>5. floor[o] <= poolVer[pools[key[o]]]
      BY <1>0, <3>2, <3>3, <3>4
    <3>6. QED
      BY <1>2, <3>1, <3>5 DEF FreshRequest
  <2>3. CASE LockForCreate(o)
    <3>1. pc[o] = "lookup" /\ pc'[o] = "create" /\ UNCHANGED <<key, floor, settled>>
      BY <1>0, <2>3 DEF LockForCreate, Goto, reqVars, storeVars
    <3>2. QED
      BY <1>2, <1>f, <3>1 DEF FreshRequest
  <2>4. CASE \E p \in Pools : CreatePool(o, p)
    <3>1. PICK p \in Pools : CreatePool(o, p)
      BY <2>4
    <3>2. /\ pc[o] = "create" /\ pc'[o] = "acquire" /\ UNCHANGED floor
          /\ pool'[o] = p /\ poolVer'[p] = ver[o]
      BY <1>0, <3>1 DEF CreatePool, Goto, reqVars
    <3>3. key[o] \in Keys /\ ver[o] = version[key[o]]
      BY <2>4, <3>2, RequestTypes DEF ControlHyp, ControlInv, LoadsCurrent
    <3>4. floor[o] <= settled[key[o]] /\ settled[key[o]] <= version[key[o]]
      BY <1>2, <1>f, <3>2, <3>3 DEF FreshInv, FreshPools, FreshRequest
    <3>5. floor[o] <= ver[o]
      BY <1>0, <3>3, <3>4
    <3>6. QED
      BY <1>2, <3>2, <3>5 DEF FreshRequest
  <2>5. CASE LockPool(o) \/ DiscardIdle(o) \/ \E c \in Conns : Dial(o, c)
    <3>1. /\ pc[o] \in {"acquire", "scan"} /\ pc'[o] \in {"scan", "login"}
          /\ UNCHANGED <<floor, pool, poolVer>>
      BY <1>0, <2>5 DEF LockPool, DiscardIdle, Dial, Goto, reqVars, opVars, poolVars
    <3>2. QED
      BY <1>2, <1>f, <3>1 DEF FreshRequest
  <2>6. CASE ReuseIdle(o) \/ LoginOk(o)
    <3>1. /\ pc[o] \in {"scan", "login"} /\ pc'[o] = "held"
          /\ UNCHANGED <<floor, poolVer>> /\ from'[o] = pool[o]
      BY <1>0, <2>6 DEF ReuseIdle, LoginOk, Goto, reqVars
    <3>2. QED
      BY <1>2, <1>f, <3>1 DEF FreshRequest
  <2>7. CASE ReleaseFind(o)
    <3>1. pc[o] = "held" /\ pc'[o] = "put" /\ UNCHANGED <<floor, poolVer, from>>
      BY <1>0, <2>7 DEF ReleaseFind, Goto, reqVars, poolVars
    <3>2. QED
      BY <1>2, <1>f, <3>1 DEF FreshRequest
  <2>8. CASE DropFromMap(o) \/ MarkClosed(o)
    <3>1. pc'[o] \in {"close", "logout"}
      BY <1>0, <2>8 DEF DropFromMap, MarkClosed, Goto
    <3>2. QED
      BY <1>2, <3>1 DEF FreshRequest
  <2>9. CASE Return(o)
    <3>1. pc'[o] = "start"
      BY <1>0, <2>9 DEF Return, Goto
    <3>2. QED
      BY <1>2, <3>1 DEF FreshRequest
  <2>10. QED
    BY <2>1, <2>2, <2>3, <2>4, <2>5, <2>6, <2>7, <2>8, <2>9 DEF Step, Acquire, Release, DropPool,
       RejectAccount, AcquireClosed, LimitReached, DialFails, LoginFails,
       ReleaseNoPool, ReleaseClose, ReleaseIdle, DropMissing, CloseIdle
<1>3. QED
  BY <1>1, <1>2

\* A connection in use is logged in with its pool's credentials.
LEMMA FreshConnStep ==
  ASSUME IInv, IInv', FreshInv, NEW o \in Ops, Step(o), NEW r \in Ops
  PROVE  FreshConn(r)'
<1>0. /\ pc \in [Ops -> Labels] /\ conn \in [Ops -> Conns \cup {NoConn}]
      /\ pool \in [Ops -> Pools \cup {NoPool}] /\ from \in [Ops -> Pools \cup {NoPool}]
      /\ login \in [Conns -> 0..MaxWrites]
      /\ ControlHyp /\ OwnershipInv
  BY DEF IInv, ControlHyp, TypeOK
<1>f. FreshConn(r)
  BY DEF FreshInv
<1>1. CASE r # o
  <2>1. /\ pc'[r] = pc[r] /\ pool'[r] = pool[r] /\ from'[r] = from[r] /\ conn'[r] = conn[r]
    BY <1>0, <1>1, OthersEffect, OthersSnapshot DEF ControlHyp
  <2>2. SUFFICES ASSUME pc[r] \in {"login", "held", "put"}
                 PROVE  FreshConn(r)'
    BY <2>1 DEF FreshConn
  <2>3. conn[r] \in Conns
    BY <1>0, <2>2, RequestTypes DEF ControlHyp, ControlInv
  <2>4. tenant[conn[r]] # NoKey /\ tenant'[conn[r]] # NoKey
    BY <2>1, <2>2, <2>3 DEF IInv, ControlInv, RequestInv, OwnershipInv, HeldInv, TenantIsolation
  <2>5. login'[conn[r]] = login[conn[r]]
    BY <1>0, <2>3, <2>4, LoginKept DEF ControlHyp
  <2>6. CASE pc[r] = "login"
    <3>1. pool[r] \in Pools
      BY <1>0, <2>6, RequestTypes DEF ControlHyp, ControlInv
    <3>2. poolVer'[pool[r]] = poolVer[pool[r]]
      BY <1>0, <3>1, PoolVerKept
    <3>3. QED
      BY <1>f, <2>1, <2>5, <2>6, <3>2 DEF FreshConn
  <2>7. CASE pc[r] \in {"held", "put"}
    <3>1. from[r] \in Pools
      BY <1>0, <2>7 DEF ControlHyp, ControlInv, RequestInv
    <3>2. poolVer'[from[r]] = poolVer[from[r]]
      BY <1>0, <3>1, PoolVerKept
    <3>3. QED
      BY <1>f, <2>1, <2>5, <2>7, <3>2 DEF FreshConn
  <2>8. QED
    BY <2>2, <2>6, <2>7
<1>2. CASE r = o
  <2>1. CASE \E c \in Conns : Dial(o, c)
    <3>1. PICK c \in Conns : Dial(o, c)
      BY <2>1
    <3>2. /\ pc'[o] = "login" /\ conn'[o] = c /\ UNCHANGED <<pool, poolVer>>
          /\ login'[c] = poolVer[pool[o]]
      BY <1>0, <3>1 DEF Dial, Goto, poolVars
    <3>3. QED
      BY <1>2, <3>2 DEF FreshConn
  <2>2. CASE LoginOk(o)
    <3>1. /\ pc[o] = "login" /\ pc'[o] = "held" /\ UNCHANGED <<conn, login, poolVer>>
          /\ from'[o] = pool[o]
      BY <1>0, <2>2 DEF LoginOk, Goto, connVars
    <3>2. QED
      BY <1>2, <1>f, <3>1 DEF FreshConn
  <2>3. CASE ReuseIdle(o)
    <3>1. PICK p, c : p = pool[o] /\ c = LastOf(idle[p])
      OBVIOUS
    <3>2. /\ pc[o] = "scan" /\ pc'[o] = "held" /\ UNCHANGED <<login, poolVer>>
          /\ from'[o] = p /\ conn'[o] = c /\ idle[p] # <<>> /\ PopIdle(p)
      BY <1>0, <2>3, <3>1 DEF ReuseIdle, Goto, connVars
    <3>3. p \in Pools /\ c \in IdleConns(p)
      BY <1>0, <3>1, <3>2, PopEffect DEF OwnershipInv
    <3>4. login[c] = poolVer[p]
      BY <3>3 DEF FreshInv, FreshIdle
    <3>5. QED
      BY <1>2, <3>2, <3>4 DEF FreshConn
  <2>4. CASE ReleaseFind(o)
    <3>1. pc[o] = "held" /\ pc'[o] = "put" /\ UNCHANGED <<conn, login, poolVer, from>>
      BY <1>0, <2>4 DEF ReleaseFind, Goto, connVars, poolVars
    <3>2. QED
      BY <1>2, <1>f, <3>1 DEF FreshConn
  <2>5. CASE pc'[o] \notin {"login", "held", "put"}
    BY <1>2, <2>5 DEF FreshConn
  <2>6. CASE Return(o)
    BY <1>0, <2>5, <2>6 DEF Return, Goto
  <2>7. CASE \E label \in {"lookup", "create", "acquire", "scan", "drop", "close", "logout"} : Goto(o, label)
    BY <1>0, <2>5, <2>7 DEF Goto
  <2>8. CASE Arrive(o)
    <3>1. PICK k \in Keys : GetAccount(o, k) \/ NotFound(o, k) \/ SaveAccount(o, k) \/ RemoveAccount(o, k)
      BY <2>8 DEF Arrive
    <3>2. CASE NotFound(o, k)
      BY <2>5, <3>2 DEF NotFound, vars
    <3>3. QED
      BY <2>7, <3>1, <3>2 DEF GetAccount, SaveAccount, RemoveAccount, Write
  <2>9. CASE DiscardIdle(o)
    BY <2>5, <2>9 DEF DiscardIdle, opVars
  <2>10. QED
    BY <2>1, <2>2, <2>3, <2>4, <2>6, <2>7, <2>8, <2>9 DEF Step, Acquire, Release, DropPool,
       FindPool, LockForCreate, RejectAccount, CreatePool, AcquireClosed, LockPool,
       LimitReached, DialFails, LoginFails, ReleaseNoPool,
       ReleaseClose, ReleaseIdle, DropMissing, DropFromMap, MarkClosed, CloseIdle
<1>3. QED
  BY <1>1, <1>2

\* Idle connections are logged in with their pool's credentials, as long as
\* each goes back to the pool it came from.
LEMMA FreshIdleStep ==
  ASSUME IInv, IInv', FreshInv, NEW o \in Ops, Step(o), ReturnsHome(o)
  PROVE  FreshIdle'
<1> SUFFICES ASSUME NEW p \in Pools, NEW c, c \in IdleConns(p)'
             PROVE  login'[c] = poolVer'[p]
  BY DEF FreshIdle
<1>0. ControlHyp /\ OwnershipInv /\ ControlHyp' /\ OwnershipInv'
  BY DEF IInv, ControlHyp
<1>1. c \in Conns /\ tenant'[c] # NoKey
  <2>1. idle'[p] \in Seq(Conns) /\ idle'[p] # <<>>
    <3>1. idle'[p] \in Seq(Conns)
      BY <1>0 DEF ControlHyp, TypeOK
    <3>2. Range(idle'[p]) # {}
      BY DEF IdleConns
    <3>3. QED
      BY <3>1, <3>2, EmptyFacts
  <2>2. c \in Conns
    BY <2>1, LenProperties DEF IdleConns, Range
  <2>3. tenant'[c] = poolKey'[p] /\ poolKey'[p] # NoKey
    BY <1>0, <2>1 DEF OwnershipInv, IdleInv, ControlHyp, ControlInv, PoolInv
  <2>4. QED
    BY <2>2, <2>3
<1>2. CASE c \in IdleConns(p)
  <2>1. tenant[c] # NoKey /\ idle[p] # <<>>
    BY <1>0, <1>2, OwnershipFacts
  <2>2. login'[c] = login[c] /\ poolVer'[p] = poolVer[p]
    BY <1>0, <1>1, <2>1, LoginKept, PoolVerKept DEF ControlHyp
  <2>3. QED
    BY <1>2, <2>2 DEF FreshInv, FreshIdle
<1>3. CASE ReleaseIdle(o) /\ p = pool[o] /\ c = conn[o]
  <2>1. pc[o] = "put" /\ pool[o] = from[o] /\ UNCHANGED poolVer
    BY <1>3 DEF ReleaseIdle, ReturnsHome
  <2>2. login[c] = poolVer[p]
    BY <1>3, <2>1 DEF FreshInv, FreshConn
  <2>3. tenant[c] # NoKey
    BY <1>0, <1>1, <1>3, OwnershipFacts
  <2>4. login'[c] = login[c]
    BY <1>0, <1>1, <2>3, LoginKept DEF ControlHyp
  <2>5. QED
    BY <2>1, <2>2, <2>4
<1>4. QED
  BY <1>0, <1>2, <1>3, IdleSource

(***************************************************************************)
(* Two things, and nothing else, let a request use credentials older than  *)
(* a save that was done before it started: a pool created from an account  *)
(* copy read before the save, and a connection of a dropped pool parked in *)
(* the pool that replaced it.  In every behaviour without such a step the  *)
(* change takes effect at once (server.go:539), whatever else happens.     *)
(***************************************************************************)
THEOREM FreshUnderCare == Init /\ [][Next /\ Careful]_vars => []ChangesTakeEffect
<1>1. Init => IInv /\ FreshInv
  <2> SUFFICES ASSUME Init
               PROVE  FreshInv
    BY InitInv
  <2>1. \A p \in Pools : IdleConns(p) = {}
    BY EmptyFacts DEF Init, IdleConns
  <2>2. QED
    BY <2>1 DEF Init, FreshInv, FreshPools, FreshDrop, FreshRequest, FreshConn, FreshIdle
<1>2. ASSUME IInv, FreshInv, [Next /\ Careful]_vars
      PROVE  IInv' /\ FreshInv'
  <2>1. IInv'
    BY <1>2, StepInv
  <2>2. CASE UNCHANGED vars
    <3>1. FreshPools' /\ \A r \in Ops : FreshDrop(r)' /\ FreshRequest(r)' /\ FreshConn(r)'
      BY <1>2, <2>2 DEF vars, FreshInv, FreshPools, FreshDrop, FreshRequest, FreshConn
    <3>2. FreshIdle'
      BY <1>2, <2>2 DEF vars, FreshInv, FreshIdle, IdleConns
    <3>3. QED
      BY <2>1, <3>1, <3>2 DEF FreshInv
  <2>3. CASE Next /\ Careful
    <3>1. PICK o \in Ops : Step(o)
      BY <2>3 DEF Next, Step
    <3>2. LoadsCurrent(o) /\ ReturnsHome(o)
      BY <2>3 DEF Careful
    <3>3. ControlHyp
      BY <1>2 DEF IInv, ControlHyp
    <3>4. FreshPools'
      BY <1>2, <3>1, <3>2, <3>3, FreshPoolsStep
    <3>5. \A r \in Ops : FreshDrop(r)' /\ FreshRequest(r)'
      BY <1>2, <3>1, <3>2, <3>3, FreshDropStep, FreshRequestStep
    <3>6. \A r \in Ops : FreshConn(r)'
      BY <1>2, <2>1, <3>1, FreshConnStep
    <3>7. FreshIdle'
      BY <1>2, <2>1, <3>1, <3>2, FreshIdleStep
    <3>8. QED
      BY <2>1, <3>4, <3>5, <3>6, <3>7 DEF FreshInv
  <2>4. QED
    BY <1>2, <2>2, <2>3
<1>3. ASSUME IInv, FreshInv
      PROVE  ChangesTakeEffect
  <2> SUFFICES ASSUME NEW o \in Ops, pc[o] = "held"
               PROVE  login[conn[o]] >= floor[o]
    BY DEF ChangesTakeEffect
  <2>1. from[o] \in Pools
    BY <1>3 DEF IInv, TypeOK, ControlInv, RequestInv
  <2>2. login[conn[o]] = poolVer[from[o]] /\ floor[o] <= poolVer[from[o]]
    BY <1>3 DEF FreshInv, FreshRequest, FreshConn
  <2>3. poolVer[from[o]] \in Nat /\ floor[o] \in Nat
    BY <1>3, <2>1 DEF IInv, TypeOK
  <2>4. QED
    BY <2>2, <2>3
<1>4. QED
  BY <1>1, <1>2, <1>3, PTL

\* The accounting of the pools in the map is exact.
MappedInv == \A k \in Keys : pools[k] # NoPool =>
  /\ inUse[pools[k]] = Cardinality(InUseBy(pools[k]))
  /\ Len(idle[pools[k]]) + inUse[pools[k]] <= MaxConns

\* Every release gives its slot back to the pool it was taken from.
SlotsReturn == \A o \in Ops : ReturnsSlot(o) => pool[o] = from[o]

\* The accounting stays exact when slots go back where they were taken.
LEMMA MappedStep ==
  ASSUME ControlHyp, OwnershipInv, SlotInv, MappedInv, [Next /\ SlotsReturn]_vars
  PROVE  MappedInv'
<1> DEFINE N(p) == Cardinality(InUseBy(p))
           Exact(p) == inUse[p] = N(p) /\ Len(idle[p]) + inUse[p] <= MaxConns
<1> SUFFICES ASSUME NEW k \in Keys, pools'[k] # NoPool, NEW p, p = pools'[k]
             PROVE  Exact(p)'
  BY DEF MappedInv
<1>0. /\ inUse \in [Pools -> Int]
      /\ pools \in [Keys -> Pools \cup {NoPool}] /\ poolKey \in [Pools -> Keys \cup {NoKey}]
      /\ pools[k] # NoPool => Exact(pools[k])
      /\ \A q \in Pools : Len(idle[q]) \in Nat /\ N(q) \in Nat
  BY InUseFinite, LenProperties DEF MappedInv, ControlHyp, TypeOK
<1> HIDE DEF N
<1>1. ASSUME NEW o \in Ops, NoSlot(o)
      PROVE  Exact(p)'
  <2>1. UNCHANGED inUse /\ pools[k] = p
    BY <1>1, NoSlotEffect
  <2>2. p \in Pools /\ Exact(p)
    BY <1>0, <2>1
  <2>3. N(p)' = N(p)
    BY <1>1, NoSlotEffect, InUseSame DEF N
  <2>4. idle'[p] = idle[p] \/ Len(idle'[p]) = Len(idle[p]) - 1 \/ idle'[p] = <<>>
    BY <1>1, <2>2, IdleEffect
  <2>5. Len(idle'[p]) <= Len(idle[p]) /\ Len(idle'[p]) \in Int
    BY <1>0, <2>2, <2>4, EmptyFacts
  <2>6. QED
    BY <1>0, <2>1, <2>2, <2>3, <2>5
<1>2. ASSUME NEW o \in Ops, NEW q \in Pools, CreatePool(o, q)
      PROVE  Exact(p)'
  <2>1. /\ key[o] \in Keys /\ pools' = [pools EXCEPT ![key[o]] = q]
        /\ inUse' = [inUse EXCEPT ![q] = 0] /\ UNCHANGED <<idle, from>> /\ idle[q] = <<>>
        /\ \A r \in Ops : from[r] # q
        /\ \A m \in Keys : pools[m] # q
    BY <1>2, CreateEffect
  <2>2. N(p)' = N(p)
    BY <2>1, InUseSame DEF N
  <2>3. CASE p # q
    BY <1>0, <2>1, <2>2, <2>3
  <2>4. CASE p = q
    <3>1. N(p) = 0
      <4>1. InUseBy(p) = {}
        BY <2>1, <2>4 DEF InUseBy
      <4>2. QED
        BY <4>1, FS_EmptySet DEF N
    <3>2. QED
      BY <1>0, <2>1, <2>2, <2>4, <3>1, EmptyFacts
  <2>5. QED
    BY <2>3, <2>4
<1>3. ASSUME NEW o \in Ops, TakesSlot(o)
      PROVE  Exact(p)'
  <2>1. /\ pool[o] \in Pools /\ from[o] = NoPool /\ UNCHANGED pools
        /\ inUse' = [inUse EXCEPT ![pool[o]] = @ + 1] /\ from' = [from EXCEPT ![o] = pool[o]]
    BY <1>3, TakesEffect
  <2>2. p \in Pools /\ Exact(p)
    BY <1>0, <2>1
  <2>3. N(p)' = N(p) + (IF p = pool[o] THEN 1 ELSE 0)
    BY <2>1, <2>2, InUseTake DEF N, ControlHyp
  <2>4. Len(idle'[p]) \in Int /\ Len(idle'[p]) <= Len(idle[p])
    <3>1. idle'[p] = idle[p] \/ Len(idle'[p]) = Len(idle[p]) - 1 \/ idle'[p] = <<>>
      BY <1>3, <2>2, IdleEffect
    <3>2. QED
      BY <1>0, <2>2, <3>1, EmptyFacts
  <2>5. p = pool[o] => Len(idle'[p]) + inUse[p] + 1 <= MaxConns
    <3>1. CASE ReuseIdle(o)
      <4>1. PICK q, c : q = pool[o] /\ c = LastOf(idle[q])
        OBVIOUS
      <4>2. pc[o] = "scan" /\ idle[q] # <<>> /\ PopIdle(q)
        BY <3>1, <4>1 DEF ReuseIdle
      <4>3. Len(idle'[q]) = Len(idle[q]) - 1
        BY <4>1, <4>2, PopEffect DEF OwnershipInv
      <4>4. QED
        BY <1>0, <2>2, <4>1, <4>3
    <3>2. CASE LoginOk(o)
      <4>1. UNCHANGED idle /\ pc[o] = "login"
        BY <3>2 DEF LoginOk
      <4>2. p = pool[o] => idle'[p] = <<>> /\ inUse[p] < MaxConns
        BY <4>1 DEF SlotInv
      <4>3. QED
        BY <1>0, <2>2, <4>2, EmptyFacts
    <3>3. QED
      BY <1>3, <3>1, <3>2 DEF TakesSlot
  <2>6. QED
    BY <1>0, <2>1, <2>2, <2>3, <2>4, <2>5
<1>4. ASSUME NEW o \in Ops, ReturnsSlot(o), pool[o] = from[o]
      PROVE  Exact(p)'
  <2>1. /\ pool[o] \in Pools /\ UNCHANGED pools
        /\ inUse' = [inUse EXCEPT ![pool[o]] = @ - 1] /\ from' = [from EXCEPT ![o] = NoPool]
    BY <1>4, ReturnsEffect
  <2>2. p \in Pools /\ Exact(p)
    BY <1>0, <2>1
  <2>3. \/ idle'[p] = idle[p]
        \/ p = pool[o] /\ Len(idle'[p]) <= Len(idle[p]) + 1
    BY <1>4, <2>2, ReturnsEffect
  <2>4. N(p)' = N(p) - (IF p = pool[o] THEN 1 ELSE 0)
    BY <1>4, <2>1, <2>2, InUseReturn DEF N, ControlHyp
  <2>5. Len(idle'[p]) \in Nat
    <3>1. [Next]_vars
      BY <1>4 DEF Next, Release, ReturnsSlot
    <3>2. idle'[p] \in Seq(Conns)
      BY <2>2, <3>1, TypeStep DEF ControlHyp, ControlInv, TypeOK
    <3>3. QED
      BY <3>2, LenProperties
  <2>6. QED
    BY <1>0, <2>1, <2>2, <2>3, <2>4, <2>5
<1>5. ASSUME NEW o \in Ops, ReleaseNoPool(o)
      PROVE  Exact(p)'
  <2>1. /\ pc[o] = "held" /\ pools[key[o]] = NoPool /\ UNCHANGED <<pools, inUse, idle>>
        /\ from' = [from EXCEPT ![o] = NoPool]
    BY <1>5 DEF ReleaseNoPool, Return, poolVars
  <2>2. p \in Pools /\ Exact(p)
    BY <1>0, <2>1
  <2>3. N(p)' = N(p) - (IF p = from[o] THEN 1 ELSE 0)
    BY <2>1, <2>2, InUseReturn DEF N, ControlHyp
  <2>4. p # from[o]
    BY <1>0, <2>1, <2>2 DEF ControlHyp, ControlInv, RequestInv, PoolInv
  <2>5. QED
    BY <1>0, <2>1, <2>2, <2>3, <2>4
<1>6. CASE UNCHANGED vars
  <2>1. UNCHANGED <<inUse, pools, from, idle>>
    BY <1>6 DEF vars
  <2>2. N(p)' = N(p)
    BY <2>1, InUseSame DEF N
  <2>3. QED
    BY <1>0, <2>1, <2>2
<1>7. QED
  BY <1>1, <1>2, <1>3, <1>4, <1>5, <1>6, SlotKinds DEF SlotsReturn

(***************************************************************************)
(* Releasing into another pool than the one acquired from is the only way  *)
(* past the documented limit: in every behaviour in which each slot goes   *)
(* back where it was taken, the pool in the map has at most MaxConns       *)
(* connections in use, dropped and re-created pools included.              *)
(***************************************************************************)
THEOREM LimitWhenReturned == Init /\ [][Next /\ SlotsReturn]_vars => []PoolLimit
<1>1. Init => IInv /\ MappedInv
  BY InitInv DEF Init, MappedInv
<1>2. IInv /\ MappedInv /\ [Next /\ SlotsReturn]_vars => IInv' /\ MappedInv'
  BY StepInv, MappedStep DEF IInv, ControlHyp, AccountingInv
<1>3. ASSUME IInv, MappedInv
      PROVE  PoolLimit
  <2> SUFFICES ASSUME NEW k \in Keys, pools[k] # NoPool
               PROVE  Cardinality(InUseBy(pools[k])) <= MaxConns
    BY DEF PoolLimit
  <2>1. pools[k] \in Pools
    BY <1>3 DEF IInv, TypeOK
  <2>2. inUse[pools[k]] \in Int /\ Len(idle[pools[k]]) \in Nat
    BY <1>3, <2>1, LenProperties DEF IInv, TypeOK
  <2>3. QED
    BY <1>3, <2>2 DEF MappedInv
<1>4. QED
  BY <1>1, <1>2, <1>3, PTL

-----------------------------------------------------------------------------
(* The manager implements ConnLease *)


\* HolderOf names the one request that holds a connection.
LEMMA HolderFacts ==
  ASSUME HeldInv, NEW c \in Conns
  PROVE  /\ HolderOf(c) \in Ops \cup {NoOp}
         /\ \A o \in Ops : HolderOf(c) = o <=> conn[o] = c
BY DEF HolderOf, Holders, HeldInv

\* The same in the next state.
LEMMA HolderFactsNext ==
  ASSUME HeldInv', NEW c \in Conns
  PROVE  /\ HolderOf(c)' \in Ops \cup {NoOp}
         /\ \A o \in Ops : HolderOf(c)' = o <=> conn'[o] = c
BY DEF HolderOf, Holders, HeldInv

\* The initial states map to initial states of the leases.
LEMMA LeaseInitMap == Init => Lease!LeaseInit
<1> SUFFICES ASSUME Init
             PROVE  Lease!LeaseInit
  OBVIOUS
<1>1. HeldInv
  BY DEF Init, HeldInv, TenantIsolation
<1>2. \A c \in Conns : HolderOf(c) = NoOp
  BY <1>1, HolderFacts DEF Init
<1>3. QED
  BY <1>2 DEF Init, Lease!LeaseInit


\* Every step of the manager is a step of the leases, or changes none.
LEMMA LeaseStep ==
  ASSUME ControlHyp, OwnershipInv, HeldInv', [Next]_vars
  PROVE  [Lease!LeaseNext]_(Lease!leaseVars)
<1>h. /\ \A c \in Conns : HolderOf(c) \in Ops \cup {NoOp} /\ HolderOf(c)' \in Ops \cup {NoOp}
      /\ \A c \in Conns, r \in Ops : HolderOf(c) = r <=> conn[r] = c
      /\ \A c \in Conns, r \in Ops : HolderOf(c)' = r <=> conn'[r] = c
  BY HolderFacts, HolderFactsNext DEF OwnershipInv
<1>i. \A p \in Pools : \A c \in IdleConns(p) : c \in Conns /\ Lease!Idle(c)
  <2>1. \A p \in Pools : \A c \in IdleConns(p) :
          c \in Conns /\ tenant[c] # NoKey /\ \A r \in Ops : conn[r] # c
    BY OwnershipFacts
  <2>2. QED
    BY <2>1, <1>h DEF Lease!Idle
<1>n. \A r \in Ops : conn[r] = NoConn => Lease!HoldsNothing(r)
  BY <1>h DEF Lease!HoldsNothing
<1>u. ASSUME conn' = conn
      PROVE  \A c \in Conns : HolderOf(c)' = HolderOf(c)
  BY <1>h, <1>u
<1>1. ASSUME NEW o \in Ops, Quiet(o)
      PROVE  UNCHANGED Lease!leaseVars
  <2>1. UNCHANGED <<tenant, conn>>
    BY <1>1, QuietEffect
  <2>2. QED
    BY <2>1, <1>u DEF Lease!leaseVars
<1>2. ASSUME NEW o \in Ops, ClosesOwn(o)
      PROVE  Lease!LeaseNext
  <2>1. /\ conn[o] \in Conns
        /\ tenant' = [c \in Conns |-> IF c = conn[o] THEN NoKey ELSE tenant[c]]
        /\ conn' = [conn EXCEPT ![o] = NoConn]
    BY <1>2, ClosesOwnEffect
  <2>2. \A c \in Conns : HolderOf(c)' = IF c = conn[o] THEN NoOp ELSE HolderOf(c)
    BY <1>h, <2>1, OwnershipFacts
  <2>3. Lease!GiveBack(o, conn[o], {conn[o]})
    BY <1>h, <2>1, <2>2 DEF Lease!GiveBack
  <2>4. QED
    BY <2>1, <2>3 DEF Lease!LeaseNext
<1>3. ASSUME NEW o \in Ops, NEW c \in Conns, Dial(o, c)
      PROVE  Lease!LeaseNext
  <2>1. /\ tenant[c] = NoKey /\ key[o] \in Keys /\ conn[o] = NoConn
        /\ tenant' = [tenant EXCEPT ![c] = key[o]]
        /\ conn' = [conn EXCEPT ![o] = c]
    BY <1>3, DialEffect
  <2>2. \A d \in Conns : HolderOf(d)' = IF d = c THEN o ELSE HolderOf(d)
    BY <1>h, <2>1, OwnershipFacts
  <2>3. Lease!Open(o, key[o], c)
    BY <1>n, <2>1, <2>2 DEF Lease!Open
  <2>4. QED
    BY <2>1, <2>3 DEF Lease!LeaseNext
<1>4. ASSUME NEW o \in Ops, DiscardIdle(o)
      PROVE  Lease!LeaseNext
  <2>1. PICK p, c : p = pool[o] /\ c = LastOf(idle[p])
    OBVIOUS
  <2>2. /\ pc[o] = "scan" /\ idle[p] # <<>> /\ PopIdle(p) /\ UNCHANGED conn
        /\ tenant' = [d \in Conns |-> IF d \in {c} THEN NoKey ELSE tenant[d]]
    BY <1>4, <2>1 DEF DiscardIdle, Close, opVars
  <2>3. p \in Pools /\ c \in IdleConns(p)
    BY <2>1, <2>2, PopEffect DEF OwnershipInv
  <2>4. Lease!CloseIdleConns({c})
    BY <1>i, <1>u, <2>2, <2>3 DEF Lease!CloseIdleConns
  <2>5. QED
    BY <1>i, <2>3, <2>4 DEF Lease!LeaseNext
<1>5. ASSUME NEW o \in Ops, ReuseIdle(o)
      PROVE  Lease!LeaseNext
  <2>1. PICK p, c : p = pool[o] /\ c = LastOf(idle[p])
    OBVIOUS
  <2>2. /\ pc[o] = "scan" /\ idle[p] # <<>> /\ PopIdle(p) /\ UNCHANGED tenant
        /\ conn' = [conn EXCEPT ![o] = c]
    BY <1>5, <2>1 DEF ReuseIdle, connVars
  <2>3. p \in Pools /\ c \in IdleConns(p) /\ c \in Conns
    BY <2>1, <2>2, PopEffect DEF OwnershipInv
  <2>4. conn[o] = NoConn
    BY <2>2 DEF ControlHyp, ControlInv, RequestInv
  <2>5. \A d \in Conns : HolderOf(d)' = IF d = c THEN o ELSE HolderOf(d)
    BY <1>h, <2>2, <2>3, <2>4, OwnershipFacts
  <2>6. Lease!Take(o, c)
    BY <1>i, <1>n, <2>2, <2>3, <2>4, <2>5 DEF Lease!Take
  <2>7. QED
    BY <2>3, <2>6 DEF Lease!LeaseNext
<1>6. ASSUME NEW o \in Ops, ReleaseIdle(o)
      PROVE  Lease!LeaseNext
  <2>1. PICK p, c : p = pool[o] /\ c = conn[o]
    OBVIOUS
  <2>2. p \in Pools /\ c \in Conns /\ conn' = [conn EXCEPT ![o] = NoConn]
    BY <1>6, <2>1, ParkEffect DEF OwnershipInv
  <2>3. PICK out \in SUBSET (IdleConns(p) \cup {c}) :
          /\ tenant' = [d \in Conns |-> IF d \in out THEN NoKey ELSE tenant[d]]
          /\ IdleConns(p)' = (IdleConns(p) \cup {c}) \ out
    BY <1>6, <2>1, ParkEffect DEF OwnershipInv
  <2>4. \A d \in Conns : HolderOf(d)' = IF d = c THEN NoOp ELSE HolderOf(d)
    BY <1>h, <2>1, <2>2, OwnershipFacts
  <2>5. \A d \in out : d \in Conns /\ (d = c \/ Lease!Idle(d))
    BY <1>i, <2>2, <2>3
  <2>6. Lease!GiveBack(o, c, out)
    BY <1>h, <2>1, <2>2, <2>3, <2>4, <2>5 DEF Lease!GiveBack
  <2>7. out \in SUBSET Conns
    BY <2>5
  <2>8. QED
    BY <2>2, <2>6, <2>7 DEF Lease!LeaseNext
<1>7. ASSUME NEW o \in Ops, CloseIdle(o)
      PROVE  Lease!LeaseNext
  <2>1. PICK p : p = pool[o]
    OBVIOUS
  <2>2. /\ p \in Pools /\ UNCHANGED conn
        /\ tenant' = [d \in Conns |-> IF d \in IdleConns(p) THEN NoKey ELSE tenant[d]]
    BY <1>7, <2>1, CloseIdleEffect DEF OwnershipInv
  <2>3. Lease!CloseIdleConns(IdleConns(p)) /\ IdleConns(p) \in SUBSET Conns
    BY <1>i, <1>u, <2>2 DEF Lease!CloseIdleConns
  <2>4. QED
    BY <2>3 DEF Lease!LeaseNext
<1>8. CASE UNCHANGED vars
  <2>1. UNCHANGED <<tenant, conn>>
    BY <1>8 DEF vars
  <2>2. QED
    BY <2>1, <1>u DEF Lease!leaseVars
<1>9. QED
  BY <1>1, <1>2, <1>3, <1>4, <1>5, <1>6, <1>7, <1>8, StepKinds

\* The detailed manager implements the abstract leases.
THEOREM ImplementsTheLease == Spec => ImplementsLease
<1>1. Init => Lease!LeaseInit
  BY LeaseInitMap
<1>2. IInv /\ IInv' /\ [Next]_vars => [Lease!LeaseNext]_(Lease!leaseVars)
  BY LeaseStep DEF IInv, ControlHyp, OwnershipInv
<1>3. QED
  BY <1>1, <1>2, Invariance, PTL DEF Spec, ImplementsLease, Lease!LeaseSpec
=============================================================================
