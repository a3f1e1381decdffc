-------------------------- MODULE DeadlinesProofs ---------------------------
(***************************************************************************)
(* Proofs about Deadlines.  Every action concerns one job: what it leaves  *)
(* alone is dealt with once (Frame, Others), and what remains is that the  *)
(* job of the step keeps Places, Connections and Outcomes (Own).  The last *)
(* section bounds the steps of a job by a measure that its own steps       *)
(* decrease (OwnLess) and those of others leave alone (OthersLeft).        *)
(***************************************************************************)
EXTENDS Deadlines, TLAPS

Kept(j) == Places(j) /\ Connections(j) /\ Outcomes(j)

Same(k) ==
  /\ caller'[k] = caller[k] /\ worker'[k] = worker[k] /\ result'[k] = result[k]
  /\ ctx'[k] = ctx[k] /\ conn'[k] = conn[k] /\ guard'[k] = guard[k]
  /\ answer'[k] = answer[k] /\ login'[k] = login[k]

\* A step of job j.
Step(j) ==
  \/ DeadlinePasses(j) \/ ContextEnds(j) \/ GuardFires(j)
  \/ CallerStep(j) \/ ConnectStep(j) \/ WorkerStep(j)

\* What Places, Connections and Outcomes say of a job depends on its own
\* variables only.
LEMMA Frame == ASSUME NEW k \in Jobs, Kept(k), Same(k) PROVE Kept(k)'
  BY DEF Kept, Same, Places, Connections, Outcomes, Unstarted, Answered,
     Over, At

\* Job kinds are exclusive.
LEMMA Kinds == ASSUME NEW j \in Jobs PROVE Imap(j) => ~Mail(j)
  BY DEF Imap, Mail

\* Every step keeps the types of the variables.
LEMMA TypesKept == ASSUME TypeOK, NEW j \in Jobs, Step(j) PROVE TypeOK'
<1>1. CASE DeadlinePasses(j)
  BY <1>1 DEF TypeOK, DeadlinePasses
<1>2. CASE ContextEnds(j)
  BY <1>2 DEF TypeOK, ContextEnds
<1>3. CASE GuardFires(j)
  BY <1>3 DEF TypeOK, GuardFires
<1>4. CASE Refuse(j)
  BY <1>4 DEF TypeOK, Refuse, Return
<1>5. CASE Begin(j)
  BY <1>5 DEF TypeOK, Waiting, Begin
<1>6. CASE Resolved(j)
  BY <1>6 DEF TypeOK, Waiting, Resolved
<1>7. CASE ResolveFails(j)
  BY <1>7 DEF TypeOK, ResolveFails, Return
<1>8. CASE ContextWins(j)
  BY <1>8 DEF TypeOK, ContextWins, Return, Conclude
<1>9. CASE ResultFails(j)
  BY <1>9 DEF TypeOK, ResultFails, Return, Conclude, Failure
<1>10. CASE GreetingIn(j)
  BY <1>10 DEF TypeOK, Waiting, GreetingIn
<1>11. CASE ResultOk(j)
  BY <1>11 DEF TypeOK, ResultOk, Return, Conclude
<1>12. CASE CloseClient(j)
  BY <1>12 DEF TypeOK, CloseClient
<1>13. CASE GraceEnds(j)
  BY <1>13 DEF TypeOK, GraceEnds, Return
<1>14. CASE Dialled(j)
  BY <1>14 DEF TypeOK, Dialled, Goto
<1>15. CASE MailDialled(j)
  BY <1>15 DEF TypeOK, MailDialled
<1>16. CASE DialFails(j)
  BY <1>16 DEF TypeOK, DialFails, ConnectFails, Return, Failure
<1>17. CASE Handshaken(j)
  BY <1>17 DEF TypeOK, Handshaken, Goto
<1>18. CASE HandshakeFails(j)
  BY <1>18 DEF TypeOK, HandshakeFails, ConnectFails, Return, Failure
<1>19. CASE Arm(j)
  BY <1>19 DEF TypeOK, Waiting, Arm
<1>20. CASE Greeted(j)
  BY <1>20 DEF TypeOK, Greeted, Outcome
<1>21. CASE Accepted(j)
  BY <1>21 DEF TypeOK, Accepted, Outcome
<1>22. CASE TalkFails(j)
  BY <1>22 DEF TypeOK, TalkFails, Outcome
<1>23. CASE Quit(j)
  BY <1>23 DEF TypeOK, Quit, Outcome
<1>24. CASE Leave(j)
  BY <1>24 DEF TypeOK, Leave
<1>. QED
  BY <1>1, <1>2, <1>3, <1>4, <1>5, <1>6, <1>7, <1>8, <1>9, <1>10, <1>11,
     <1>12, <1>13, <1>14, <1>15, <1>16, <1>17, <1>18, <1>19, <1>20, <1>21,
     <1>22, <1>23, <1>24 DEF Step, CallerStep, ConnectStep, WorkerStep

\* A step of one job leaves the others alone.
LEMMA Others == ASSUME TypeOK, NEW j \in Jobs, NEW k \in Jobs \ {j}, Step(j) PROVE Same(k)
<1>1. CASE DeadlinePasses(j)
  BY <1>1 DEF Same, DeadlinePasses
<1>2. CASE ContextEnds(j)
  BY <1>2 DEF Same, ContextEnds
<1>3. CASE GuardFires(j)
  BY <1>3 DEF Same, GuardFires
<1>4. CASE Refuse(j)
  BY <1>4 DEF Same, Refuse, Return
<1>5. CASE Begin(j)
  BY <1>5 DEF Same, Begin
<1>6. CASE Resolved(j)
  BY <1>6 DEF Same, Resolved
<1>7. CASE ResolveFails(j)
  BY <1>7 DEF Same, ResolveFails, Return
<1>8. CASE ContextWins(j)
  BY <1>8 DEF TypeOK, Same, ContextWins, Return, Conclude
<1>9. CASE ResultFails(j)
  BY <1>9 DEF TypeOK, Same, ResultFails, Return, Conclude
<1>10. CASE GreetingIn(j)
  BY <1>10 DEF Same, GreetingIn
<1>11. CASE ResultOk(j)
  BY <1>11 DEF TypeOK, Same, ResultOk, Return, Conclude
<1>12. CASE CloseClient(j)
  BY <1>12 DEF Same, CloseClient
<1>13. CASE GraceEnds(j)
  BY <1>13 DEF Same, GraceEnds, Return
<1>14. CASE Dialled(j)
  BY <1>14 DEF TypeOK, Same, Dialled, Goto
<1>15. CASE MailDialled(j)
  BY <1>15 DEF Same, MailDialled
<1>16. CASE DialFails(j)
  BY <1>16 DEF TypeOK, Same, DialFails, ConnectFails, Return
<1>17. CASE Handshaken(j)
  BY <1>17 DEF TypeOK, Same, Handshaken, Goto
<1>18. CASE HandshakeFails(j)
  BY <1>18 DEF TypeOK, Same, HandshakeFails, ConnectFails, Return
<1>19. CASE Arm(j)
  BY <1>19 DEF Same, Arm
<1>20. CASE Greeted(j)
  BY <1>20 DEF Same, Greeted, Outcome
<1>21. CASE Accepted(j)
  BY <1>21 DEF Same, Accepted, Outcome
<1>22. CASE TalkFails(j)
  BY <1>22 DEF Same, TalkFails, Outcome
<1>23. CASE Quit(j)
  BY <1>23 DEF Same, Quit, Outcome
<1>24. CASE Leave(j)
  BY <1>24 DEF Same, Leave
<1>. QED
  BY <1>1, <1>2, <1>3, <1>4, <1>5, <1>6, <1>7, <1>8, <1>9, <1>10, <1>11,
     <1>12, <1>13, <1>14, <1>15, <1>16, <1>17, <1>18, <1>19, <1>20, <1>21,
     <1>22, <1>23, <1>24 DEF Step, CallerStep, ConnectStep, WorkerStep

\* The job of the step keeps its part of the invariant.
LEMMA Own == ASSUME TypeOK, NEW j \in Jobs, Kept(j), Step(j) PROVE Kept(j)'
<1>1. CASE DeadlinePasses(j)
  <2>1. Places(j)'
    BY <1>1 DEF Kept, Places, Unstarted, DeadlinePasses
  <2>2. Connections(j)'
    BY <1>1 DEF Kept, Connections, DeadlinePasses, At
  <2>3. Outcomes(j)'
    BY <1>1 DEF Kept, Outcomes, Unstarted, Answered, Over, DeadlinePasses
  <2>. QED BY <2>1, <2>2, <2>3 DEF Kept
<1>2. CASE ContextEnds(j)
  <2>1. Places(j)'
    BY <1>2 DEF Kept, Places, Unstarted, ContextEnds
  <2>2. Connections(j)'
    BY <1>2 DEF Kept, Connections, ContextEnds, At
  <2>3. Outcomes(j)'
    BY <1>2 DEF Kept, Outcomes, Unstarted, Answered, Over, ContextEnds
  <2>. QED BY <2>1, <2>2, <2>3 DEF Kept
<1>3. CASE GuardFires(j)
  <2>1. Places(j)'
    BY <1>3 DEF Kept, Places, Connections, Unstarted, GuardFires
  <2>2. Connections(j)'
    BY <1>3 DEF Kept, Connections, GuardFires
  <2>3. Outcomes(j)'
    BY <1>3 DEF Kept, Outcomes, Unstarted, Answered, Over, GuardFires
  <2>. QED BY <2>1, <2>2, <2>3 DEF Kept
<1>4. CASE Refuse(j)
  <2>1. Places(j)'
    BY <1>4 DEF Kept, Places, Unstarted, Refuse, Return
  <2>2. Connections(j)'
    BY <1>4 DEF Kept, Places, Connections, Unstarted, Refuse, Return, At
  <2>3. Outcomes(j)'
    BY <1>4 DEF TypeOK, Kept, Places, Outcomes, Unstarted, Answered, Refuse,
       Return
  <2>. QED BY <2>1, <2>2, <2>3 DEF Kept
<1>5. CASE Begin(j)
  <2>1. Places(j)'
    BY <1>5, Kinds DEF TypeOK, Kept, Places, Unstarted, Begin
  <2>2. Connections(j)'
    BY <1>5 DEF Kept, Places, Connections, Unstarted, Begin, At
  <2>3. Outcomes(j)'
    BY <1>5 DEF Kept, Outcomes, Unstarted, Answered, Begin
  <2>. QED BY <2>1, <2>2, <2>3 DEF Kept
<1>6. CASE Resolved(j)
  <2>1. Places(j)'
    BY <1>6 DEF TypeOK, Kept, Places, Unstarted, Resolved
  <2>2. Connections(j)'
    BY <1>6 DEF Kept, Places, Connections, Unstarted, Resolved, At
  <2>3. Outcomes(j)'
    BY <1>6 DEF Kept, Outcomes, Unstarted, Answered, Resolved
  <2>. QED BY <2>1, <2>2, <2>3 DEF Kept
<1>7. CASE ResolveFails(j)
  <2>1. Places(j)'
    BY <1>7 DEF Kept, Places, Unstarted, ResolveFails, Return
  <2>2. Connections(j)'
    BY <1>7 DEF Kept, Places, Connections, Unstarted, ResolveFails, Return,
       At
  <2>3. Outcomes(j)'
    BY <1>7 DEF TypeOK, Kept, Places, Outcomes, Unstarted, Answered,
       ResolveFails, Return
  <2>. QED BY <2>1, <2>2, <2>3 DEF Kept
<1>8. CASE ContextWins(j)
  <2>1. Places(j)'
    BY <1>8 DEF TypeOK, Kept, Places, Unstarted, Over, ContextWins, Return,
       Conclude
  <2>2. Connections(j)'
    BY <1>8 DEF TypeOK, Kept, Connections, ContextWins, Conclude, At
  <2>3. Outcomes(j)'
    BY <1>8 DEF TypeOK, Kept, Outcomes, Unstarted, Answered, Over,
       ContextWins, Return, Conclude
  <2>. QED BY <2>1, <2>2, <2>3 DEF Kept
<1>9. CASE ResultFails(j)
  <2>1. Places(j)'
    BY <1>9 DEF TypeOK, Kept, Places, Unstarted, ResultFails, Return,
       Conclude, ResultIn
  <2>2. Connections(j)'
    BY <1>9 DEF TypeOK, Kept, Connections, ResultFails, Conclude, At
  <2>3. Outcomes(j)'
    BY <1>9 DEF TypeOK, Kept, Outcomes, Unstarted, Answered, Over,
       ResultFails, Return, Conclude, Failure, ResultIn
  <2>. QED BY <2>1, <2>2, <2>3 DEF Kept
<1>10. CASE GreetingIn(j)
  <2>1. Places(j)'
    BY <1>10 DEF Kept, Places, Unstarted, GreetingIn, ResultIn
  <2>2. Connections(j)'
    BY <1>10 DEF Kept, Connections, GreetingIn, At
  <2>3. Outcomes(j)'
    BY <1>10 DEF TypeOK, Kept, Outcomes, Unstarted, Answered, Over,
       GreetingIn
  <2>. QED BY <2>1, <2>2, <2>3 DEF Kept
<1>11. CASE ResultOk(j)
  <2>1. Places(j)'
    BY <1>11 DEF TypeOK, Kept, Places, Unstarted, ResultOk, ResultIn,
       Return, Conclude
  <2>2. Connections(j)'
    BY <1>11 DEF TypeOK, Kept, Connections, ResultOk, Conclude, At
  <2>3. Outcomes(j)'
    BY <1>11 DEF TypeOK, Kept, Outcomes, Unstarted, Answered, Waiting, Over,
       ResultOk, ResultIn, TooLate, Return, Conclude
  <2>. QED BY <2>1, <2>2, <2>3 DEF Kept
<1>12. CASE CloseClient(j)
  <2>1. Places(j)'
    BY <1>12 DEF Kept, Places, Unstarted, CloseClient
  <2>2. Connections(j)'
    BY <1>12 DEF TypeOK, Connections, CloseClient
  <2>3. Outcomes(j)'
    BY <1>12 DEF Kept, Outcomes, Unstarted, Answered, Over, CloseClient
  <2>. QED BY <2>1, <2>2, <2>3 DEF Kept
<1>13. CASE GraceEnds(j)
  <2>1. Places(j)'
    BY <1>13 DEF Kept, Places, Unstarted, GraceEnds, Return
  <2>2. Connections(j)'
    BY <1>13 DEF Kept, Connections, GraceEnds, Return, At
  <2>3. Outcomes(j)'
    BY <1>13 DEF Kept, Outcomes, Unstarted, Answered, Over, GraceEnds,
       Return
  <2>. QED BY <2>1, <2>2, <2>3 DEF Kept
<1>14. CASE Dialled(j)
  <2>1. Places(j)'
    BY <1>14 DEF TypeOK, Kept, Places, Unstarted, Dialled, At, Goto
  <2>2. Connections(j)'
    BY <1>14 DEF TypeOK, Connections, Dialled, Goto
  <2>3. Outcomes(j)'
    BY <1>14 DEF TypeOK, Kept, Outcomes, Unstarted, Answered, Over, Dialled,
       At, Goto
  <2>. QED BY <2>1, <2>2, <2>3 DEF Kept
<1>15. CASE MailDialled(j)
  <2>1. Places(j)'
    BY <1>15 DEF Kept, Places, Unstarted, MailDialled
  <2>2. Connections(j)'
    BY <1>15 DEF TypeOK, Kept, Places, Connections, MailDialled
  <2>3. Outcomes(j)'
    BY <1>15 DEF Kept, Outcomes, Unstarted, Answered, Over, MailDialled
  <2>. QED BY <2>1, <2>2, <2>3 DEF Kept
<1>16. CASE DialFails(j)
  <2>1. Places(j)'
    BY <1>16 DEF TypeOK, Kept, Places, Unstarted, DialFails, At,
       ConnectFails, Return
  <2>2. Connections(j)'
    BY <1>16 DEF TypeOK, Kept, Connections, DialFails, At, ConnectFails,
       Return
  <2>3. Outcomes(j)'
    BY <1>16 DEF TypeOK, Kept, Places, Outcomes, Unstarted, Answered, Over,
       DialFails, At, ConnectFails, Return, Failure
  <2>. QED BY <2>1, <2>2, <2>3 DEF Kept
<1>17. CASE Handshaken(j)
  <2>1. Places(j)'
    BY <1>17 DEF TypeOK, Kept, Places, Unstarted, Handshaken, At, Goto
  <2>2. Connections(j)'
    BY <1>17 DEF TypeOK, Kept, Connections, Handshaken, Goto
  <2>3. Outcomes(j)'
    BY <1>17 DEF TypeOK, Kept, Outcomes, Unstarted, Answered, Over,
       Handshaken, At, Goto
  <2>. QED BY <2>1, <2>2, <2>3 DEF Kept
<1>18. CASE HandshakeFails(j)
  <2>1. Places(j)'
    BY <1>18 DEF TypeOK, Kept, Places, Unstarted, HandshakeFails, At,
       ConnectFails, Return
  <2>2. Connections(j)'
    BY <1>18 DEF TypeOK, Connections, HandshakeFails, ConnectFails, Return
  <2>3. Outcomes(j)'
    BY <1>18 DEF TypeOK, Kept, Places, Outcomes, Unstarted, Answered, Over,
       HandshakeFails, At, ConnectFails, Return, Failure
  <2>. QED BY <2>1, <2>2, <2>3 DEF Kept
<1>19. CASE Arm(j)
  <2>1. Places(j)'
    BY <1>19 DEF TypeOK, Kept, Places, Unstarted, Arm, At
  <2>2. Connections(j)'
    BY <1>19 DEF Kept, Connections, Arm
  <2>3. Outcomes(j)'
    BY <1>19 DEF Kept, Outcomes, Unstarted, Answered, Over, Arm, At
  <2>. QED BY <2>1, <2>2, <2>3 DEF Kept
<1>20. CASE Greeted(j)
  <2>1. Places(j)'
    BY <1>20 DEF Kept, Places, Unstarted, Greeted, Outcome
  <2>2. Connections(j)'
    BY <1>20 DEF Kept, Places, Connections, Greeted, Outcome
  <2>3. Outcomes(j)'
    BY <1>20 DEF Kept, Places, Outcomes, Unstarted, Answered, Over, Greeted,
       Outcome
  <2>. QED BY <2>1, <2>2, <2>3 DEF Kept
<1>21. CASE Accepted(j)
  <2>1. Places(j)'
    BY <1>21 DEF Kept, Places, Unstarted, Accepted, Outcome
  <2>2. Connections(j)'
    BY <1>21 DEF Kept, Connections, Accepted, Outcome
  <2>3. Outcomes(j)'
    BY <1>21 DEF TypeOK, Kept, Places, Outcomes, Unstarted, Answered, Over,
       Live, Accepted, Outcome
  <2>. QED BY <2>1, <2>2, <2>3 DEF Kept
<1>22. CASE TalkFails(j)
  <2>1. Places(j)'
    BY <1>22 DEF Kept, Places, Unstarted, TalkFails, Outcome
  <2>2. Connections(j)'
    BY <1>22 DEF Kept, Connections, TalkFails, Outcome, At
  <2>3. Outcomes(j)'
    BY <1>22 DEF Kept, Places, Outcomes, Unstarted, Answered, Over,
       TalkFails, Outcome
  <2>. QED BY <2>1, <2>2, <2>3 DEF Kept
<1>23. CASE Quit(j)
  <2>1. Places(j)'
    BY <1>23 DEF Kept, Places, Unstarted, Quit, Outcome
  <2>2. Connections(j)'
    BY <1>23 DEF Kept, Connections, Quit, Outcome, At
  <2>3. Outcomes(j)'
    BY <1>23 DEF Kept, Outcomes, Unstarted, Answered, Over, Quit, Outcome
  <2>. QED BY <2>1, <2>2, <2>3 DEF Kept
<1>24. CASE Leave(j)
  <2>1. Places(j)'
    BY <1>24 DEF Kept, Places, Unstarted, Leave
  <2>2. Connections(j)'
    BY <1>24 DEF TypeOK, Kept, Places, Connections, Leave
  <2>3. Outcomes(j)'
    BY <1>24 DEF Kept, Outcomes, Unstarted, Answered, Over, Leave
  <2>. QED BY <2>1, <2>2, <2>3 DEF Kept
<1>. QED
  BY <1>1, <1>2, <1>3, <1>4, <1>5, <1>6, <1>7, <1>8, <1>9, <1>10, <1>11,
     <1>12, <1>13, <1>14, <1>15, <1>16, <1>17, <1>18, <1>19, <1>20, <1>21,
     <1>22, <1>23, <1>24 DEF Step, CallerStep, ConnectStep, WorkerStep

\* A job whose caller has returned keeps its answer and its place.
LEMMA DoneStays == ASSUME TypeOK, NEW j \in Jobs, Kept(j), Step(j), caller[j] = "done"
                   PROVE caller'[j] = "done" /\ answer'[j] = answer[j]
<1>1. CASE DeadlinePasses(j)
  BY <1>1 DEF DeadlinePasses
<1>2. CASE ContextEnds(j)
  BY <1>2 DEF ContextEnds
<1>3. CASE GuardFires(j)
  BY <1>3 DEF GuardFires
<1>4. CASE Refuse(j)
  BY <1>4 DEF Refuse
<1>5. CASE Begin(j)
  BY <1>5 DEF Begin
<1>6. CASE Resolved(j)
  BY <1>6 DEF Resolved
<1>7. CASE ResolveFails(j)
  BY <1>7 DEF ResolveFails
<1>8. CASE ContextWins(j)
  BY <1>8 DEF Waiting, ContextWins
<1>9. CASE ResultFails(j)
  BY <1>9 DEF Waiting, ResultFails, ResultIn
<1>10. CASE GreetingIn(j)
  BY <1>10 DEF GreetingIn
<1>11. CASE ResultOk(j)
  BY <1>11 DEF Waiting, ResultOk, ResultIn
<1>12. CASE CloseClient(j)
  BY <1>12 DEF CloseClient
<1>13. CASE GraceEnds(j)
  BY <1>13 DEF GraceEnds
<1>14. CASE Dialled(j)
  BY <1>14 DEF Dialled, At, Goto
<1>15. CASE MailDialled(j)
  BY <1>15 DEF MailDialled
<1>16. CASE DialFails(j)
  BY <1>16 DEF DialFails, At, ConnectFails
<1>17. CASE Handshaken(j)
  BY <1>17 DEF Handshaken, At, Goto
<1>18. CASE HandshakeFails(j)
  BY <1>18 DEF HandshakeFails, At, ConnectFails
<1>19. CASE Arm(j)
  BY <1>19 DEF Arm, At
<1>20. CASE Greeted(j)
  BY <1>20 DEF Greeted, Outcome
<1>21. CASE Accepted(j)
  BY <1>21 DEF Accepted, Outcome
<1>22. CASE TalkFails(j)
  BY <1>22 DEF TalkFails, Outcome
<1>23. CASE Quit(j)
  BY <1>23 DEF Quit, Outcome
<1>24. CASE Leave(j)
  BY <1>24 DEF Leave
<1>. QED
  BY <1>1, <1>2, <1>3, <1>4, <1>5, <1>6, <1>7, <1>8, <1>9, <1>10, <1>11,
     <1>12, <1>13, <1>14, <1>15, <1>16, <1>17, <1>18, <1>19, <1>20, <1>21,
     <1>22, <1>23, <1>24 DEF Step, CallerStep, ConnectStep, WorkerStep

\* Only Reply writes reply.
LEMMA StepReply == ASSUME NEW j \in Jobs, Step(j) PROVE reply' = reply
<1>1. CASE DeadlinePasses(j)
  BY <1>1 DEF DeadlinePasses
<1>2. CASE ContextEnds(j)
  BY <1>2 DEF ContextEnds
<1>3. CASE GuardFires(j)
  BY <1>3 DEF GuardFires
<1>4. CASE Refuse(j)
  BY <1>4 DEF Refuse
<1>5. CASE Begin(j)
  BY <1>5 DEF Begin
<1>6. CASE Resolved(j)
  BY <1>6 DEF Resolved
<1>7. CASE ResolveFails(j)
  BY <1>7 DEF ResolveFails
<1>8. CASE ContextWins(j)
  BY <1>8 DEF ContextWins
<1>9. CASE ResultFails(j)
  BY <1>9 DEF ResultFails
<1>10. CASE GreetingIn(j)
  BY <1>10 DEF GreetingIn
<1>11. CASE ResultOk(j)
  BY <1>11 DEF ResultOk
<1>12. CASE CloseClient(j)
  BY <1>12 DEF CloseClient
<1>13. CASE GraceEnds(j)
  BY <1>13 DEF GraceEnds
<1>14. CASE Dialled(j)
  BY <1>14 DEF Dialled
<1>15. CASE MailDialled(j)
  BY <1>15 DEF MailDialled
<1>16. CASE DialFails(j)
  BY <1>16 DEF DialFails, ConnectFails
<1>17. CASE Handshaken(j)
  BY <1>17 DEF Handshaken
<1>18. CASE HandshakeFails(j)
  BY <1>18 DEF HandshakeFails, ConnectFails
<1>19. CASE Arm(j)
  BY <1>19 DEF Arm
<1>20. CASE Greeted(j)
  BY <1>20 DEF Greeted, Outcome
<1>21. CASE Accepted(j)
  BY <1>21 DEF Accepted, Outcome
<1>22. CASE TalkFails(j)
  BY <1>22 DEF TalkFails, Outcome
<1>23. CASE Quit(j)
  BY <1>23 DEF Quit, Outcome
<1>24. CASE Leave(j)
  BY <1>24 DEF Leave
<1>. QED
  BY <1>1, <1>2, <1>3, <1>4, <1>5, <1>6, <1>7, <1>8, <1>9, <1>10, <1>11,
     <1>12, <1>13, <1>14, <1>15, <1>16, <1>17, <1>18, <1>19, <1>20, <1>21,
     <1>22, <1>23, <1>24 DEF Step, CallerStep, ConnectStep, WorkerStep

-----------------------------------------------------------------------------
\* The initial states satisfy the inductive invariant.
THEOREM InitIInv == Init => IInv
<1>. SUFFICES ASSUME Init PROVE IInv
  OBVIOUS
<1>1. PICK made \in SUBSET (Verifications \cup Sends) :
        caller = [j \in Jobs |-> IF j[1] \in made THEN "start" ELSE "none"]
  BY DEF Init
<1>2. TypeOK
  BY <1>1 DEF Init, TypeOK
<1>3. ASSUME NEW j \in Jobs PROVE Kept(j)
  BY <1>1 DEF Init, Kept, Places, Connections, Outcomes, Answered, At
<1>4. Replies
  <2>. SUFFICES ASSUME NEW j \in Checks PROVE reply[j[1]] # "ok"
    BY DEF Replies
  <2>1. j[1] \in Verifications
    BY DEF Checks
  <2>. QED BY <2>1 DEF Init
<1>. QED BY <1>2, <1>3, <1>4 DEF IInv, Kept

\* Every step preserves it.
THEOREM NextIInv == IInv /\ [Next]_vars => IInv'
<1>. SUFFICES ASSUME IInv, [Next]_vars PROVE IInv'
  OBVIOUS
<1>. USE DEF IInv
<1>1. ASSUME NEW j \in Jobs, Step(j) PROVE IInv'
  <2>1. TypeOK'
    BY <1>1, TypesKept
  <2>2. ASSUME NEW k \in Jobs PROVE Kept(k)'
    <3>1. Kept(k) /\ Kept(j)
      BY DEF Kept
    <3>2. CASE k = j
      BY <1>1, <3>1, <3>2, Own
    <3>3. CASE k # j
      BY <1>1, <3>1, <3>3, Others, Frame
    <3>. QED BY <3>2, <3>3
  <2>3. Replies'
    <3>. SUFFICES ASSUME NEW k \in Checks, reply'[k[1]] = "ok"
                  PROVE caller'[k] = "done" /\ answer'[k] = "ok"
      BY DEF Replies
    <3>1. k \in Jobs
      BY DEF Jobs
    <3>2. caller[k] = "done" /\ answer[k] = "ok"
      BY <1>1, StepReply DEF Replies
    <3>3. CASE k = j
      BY <1>1, <3>2, <3>3, DoneStays DEF Kept
    <3>4. CASE k # j
      BY <1>1, <3>1, <3>2, <3>4, Others DEF Same
    <3>. QED BY <3>3, <3>4
  <2>. QED BY <2>1, <2>2, <2>3 DEF Kept
<1>2. ASSUME NEW q \in Verifications, Reply(q) PROVE IInv'
  <2>1. TypeOK'
    BY <1>2 DEF TypeOK, Reply
  <2>2. ASSUME NEW k \in Jobs PROVE Kept(k)'
    <3>1. Kept(k) /\ Same(k)
      BY <1>2 DEF Reply, Same, Kept
    <3>. QED BY <3>1, Frame
  <2>3. Replies'
    <3>. SUFFICES ASSUME NEW k \in Checks, reply'[k[1]] = "ok"
                  PROVE caller[k] = "done" /\ answer[k] = "ok"
      BY <1>2 DEF Replies, Reply
    <3>1. CASE k[1] = q
      <4>1. reply'[q] = IF \A j \in Checks : j[1] = q => answer[j] = "ok" THEN "ok" ELSE "failed"
        BY <1>2 DEF Reply, TypeOK
      <4>. QED BY <1>2, <3>1, <4>1 DEF Reply
    <3>2. CASE k[1] # q
      BY <1>2, <3>2 DEF Reply, Replies
    <3>. QED BY <3>1, <3>2
  <2>. QED BY <2>1, <2>2, <2>3 DEF Kept
<1>3. CASE UNCHANGED vars
  BY <1>3 DEF vars, TypeOK, Places, Connections, Outcomes, Unstarted,
     Answered, Over, At, Replies
<1>. QED
  BY <1>1, <1>2, <1>3 DEF Next, Step

\* The inductive invariant holds in every reachable state.
THEOREM Invariance == Spec => []IInv
  BY InitIInv, NextIInv, PTL DEF Spec

\* Every variable keeps its type.
THEOREM TypeCorrect == Spec => []TypeOK
<1>1. IInv => TypeOK
  BY DEF IInv
<1>. QED BY <1>1, Invariance, PTL

\* A success that is reported was reached in time (verify.go:273-287).
THEOREM SuccessInTime == Spec => []OkInTime
<1>1. IInv => OkInTime
  <2>. SUFFICES ASSUME IInv PROVE OkInTime
    OBVIOUS
  <2>1. ASSUME NEW j \in Checks, answer[j] = "ok" PROVE login[j] = "intime"
    <3>1. j \in Jobs /\ ~Mail(j)
      BY DEF Jobs, Checks, Mail
    <3>. QED BY <2>1, <3>1 DEF IInv, Outcomes
  <2>2. ASSUME NEW j \in Mails, answer[j] = "ok" PROVE login[j] # "no"
    BY <2>2 DEF IInv, Outcomes, Jobs
  <2>3. ASSUME NEW j \in Checks, reply[j[1]] = "ok" PROVE login[j] = "intime"
    BY <2>1, <2>3 DEF IInv, Replies
  <2>. QED BY <2>1, <2>2, <2>3 DEF OkInTime
<1>. QED BY <1>1, Invariance, PTL

\* Only a job that timed out leaves work behind (verify.go:216-225, 308-322).
THEOREM NothingLeft == Spec => []OnlyTimeoutsLeaveWork
<1>1. IInv => OnlyTimeoutsLeaveWork
  BY DEF IInv, TypeOK, Connections, Outcomes, Answered,
     OnlyTimeoutsLeaveWork
<1>. QED BY <1>1, Invariance, PTL

-----------------------------------------------------------------------------
(***************************************************************************)
(* How many steps a job can still make: of its caller, of its worker, and  *)
(* of its clock, its context and its AfterFunc.                            *)
(***************************************************************************)
CallerLeft(c) ==
  CASE c \in {"none", "done"} -> 0
    [] c = "grace"            -> 1
    [] c = "close"            -> 2
    [] c \in {"login", "wait"} -> 3
    [] c = "greeting"         -> 7
    [] c = "arm"              -> 10
    [] c = "tls"              -> 11
    [] c = "dial"             -> 12
    [] c = "resolve"          -> 13
    [] c = "start"            -> 15

WorkerLeft(w) ==
  CASE w \in {"none", "end"}    -> 0
    [] w \in {"greet", "leave"} -> 1
    [] w = "quit"               -> 2
    [] w = "talk"               -> 3
    [] w = "arm"                -> 5
    [] w = "tls"                -> 6
    [] w = "dial"               -> 7

ContextLeft(c) == CASE c = "none" -> 2 [] c = "live" -> 1 [] c = "done" -> 0
GuardLeft(g) ==
  CASE g = "none" -> 2 [] g = "armed" -> 1 [] g \in {"fired", "stopped"} -> 0

Left(j) ==
  CallerLeft(caller[j]) + WorkerLeft(worker[j]) + ContextLeft(ctx[j])
    + GuardLeft(guard[j]) + (IF due[j] THEN 0 ELSE 1)

\* The values of the measures.
LEMMA Values ==
  /\ CallerLeft("none") = 0
  /\ CallerLeft("done") = 0 /\ CallerLeft("grace") = 1 /\ CallerLeft("close") = 2
  /\ CallerLeft("login") = 3 /\ CallerLeft("wait") = 3 /\ CallerLeft("greeting") = 7
  /\ CallerLeft("arm") = 10 /\ CallerLeft("tls") = 11 /\ CallerLeft("dial") = 12
  /\ CallerLeft("resolve") = 13 /\ CallerLeft("start") = 15
  /\ WorkerLeft("none") = 0 /\ WorkerLeft("end") = 0 /\ WorkerLeft("greet") = 1
  /\ WorkerLeft("leave") = 1 /\ WorkerLeft("quit") = 2 /\ WorkerLeft("talk") = 3
  /\ WorkerLeft("arm") = 5 /\ WorkerLeft("tls") = 6 /\ WorkerLeft("dial") = 7
  /\ ContextLeft("none") = 2 /\ ContextLeft("live") = 1 /\ ContextLeft("done") = 0
  /\ GuardLeft("none") = 2 /\ GuardLeft("armed") = 1
  /\ GuardLeft("fired") = 0 /\ GuardLeft("stopped") = 0
BY DEF CallerLeft, WorkerLeft, ContextLeft, GuardLeft

\* What the measures of a job's places lie between.
LEMMA LeftNumbers ==
  ASSUME NEW c \in Waiting \cup
               {"none", "start", "resolve", "dial", "tls", "arm", "close", "grace", "done"},
         NEW w \in {"none", "dial", "tls", "arm", "greet", "talk", "quit", "leave", "end"},
         NEW x \in {"none", "live", "done"},
         NEW g \in {"none", "armed", "fired", "stopped"}
  PROVE  /\ CallerLeft(c) \in 0..15
         /\ WorkerLeft(w) \in 0..7
         /\ ContextLeft(x) \in 0..2
         /\ GuardLeft(g) \in 0..2
<1>2. CallerLeft(c) \in 0..15
  BY DEF CallerLeft, Waiting
<1>3. WorkerLeft(w) \in 0..7
  BY DEF WorkerLeft
<1>4. ContextLeft(x) \in 0..2 /\ GuardLeft(g) \in 0..2
  BY DEF ContextLeft, GuardLeft
<1>. QED BY <1>2, <1>3, <1>4

\* A step of a job leaves it fewer to make.
LEMMA OwnLess == ASSUME TypeOK, NEW j \in Jobs, Kept(j), Step(j)
                 PROVE  /\ Left(j) \in Nat
                        /\ Left(j)' \in Nat
                        /\ Left(j)' < Left(j)
<1> DEFINE C == CallerLeft(caller[j])
           W == WorkerLeft(worker[j])
           X == ContextLeft(ctx[j])
           G == GuardLeft(guard[j])
           D == IF due[j] THEN 0 ELSE 1
           NC == CallerLeft(caller'[j])
           NW == WorkerLeft(worker'[j])
           NX == ContextLeft(ctx'[j])
           NG == GuardLeft(guard'[j])
           ND == IF due'[j] THEN 0 ELSE 1
<1>a. /\ caller[j] \in Waiting \cup
           {"none", "start", "resolve", "dial", "tls", "arm", "close", "grace", "done"}
      /\ worker[j] \in {"none", "dial", "tls", "arm", "greet", "talk", "quit", "leave", "end"}
      /\ ctx[j] \in {"none", "live", "done"}
      /\ guard[j] \in {"none", "armed", "fired", "stopped"}
  BY DEF TypeOK
<1>b. /\ caller'[j] \in Waiting \cup
           {"none", "start", "resolve", "dial", "tls", "arm", "close", "grace", "done"}
      /\ worker'[j] \in {"none", "dial", "tls", "arm", "greet", "talk", "quit", "leave", "end"}
      /\ ctx'[j] \in {"none", "live", "done"}
      /\ guard'[j] \in {"none", "armed", "fired", "stopped"}
  BY TypesKept DEF TypeOK
<1>d. C \in 0..15 /\ W \in 0..7 /\ X \in 0..2 /\ G \in 0..2 /\ D \in 0..1
  BY LeftNumbers, <1>a
<1>n. NC \in 0..15 /\ NW \in 0..7 /\ NX \in 0..2 /\ NG \in 0..2 /\ ND \in 0..1
  BY LeftNumbers, <1>b
<1>l. Left(j) = C + W + X + G + D
  BY DEF Left
<1>m. Left(j)' = NC + NW + NX + NG + ND
  BY DEF Left, CallerLeft, WorkerLeft, ContextLeft, GuardLeft
<1>s. SUFFICES NC + NW + NX + NG + ND < C + W + X + G + D
  BY <1>l, <1>m, <1>n, <1>d
<1>o. CASE DeadlinePasses(j)
  <2>1. D = 1 /\ ND = 0
    BY <1>o DEF DeadlinePasses, TypeOK
  <2>2. NC = C /\ NW = W /\ NX = X /\ NG = G
    BY <1>o DEF DeadlinePasses
  <2> HIDE DEF C, W, X, G, D, NC, NW, NX, NG, ND
  <2>. QED BY <2>1, <2>2, <1>d
<1>p. ~DeadlinePasses(j) => ND = D
  BY DEF Step, CallerStep, ConnectStep, WorkerStep, ContextEnds, GuardFires, Refuse, Begin,
         Resolved, ResolveFails, ContextWins, ResultFails, GreetingIn, ResultOk, CloseClient,
         GraceEnds, Dialled, MailDialled, DialFails, Handshaken, HandshakeFails, Arm, ConnectFails,
         Greeted, Accepted, TalkFails, Quit, Leave, Outcome
<1>v. /\ C = CallerLeft(caller[j]) /\ NC = CallerLeft(caller'[j])
      /\ W = WorkerLeft(worker[j]) /\ NW = WorkerLeft(worker'[j])
      /\ X = ContextLeft(ctx[j]) /\ NX = ContextLeft(ctx'[j])
      /\ G = GuardLeft(guard[j]) /\ NG = GuardLeft(guard'[j])
  OBVIOUS
<1>r. \A a : Return(j, a) => NC = 0 /\ NX <= X
  <2>1. SUFFICES ASSUME NEW a, Return(j, a) PROVE NC = 0 /\ NX <= X
    OBVIOUS
  <2>2. /\ caller'[j] = "done"
        /\ ctx[j] = "none" => ctx'[j] = "none"
        /\ ctx[j] # "none" => ctx'[j] = "done"
    BY <2>1 DEF Return, TypeOK
  <2>. QED BY <2>2, <1>a, Values
<1>q. SUFFICES ASSUME ND = D
              PROVE  NC + NW + NX + NG < C + W + X + G
  BY <1>o, <1>p, <1>d, <1>n
<1> HIDE DEF C, W, X, G, D, NC, NW, NX, NG, ND
<1>1. CASE ContextEnds(j)
  BY <1>1, <1>v, <1>d, Values DEF ContextEnds, Live, TypeOK
<1>2. CASE GuardFires(j)
  BY <1>2, <1>v, <1>d, Values DEF GuardFires, Over, TypeOK
<1>3. CASE Refuse(j)
  BY <1>3, <1>v, <1>r, <1>d, <1>n, Values DEF Refuse
<1>4. CASE Begin(j)
  <2>1. caller[j] = "start" /\ ctx'[j] = "live" /\ guard'[j] = guard[j]
    BY <1>4 DEF Begin, TypeOK
  <2>2. CASE Mail(j)
    <3>1. caller'[j] = "wait" /\ worker'[j] = "dial"
      BY <1>4, <2>2 DEF Begin, TypeOK
    <3>2. W = 0
      BY <2>1, <1>v, Values DEF Kept, Places, Unstarted
    <3>. QED BY <2>1, <3>1, <3>2, <1>v, <1>d, <1>n, Values
  <2>3. CASE ~Mail(j)
    <3>1. caller'[j] = "resolve" /\ worker'[j] = "none"
      BY <1>4, <2>3 DEF Begin, TypeOK
    <3>. QED BY <2>1, <3>1, <1>v, <1>d, <1>n, Values
  <2>. QED BY <2>2, <2>3
<1>5. CASE Resolved(j)
  <2>1. CASE Imap(j)
    BY <1>5, <2>1, <1>v, <1>d, Values DEF Resolved, TypeOK
  <2>2. CASE ~Imap(j)
    BY <1>5, <2>2, <1>v, <1>d, Values DEF Resolved, TypeOK
  <2>. QED BY <2>1, <2>2
<1>6. CASE ResolveFails(j)
  BY <1>6, <1>v, <1>r, <1>d, <1>n, Values DEF ResolveFails
<1>7. CASE ContextWins(j)
  <2>1. CASE Imap(j)
    BY <1>7, <2>1, <1>v, <1>d, Values
       DEF ContextWins, Conclude, Over, Waiting, TypeOK
  <2>2. CASE ~Imap(j)
    BY <1>7, <2>2, <1>v, <1>r, <1>d, Values
       DEF ContextWins, Conclude, Over, Waiting, TypeOK, Kept, Places
  <2>. QED BY <2>1, <2>2
<1>8. CASE ResultFails(j)
  <2>1. CASE Imap(j)
    BY <1>8, <2>1, <1>v, <1>d, Values
       DEF ResultFails, ResultIn, Conclude, Waiting, Failure, TypeOK
  <2>2. CASE ~Imap(j)
    BY <1>8, <2>2, <1>v, <1>r, <1>d, Values
       DEF ResultFails, ResultIn, Conclude, Waiting, Failure, TypeOK, Kept, Places
  <2>. QED BY <2>1, <2>2
<1>9. CASE GreetingIn(j)
  BY <1>9, <1>v, <1>d, Values DEF GreetingIn, ResultIn, Waiting, TypeOK
<1>10. CASE ResultOk(j)
  <2>1. CASE Imap(j)
    BY <1>10, <2>1, <1>v, <1>d, Values
       DEF ResultOk, ResultIn, Conclude, Waiting, TypeOK
  <2>2. CASE ~Imap(j)
    BY <1>10, <2>2, <1>v, <1>r, <1>d, Values
       DEF ResultOk, ResultIn, Conclude, Waiting, TypeOK, Kept, Places
  <2>. QED BY <2>1, <2>2
<1>11. CASE CloseClient(j)
  BY <1>11, <1>v, <1>d, Values DEF CloseClient, TypeOK
<1>12. CASE GraceEnds(j)
  <2>1. caller[j] = "grace" /\ Return(j, answer[j]) /\ worker'[j] = worker[j]
    BY <1>12 DEF GraceEnds
  <2>2. NG <= G
    <3>1. guard'[j] = IF guard[j] = "armed" THEN "stopped" ELSE guard[j]
      BY <1>12 DEF GraceEnds, TypeOK
    <3>2. CASE guard[j] = "armed"
      BY <3>1, <3>2, <1>v, Values
    <3>3. CASE guard[j] # "armed"
      BY <3>1, <3>3, <1>v, <1>d
    <3>. QED BY <3>2, <3>3
  <2>3. C = 1 /\ NW = W /\ NC = 0 /\ NX <= X
    BY <2>1, <1>r, <1>v, Values
  <2>. QED BY <2>2, <2>3, <1>d, <1>n
<1>13. CASE Dialled(j)
  <2>1. CASE Imap(j)
    BY <1>13, <2>1, <1>v, <1>d, Values DEF Dialled, Goto, At, Live, TypeOK
  <2>2. CASE ~Imap(j)
    BY <1>13, <2>2, <1>v, <1>d, Values DEF Dialled, Goto, At, Live, TypeOK
  <2>. QED BY <2>1, <2>2
<1>14. CASE MailDialled(j)
  BY <1>14, <1>v, <1>d, Values DEF MailDialled, TypeOK
<1>15. CASE DialFails(j)
  <2>1. CASE Imap(j)
    BY <1>15, <2>1, <1>v, <1>r, <1>d, Values
       DEF DialFails, ConnectFails, At, Failure, TypeOK
  <2>2. CASE ~Imap(j)
    BY <1>15, <2>2, <1>v, <1>d, Values
       DEF DialFails, ConnectFails, At, Failure, TypeOK
  <2>. QED BY <2>1, <2>2
<1>16. CASE Handshaken(j)
  <2>1. CASE Imap(j)
    BY <1>16, <2>1, <1>v, <1>d, Values DEF Handshaken, Goto, At, Live, TypeOK
  <2>2. CASE ~Imap(j)
    BY <1>16, <2>2, <1>v, <1>d, Values DEF Handshaken, Goto, At, Live, TypeOK
  <2>. QED BY <2>1, <2>2
<1>17. CASE HandshakeFails(j)
  <2>1. CASE Imap(j)
    BY <1>17, <2>1, <1>v, <1>r, <1>d, Values
       DEF HandshakeFails, ConnectFails, At, Failure, TypeOK
  <2>2. CASE ~Imap(j)
    BY <1>17, <2>2, <1>v, <1>d, Values
       DEF HandshakeFails, ConnectFails, At, Failure, TypeOK
  <2>. QED BY <2>1, <2>2
<1>18. CASE Arm(j)
  <2>1. CASE Imap(j)
    BY <1>18, <2>1, <1>v, <1>d, Values DEF Arm, At, TypeOK
  <2>2. CASE ~Imap(j)
    BY <1>18, <2>2, <1>v, <1>d, Values DEF Arm, At, TypeOK
  <2>. QED BY <2>1, <2>2
<1>19. CASE Greeted(j)
  BY <1>19, <1>v, <1>d, Values DEF Greeted, Outcome, TypeOK
<1>20. CASE Accepted(j)
  BY <1>20, <1>v, <1>d, Values DEF Accepted, Outcome, TypeOK
<1>21. CASE TalkFails(j)
  <2>1. /\ worker[j] \in {"greet", "talk"}
        /\ caller'[j] = caller[j] /\ ctx'[j] = ctx[j] /\ guard'[j] = guard[j]
    BY <1>21 DEF TalkFails, Outcome
  <2>2. worker'[j] = IF Imap(j) THEN "end" ELSE "leave"
    BY <1>21 DEF TalkFails, Outcome, TypeOK
  <2>3. worker[j] = "greet" => Imap(j)
    BY DEF Kept, Places
  <2>4. CASE Imap(j)
    <3>1. worker'[j] = "end"
      BY <2>2, <2>4
    <3>2. W > 0
      BY <2>1, <1>v, Values
    <3>3. NW = 0 /\ NC = C /\ NX = X /\ NG = G
      BY <2>1, <3>1, <1>v, Values
    <3>. QED BY <3>2, <3>3, <1>d
  <2>5. CASE ~Imap(j)
    BY <2>1, <2>2, <2>3, <2>5, <1>v, <1>d, <1>n, Values
  <2>. QED BY <2>4, <2>5
<1>22. CASE Quit(j)
  BY <1>22, <1>v, <1>d, Values DEF Quit, Outcome, TypeOK
<1>23. CASE Leave(j)
  BY <1>23, <1>v, <1>d, <1>n, Values DEF Leave, TypeOK
<1>y. CASE ~DeadlinePasses(j)
  BY <1>y, <1>1, <1>2, <1>3, <1>4, <1>5, <1>6, <1>7, <1>8, <1>9, <1>10,
     <1>11, <1>12, <1>13, <1>14, <1>15, <1>16, <1>17, <1>18, <1>19, <1>20,
     <1>21, <1>22, <1>23
     DEF Step, CallerStep, ConnectStep, WorkerStep
<1>. QED
  BY <1>o, <1>y, <1>d, <1>n, <1>q

\* A step of another job leaves a job as many steps as it had.
LEMMA OthersLeft ==
  ASSUME TypeOK, NEW j \in Jobs, NEW k \in Jobs \ {j}, Step(j)
  PROVE  Left(k)' = Left(k)
<1>1. Same(k)
  BY Others
<1>2. due'[k] = due[k]
  <2>1. CASE DeadlinePasses(j)
    BY <2>1 DEF DeadlinePasses, TypeOK
  <2>2. CASE ~DeadlinePasses(j)
    <3>1. due' = due
      BY <2>2 DEF Step, CallerStep, ConnectStep, WorkerStep, ContextEnds, GuardFires, Refuse,
         Begin, Resolved, ResolveFails, ContextWins, ResultFails, GreetingIn, ResultOk,
         CloseClient, GraceEnds, Dialled, MailDialled, DialFails, Handshaken, HandshakeFails,
         Arm, ConnectFails, Greeted, Accepted, TalkFails, Quit, Leave, Outcome
    <3>. QED BY <3>1
  <2>. QED BY <2>1, <2>2
<1>3. (IF due[k] THEN 0 ELSE 1)' = IF due[k] THEN 0 ELSE 1
  BY <1>2
<1>. QED
  BY <1>1, <1>3 DEF Left, Same, CallerLeft, WorkerLeft, ContextLeft, GuardLeft

\* The steps a job can make, at most.
LeftBounded == \A j \in Jobs : Left(j) \in 0..20

\* A step brings one job nearer to its end and no other job further from it,
\* or is the one reply to a request.
WorkShrinks ==
  \/ \E j \in Jobs :
       /\ Left(j)' < Left(j)
       /\ \A k \in Jobs \ {j} : Left(k)' = Left(k)
       /\ reply' = reply
  \/ \E q \in Verifications :
       /\ reply[q] = "none" /\ reply'[q] # "none"
       /\ \A p \in Verifications \ {q} : reply'[p] = reply[p]
       /\ \A k \in Jobs : Left(k)' = Left(k)

\* Nothing starts over: whatever the servers and the clocks do, a job makes at
\* most 20 steps, and a request is answered once (verify.go:41-324,
\* smtp/sender.go:125-158).  That the steps are made is Settles, for TLC.
THEOREM BoundedWork == Spec => []LeftBounded /\ [][WorkShrinks]_vars
<1>1. Init => LeftBounded
  <2>. SUFFICES ASSUME Init, NEW j \in Jobs PROVE Left(j) \in 0..20
    BY DEF LeftBounded
  <2>1. /\ caller[j] \in {"start", "none"} /\ worker[j] = "none"
        /\ ctx[j] = "none" /\ guard[j] = "none" /\ ~due[j]
    BY DEF Init
  <2>2. /\ CallerLeft(caller[j]) \in {0, 15} /\ WorkerLeft(worker[j]) = 0
        /\ ContextLeft(ctx[j]) = 2 /\ GuardLeft(guard[j]) = 2
    BY <2>1, Values
  <2>. QED BY <2>1, <2>2 DEF Left
<1>2. ASSUME IInv, NEW q \in Verifications, Reply(q)
      PROVE  /\ \A k \in Jobs : Left(k)' = Left(k)
             /\ WorkShrinks
  <2>1. \A k \in Jobs : Left(k)' = Left(k)
    BY <1>2 DEF Reply, Left, CallerLeft, WorkerLeft, ContextLeft, GuardLeft
  <2>2. /\ reply[q] = "none" /\ reply'[q] # "none"
        /\ \A p \in Verifications \ {q} : reply'[p] = reply[p]
    BY <1>2 DEF Reply, IInv, TypeOK
  <2>. QED BY <2>1, <2>2 DEF WorkShrinks
<1>3. ASSUME IInv, NEW j \in Jobs, Step(j)
      PROVE  /\ Left(j) \in Nat /\ Left(j)' \in Nat /\ Left(j)' < Left(j)
             /\ \A k \in Jobs \ {j} : Left(k)' = Left(k)
             /\ WorkShrinks
  <2>1. TypeOK /\ Kept(j)
    BY <1>3 DEF IInv, Kept
  <2>2. Left(j) \in Nat /\ Left(j)' \in Nat /\ Left(j)' < Left(j)
    BY <1>3, <2>1, OwnLess
  <2>3. \A k \in Jobs \ {j} : Left(k)' = Left(k)
    BY <1>3, <2>1, OthersLeft
  <2>4. reply' = reply
    BY <1>3, StepReply
  <2>. QED BY <2>2, <2>3, <2>4 DEF WorkShrinks
<1>4. Next => (\E j \in Jobs : Step(j)) \/ (\E q \in Verifications : Reply(q))
  BY DEF Next, Step
<1>5. IInv /\ [Next]_vars => [WorkShrinks]_vars
  BY <1>2, <1>3, <1>4
<1>6. IInv /\ LeftBounded /\ [Next]_vars => LeftBounded'
  <2>. SUFFICES ASSUME IInv, LeftBounded, [Next]_vars, NEW k \in Jobs PROVE Left(k)' \in 0..20
    BY DEF LeftBounded
  <2>1. Left(k) \in 0..20
    BY DEF LeftBounded
  <2>2. CASE UNCHANGED vars
    BY <2>1, <2>2 DEF vars, Left, CallerLeft, WorkerLeft, ContextLeft, GuardLeft
  <2>3. ASSUME NEW q \in Verifications, Reply(q) PROVE Left(k)' \in 0..20
    BY <2>1, <2>3, <1>2
  <2>4. ASSUME NEW j \in Jobs, Step(j) PROVE Left(k)' \in 0..20
    <3>1. CASE k = j
      BY <2>1, <2>4, <3>1, <1>3
    <3>2. CASE k # j
      BY <2>1, <2>4, <3>2, <1>3
    <3>. QED BY <3>1, <3>2
  <2>. QED BY <2>2, <2>3, <2>4, <1>4
<1>. QED BY <1>1, <1>5, <1>6, Invariance, PTL DEF Spec
=============================================================================
