------------------------ MODULE VideoTasks_proofs ------------------------
(***************************************************************************)
(* Proofs about VideoTasks, for any number of tasks, channels and faults    *)
(* and any threshold.  What carries the argument is InHand: the poller only *)
(* ever deals with tasks that are unfinished in the table.                  *)
(***************************************************************************)
EXTENDS VideoTasks, TLAPS

USE DEF Final, Statuses, pollVars, history

\* The initial states satisfy the inductive invariant: nothing is inserted,
\* nothing is in the poller's hands and nothing has been refunded.
LEMMA InitIInv == Init => IInv
<1> SUFFICES ASSUME Init PROVE IInv
  OBVIOUS
<1>1. TypeOK
  <2>1. errs \in [Tasks -> 0..(Threshold - 1)]
    BY ThresholdAssumption DEF Init
  <2>2. refunds \in [Tasks -> Nat] /\ faults \in Nat
    BY DEF Init
  <2>3. taskActive \in BOOLEAN /\ blind \in BOOLEAN
    BY DEF Init
  <2> QED
    BY <2>1, <2>2, <2>3 DEF Init, TypeOK
<1>2. InHand
  BY DEF Init, InHand
<1>3. RefundedOnce
  BY DEF Init, RefundedOnce
<1> QED
  BY <1>1, <1>2, <1>3 DEF IInv

\* No step of a handler, of the poller or around them leaves the types.
LEMMA TypePreserved == TypeOK /\ InHand /\ [Next]_vars => TypeOK'
<1> SUFFICES ASSUME TypeOK, InHand, [Next]_vars PROVE TypeOK'
  OBVIOUS
<1> USE ThresholdAssumption, TaskAssumption
<1>1. ASSUME NEW t \in Tasks, Submit(t) PROVE TypeOK'
  BY <1>1 DEF Submit, TypeOK
<1>2. ASSUME NEW t \in Tasks, Insert(t) PROVE TypeOK'
  BY <1>2 DEF Insert, Fault, TypeOK
<1>3. ASSUME NEW t \in Tasks, ActivateUpdateTaskBulk(t) PROVE TypeOK'
  BY <1>3 DEF ActivateUpdateTaskBulk, TypeOK
<1>4. ASSUME NEW t \in Tasks, Signal(t) PROVE TypeOK'
  BY <1>4 DEF Signal, TypeOK
<1>5. ASSUME NEW t \in Tasks, Advance(t) PROVE TypeOK'
  BY <1>5 DEF Advance, TypeOK
<1>6. ASSUME NEW t \in Tasks, PollAnswers(t) PROVE TypeOK'
  BY <1>6 DEF PollAnswers, Proceed, Fault, TypeOK
<1>7. ASSUME NEW t \in Tasks, RecordPollError(t) PROVE TypeOK'
  BY <1>7 DEF RecordPollError, Proceed, Fault, TypeOK
<1>8. ASSUME NEW t \in Tasks, PollFindsFailure(t) PROVE TypeOK'
  BY <1>8 DEF PollFindsFailure, TypeOK
<1>9. CASE WakeUp
  BY <1>9 DEF WakeUp, TypeOK
<1>10. CASE GetAllUnFinishSyncTasks
  BY <1>10 DEF GetAllUnFinishSyncTasks, TypeOK, Unfinished
<1>11. CASE QueryFails
  BY <1>11 DEF QueryFails, Fault, TypeOK
<1>12. CASE DeactivateTask
  BY <1>12 DEF DeactivateTask, TypeOK
<1>13. CASE Sleep
  BY <1>13 DEF Sleep, TypeOK
<1>14. CASE TakeChannel
  BY <1>14 DEF TakeChannel, OnChannel, TypeOK
<1>15. CASE FailChannel
  <2>1. PICK c \in Channels \ offered :
          /\ Proceed(OnChannel(c))
          /\ \/ /\ row' = [t \in Tasks |-> IF t \in OnChannel(c) THEN "failed" ELSE row[t]]
                /\ UNCHANGED faults
             \/ Fault("update") /\ UNCHANGED row
    BY <1>15 DEF FailChannel
  <2>2. row' \in [Tasks -> Statuses \cup {"none"}] /\ faults' \in Nat
    BY <2>1 DEF Fault, TypeOK
  <2>3. /\ todo' \in SUBSET Tasks /\ batch' \in SUBSET Tasks
        /\ ppc' \in {"poll", "round", "sleep"}
    BY <2>1 DEF Proceed, TypeOK
  <2> QED
    BY <1>15, <2>2, <2>3 DEF FailChannel, TypeOK
<1>16. CASE RefundFailedVideoTaskQuota
  BY <1>16 DEF RefundFailedVideoTaskQuota, Fault, TypeOK, InHand
<1>17. CASE UpdateFailed
  BY <1>17 DEF UpdateFailed, Proceed, Fault, TypeOK, InHand
<1>18. CASE Restart
  BY <1>18 DEF Restart, Fault, TypeOK, InHand
<1>19. CASE ChangeSnapshot
  BY <1>19 DEF ChangeSnapshot, TypeOK
<1>20. CASE UNCHANGED vars
  BY <1>20 DEF vars, TypeOK
<1> QED
  BY <1>1, <1>2, <1>3, <1>4, <1>5, <1>6, <1>7, <1>8, <1>9, <1>10, <1>11, <1>12, <1>13, <1>14, <1>15, <1>16, <1>17, <1>18, <1>19, <1>20 DEF Next, Handler, Poller, Answer

\* What the poller has in hand stays unfinished: nobody else writes rows, and it
\* puts a task away when it finishes it.
LEMMA InHandPreserved == TypeOK /\ InHand /\ [Next]_vars => InHand'
<1> SUFFICES ASSUME TypeOK, InHand, [Next]_vars PROVE InHand'
  OBVIOUS
<1> USE TaskAssumption
<1>1. ASSUME NEW t \in Tasks, Submit(t) PROVE InHand'
  BY <1>1 DEF Submit, TypeOK, InHand, Unfinished
<1>2. ASSUME NEW t \in Tasks, Insert(t) PROVE InHand'
  BY <1>2 DEF Insert, Fault, TypeOK, InHand, Unfinished
<1>3. ASSUME NEW t \in Tasks, ActivateUpdateTaskBulk(t) PROVE InHand'
  BY <1>3 DEF ActivateUpdateTaskBulk, TypeOK, InHand, Unfinished
<1>4. ASSUME NEW t \in Tasks, Signal(t) PROVE InHand'
  BY <1>4 DEF Signal, TypeOK, InHand, Unfinished
<1>5. ASSUME NEW t \in Tasks, Advance(t) PROVE InHand'
  BY <1>5 DEF Advance, TypeOK, InHand, Unfinished
<1>6. ASSUME NEW t \in Tasks, PollAnswers(t) PROVE InHand'
  BY <1>6 DEF PollAnswers, Proceed, Fault, TypeOK, InHand, Unfinished
<1>7. ASSUME NEW t \in Tasks, RecordPollError(t) PROVE InHand'
  BY <1>7 DEF RecordPollError, Proceed, Fault, TypeOK, InHand, Unfinished
<1>8. ASSUME NEW t \in Tasks, PollFindsFailure(t) PROVE InHand'
  BY <1>8 DEF PollFindsFailure, TypeOK, InHand, Unfinished
<1>9. CASE WakeUp
  BY <1>9 DEF WakeUp, TypeOK, InHand, Unfinished
<1>10. CASE GetAllUnFinishSyncTasks
  BY <1>10 DEF GetAllUnFinishSyncTasks, TypeOK, InHand, Unfinished
<1>11. CASE QueryFails
  BY <1>11 DEF QueryFails, Fault, TypeOK, InHand, Unfinished
<1>12. CASE DeactivateTask
  BY <1>12 DEF DeactivateTask, TypeOK, InHand, Unfinished
<1>13. CASE Sleep
  BY <1>13 DEF Sleep, TypeOK, InHand, Unfinished
<1>14. CASE TakeChannel
  BY <1>14 DEF TakeChannel, OnChannel, TypeOK, InHand, Unfinished
<1>15. CASE FailChannel
  BY <1>15 DEF FailChannel, OnChannel, Proceed, Fault, TypeOK, InHand, Unfinished
<1>16. CASE RefundFailedVideoTaskQuota
  BY <1>16 DEF RefundFailedVideoTaskQuota, Fault, TypeOK, InHand, Unfinished
<1>17. CASE UpdateFailed
  BY <1>17 DEF UpdateFailed, Proceed, Fault, TypeOK, InHand, Unfinished
<1>18. CASE Restart
  BY <1>18 DEF Restart, Fault, TypeOK, InHand, Unfinished
<1>19. CASE ChangeSnapshot
  BY <1>19 DEF ChangeSnapshot, TypeOK, InHand, Unfinished
<1>20. CASE UNCHANGED vars
  BY <1>20 DEF vars, TypeOK, InHand, Unfinished
<1> QED
  BY <1>1, <1>2, <1>3, <1>4, <1>5, <1>6, <1>7, <1>8, <1>9, <1>10, <1>11, <1>12, <1>13, <1>14, <1>15, <1>16, <1>17, <1>18, <1>19, <1>20 DEF Next, Handler, Poller, Answer

\* A step gives a task's quota back only on its way to recording the failure.
LEMMA RefundPreserved == IInv /\ [Next]_vars => RefundedOnce'
<1> SUFFICES ASSUME TypeOK, InHand, RefundedOnce, [Next]_vars PROVE RefundedOnce'
  BY DEF IInv
<1> USE TaskAssumption
<1>1. ASSUME NEW t \in Tasks, Submit(t) PROVE RefundedOnce'
  BY <1>1 DEF Submit, TypeOK, RefundedOnce
<1>2. ASSUME NEW t \in Tasks, Insert(t) PROVE RefundedOnce'
  BY <1>2 DEF Insert, Fault, TypeOK, RefundedOnce
<1>3. ASSUME NEW t \in Tasks, ActivateUpdateTaskBulk(t) PROVE RefundedOnce'
  BY <1>3 DEF ActivateUpdateTaskBulk, TypeOK, RefundedOnce
<1>4. ASSUME NEW t \in Tasks, Signal(t) PROVE RefundedOnce'
  BY <1>4 DEF Signal, TypeOK, RefundedOnce
<1>5. ASSUME NEW t \in Tasks, Advance(t) PROVE RefundedOnce'
  BY <1>5 DEF Advance, TypeOK, RefundedOnce
<1>6. ASSUME NEW t \in Tasks, PollAnswers(t) PROVE RefundedOnce'
  BY <1>6 DEF PollAnswers, Proceed, Fault, TypeOK, RefundedOnce
<1>7. ASSUME NEW t \in Tasks, RecordPollError(t) PROVE RefundedOnce'
  BY <1>7 DEF RecordPollError, Proceed, Fault, TypeOK, RefundedOnce
<1>8. ASSUME NEW t \in Tasks, PollFindsFailure(t) PROVE RefundedOnce'
  BY <1>8 DEF PollFindsFailure, TypeOK, RefundedOnce, InHand, Unfinished
<1>9. CASE WakeUp
  BY <1>9 DEF WakeUp, TypeOK, RefundedOnce
<1>10. CASE GetAllUnFinishSyncTasks
  BY <1>10 DEF GetAllUnFinishSyncTasks, TypeOK, RefundedOnce
<1>11. CASE QueryFails
  BY <1>11 DEF QueryFails, Fault, TypeOK, RefundedOnce
<1>12. CASE DeactivateTask
  BY <1>12 DEF DeactivateTask, TypeOK, RefundedOnce
<1>13. CASE Sleep
  BY <1>13 DEF Sleep, TypeOK, RefundedOnce
<1>14. CASE TakeChannel
  BY <1>14 DEF TakeChannel, OnChannel, TypeOK, RefundedOnce
<1>15. CASE FailChannel
  BY <1>15 DEF FailChannel, OnChannel, Proceed, Fault, TypeOK, RefundedOnce
<1>16. CASE RefundFailedVideoTaskQuota
  BY <1>16 DEF RefundFailedVideoTaskQuota, Fault, TypeOK, RefundedOnce, InHand, Unfinished
<1>17. CASE UpdateFailed
  BY <1>17 DEF UpdateFailed, Proceed, Fault, TypeOK, RefundedOnce, InHand, Unfinished
<1>18. CASE Restart
  BY <1>18 DEF Restart, Fault, TypeOK, RefundedOnce, InHand, Unfinished
<1>19. CASE ChangeSnapshot
  BY <1>19 DEF ChangeSnapshot, TypeOK, RefundedOnce
<1>20. CASE UNCHANGED vars
  BY <1>20 DEF vars, TypeOK, RefundedOnce
<1> QED
  BY <1>1, <1>2, <1>3, <1>4, <1>5, <1>6, <1>7, <1>8, <1>9, <1>10, <1>11, <1>12, <1>13, <1>14, <1>15, <1>16, <1>17, <1>18, <1>19, <1>20 DEF Next, Handler, Poller, Answer

\* A step changes no row that says completed or failed.
LEMMA FinalStep ==
    TypeOK /\ InHand /\ [Next]_vars => \A u \in Tasks : row[u] \in Final => row'[u] = row[u]
<1> SUFFICES ASSUME TypeOK, InHand, [Next]_vars, NEW u \in Tasks, row[u] \in Final
             PROVE row'[u] = row[u]
  OBVIOUS
<1>1. ASSUME NEW t \in Tasks, Submit(t) PROVE row'[u] = row[u]
  BY <1>1 DEF Submit
<1>2. ASSUME NEW t \in Tasks, Insert(t) PROVE row'[u] = row[u]
  BY <1>2 DEF Insert, Fault, TypeOK, InHand, Unfinished
<1>3. ASSUME NEW t \in Tasks, ActivateUpdateTaskBulk(t) PROVE row'[u] = row[u]
  BY <1>3 DEF ActivateUpdateTaskBulk
<1>4. ASSUME NEW t \in Tasks, Signal(t) PROVE row'[u] = row[u]
  BY <1>4 DEF Signal
<1>5. ASSUME NEW t \in Tasks, Advance(t) PROVE row'[u] = row[u]
  BY <1>5 DEF Advance
<1>6. ASSUME NEW t \in Tasks, PollAnswers(t) PROVE row'[u] = row[u]
  BY <1>6 DEF PollAnswers, Proceed, Fault, TypeOK, InHand, Unfinished
<1>7. ASSUME NEW t \in Tasks, RecordPollError(t) PROVE row'[u] = row[u]
  BY <1>7 DEF RecordPollError, Proceed, Fault
<1>8. ASSUME NEW t \in Tasks, PollFindsFailure(t) PROVE row'[u] = row[u]
  BY <1>8 DEF PollFindsFailure
<1>9. CASE WakeUp
  BY <1>9 DEF WakeUp
<1>10. CASE GetAllUnFinishSyncTasks
  BY <1>10 DEF GetAllUnFinishSyncTasks
<1>11. CASE QueryFails
  BY <1>11 DEF QueryFails, Fault
<1>12. CASE DeactivateTask
  BY <1>12 DEF DeactivateTask
<1>13. CASE Sleep
  BY <1>13 DEF Sleep
<1>14. CASE TakeChannel
  BY <1>14 DEF TakeChannel, OnChannel
<1>15. CASE FailChannel
  BY <1>15 DEF FailChannel, OnChannel, Proceed, Fault, TypeOK, InHand, Unfinished
<1>16. CASE RefundFailedVideoTaskQuota
  BY <1>16 DEF RefundFailedVideoTaskQuota, Fault
<1>17. CASE UpdateFailed
  BY <1>17 DEF UpdateFailed, Proceed, Fault, TypeOK, InHand, Unfinished
<1>18. CASE Restart
  BY <1>18 DEF Restart, Fault
<1>19. CASE ChangeSnapshot
  BY <1>19 DEF ChangeSnapshot
<1>20. CASE UNCHANGED vars
  BY <1>20 DEF vars
<1> QED
  BY <1>1, <1>2, <1>3, <1>4, <1>5, <1>6, <1>7, <1>8, <1>9, <1>10, <1>11, <1>12, <1>13, <1>14, <1>15, <1>16, <1>17, <1>18, <1>19, <1>20 DEF Next, Handler, Poller, Answer

\* Every reachable state satisfies the inductive invariant.
THEOREM Invariance == Spec => []IInv
<1>1. Init => IInv
  BY InitIInv
<1>2. IInv /\ [Next]_vars => IInv'
  BY TypePreserved, InHandPreserved, RefundPreserved DEF IInv
<1> QED
  BY <1>1, <1>2, PTL DEF Spec

\* Tables, poller and error counts keep their types; in particular PollErrorCount
\* of an unfinished task stays below videoPollErrorFailureThreshold.
THEOREM TypeCorrect == Spec => []TypeOK
<1>1. IInv => TypeOK
  BY DEF IInv
<1> QED
  BY <1>1, Invariance, PTL

\* refundFailedVideoTaskQuota gives a task's quota back exactly once for a failure
\* that a poll has found, and never otherwise, unless a fault hit that task.
THEOREM RefundCorrect == Spec => []RefundedOnce
<1>1. IInv => RefundedOnce
  BY DEF IInv
<1> QED
  BY <1>1, Invariance, PTL

\* No round, late answer or restart changes a finished task.
THEOREM FinalCorrect == Spec => FinalStays
<1>1. IInv /\ [Next]_vars => [\A t \in Tasks : row[t] \in Final => row'[t] = row[t]]_vars
  BY FinalStep DEF IInv
<1> QED
  BY <1>1, Invariance, PTL DEF Spec, FinalStays
=============================================================================
