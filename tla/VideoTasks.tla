----------------------------- MODULE VideoTasks -----------------------------
(***************************************************************************)
(* Asynchronous video tasks: RelayTaskSubmit and CompletedTask, which make  *)
(* a task and wake the poller, and the poller itself: Task, UpdateTaskBulk  *)
(* and updateTokiameVideoTasks, with the refund of failed tasks.            *)
(*                                                                         *)
(* Only the poller writes the rows of inserted tasks, and task ids are      *)
(* unique, so the copies a round works on are equal to the rows.  The 500   *)
(* tasks a query returns at most are more than the model has.               *)
(***************************************************************************)
EXTENDS Integers, FiniteSets

CONSTANTS Tasks, Channels, NoTask,
          ChannelId,      \* the channel that a task is given
          Threshold,      \* videoPollErrorFailureThreshold
          Faults,         \* what may go wrong
          MaxFaults       \* bounds how often

ASSUME ThresholdAssumption == Threshold \in Nat \ {0}
ASSUME FaultAssumption ==
    /\ Faults \subseteq {"insert", "query", "refund", "update", "crash"}
    /\ MaxFaults \in Nat
ASSUME TaskAssumption == NoTask \notin Tasks /\ ChannelId \in [Tasks -> Channels]

VARIABLES
    sub,          \* step of RelayTaskSubmit, per task
    row,          \* status in the task table, or "none"
    errs,         \* PollErrorCount in its properties
    upstream,     \* what the worker's backend says of the task
    offered,      \* channels in the chooser's snapshot
    taskActive,
    \* UpdateTaskBulk
    ppc, todo,    \* next step; tasks of this round still to be polled
    batch, cur,   \* those of the channel at hand, and the one found failed
    \* history
    refunds,      \* times the task's quota was given back
    found,        \* tasks whose failure a poll has found and recorded
    faulty,       \* tasks hit by a fault between refund and record
    faults,
    blind         \* a query of the poller has failed

pollVars == <<ppc, todo, batch, cur>>
history == <<refunds, found, faulty, faults, blind>>
vars == <<sub, row, errs, upstream, offered, taskActive, pollVars, history>>

\* videoStatusToTaskStatus and videoStatusToProgress: submitted, queued and
\* processing are all polled on, and a status that is none of these leaves the
\* task as it was.
Final == {"completed", "failed"}
Statuses == {"running"} \cup Final

Unfinished == {t \in Tasks : row[t] = "running"}

\* Every variable of the task table and of the poller has its type.
TypeOK ==
    /\ sub \in [Tasks -> {"new", "insert", "activate", "signal", "done", "refused"}]
    /\ row \in [Tasks -> Statuses \cup {"none"}]
    /\ errs \in [Tasks -> 0..(Threshold - 1)]
    /\ upstream \in [Tasks -> Statuses]
    /\ offered \in SUBSET Channels
    /\ taskActive \in BOOLEAN
    /\ ppc \in {"wait", "query", "deactivate", "round", "poll", "refund", "update", "sleep"}
    /\ todo \in SUBSET Tasks /\ batch \in SUBSET Tasks /\ cur \in Tasks \cup {NoTask}
    /\ refunds \in [Tasks -> Nat] /\ faults \in Nat
    /\ found \in SUBSET Tasks /\ faulty \in SUBSET Tasks /\ blind \in BOOLEAN

\* InitTask: the poller starts and is activated.
Init ==
    /\ sub = [t \in Tasks |-> "new"]
    /\ row = [t \in Tasks |-> "none"]
    /\ errs = [t \in Tasks |-> 0]
    /\ upstream = [t \in Tasks |-> "running"]
    /\ offered = Channels
    /\ taskActive = TRUE
    /\ ppc = "query" /\ todo = {} /\ batch = {} /\ cur = NoTask
    /\ refunds = [t \in Tasks |-> 0]
    /\ found = {} /\ faulty = {} /\ faults = 0 /\ blind = FALSE

Fault(f) == f \in Faults /\ faults < MaxFaults /\ faults' = faults + 1
-----------------------------------------------------------------------------
(* RelayTaskSubmit, per task.                                              *)

\* Relay: no channel or an error of the worker, which Undo makes good; or a task,
\* in whatever state the answer says.
Submit(t) ==
    /\ sub[t] = "new"
    /\ \/ sub' = [sub EXCEPT ![t] = "refused"] /\ UNCHANGED upstream
       \/ /\ ChannelId[t] \in offered
          /\ sub' = [sub EXCEPT ![t] = "insert"]
          /\ \E s \in Statuses : upstream' = [upstream EXCEPT ![t] = s]
    /\ UNCHANGED <<row, errs, offered, taskActive, pollVars, history>>

\* CompletedTask: an error of Insert is logged only.
Insert(t) ==
    /\ sub[t] = "insert"
    /\ \/ row' = [row EXCEPT ![t] = upstream[t]] /\ UNCHANGED faults
       \/ Fault("insert") /\ UNCHANGED row
    /\ sub' = [sub EXCEPT ![t] = "activate"]
    /\ UNCHANGED <<errs, upstream, offered, taskActive, pollVars, refunds, found,
                   faulty, blind>>

\* ActivateUpdateTaskBulk reads taskActive without the lock ...
ActivateUpdateTaskBulk(t) ==
    /\ sub[t] = "activate"
    /\ sub' = [sub EXCEPT ![t] = IF taskActive THEN "done" ELSE "signal"]
    /\ UNCHANGED <<row, errs, upstream, offered, taskActive, pollVars, history>>

\* ... and sets it under the lock.
Signal(t) ==
    /\ sub[t] = "signal"
    /\ taskActive' = TRUE
    /\ sub' = [sub EXCEPT ![t] = "done"]
    /\ UNCHANGED <<row, errs, upstream, offered, pollVars, history>>
-----------------------------------------------------------------------------
(* Task and UpdateTaskBulk.                                                *)

WakeUp ==
    /\ ppc = "wait" /\ taskActive
    /\ ppc' = "query"
    /\ UNCHANGED <<sub, row, errs, upstream, offered, taskActive, todo, batch, cur,
                   history>>

\* Mutant: finished tasks are polled as well.
QueryAll ==
    /\ ppc = "query"
    /\ todo' = {t \in Tasks : row[t] # "none"}
    /\ ppc' = IF todo' = {} THEN "deactivate" ELSE "round"
    /\ UNCHANGED <<sub, row, errs, upstream, offered, taskActive, batch, cur, history>>

GetAllUnFinishSyncTasks ==
    /\ ppc = "query"
    /\ todo' = Unfinished
    /\ ppc' = IF todo' = {} THEN "deactivate" ELSE "round"
    /\ UNCHANGED <<sub, row, errs, upstream, offered, taskActive, batch, cur, history>>

\* An error of the query is taken for no tasks.
QueryFails ==
    /\ ppc = "query" /\ Fault("query")
    /\ ppc' = "deactivate" /\ blind' = TRUE
    /\ UNCHANGED <<sub, row, errs, upstream, offered, taskActive, todo, batch, cur,
                   refunds, found, faulty>>

DeactivateTask ==
    /\ ppc = "deactivate"
    /\ taskActive' = FALSE
    /\ ppc' = "wait"
    /\ UNCHANGED <<sub, row, errs, upstream, offered, todo, batch, cur, history>>

\* Mutant: one round, and no more until the next submission.
SleepForGood ==
    /\ ppc = "sleep"
    /\ ppc' = "deactivate"
    /\ UNCHANGED <<sub, row, errs, upstream, offered, taskActive, todo, batch, cur,
                   history>>

\* 15 seconds.
Sleep ==
    /\ ppc = "sleep"
    /\ ppc' = "query"
    /\ UNCHANGED <<sub, row, errs, upstream, offered, taskActive, todo, batch, cur,
                   history>>

\* The next step once the tasks in done have been dealt with.
Proceed(done) ==
    /\ todo' = todo \ done
    /\ batch' = batch \ done
    /\ ppc' = IF batch' # {} THEN "poll" ELSE IF todo' # {} THEN "round" ELSE "sleep"
-----------------------------------------------------------------------------
(* updateTokiameVideoTasks.                                                *)

OnChannel(c) == {t \in todo : ChannelId[t] = c}

\* GetChannel finds the channel of the next tasks ...
TakeChannel ==
    /\ ppc = "round"
    /\ \E c \in offered : OnChannel(c) # {} /\ batch' = OnChannel(c)
    /\ ppc' = "poll"
    /\ UNCHANGED <<sub, row, errs, upstream, offered, taskActive, todo, cur, history>>

\* ... or not, or its provider is none for videos, and all of them fail in one
\* statement, which refunds nothing.
FailChannel ==
    /\ ppc = "round"
    /\ \E c \in Channels \ offered :
         /\ OnChannel(c) # {}
         /\ Proceed(OnChannel(c))
         /\ \/ /\ row' = [t \in Tasks |-> IF t \in OnChannel(c) THEN "failed" ELSE row[t]]
               /\ UNCHANGED faults
            \/ Fault("update") /\ UNCHANGED row
    /\ UNCHANGED <<sub, errs, upstream, offered, taskActive, cur, refunds, found,
                   faulty, blind>>

\* GetVideo, which has been called for some task of the batch, answers that the task
\* lives or is complete.
PollAnswers(t) ==
    /\ ppc = "poll" /\ t \in batch /\ upstream[t] # "failed"
    /\ \/ /\ row' = [row EXCEPT ![t] = upstream[t]]
          /\ errs' = [errs EXCEPT ![t] = 0]
          /\ UNCHANGED faults
       \/ Fault("update") /\ UNCHANGED <<row, errs>>
    /\ Proceed({t})
    /\ UNCHANGED <<sub, upstream, offered, taskActive, cur, refunds, found, faulty,
                   blind>>

\* Mutant: one error too many is tolerated.
PollErrorOnceMore(t) ==
    /\ ppc = "poll" /\ t \in batch /\ errs[t] < Threshold
    /\ \/ errs' = [errs EXCEPT ![t] = @ + 1] /\ UNCHANGED faults
       \/ Fault("update") /\ UNCHANGED errs
    /\ Proceed({t})
    /\ UNCHANGED <<sub, row, upstream, offered, taskActive, cur, refunds, found,
                   faulty, blind>>

\* recordVideoPollError below the threshold.
RecordPollError(t) ==
    /\ ppc = "poll" /\ t \in batch /\ errs[t] + 1 < Threshold
    /\ \/ errs' = [errs EXCEPT ![t] = @ + 1] /\ UNCHANGED faults
       \/ Fault("update") /\ UNCHANGED errs
    /\ Proceed({t})
    /\ UNCHANGED <<sub, row, upstream, offered, taskActive, cur, refunds, found,
                   faulty, blind>>

\* GetVideo says that the task has failed, or one error too many.
PollFindsFailure(t) ==
    /\ ppc = "poll" /\ t \in batch
    /\ upstream[t] = "failed" \/ errs[t] + 1 = Threshold
    /\ cur' = t
    /\ ppc' = "refund"
    /\ UNCHANGED <<sub, row, errs, upstream, offered, taskActive, todo, batch,
                   history>>

\* An error of IncreaseUserQuota is logged only.
RefundFailedVideoTaskQuota ==
    /\ ppc = "refund"
    /\ \/ refunds' = [refunds EXCEPT ![cur] = @ + 1] /\ UNCHANGED <<faults, faulty>>
       \/ Fault("refund") /\ faulty' = faulty \cup {cur} /\ UNCHANGED refunds
    /\ ppc' = "update"
    /\ UNCHANGED <<sub, row, errs, upstream, offered, taskActive, todo, batch, cur,
                   found, blind>>

\* Mutant: the status is not part of what is saved.
UpdateOfErrors ==
    /\ ppc = "update"
    /\ found' = found \cup {cur}
    /\ Proceed({cur}) /\ cur' = NoTask
    /\ UNCHANGED <<sub, row, errs, upstream, offered, taskActive, refunds, faults,
                   faulty, blind>>

\* An error of Update is logged only, too.
UpdateFailed ==
    /\ ppc = "update"
    /\ \/ /\ row' = [row EXCEPT ![cur] = "failed"]
          /\ found' = found \cup {cur}
          /\ UNCHANGED <<faults, faulty>>
       \/ Fault("update") /\ faulty' = faulty \cup {cur} /\ UNCHANGED <<row, found>>
    /\ Proceed({cur}) /\ cur' = NoTask
    /\ UNCHANGED <<sub, errs, upstream, offered, taskActive, refunds, blind>>
-----------------------------------------------------------------------------
(* What goes on around the poller.                                         *)

\* The process dies and starts again; handlers that were under way do not go on.
Restart ==
    /\ Fault("crash")
    /\ sub' = [t \in Tasks |-> IF sub[t] \in {"insert", "activate", "signal"}
                               THEN "done" ELSE sub[t]]
    /\ taskActive' = TRUE
    /\ ppc' = "query" /\ todo' = {} /\ batch' = {} /\ cur' = NoTask
    /\ faulty' = IF ppc = "update" THEN faulty \cup {cur} ELSE faulty
    /\ UNCHANGED <<row, errs, upstream, offered, refunds, found, blind>>

\* The backend goes on with the task; before Insert it makes no difference.
Advance(t) ==
    /\ row[t] # "none" /\ upstream[t] = "running"
    /\ \E s \in Final : upstream' = [upstream EXCEPT ![t] = s]
    /\ UNCHANGED <<sub, row, errs, offered, taskActive, pollVars, history>>

\* The worker comes and goes, and with it its channel: WorkerLifecycle.
ChangeSnapshot ==
    /\ \E c \in Channels : offered' = IF c \in offered THEN offered \ {c}
                                                       ELSE offered \cup {c}
    /\ UNCHANGED <<sub, row, errs, upstream, taskActive, pollVars, history>>
-----------------------------------------------------------------------------
Handler(t) == Submit(t) \/ Insert(t) \/ ActivateUpdateTaskBulk(t) \/ Signal(t)

Poller ==
    \/ WakeUp \/ GetAllUnFinishSyncTasks \/ QueryFails \/ DeactivateTask \/ Sleep
    \/ TakeChannel \/ FailChannel \/ RefundFailedVideoTaskQuota \/ UpdateFailed

\* GetVideo returns.
Answer(t) == PollAnswers(t) \/ RecordPollError(t) \/ PollFindsFailure(t)

Next ==
    \/ \E t \in Tasks : Handler(t) \/ Answer(t) \/ Advance(t)
    \/ Poller \/ Restart \/ ChangeSnapshot

\* Handlers that have begun and the poller's goroutine run on; neither workers
\* nor their backends have to do anything, not even answer a poll: GetVideo has no
\* deadline.
Fairness ==
    /\ \A t \in Tasks : WF_vars(Insert(t) \/ ActivateUpdateTaskBulk(t) \/ Signal(t))
    /\ WF_vars(Poller)

Spec == Init /\ [][Next]_vars
FairSpec == Spec /\ Fairness
-----------------------------------------------------------------------------
(* Properties.                                                             *)

\* Unless a database error or a crash came between refund and record, the quota
\* of a task is given back exactly when a poll has found it failed, and once.
RefundedOnce ==
    \A t \in Tasks \ faulty :
       refunds[t] = IF t \in found \/ (ppc = "update" /\ cur = t) THEN 1 ELSE 0

\* A finished task stays as it is, through rounds, late answers and restarts.
FinalStays == [][\A t \in Tasks : row[t] \in Final => row'[t] = row[t]]_vars

\* A backend never answers a poll, and the only poller waits for it.
Hangs == <>[](ppc = "poll")

\* As long as no query fails and no poll hangs, the poller does not go to sleep on a
\* task it has seen: once the backend is done with it, the row says so in the end.
PolledUntilFinished ==
    \/ Hangs
    \/ \A t \in Tasks : (t \in todo /\ upstream[t] \in Final) ~> (row[t] \in Final \/ blind)

\* A task that was inserted and whose handler has activated the poller is
\* finished in the end, once the backend is done with it, unless a poll hangs.
ActivationNotLost ==
    \/ Hangs
    \/ \A t \in Tasks :
          (sub[t] = "done" /\ row[t] # "none" /\ upstream[t] \in Final) ~> row[t] \in Final
-----------------------------------------------------------------------------
\* The inductive invariant: what the poller has in hand is unfinished, what it
\* has recorded is finished, and a task is inserted once.
InHand ==
    /\ batch \subseteq todo /\ todo \subseteq Unfinished
    /\ ppc \in {"refund", "update"} => cur \in batch
    /\ \A t \in found : row[t] \in Final
    /\ \A t \in Tasks : sub[t] \in {"new", "insert", "refused"} => row[t] = "none"

IInv == TypeOK /\ InHand /\ RefundedOnce
=============================================================================
