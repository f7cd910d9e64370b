------------------------ MODULE SubagentTasksProofs ------------------------
(***************************************************************************)
(* Proofs about SubagentTasks.                                             *)
(*                                                                         *)
(* NoOrphanRow is not inductive: a stop request cancels the row first and  *)
(* the job later, and in between a continuation may queue the row again.   *)
(* A waiting job that a request is about to cancel therefore does not      *)
(* count as an owner (SafelyOwned), and the request knows only jobs that   *)
(* were sent for that very task (Links).                                   *)
(***************************************************************************)
EXTENDS SubagentTasks, TLAPS, SequenceTheorems

NotSent == {"idle", "inserted", "inline", "inlineDone", "inlineFailed", "continuing"}

\* A call has its task, a job exists exactly after the send, only an existing
\* job is cancelled, and every recorded job id was sent for the task it is
\* recorded for.
Links ==
  /\ \A c \in Calls : callAt[c] # "idle" => taskOf[c] \in Tasks
  /\ \A c \in Calls : callAt[c] \in NotSent => jobAt[c] = "none"
  /\ \A c \in Calls : callAt[c] \in {"sent", "awaiting", "cancelling"} => jobAt[c] # "none"
  /\ \A c \in Calls : jobAt[c] = "none" => ~cancelled[c]
  /\ \A c \in Calls : answer[c] = "none" <=> callAt[c] # "closed"
  /\ \A t \in Tasks, c \in Calls : rowJob[t] = c => taskOf[c] = t /\ jobAt[c] # "none"
  /\ \A s \in Stops, t \in Tasks, c \in Calls :
       seenJob[s][t] = c => taskOf[c] = t /\ jobAt[c] # "none"
  /\ \A s \in Stops : stopAt[s] # "stopping" => handling[s] = {} /\ todo[s] = {}

\* Each element of the queue is a waiting job, and appears once.
QueueOK ==
  /\ \A i \in DOMAIN waiting : jobAt[waiting[i]] = "waiting"
  /\ \A i, j \in DOMAIN waiting : waiting[i] = waiting[j] => i = j

Base == TypeOK /\ Links /\ QueueOK

\* A settled row holds the text of a run that ended that way.
RowProvenance ==
  \A t \in Tasks :
    /\ status[t] = "done" =>
         result[t] \in Calls /\ taskOf[result[t]] = t /\ Produced(result[t])
    /\ status[t] = "failed" =>
         result[t] \in Calls /\ taskOf[result[t]] = t /\ Broke(result[t])

\* A call that is about to return cancelled has cancelled its job.
Supervised ==
  /\ \A c \in Calls : callAt[c] = "cancelling" => cancelled[c]
  /\ NoUnsupervisedWorker

\* Call c will still write the status of task t, whatever requests are under way.
Owns(c, t) ==
  /\ taskOf[c] = t
  /\ \/ callAt[c] \in {"inserted", "cancelling", "inline", "inlineDone",
                       "inlineFailed", "continuing"}
     \/ jobAt[c] \in Working
     \/ /\ jobAt[c] = "waiting" /\ ~cancelled[c]
        /\ \A s \in Stops : t \in handling[s] => seenJob[s][t] # c

SafelyOwned(t) == \E c \in Calls : Owns(c, t)

RowsSafelyOwned ==
  \A t \in Tasks : status[t] \in Unsettled => SafelyOwned(t) \/ Stranded(t)

IInv == Base /\ RowProvenance /\ AnswerProvenance /\ Supervised /\ RowsSafelyOwned
-----------------------------------------------------------------------------

\* The first job of the queue is a waiting one.
LEMMA HeadWaits ==
  ASSUME Base, waiting # <<>>
  PROVE  /\ Head(waiting) \in Calls
         /\ jobAt[Head(waiting)] = "waiting"
         /\ Tail(waiting) \in Seq(Calls)
         /\ \A i \in DOMAIN Tail(waiting) :
              i + 1 \in DOMAIN waiting /\ Tail(waiting)[i] = waiting[i + 1]
BY DEF Base, TypeOK, QueueOK

\* The job a request has seen was sent for the task it was seen at.
LEMMA SeenJobs ==
  ASSUME Base, NEW s \in Stops, NEW t \in Tasks, NEW c \in Calls, seenJob[s][t] = c
  PROVE  taskOf[c] = t /\ jobAt[c] # "none"
BY DEF Base, Links

\* The types are preserved.
LEMMA TypeStep ==
  ASSUME Base, Next
  PROVE  TypeOK'
<1> USE DEF Base, Links, TypeOK, Status, Unsettled, Terminal, CallPlaces,
     Answers, JobPlaces, Working, rowVars, callVars, jobVars, stopVars
<1>1. ASSUME NEW c \in Calls, NEW t \in Tasks, NEW b \in BOOLEAN,
             InsertTask(c, t, b)
      PROVE  TypeOK'
  BY <1>1 DEF InsertTask
<1>2. ASSUME NEW c \in Calls, NEW t \in Tasks, NEW b \in BOOLEAN,
             ContinueTask(c, t, b)
      PROVE  TypeOK'
  BY <1>2 DEF ContinueTask
<1>3. ASSUME NEW s \in Stops, StopThread(s)
      PROVE  TypeOK'
  BY <1>3 DEF StopThread
<1>4. ASSUME NEW s \in Stops, NEW rows \in SUBSET Tasks,
             stopAt[s] # "stopping", Snapshot(s, rows)
      PROVE  TypeOK'
  BY <1>4 DEF Snapshot
<1>5. ASSUME AbortRun
      PROVE  TypeOK'
  BY <1>5 DEF AbortRun
<1>6. ASSUME StopQueue
      PROVE  TypeOK'
  BY <1>6 DEF StopQueue
<1>7. ASSUME StartJob
      PROVE  TypeOK'
  BY <1>7, HeadWaits DEF StartJob
<1>8. ASSUME NEW c \in Calls, SendJob(c)
      PROVE  TypeOK'
  BY <1>8 DEF SendJob
<1>9. ASSUME NEW c \in Calls, RecordJobId(c)
      PROVE  TypeOK'
  BY <1>9 DEF RecordJobId
<1>10. ASSUME NEW c \in Calls, ReturnSettled(c)
      PROVE  TypeOK'
  BY <1>10 DEF ReturnSettled, Close
<1>11. ASSUME NEW c \in Calls, GiveUp(c)
      PROVE  TypeOK'
  BY <1>11 DEF GiveUp
<1>12. ASSUME NEW c \in Calls, ReturnCancelled(c)
      PROVE  TypeOK'
  BY <1>12 DEF ReturnCancelled, Close
<1>13. ASSUME NEW c \in Calls, InlineGenerated(c)
      PROVE  TypeOK'
  BY <1>13 DEF InlineGenerated
<1>14. ASSUME NEW c \in Calls, InlineThrew(c)
      PROVE  TypeOK'
  BY <1>14 DEF InlineThrew
<1>15. ASSUME NEW c \in Calls, ContinuationThrew(c)
      PROVE  TypeOK'
  BY <1>15 DEF ContinuationThrew, Close
<1>16. ASSUME NEW c \in Calls, StoreInlineDone(c)
      PROVE  TypeOK'
  BY <1>16 DEF StoreInlineDone, Close
<1>17. ASSUME NEW c \in Calls, StoreInlineFailed(c)
      PROVE  TypeOK'
  BY <1>17 DEF StoreInlineFailed, Close
<1>18. ASSUME NEW c \in Calls, Prepare(c)
      PROVE  TypeOK'
  BY <1>18 DEF Prepare, WorkerStep
<1>19. ASSUME NEW c \in Calls, PrepareFails(c)
      PROVE  TypeOK'
  BY <1>19 DEF PrepareFails, WorkerStep
<1>20. ASSUME NEW c \in Calls, ReadRow(c)
      PROVE  TypeOK'
  BY <1>20 DEF ReadRow, WorkerStep
<1>21. ASSUME NEW c \in Calls, MarkRunning(c)
      PROVE  TypeOK'
  BY <1>21 DEF MarkRunning, WorkerStep
<1>22. ASSUME NEW c \in Calls, Generated(c)
      PROVE  TypeOK'
  BY <1>22 DEF Generated, WorkerStep
<1>23. ASSUME NEW c \in Calls, GenerateThrew(c)
      PROVE  TypeOK'
  BY <1>23 DEF GenerateThrew, WorkerStep
<1>24. ASSUME NEW c \in Calls, CheckRow(c)
      PROVE  TypeOK'
  BY <1>24 DEF CheckRow, WorkerStep
<1>25. ASSUME NEW c \in Calls, StoreDone(c)
      PROVE  TypeOK'
  BY <1>25 DEF StoreDone, WorkerStep
<1>26. ASSUME NEW c \in Calls, StoreFailed(c)
      PROVE  TypeOK'
  BY <1>26 DEF StoreFailed, WorkerStep
<1>27. ASSUME NEW c \in Calls, StoreWithdrawn(c)
      PROVE  TypeOK'
  BY <1>27 DEF StoreWithdrawn, WorkerStep
<1>28. ASSUME NEW s \in Stops, NEW t \in Tasks, CancelRow(s, t)
      PROVE  TypeOK'
  BY <1>28 DEF CancelRow
<1>29. ASSUME NEW s \in Stops, NEW t \in Tasks, CancelJob(s, t)
      PROVE  TypeOK'
  BY <1>29 DEF CancelJob
<1> HIDE DEF Base, Links, TypeOK, Status, Unsettled, Terminal, CallPlaces,
     Answers, JobPlaces, Working, rowVars, callVars, jobVars, stopVars
<1>30. QED
  BY <1>1, <1>2, <1>3, <1>4, <1>5, <1>6, <1>7, <1>8, <1>9, <1>10, <1>11,
     <1>12, <1>13, <1>14, <1>15, <1>16, <1>17, <1>18, <1>19, <1>20,
     <1>21, <1>22, <1>23, <1>24, <1>25, <1>26, <1>27, <1>28, <1>29
  DEF Next, Requests, CallStep, JobStep, StopStep, StopTask, ListTasks

\* The links are preserved.
LEMMA LinksStep ==
  ASSUME Base, TypeOK', Next
  PROVE  Links'
<1> USE DEF Base, Links, NotSent, TypeOK, Status, Unsettled, Terminal,
     CallPlaces, Answers, JobPlaces, Working, rowVars, callVars, jobVars,
     stopVars
<1>1. ASSUME NEW c \in Calls, NEW t \in Tasks, NEW b \in BOOLEAN,
             InsertTask(c, t, b)
      PROVE  Links'
  BY <1>1 DEF InsertTask
<1>2. ASSUME NEW c \in Calls, NEW t \in Tasks, NEW b \in BOOLEAN,
             ContinueTask(c, t, b)
      PROVE  Links'
  BY <1>2 DEF ContinueTask
<1>3. ASSUME NEW s \in Stops, StopThread(s)
      PROVE  Links'
  BY <1>3 DEF StopThread, InFlight
<1>4. ASSUME NEW s \in Stops, NEW rows \in SUBSET Tasks,
             stopAt[s] # "stopping", Snapshot(s, rows)
      PROVE  Links'
  BY <1>4 DEF Snapshot
<1>5. ASSUME AbortRun
      PROVE  Links'
  BY <1>5 DEF AbortRun, InFlight
<1>6. ASSUME StopQueue
      PROVE  Links'
  BY <1>6 DEF StopQueue
<1>7. ASSUME StartJob
      PROVE  Links'
  BY <1>7, HeadWaits DEF StartJob
<1>8. ASSUME NEW c \in Calls, SendJob(c)
      PROVE  Links'
  BY <1>8 DEF SendJob
<1>9. ASSUME NEW c \in Calls, RecordJobId(c)
      PROVE  Links'
  BY <1>9 DEF RecordJobId
<1>10. ASSUME NEW c \in Calls, ReturnSettled(c)
      PROVE  Links'
  BY <1>10 DEF ReturnSettled, Close
<1>11. ASSUME NEW c \in Calls, GiveUp(c)
      PROVE  Links'
  BY <1>11 DEF GiveUp
<1>12. ASSUME NEW c \in Calls, ReturnCancelled(c)
      PROVE  Links'
  BY <1>12 DEF ReturnCancelled, Close
<1>13. ASSUME NEW c \in Calls, InlineGenerated(c)
      PROVE  Links'
  BY <1>13 DEF InlineGenerated
<1>14. ASSUME NEW c \in Calls, InlineThrew(c)
      PROVE  Links'
  BY <1>14 DEF InlineThrew
<1>15. ASSUME NEW c \in Calls, ContinuationThrew(c)
      PROVE  Links'
  BY <1>15 DEF ContinuationThrew, Close
<1>16. ASSUME NEW c \in Calls, StoreInlineDone(c)
      PROVE  Links'
  BY <1>16 DEF StoreInlineDone, Close
<1>17. ASSUME NEW c \in Calls, StoreInlineFailed(c)
      PROVE  Links'
  BY <1>17 DEF StoreInlineFailed, Close
<1>18. ASSUME NEW c \in Calls, Prepare(c)
      PROVE  Links'
  BY <1>18 DEF Prepare, WorkerStep
<1>19. ASSUME NEW c \in Calls, PrepareFails(c)
      PROVE  Links'
  BY <1>19 DEF PrepareFails, WorkerStep
<1>20. ASSUME NEW c \in Calls, ReadRow(c)
      PROVE  Links'
  <2>0. UNCHANGED rowVars
    BY <1>20 DEF ReadRow
  <2>1. ASSUME NEW to \in JobPlaces \ {"none"}, WorkerStep(c, "reading", to) PROVE Links'
    BY <2>0, <2>1 DEF WorkerStep, Base, Links, NotSent, TypeOK
  <2>2. QED BY <1>20, <2>1 DEF ReadRow, JobPlaces, Working
<1>21. ASSUME NEW c \in Calls, MarkRunning(c)
      PROVE  Links'
  BY <1>21 DEF MarkRunning, WorkerStep
<1>22. ASSUME NEW c \in Calls, Generated(c)
      PROVE  Links'
  BY <1>22 DEF Generated, WorkerStep
<1>23. ASSUME NEW c \in Calls, GenerateThrew(c)
      PROVE  Links'
  BY <1>23 DEF GenerateThrew, WorkerStep
<1>24. ASSUME NEW c \in Calls, CheckRow(c)
      PROVE  Links'
  <2>0. UNCHANGED rowVars
    BY <1>24 DEF CheckRow
  <2>1. ASSUME NEW to \in JobPlaces \ {"none"}, WorkerStep(c, "checking", to) PROVE Links'
    BY <2>0, <2>1 DEF WorkerStep, Base, Links, NotSent, TypeOK
  <2>2. QED BY <1>24, <2>1 DEF CheckRow, JobPlaces, Working
<1>25. ASSUME NEW c \in Calls, StoreDone(c)
      PROVE  Links'
  BY <1>25 DEF StoreDone, WorkerStep
<1>26. ASSUME NEW c \in Calls, StoreFailed(c)
      PROVE  Links'
  BY <1>26 DEF StoreFailed, WorkerStep
<1>27. ASSUME NEW c \in Calls, StoreWithdrawn(c)
      PROVE  Links'
  BY <1>27 DEF StoreWithdrawn, WorkerStep
<1>28. ASSUME NEW s \in Stops, NEW t \in Tasks, CancelRow(s, t)
      PROVE  Links'
  BY <1>28 DEF CancelRow
<1>29. ASSUME NEW s \in Stops, NEW t \in Tasks, CancelJob(s, t)
      PROVE  Links'
  <2> HIDE DEF Base, Links, NotSent, TypeOK, Status, Unsettled, Terminal,
         CallPlaces, Answers, JobPlaces, Working, rowVars, callVars, jobVars,
         stopVars
  <2>1. ASSUME NEW d \in Calls, jobAt[d] = "none" PROVE ~cancelled'[d]
    <3>1. seenJob[s][t] # d
      BY <2>1 DEF Base, Links
    <3>2. ~cancelled[d]
      BY <2>1 DEF Base, Links
    <3>3. cancelled'[d] = (d = seenJob[s][t] \/ cancelled[d])
      BY <1>29 DEF CancelJob
    <3>4. QED BY <3>1, <3>2, <3>3
  <2>2. ASSUME NEW r \in Stops, stopAt[r] # "stopping"
        PROVE  handling'[r] = {} /\ todo[r] = {}
    <3>1. handling[r] = {} /\ todo[r] = {}
      BY <2>2 DEF Base, Links
    <3>2. handling' = [handling EXCEPT ![s] = {}] /\ handling \in [Stops -> SUBSET Tasks]
      BY <1>29 DEF CancelJob, Base, TypeOK
    <3>3. QED BY <3>1, <3>2
  <2>3. UNCHANGED <<callAt, taskOf, answer, jobAt, rowJob, seenJob, stopAt, todo>>
    BY <1>29 DEF CancelJob, rowVars, callVars
  <2>4. QED BY <2>1, <2>2, <2>3 DEF Base, Links
<1> HIDE DEF Base, Links, NotSent, TypeOK, Status, Unsettled, Terminal,
     CallPlaces, Answers, JobPlaces, Working, rowVars, callVars, jobVars,
     stopVars
<1>30. QED
  BY <1>1, <1>2, <1>3, <1>4, <1>5, <1>6, <1>7, <1>8, <1>9, <1>10, <1>11,
     <1>12, <1>13, <1>14, <1>15, <1>16, <1>17, <1>18, <1>19, <1>20,
     <1>21, <1>22, <1>23, <1>24, <1>25, <1>26, <1>27, <1>28, <1>29
  DEF Next, Requests, CallStep, JobStep, StopStep, StopTask, ListTasks

\* The queue is preserved.
LEMMA QueueStep ==
  ASSUME Base, TypeOK', Next
  PROVE  QueueOK'
<1> USE DEF Base, Links, QueueOK, NotSent, TypeOK, Status, Unsettled,
     Terminal, CallPlaces, Answers, JobPlaces, Working, rowVars, callVars,
     jobVars, stopVars
<1>1. ASSUME NEW c \in Calls, NEW t \in Tasks, NEW b \in BOOLEAN,
             InsertTask(c, t, b)
      PROVE  QueueOK'
  BY <1>1 DEF InsertTask
<1>2. ASSUME NEW c \in Calls, NEW t \in Tasks, NEW b \in BOOLEAN,
             ContinueTask(c, t, b)
      PROVE  QueueOK'
  BY <1>2 DEF ContinueTask
<1>3. ASSUME NEW s \in Stops, StopThread(s)
      PROVE  QueueOK'
  BY <1>3 DEF StopThread
<1>4. ASSUME NEW s \in Stops, NEW rows \in SUBSET Tasks,
             stopAt[s] # "stopping", Snapshot(s, rows)
      PROVE  QueueOK'
  BY <1>4 DEF Snapshot
<1>5. ASSUME AbortRun
      PROVE  QueueOK'
  BY <1>5 DEF AbortRun
<1>6. ASSUME StopQueue
      PROVE  QueueOK'
  BY <1>6 DEF StopQueue
<1>7. ASSUME StartJob
      PROVE  QueueOK'
  BY <1>7, HeadWaits DEF StartJob
<1>8. ASSUME NEW c \in Calls, SendJob(c)
      PROVE  QueueOK'
  BY <1>8 DEF SendJob
<1>9. ASSUME NEW c \in Calls, RecordJobId(c)
      PROVE  QueueOK'
  BY <1>9 DEF RecordJobId
<1>10. ASSUME NEW c \in Calls, ReturnSettled(c)
      PROVE  QueueOK'
  BY <1>10 DEF ReturnSettled, Close
<1>11. ASSUME NEW c \in Calls, GiveUp(c)
      PROVE  QueueOK'
  BY <1>11 DEF GiveUp
<1>12. ASSUME NEW c \in Calls, ReturnCancelled(c)
      PROVE  QueueOK'
  BY <1>12 DEF ReturnCancelled, Close
<1>13. ASSUME NEW c \in Calls, InlineGenerated(c)
      PROVE  QueueOK'
  BY <1>13 DEF InlineGenerated
<1>14. ASSUME NEW c \in Calls, InlineThrew(c)
      PROVE  QueueOK'
  BY <1>14 DEF InlineThrew
<1>15. ASSUME NEW c \in Calls, ContinuationThrew(c)
      PROVE  QueueOK'
  BY <1>15 DEF ContinuationThrew, Close
<1>16. ASSUME NEW c \in Calls, StoreInlineDone(c)
      PROVE  QueueOK'
  BY <1>16 DEF StoreInlineDone, Close
<1>17. ASSUME NEW c \in Calls, StoreInlineFailed(c)
      PROVE  QueueOK'
  BY <1>17 DEF StoreInlineFailed, Close
<1>18. ASSUME NEW c \in Calls, Prepare(c)
      PROVE  QueueOK'
  BY <1>18 DEF Prepare, WorkerStep
<1>19. ASSUME NEW c \in Calls, PrepareFails(c)
      PROVE  QueueOK'
  BY <1>19 DEF PrepareFails, WorkerStep
<1>20. ASSUME NEW c \in Calls, ReadRow(c)
      PROVE  QueueOK'
  BY <1>20 DEF ReadRow, WorkerStep
<1>21. ASSUME NEW c \in Calls, MarkRunning(c)
      PROVE  QueueOK'
  BY <1>21 DEF MarkRunning, WorkerStep
<1>22. ASSUME NEW c \in Calls, Generated(c)
      PROVE  QueueOK'
  BY <1>22 DEF Generated, WorkerStep
<1>23. ASSUME NEW c \in Calls, GenerateThrew(c)
      PROVE  QueueOK'
  BY <1>23 DEF GenerateThrew, WorkerStep
<1>24. ASSUME NEW c \in Calls, CheckRow(c)
      PROVE  QueueOK'
  BY <1>24 DEF CheckRow, WorkerStep
<1>25. ASSUME NEW c \in Calls, StoreDone(c)
      PROVE  QueueOK'
  BY <1>25 DEF StoreDone, WorkerStep
<1>26. ASSUME NEW c \in Calls, StoreFailed(c)
      PROVE  QueueOK'
  BY <1>26 DEF StoreFailed, WorkerStep
<1>27. ASSUME NEW c \in Calls, StoreWithdrawn(c)
      PROVE  QueueOK'
  BY <1>27 DEF StoreWithdrawn, WorkerStep
<1>28. ASSUME NEW s \in Stops, NEW t \in Tasks, CancelRow(s, t)
      PROVE  QueueOK'
  BY <1>28 DEF CancelRow
<1>29. ASSUME NEW s \in Stops, NEW t \in Tasks, CancelJob(s, t)
      PROVE  QueueOK'
  BY <1>29 DEF CancelJob
<1> HIDE DEF Base, Links, QueueOK, NotSent, TypeOK, Status, Unsettled,
     Terminal, CallPlaces, Answers, JobPlaces, Working, rowVars, callVars,
     jobVars, stopVars
<1>30. QED
  BY <1>1, <1>2, <1>3, <1>4, <1>5, <1>6, <1>7, <1>8, <1>9, <1>10, <1>11,
     <1>12, <1>13, <1>14, <1>15, <1>16, <1>17, <1>18, <1>19, <1>20,
     <1>21, <1>22, <1>23, <1>24, <1>25, <1>26, <1>27, <1>28, <1>29
  DEF Next, Requests, CallStep, JobStep, StopStep, StopTask, ListTasks

\* What a run produced, and its task, stay.
LEMMA ProducedStays ==
  ASSUME Base, NEW d \in Calls, Produced(d), Next
  PROVE  Produced(d)' /\ taskOf'[d] = taskOf[d]
<1> USE DEF Base, Links, NotSent, TypeOK, Produced, Working, rowVars,
     callVars, jobVars, stopVars
<1>1. ASSUME NEW c \in Calls, NEW t \in Tasks, NEW b \in BOOLEAN,
             InsertTask(c, t, b)
      PROVE  Produced(d)' /\ taskOf'[d] = taskOf[d]
  <2>1. c # d
    BY <1>1 DEF InsertTask
  <2>2. QED BY <1>1, <2>1 DEF InsertTask
<1>2. ASSUME NEW c \in Calls, NEW t \in Tasks, NEW b \in BOOLEAN,
             ContinueTask(c, t, b)
      PROVE  Produced(d)' /\ taskOf'[d] = taskOf[d]
  BY <1>2 DEF ContinueTask
<1>3. ASSUME NEW s \in Stops, StopThread(s)
      PROVE  Produced(d)' /\ taskOf'[d] = taskOf[d]
  BY <1>3 DEF StopThread
<1>4. ASSUME NEW s \in Stops, NEW rows \in SUBSET Tasks,
             stopAt[s] # "stopping", Snapshot(s, rows)
      PROVE  Produced(d)' /\ taskOf'[d] = taskOf[d]
  BY <1>4 DEF Snapshot
<1>5. ASSUME AbortRun
      PROVE  Produced(d)' /\ taskOf'[d] = taskOf[d]
  BY <1>5 DEF AbortRun
<1>6. ASSUME StopQueue
      PROVE  Produced(d)' /\ taskOf'[d] = taskOf[d]
  BY <1>6 DEF StopQueue
<1>7. ASSUME StartJob
      PROVE  Produced(d)' /\ taskOf'[d] = taskOf[d]
  BY <1>7, HeadWaits DEF StartJob
<1>8. ASSUME NEW c \in Calls, SendJob(c)
      PROVE  Produced(d)' /\ taskOf'[d] = taskOf[d]
  BY <1>8 DEF SendJob
<1>9. ASSUME NEW c \in Calls, RecordJobId(c)
      PROVE  Produced(d)' /\ taskOf'[d] = taskOf[d]
  BY <1>9 DEF RecordJobId
<1>10. ASSUME NEW c \in Calls, ReturnSettled(c)
      PROVE  Produced(d)' /\ taskOf'[d] = taskOf[d]
  BY <1>10 DEF ReturnSettled, Close
<1>11. ASSUME NEW c \in Calls, GiveUp(c)
      PROVE  Produced(d)' /\ taskOf'[d] = taskOf[d]
  BY <1>11 DEF GiveUp
<1>12. ASSUME NEW c \in Calls, ReturnCancelled(c)
      PROVE  Produced(d)' /\ taskOf'[d] = taskOf[d]
  BY <1>12 DEF ReturnCancelled, Close
<1>13. ASSUME NEW c \in Calls, InlineGenerated(c)
      PROVE  Produced(d)' /\ taskOf'[d] = taskOf[d]
  BY <1>13 DEF InlineGenerated
<1>14. ASSUME NEW c \in Calls, InlineThrew(c)
      PROVE  Produced(d)' /\ taskOf'[d] = taskOf[d]
  BY <1>14 DEF InlineThrew
<1>15. ASSUME NEW c \in Calls, ContinuationThrew(c)
      PROVE  Produced(d)' /\ taskOf'[d] = taskOf[d]
  <2>1. c # d
    BY <1>15 DEF ContinuationThrew, Close
  <2>2. QED BY <1>15, <2>1 DEF ContinuationThrew, Close
<1>16. ASSUME NEW c \in Calls, StoreInlineDone(c)
      PROVE  Produced(d)' /\ taskOf'[d] = taskOf[d]
  BY <1>16 DEF StoreInlineDone, Close
<1>17. ASSUME NEW c \in Calls, StoreInlineFailed(c)
      PROVE  Produced(d)' /\ taskOf'[d] = taskOf[d]
  <2>1. c # d
    BY <1>17 DEF StoreInlineFailed, Close
  <2>2. QED BY <1>17, <2>1 DEF StoreInlineFailed, Close
<1>18. ASSUME NEW c \in Calls, Prepare(c)
      PROVE  Produced(d)' /\ taskOf'[d] = taskOf[d]
  BY <1>18 DEF Prepare, WorkerStep
<1>19. ASSUME NEW c \in Calls, PrepareFails(c)
      PROVE  Produced(d)' /\ taskOf'[d] = taskOf[d]
  BY <1>19 DEF PrepareFails, WorkerStep
<1>20. ASSUME NEW c \in Calls, ReadRow(c)
      PROVE  Produced(d)' /\ taskOf'[d] = taskOf[d]
  BY <1>20 DEF ReadRow, WorkerStep
<1>21. ASSUME NEW c \in Calls, MarkRunning(c)
      PROVE  Produced(d)' /\ taskOf'[d] = taskOf[d]
  BY <1>21 DEF MarkRunning, WorkerStep
<1>22. ASSUME NEW c \in Calls, Generated(c)
      PROVE  Produced(d)' /\ taskOf'[d] = taskOf[d]
  BY <1>22 DEF Generated, WorkerStep
<1>23. ASSUME NEW c \in Calls, GenerateThrew(c)
      PROVE  Produced(d)' /\ taskOf'[d] = taskOf[d]
  BY <1>23 DEF GenerateThrew, WorkerStep
<1>24. ASSUME NEW c \in Calls, CheckRow(c)
      PROVE  Produced(d)' /\ taskOf'[d] = taskOf[d]
  BY <1>24 DEF CheckRow, WorkerStep
<1>25. ASSUME NEW c \in Calls, StoreDone(c)
      PROVE  Produced(d)' /\ taskOf'[d] = taskOf[d]
  BY <1>25 DEF StoreDone, WorkerStep
<1>26. ASSUME NEW c \in Calls, StoreFailed(c)
      PROVE  Produced(d)' /\ taskOf'[d] = taskOf[d]
  BY <1>26 DEF StoreFailed, WorkerStep
<1>27. ASSUME NEW c \in Calls, StoreWithdrawn(c)
      PROVE  Produced(d)' /\ taskOf'[d] = taskOf[d]
  BY <1>27 DEF StoreWithdrawn, WorkerStep
<1>28. ASSUME NEW s \in Stops, NEW t \in Tasks, CancelRow(s, t)
      PROVE  Produced(d)' /\ taskOf'[d] = taskOf[d]
  BY <1>28 DEF CancelRow
<1>29. ASSUME NEW s \in Stops, NEW t \in Tasks, CancelJob(s, t)
      PROVE  Produced(d)' /\ taskOf'[d] = taskOf[d]
  BY <1>29 DEF CancelJob
<1> HIDE DEF Base, Links, NotSent, TypeOK, Produced, Working, rowVars,
     callVars, jobVars, stopVars
<1>30. QED
  BY <1>1, <1>2, <1>3, <1>4, <1>5, <1>6, <1>7, <1>8, <1>9, <1>10, <1>11,
     <1>12, <1>13, <1>14, <1>15, <1>16, <1>17, <1>18, <1>19, <1>20,
     <1>21, <1>22, <1>23, <1>24, <1>25, <1>26, <1>27, <1>28, <1>29
  DEF Next, Requests, CallStep, JobStep, StopStep, StopTask, ListTasks

\* How a run broke stays as well.
LEMMA BrokeStays ==
  ASSUME Base, NEW d \in Calls, Broke(d), Next
  PROVE  Broke(d)' /\ taskOf'[d] = taskOf[d]
<1> USE DEF Base, Links, NotSent, TypeOK, Broke, Working, rowVars, callVars,
     jobVars, stopVars
<1>1. ASSUME NEW c \in Calls, NEW t \in Tasks, NEW b \in BOOLEAN,
             InsertTask(c, t, b)
      PROVE  Broke(d)' /\ taskOf'[d] = taskOf[d]
  BY <1>1 DEF InsertTask
<1>2. ASSUME NEW c \in Calls, NEW t \in Tasks, NEW b \in BOOLEAN,
             ContinueTask(c, t, b)
      PROVE  Broke(d)' /\ taskOf'[d] = taskOf[d]
  BY <1>2 DEF ContinueTask
<1>3. ASSUME NEW s \in Stops, StopThread(s)
      PROVE  Broke(d)' /\ taskOf'[d] = taskOf[d]
  BY <1>3 DEF StopThread
<1>4. ASSUME NEW s \in Stops, NEW rows \in SUBSET Tasks,
             stopAt[s] # "stopping", Snapshot(s, rows)
      PROVE  Broke(d)' /\ taskOf'[d] = taskOf[d]
  BY <1>4 DEF Snapshot
<1>5. ASSUME AbortRun
      PROVE  Broke(d)' /\ taskOf'[d] = taskOf[d]
  BY <1>5 DEF AbortRun
<1>6. ASSUME StopQueue
      PROVE  Broke(d)' /\ taskOf'[d] = taskOf[d]
  BY <1>6 DEF StopQueue
<1>7. ASSUME StartJob
      PROVE  Broke(d)' /\ taskOf'[d] = taskOf[d]
  BY <1>7, HeadWaits DEF StartJob
<1>8. ASSUME NEW c \in Calls, SendJob(c)
      PROVE  Broke(d)' /\ taskOf'[d] = taskOf[d]
  BY <1>8 DEF SendJob
<1>9. ASSUME NEW c \in Calls, RecordJobId(c)
      PROVE  Broke(d)' /\ taskOf'[d] = taskOf[d]
  BY <1>9 DEF RecordJobId
<1>10. ASSUME NEW c \in Calls, ReturnSettled(c)
      PROVE  Broke(d)' /\ taskOf'[d] = taskOf[d]
  BY <1>10 DEF ReturnSettled, Close
<1>11. ASSUME NEW c \in Calls, GiveUp(c)
      PROVE  Broke(d)' /\ taskOf'[d] = taskOf[d]
  BY <1>11 DEF GiveUp
<1>12. ASSUME NEW c \in Calls, ReturnCancelled(c)
      PROVE  Broke(d)' /\ taskOf'[d] = taskOf[d]
  BY <1>12 DEF ReturnCancelled, Close
<1>13. ASSUME NEW c \in Calls, InlineGenerated(c)
      PROVE  Broke(d)' /\ taskOf'[d] = taskOf[d]
  BY <1>13 DEF InlineGenerated
<1>14. ASSUME NEW c \in Calls, InlineThrew(c)
      PROVE  Broke(d)' /\ taskOf'[d] = taskOf[d]
  BY <1>14 DEF InlineThrew
<1>15. ASSUME NEW c \in Calls, ContinuationThrew(c)
      PROVE  Broke(d)' /\ taskOf'[d] = taskOf[d]
  <2>1. c # d
    BY <1>15 DEF ContinuationThrew, Close
  <2>2. QED BY <1>15, <2>1 DEF ContinuationThrew, Close
<1>16. ASSUME NEW c \in Calls, StoreInlineDone(c)
      PROVE  Broke(d)' /\ taskOf'[d] = taskOf[d]
  <2>1. c # d
    BY <1>16 DEF StoreInlineDone, Close
  <2>2. QED BY <1>16, <2>1 DEF StoreInlineDone, Close
<1>17. ASSUME NEW c \in Calls, StoreInlineFailed(c)
      PROVE  Broke(d)' /\ taskOf'[d] = taskOf[d]
  BY <1>17 DEF StoreInlineFailed, Close
<1>18. ASSUME NEW c \in Calls, Prepare(c)
      PROVE  Broke(d)' /\ taskOf'[d] = taskOf[d]
  BY <1>18 DEF Prepare, WorkerStep
<1>19. ASSUME NEW c \in Calls, PrepareFails(c)
      PROVE  Broke(d)' /\ taskOf'[d] = taskOf[d]
  BY <1>19 DEF PrepareFails, WorkerStep
<1>20. ASSUME NEW c \in Calls, ReadRow(c)
      PROVE  Broke(d)' /\ taskOf'[d] = taskOf[d]
  BY <1>20 DEF ReadRow, WorkerStep
<1>21. ASSUME NEW c \in Calls, MarkRunning(c)
      PROVE  Broke(d)' /\ taskOf'[d] = taskOf[d]
  BY <1>21 DEF MarkRunning, WorkerStep
<1>22. ASSUME NEW c \in Calls, Generated(c)
      PROVE  Broke(d)' /\ taskOf'[d] = taskOf[d]
  BY <1>22 DEF Generated, WorkerStep
<1>23. ASSUME NEW c \in Calls, GenerateThrew(c)
      PROVE  Broke(d)' /\ taskOf'[d] = taskOf[d]
  BY <1>23 DEF GenerateThrew, WorkerStep
<1>24. ASSUME NEW c \in Calls, CheckRow(c)
      PROVE  Broke(d)' /\ taskOf'[d] = taskOf[d]
  BY <1>24 DEF CheckRow, WorkerStep
<1>25. ASSUME NEW c \in Calls, StoreDone(c)
      PROVE  Broke(d)' /\ taskOf'[d] = taskOf[d]
  BY <1>25 DEF StoreDone, WorkerStep
<1>26. ASSUME NEW c \in Calls, StoreFailed(c)
      PROVE  Broke(d)' /\ taskOf'[d] = taskOf[d]
  BY <1>26 DEF StoreFailed, WorkerStep
<1>27. ASSUME NEW c \in Calls, StoreWithdrawn(c)
      PROVE  Broke(d)' /\ taskOf'[d] = taskOf[d]
  BY <1>27 DEF StoreWithdrawn, WorkerStep
<1>28. ASSUME NEW s \in Stops, NEW t \in Tasks, CancelRow(s, t)
      PROVE  Broke(d)' /\ taskOf'[d] = taskOf[d]
  BY <1>28 DEF CancelRow
<1>29. ASSUME NEW s \in Stops, NEW t \in Tasks, CancelJob(s, t)
      PROVE  Broke(d)' /\ taskOf'[d] = taskOf[d]
  BY <1>29 DEF CancelJob
<1> HIDE DEF Base, Links, NotSent, TypeOK, Broke, Working, rowVars,
     callVars, jobVars, stopVars
<1>30. QED
  BY <1>1, <1>2, <1>3, <1>4, <1>5, <1>6, <1>7, <1>8, <1>9, <1>10, <1>11,
     <1>12, <1>13, <1>14, <1>15, <1>16, <1>17, <1>18, <1>19, <1>20,
     <1>21, <1>22, <1>23, <1>24, <1>25, <1>26, <1>27, <1>28, <1>29
  DEF Next, Requests, CallStep, JobStep, StopStep, StopTask, ListTasks

\* Rows and answers hold texts that were produced.
LEMMA ProvenanceStep ==
  ASSUME Base, Base', RowProvenance, AnswerProvenance, Next
  PROVE  RowProvenance' /\ AnswerProvenance'
<1> USE DEF Base, Links, NotSent, TypeOK, RowProvenance, AnswerProvenance,
     rowVars, callVars, jobVars, stopVars
<1>a. \A d \in Calls : Produced(d) => Produced(d)' /\ taskOf'[d] = taskOf[d]
  BY ProducedStays
<1>b. \A d \in Calls : Broke(d) => Broke(d)' /\ taskOf'[d] = taskOf[d]
  BY BrokeStays
<1>1. ASSUME NEW c \in Calls, NEW t \in Tasks, NEW b \in BOOLEAN,
             InsertTask(c, t, b)
      PROVE  RowProvenance' /\ AnswerProvenance'
  BY <1>1, <1>a, <1>b DEF InsertTask
<1>2. ASSUME NEW c \in Calls, NEW t \in Tasks, NEW b \in BOOLEAN,
             ContinueTask(c, t, b)
      PROVE  RowProvenance' /\ AnswerProvenance'
  BY <1>2, <1>a, <1>b DEF ContinueTask
<1>3. ASSUME NEW s \in Stops, StopThread(s)
      PROVE  RowProvenance' /\ AnswerProvenance'
  BY <1>3, <1>a, <1>b DEF StopThread
<1>4. ASSUME NEW s \in Stops, NEW rows \in SUBSET Tasks,
             stopAt[s] # "stopping", Snapshot(s, rows)
      PROVE  RowProvenance' /\ AnswerProvenance'
  BY <1>4, <1>a, <1>b DEF Snapshot
<1>5. ASSUME AbortRun
      PROVE  RowProvenance' /\ AnswerProvenance'
  BY <1>5, <1>a, <1>b DEF AbortRun
<1>6. ASSUME StopQueue
      PROVE  RowProvenance' /\ AnswerProvenance'
  BY <1>6, <1>a, <1>b DEF StopQueue
<1>7. ASSUME StartJob
      PROVE  RowProvenance' /\ AnswerProvenance'
  BY <1>7, <1>a, <1>b DEF StartJob
<1>8. ASSUME NEW c \in Calls, SendJob(c)
      PROVE  RowProvenance' /\ AnswerProvenance'
  BY <1>8, <1>a, <1>b DEF SendJob
<1>9. ASSUME NEW c \in Calls, RecordJobId(c)
      PROVE  RowProvenance' /\ AnswerProvenance'
  BY <1>9, <1>a, <1>b DEF RecordJobId
<1>10. ASSUME NEW c \in Calls, ReturnSettled(c)
      PROVE  RowProvenance' /\ AnswerProvenance'
  BY <1>10, <1>a, <1>b DEF ReturnSettled, Close
<1>11. ASSUME NEW c \in Calls, GiveUp(c)
      PROVE  RowProvenance' /\ AnswerProvenance'
  BY <1>11, <1>a, <1>b DEF GiveUp
<1>12. ASSUME NEW c \in Calls, ReturnCancelled(c)
      PROVE  RowProvenance' /\ AnswerProvenance'
  BY <1>12, <1>a, <1>b DEF ReturnCancelled, Close
<1>13. ASSUME NEW c \in Calls, InlineGenerated(c)
      PROVE  RowProvenance' /\ AnswerProvenance'
  BY <1>13, <1>a, <1>b DEF InlineGenerated
<1>14. ASSUME NEW c \in Calls, InlineThrew(c)
      PROVE  RowProvenance' /\ AnswerProvenance'
  BY <1>14, <1>a, <1>b DEF InlineThrew
<1>15. ASSUME NEW c \in Calls, ContinuationThrew(c)
      PROVE  RowProvenance' /\ AnswerProvenance'
  BY <1>15, <1>a, <1>b DEF ContinuationThrew, Close
<1>16. ASSUME NEW c \in Calls, StoreInlineDone(c)
      PROVE  RowProvenance' /\ AnswerProvenance'
  <2>1. Produced(c)'
    BY <1>16 DEF StoreInlineDone, Close, Produced
  <2>2. QED BY <1>16, <1>a, <1>b, <2>1 DEF StoreInlineDone, Close
<1>17. ASSUME NEW c \in Calls, StoreInlineFailed(c)
      PROVE  RowProvenance' /\ AnswerProvenance'
  <2>1. Broke(c)'
    BY <1>17 DEF StoreInlineFailed, Close, Broke
  <2>2. QED BY <1>17, <1>a, <1>b, <2>1 DEF StoreInlineFailed, Close
<1>18. ASSUME NEW c \in Calls, Prepare(c)
      PROVE  RowProvenance' /\ AnswerProvenance'
  BY <1>18, <1>a, <1>b DEF Prepare, WorkerStep
<1>19. ASSUME NEW c \in Calls, PrepareFails(c)
      PROVE  RowProvenance' /\ AnswerProvenance'
  BY <1>19, <1>a, <1>b DEF PrepareFails, WorkerStep
<1>20. ASSUME NEW c \in Calls, ReadRow(c)
      PROVE  RowProvenance' /\ AnswerProvenance'
  BY <1>20, <1>a, <1>b DEF ReadRow, WorkerStep
<1>21. ASSUME NEW c \in Calls, MarkRunning(c)
      PROVE  RowProvenance' /\ AnswerProvenance'
  BY <1>21, <1>a, <1>b DEF MarkRunning, WorkerStep
<1>22. ASSUME NEW c \in Calls, Generated(c)
      PROVE  RowProvenance' /\ AnswerProvenance'
  BY <1>22, <1>a, <1>b DEF Generated, WorkerStep
<1>23. ASSUME NEW c \in Calls, GenerateThrew(c)
      PROVE  RowProvenance' /\ AnswerProvenance'
  BY <1>23, <1>a, <1>b DEF GenerateThrew, WorkerStep
<1>24. ASSUME NEW c \in Calls, CheckRow(c)
      PROVE  RowProvenance' /\ AnswerProvenance'
  BY <1>24, <1>a, <1>b DEF CheckRow, WorkerStep
<1>25. ASSUME NEW c \in Calls, StoreDone(c)
      PROVE  RowProvenance' /\ AnswerProvenance'
  <2>1. Produced(c)'
    BY <1>25 DEF StoreDone, WorkerStep, Produced
  <2>2. QED BY <1>25, <1>a, <1>b, <2>1 DEF StoreDone, WorkerStep
<1>26. ASSUME NEW c \in Calls, StoreFailed(c)
      PROVE  RowProvenance' /\ AnswerProvenance'
  <2>1. Broke(c)'
    BY <1>26 DEF StoreFailed, WorkerStep, Broke
  <2>2. QED BY <1>26, <1>a, <1>b, <2>1 DEF StoreFailed, WorkerStep
<1>27. ASSUME NEW c \in Calls, StoreWithdrawn(c)
      PROVE  RowProvenance' /\ AnswerProvenance'
  BY <1>27, <1>a, <1>b DEF StoreWithdrawn, WorkerStep
<1>28. ASSUME NEW s \in Stops, NEW t \in Tasks, CancelRow(s, t)
      PROVE  RowProvenance' /\ AnswerProvenance'
  BY <1>28, <1>a, <1>b DEF CancelRow
<1>29. ASSUME NEW s \in Stops, NEW t \in Tasks, CancelJob(s, t)
      PROVE  RowProvenance' /\ AnswerProvenance'
  BY <1>29, <1>a, <1>b DEF CancelJob
<1> HIDE DEF Base, Links, NotSent, TypeOK, RowProvenance, AnswerProvenance,
     rowVars, callVars, jobVars, stopVars
<1>30. QED
  BY <1>1, <1>2, <1>3, <1>4, <1>5, <1>6, <1>7, <1>8, <1>9, <1>10, <1>11,
     <1>12, <1>13, <1>14, <1>15, <1>16, <1>17, <1>18, <1>19, <1>20,
     <1>21, <1>22, <1>23, <1>24, <1>25, <1>26, <1>27, <1>28, <1>29
  DEF Next, Requests, CallStep, JobStep, StopStep, StopTask, ListTasks

\* Workers stay supervised.
LEMMA SupervisedStep ==
  ASSUME Base, Base', RowProvenance, Supervised, Next
  PROVE  Supervised'
<1> USE DEF Base, Links, NotSent, TypeOK, Supervised, NoUnsupervisedWorker,
     Working, rowVars, callVars, jobVars, stopVars
<1>1. ASSUME NEW c \in Calls, NEW t \in Tasks, NEW b \in BOOLEAN,
             InsertTask(c, t, b)
      PROVE  Supervised'
  BY <1>1 DEF InsertTask
<1>2. ASSUME NEW c \in Calls, NEW t \in Tasks, NEW b \in BOOLEAN,
             ContinueTask(c, t, b)
      PROVE  Supervised'
  BY <1>2 DEF ContinueTask
<1>3. ASSUME NEW s \in Stops, StopThread(s)
      PROVE  Supervised'
  BY <1>3 DEF StopThread
<1>4. ASSUME NEW s \in Stops, NEW rows \in SUBSET Tasks,
             stopAt[s] # "stopping", Snapshot(s, rows)
      PROVE  Supervised'
  BY <1>4 DEF Snapshot
<1>5. ASSUME AbortRun
      PROVE  Supervised'
  BY <1>5 DEF AbortRun
<1>6. ASSUME StopQueue
      PROVE  Supervised'
  BY <1>6 DEF StopQueue
<1>7. ASSUME StartJob
      PROVE  Supervised'
  BY <1>7, HeadWaits DEF StartJob
<1>8. ASSUME NEW c \in Calls, SendJob(c)
      PROVE  Supervised'
  BY <1>8 DEF SendJob
<1>9. ASSUME NEW c \in Calls, RecordJobId(c)
      PROVE  Supervised'
  BY <1>9 DEF RecordJobId
<1>10. ASSUME NEW c \in Calls, ReturnSettled(c)
      PROVE  Supervised'
  <2>1. result[taskOf[c]] \in Calls /\ jobAt[result[taskOf[c]]] \notin Working \cup {"waiting"}
    BY <1>10 DEF ReturnSettled, RowProvenance, Produced, Broke
  <2>2. ASSUME jobAt[c] \in Working \cup {"waiting"} PROVE answerOf'[c] \notin {c, None}
    BY <1>10, <2>1, <2>2, NoneAssumption DEF ReturnSettled, Close
  <2>3. QED BY <1>10, <2>2 DEF ReturnSettled, Close
<1>11. ASSUME NEW c \in Calls, GiveUp(c)
      PROVE  Supervised'
  BY <1>11 DEF GiveUp
<1>12. ASSUME NEW c \in Calls, ReturnCancelled(c)
      PROVE  Supervised'
  BY <1>12 DEF ReturnCancelled, Close
<1>13. ASSUME NEW c \in Calls, InlineGenerated(c)
      PROVE  Supervised'
  BY <1>13 DEF InlineGenerated
<1>14. ASSUME NEW c \in Calls, InlineThrew(c)
      PROVE  Supervised'
  BY <1>14 DEF InlineThrew
<1>15. ASSUME NEW c \in Calls, ContinuationThrew(c)
      PROVE  Supervised'
  BY <1>15 DEF ContinuationThrew, Close
<1>16. ASSUME NEW c \in Calls, StoreInlineDone(c)
      PROVE  Supervised'
  BY <1>16 DEF StoreInlineDone, Close
<1>17. ASSUME NEW c \in Calls, StoreInlineFailed(c)
      PROVE  Supervised'
  BY <1>17 DEF StoreInlineFailed, Close
<1>18. ASSUME NEW c \in Calls, Prepare(c)
      PROVE  Supervised'
  BY <1>18 DEF Prepare, WorkerStep
<1>19. ASSUME NEW c \in Calls, PrepareFails(c)
      PROVE  Supervised'
  BY <1>19 DEF PrepareFails, WorkerStep
<1>20. ASSUME NEW c \in Calls, ReadRow(c)
      PROVE  Supervised'
  BY <1>20 DEF ReadRow, WorkerStep
<1>21. ASSUME NEW c \in Calls, MarkRunning(c)
      PROVE  Supervised'
  BY <1>21 DEF MarkRunning, WorkerStep
<1>22. ASSUME NEW c \in Calls, Generated(c)
      PROVE  Supervised'
  BY <1>22 DEF Generated, WorkerStep
<1>23. ASSUME NEW c \in Calls, GenerateThrew(c)
      PROVE  Supervised'
  BY <1>23 DEF GenerateThrew, WorkerStep
<1>24. ASSUME NEW c \in Calls, CheckRow(c)
      PROVE  Supervised'
  BY <1>24 DEF CheckRow, WorkerStep
<1>25. ASSUME NEW c \in Calls, StoreDone(c)
      PROVE  Supervised'
  BY <1>25 DEF StoreDone, WorkerStep
<1>26. ASSUME NEW c \in Calls, StoreFailed(c)
      PROVE  Supervised'
  BY <1>26 DEF StoreFailed, WorkerStep
<1>27. ASSUME NEW c \in Calls, StoreWithdrawn(c)
      PROVE  Supervised'
  BY <1>27 DEF StoreWithdrawn, WorkerStep
<1>28. ASSUME NEW s \in Stops, NEW t \in Tasks, CancelRow(s, t)
      PROVE  Supervised'
  BY <1>28 DEF CancelRow
<1>29. ASSUME NEW s \in Stops, NEW t \in Tasks, CancelJob(s, t)
      PROVE  Supervised'
  BY <1>29 DEF CancelJob
<1> HIDE DEF Base, Links, NotSent, TypeOK, Supervised, NoUnsupervisedWorker,
     Working, rowVars, callVars, jobVars, stopVars
<1>30. QED
  BY <1>1, <1>2, <1>3, <1>4, <1>5, <1>6, <1>7, <1>8, <1>9, <1>10, <1>11,
     <1>12, <1>13, <1>14, <1>15, <1>16, <1>17, <1>18, <1>19, <1>20,
     <1>21, <1>22, <1>23, <1>24, <1>25, <1>26, <1>27, <1>28, <1>29
  DEF Next, Requests, CallStep, JobStep, StopStep, StopTask, ListTasks

\* A stranded task stays stranded.
LEMMA StrandedStays ==
  ASSUME Base, NEW t0 \in Tasks, Stranded(t0), Next
  PROVE  Stranded(t0)'
<1> USE DEF Base, Links, NotSent, TypeOK, Stranded, Working, rowVars,
     callVars, jobVars, stopVars
<1>1. ASSUME NEW c \in Calls, NEW t \in Tasks, NEW b \in BOOLEAN,
             InsertTask(c, t, b)
      PROVE  Stranded(t0)'
  BY <1>1 DEF InsertTask
<1>2. ASSUME NEW c \in Calls, NEW t \in Tasks, NEW b \in BOOLEAN,
             ContinueTask(c, t, b)
      PROVE  Stranded(t0)'
  <2>1. ASSUME NEW d \in Calls, taskOf[d] = t0, jobAt[d] = "crashed" \/ answer[d] = "escaped"
        PROVE  taskOf'[d] = t0 /\ (jobAt'[d] = "crashed" \/ answer'[d] = "escaped")
    <3>1. CASE c = d
      BY <1>2, <2>1, <3>1 DEF ContinueTask
    <3>2. CASE c # d
      BY <1>2, <2>1, <3>2 DEF ContinueTask
    <3>3. QED BY <3>1, <3>2
  <2>2. QED BY <1>2, <2>1 DEF ContinueTask
<1>3. ASSUME NEW s \in Stops, StopThread(s)
      PROVE  Stranded(t0)'
  BY <1>3 DEF StopThread
<1>4. ASSUME NEW s \in Stops, NEW rows \in SUBSET Tasks,
             stopAt[s] # "stopping", Snapshot(s, rows)
      PROVE  Stranded(t0)'
  BY <1>4 DEF Snapshot
<1>5. ASSUME AbortRun
      PROVE  Stranded(t0)'
  BY <1>5 DEF AbortRun
<1>6. ASSUME StopQueue
      PROVE  Stranded(t0)'
  BY <1>6 DEF StopQueue
<1>7. ASSUME StartJob
      PROVE  Stranded(t0)'
  BY <1>7, HeadWaits DEF StartJob
<1>8. ASSUME NEW c \in Calls, SendJob(c)
      PROVE  Stranded(t0)'
  BY <1>8 DEF SendJob
<1>9. ASSUME NEW c \in Calls, RecordJobId(c)
      PROVE  Stranded(t0)'
  BY <1>9 DEF RecordJobId
<1>10. ASSUME NEW c \in Calls, ReturnSettled(c)
      PROVE  Stranded(t0)'
  BY <1>10 DEF ReturnSettled, Close
<1>11. ASSUME NEW c \in Calls, GiveUp(c)
      PROVE  Stranded(t0)'
  BY <1>11 DEF GiveUp
<1>12. ASSUME NEW c \in Calls, ReturnCancelled(c)
      PROVE  Stranded(t0)'
  <2>1. ASSUME NEW d \in Calls, taskOf[d] = t0, jobAt[d] = "crashed" \/ answer[d] = "escaped"
        PROVE  taskOf'[d] = t0 /\ (jobAt'[d] = "crashed" \/ answer'[d] = "escaped")
    <3>1. CASE c = d
      BY <1>12, <2>1, <3>1 DEF ReturnCancelled, Close
    <3>2. CASE c # d
      BY <1>12, <2>1, <3>2 DEF ReturnCancelled, Close
    <3>3. QED BY <3>1, <3>2
  <2>2. QED BY <1>12, <2>1 DEF ReturnCancelled, Close
<1>13. ASSUME NEW c \in Calls, InlineGenerated(c)
      PROVE  Stranded(t0)'
  BY <1>13 DEF InlineGenerated
<1>14. ASSUME NEW c \in Calls, InlineThrew(c)
      PROVE  Stranded(t0)'
  BY <1>14 DEF InlineThrew
<1>15. ASSUME NEW c \in Calls, ContinuationThrew(c)
      PROVE  Stranded(t0)'
  BY <1>15 DEF ContinuationThrew, Close
<1>16. ASSUME NEW c \in Calls, StoreInlineDone(c)
      PROVE  Stranded(t0)'
  BY <1>16 DEF StoreInlineDone, Close
<1>17. ASSUME NEW c \in Calls, StoreInlineFailed(c)
      PROVE  Stranded(t0)'
  BY <1>17 DEF StoreInlineFailed, Close
<1>18. ASSUME NEW c \in Calls, Prepare(c)
      PROVE  Stranded(t0)'
  BY <1>18 DEF Prepare, WorkerStep
<1>19. ASSUME NEW c \in Calls, PrepareFails(c)
      PROVE  Stranded(t0)'
  BY <1>19 DEF PrepareFails, WorkerStep
<1>20. ASSUME NEW c \in Calls, ReadRow(c)
      PROVE  Stranded(t0)'
  BY <1>20 DEF ReadRow, WorkerStep
<1>21. ASSUME NEW c \in Calls, MarkRunning(c)
      PROVE  Stranded(t0)'
  BY <1>21 DEF MarkRunning, WorkerStep
<1>22. ASSUME NEW c \in Calls, Generated(c)
      PROVE  Stranded(t0)'
  BY <1>22 DEF Generated, WorkerStep
<1>23. ASSUME NEW c \in Calls, GenerateThrew(c)
      PROVE  Stranded(t0)'
  BY <1>23 DEF GenerateThrew, WorkerStep
<1>24. ASSUME NEW c \in Calls, CheckRow(c)
      PROVE  Stranded(t0)'
  BY <1>24 DEF CheckRow, WorkerStep
<1>25. ASSUME NEW c \in Calls, StoreDone(c)
      PROVE  Stranded(t0)'
  BY <1>25 DEF StoreDone, WorkerStep
<1>26. ASSUME NEW c \in Calls, StoreFailed(c)
      PROVE  Stranded(t0)'
  BY <1>26 DEF StoreFailed, WorkerStep
<1>27. ASSUME NEW c \in Calls, StoreWithdrawn(c)
      PROVE  Stranded(t0)'
  BY <1>27 DEF StoreWithdrawn, WorkerStep
<1>28. ASSUME NEW s \in Stops, NEW t \in Tasks, CancelRow(s, t)
      PROVE  Stranded(t0)'
  BY <1>28 DEF CancelRow
<1>29. ASSUME NEW s \in Stops, NEW t \in Tasks, CancelJob(s, t)
      PROVE  Stranded(t0)'
  BY <1>29 DEF CancelJob
<1> HIDE DEF Base, Links, NotSent, TypeOK, Stranded, Working, rowVars,
     callVars, jobVars, stopVars
<1>30. QED
  BY <1>1, <1>2, <1>3, <1>4, <1>5, <1>6, <1>7, <1>8, <1>9, <1>10, <1>11,
     <1>12, <1>13, <1>14, <1>15, <1>16, <1>17, <1>18, <1>19, <1>20,
     <1>21, <1>22, <1>23, <1>24, <1>25, <1>26, <1>27, <1>28, <1>29
  DEF Next, Requests, CallStep, JobStep, StopStep, StopTask, ListTasks

\* An owner stays one until it settles the row or strands it.
LEMMA OwnerStays ==
  ASSUME Base, Base', NEW t0 \in Tasks, NEW d \in Calls, Owns(d, t0), Next
  PROVE  Owns(d, t0)' \/ Stranded(t0)' \/ status'[t0] \notin Unsettled
<1>a. \A s \in Stops, t \in Tasks, c \in Calls :
        seenJob[s][t] = c => taskOf[c] = t /\ jobAt[c] # "none"
  BY SeenJobs
<1> USE DEF Base, Links, NotSent, TypeOK, Owns, Working, Unsettled, rowVars,
     callVars, jobVars, stopVars
<1>1. ASSUME NEW c \in Calls, NEW t \in Tasks, NEW b \in BOOLEAN,
             InsertTask(c, t, b)
      PROVE  Owns(d, t0)' \/ Stranded(t0)' \/ status'[t0] \notin Unsettled
  BY <1>1 DEF InsertTask
<1>2. ASSUME NEW c \in Calls, NEW t \in Tasks, NEW b \in BOOLEAN,
             ContinueTask(c, t, b)
      PROVE  Owns(d, t0)' \/ Stranded(t0)' \/ status'[t0] \notin Unsettled
  BY <1>2 DEF ContinueTask
<1>3. ASSUME NEW s \in Stops, StopThread(s)
      PROVE  Owns(d, t0)' \/ Stranded(t0)' \/ status'[t0] \notin Unsettled
  BY <1>3 DEF StopThread
<1>4. ASSUME NEW s \in Stops, NEW rows \in SUBSET Tasks,
             stopAt[s] # "stopping", Snapshot(s, rows)
      PROVE  Owns(d, t0)' \/ Stranded(t0)' \/ status'[t0] \notin Unsettled
  BY <1>4 DEF Snapshot
<1>5. ASSUME AbortRun
      PROVE  Owns(d, t0)' \/ Stranded(t0)' \/ status'[t0] \notin Unsettled
  BY <1>5 DEF AbortRun
<1>6. ASSUME StopQueue
      PROVE  Owns(d, t0)' \/ Stranded(t0)' \/ status'[t0] \notin Unsettled
  BY <1>6 DEF StopQueue, Stranded
<1>7. ASSUME StartJob
      PROVE  Owns(d, t0)' \/ Stranded(t0)' \/ status'[t0] \notin Unsettled
  BY <1>7, HeadWaits DEF StartJob
<1>8. ASSUME NEW c \in Calls, SendJob(c)
      PROVE  Owns(d, t0)' \/ Stranded(t0)' \/ status'[t0] \notin Unsettled
  <2>0. jobAt[c] = "none" /\ ~cancelled[c]
    BY <1>8 DEF SendJob
  <2>1. \A s \in Stops : seenJob[s][t0] # c
    <3> HIDE DEF Base, Owns
    <3>1. QED BY <2>0, <1>a
  <2>2. CASE c = d
    <3>1. jobAt'[d] = "waiting" /\ ~cancelled'[d] /\ UNCHANGED <<taskOf, seenJob>>
      BY <1>8, <2>0, <2>2 DEF SendJob
    <3>2. QED BY <2>1, <2>2, <3>1
  <2>3. CASE c # d
    <3>1. jobAt'[d] = jobAt[d] /\ callAt'[d] = callAt[d]
          /\ UNCHANGED <<taskOf, cancelled, handling, seenJob>>
      BY <1>8, <2>3 DEF SendJob
    <3>2. QED BY <3>1
  <2>4. QED BY <2>2, <2>3
<1>9. ASSUME NEW c \in Calls, RecordJobId(c)
      PROVE  Owns(d, t0)' \/ Stranded(t0)' \/ status'[t0] \notin Unsettled
  BY <1>9 DEF RecordJobId
<1>10. ASSUME NEW c \in Calls, ReturnSettled(c)
      PROVE  Owns(d, t0)' \/ Stranded(t0)' \/ status'[t0] \notin Unsettled
  BY <1>10 DEF ReturnSettled, Close
<1>11. ASSUME NEW c \in Calls, GiveUp(c)
      PROVE  Owns(d, t0)' \/ Stranded(t0)' \/ status'[t0] \notin Unsettled
  BY <1>11 DEF GiveUp
<1>12. ASSUME NEW c \in Calls, ReturnCancelled(c)
      PROVE  Owns(d, t0)' \/ Stranded(t0)' \/ status'[t0] \notin Unsettled
  BY <1>12 DEF ReturnCancelled, Close
<1>13. ASSUME NEW c \in Calls, InlineGenerated(c)
      PROVE  Owns(d, t0)' \/ Stranded(t0)' \/ status'[t0] \notin Unsettled
  BY <1>13 DEF InlineGenerated
<1>14. ASSUME NEW c \in Calls, InlineThrew(c)
      PROVE  Owns(d, t0)' \/ Stranded(t0)' \/ status'[t0] \notin Unsettled
  BY <1>14 DEF InlineThrew
<1>15. ASSUME NEW c \in Calls, ContinuationThrew(c)
      PROVE  Owns(d, t0)' \/ Stranded(t0)' \/ status'[t0] \notin Unsettled
  BY <1>15 DEF ContinuationThrew, Close, Stranded
<1>16. ASSUME NEW c \in Calls, StoreInlineDone(c)
      PROVE  Owns(d, t0)' \/ Stranded(t0)' \/ status'[t0] \notin Unsettled
  BY <1>16 DEF StoreInlineDone, Close
<1>17. ASSUME NEW c \in Calls, StoreInlineFailed(c)
      PROVE  Owns(d, t0)' \/ Stranded(t0)' \/ status'[t0] \notin Unsettled
  BY <1>17 DEF StoreInlineFailed, Close
<1>18. ASSUME NEW c \in Calls, Prepare(c)
      PROVE  Owns(d, t0)' \/ Stranded(t0)' \/ status'[t0] \notin Unsettled
  BY <1>18 DEF Prepare, WorkerStep
<1>19. ASSUME NEW c \in Calls, PrepareFails(c)
      PROVE  Owns(d, t0)' \/ Stranded(t0)' \/ status'[t0] \notin Unsettled
  BY <1>19 DEF PrepareFails, WorkerStep, Stranded
<1>20. ASSUME NEW c \in Calls, ReadRow(c)
      PROVE  Owns(d, t0)' \/ Stranded(t0)' \/ status'[t0] \notin Unsettled
  BY <1>20 DEF ReadRow, WorkerStep
<1>21. ASSUME NEW c \in Calls, MarkRunning(c)
      PROVE  Owns(d, t0)' \/ Stranded(t0)' \/ status'[t0] \notin Unsettled
  BY <1>21 DEF MarkRunning, WorkerStep
<1>22. ASSUME NEW c \in Calls, Generated(c)
      PROVE  Owns(d, t0)' \/ Stranded(t0)' \/ status'[t0] \notin Unsettled
  BY <1>22 DEF Generated, WorkerStep
<1>23. ASSUME NEW c \in Calls, GenerateThrew(c)
      PROVE  Owns(d, t0)' \/ Stranded(t0)' \/ status'[t0] \notin Unsettled
  BY <1>23 DEF GenerateThrew, WorkerStep
<1>24. ASSUME NEW c \in Calls, CheckRow(c)
      PROVE  Owns(d, t0)' \/ Stranded(t0)' \/ status'[t0] \notin Unsettled
  BY <1>24 DEF CheckRow, WorkerStep
<1>25. ASSUME NEW c \in Calls, StoreDone(c)
      PROVE  Owns(d, t0)' \/ Stranded(t0)' \/ status'[t0] \notin Unsettled
  BY <1>25 DEF StoreDone, WorkerStep
<1>26. ASSUME NEW c \in Calls, StoreFailed(c)
      PROVE  Owns(d, t0)' \/ Stranded(t0)' \/ status'[t0] \notin Unsettled
  BY <1>26 DEF StoreFailed, WorkerStep
<1>27. ASSUME NEW c \in Calls, StoreWithdrawn(c)
      PROVE  Owns(d, t0)' \/ Stranded(t0)' \/ status'[t0] \notin Unsettled
  BY <1>27 DEF StoreWithdrawn, WorkerStep
<1>28. ASSUME NEW s \in Stops, NEW t \in Tasks, CancelRow(s, t)
      PROVE  Owns(d, t0)' \/ Stranded(t0)' \/ status'[t0] \notin Unsettled
  BY <1>28 DEF CancelRow
<1>29. ASSUME NEW s \in Stops, NEW t \in Tasks, CancelJob(s, t)
      PROVE  Owns(d, t0)' \/ Stranded(t0)' \/ status'[t0] \notin Unsettled
  <2>1. UNCHANGED <<taskOf, callAt, jobAt, seenJob>>
    BY <1>29 DEF CancelJob
  <2>2. ASSUME ~cancelled[d], \A r \in Stops : t0 \in handling[r] => seenJob[r][t0] # d
        PROVE  ~cancelled'[d] /\ \A r \in Stops : t0 \in handling'[r] => seenJob[r][t0] # d
    <3>1. seenJob[s][t] # d
      <4>1. t \in handling[s] /\ taskOf[d] = t0 /\ Links
        BY <1>29 DEF CancelJob
      <4>2. CASE t = t0
        BY <2>2, <4>1, <4>2
      <4>3. CASE t # t0
        <5> HIDE DEF Base, Owns
        <5>1. seenJob[s][t] = d => taskOf[d] = t
          BY <1>a
        <5>2. QED BY <4>1, <4>3, <5>1
      <4>4. QED BY <4>2, <4>3
    <3>2. cancelled'[d] = (d = seenJob[s][t] \/ cancelled[d])
      BY <1>29 DEF CancelJob
    <3>3. \A r \in Stops : handling'[r] \subseteq handling[r]
      BY <1>29 DEF CancelJob
    <3>4. QED BY <2>2, <3>1, <3>2, <3>3
  <2>3. QED BY <2>1, <2>2
<1> HIDE DEF Base, Links, NotSent, TypeOK, Owns, Working, Unsettled,
     rowVars, callVars, jobVars, stopVars
<1>30. QED
  BY <1>1, <1>2, <1>3, <1>4, <1>5, <1>6, <1>7, <1>8, <1>9, <1>10, <1>11,
     <1>12, <1>13, <1>14, <1>15, <1>16, <1>17, <1>18, <1>19, <1>20,
     <1>21, <1>22, <1>23, <1>24, <1>25, <1>26, <1>27, <1>28, <1>29
  DEF Next, Requests, CallStep, JobStep, StopStep, StopTask, ListTasks

\* Who makes a row unsettled owns it.
LEMMA OwnerAppears ==
  ASSUME Base, Base', NEW t0 \in Tasks, status[t0] \notin Unsettled,
         status'[t0] \in Unsettled, Next
  PROVE  \E d \in Calls : Owns(d, t0)'
<1> USE DEF Base, Links, NotSent, TypeOK, Owns, Working, Unsettled, rowVars,
     callVars, jobVars, stopVars
<1>1. ASSUME NEW c \in Calls, NEW t \in Tasks, NEW b \in BOOLEAN,
             InsertTask(c, t, b)
      PROVE  \E d \in Calls : Owns(d, t0)'
  BY <1>1 DEF InsertTask
<1>2. ASSUME NEW c \in Calls, NEW t \in Tasks, NEW b \in BOOLEAN,
             ContinueTask(c, t, b)
      PROVE  \E d \in Calls : Owns(d, t0)'
  BY <1>2 DEF ContinueTask
<1>3. ASSUME NEW s \in Stops, StopThread(s)
      PROVE  \E d \in Calls : Owns(d, t0)'
  BY <1>3 DEF StopThread
<1>4. ASSUME NEW s \in Stops, NEW rows \in SUBSET Tasks,
             stopAt[s] # "stopping", Snapshot(s, rows)
      PROVE  \E d \in Calls : Owns(d, t0)'
  BY <1>4 DEF Snapshot
<1>5. ASSUME AbortRun
      PROVE  \E d \in Calls : Owns(d, t0)'
  BY <1>5 DEF AbortRun
<1>6. ASSUME StopQueue
      PROVE  \E d \in Calls : Owns(d, t0)'
  BY <1>6 DEF StopQueue
<1>7. ASSUME StartJob
      PROVE  \E d \in Calls : Owns(d, t0)'
  BY <1>7, HeadWaits DEF StartJob
<1>8. ASSUME NEW c \in Calls, SendJob(c)
      PROVE  \E d \in Calls : Owns(d, t0)'
  BY <1>8 DEF SendJob
<1>9. ASSUME NEW c \in Calls, RecordJobId(c)
      PROVE  \E d \in Calls : Owns(d, t0)'
  BY <1>9 DEF RecordJobId
<1>10. ASSUME NEW c \in Calls, ReturnSettled(c)
      PROVE  \E d \in Calls : Owns(d, t0)'
  BY <1>10 DEF ReturnSettled, Close
<1>11. ASSUME NEW c \in Calls, GiveUp(c)
      PROVE  \E d \in Calls : Owns(d, t0)'
  BY <1>11 DEF GiveUp
<1>12. ASSUME NEW c \in Calls, ReturnCancelled(c)
      PROVE  \E d \in Calls : Owns(d, t0)'
  BY <1>12 DEF ReturnCancelled, Close
<1>13. ASSUME NEW c \in Calls, InlineGenerated(c)
      PROVE  \E d \in Calls : Owns(d, t0)'
  BY <1>13 DEF InlineGenerated
<1>14. ASSUME NEW c \in Calls, InlineThrew(c)
      PROVE  \E d \in Calls : Owns(d, t0)'
  BY <1>14 DEF InlineThrew
<1>15. ASSUME NEW c \in Calls, ContinuationThrew(c)
      PROVE  \E d \in Calls : Owns(d, t0)'
  BY <1>15 DEF ContinuationThrew, Close
<1>16. ASSUME NEW c \in Calls, StoreInlineDone(c)
      PROVE  \E d \in Calls : Owns(d, t0)'
  BY <1>16 DEF StoreInlineDone, Close
<1>17. ASSUME NEW c \in Calls, StoreInlineFailed(c)
      PROVE  \E d \in Calls : Owns(d, t0)'
  BY <1>17 DEF StoreInlineFailed, Close
<1>18. ASSUME NEW c \in Calls, Prepare(c)
      PROVE  \E d \in Calls : Owns(d, t0)'
  BY <1>18 DEF Prepare, WorkerStep
<1>19. ASSUME NEW c \in Calls, PrepareFails(c)
      PROVE  \E d \in Calls : Owns(d, t0)'
  BY <1>19 DEF PrepareFails, WorkerStep
<1>20. ASSUME NEW c \in Calls, ReadRow(c)
      PROVE  \E d \in Calls : Owns(d, t0)'
  BY <1>20 DEF ReadRow, WorkerStep
<1>21. ASSUME NEW c \in Calls, MarkRunning(c)
      PROVE  \E d \in Calls : Owns(d, t0)'
  BY <1>21 DEF MarkRunning, WorkerStep
<1>22. ASSUME NEW c \in Calls, Generated(c)
      PROVE  \E d \in Calls : Owns(d, t0)'
  BY <1>22 DEF Generated, WorkerStep
<1>23. ASSUME NEW c \in Calls, GenerateThrew(c)
      PROVE  \E d \in Calls : Owns(d, t0)'
  BY <1>23 DEF GenerateThrew, WorkerStep
<1>24. ASSUME NEW c \in Calls, CheckRow(c)
      PROVE  \E d \in Calls : Owns(d, t0)'
  BY <1>24 DEF CheckRow, WorkerStep
<1>25. ASSUME NEW c \in Calls, StoreDone(c)
      PROVE  \E d \in Calls : Owns(d, t0)'
  BY <1>25 DEF StoreDone, WorkerStep
<1>26. ASSUME NEW c \in Calls, StoreFailed(c)
      PROVE  \E d \in Calls : Owns(d, t0)'
  BY <1>26 DEF StoreFailed, WorkerStep
<1>27. ASSUME NEW c \in Calls, StoreWithdrawn(c)
      PROVE  \E d \in Calls : Owns(d, t0)'
  BY <1>27 DEF StoreWithdrawn, WorkerStep
<1>28. ASSUME NEW s \in Stops, NEW t \in Tasks, CancelRow(s, t)
      PROVE  \E d \in Calls : Owns(d, t0)'
  BY <1>28 DEF CancelRow
<1>29. ASSUME NEW s \in Stops, NEW t \in Tasks, CancelJob(s, t)
      PROVE  \E d \in Calls : Owns(d, t0)'
  BY <1>29 DEF CancelJob
<1> HIDE DEF Base, Links, NotSent, TypeOK, Owns, Working, Unsettled,
     rowVars, callVars, jobVars, stopVars
<1>30. QED
  BY <1>1, <1>2, <1>3, <1>4, <1>5, <1>6, <1>7, <1>8, <1>9, <1>10, <1>11,
     <1>12, <1>13, <1>14, <1>15, <1>16, <1>17, <1>18, <1>19, <1>20,
     <1>21, <1>22, <1>23, <1>24, <1>25, <1>26, <1>27, <1>28, <1>29
  DEF Next, Requests, CallStep, JobStep, StopStep, StopTask, ListTasks


\* Every unsettled row keeps an owner, or is stranded.
LEMMA OwnedStep ==
  ASSUME Base, Base', RowsSafelyOwned, Next
  PROVE  RowsSafelyOwned'
<1>1. SUFFICES ASSUME NEW t \in Tasks, status'[t] \in Unsettled
               PROVE  SafelyOwned(t)' \/ Stranded(t)'
  BY DEF RowsSafelyOwned, Unsettled
<1>2. CASE status[t] \notin Unsettled
  <2>1. \E d \in Calls : Owns(d, t)'
    BY <1>1, <1>2, OwnerAppears
  <2>2. QED BY <2>1 DEF SafelyOwned
<1>3. CASE Stranded(t)
  BY <1>3, StrandedStays
<1>4. CASE SafelyOwned(t)
  <2>1. PICK d \in Calls : Owns(d, t)
    BY <1>4 DEF SafelyOwned
  <2>2. Owns(d, t)' \/ Stranded(t)'
    BY <1>1, <2>1, OwnerStays
  <2>3. QED BY <2>2 DEF SafelyOwned
<1>5. QED BY <1>1, <1>2, <1>3, <1>4 DEF RowsSafelyOwned

-----------------------------------------------------------------------------
LEMMA InitBase == Init => Base
<1>1. SUFFICES ASSUME Init PROVE Base
  OBVIOUS
<1>2. TypeOK
  <2>1. <<>> \in Seq(Calls) /\ {} \in SUBSET Tasks
    OBVIOUS
  <2>2. "absent" \in Status /\ "idle" \in CallPlaces /\ "none" \in Answers /\ "none" \in JobPlaces
    BY DEF Status, CallPlaces, Answers, JobPlaces
  <2>3. [s \in Stops |-> [t \in Tasks |-> None]] \in [Stops -> [Tasks -> Calls \cup {None}]]
    OBVIOUS
  <2>4. QED BY <1>1, <2>1, <2>2, <2>3 DEF Init, TypeOK
<1>3. Links
  BY <1>1, NoneAssumption DEF Init, Links, NotSent
<1>4. QueueOK
  BY <1>1 DEF Init, QueueOK
<1>5. QED BY <1>2, <1>3, <1>4 DEF Base

\* The inductive invariant holds initially.
LEMMA InitInv == Init => IInv
<1>1. SUFFICES ASSUME Init PROVE IInv
  OBVIOUS
<1>2. Base
  BY <1>1, InitBase
<1>3. RowProvenance /\ AnswerProvenance
  BY <1>1 DEF Init, RowProvenance, AnswerProvenance
<1>4. Supervised /\ RowsSafelyOwned
  BY <1>1 DEF Init, Supervised, NoUnsupervisedWorker, RowsSafelyOwned, Unsettled, Working
<1>5. QED BY <1>2, <1>3, <1>4 DEF IInv

\* A step that changes nothing keeps the invariant.
LEMMA IdleStep ==
  ASSUME IInv, UNCHANGED vars
  PROVE  IInv'
<1> USE DEF vars, rowVars, callVars, jobVars, stopVars
<1>1. Base'
  BY DEF IInv, Base, TypeOK, Links, QueueOK
<1>2. RowProvenance' /\ AnswerProvenance'
  BY DEF IInv, RowProvenance, AnswerProvenance, Produced, Broke
<1>3. Supervised'
  BY DEF IInv, Supervised, NoUnsupervisedWorker
<1>4. RowsSafelyOwned'
  BY DEF IInv, RowsSafelyOwned, SafelyOwned, Owns, Stranded
<1>5. QED BY <1>1, <1>2, <1>3, <1>4 DEF IInv

\* The invariant is inductive.
LEMMA IInvStep ==
  ASSUME IInv, [Next]_vars
  PROVE  IInv'
<1>1. CASE Next
  <2>1. Base /\ RowProvenance /\ AnswerProvenance /\ Supervised /\ RowsSafelyOwned
    BY DEF IInv
  <2>2. TypeOK'
    BY <1>1, <2>1, TypeStep
  <2>3. Links' /\ QueueOK'
    BY <1>1, <2>1, <2>2, LinksStep, QueueStep
  <2>4. Base'
    BY <2>2, <2>3 DEF Base
  <2>5. RowProvenance' /\ AnswerProvenance'
    BY <1>1, <2>1, <2>4, ProvenanceStep
  <2>6. Supervised'
    BY <1>1, <2>1, <2>4, SupervisedStep
  <2>7. RowsSafelyOwned'
    BY <1>1, <2>1, <2>4, OwnedStep
  <2>8. QED BY <2>4, <2>5, <2>6, <2>7 DEF IInv
<1>2. CASE UNCHANGED vars
  BY <1>2, IdleStep
<1>3. QED BY <1>1, <1>2

\* The inductive invariant holds in every reachable state.
THEOREM Inductive == Spec => []IInv
<1>1. Init => IInv
  BY InitInv
<1>2. IInv /\ [Next]_vars => IInv'
  BY IInvStep
<1>3. QED BY <1>1, <1>2, PTL DEF Spec

\* The variables keep their types.
THEOREM TypeCorrect == Spec => []TypeOK
<1>1. IInv => TypeOK
  BY DEF IInv, Base
<1>2. QED BY <1>1, Inductive, PTL

\* What a tool call returns to the parent agent was stored by a run of the same
\* task that ended the way the call reports (awaitDispatchedTaskResult).
THEOREM AnswersAreProduced == Spec => []AnswerProvenance
<1>1. IInv => AnswerProvenance
  BY DEF IInv
<1>2. QED BY <1>1, Inductive, PTL

\* A worker outlives its tool call only after a cancellation, or when another run
\* of its task answered the call.
THEOREM WorkersAreSupervised == Spec => []NoUnsupervisedWorker
<1>1. IInv => NoUnsupervisedWorker
  BY DEF IInv, Supervised
<1>2. QED BY <1>1, Inductive, PTL

\* No row is left queued or running with nobody to settle it, except after the
\* failures Stranded names; in particular stop requests never cause it.
THEOREM RowsAreOwned == Spec => []NoOrphanRow
<1>1. IInv => NoOrphanRow
  <2>1. \A t \in Tasks : SafelyOwned(t) => Owned(t)
    BY DEF SafelyOwned, Owns, Owned
  <2>2. QED BY <2>1 DEF IInv, RowsSafelyOwned, NoOrphanRow
<1>2. QED BY <1>1, Inductive, PTL

=============================================================================
