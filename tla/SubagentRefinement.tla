------------------------- MODULE SubagentRefinement -------------------------
(***************************************************************************)
(* SubagentTasks implements Delegation: the rows, the queue, the workers   *)
(* and the stop requests together give the parent agent no more than calls *)
(* that are opened, run and closed once, with the text of a run of their   *)
(* task or with none.                                                      *)
(*                                                                         *)
(* Every step is one of Delegation, or leaves the three mapped functions   *)
(* and taskOf alone (Quiet).  The inductive invariant is needed where a    *)
(* call is answered from the row: RowProvenance says whose text it holds.  *)
(***************************************************************************)
EXTENDS SubagentTasksProofs

mapped == <<phaseBar, taskOf, workBar, replyBar>>

\* Where a call is open and its run has not ended without its job.
OpenPlaces == CallPlaces \ {"idle", "closed", "inlineDone", "inlineFailed"}
\* Where the job of a call has not ended, or ended with no text.
TextlessPlaces == JobPlaces \ {"none", "stored", "failed"}

\* A step is invisible to the parent if calls stay open and jobs move between
\* places that have no text.
LEMMA Quiet ==
  ASSUME Base, UNCHANGED <<taskOf, answer, answerOf>>,
         \A c \in Calls : callAt'[c] = callAt[c] \/ {callAt[c], callAt'[c]} \subseteq OpenPlaces,
         \A c \in Calls : \/ jobAt'[c] = jobAt[c]
                          \/ {jobAt[c], jobAt'[c]} \subseteq TextlessPlaces
                          \/ /\ {jobAt[c], jobAt'[c]} \subseteq TextlessPlaces \cup {"none"}
                             /\ callAt[c] = "inserted"
  PROVE  UNCHANGED mapped
<1>1. \A c \in Calls : /\ callAt[c] = "idle" <=> callAt'[c] = "idle"
                       /\ callAt[c] = "closed" <=> callAt'[c] = "closed"
                       /\ callAt[c] = "inlineDone" <=> callAt'[c] = "inlineDone"
                       /\ callAt[c] = "inlineFailed" <=> callAt'[c] = "inlineFailed"
  BY DEF OpenPlaces
<1>2. \A c \in Calls : callAt[c] = "inserted" => answer[c] = "none"
  BY DEF Base, Links
<1>3. \A c \in Calls : /\ Produced(c) <=> Produced(c)'
                       /\ Broke(c) <=> Broke(c)'
  BY <1>2 DEF Produced, Broke, TextlessPlaces
<1>4. phaseBar' = phaseBar
  BY <1>1 DEF phaseBar
<1>5. workBar' = workBar
  BY <1>1, <1>3 DEF workBar
<1>6. replyBar' = replyBar
  BY DEF replyBar
<1>7. QED BY <1>4, <1>5, <1>6 DEF mapped

Ok(c) == Produced(c) \/ callAt[c] = "inlineDone"
Bad(c) == Broke(c) \/ callAt[c] = "inlineFailed"

\* A run ends one way at most.
LEMMA OneEnd ==
  ASSUME Base, NEW c \in Calls
  PROVE  ~(Ok(c) /\ Bad(c))
BY DEF Ok, Bad, Produced, Broke, Base, Links, NotSent

\* The mapped functions at a call.
LEMMA Values ==
  ASSUME Base, NEW c \in Calls
  PROVE  /\ callAt[c] = "idle" => phaseBar[c] = "idle"
         /\ callAt[c] = "closed" => phaseBar[c] = "closed"
         /\ callAt[c] \notin {"idle", "closed"} => phaseBar[c] = "open"
         /\ Ok(c) => workBar[c] = "ok"
         /\ Bad(c) => workBar[c] = "broke"
         /\ ~Ok(c) /\ ~Bad(c) => workBar[c] = "none"
<1>1. /\ callAt[c] = "idle" => phaseBar[c] = "idle"
      /\ callAt[c] = "closed" => phaseBar[c] = "closed"
      /\ callAt[c] \notin {"idle", "closed"} => phaseBar[c] = "open"
  BY DEF phaseBar
<1>2. workBar[c] = CASE Ok(c) -> "ok" [] Bad(c) -> "broke" [] OTHER -> "none"
  BY DEF workBar, Ok, Bad
<1>3. QED BY <1>1, <1>2, OneEnd

\* The initial states are initial states of Delegation.
LEMMA InitImplements == Init => D!Init
BY DEF Init, D!Init, D!NoReply, phaseBar, workBar, replyBar, Produced, Broke

-----------------------------------------------------------------------------
\* What a step of Delegation is, over the mapped functions.
LEMMA OpenMapped ==
  ASSUME Base, NEW c \in Calls, NEW t \in Tasks,
         callAt[c] = "idle", UNCHANGED <<answer, answerOf, jobAt>>,
         NEW place \in {"inserted", "inline", "continuing"},
         callAt' = [callAt EXCEPT ![c] = place],
         taskOf' = [taskOf EXCEPT ![c] = t]
  PROVE  D!Next
<1>1. phaseBar[c] = "idle"
  BY Values
<1>2. phaseBar' = [phaseBar EXCEPT ![c] = "open"]
  <2>1. callAt \in [Calls -> CallPlaces]
    BY DEF Base, TypeOK
  <2>2. QED BY <2>1 DEF phaseBar
<1>3. \A d \in Calls : /\ Produced(d) <=> Produced(d)'
                       /\ Broke(d) <=> Broke(d)'
  BY DEF Produced, Broke
<1>4. workBar' = workBar
  <2>1. callAt \in [Calls -> CallPlaces]
    BY DEF Base, TypeOK
  <2>2. \A d \in Calls : /\ callAt[d] = "inlineDone" <=> callAt'[d] = "inlineDone"
                         /\ callAt[d] = "inlineFailed" <=> callAt'[d] = "inlineFailed"
    BY <2>1
  <2>3. QED BY <1>3, <2>2 DEF workBar
<1>5. replyBar' = replyBar
  BY DEF replyBar
<1>6. D!Open(c, t)
  BY <1>1, <1>2, <1>4, <1>5 DEF D!Open
<1>7. QED BY <1>6 DEF D!Next

\* The run of call d ends; the call may be open or closed.
LEMMA EndMapped ==
  ASSUME Base, NEW d \in Calls, NEW how \in {"ok", "broke"},
         UNCHANGED <<taskOf, answer, answerOf>>,
         ~Ok(d), ~Bad(d), callAt[d] # "idle",
         IF how = "ok" THEN Ok(d)' /\ ~Bad(d)' ELSE Bad(d)' /\ ~Ok(d)',
         \A c \in Calls : {callAt[c], callAt'[c]} \cap {"idle", "closed"} # {}
                            => callAt'[c] = callAt[c],
         \A c \in Calls \ {d} : callAt'[c] = callAt[c] /\ jobAt'[c] = jobAt[c]
  PROVE  D!Next
<1>1. workBar[d] = "none" /\ phaseBar[d] # "idle"
  BY Values
<1>2. \A c \in Calls \ {d} : /\ Produced(c) <=> Produced(c)'
                             /\ Broke(c) <=> Broke(c)'
  BY DEF Produced, Broke
<1>3. workBar' = [workBar EXCEPT ![d] = how]
  <2>1. workBar = [c \in Calls |-> CASE Ok(c) -> "ok" [] Bad(c) -> "broke" [] OTHER -> "none"]
    BY DEF workBar, Ok, Bad
  <2>2. workBar' = [c \in Calls |-> CASE Ok(c)' -> "ok" [] Bad(c)' -> "broke" [] OTHER -> "none"]
    BY DEF workBar, Ok, Bad
  <2>3. \A c \in Calls \ {d} : (Ok(c) <=> Ok(c)') /\ (Bad(c) <=> Bad(c)')
    BY <1>2 DEF Ok, Bad
  <2>4. QED BY <2>1, <2>2, <2>3
<1>4. phaseBar' = phaseBar
  <2>1. \A c \in Calls : /\ callAt[c] = "idle" <=> callAt'[c] = "idle"
                         /\ callAt[c] = "closed" <=> callAt'[c] = "closed"
    OBVIOUS
  <2>2. QED BY <2>1 DEF phaseBar
<1>5. replyBar' = replyBar
  BY DEF replyBar
<1>6. D!EndRun(d, how)
  BY <1>1, <1>3, <1>4, <1>5 DEF D!EndRun
<1>7. QED BY <1>6 DEF D!Next

\* Call c closes with answer a, the text of d if it has one.
LEMMA CloseMapped ==
  ASSUME Base, NEW c \in Calls, NEW a \in Answers \ {"none"}, NEW d,
         callAt[c] \notin {"idle", "closed"},
         UNCHANGED <<taskOf, jobAt>>, Close(c, a, d),
         Ok(c) <=> Ok(c)', Bad(c) <=> Bad(c)'
  PROVE  D!Close(c, [kind |-> IF a \in {"cancelled", "threw", "escaped"} THEN "nothing" ELSE a,
                     of |-> d])
<1>1. /\ callAt \in [Calls -> CallPlaces] /\ answer \in [Calls -> Answers]
      /\ answerOf \in [Calls -> Calls \cup {None}]
      /\ callAt' = [callAt EXCEPT ![c] = "closed"]
      /\ answer' = [answer EXCEPT ![c] = a]
      /\ answerOf' = [answerOf EXCEPT ![c] = d]
  BY DEF Base, TypeOK, Close
<1>2. phaseBar[c] = "open"
  BY Values
<1>3. phaseBar' = [phaseBar EXCEPT ![c] = "closed"]
  BY <1>1 DEF phaseBar
<1>4. replyBar' = [replyBar EXCEPT ![c] =
        [kind |-> IF a \in {"cancelled", "threw", "escaped"} THEN "nothing" ELSE a, of |-> d]]
  BY <1>1 DEF replyBar
<1>5. workBar' = workBar
  <2>1. workBar = [x \in Calls |-> CASE Ok(x) -> "ok" [] Bad(x) -> "broke" [] OTHER -> "none"]
    BY DEF workBar, Ok, Bad
  <2>2. workBar' = [x \in Calls |-> CASE Ok(x)' -> "ok" [] Bad(x)' -> "broke" [] OTHER -> "none"]
    BY DEF workBar, Ok, Bad
  <2>3. \A x \in Calls \ {c} : (Ok(x) <=> Ok(x)') /\ (Bad(x) <=> Bad(x)')
    BY <1>1 DEF Ok, Bad, Produced, Broke
  <2>4. \A x \in Calls : (Ok(x) <=> Ok(x)') /\ (Bad(x) <=> Bad(x)')
    BY <2>3
  <2>5. QED BY <2>1, <2>2, <2>4
<1>6. QED BY <1>2, <1>3, <1>4, <1>5 DEF D!Close

\* A call that closes with no text.
LEMMA CloseWithNone ==
  ASSUME Base, NEW c \in Calls, NEW a \in {"cancelled", "threw", "escaped"},
         callAt[c] \notin {"idle", "closed"},
         UNCHANGED <<taskOf, jobAt>>, Close(c, a, None),
         Ok(c) <=> Ok(c)', Bad(c) <=> Bad(c)'
  PROVE  D!Next
<1>1. a \in Answers \ {"none"}
  BY DEF Answers
<1>2. D!Close(c, [kind |-> "nothing", of |-> None])
  BY <1>1, CloseMapped
<1>3. QED BY <1>2 DEF D!Next, D!CloseWithoutText

\* A call that closes with the text of a run of its task that ended that way.
LEMMA CloseWithText ==
  ASSUME Base, NEW c \in Calls, NEW a \in {"result", "failed"}, NEW d \in Calls,
         callAt[c] \notin {"idle", "closed"},
         UNCHANGED <<taskOf, jobAt>>, Close(c, a, d),
         Ok(c) <=> Ok(c)', Bad(c) <=> Bad(c)',
         taskOf[d] = taskOf[c], a = "result" => Ok(d), a = "failed" => Bad(d)
  PROVE  D!Next
<1>1. a \in Answers \ {"none"}
  BY DEF Answers
<1>2. D!Close(c, [kind |-> a, of |-> d])
  BY <1>1, CloseMapped
<1>3. /\ a = "result" => workBar[d] = "ok"
      /\ a = "failed" => workBar[d] = "broke"
  BY Values
<1>4. D!CloseWithText(c, d)
  BY <1>2, <1>3 DEF D!CloseWithText
<1>5. QED BY <1>4 DEF D!Next

-----------------------------------------------------------------------------
(* The steps *)

\* A step of the worker that stores no text.
LEMMA QuietWorker ==
  ASSUME Base, NEW c \in Calls, NEW from \in Working, NEW to \in TextlessPlaces,
         WorkerStep(c, from, to)
  PROVE  UNCHANGED mapped
<1>1. from \in TextlessPlaces
  BY DEF TextlessPlaces, JobPlaces, Working
<1>2. jobAt \in [Calls -> JobPlaces] /\ UNCHANGED <<callAt, taskOf, answer, answerOf>>
  BY DEF WorkerStep, callVars, Base, TypeOK
<1>3. \A x \in Calls : jobAt'[x] = jobAt[x] \/ {jobAt[x], jobAt'[x]} \subseteq TextlessPlaces
  BY <1>1, <1>2 DEF WorkerStep
<1>4. QED BY <1>2, <1>3, Quiet

\* A step of the worker that stores the text of its run.
LEMMA LoudWorker ==
  ASSUME Base, NEW c \in Calls, NEW to \in {"stored", "failed"},
         NEW from \in Working, WorkerStep(c, from, to)
  PROVE  D!Next
<1>1. /\ jobAt \in [Calls -> JobPlaces] /\ UNCHANGED <<callAt, taskOf, answer, answerOf>>
      /\ jobAt[c] = from /\ jobAt' = [jobAt EXCEPT ![c] = to]
  BY DEF WorkerStep, callVars, Base, TypeOK
<1>2. jobAt[c] \notin {"none", "stored", "failed"}
  BY <1>1 DEF Working
<1>3. callAt[c] \notin NotSent
  BY <1>2 DEF Base, Links
<1>4. ~Ok(c) /\ ~Bad(c) /\ callAt[c] # "idle"
  BY <1>2, <1>3 DEF Ok, Bad, Produced, Broke, NotSent
<1>5. CASE to = "stored"
  <2>1. Ok(c)' /\ ~Bad(c)'
    BY <1>1, <1>3, <1>5 DEF Ok, Bad, Produced, Broke, NotSent
  <2>2. QED BY <1>1, <1>4, <2>1, EndMapped
<1>6. CASE to = "failed"
  <2>1. Bad(c)' /\ ~Ok(c)'
    BY <1>1, <1>3, <1>6 DEF Ok, Bad, Produced, Broke, NotSent
  <2>2. QED BY <1>1, <1>4, <2>1, EndMapped
<1>7. QED BY <1>5, <1>6

\* An inline generation returns or throws.
LEMMA InlineEnds ==
  ASSUME Base, NEW c \in Calls, callAt[c] \in {"inline", "continuing"},
         NEW place \in {"inlineDone", "inlineFailed"},
         callAt' = [callAt EXCEPT ![c] = place],
         UNCHANGED <<taskOf, answer, answerOf, jobAt>>
  PROVE  D!Next
<1>1. callAt \in [Calls -> CallPlaces] /\ jobAt[c] = "none" /\ answer[c] = "none"
  BY DEF Base, TypeOK, Links, NotSent
<1>2. ~Ok(c) /\ ~Bad(c)
  BY <1>1 DEF Ok, Bad, Produced, Broke
<1>3. place = "inlineDone" => Ok(c)' /\ ~Bad(c)'
  BY <1>1 DEF Ok, Bad, Produced, Broke
<1>4. place = "inlineFailed" => Bad(c)' /\ ~Ok(c)'
  BY <1>1 DEF Ok, Bad, Produced, Broke
<1>5. \A x \in Calls : {callAt[x], callAt'[x]} \cap {"idle", "closed"} # {}
                         => callAt'[x] = callAt[x]
  BY <1>1
<1>6. CASE place = "inlineDone"
  BY <1>1, <1>2, <1>3, <1>5, <1>6, EndMapped
<1>7. CASE place = "inlineFailed"
  BY <1>1, <1>2, <1>4, <1>5, <1>7, EndMapped
<1>8. QED BY <1>6, <1>7

\* A call whose job exists closes: its own run stays as it was.
LEMMA OwnRunStays ==
  ASSUME Base, NEW c \in Calls, callAt[c] \in {"awaiting", "cancelling"},
         jobAt' = jobAt, callAt'[c] = "closed"
  PROVE  (Ok(c) <=> Ok(c)') /\ (Bad(c) <=> Bad(c)')
<1>1. jobAt[c] # "none"
  BY DEF Base, Links
<1>2. QED BY <1>1 DEF Ok, Bad, Produced, Broke

\* awaitTaskCompletion answers from the row: RowProvenance says whose text it is.
LEMMA SettledImplements ==
  ASSUME IInv, NEW c \in Calls, ReturnSettled(c)
  PROVE  D!Next
<1> DEFINE t == taskOf[c]
           a == IF status[t] = "done" THEN "result" ELSE "failed"
<1>1. /\ Base /\ RowProvenance /\ callAt[c] = "awaiting" /\ status[t] \in {"done", "failed"}
      /\ UNCHANGED <<taskOf, jobAt>> /\ Close(c, a, result[t])
  BY DEF ReturnSettled, IInv, jobVars
<1>2. t \in Tasks
  BY <1>1 DEF Base, Links
<1>3. /\ result[t] \in Calls /\ taskOf[result[t]] = t
      /\ a = "result" => Ok(result[t])
      /\ a = "failed" => Bad(result[t])
  BY <1>1, <1>2 DEF RowProvenance, Ok, Bad
<1>4. (Ok(c) <=> Ok(c)') /\ (Bad(c) <=> Bad(c)')
  <2>1. callAt'[c] = "closed"
    BY <1>1 DEF Close, Base, TypeOK
  <2>2. QED BY <1>1, <2>1, OwnRunStays
<1>5. a \in {"result", "failed"}
  OBVIOUS
<1> HIDE DEF a
<1>6. QED BY <1>1, <1>3, <1>4, <1>5, CloseWithText

\* Steps of the tool calls.
LEMMA CallImplements ==
  ASSUME IInv, NEW c \in Calls, CallStep(c)
  PROVE  D!Next \/ UNCHANGED mapped
<1>0. Base /\ callAt \in [Calls -> CallPlaces] /\ jobAt \in [Calls -> JobPlaces]
  BY DEF IInv, Base, TypeOK
<1>1. CASE SendJob(c)
  <2>1. UNCHANGED <<taskOf, answer, answerOf>> /\ callAt[c] = "inserted" /\ jobAt[c] = "none"
    BY <1>0, <1>1 DEF SendJob, Base, Links, NotSent
  <2>2. \A x \in Calls : callAt'[x] = callAt[x] \/ {callAt[x], callAt'[x]} \subseteq OpenPlaces
    BY <1>0, <1>1 DEF SendJob, OpenPlaces, CallPlaces
  <2>3. \A x \in Calls : \/ jobAt'[x] = jobAt[x]
                         \/ /\ {jobAt[x], jobAt'[x]} \subseteq TextlessPlaces \cup {"none"}
                            /\ callAt[x] = "inserted"
    BY <1>0, <1>1, <2>1 DEF SendJob, TextlessPlaces, JobPlaces
  <2>4. QED BY <1>0, <2>1, <2>2, <2>3, Quiet
<1>2. CASE RecordJobId(c)
  <2>1. UNCHANGED <<taskOf, answer, answerOf, jobAt>>
    BY <1>2 DEF RecordJobId, jobVars
  <2>2. \A x \in Calls : callAt'[x] = callAt[x] \/ {callAt[x], callAt'[x]} \subseteq OpenPlaces
    BY <1>0, <1>2 DEF RecordJobId, OpenPlaces, CallPlaces
  <2>3. QED BY <1>0, <2>1, <2>2, Quiet
<1>3. CASE ReturnSettled(c)
  BY <1>3, SettledImplements
<1>4. CASE GiveUp(c)
  <2>1. UNCHANGED <<taskOf, answer, answerOf, jobAt>>
    BY <1>4 DEF GiveUp
  <2>2. \A x \in Calls : callAt'[x] = callAt[x] \/ {callAt[x], callAt'[x]} \subseteq OpenPlaces
    BY <1>0, <1>4 DEF GiveUp, OpenPlaces, CallPlaces
  <2>3. QED BY <1>0, <2>1, <2>2, Quiet
<1>5. CASE ReturnCancelled(c)
  <2>1. callAt[c] = "cancelling" /\ UNCHANGED <<taskOf, jobAt>> /\ Close(c, "cancelled", None)
    BY <1>5 DEF ReturnCancelled, jobVars
  <2>2. (Ok(c) <=> Ok(c)') /\ (Bad(c) <=> Bad(c)')
    <3>1. callAt'[c] = "closed"
      BY <1>0, <2>1 DEF Close
    <3>2. QED BY <1>0, <2>1, <3>1, OwnRunStays
  <2>3. QED BY <1>0, <2>1, <2>2, CloseWithNone
<1>6. CASE InlineGenerated(c)
  <2>1. /\ callAt[c] \in {"inline", "continuing"} /\ callAt' = [callAt EXCEPT ![c] = "inlineDone"]
        /\ UNCHANGED <<taskOf, answer, answerOf, jobAt>>
    BY <1>6 DEF InlineGenerated, jobVars
  <2>2. QED BY <1>0, <2>1, InlineEnds
<1>7. CASE InlineThrew(c)
  <2>1. /\ callAt[c] = "inline" /\ callAt' = [callAt EXCEPT ![c] = "inlineFailed"]
        /\ UNCHANGED <<taskOf, answer, answerOf, jobAt>>
    BY <1>7 DEF InlineThrew, jobVars
  <2>2. QED BY <1>0, <2>1, InlineEnds
<1>8. CASE ContinuationThrew(c)
  <2>1. callAt[c] = "continuing" /\ UNCHANGED <<taskOf, jobAt>> /\ Close(c, "escaped", None)
    BY <1>8 DEF ContinuationThrew, jobVars
  <2>2. ~Ok(c) /\ ~Bad(c) /\ ~Ok(c)' /\ ~Bad(c)'
    <3>1. jobAt[c] = "none" /\ answer[c] = "none"
      BY <1>0, <2>1 DEF Base, Links, NotSent
    <3>2. callAt'[c] = "closed" /\ answer'[c] = "escaped"
      BY <1>0, <2>1 DEF Close, IInv, Base, TypeOK
    <3>3. QED BY <2>1, <3>1, <3>2 DEF Ok, Bad, Produced, Broke
  <2>3. QED BY <1>0, <2>1, <2>2, CloseWithNone
<1>9. CASE StoreInlineDone(c)
  <2>1. callAt[c] = "inlineDone" /\ UNCHANGED <<taskOf, jobAt>> /\ Close(c, "result", c)
    BY <1>9 DEF StoreInlineDone, jobVars
  <2>2. jobAt[c] = "none" /\ answer[c] = "none"
    BY <1>0, <2>1 DEF Base, Links, NotSent
  <2>3. Ok(c) /\ ~Bad(c) /\ Ok(c)' /\ ~Bad(c)'
    <3>1. callAt'[c] = "closed" /\ answer'[c] = "result" /\ answerOf'[c] = c /\ jobAt'[c] = "none"
      BY <1>0, <2>1, <2>2 DEF Close, Base, TypeOK
    <3>2. QED BY <2>1, <2>2, <3>1 DEF Ok, Bad, Produced, Broke
  <2>4. QED BY <1>0, <2>1, <2>3, CloseWithText
<1>10. CASE StoreInlineFailed(c)
  <2>1. callAt[c] = "inlineFailed" /\ UNCHANGED <<taskOf, jobAt>> /\ Close(c, "threw", None)
    BY <1>10 DEF StoreInlineFailed, jobVars
  <2>2. jobAt[c] = "none" /\ answer[c] = "none"
    BY <1>0, <2>1 DEF Base, Links, NotSent
  <2>3. Bad(c) /\ ~Ok(c) /\ Bad(c)' /\ ~Ok(c)'
    <3>1. callAt'[c] = "closed" /\ answer'[c] = "threw" /\ jobAt'[c] = "none"
      BY <1>0, <2>1, <2>2 DEF Close, Base, TypeOK
    <3>2. QED BY <2>1, <2>2, <3>1 DEF Ok, Bad, Produced, Broke
  <2>4. QED BY <1>0, <2>1, <2>3, CloseWithNone
<1>11. QED BY <1>1, <1>2, <1>3, <1>4, <1>5, <1>6, <1>7, <1>8, <1>9, <1>10 DEF CallStep

\* Steps of the workers.
LEMMA JobImplements ==
  ASSUME Base, NEW c \in Calls, JobStep(c)
  PROVE  D!Next \/ UNCHANGED mapped
<1>1. \A p \in {"preparing", "reading", "marking", "generating", "checking", "storing",
                "failing", "withdrawing"} : p \in Working /\ p \in TextlessPlaces
  BY DEF Working, JobPlaces, TextlessPlaces
<1>2. \A p \in {"withdrawn", "skipped", "crashed"} : p \in TextlessPlaces
  BY DEF JobPlaces, TextlessPlaces
<1>3. CASE \/ StoreDone(c) /\ WorkerStep(c, "storing", "stored")
           \/ StoreFailed(c) /\ WorkerStep(c, "failing", "failed")
  BY <1>1, <1>3, LoudWorker
<1>4. CASE ~(StoreDone(c) \/ StoreFailed(c))
  <2>1. \E from \in Working, to \in TextlessPlaces : WorkerStep(c, from, to)
    <3>1. CASE Prepare(c) \/ PrepareFails(c) \/ MarkRunning(c) \/ StoreWithdrawn(c)
      BY <1>1, <1>2, <3>1 DEF Prepare, PrepareFails, MarkRunning, StoreWithdrawn
    <3>2. CASE ReadRow(c) \/ CheckRow(c)
      BY <1>1, <1>2, <3>2 DEF ReadRow, CheckRow
    <3>3. CASE Generated(c) \/ GenerateThrew(c)
      BY <1>1, <1>2, <3>3 DEF Generated, GenerateThrew
    <3>4. QED BY <1>4, <3>1, <3>2, <3>3 DEF JobStep
  <2>2. QED BY <2>1, QuietWorker
<1>5. QED BY <1>3, <1>4 DEF StoreDone, StoreFailed

\* Requests, the start of a job, and stop requests.
LEMMA OtherImplements ==
  ASSUME Base, \/ Requests \/ StartJob \/ \E s \in Stops : StopStep(s)
  PROVE  D!Next \/ UNCHANGED mapped
<1>0. callAt \in [Calls -> CallPlaces] /\ jobAt \in [Calls -> JobPlaces]
  BY DEF Base, TypeOK
<1>1. ASSUME NEW c \in Calls, NEW t \in Tasks, NEW b \in BOOLEAN,
             InsertTask(c, t, b) \/ ContinueTask(c, t, b)
      PROVE  D!Next
  <2>1. \E place \in {"inserted", "inline", "continuing"} :
          callAt' = [callAt EXCEPT ![c] = place]
    BY <1>1 DEF InsertTask, ContinueTask
  <2>2. /\ callAt[c] = "idle" /\ UNCHANGED <<answer, answerOf, jobAt>>
        /\ taskOf' = [taskOf EXCEPT ![c] = t]
    BY <1>1 DEF InsertTask, ContinueTask, jobVars
  <2>3. QED BY <2>1, <2>2, OpenMapped
<1>2. ASSUME UNCHANGED <<callAt, taskOf, answer, answerOf, jobAt>>
      PROVE  UNCHANGED mapped
  BY <1>2, Quiet
<1>3. CASE StopQueue
  <2>1. UNCHANGED <<callAt, taskOf, answer, answerOf>>
    BY <1>3 DEF StopQueue, callVars
  <2>2. \A x \in Calls : jobAt'[x] = jobAt[x] \/ {jobAt[x], jobAt'[x]} \subseteq TextlessPlaces
    BY <1>0, <1>3 DEF StopQueue, TextlessPlaces, JobPlaces
  <2>3. QED BY <2>1, <2>2, Quiet
<1>4. CASE StartJob
  <2>1. UNCHANGED <<callAt, taskOf, answer, answerOf>> /\ waiting # <<>>
    BY <1>4 DEF StartJob, callVars
  <2>2. Head(waiting) \in Calls /\ jobAt[Head(waiting)] = "waiting"
    BY <2>1, HeadWaits
  <2>3. \A x \in Calls : jobAt'[x] = jobAt[x] \/ {jobAt[x], jobAt'[x]} \subseteq TextlessPlaces
    BY <1>0, <1>4, <2>2 DEF StartJob, TextlessPlaces, JobPlaces, Working
  <2>4. QED BY <2>1, <2>3, Quiet
<1>5. CASE \/ AbortRun
           \/ \E s \in Stops : StopThread(s) \/ \E t \in Tasks : StopTask(s, t)
           \/ \E s \in Stops : StopStep(s)
  <2>1. UNCHANGED <<callAt, taskOf, answer, answerOf, jobAt>>
    BY <1>5 DEF AbortRun, StopThread, StopTask, StopStep, ListTasks, Snapshot,
         CancelRow, CancelJob, callVars, jobVars
  <2>2. QED BY <1>2, <2>1
<1>6. QED BY <1>1, <1>3, <1>4, <1>5 DEF Requests

\* Every step is a step of Delegation or leaves what the parent sees alone.
LEMMA NextImplements ==
  ASSUME IInv, [Next]_vars
  PROVE  [D!Next]_mapped
<1>1. Base
  BY DEF IInv
<1>2. CASE UNCHANGED vars
  BY <1>2 DEF vars, callVars, jobVars, mapped, phaseBar, workBar, replyBar, Produced, Broke
<1>3. CASE Next
  BY <1>1, <1>3, CallImplements, JobImplements, OtherImplements DEF Next
<1>4. QED BY <1>2, <1>3

\* What delegation promises the parent agent holds of the rows, the queue and the
\* workers (agent-task-tool.ts, queue.ts, agent-task-runner.ts).
THEOREM Refinement == Spec => ImplementsDelegation
<1>1. Init => D!Init
  BY InitImplements
<1>2. IInv /\ [Next]_vars => [D!Next]_<<phaseBar, taskOf, workBar, replyBar>>
  BY NextImplements DEF mapped
<1>3. QED BY <1>1, <1>2, Inductive, PTL DEF Spec, ImplementsDelegation, D!Spec, D!dvars
=============================================================================
