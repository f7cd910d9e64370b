--------------------------- MODULE ChatRunsProofs ---------------------------
(***************************************************************************)
(* Proofs about ChatRuns: the registries follow the runs, and a question   *)
(* is answered once.                                                       *)
(*                                                                         *)
(* The argument about questions is one token per agent run.  Whoever       *)
(* consumed the question of a run, and has neither asked the next one nor  *)
(* failed to start, holds the run (Holder); the server lets nobody else    *)
(* consume meanwhile (OneHolder), because the run is in `consumed` and has *)
(* no open question.  A restart takes the token away from a run that it    *)
(* kills; then neither the row nor a request that read the row still shows *)
(* the question it answered (SpentForGood).                                *)
(***************************************************************************)
EXTENDS ChatRuns, TLAPS, FiniteSetTheorems

Nullable == Posts \cup {None}

ChatTypeOK ==
  /\ at \in [Posts -> Places]
  /\ want \in [Posts -> Nullable]
  /\ run \in [Posts -> Nullable]
  /\ seen \in [Posts -> Nullable]
  /\ target \in [Posts -> Nullable]
  /\ aborted \in [Posts -> BOOLEAN]
  /\ asked \in [Posts -> BOOLEAN]
  /\ buffer \in [Posts -> {"missing", "streaming", "done"}]
  /\ active \in Nullable
  /\ registered \in SUBSET Posts
  /\ suspended \in [Posts -> Nullable]
  /\ consumed \in SUBSET Posts
  /\ row \in Nullable
  /\ stopAt \in [Stops -> {"idle", "not_found", "stale", "stopping", "stopped", "lost"}]
  /\ stopTarget \in [Stops -> Nullable]
  /\ polled \in Nullable

\* Whether a post is an answer, by where it is.
AnswersKnown ==
  /\ \A p \in Posts : at[p] \in {"idle", "arrived", "preparing"} => want[p] = None
  /\ \A p \in Posts : at[p] \in {"resuming", "consumed", "unasking", "restoring"} => want[p] # None

\* Posts whose stream nobody can have told to stop.
Early == {p \in Posts : \/ at[p] \in {"idle", "arrived", "preparing", "resuming"}
                        \/ at[p] = "superseding" /\ want[p] = None}

\* A controller on record is of a run that was not told to stop, or whose agent
\* threw; an early post was not told.
ControllerOf(p) ==
  /\ p \in registered => ~aborted[p] /\ (p \in Controlled \/ at[p] \in {"restoring", "failed"})
  /\ p \in Controlled /\ ~aborted[p] => p \in registered
  /\ p \in Early => ~aborted[p]
Controllers == \A p \in Posts : ControllerOf(p)

\* A run is named by the prompt it began with; an answer is of a question that was
\* asked, and resumes the run that asked it.
RunOf(p) ==
  /\ at[p] = "idle" <=> run[p] = None
  /\ at[p] # "idle" /\ want[p] = None => run[p] = p
  /\ run[p] # None => run[run[p]] = run[p] /\ want[run[p]] = None
  /\ want[p] # None => asked[want[p]] /\ run[p] = run[want[p]] /\ asked[run[p]]
  /\ asked[p] => at[p] \in {"running", "closed", "killed"}

\* The open question of a run is one of its own.
OpenQuestion(r) ==
  suspended[r] # None =>
    /\ run[suspended[r]] = r
    /\ asked[suspended[r]] \/ at[suspended[r]] = "saving"

Conversation ==
  /\ \A p \in Posts : RunOf(p)
  /\ \A r \in Posts : OpenQuestion(r)
  /\ row # None => asked[row]

\* Post p was let into its run, and the run is still with it.
Holder(p) ==
  /\ ~asked[p]
  /\ \/ at[p] \in {"launching", "bound", "running", "clearing"}
     \/ at[p] \in {"consumed", "superseding", "unasking"} /\ want[p] # None

\* The run ended with post p, which asked nothing.
Ender(p) == at[p] = "closed" /\ ~asked[p]

OneHolder ==
  /\ \A p, q \in Posts : Holder(p) /\ Holder(q) /\ run[p] = run[q] => p = q
  /\ \A p \in Posts : Holder(p) =>
       suspended[run[p]] = None /\ (want[p] # None => run[p] \in consumed)
  /\ \A r \in consumed : \E p \in Posts :
       (Holder(p) \/ Ender(p)) /\ run[p] = r /\ want[p] # None

\* The answer p was given to the agent, which asked nothing since; and no answer to
\* the same question failed and put it back into the row.
Given(p) == Started(p) /\ want[p] # None /\ ~Asks(p)
Spent(p) ==
  /\ Given(p)
  /\ \A b \in Posts : want[b] = want[p] => at[b] # "failed"

\* Nobody can consume the question of p: its run ended and still counts as
\* consumed, or (since a restart) neither the registry nor a request shows it.
RunOver(p) ==
  /\ run[p] \in consumed
  /\ suspended[run[p]] = None
  /\ \A q \in Posts : run[q] = run[p] => ~Holder(q)
Forgotten(p) ==
  /\ suspended[run[p]] # want[p]
  /\ \A q \in Posts : want[q] = want[p] =>
       ~Holder(q) /\ (at[q] = "resuming" => seen[q] # want[p])

SpentForGood ==
  /\ \A p \in Posts : Spent(p) => row # want[p]
  /\ \A p, q \in Posts : Spent(p) /\ Spent(q) /\ want[p] = want[q] => p = q
  /\ \A p \in Posts : Spent(p) /\ at[p] = "closed" => RunOver(p) \/ Forgotten(p)
  /\ \A p \in Posts : Spent(p) /\ at[p] = "killed" => Forgotten(p)

Begun == {p \in Posts : at[p] # "idle"}

ChatInv ==
  /\ ChatTypeOK /\ AnswersKnown /\ NoStaleMapping /\ Controllers /\ Conversation
  /\ OneHolder /\ SpentForGood /\ IsFiniteSet(Begun)
-----------------------------------------------------------------------------
(* What the branching handlers do *)

\* An answer is let into its run, and its question leaves the registry, or it is
\* refused and nothing else happens.
LEMMA ConsumeEffect ==
  ASSUME ChatTypeOK, AnswersKnown, Conversation, NEW p \in Posts, Consume(p)
  PROVE  /\ at[p] = "resuming" /\ want[p] \in Posts /\ run[p] \in Posts
         /\ UNCHANGED <<want, run, seen, target, aborted, asked, buffer, active, row, stopVars, polled>>
         /\ \/ /\ \/ suspended[run[p]] = want[p]
                  \/ seen[p] = want[p] /\ run[p] \notin consumed
               /\ suspended' = [suspended EXCEPT ![run[p]] = None]
               /\ consumed' = consumed \cup {run[p]}
               /\ registered' = registered \cup {p}
               /\ at' = [at EXCEPT ![p] = "consumed"]
            \/ /\ UNCHANGED <<suspended, consumed, registered>>
               /\ at' = [at EXCEPT ![p] = "refused"]
<1> DEFINE found == IF seen[p] = want[p] /\ run[p] \notin consumed
                    THEN [suspended EXCEPT ![run[p]] = want[p]] ELSE suspended
<1>1. at[p] = "resuming" /\ want[p] \in Posts /\ run[p] \in Posts
  BY NoneAssumption DEF Consume, ChatTypeOK, AnswersKnown, Conversation, RunOf, Nullable
<1>2. suspended \in [Posts -> Nullable] /\ found \in [Posts -> Nullable]
  BY <1>1 DEF ChatTypeOK
<1>3. CASE found[run[p]] = want[p]
  <2>1. /\ suspended' = [found EXCEPT ![run[p]] = None]
        /\ consumed' = consumed \cup {run[p]}
        /\ registered' = registered \cup {p}
        /\ at' = [at EXCEPT ![p] = "consumed"]
    BY <1>3 DEF Consume, Move
  <2>2. [found EXCEPT ![run[p]] = None] = [suspended EXCEPT ![run[p]] = None]
    BY <1>1, <1>2
  <2>3. \/ suspended[run[p]] = want[p]
        \/ seen[p] = want[p] /\ run[p] \notin consumed
    BY <1>1, <1>3
  <2>4. QED BY <1>1, <2>1, <2>2, <2>3 DEF Consume
<1>4. CASE found[run[p]] # want[p]
  <2>1. /\ suspended' = found
        /\ UNCHANGED <<consumed, registered>>
        /\ at' = [at EXCEPT ![p] = "refused"]
    BY <1>4 DEF Consume, Move
  <2>2. found = suspended
    BY <1>1, <1>2, <1>4
  <2>3. QED BY <1>1, <2>1, <2>2 DEF Consume
<1>5. QED BY <1>3, <1>4

\* A stream that is told to stop: its controller goes off the record, aborted.
LEMMA CancelEffect ==
  ASSUME ChatTypeOK, NEW x \in Posts, Cancel(x)
  PROVE  /\ aborted' \in [Posts -> BOOLEAN]
         /\ registered' = registered \ {x}
         /\ \A p \in Posts : aborted'[p] = (aborted[p] \/ (p = x /\ x \in registered))
BY DEF Cancel

\* What a request does to the stream before it.
LEMMA SupersedeEffect ==
  ASSUME ChatTypeOK, NEW p \in Posts, Supersede(p)
  PROVE  /\ at[p] \in {"arrived", "consumed"}
         /\ UNCHANGED <<want, run, seen, asked, buffer, active, askVars, stopVars, polled>>
         /\ target' \in [Posts -> Nullable]
         /\ \/ at' = [at EXCEPT ![p] = AfterStop(p)] /\ UNCHANGED <<aborted, registered>>
            \/ /\ at' = [at EXCEPT ![p] = "superseding"]
               /\ \E x \in Posts : Cancel(x)
<1>1. CASE active = None
  BY <1>1 DEF Supersede, Move, ChatTypeOK
<1>2. CASE active # None
  <2>1. active \in Posts
    BY <1>2 DEF ChatTypeOK, Nullable
  <2>2. target' = [target EXCEPT ![p] = active]
    BY <1>2 DEF Supersede
  <2>3. target' \in [Posts -> Nullable]
    BY <2>1, <2>2 DEF ChatTypeOK
  <2>4. QED BY <1>2, <2>1, <2>3 DEF Supersede, Move
<1>3. QED BY <1>1, <1>2

\* What a request to stop does: at most one stream is cancelled.
LEMMA StopEffect ==
  ASSUME ChatTypeOK, NEW s \in Stops, NEW id \in Known \cup {None}, Stop(s, id)
  PROVE  /\ UNCHANGED <<at, want, run, seen, target, asked, buffer, active, askVars, polled>>
         /\ stopAt' \in [Stops -> {"idle", "not_found", "stale", "stopping", "stopped", "lost"}]
         /\ stopTarget' \in [Stops -> Nullable]
         /\ \/ UNCHANGED <<aborted, registered>>
            \/ \E x \in Posts : Cancel(x)
<1> DEFINE x == IF id = None THEN active ELSE id
<1>1. x \in Nullable
  BY DEF ChatTypeOK, Nullable, Known
<1>2. CASE x # None /\ active \in {None, x}
  <2>1. x \in Posts
    BY <1>1, <1>2 DEF Nullable
  <2>2. Cancel(x) /\ stopAt' = [stopAt EXCEPT ![s] = "stopping"]
        /\ stopTarget' = [stopTarget EXCEPT ![s] = x]
    BY <1>2 DEF Stop
  <2>3. QED BY <1>1, <2>1, <2>2 DEF Stop, ChatTypeOK
<1>3. CASE ~(x # None /\ active \in {None, x})
  <2>1. \/ stopAt' = [stopAt EXCEPT ![s] = "not_found"]
        \/ stopAt' = [stopAt EXCEPT ![s] = "stale"]
    BY <1>3 DEF Stop
  <2>2. UNCHANGED <<stopTarget, aborted, registered>>
    BY <1>3 DEF Stop
  <2>3. QED BY <2>1, <2>2 DEF Stop, ChatTypeOK
<1>4. QED BY <1>2, <1>3

-----------------------------------------------------------------------------
(* Types, and what the place of a post says *)

USE DEF postVars, streamVars, askVars, stopVars, Move, Nullable

\* Every variable keeps its type.
LEMMA TypeStep ==
  ASSUME ChatTypeOK, AnswersKnown, Conversation, [Next]_vars
  PROVE  ChatTypeOK'
<1>1. ASSUME NEW p \in Posts, Prompt(p) PROVE ChatTypeOK'
  BY <1>1 DEF Prompt, ChatTypeOK, Places, Handling, Streaming, Unserved
<1>2. ASSUME NEW p \in Posts, NEW a \in Posts, Answer(p, a) PROVE ChatTypeOK'
  BY <1>2 DEF Answer, ChatTypeOK, Places, Handling, Streaming, Unserved
<1>3. ASSUME NEW p \in Posts, Consume(p) PROVE ChatTypeOK'
  <2>1. at' \in [Posts -> Places] /\ suspended' \in [Posts -> Nullable]
    BY <1>3, ConsumeEffect DEF ChatTypeOK, Places, Handling, Unserved
  <2>2. consumed' \subseteq Posts /\ registered' \subseteq Posts
    BY <1>3, ConsumeEffect DEF ChatTypeOK
  <2>3. QED BY <1>3, <2>1, <2>2, ConsumeEffect DEF ChatTypeOK
<1>4. ASSUME NEW p \in Posts, Supersede(p) PROVE ChatTypeOK'
  <2>1. at' \in [Posts -> Places]
    BY <1>4, SupersedeEffect DEF ChatTypeOK, AfterStop, Places, Handling
  <2>2. aborted' \in [Posts -> BOOLEAN] /\ registered' \subseteq Posts
    BY <1>4, SupersedeEffect, CancelEffect DEF ChatTypeOK
  <2>3. QED BY <1>4, <2>1, <2>2, SupersedeEffect DEF ChatTypeOK
<1>5. ASSUME NEW p \in Posts, Superseded(p) PROVE ChatTypeOK'
  BY <1>5 DEF Superseded, ChatTypeOK, Places, Handling, Streaming, Unserved, Finalize,
     AfterStop
<1>6. ASSUME NEW p \in Posts, Deny(p) PROVE ChatTypeOK'
  BY <1>6 DEF Deny, ChatTypeOK, Places, Streaming, Unserved
<1>7. ASSUME NEW p \in Posts, Launch(p) PROVE ChatTypeOK'
  BY <1>7 DEF Launch, ChatTypeOK, Places, Handling, Streaming, Unserved
<1>8. ASSUME NEW p \in Posts, Unask(p) PROVE ChatTypeOK'
  BY <1>8 DEF Unask, ChatTypeOK, Places, Handling, Streaming, Unserved
<1>9. ASSUME NEW p \in Posts, LaunchFails(p) PROVE ChatTypeOK'
  BY <1>9 DEF LaunchFails, ChatTypeOK, Places, Handling, Streaming, Unserved
<1>10. ASSUME NEW p \in Posts, RestoreRow(p) PROVE ChatTypeOK'
  BY <1>10 DEF RestoreRow, ChatTypeOK, Places, Streaming, Unserved
<1>11. ASSUME NEW p \in Posts, Bind(p) PROVE ChatTypeOK'
  BY <1>11 DEF Bind, ChatTypeOK, Places, Handling, Streaming, Unserved
<1>12. ASSUME NEW p \in Posts, Capture(p) PROVE ChatTypeOK'
  BY <1>12 DEF Capture, ChatTypeOK, Places, Streaming, Unserved
<1>13. ASSUME NEW p \in Posts, SeeAsk(p) PROVE ChatTypeOK'
  BY <1>13 DEF SeeAsk, ChatTypeOK, Places, Streaming, Unserved
<1>14. ASSUME NEW p \in Posts, SaveAsk(p) PROVE ChatTypeOK'
  BY <1>14 DEF SaveAsk, ChatTypeOK, Places, Streaming, Unserved
<1>15. ASSUME NEW p \in Posts, Finish(p) PROVE ChatTypeOK'
  BY <1>15 DEF Finish, ChatTypeOK, Places, Streaming, Unserved
<1>16. ASSUME NEW p \in Posts, ClearRow(p) PROVE ChatTypeOK'
  BY <1>16 DEF ClearRow, ChatTypeOK, Places, Streaming, Unserved
<1>17. ASSUME NEW s \in Stops, NEW id \in Known \cup {None}, Stop(s, id)
     PROVE ChatTypeOK'
  <2>1. aborted' \in [Posts -> BOOLEAN] /\ registered' \subseteq Posts
    BY <1>17, StopEffect, CancelEffect DEF ChatTypeOK
  <2>2. QED BY <1>17, <2>1, StopEffect DEF ChatTypeOK
<1>18. ASSUME NEW s \in Stops, StopEnds(s) PROVE ChatTypeOK'
  BY <1>18 DEF StopEnds, ChatTypeOK, Streaming, Unserved, Finalize
<1>19. CASE Poll
  BY <1>19 DEF Poll, ChatTypeOK, Streaming, Unserved
<1>20. CASE PollEnds
  BY <1>20 DEF PollEnds, ChatTypeOK, Streaming, Unserved
<1>21. CASE Expire
  BY <1>21 DEF Expire, ChatTypeOK, Streaming, Unserved
<1>22. CASE Restart
  BY <1>22 DEF Restart, ChatTypeOK, Places, Dead, Streaming, Unserved, Started
<1>23. CASE UNCHANGED vars
  BY <1>23 DEF vars, ChatTypeOK, Streaming, Unserved
<1>24. QED
  BY <1>1, <1>2, <1>3, <1>4, <1>5, <1>6, <1>7, <1>8, <1>9, <1>10, <1>11, <1>12, <1>13,
     <1>14, <1>15, <1>16, <1>17, <1>18, <1>19, <1>20, <1>21, <1>22, <1>23 DEF Next,
     Requests, PostStep

\* Only answers are resumed, only prompts prepared.
LEMMA AnswersStep ==
  ASSUME ChatTypeOK, AnswersKnown, Conversation, [Next]_vars
  PROVE  AnswersKnown'
<1>1. ASSUME NEW p \in Posts, Prompt(p) PROVE AnswersKnown'
  BY <1>1 DEF Prompt, AnswersKnown
<1>2. ASSUME NEW p \in Posts, NEW a \in Posts, Answer(p, a) PROVE AnswersKnown'
  BY <1>2, NoneAssumption DEF Answer, ChatTypeOK, AnswersKnown
<1>3. ASSUME NEW p \in Posts, Consume(p) PROVE AnswersKnown'
  BY <1>3, ConsumeEffect DEF ChatTypeOK, AnswersKnown
<1>4. ASSUME NEW p \in Posts, Supersede(p) PROVE AnswersKnown'
  BY <1>4, SupersedeEffect DEF ChatTypeOK, AnswersKnown, AfterStop
<1>5. ASSUME NEW p \in Posts, Superseded(p) PROVE AnswersKnown'
  BY <1>5, NoneAssumption DEF Superseded, AnswersKnown, AfterStop
<1>6. ASSUME NEW p \in Posts, Deny(p) PROVE AnswersKnown'
  BY <1>6 DEF Deny, AnswersKnown
<1>7. ASSUME NEW p \in Posts, Launch(p) PROVE AnswersKnown'
  BY <1>7 DEF Launch, AnswersKnown
<1>8. ASSUME NEW p \in Posts, Unask(p) PROVE AnswersKnown'
  BY <1>8 DEF Unask, AnswersKnown
<1>9. ASSUME NEW p \in Posts, LaunchFails(p) PROVE AnswersKnown'
  BY <1>9 DEF LaunchFails, ChatTypeOK, AnswersKnown
<1>10. ASSUME NEW p \in Posts, RestoreRow(p) PROVE AnswersKnown'
  BY <1>10 DEF RestoreRow, AnswersKnown
<1>11. ASSUME NEW p \in Posts, Bind(p) PROVE AnswersKnown'
  BY <1>11 DEF Bind, AnswersKnown
<1>12. ASSUME NEW p \in Posts, Capture(p) PROVE AnswersKnown'
  BY <1>12 DEF Capture, AnswersKnown
<1>13. ASSUME NEW p \in Posts, SeeAsk(p) PROVE AnswersKnown'
  BY <1>13 DEF SeeAsk, AnswersKnown
<1>14. ASSUME NEW p \in Posts, SaveAsk(p) PROVE AnswersKnown'
  BY <1>14 DEF SaveAsk, AnswersKnown
<1>15. ASSUME NEW p \in Posts, Finish(p) PROVE AnswersKnown'
  BY <1>15 DEF Finish, AnswersKnown
<1>16. ASSUME NEW p \in Posts, ClearRow(p) PROVE AnswersKnown'
  BY <1>16 DEF ClearRow, AnswersKnown
<1>17. ASSUME NEW s \in Stops, NEW id \in Known \cup {None}, Stop(s, id)
     PROVE AnswersKnown'
  BY <1>17, StopEffect DEF AnswersKnown
<1>18. ASSUME NEW s \in Stops, StopEnds(s) PROVE AnswersKnown'
  BY <1>18 DEF StopEnds, AnswersKnown
<1>19. CASE Poll
  BY <1>19 DEF Poll, AnswersKnown
<1>20. CASE PollEnds
  BY <1>20 DEF PollEnds, AnswersKnown
<1>21. CASE Expire
  BY <1>21 DEF Expire, AnswersKnown
<1>22. CASE Restart
  BY <1>22, NoneAssumption DEF Restart, AnswersKnown, Dead, Handling, Streaming,
     Unserved
<1>23. CASE UNCHANGED vars
  BY <1>23 DEF vars, AnswersKnown
<1>24. QED
  BY <1>1, <1>2, <1>3, <1>4, <1>5, <1>6, <1>7, <1>8, <1>9, <1>10, <1>11, <1>12, <1>13,
     <1>14, <1>15, <1>16, <1>17, <1>18, <1>19, <1>20, <1>21, <1>22, <1>23 DEF Next,
     Requests, PostStep

\* The mapping names a stream that goes on: whoever ends a stream clears it.
LEMMA MappingStep ==
  ASSUME ChatTypeOK, AnswersKnown, Conversation, NoStaleMapping, [Next]_vars
  PROVE  NoStaleMapping'
<1>1. ASSUME NEW p \in Posts, Prompt(p) PROVE NoStaleMapping'
  BY <1>1 DEF Prompt, NoStaleMapping, Streaming
<1>2. ASSUME NEW p \in Posts, NEW a \in Posts, Answer(p, a) PROVE NoStaleMapping'
  BY <1>2 DEF Answer, NoStaleMapping, Streaming
<1>3. ASSUME NEW p \in Posts, Consume(p) PROVE NoStaleMapping'
  BY <1>3, ConsumeEffect DEF ChatTypeOK, NoStaleMapping, Streaming
<1>4. ASSUME NEW p \in Posts, Supersede(p) PROVE NoStaleMapping'
  BY <1>4, SupersedeEffect DEF ChatTypeOK, NoStaleMapping, Streaming
<1>5. ASSUME NEW p \in Posts, Superseded(p) PROVE NoStaleMapping'
  BY <1>5, NoneAssumption DEF Superseded, NoStaleMapping, Finalize
<1>6. ASSUME NEW p \in Posts, Deny(p) PROVE NoStaleMapping'
  BY <1>6 DEF Deny, NoStaleMapping, Streaming
<1>7. ASSUME NEW p \in Posts, Launch(p) PROVE NoStaleMapping'
  BY <1>7 DEF Launch, NoStaleMapping, Streaming
<1>8. ASSUME NEW p \in Posts, Unask(p) PROVE NoStaleMapping'
  BY <1>8 DEF Unask, NoStaleMapping, Streaming
<1>9. ASSUME NEW p \in Posts, LaunchFails(p) PROVE NoStaleMapping'
  BY <1>9 DEF LaunchFails, ChatTypeOK, NoStaleMapping, Streaming
<1>10. ASSUME NEW p \in Posts, RestoreRow(p) PROVE NoStaleMapping'
  BY <1>10 DEF RestoreRow, NoStaleMapping, Streaming
<1>11. ASSUME NEW p \in Posts, Bind(p) PROVE NoStaleMapping'
  BY <1>11 DEF Bind, ChatTypeOK, NoStaleMapping
<1>12. ASSUME NEW p \in Posts, Capture(p) PROVE NoStaleMapping'
  BY <1>12 DEF Capture, NoStaleMapping, Streaming
<1>13. ASSUME NEW p \in Posts, SeeAsk(p) PROVE NoStaleMapping'
  BY <1>13 DEF SeeAsk, NoStaleMapping, Streaming
<1>14. ASSUME NEW p \in Posts, SaveAsk(p) PROVE NoStaleMapping'
  BY <1>14 DEF SaveAsk, NoStaleMapping, Streaming
<1>15. ASSUME NEW p \in Posts, Finish(p) PROVE NoStaleMapping'
  BY <1>15 DEF Finish, NoStaleMapping
<1>16. ASSUME NEW p \in Posts, ClearRow(p) PROVE NoStaleMapping'
  BY <1>16 DEF ClearRow, NoStaleMapping, Streaming
<1>17. ASSUME NEW s \in Stops, NEW id \in Known \cup {None}, Stop(s, id)
     PROVE NoStaleMapping'
  BY <1>17, StopEffect DEF NoStaleMapping
<1>18. ASSUME NEW s \in Stops, StopEnds(s) PROVE NoStaleMapping'
  BY <1>18, NoneAssumption DEF StopEnds, NoStaleMapping, Finalize
<1>19. CASE Poll
  BY <1>19 DEF Poll, NoStaleMapping
<1>20. CASE PollEnds
  BY <1>20 DEF PollEnds, NoStaleMapping
<1>21. CASE Expire
  BY <1>21 DEF Expire, NoStaleMapping
<1>22. CASE Restart
  BY <1>22, NoneAssumption DEF Restart, NoStaleMapping
<1>23. CASE UNCHANGED vars
  BY <1>23 DEF vars, NoStaleMapping
<1>24. QED
  BY <1>1, <1>2, <1>3, <1>4, <1>5, <1>6, <1>7, <1>8, <1>9, <1>10, <1>11, <1>12, <1>13,
     <1>14, <1>15, <1>16, <1>17, <1>18, <1>19, <1>20, <1>21, <1>22, <1>23 DEF Next,
     Requests, PostStep

-----------------------------------------------------------------------------
(* Controllers *)

\* A stream that is told to stop loses its controller: what is on record stays
\* true, whoever the stream belongs to.
LEMMA CancelKeepsControllers ==
  ASSUME ChatTypeOK, Controllers, NEW x \in Posts, Cancel(x),
         Controlled' = Controlled, Early' \subseteq Early,
         \A p \in Posts : at[p] \in {"restoring", "failed"} => at'[p] = at[p]
  PROVE  Controllers'
<1> SUFFICES ASSUME NEW p \in Posts PROVE ControllerOf(p)'
  BY DEF Controllers
<1>1. ControllerOf(p)
  BY DEF Controllers
<1>2. /\ p \in registered' <=> p \in registered /\ p # x
      /\ aborted'[p] = (aborted[p] \/ (p = x /\ x \in registered))
  BY CancelEffect
<1>3. p \in registered => p \notin Early
  BY <1>1 DEF ControllerOf, Controlled, Early, Streaming
<1>4. QED BY <1>1, <1>2, <1>3 DEF ControllerOf

\* The controllers on record stay those of the runs that nobody told to stop.
LEMMA ControllersStep ==
  ASSUME ChatTypeOK, AnswersKnown, Conversation, Controllers, [Next]_vars
  PROVE  Controllers'
<1>1. ASSUME NEW p \in Posts, Prompt(p) PROVE Controllers'
  BY <1>1, NoneAssumption DEF Prompt, Controllers, ControllerOf, Controlled, Early,
     Streaming
<1>2. ASSUME NEW p \in Posts, NEW a \in Posts, Answer(p, a) PROVE Controllers'
  BY <1>2, NoneAssumption DEF Answer, Controllers, ControllerOf, Controlled, Early,
     Streaming
<1>3. ASSUME NEW p \in Posts, Consume(p) PROVE Controllers'
  <2>1. ASSUME NEW q \in Posts PROVE ControllerOf(q)'
    BY <1>3, ConsumeEffect DEF ChatTypeOK, Controllers, ControllerOf, Controlled, Early,
       Streaming
  <2>2. QED BY <2>1 DEF Controllers
<1>4. ASSUME NEW p \in Posts, Supersede(p) PROVE Controllers'
  <2>1. CASE UNCHANGED <<aborted, registered>>
    BY <1>4, <2>1, SupersedeEffect DEF ChatTypeOK, AnswersKnown, Controllers,
       ControllerOf, Controlled, Early, AfterStop, Streaming
  <2>2. ASSUME NEW x \in Posts, Cancel(x), at' = [at EXCEPT ![p] = "superseding"]
        PROVE  Controllers'
    <3>1. Controlled' = Controlled /\ Early' \subseteq Early
      <4>1. /\ at'[p] = "superseding" /\ at[p] \in {"arrived", "consumed"}
            /\ want[p] = None <=> at[p] = "arrived"
            /\ \A q \in Posts \ {p} : at'[q] = at[q]
            /\ want' = want
        BY <1>4, <2>2, SupersedeEffect DEF ChatTypeOK, AnswersKnown
      <4>2. \A q \in Posts : q \in Controlled' <=> q \in Controlled
        BY <4>1 DEF Controlled, Streaming
      <4>3. QED BY <4>1, <4>2 DEF Controlled, Early
    <3>2. \A q \in Posts : at[q] \in {"restoring", "failed"} => at'[q] = at[q]
      BY <1>4, <2>2, SupersedeEffect DEF ChatTypeOK
    <3>3. QED BY <2>2, <3>1, <3>2, CancelKeepsControllers
  <2>3. QED BY <1>4, <2>1, <2>2, SupersedeEffect
<1>5. ASSUME NEW p \in Posts, Superseded(p) PROVE Controllers'
  BY <1>5, NoneAssumption DEF Superseded, Controllers, ControllerOf, Controlled, Early,
     Streaming, Finalize, AfterStop
<1>6. ASSUME NEW p \in Posts, Deny(p) PROVE Controllers'
  BY <1>6, NoneAssumption DEF Deny, Controllers, ControllerOf, Controlled, Early,
     Streaming
<1>7. ASSUME NEW p \in Posts, Launch(p) PROVE Controllers'
  BY <1>7, NoneAssumption DEF Launch, ChatTypeOK, Controllers, ControllerOf, Controlled,
     Early, Streaming
<1>8. ASSUME NEW p \in Posts, Unask(p) PROVE Controllers'
  BY <1>8, NoneAssumption DEF Unask, Controllers, ControllerOf, Controlled, Early,
     Streaming
<1>9. ASSUME NEW p \in Posts, LaunchFails(p) PROVE Controllers'
  BY <1>9, NoneAssumption DEF LaunchFails, ChatTypeOK, Controllers, ControllerOf,
     Controlled, Early, Streaming
<1>10. ASSUME NEW p \in Posts, RestoreRow(p) PROVE Controllers'
  BY <1>10, NoneAssumption DEF RestoreRow, Controllers, ControllerOf, Controlled, Early,
     Streaming
<1>11. ASSUME NEW p \in Posts, Bind(p) PROVE Controllers'
  BY <1>11, NoneAssumption DEF Bind, Controllers, ControllerOf, Controlled, Early,
     Streaming
<1>12. ASSUME NEW p \in Posts, Capture(p) PROVE Controllers'
  BY <1>12, NoneAssumption DEF Capture, Controllers, ControllerOf, Controlled, Early,
     Streaming
<1>13. ASSUME NEW p \in Posts, SeeAsk(p) PROVE Controllers'
  BY <1>13, NoneAssumption DEF SeeAsk, Controllers, ControllerOf, Controlled, Early,
     Streaming
<1>14. ASSUME NEW p \in Posts, SaveAsk(p) PROVE Controllers'
  BY <1>14, NoneAssumption DEF SaveAsk, Controllers, ControllerOf, Controlled, Early,
     Streaming
<1>15. ASSUME NEW p \in Posts, Finish(p) PROVE Controllers'
  BY <1>15, NoneAssumption DEF Finish, ChatTypeOK, Controllers, ControllerOf,
     Controlled, Early, Streaming
<1>16. ASSUME NEW p \in Posts, ClearRow(p) PROVE Controllers'
  BY <1>16, NoneAssumption DEF ClearRow, Controllers, ControllerOf, Controlled, Early,
     Streaming
<1>17. ASSUME NEW s \in Stops, NEW id \in Known \cup {None}, Stop(s, id)
     PROVE Controllers'
  <2>1. CASE UNCHANGED <<aborted, registered>>
    BY <1>17, <2>1, StopEffect DEF Controllers, ControllerOf, Controlled, Early
  <2>2. ASSUME NEW x \in Posts, Cancel(x) PROVE Controllers'
    BY <1>17, <2>2, StopEffect, CancelKeepsControllers DEF Controlled, Early
  <2>3. QED BY <1>17, <2>1, <2>2, StopEffect
<1>18. ASSUME NEW s \in Stops, StopEnds(s) PROVE Controllers'
  BY <1>18, NoneAssumption DEF StopEnds, Controllers, ControllerOf, Controlled, Early,
     Streaming, Finalize
<1>19. CASE Poll
  BY <1>19, NoneAssumption DEF Poll, Controllers, ControllerOf, Controlled, Early,
     Streaming
<1>20. CASE PollEnds
  BY <1>20, NoneAssumption DEF PollEnds, Controllers, ControllerOf, Controlled, Early,
     Streaming
<1>21. CASE Expire
  BY <1>21, NoneAssumption DEF Expire, Controllers, ControllerOf, Controlled, Early,
     Streaming
<1>22. CASE Restart
  BY <1>22, NoneAssumption DEF Restart, Controllers, ControllerOf, Controlled, Early,
     Streaming, Started, Places, Dead, Handling, Unserved
<1>23. CASE UNCHANGED vars
  BY <1>23, NoneAssumption DEF vars, Controllers, ControllerOf, Controlled, Early,
     Streaming
<1>24. QED
  BY <1>1, <1>2, <1>3, <1>4, <1>5, <1>6, <1>7, <1>8, <1>9, <1>10, <1>11, <1>12, <1>13,
     <1>14, <1>15, <1>16, <1>17, <1>18, <1>19, <1>20, <1>21, <1>22, <1>23 DEF Next,
     Requests, PostStep

-----------------------------------------------------------------------------
(* Conversation *)

\* Steps that ask, answer and restore nothing: a post that is idle stays idle, one
\* that asked keeps a place where it may have asked, and no question is added.
Uneventful ==
  /\ UNCHANGED <<want, run, asked>>
  /\ row' \in {row, None}
  /\ \A p \in Posts : at'[p] = "idle" <=> at[p] = "idle"
  /\ \A p \in Posts : at[p] \in {"running", "closed", "killed"} =>
       at'[p] \in {"running", "closed", "killed"} \/ ~asked[p]
  /\ \A r \in Posts : \/ suspended'[r] = None
                      \/ /\ suspended'[r] = suspended[r]
                         /\ suspended[r] # None /\ at[suspended[r]] = "saving"
                              => at'[suspended[r]] = "saving"

\* Such a step keeps what is said of the conversation.
LEMMA UneventfulKeeps ==
  ASSUME ChatTypeOK, Conversation, Uneventful
  PROVE  Conversation'
<1>1. ASSUME NEW p \in Posts PROVE RunOf(p)'
  BY DEF Uneventful, Conversation, RunOf
<1>2. ASSUME NEW r \in Posts PROVE OpenQuestion(r)'
  BY DEF Uneventful, Conversation, OpenQuestion
<1>3. row' # None => asked'[row']
  BY DEF Uneventful, Conversation
<1>4. QED BY <1>1, <1>2, <1>3 DEF Conversation

\* Every answer stays the answer of a question that its run asked.
LEMMA ConversationStep ==
  ASSUME ChatTypeOK, AnswersKnown, Conversation, [Next]_vars
  PROVE  Conversation'
<1>1. ASSUME NEW p \in Posts, Prompt(p) PROVE Conversation'
  <2>1. ASSUME NEW q \in Posts PROVE RunOf(q)'
    BY <1>1, NoneAssumption DEF Prompt, ChatTypeOK, Conversation, RunOf
  <2>2. ASSUME NEW r \in Posts PROVE OpenQuestion(r)'
    BY <1>1, NoneAssumption DEF Prompt, Conversation, RunOf, OpenQuestion
  <2>3. row' # None => asked'[row']
    BY <1>1, NoneAssumption DEF Prompt, Conversation
  <2>4. QED BY <2>1, <2>2, <2>3 DEF Conversation
<1>2. ASSUME NEW p \in Posts, NEW a \in Posts, Answer(p, a) PROVE Conversation'
  <2>1. ASSUME NEW q \in Posts PROVE RunOf(q)'
    BY <1>2, NoneAssumption DEF Answer, ChatTypeOK, Conversation, RunOf
  <2>2. ASSUME NEW r \in Posts PROVE OpenQuestion(r)'
    BY <1>2, NoneAssumption DEF Answer, Conversation, RunOf, OpenQuestion
  <2>3. row' # None => asked'[row']
    BY <1>2, NoneAssumption DEF Answer, Conversation
  <2>4. QED BY <2>1, <2>2, <2>3 DEF Conversation
<1>3. ASSUME NEW p \in Posts, Consume(p) PROVE Conversation'
  <2>1. Uneventful
    BY <1>3, ConsumeEffect, NoneAssumption DEF Uneventful, ChatTypeOK
  <2>2. QED BY <2>1, UneventfulKeeps
<1>4. ASSUME NEW p \in Posts, Supersede(p) PROVE Conversation'
  <2>1. Uneventful
    BY <1>4, SupersedeEffect, NoneAssumption DEF Uneventful, ChatTypeOK, AfterStop
  <2>2. QED BY <2>1, UneventfulKeeps
<1>5. ASSUME NEW p \in Posts, Superseded(p) PROVE Conversation'
  <2>1. Uneventful
    BY <1>5, NoneAssumption DEF Superseded, Uneventful, AfterStop
  <2>2. QED BY <2>1, UneventfulKeeps
<1>6. ASSUME NEW p \in Posts, Deny(p) PROVE Conversation'
  <2>1. Uneventful
    BY <1>6, NoneAssumption DEF Deny, Uneventful
  <2>2. QED BY <2>1, UneventfulKeeps
<1>7. ASSUME NEW p \in Posts, Launch(p) PROVE Conversation'
  <2>1. Uneventful
    BY <1>7, NoneAssumption DEF Launch, Uneventful
  <2>2. QED BY <2>1, UneventfulKeeps
<1>8. ASSUME NEW p \in Posts, Unask(p) PROVE Conversation'
  <2>1. Uneventful
    BY <1>8, NoneAssumption DEF Unask, Uneventful
  <2>2. QED BY <2>1, UneventfulKeeps
<1>9. ASSUME NEW p \in Posts, LaunchFails(p) PROVE Conversation'
  <2>1. ASSUME NEW q \in Posts PROVE RunOf(q)'
    BY <1>9, NoneAssumption DEF LaunchFails, ChatTypeOK, Conversation, RunOf
  <2>2. ASSUME NEW r \in Posts PROVE OpenQuestion(r)'
    BY <1>9, NoneAssumption DEF LaunchFails, ChatTypeOK, Conversation, RunOf,
       OpenQuestion
  <2>3. row' # None => asked'[row']
    BY <1>9, NoneAssumption DEF LaunchFails, Conversation
  <2>4. QED BY <2>1, <2>2, <2>3 DEF Conversation
<1>10. ASSUME NEW p \in Posts, RestoreRow(p) PROVE Conversation'
  <2>1. ASSUME NEW q \in Posts PROVE RunOf(q)'
    BY <1>10, NoneAssumption DEF RestoreRow, Conversation, RunOf
  <2>2. ASSUME NEW r \in Posts PROVE OpenQuestion(r)'
    BY <1>10, NoneAssumption DEF RestoreRow, Conversation, OpenQuestion
  <2>3. row' # None => asked'[row']
    BY <1>10, NoneAssumption DEF RestoreRow, Conversation, RunOf
  <2>4. QED BY <2>1, <2>2, <2>3 DEF Conversation
<1>11. ASSUME NEW p \in Posts, Bind(p) PROVE Conversation'
  <2>1. Uneventful
    BY <1>11, NoneAssumption DEF Bind, Uneventful
  <2>2. QED BY <2>1, UneventfulKeeps
<1>12. ASSUME NEW p \in Posts, Capture(p) PROVE Conversation'
  <2>1. Uneventful
    BY <1>12, NoneAssumption DEF Capture, Uneventful
  <2>2. QED BY <2>1, UneventfulKeeps
<1>13. ASSUME NEW p \in Posts, SeeAsk(p) PROVE Conversation'
  <2>1. ASSUME NEW q \in Posts PROVE RunOf(q)'
    BY <1>13, NoneAssumption DEF SeeAsk, Conversation, RunOf
  <2>2. ASSUME NEW r \in Posts PROVE OpenQuestion(r)'
    BY <1>13, NoneAssumption DEF SeeAsk, ChatTypeOK, Conversation, OpenQuestion
  <2>3. row' # None => asked'[row']
    BY <1>13, NoneAssumption DEF SeeAsk, Conversation
  <2>4. QED BY <2>1, <2>2, <2>3 DEF Conversation
<1>14. ASSUME NEW p \in Posts, SaveAsk(p) PROVE Conversation'
  <2>1. ASSUME NEW q \in Posts PROVE RunOf(q)'
    BY <1>14, NoneAssumption DEF SaveAsk, ChatTypeOK, Conversation, RunOf
  <2>2. ASSUME NEW r \in Posts PROVE OpenQuestion(r)'
    BY <1>14, NoneAssumption DEF SaveAsk, ChatTypeOK, Conversation, OpenQuestion
  <2>3. row' # None => asked'[row']
    BY <1>14, NoneAssumption DEF SaveAsk, ChatTypeOK
  <2>4. QED BY <2>1, <2>2, <2>3 DEF Conversation
<1>15. ASSUME NEW p \in Posts, Finish(p) PROVE Conversation'
  <2>1. Uneventful
    BY <1>15, NoneAssumption DEF Finish, Uneventful
  <2>2. QED BY <2>1, UneventfulKeeps
<1>16. ASSUME NEW p \in Posts, ClearRow(p) PROVE Conversation'
  <2>1. Uneventful
    BY <1>16, NoneAssumption DEF ClearRow, Uneventful
  <2>2. QED BY <2>1, UneventfulKeeps
<1>17. ASSUME NEW s \in Stops, NEW id \in Known \cup {None}, Stop(s, id)
     PROVE Conversation'
  <2>1. Uneventful
    BY <1>17, StopEffect, NoneAssumption DEF Uneventful
  <2>2. QED BY <2>1, UneventfulKeeps
<1>18. ASSUME NEW s \in Stops, StopEnds(s) PROVE Conversation'
  <2>1. Uneventful
    BY <1>18, NoneAssumption DEF StopEnds, Uneventful
  <2>2. QED BY <2>1, UneventfulKeeps
<1>19. CASE Poll
  <2>1. Uneventful
    BY <1>19, NoneAssumption DEF Poll, Uneventful
  <2>2. QED BY <2>1, UneventfulKeeps
<1>20. CASE PollEnds
  <2>1. Uneventful
    BY <1>20, NoneAssumption DEF PollEnds, Uneventful
  <2>2. QED BY <2>1, UneventfulKeeps
<1>21. CASE Expire
  <2>1. Uneventful
    BY <1>21, NoneAssumption DEF Expire, Uneventful
  <2>2. QED BY <2>1, UneventfulKeeps
<1>22. CASE Restart
  <2>1. Uneventful
    BY <1>22, NoneAssumption DEF Restart, Uneventful, Started, Places, Dead, Handling,
       Streaming, Unserved
  <2>2. QED BY <2>1, UneventfulKeeps
<1>23. CASE UNCHANGED vars
  BY <1>23 DEF vars, Conversation, RunOf, OpenQuestion
<1>24. QED
  BY <1>1, <1>2, <1>3, <1>4, <1>5, <1>6, <1>7, <1>8, <1>9, <1>10, <1>11, <1>12, <1>13,
     <1>14, <1>15, <1>16, <1>17, <1>18, <1>19, <1>20, <1>21, <1>22, <1>23 DEF Next,
     Requests, PostStep

-----------------------------------------------------------------------------
(* One holder *)

\* Steps that let nobody into a run and leave the registry of questions alone.
KeepsHolders ==
  /\ \A p \in Posts : Holder(p)' =>
       Holder(p) /\ run'[p] = run[p] /\ want'[p] = want[p]
  /\ \A p \in Posts : (Holder(p) \/ Ender(p)) /\ want[p] # None =>
       (Holder(p)' \/ Ender(p)') /\ run'[p] = run[p] /\ want'[p] = want[p]
  /\ UNCHANGED <<suspended, consumed>>

\* Such a step leaves every run with one holder at most.
LEMMA HoldersKept ==
  ASSUME OneHolder, KeepsHolders
  PROVE  OneHolder'
<1>1. ASSUME NEW p \in Posts, NEW q \in Posts, Holder(p)', Holder(q)', run'[p] = run'[q]
      PROVE  p = q
  BY <1>1 DEF OneHolder, KeepsHolders
<1>2. ASSUME NEW p \in Posts, Holder(p)'
      PROVE  suspended'[run'[p]] = None /\ (want'[p] # None => run'[p] \in consumed')
  BY <1>2 DEF OneHolder, KeepsHolders
<1>3. ASSUME NEW r \in consumed'
      PROVE  \E p \in Posts : (Holder(p)' \/ Ender(p)') /\ run'[p] = r /\ want'[p] # None
  BY <1>3 DEF OneHolder, KeepsHolders
<1>4. QED BY <1>1, <1>2, <1>3 DEF OneHolder

\* The run of a prompt that has not started yet is nobody else's, and asked nothing.
LEMMA NewRun ==
  ASSUME ChatTypeOK, Conversation, NEW p \in Posts, at[p] = "preparing", want[p] = None
  PROVE  /\ run[p] = p /\ ~asked[p] /\ suspended[p] = None
         /\ \A q \in Posts : run[q] = p => q = p
<1>1. run[p] = p /\ ~asked[p]
  BY DEF Conversation, RunOf
<1>2. ASSUME NEW q \in Posts, run[q] = p PROVE q = p
  <2>1. want[q] = None
    BY <1>1, <1>2 DEF Conversation, RunOf
  <2>2. at[q] # "idle"
    BY <1>2 DEF Conversation, RunOf
  <2>3. QED BY <1>2, <2>1, <2>2 DEF Conversation, RunOf
<1>3. suspended[p] = None
  <2>1. SUFFICES ASSUME suspended[p] # None PROVE FALSE
    OBVIOUS
  <2>2. suspended[p] \in Posts
    BY <2>1 DEF ChatTypeOK
  <2>3. suspended[p] = p
    BY <2>1, <2>2, <1>2 DEF Conversation, OpenQuestion
  <2>4. QED BY <1>1, <2>1, <2>3 DEF Conversation, OpenQuestion
<1>4. QED BY <1>1, <1>2, <1>3

\* A run whose question can be consumed has no holder.
LEMMA NoHolderYet ==
  ASSUME ChatTypeOK, Conversation, OneHolder, NEW p \in Posts, NEW q \in Posts,
         want[p] # None, run[q] = run[p],
         suspended[run[p]] = want[p] \/ run[p] \notin consumed
  PROVE  ~Holder(q)
<1> SUFFICES ASSUME Holder(q) PROVE FALSE
  OBVIOUS
<1>1. suspended[run[q]] = None
  BY DEF OneHolder
<1>2. want[q] = None
  BY <1>1 DEF OneHolder
<1>3. at[q] # "idle"
  BY DEF Holder
<1>4. run[q] = q
  BY <1>2, <1>3 DEF Conversation, RunOf
<1>5. asked[run[p]]
  BY DEF Conversation, RunOf
<1>6. QED BY <1>4, <1>5 DEF Holder

\* Nobody is let into a run that somebody holds, and whoever lets go of a run has
\* asked its next question, put the question back, or ended it.
LEMMA HolderStep ==
  ASSUME ChatTypeOK, AnswersKnown, Conversation, OneHolder, [Next]_vars
  PROVE  OneHolder'
<1>1. ASSUME NEW p \in Posts, Prompt(p) PROVE OneHolder'
  <2>1. KeepsHolders
    BY <1>1, NoneAssumption DEF Prompt, KeepsHolders, Holder, Ender, Conversation,
       RunOf, AnswersKnown
  <2>2. QED BY <2>1, HoldersKept
<1>2. ASSUME NEW p \in Posts, NEW a \in Posts, Answer(p, a) PROVE OneHolder'
  <2>1. KeepsHolders
    BY <1>2, NoneAssumption DEF Answer, KeepsHolders, Holder, Ender, Conversation,
       RunOf, AnswersKnown
  <2>2. QED BY <2>1, HoldersKept
<1>3. ASSUME NEW p \in Posts, Consume(p) PROVE OneHolder'
  <2>1. CASE UNCHANGED <<suspended, consumed, registered>> /\ at' = [at EXCEPT ![p] = "refused"]
    <3>1. KeepsHolders
      BY <1>3, <2>1, ConsumeEffect DEF KeepsHolders, Holder, Ender, ChatTypeOK
    <3>2. QED BY <3>1, HoldersKept
  <2>2. CASE at' = [at EXCEPT ![p] = "consumed"]
    <3>1. /\ want[p] # None /\ run[p] \in Posts /\ want' = want /\ run' = run
          /\ suspended' = [suspended EXCEPT ![run[p]] = None]
          /\ consumed' = consumed \cup {run[p]}
          /\ suspended[run[p]] = want[p] \/ run[p] \notin consumed
      <4>1. at'[p] # "refused" /\ p \in DOMAIN at
        BY <2>2 DEF ChatTypeOK
      <4>2. QED BY <1>3, <4>1, ConsumeEffect, NoneAssumption
    <3>2. \A q \in Posts : run[q] = run[p] => ~Holder(q)
      BY <3>1, NoHolderYet
    <3>3. /\ at[p] = "resuming" /\ ~asked[p] /\ asked' = asked
      BY <1>3, ConsumeEffect DEF Conversation, RunOf
    <3>4. /\ Holder(p)' /\ ~Ender(p)
          /\ \A q \in Posts \ {p} : Holder(q)' <=> Holder(q)
          /\ \A q \in Posts \ {p} : Ender(q)' <=> Ender(q)
      BY <2>2, <3>1, <3>3 DEF Holder, Ender, ChatTypeOK
    <3>5. ASSUME NEW q \in Posts, NEW o \in Posts, Holder(q)', Holder(o)', run'[q] = run'[o]
          PROVE  q = o
      BY <3>1, <3>2, <3>4, <3>5 DEF OneHolder
    <3>6. ASSUME NEW q \in Posts, Holder(q)'
          PROVE  suspended'[run'[q]] = None /\ (want'[q] # None => run'[q] \in consumed')
      <4>1. suspended' \in [Posts -> Nullable] /\ suspended \in [Posts -> Nullable]
        BY <3>1 DEF ChatTypeOK
      <4>2. CASE q = p
        BY <3>1, <4>1, <4>2
      <4>3. CASE q # p
        BY <3>1, <3>4, <3>6, <4>1, <4>3, <3>2 DEF OneHolder
      <4>4. QED BY <4>2, <4>3
    <3>7. ASSUME NEW r \in consumed'
          PROVE  \E q \in Posts : (Holder(q)' \/ Ender(q)') /\ run'[q] = r /\ want'[q] # None
      <4>1. CASE r = run[p]
        BY <3>1, <3>4, <4>1
      <4>2. CASE r # run[p]
        <5>1. PICK q \in Posts : (Holder(q) \/ Ender(q)) /\ run[q] = r /\ want[q] # None
          BY <3>1, <3>7, <4>2 DEF OneHolder
        <5>2. QED BY <3>1, <3>4, <4>2, <5>1
      <4>3. QED BY <4>1, <4>2
    <3>8. QED BY <3>5, <3>6, <3>7 DEF OneHolder
  <2>3. QED BY <1>3, <2>1, <2>2, ConsumeEffect
<1>4. ASSUME NEW p \in Posts, Supersede(p) PROVE OneHolder'
  <2>1. KeepsHolders
    BY <1>4, SupersedeEffect, NoneAssumption DEF KeepsHolders, Holder, Ender,
       ChatTypeOK, RunOf, AnswersKnown, AfterStop
  <2>2. QED BY <2>1, HoldersKept
<1>5. ASSUME NEW p \in Posts, Superseded(p) PROVE OneHolder'
  <2>1. KeepsHolders
    BY <1>5, NoneAssumption DEF Superseded, KeepsHolders, Holder, Ender, Conversation,
       RunOf, AnswersKnown, AfterStop
  <2>2. QED BY <2>1, HoldersKept
<1>6. ASSUME NEW p \in Posts, Deny(p) PROVE OneHolder'
  <2>1. KeepsHolders
    BY <1>6, NoneAssumption DEF Deny, KeepsHolders, Holder, Ender, Conversation, RunOf,
       AnswersKnown
  <2>2. QED BY <2>1, HoldersKept
<1>7. ASSUME NEW p \in Posts, Launch(p) PROVE OneHolder'
  <2>1. want[p] = None /\ at[p] = "preparing"
    BY <1>7 DEF Launch, AnswersKnown
  <2>2. run[p] = p /\ suspended[p] = None /\ \A q \in Posts : run[q] = p => q = p
    BY <2>1, NewRun
  <2>3. /\ \A q \in Posts \ {p} : Holder(q)' <=> Holder(q)
        /\ \A q \in Posts \ {p} : Ender(q)' <=> Ender(q)
        /\ ~Ender(p) /\ UNCHANGED <<run, want, suspended, consumed>>
    BY <1>7, <2>1 DEF Launch, Holder, Ender
  <2>4. QED BY <2>1, <2>2, <2>3 DEF OneHolder
<1>8. ASSUME NEW p \in Posts, Unask(p) PROVE OneHolder'
  <2>1. KeepsHolders
    BY <1>8, NoneAssumption DEF Unask, KeepsHolders, Holder, Ender, Conversation, RunOf,
       AnswersKnown
  <2>2. QED BY <2>1, HoldersKept
<1>9. ASSUME NEW p \in Posts, LaunchFails(p) PROVE OneHolder'
  <2>1. CASE want[p] = None
    <3>1. KeepsHolders
      BY <1>9, <2>1 DEF LaunchFails, KeepsHolders, Holder, Ender, ChatTypeOK
    <3>2. QED BY <3>1, HoldersKept
  <2>2. CASE want[p] # None
    <3>1. /\ Holder(p) /\ ~Holder(p)'
          /\ at[p] = "launching" /\ run[p] \in Posts
      BY <1>9, <2>2, NoneAssumption DEF LaunchFails, ChatTypeOK, Conversation, RunOf,
         Holder
    <3>2. /\ \A q \in Posts \ {p} : Holder(q)' <=> Holder(q)
          /\ \A q \in Posts \ {p} : Ender(q)' <=> Ender(q)
          /\ ~Ender(p)
      BY <1>9, <2>2, <3>1 DEF LaunchFails, ChatTypeOK, Holder, Ender
    <3>3. /\ run' = run /\ want' = want
          /\ \A r \in Posts \ {run[p]} : suspended'[r] = suspended[r]
          /\ consumed' = consumed \ {run[p]}
      BY <1>9, <2>2 DEF LaunchFails, ChatTypeOK
    <3>4. \A q \in Posts : Holder(q)' => q # p /\ Holder(q) /\ run[q] # run[p] /\ run[q] \in Posts
      BY <3>1, <3>2, NoneAssumption DEF OneHolder, ChatTypeOK, Conversation, RunOf,
         Holder
    <3>5. QED BY <3>1, <3>2, <3>3, <3>4 DEF OneHolder
  <2>3. QED BY <2>1, <2>2
<1>10. ASSUME NEW p \in Posts, RestoreRow(p) PROVE OneHolder'
  <2>1. KeepsHolders
    BY <1>10, NoneAssumption DEF RestoreRow, KeepsHolders, Holder, Ender, Conversation,
       RunOf, AnswersKnown
  <2>2. QED BY <2>1, HoldersKept
<1>11. ASSUME NEW p \in Posts, Bind(p) PROVE OneHolder'
  <2>1. KeepsHolders
    BY <1>11, NoneAssumption DEF Bind, KeepsHolders, Holder, Ender, Conversation, RunOf,
       AnswersKnown
  <2>2. QED BY <2>1, HoldersKept
<1>12. ASSUME NEW p \in Posts, Capture(p) PROVE OneHolder'
  <2>1. KeepsHolders
    BY <1>12, NoneAssumption DEF Capture, KeepsHolders, Holder, Ender, Conversation,
       RunOf, AnswersKnown
  <2>2. QED BY <2>1, HoldersKept
<1>13. ASSUME NEW p \in Posts, SeeAsk(p) PROVE OneHolder'
  <2>1. /\ Holder(p) /\ ~Holder(p)'
        /\ at[p] = "running" /\ run[p] \in Posts
    BY <1>13, NoneAssumption DEF SeeAsk, ChatTypeOK, Conversation, RunOf, Holder
  <2>2. /\ \A q \in Posts \ {p} : Holder(q)' <=> Holder(q)
        /\ \A q \in Posts \ {p} : Ender(q)' <=> Ender(q)
        /\ ~Ender(p)
    BY <1>13, <2>1 DEF SeeAsk, Holder, Ender
  <2>3. /\ run' = run /\ want' = want
        /\ \A r \in Posts \ {run[p]} : suspended'[r] = suspended[r]
        /\ consumed' = consumed \ {run[p]}
    BY <1>13 DEF SeeAsk
  <2>4. \A q \in Posts : Holder(q)' => q # p /\ Holder(q) /\ run[q] # run[p] /\ run[q] \in Posts
    BY <2>1, <2>2, NoneAssumption DEF OneHolder, ChatTypeOK, Conversation, RunOf, Holder
  <2>5. QED BY <2>1, <2>2, <2>3, <2>4 DEF OneHolder
<1>14. ASSUME NEW p \in Posts, SaveAsk(p) PROVE OneHolder'
  <2>1. KeepsHolders
    BY <1>14, NoneAssumption DEF SaveAsk, KeepsHolders, Holder, Ender, ChatTypeOK,
       Conversation, RunOf, AnswersKnown
  <2>2. QED BY <2>1, HoldersKept
<1>15. ASSUME NEW p \in Posts, Finish(p) PROVE OneHolder'
  <2>1. KeepsHolders
    BY <1>15, NoneAssumption DEF Finish, KeepsHolders, Holder, Ender, Conversation,
       RunOf, AnswersKnown
  <2>2. QED BY <2>1, HoldersKept
<1>16. ASSUME NEW p \in Posts, ClearRow(p) PROVE OneHolder'
  <2>1. KeepsHolders
    BY <1>16, NoneAssumption DEF ClearRow, KeepsHolders, Holder, Ender, Conversation,
       RunOf, AnswersKnown
  <2>2. QED BY <2>1, HoldersKept
<1>17. ASSUME NEW s \in Stops, NEW id \in Known \cup {None}, Stop(s, id)
     PROVE OneHolder'
  <2>1. KeepsHolders
    BY <1>17, StopEffect, NoneAssumption DEF KeepsHolders, Holder, Ender, RunOf,
       AnswersKnown
  <2>2. QED BY <2>1, HoldersKept
<1>18. ASSUME NEW s \in Stops, StopEnds(s) PROVE OneHolder'
  <2>1. KeepsHolders
    BY <1>18, NoneAssumption DEF StopEnds, KeepsHolders, Holder, Ender, Conversation,
       RunOf, AnswersKnown
  <2>2. QED BY <2>1, HoldersKept
<1>19. CASE Poll
  <2>1. KeepsHolders
    BY <1>19, NoneAssumption DEF Poll, KeepsHolders, Holder, Ender, Conversation, RunOf,
       AnswersKnown
  <2>2. QED BY <2>1, HoldersKept
<1>20. CASE PollEnds
  <2>1. KeepsHolders
    BY <1>20, NoneAssumption DEF PollEnds, KeepsHolders, Holder, Ender, Conversation,
       RunOf, AnswersKnown
  <2>2. QED BY <2>1, HoldersKept
<1>21. CASE Expire
  <2>1. KeepsHolders
    BY <1>21, NoneAssumption DEF Expire, KeepsHolders, Holder, Ender, Conversation,
       RunOf, AnswersKnown
  <2>2. QED BY <2>1, HoldersKept
<1>22. CASE Restart
  <2>1. consumed' = {} /\ \A p \in Posts : ~Holder(p)'
    BY <1>22 DEF Restart, Holder, Dead, Handling, Streaming, Unserved
  <2>2. QED BY <2>1 DEF OneHolder
<1>23. CASE UNCHANGED vars
  <2>1. KeepsHolders
    BY <1>23 DEF vars, KeepsHolders, Holder, Ender
  <2>2. QED BY <2>1, HoldersKept
<1>24. QED
  BY <1>1, <1>2, <1>3, <1>4, <1>5, <1>6, <1>7, <1>8, <1>9, <1>10, <1>11, <1>12, <1>13,
     <1>14, <1>15, <1>16, <1>17, <1>18, <1>19, <1>20, <1>21, <1>22, <1>23 DEF Next,
     Requests, PostStep

-----------------------------------------------------------------------------
(* An answer is given once *)

\* An answer that was given is of a question that was asked; it holds its run, ended
\* it, or was killed with the server.
LEMMA GivenFacts ==
  ASSUME ChatTypeOK, Conversation, NEW p \in Posts, Given(p)
  PROVE  /\ want[p] \in Posts /\ run[p] \in Posts /\ at[p] # "idle"
         /\ asked[want[p]] /\ asked[run[p]] /\ run[want[p]] = run[p] /\ ~asked[p]
         /\ Holder(p) \/ at[p] = "closed" \/ at[p] = "killed"
<1>1. want[p] \in Posts /\ ~asked[p]
  BY DEF Given, Asks, ChatTypeOK
<1>2. at[p] # "idle" /\ (Holder(p) \/ at[p] = "closed" \/ at[p] = "killed")
  BY DEF Given, Started, Asks, Holder, Streaming, Dead, ChatTypeOK
<1>3. asked[want[p]] /\ asked[run[p]] /\ run[want[p]] = run[p] /\ run[p] # None
  BY <1>1, <1>2, NoneAssumption DEF Conversation, RunOf
<1>4. run[p] \in Posts
  BY <1>3 DEF ChatTypeOK
<1>5. QED BY <1>1, <1>2, <1>3, <1>4

\* Who is let into a run finds no spent answer to the same question, and none in
\* the run for which its being over would matter.
LEMMA HolderFirst ==
  ASSUME ChatTypeOK, Conversation, OneHolder, SpentForGood,
         NEW p \in Posts, Holder(p), NEW q \in Posts, Spent(q)
  PROVE  /\ want[q] = want[p] => q = p
         /\ run[q] = run[p] => ~RunOver(q)
<1>1. Given(q) /\ (Holder(q) \/ at[q] = "closed" \/ at[q] = "killed")
  BY GivenFacts DEF Spent
<1>2. run[q] = run[p] => ~RunOver(q)
  BY DEF RunOver
<1>3. ASSUME want[q] = want[p] PROVE q = p
  <2>1. ~Forgotten(q)
    BY <1>3 DEF Forgotten
  <2>2. want[p] # None
    BY <1>1, <1>3 DEF Given
  <2>3. run[q] = run[p]
    BY <1>1, <1>3, <2>2 DEF Conversation, RunOf
  <2>4. QED BY <1>1, <1>2, <2>1, <2>3 DEF SpentForGood, OneHolder
<1>4. QED BY <1>2, <1>3

\* No answer is given to the agent, and a failed one stays failed.
GivesNothing ==
  /\ \A p \in Posts : Given(p)' => Given(p) /\ want'[p] = want[p] /\ run'[p] = run[p]
  /\ \A b \in Posts : at[b] = "failed" => at'[b] = "failed" /\ want'[b] = want[b]

\* ... so a post that is spent afterwards was spent before.
LEMMA SpentBefore ==
  ASSUME GivesNothing, NEW p \in Posts, Spent(p)'
  PROVE  Spent(p) /\ Given(p) /\ want'[p] = want[p] /\ run'[p] = run[p]
BY DEF GivesNothing, Spent

\* Steps that moreover let nobody into a run, and put no question back: a request
\* may at most begin to read the row.
KeepsSpent ==
  /\ GivesNothing
  /\ row' \in {row, None}
  /\ \A p \in Posts : Given(p)' /\ at'[p] \in {"closed", "killed"} => at'[p] = at[p]
  /\ \A p \in Posts : Holder(p)' => Holder(p) /\ run'[p] = run[p] /\ want'[p] = want[p]
  /\ \A p \in Posts : at'[p] = "resuming" =>
       \/ at[p] = "resuming" /\ seen'[p] = seen[p] /\ want'[p] = want[p]
       \/ seen'[p] = row
  /\ \A r \in Posts : suspended'[r] \in {suspended[r], None}
  /\ consumed \subseteq consumed'

\* SpentForGood after such a step, from what it does to the answers spent before.
LEMMA SpentCarried ==
  ASSUME SpentForGood, GivesNothing,
         \A q \in Posts : Spent(q) /\ Spent(q)' => row' # want'[q],
         \A q \in Posts : Spent(q) /\ Spent(q)' /\ at'[q] = "closed" => RunOver(q)' \/ Forgotten(q)',
         \A q \in Posts : Spent(q) /\ Spent(q)' /\ at'[q] = "killed" => Forgotten(q)'
  PROVE  SpentForGood'
<1>1. \A q \in Posts : Spent(q)' => Spent(q) /\ want'[q] = want[q]
  BY SpentBefore
<1>2. ASSUME NEW q \in Posts, NEW o \in Posts, Spent(q)', Spent(o)', want'[q] = want'[o]
      PROVE  q = o
  BY <1>1, <1>2 DEF SpentForGood
<1>3. QED BY <1>1, <1>2 DEF SpentForGood

\* The holder p lets go of its run and leaves question a open: its own, or the one
\* it answered.
LEMMA LettingGo ==
  ASSUME ChatTypeOK, Conversation, OneHolder, SpentForGood, GivesNothing,
         NEW p \in Posts, Holder(p), NEW a \in Posts, NEW to \in {"restoring", "saving"},
         at' = [at EXCEPT ![p] = to],
         UNCHANGED <<want, run, seen, asked, row>>,
         consumed' = consumed \ {run[p]},
         suspended' = [suspended EXCEPT ![run[p]] = a],
         \A q \in Posts \ {p} : Spent(q) => want[q] # a
  PROVE  SpentForGood'
<1>1. at'[p] = to /\ \A q \in Posts \ {p} : at'[q] = at[q]
  BY DEF ChatTypeOK
<1>2. ASSUME NEW q \in Posts, Spent(q)'
      PROVE  q # p /\ Spent(q) /\ Given(q)
  <2>1. ~Given(p)'
    BY <1>1 DEF Given, Started, Asks, Streaming, Dead
  <2>2. QED BY <1>2, <2>1, SpentBefore DEF Spent
<1>3. \A q \in Posts : Holder(q)' => Holder(q)
  BY <1>1 DEF Holder
<1>4. ASSUME NEW q \in Posts, Spent(q), q # p, RunOver(q)
      PROVE  RunOver(q)'
  <2>1. run[q] \in Posts /\ run[q] # run[p]
    BY <1>4, HolderFirst, GivenFacts DEF Spent
  <2>2. suspended'[run[q]] = suspended[run[q]] /\ run[q] \in consumed'
    BY <1>4, <2>1 DEF RunOver
  <2>3. QED BY <1>3, <1>4, <2>2 DEF RunOver
<1>5. ASSUME NEW q \in Posts, Spent(q), q # p, Forgotten(q)
      PROVE  Forgotten(q)'
  <2>1. run[q] \in Posts /\ want[q] # a
    BY <1>5, GivenFacts DEF Spent
  <2>2. suspended'[run[q]] # want[q]
    BY <1>5, <2>1 DEF Forgotten
  <2>3. \A o \in Posts : at'[o] = "resuming" => at[o] = "resuming"
    BY <1>1
  <2>4. QED BY <1>3, <1>5, <2>2, <2>3 DEF Forgotten
<1>6. QED
  <2>1. \A q \in Posts : Spent(q) /\ Spent(q)' => row' # want'[q]
    BY DEF SpentForGood
  <2>2. \A q \in Posts : Spent(q) /\ Spent(q)' /\ at'[q] = "closed" => RunOver(q)' \/ Forgotten(q)'
    BY <1>1, <1>2, <1>4, <1>5 DEF SpentForGood
  <2>3. \A q \in Posts : Spent(q) /\ Spent(q)' /\ at'[q] = "killed" => Forgotten(q)'
    BY <1>1, <1>2, <1>5 DEF SpentForGood
  <2>4. QED BY <2>1, <2>2, <2>3, SpentCarried

\* Such a step shows no answered question again.
LEMMA SpentKept ==
  ASSUME ChatTypeOK, Conversation, SpentForGood, KeepsSpent
  PROVE  SpentForGood'
<1>1. ASSUME NEW p \in Posts, Spent(p)'
      PROVE  /\ Spent(p) /\ want'[p] = want[p] /\ row' # want'[p]
             /\ at'[p] \in {"closed", "killed"} => at'[p] = at[p]
             /\ RunOver(p) => RunOver(p)'
             /\ Forgotten(p) => Forgotten(p)'
  <2>1. Spent(p) /\ Given(p) /\ want'[p] = want[p] /\ run'[p] = run[p]
    BY <1>1, SpentBefore DEF KeepsSpent
  <2>2. want[p] \in Posts /\ run[p] \in Posts /\ row # want[p]
    BY <2>1, GivenFacts DEF SpentForGood
  <2>3. row' # want'[p]
    BY <2>1, <2>2, NoneAssumption DEF KeepsSpent
  <2>4. ASSUME RunOver(p) PROVE RunOver(p)'
    BY <2>1, <2>2, <2>4 DEF RunOver, KeepsSpent
  <2>5. ASSUME Forgotten(p) PROVE Forgotten(p)'
    <3>1. suspended'[run'[p]] # want'[p]
      BY <2>1, <2>2, <2>5, NoneAssumption DEF Forgotten, KeepsSpent
    <3>2. ASSUME NEW q \in Posts, want'[q] = want'[p]
          PROVE  ~Holder(q)' /\ (at'[q] = "resuming" => seen'[q] # want'[p])
      BY <2>1, <2>2, <2>5, <3>2 DEF Forgotten, KeepsSpent
    <3>3. QED BY <3>1, <3>2 DEF Forgotten
  <2>6. at'[p] \in {"closed", "killed"} => at'[p] = at[p]
    BY <1>1 DEF KeepsSpent, Spent
  <2>7. QED BY <2>1, <2>3, <2>4, <2>5, <2>6
<1>2. ASSUME NEW p \in Posts, NEW q \in Posts, Spent(p)', Spent(q)', want'[p] = want'[q]
      PROVE  p = q
  BY <1>1, <1>2 DEF SpentForGood
<1>3. QED BY <1>1, <1>2 DEF SpentForGood

\* An answer that was given stays the only one of its question.
LEMMA SpentStep ==
  ASSUME ChatTypeOK, AnswersKnown, Conversation, OneHolder, SpentForGood, [Next]_vars
  PROVE  SpentForGood'
<1>1. ASSUME NEW p \in Posts, Prompt(p) PROVE SpentForGood'
  <2>1. GivesNothing
    <3>1. ASSUME NEW q \in Posts, Given(q)'
          PROVE  Given(q) /\ want'[q] = want[q] /\ run'[q] = run[q]
      BY <1>1, <3>1, NoneAssumption DEF Prompt, Given, Started, Asks, Streaming, Dead,
         ChatTypeOK
    <3>2. ASSUME NEW b \in Posts, at[b] = "failed"
          PROVE  at'[b] = "failed" /\ want'[b] = want[b]
      BY <1>1, <3>2 DEF Prompt
    <3>3. QED BY <3>1, <3>2 DEF GivesNothing
  <2>2. ASSUME NEW q \in Posts, Holder(q)'
        PROVE  Holder(q) /\ run'[q] = run[q] /\ want'[q] = want[q]
    BY <1>1, <2>2, NoneAssumption DEF Prompt, Holder, AnswersKnown
  <2>3. ASSUME NEW q \in Posts
        PROVE  /\ Given(q)' /\ at'[q] \in {"closed", "killed"} => at'[q] = at[q]
               /\ at'[q] = "resuming" =>
                    \/ at[q] = "resuming" /\ seen'[q] = seen[q] /\ want'[q] = want[q]
                    \/ seen'[q] = row
    BY <1>1 DEF Prompt, ChatTypeOK
  <2>4. KeepsSpent
    BY <1>1, <2>1, <2>2, <2>3 DEF Prompt, KeepsSpent
  <2>5. QED BY <2>4, SpentKept
<1>2. ASSUME NEW p \in Posts, NEW a \in Posts, Answer(p, a) PROVE SpentForGood'
  <2>1. GivesNothing
    <3>1. ASSUME NEW q \in Posts, Given(q)'
          PROVE  Given(q) /\ want'[q] = want[q] /\ run'[q] = run[q]
      BY <1>2, <3>1, NoneAssumption DEF Answer, Given, Started, Asks, Streaming, Dead,
         ChatTypeOK
    <3>2. ASSUME NEW b \in Posts, at[b] = "failed"
          PROVE  at'[b] = "failed" /\ want'[b] = want[b]
      BY <1>2, <3>2 DEF Answer
    <3>3. QED BY <3>1, <3>2 DEF GivesNothing
  <2>2. ASSUME NEW q \in Posts, Holder(q)'
        PROVE  Holder(q) /\ run'[q] = run[q] /\ want'[q] = want[q]
    BY <1>2, <2>2, NoneAssumption DEF Answer, Holder, AnswersKnown
  <2>3. ASSUME NEW q \in Posts
        PROVE  /\ Given(q)' /\ at'[q] \in {"closed", "killed"} => at'[q] = at[q]
               /\ at'[q] = "resuming" =>
                    \/ at[q] = "resuming" /\ seen'[q] = seen[q] /\ want'[q] = want[q]
                    \/ seen'[q] = row
    BY <1>2 DEF Answer, ChatTypeOK
  <2>4. KeepsSpent
    BY <1>2, <2>1, <2>2, <2>3 DEF Answer, KeepsSpent
  <2>5. QED BY <2>4, SpentKept
<1>3. ASSUME NEW p \in Posts, Consume(p) PROVE SpentForGood'
  <2>1. GivesNothing
    <3>1. at[p] = "resuming" /\ want' = want /\ run' = run /\ asked' = asked
          /\ (at' = [at EXCEPT ![p] = "consumed"] \/ at' = [at EXCEPT ![p] = "refused"])
      BY <1>3, ConsumeEffect
    <3>2. QED BY <3>1 DEF GivesNothing, Given, Started, Asks, Streaming, Dead,
       ChatTypeOK
  <2>2. CASE UNCHANGED <<suspended, consumed, registered>> /\ at' = [at EXCEPT ![p] = "refused"]
    <3>1. KeepsSpent
      BY <1>3, <2>1, <2>2, ConsumeEffect DEF KeepsSpent, ChatTypeOK, Holder
    <3>2. QED BY <3>1, SpentKept
  <2>3. CASE at' = [at EXCEPT ![p] = "consumed"]
    <3>1. /\ want[p] \in Posts /\ run[p] \in Posts /\ at[p] = "resuming"
          /\ UNCHANGED <<want, run, seen, asked, row>>
          /\ suspended' = [suspended EXCEPT ![run[p]] = None]
          /\ consumed' = consumed \cup {run[p]}
          /\ \/ suspended[run[p]] = want[p]
             \/ seen[p] = want[p] /\ run[p] \notin consumed
      <4>1. at'[p] # "refused" /\ p \in DOMAIN at
        BY <2>3 DEF ChatTypeOK
      <4>2. QED BY <1>3, <4>1, ConsumeEffect
    <3>2. /\ \A q \in Posts \ {p} : at'[q] = at[q] /\ (Holder(q)' => Holder(q))
          /\ at'[p] = "consumed"
      BY <2>3, <3>1 DEF ChatTypeOK, Holder
    <3>3. ASSUME NEW q \in Posts, Spent(q), RunOver(q)
          PROVE  RunOver(q)'
      <4>1. run[q] \in Posts /\ run[q] # run[p]
        BY <3>1, <3>3, GivenFacts, NoneAssumption DEF RunOver, Spent
      <4>2. suspended'[run[q]] = suspended[run[q]]
        BY <3>1, <4>1
      <4>3. QED BY <3>1, <3>2, <3>3, <4>1, <4>2 DEF RunOver
    <3>4. ASSUME NEW q \in Posts, Spent(q), Forgotten(q)
          PROVE  Forgotten(q)'
      <4>1. run[q] \in Posts /\ want[q] \in Posts
        BY <3>4, GivenFacts DEF Spent
      <4>2. want[p] # want[q]
        <5>1. want[p] = want[q] => run[p] = run[q]
          BY <3>1, <4>1, NoneAssumption DEF Conversation, RunOf
        <5>2. QED BY <3>1, <3>4, <5>1 DEF Forgotten
      <4>3. suspended'[run[q]] # want[q]
        BY <3>1, <3>4, <4>1, NoneAssumption DEF Forgotten
      <4>4. QED BY <3>1, <3>2, <3>4, <4>2, <4>3 DEF Forgotten
    <3>5. ASSUME NEW q \in Posts, Spent(q), Spent(q)'
          PROVE  row' # want'[q] /\ (at'[q] \in {"closed", "killed"} => at'[q] = at[q])
      BY <3>1, <3>2, <3>5 DEF SpentForGood
    <3>6. QED BY <2>1, <3>3, <3>4, <3>5, SpentCarried DEF SpentForGood
  <2>4. QED BY <1>3, <2>2, <2>3, ConsumeEffect
<1>4. ASSUME NEW p \in Posts, Supersede(p) PROVE SpentForGood'
  <2>1. GivesNothing
    <3>1. ASSUME NEW q \in Posts, Given(q)'
          PROVE  Given(q) /\ want'[q] = want[q] /\ run'[q] = run[q]
      <4>1. /\ q # p => at'[q] = at[q]
            /\ at'[p] \in {"preparing", "unasking", "superseding"}
            /\ UNCHANGED <<want, run, asked>>
        BY <1>4, SupersedeEffect DEF ChatTypeOK, AfterStop
      <4>2. q # p
        BY <3>1, <4>1 DEF Given, Started, Streaming, Dead
      <4>3. QED BY <3>1, <4>1, <4>2 DEF Given, Started, Asks
    <3>2. ASSUME NEW b \in Posts, at[b] = "failed"
          PROVE  at'[b] = "failed" /\ want'[b] = want[b]
      BY <1>4, <3>2, SupersedeEffect DEF ChatTypeOK
    <3>3. QED BY <3>1, <3>2 DEF GivesNothing
  <2>2. ASSUME NEW q \in Posts, Holder(q)'
        PROVE  Holder(q) /\ run'[q] = run[q] /\ want'[q] = want[q]
    BY <1>4, <2>2, SupersedeEffect, NoneAssumption DEF Holder, ChatTypeOK, AnswersKnown,
       AfterStop
  <2>3. ASSUME NEW q \in Posts
        PROVE  /\ Given(q)' /\ at'[q] \in {"closed", "killed"} => at'[q] = at[q]
               /\ at'[q] = "resuming" =>
                    \/ at[q] = "resuming" /\ seen'[q] = seen[q] /\ want'[q] = want[q]
                    \/ seen'[q] = row
    BY <1>4, SupersedeEffect DEF ChatTypeOK, AfterStop
  <2>4. KeepsSpent
    BY <1>4, <2>1, <2>2, <2>3, SupersedeEffect DEF KeepsSpent
  <2>5. QED BY <2>4, SpentKept
<1>5. ASSUME NEW p \in Posts, Superseded(p) PROVE SpentForGood'
  <2>1. GivesNothing
    <3>1. ASSUME NEW q \in Posts, Given(q)'
          PROVE  Given(q) /\ want'[q] = want[q] /\ run'[q] = run[q]
      BY <1>5, <3>1, NoneAssumption DEF Superseded, Given, Started, Asks, Streaming,
         Dead, ChatTypeOK, AfterStop
    <3>2. ASSUME NEW b \in Posts, at[b] = "failed"
          PROVE  at'[b] = "failed" /\ want'[b] = want[b]
      BY <1>5, <3>2 DEF Superseded
    <3>3. QED BY <3>1, <3>2 DEF GivesNothing
  <2>2. ASSUME NEW q \in Posts, Holder(q)'
        PROVE  Holder(q) /\ run'[q] = run[q] /\ want'[q] = want[q]
    BY <1>5, <2>2, NoneAssumption DEF Superseded, Holder, AnswersKnown, AfterStop
  <2>3. ASSUME NEW q \in Posts
        PROVE  /\ Given(q)' /\ at'[q] \in {"closed", "killed"} => at'[q] = at[q]
               /\ at'[q] = "resuming" =>
                    \/ at[q] = "resuming" /\ seen'[q] = seen[q] /\ want'[q] = want[q]
                    \/ seen'[q] = row
    BY <1>5 DEF Superseded, ChatTypeOK, AfterStop
  <2>4. KeepsSpent
    BY <1>5, <2>1, <2>2, <2>3 DEF Superseded, KeepsSpent
  <2>5. QED BY <2>4, SpentKept
<1>6. ASSUME NEW p \in Posts, Deny(p) PROVE SpentForGood'
  <2>1. GivesNothing
    <3>1. ASSUME NEW q \in Posts, Given(q)'
          PROVE  Given(q) /\ want'[q] = want[q] /\ run'[q] = run[q]
      BY <1>6, <3>1, NoneAssumption DEF Deny, Given, Started, Asks, Streaming, Dead,
         ChatTypeOK
    <3>2. ASSUME NEW b \in Posts, at[b] = "failed"
          PROVE  at'[b] = "failed" /\ want'[b] = want[b]
      BY <1>6, <3>2 DEF Deny
    <3>3. QED BY <3>1, <3>2 DEF GivesNothing
  <2>2. ASSUME NEW q \in Posts, Holder(q)'
        PROVE  Holder(q) /\ run'[q] = run[q] /\ want'[q] = want[q]
    BY <1>6, <2>2, NoneAssumption DEF Deny, Holder, AnswersKnown
  <2>3. ASSUME NEW q \in Posts
        PROVE  /\ Given(q)' /\ at'[q] \in {"closed", "killed"} => at'[q] = at[q]
               /\ at'[q] = "resuming" =>
                    \/ at[q] = "resuming" /\ seen'[q] = seen[q] /\ want'[q] = want[q]
                    \/ seen'[q] = row
    BY <1>6 DEF Deny, ChatTypeOK
  <2>4. KeepsSpent
    BY <1>6, <2>1, <2>2, <2>3 DEF Deny, KeepsSpent
  <2>5. QED BY <2>4, SpentKept
<1>7. ASSUME NEW p \in Posts, Launch(p) PROVE SpentForGood'
  <2>1. want[p] = None /\ at[p] = "preparing"
    BY <1>7 DEF Launch, AnswersKnown
  <2>2. GivesNothing
    <3>1. ASSUME NEW q \in Posts, Given(q)'
          PROVE  Given(q) /\ want'[q] = want[q] /\ run'[q] = run[q]
      <4>1. CASE q = p
        BY <1>7, <3>1, <4>1, NoneAssumption DEF Launch, Given, Dead, ChatTypeOK,
           AnswersKnown
      <4>2. CASE q # p
        BY <1>7, <3>1, <4>2 DEF Launch, Given, Started, Asks, Dead, ChatTypeOK,
           AnswersKnown
      <4>3. QED BY <4>1, <4>2
    <3>2. ASSUME NEW b \in Posts, at[b] = "failed"
          PROVE  at'[b] = "failed" /\ want'[b] = want[b]
      BY <1>7, <3>2 DEF Launch
    <3>3. QED BY <3>1, <3>2 DEF GivesNothing
  <2>3. \A q \in Posts : run[q] = p => q = p
    BY <2>1, NewRun
  <2>4. ASSUME NEW q \in Posts, Spent(q)
        PROVE  q # p /\ run[q] # run[p] /\ want[q] # None
    <3>1. Given(q)
      BY <2>4 DEF Spent
    <3>2. q # p
      BY <2>1, <3>1 DEF Given
    <3>3. QED BY <2>1, <2>3, <3>1, <3>2, NewRun DEF Given
  <2>5. /\ \A q \in Posts \ {p} : at'[q] = at[q]
        /\ at'[p] = "launching"
        /\ UNCHANGED <<want, run, seen, suspended, consumed, row>>
        /\ \A q \in Posts \ {p} : Holder(q)' => Holder(q)
    BY <1>7 DEF Launch, ChatTypeOK, Holder
  <2>6. ASSUME NEW q \in Posts, Spent(q)
        PROVE  /\ RunOver(q) => RunOver(q)'
               /\ Forgotten(q) => Forgotten(q)'
    BY <2>1, <2>4, <2>5, <2>6 DEF RunOver, Forgotten
  <2>7. QED BY <2>2, <2>4, <2>5, <2>6, SpentCarried DEF SpentForGood
<1>8. ASSUME NEW p \in Posts, Unask(p) PROVE SpentForGood'
  <2>1. at[p] = "unasking" /\ want[p] # None /\ Holder(p)
    BY <1>8 DEF Unask, AnswersKnown, Holder, Conversation, RunOf
  <2>2. /\ \A q \in Posts \ {p} : at'[q] = at[q]
        /\ at'[p] = "launching" /\ row' = None
        /\ UNCHANGED <<want, run, seen, asked, suspended, consumed>>
        /\ \A q \in Posts : Holder(q)' => Holder(q)
    BY <1>8, <2>1 DEF Unask, ChatTypeOK, Holder
  <2>3. ASSUME NEW q \in Posts \ {p}, Spent(q)'
        PROVE  Spent(q) /\ Given(q) /\ want[q] # want[p]
    <3>1. Given(q)
      BY <2>2, <2>3 DEF Spent, Given, Started, Asks
    <3>2. \A b \in Posts : want[b] = want[q] => at[b] # "failed"
      BY <2>1, <2>2, <2>3 DEF Spent
    <3>3. QED BY <2>1, <3>1, <3>2, HolderFirst DEF Spent
  <2>4. ASSUME NEW q \in Posts, Spent(q)' PROVE row' # want'[q]
    BY <2>2, <2>4 DEF Spent, Given
  <2>5. ASSUME NEW q \in Posts, NEW o \in Posts, Spent(q)', Spent(o)', want'[q] = want'[o]
        PROVE  q = o
    BY <2>2, <2>3, <2>5 DEF SpentForGood
  <2>6. ASSUME NEW q \in Posts \ {p}
        PROVE  /\ RunOver(q) => RunOver(q)'
               /\ Forgotten(q) => Forgotten(q)'
    BY <2>1, <2>2 DEF RunOver, Forgotten
  <2>7. QED BY <2>2, <2>3, <2>4, <2>5, <2>6 DEF SpentForGood
<1>9. ASSUME NEW p \in Posts, LaunchFails(p) PROVE SpentForGood'
  <2>1. GivesNothing
    <3>1. ASSUME NEW q \in Posts, Given(q)'
          PROVE  Given(q) /\ want'[q] = want[q] /\ run'[q] = run[q]
      <4>1. CASE q = p
        BY <1>9, <3>1, <4>1, NoneAssumption DEF LaunchFails, Given, Started, Streaming,
           Dead, ChatTypeOK
      <4>2. CASE q # p
        BY <1>9, <3>1, <4>2 DEF LaunchFails, Given, Started, Asks, Dead, ChatTypeOK
      <4>3. QED BY <4>1, <4>2
    <3>2. ASSUME NEW b \in Posts, at[b] = "failed"
          PROVE  at'[b] = "failed" /\ want'[b] = want[b]
      BY <1>9, <3>2 DEF LaunchFails, ChatTypeOK
    <3>3. QED BY <3>1, <3>2 DEF GivesNothing
  <2>2. CASE want[p] = None
    <3>1. KeepsSpent
      BY <1>9, <2>1, <2>2 DEF LaunchFails, KeepsSpent, ChatTypeOK, Holder
    <3>2. QED BY <3>1, SpentKept
  <2>3. CASE want[p] # None
    <3>1. Holder(p) /\ want[p] \in Posts
      BY <1>9, <2>3 DEF LaunchFails, Holder, ChatTypeOK, Conversation, RunOf
    <3>2. \A q \in Posts \ {p} : Spent(q) => want[q] # want[p]
      BY <3>1, HolderFirst
    <3>3. QED BY <1>9, <2>1, <2>3, <3>1, <3>2, LettingGo DEF LaunchFails
  <2>4. QED BY <2>2, <2>3
<1>10. ASSUME NEW p \in Posts, RestoreRow(p) PROVE SpentForGood'
  <2>1. GivesNothing
    <3>1. ASSUME NEW q \in Posts, Given(q)'
          PROVE  Given(q) /\ want'[q] = want[q] /\ run'[q] = run[q]
      <4>1. CASE q = p
        BY <1>10, <3>1, <4>1, NoneAssumption DEF RestoreRow, Given, Started, Streaming,
           Dead, ChatTypeOK
      <4>2. CASE q # p
        BY <1>10, <3>1, <4>2 DEF RestoreRow, Given, Started, Asks, Dead, ChatTypeOK
      <4>3. QED BY <4>1, <4>2
    <3>2. ASSUME NEW b \in Posts, at[b] = "failed"
          PROVE  at'[b] = "failed" /\ want'[b] = want[b]
      BY <1>10, <3>2 DEF RestoreRow
    <3>3. QED BY <3>1, <3>2 DEF GivesNothing
  <2>2. /\ \A q \in Posts \ {p} : at'[q] = at[q]
        /\ UNCHANGED <<want, run, seen>>
        /\ \A q \in Posts : Holder(q)' => Holder(q)
    BY <1>10 DEF RestoreRow, Holder
  <2>3. ASSUME NEW q \in Posts, Spent(q), Spent(q)'
        PROVE  row' # want'[q]
    <3>1. want'[p] = want'[q] => at'[p] # "failed"
      BY <2>3 DEF Spent
    <3>2. QED BY <1>10, <3>1 DEF RestoreRow, ChatTypeOK
  <2>4. ASSUME NEW q \in Posts, Spent(q), Spent(q)'
        PROVE  /\ at'[q] \in {"closed", "killed"} => at'[q] = at[q]
               /\ RunOver(q) => RunOver(q)'
               /\ Forgotten(q) => Forgotten(q)'
    BY <1>10, <2>2, <2>4 DEF RestoreRow, RunOver, Forgotten
  <2>5. QED BY <2>1, <2>3, <2>4, SpentCarried DEF SpentForGood
<1>11. ASSUME NEW p \in Posts, Bind(p) PROVE SpentForGood'
  <2>1. GivesNothing
    <3>1. ASSUME NEW q \in Posts, Given(q)'
          PROVE  Given(q) /\ want'[q] = want[q] /\ run'[q] = run[q]
      <4>1. CASE q = p
        BY <1>11, <3>1, <4>1, NoneAssumption DEF Bind, Given, Started, Asks, Dead,
           ChatTypeOK
      <4>2. CASE q # p
        BY <1>11, <3>1, <4>2 DEF Bind, Given, Started, Asks, Dead, ChatTypeOK
      <4>3. QED BY <4>1, <4>2
    <3>2. ASSUME NEW b \in Posts, at[b] = "failed"
          PROVE  at'[b] = "failed" /\ want'[b] = want[b]
      BY <1>11, <3>2 DEF Bind
    <3>3. QED BY <3>1, <3>2 DEF GivesNothing
  <2>2. ASSUME NEW q \in Posts, Holder(q)'
        PROVE  Holder(q) /\ run'[q] = run[q] /\ want'[q] = want[q]
    BY <1>11, <2>2, NoneAssumption DEF Bind, Holder, AnswersKnown
  <2>3. ASSUME NEW q \in Posts
        PROVE  /\ Given(q)' /\ at'[q] \in {"closed", "killed"} => at'[q] = at[q]
               /\ at'[q] = "resuming" =>
                    \/ at[q] = "resuming" /\ seen'[q] = seen[q] /\ want'[q] = want[q]
                    \/ seen'[q] = row
    BY <1>11 DEF Bind, ChatTypeOK
  <2>4. KeepsSpent
    BY <1>11, <2>1, <2>2, <2>3 DEF Bind, KeepsSpent
  <2>5. QED BY <2>4, SpentKept
<1>12. ASSUME NEW p \in Posts, Capture(p) PROVE SpentForGood'
  <2>1. GivesNothing
    <3>1. ASSUME NEW q \in Posts, Given(q)'
          PROVE  Given(q) /\ want'[q] = want[q] /\ run'[q] = run[q]
      <4>1. CASE q = p
        BY <1>12, <3>1, <4>1, NoneAssumption DEF Capture, Given, Started, Asks, Dead,
           ChatTypeOK
      <4>2. CASE q # p
        BY <1>12, <3>1, <4>2 DEF Capture, Given, Started, Asks, Dead, ChatTypeOK
      <4>3. QED BY <4>1, <4>2
    <3>2. ASSUME NEW b \in Posts, at[b] = "failed"
          PROVE  at'[b] = "failed" /\ want'[b] = want[b]
      BY <1>12, <3>2 DEF Capture
    <3>3. QED BY <3>1, <3>2 DEF GivesNothing
  <2>2. ASSUME NEW q \in Posts, Holder(q)'
        PROVE  Holder(q) /\ run'[q] = run[q] /\ want'[q] = want[q]
    BY <1>12, <2>2, NoneAssumption DEF Capture, Holder, AnswersKnown
  <2>3. ASSUME NEW q \in Posts
        PROVE  /\ Given(q)' /\ at'[q] \in {"closed", "killed"} => at'[q] = at[q]
               /\ at'[q] = "resuming" =>
                    \/ at[q] = "resuming" /\ seen'[q] = seen[q] /\ want'[q] = want[q]
                    \/ seen'[q] = row
    BY <1>12 DEF Capture, ChatTypeOK
  <2>4. KeepsSpent
    BY <1>12, <2>1, <2>2, <2>3 DEF Capture, KeepsSpent
  <2>5. QED BY <2>4, SpentKept
<1>13. ASSUME NEW p \in Posts, SeeAsk(p) PROVE SpentForGood'
  <2>1. GivesNothing
    <3>1. ASSUME NEW q \in Posts, Given(q)'
          PROVE  Given(q) /\ want'[q] = want[q] /\ run'[q] = run[q]
      <4>1. CASE q = p
        BY <1>13, <3>1, <4>1, NoneAssumption DEF SeeAsk, Given, Asks, Dead, ChatTypeOK
      <4>2. CASE q # p
        BY <1>13, <3>1, <4>2 DEF SeeAsk, Given, Started, Asks, Dead, ChatTypeOK
      <4>3. QED BY <4>1, <4>2
    <3>2. ASSUME NEW b \in Posts, at[b] = "failed"
          PROVE  at'[b] = "failed" /\ want'[b] = want[b]
      BY <1>13, <3>2 DEF SeeAsk
    <3>3. QED BY <3>1, <3>2 DEF GivesNothing
  <2>2. Holder(p) /\ ~asked[p]
    BY <1>13 DEF SeeAsk, Holder
  <2>3. \A q \in Posts \ {p} : Spent(q) => want[q] # p
    BY <2>2, GivenFacts DEF Spent
  <2>4. QED BY <1>13, <2>1, <2>2, <2>3, LettingGo DEF SeeAsk
<1>14. ASSUME NEW p \in Posts, SaveAsk(p) PROVE SpentForGood'
  <2>1. GivesNothing
    <3>1. ASSUME NEW q \in Posts, Given(q)'
          PROVE  Given(q) /\ want'[q] = want[q] /\ run'[q] = run[q]
      <4>1. CASE q = p
        BY <1>14, <3>1, <4>1, NoneAssumption DEF SaveAsk, Given, Asks, Dead, ChatTypeOK
      <4>2. CASE q # p
        BY <1>14, <3>1, <4>2 DEF SaveAsk, Given, Started, Asks, Dead, ChatTypeOK
      <4>3. QED BY <4>1, <4>2
    <3>2. ASSUME NEW b \in Posts, at[b] = "failed"
          PROVE  at'[b] = "failed" /\ want'[b] = want[b]
      BY <1>14, <3>2 DEF SaveAsk
    <3>3. QED BY <3>1, <3>2 DEF GivesNothing
  <2>2. /\ \A q \in Posts \ {p} : at'[q] = at[q]
        /\ UNCHANGED <<want, run, seen>>
        /\ \A q \in Posts : Holder(q)' => Holder(q)
    BY <1>14 DEF SaveAsk, ChatTypeOK, Holder
  <2>3. ASSUME NEW q \in Posts, Spent(q), Spent(q)'
        PROVE  row' # want'[q]
    <3>1. ~asked[p]
      BY <1>14 DEF SaveAsk, Conversation, RunOf
    <3>2. QED BY <1>14, <2>3, <3>1, GivenFacts DEF SaveAsk, Spent
  <2>4. ASSUME NEW q \in Posts, Spent(q), Spent(q)'
        PROVE  /\ at'[q] \in {"closed", "killed"} => at'[q] = at[q]
               /\ RunOver(q) => RunOver(q)'
               /\ Forgotten(q) => Forgotten(q)'
    BY <1>14, <2>2, <2>4 DEF SaveAsk, RunOver, Forgotten
  <2>5. QED BY <2>1, <2>3, <2>4, SpentCarried DEF SpentForGood
<1>15. ASSUME NEW p \in Posts, Finish(p) PROVE SpentForGood'
  <2>1. GivesNothing
    <3>1. ASSUME NEW q \in Posts, Given(q)'
          PROVE  Given(q) /\ want'[q] = want[q] /\ run'[q] = run[q]
      <4>1. CASE q = p
        BY <1>15, <3>1, <4>1, NoneAssumption DEF Finish, Given, Started, Asks,
           Streaming, Dead, ChatTypeOK
      <4>2. CASE q # p
        BY <1>15, <3>1, <4>2 DEF Finish, Given, Started, Asks, Dead, ChatTypeOK
      <4>3. QED BY <4>1, <4>2
    <3>2. ASSUME NEW b \in Posts, at[b] = "failed"
          PROVE  at'[b] = "failed" /\ want'[b] = want[b]
      BY <1>15, <3>2 DEF Finish
    <3>3. QED BY <3>1, <3>2 DEF GivesNothing
  <2>2. ASSUME NEW q \in Posts, Holder(q)'
        PROVE  Holder(q) /\ run'[q] = run[q] /\ want'[q] = want[q]
    BY <1>15, <2>2, NoneAssumption DEF Finish, Holder, AnswersKnown
  <2>3. ASSUME NEW q \in Posts
        PROVE  /\ Given(q)' /\ at'[q] \in {"closed", "killed"} => at'[q] = at[q]
               /\ at'[q] = "resuming" =>
                    \/ at[q] = "resuming" /\ seen'[q] = seen[q] /\ want'[q] = want[q]
                    \/ seen'[q] = row
    BY <1>15 DEF Finish, ChatTypeOK, Given, Asks
  <2>4. KeepsSpent
    BY <1>15, <2>1, <2>2, <2>3 DEF Finish, KeepsSpent
  <2>5. QED BY <2>4, SpentKept
<1>16. ASSUME NEW p \in Posts, ClearRow(p) PROVE SpentForGood'
  <2>1. GivesNothing
    <3>1. ASSUME NEW q \in Posts, Given(q)'
          PROVE  Given(q) /\ want'[q] = want[q] /\ run'[q] = run[q]
      <4>1. CASE q = p
        BY <1>16, <3>1, <4>1, NoneAssumption DEF ClearRow, Given, Started, Asks, Dead,
           ChatTypeOK
      <4>2. CASE q # p
        BY <1>16, <3>1, <4>2 DEF ClearRow, Given, Started, Asks, Dead, ChatTypeOK
      <4>3. QED BY <4>1, <4>2
    <3>2. ASSUME NEW b \in Posts, at[b] = "failed"
          PROVE  at'[b] = "failed" /\ want'[b] = want[b]
      BY <1>16, <3>2 DEF ClearRow
    <3>3. QED BY <3>1, <3>2 DEF GivesNothing
  <2>2. /\ \A q \in Posts \ {p} : at'[q] = at[q]
        /\ UNCHANGED <<want, run, seen>>
        /\ \A q \in Posts : Holder(q)' => Holder(q)
    BY <1>16 DEF ClearRow, Holder
  <2>3. /\ row' = None /\ UNCHANGED <<suspended, consumed>>
        /\ Holder(p) /\ ~Holder(p)' /\ at'[p] = "closed"
    BY <1>16 DEF ClearRow, ChatTypeOK, Holder, Conversation, RunOf
  <2>4. ASSUME NEW q \in Posts, Spent(q), Spent(q)'
        PROVE  row' # want'[q]
    BY <2>2, <2>3, <2>4, GivenFacts, NoneAssumption DEF Spent
  <2>5. ASSUME NEW q \in Posts, Spent(q)
        PROVE  /\ RunOver(q) => RunOver(q)'
               /\ Forgotten(q) => Forgotten(q)'
    BY <2>2, <2>3, <2>5 DEF RunOver, Forgotten
  <2>6. ASSUME Spent(p) PROVE RunOver(p)'
    <3>1. want[p] # None
      BY <2>6 DEF Spent, Given
    <3>2. QED BY <2>2, <2>3, <3>1 DEF OneHolder, RunOver
  <2>7. \A q \in Posts : at'[q] = at[q] \/ q = p
    BY <2>2
  <2>8. QED BY <2>1, <2>3, <2>4, <2>5, <2>6, <2>7, SpentCarried DEF SpentForGood
<1>17. ASSUME NEW s \in Stops, NEW id \in Known \cup {None}, Stop(s, id)
     PROVE SpentForGood'
  <2>1. GivesNothing
    <3>1. ASSUME NEW q \in Posts, Given(q)'
          PROVE  Given(q) /\ want'[q] = want[q] /\ run'[q] = run[q]
      BY <1>17, <3>1, StopEffect, NoneAssumption DEF Given, Started, Asks, ChatTypeOK
    <3>2. ASSUME NEW b \in Posts, at[b] = "failed"
          PROVE  at'[b] = "failed" /\ want'[b] = want[b]
      BY <1>17, <3>2, StopEffect
    <3>3. QED BY <3>1, <3>2 DEF GivesNothing
  <2>2. ASSUME NEW q \in Posts, Holder(q)'
        PROVE  Holder(q) /\ run'[q] = run[q] /\ want'[q] = want[q]
    BY <1>17, <2>2, StopEffect, NoneAssumption DEF Holder
  <2>3. ASSUME NEW q \in Posts
        PROVE  /\ Given(q)' /\ at'[q] \in {"closed", "killed"} => at'[q] = at[q]
               /\ at'[q] = "resuming" =>
                    \/ at[q] = "resuming" /\ seen'[q] = seen[q] /\ want'[q] = want[q]
                    \/ seen'[q] = row
    BY <1>17, StopEffect
  <2>4. KeepsSpent
    BY <1>17, <2>1, <2>2, <2>3, StopEffect DEF KeepsSpent
  <2>5. QED BY <2>4, SpentKept
<1>18. ASSUME NEW s \in Stops, StopEnds(s) PROVE SpentForGood'
  <2>1. GivesNothing
    <3>1. ASSUME NEW q \in Posts, Given(q)'
          PROVE  Given(q) /\ want'[q] = want[q] /\ run'[q] = run[q]
      BY <1>18, <3>1, NoneAssumption DEF StopEnds, Given, Started, Asks, Dead,
         ChatTypeOK
    <3>2. ASSUME NEW b \in Posts, at[b] = "failed"
          PROVE  at'[b] = "failed" /\ want'[b] = want[b]
      BY <1>18, <3>2 DEF StopEnds
    <3>3. QED BY <3>1, <3>2 DEF GivesNothing
  <2>2. ASSUME NEW q \in Posts, Holder(q)'
        PROVE  Holder(q) /\ run'[q] = run[q] /\ want'[q] = want[q]
    BY <1>18, <2>2, NoneAssumption DEF StopEnds, Holder, AnswersKnown
  <2>3. ASSUME NEW q \in Posts
        PROVE  /\ Given(q)' /\ at'[q] \in {"closed", "killed"} => at'[q] = at[q]
               /\ at'[q] = "resuming" =>
                    \/ at[q] = "resuming" /\ seen'[q] = seen[q] /\ want'[q] = want[q]
                    \/ seen'[q] = row
    BY <1>18 DEF StopEnds
  <2>4. KeepsSpent
    BY <1>18, <2>1, <2>2, <2>3 DEF StopEnds, KeepsSpent
  <2>5. QED BY <2>4, SpentKept
<1>19. CASE Poll
  <2>1. GivesNothing
    <3>1. ASSUME NEW q \in Posts, Given(q)'
          PROVE  Given(q) /\ want'[q] = want[q] /\ run'[q] = run[q]
      BY <1>19, <3>1, NoneAssumption DEF Poll, Given, Started, Asks, Dead, ChatTypeOK
    <3>2. ASSUME NEW b \in Posts, at[b] = "failed"
          PROVE  at'[b] = "failed" /\ want'[b] = want[b]
      BY <1>19, <3>2 DEF Poll
    <3>3. QED BY <3>1, <3>2 DEF GivesNothing
  <2>2. ASSUME NEW q \in Posts, Holder(q)'
        PROVE  Holder(q) /\ run'[q] = run[q] /\ want'[q] = want[q]
    BY <1>19, <2>2, NoneAssumption DEF Poll, Holder, AnswersKnown
  <2>3. ASSUME NEW q \in Posts
        PROVE  /\ Given(q)' /\ at'[q] \in {"closed", "killed"} => at'[q] = at[q]
               /\ at'[q] = "resuming" =>
                    \/ at[q] = "resuming" /\ seen'[q] = seen[q] /\ want'[q] = want[q]
                    \/ seen'[q] = row
    BY <1>19 DEF Poll
  <2>4. KeepsSpent
    BY <1>19, <2>1, <2>2, <2>3 DEF Poll, KeepsSpent
  <2>5. QED BY <2>4, SpentKept
<1>20. CASE PollEnds
  <2>1. GivesNothing
    <3>1. ASSUME NEW q \in Posts, Given(q)'
          PROVE  Given(q) /\ want'[q] = want[q] /\ run'[q] = run[q]
      BY <1>20, <3>1, NoneAssumption DEF PollEnds, Given, Started, Asks, Dead,
         ChatTypeOK
    <3>2. ASSUME NEW b \in Posts, at[b] = "failed"
          PROVE  at'[b] = "failed" /\ want'[b] = want[b]
      BY <1>20, <3>2 DEF PollEnds
    <3>3. QED BY <3>1, <3>2 DEF GivesNothing
  <2>2. ASSUME NEW q \in Posts, Holder(q)'
        PROVE  Holder(q) /\ run'[q] = run[q] /\ want'[q] = want[q]
    BY <1>20, <2>2, NoneAssumption DEF PollEnds, Holder, AnswersKnown
  <2>3. ASSUME NEW q \in Posts
        PROVE  /\ Given(q)' /\ at'[q] \in {"closed", "killed"} => at'[q] = at[q]
               /\ at'[q] = "resuming" =>
                    \/ at[q] = "resuming" /\ seen'[q] = seen[q] /\ want'[q] = want[q]
                    \/ seen'[q] = row
    BY <1>20 DEF PollEnds
  <2>4. KeepsSpent
    BY <1>20, <2>1, <2>2, <2>3 DEF PollEnds, KeepsSpent
  <2>5. QED BY <2>4, SpentKept
<1>21. CASE Expire
  <2>1. GivesNothing
    <3>1. ASSUME NEW q \in Posts, Given(q)'
          PROVE  Given(q) /\ want'[q] = want[q] /\ run'[q] = run[q]
      BY <1>21, <3>1, NoneAssumption DEF Expire, Given, Started, Asks, Dead, ChatTypeOK
    <3>2. ASSUME NEW b \in Posts, at[b] = "failed"
          PROVE  at'[b] = "failed" /\ want'[b] = want[b]
      BY <1>21, <3>2 DEF Expire
    <3>3. QED BY <3>1, <3>2 DEF GivesNothing
  <2>2. ASSUME NEW q \in Posts, Holder(q)'
        PROVE  Holder(q) /\ run'[q] = run[q] /\ want'[q] = want[q]
    BY <1>21, <2>2, NoneAssumption DEF Expire, Holder, AnswersKnown
  <2>3. ASSUME NEW q \in Posts
        PROVE  /\ Given(q)' /\ at'[q] \in {"closed", "killed"} => at'[q] = at[q]
               /\ at'[q] = "resuming" =>
                    \/ at[q] = "resuming" /\ seen'[q] = seen[q] /\ want'[q] = want[q]
                    \/ seen'[q] = row
    BY <1>21 DEF Expire
  <2>4. KeepsSpent
    BY <1>21, <2>1, <2>2, <2>3 DEF Expire, KeepsSpent
  <2>5. QED BY <2>4, SpentKept
<1>22. CASE Restart
  <2>1. GivesNothing
    <3>1. ASSUME NEW q \in Posts, Given(q)'
          PROVE  Given(q)
      BY <1>22, <3>1 DEF Restart, Given, Started, Asks, Places, Handling, Streaming,
         Unserved, Dead
    <3>2. ASSUME NEW b \in Posts, at[b] = "failed" PROVE at'[b] = "failed"
      BY <1>22, <3>2 DEF Restart, Unserved
    <3>3. QED BY <1>22, <3>1, <3>2 DEF Restart, GivesNothing
  <2>2. ASSUME NEW q \in Posts
        PROVE  ~Holder(q)' /\ at'[q] # "resuming" /\ suspended'[q] = None
    BY <1>22 DEF Restart, Holder, Dead, Handling, Streaming, Unserved
  <2>3. ASSUME NEW q \in Posts, Spent(q), Spent(q)'
        PROVE  row' # want'[q] /\ Forgotten(q)'
    <3>1. run[q] \in Posts /\ want[q] \in Posts
      BY <2>3, GivenFacts DEF Spent
    <3>2. run' = run /\ want' = want /\ row' = row
      BY <1>22 DEF Restart
    <3>3. QED BY <2>2, <2>3, <3>1, <3>2, NoneAssumption DEF SpentForGood, Forgotten
  <2>4. QED BY <2>1, <2>3, SpentCarried
<1>23. CASE UNCHANGED vars
  <2>1. KeepsSpent
    BY <1>23 DEF vars, KeepsSpent, GivesNothing, Holder, Given, Started, Asks
  <2>2. QED BY <2>1, SpentKept
<1>24. QED
  BY <1>1, <1>2, <1>3, <1>4, <1>5, <1>6, <1>7, <1>8, <1>9, <1>10, <1>11, <1>12, <1>13,
     <1>14, <1>15, <1>16, <1>17, <1>18, <1>19, <1>20, <1>21, <1>22, <1>23 DEF Next,
     Requests, PostStep

-----------------------------------------------------------------------------
(* The theorems *)

\* Finitely many requests were made.
LEMMA BegunStep ==
  ASSUME ChatTypeOK, AnswersKnown, Conversation, IsFiniteSet(Begun), [Next]_vars
  PROVE  IsFiniteSet(Begun)'
<1>1. ASSUME NEW p \in Posts, Prompt(p) PROVE IsFiniteSet(Begun)'
  <2>1. Begun' \subseteq Begun \cup {p}
    BY <1>1 DEF Prompt, Begun
  <2>2. QED BY <2>1, FS_AddElement, FS_Subset
<1>2. ASSUME NEW p \in Posts, NEW a \in Posts, Answer(p, a) PROVE IsFiniteSet(Begun)'
  <2>1. Begun' \subseteq Begun \cup {p}
    BY <1>2 DEF Answer, Begun
  <2>2. QED BY <2>1, FS_AddElement, FS_Subset
<1>3. ASSUME NEW p \in Posts, Consume(p) PROVE IsFiniteSet(Begun)'
  <2>1. Begun' \subseteq Begun
    BY <1>3, ConsumeEffect DEF Begun, ChatTypeOK
  <2>2. QED BY <2>1, FS_Subset
<1>4. ASSUME NEW p \in Posts, Supersede(p) PROVE IsFiniteSet(Begun)'
  <2>1. Begun' \subseteq Begun
    BY <1>4, SupersedeEffect DEF Begun, ChatTypeOK
  <2>2. QED BY <2>1, FS_Subset
<1>5. ASSUME NEW p \in Posts, Superseded(p) PROVE IsFiniteSet(Begun)'
  <2>1. Begun' \subseteq Begun
    BY <1>5 DEF Superseded, Begun
  <2>2. QED BY <2>1, FS_Subset
<1>6. ASSUME NEW p \in Posts, Deny(p) PROVE IsFiniteSet(Begun)'
  <2>1. Begun' \subseteq Begun
    BY <1>6 DEF Deny, Begun
  <2>2. QED BY <2>1, FS_Subset
<1>7. ASSUME NEW p \in Posts, Launch(p) PROVE IsFiniteSet(Begun)'
  <2>1. Begun' \subseteq Begun
    BY <1>7 DEF Launch, Begun
  <2>2. QED BY <2>1, FS_Subset
<1>8. ASSUME NEW p \in Posts, Unask(p) PROVE IsFiniteSet(Begun)'
  <2>1. Begun' \subseteq Begun
    BY <1>8 DEF Unask, Begun
  <2>2. QED BY <2>1, FS_Subset
<1>9. ASSUME NEW p \in Posts, LaunchFails(p) PROVE IsFiniteSet(Begun)'
  <2>1. Begun' \subseteq Begun
    BY <1>9 DEF LaunchFails, Begun, ChatTypeOK
  <2>2. QED BY <2>1, FS_Subset
<1>10. ASSUME NEW p \in Posts, RestoreRow(p) PROVE IsFiniteSet(Begun)'
  <2>1. Begun' \subseteq Begun
    BY <1>10 DEF RestoreRow, Begun
  <2>2. QED BY <2>1, FS_Subset
<1>11. ASSUME NEW p \in Posts, Bind(p) PROVE IsFiniteSet(Begun)'
  <2>1. Begun' \subseteq Begun
    BY <1>11 DEF Bind, Begun
  <2>2. QED BY <2>1, FS_Subset
<1>12. ASSUME NEW p \in Posts, Capture(p) PROVE IsFiniteSet(Begun)'
  <2>1. Begun' \subseteq Begun
    BY <1>12 DEF Capture, Begun
  <2>2. QED BY <2>1, FS_Subset
<1>13. ASSUME NEW p \in Posts, SeeAsk(p) PROVE IsFiniteSet(Begun)'
  <2>1. Begun' \subseteq Begun
    BY <1>13 DEF SeeAsk, Begun
  <2>2. QED BY <2>1, FS_Subset
<1>14. ASSUME NEW p \in Posts, SaveAsk(p) PROVE IsFiniteSet(Begun)'
  <2>1. Begun' \subseteq Begun
    BY <1>14 DEF SaveAsk, Begun
  <2>2. QED BY <2>1, FS_Subset
<1>15. ASSUME NEW p \in Posts, Finish(p) PROVE IsFiniteSet(Begun)'
  <2>1. Begun' \subseteq Begun
    BY <1>15 DEF Finish, Begun
  <2>2. QED BY <2>1, FS_Subset
<1>16. ASSUME NEW p \in Posts, ClearRow(p) PROVE IsFiniteSet(Begun)'
  <2>1. Begun' \subseteq Begun
    BY <1>16 DEF ClearRow, Begun
  <2>2. QED BY <2>1, FS_Subset
<1>17. ASSUME NEW s \in Stops, NEW id \in Known \cup {None}, Stop(s, id)
     PROVE IsFiniteSet(Begun)'
  <2>1. Begun' \subseteq Begun
    BY <1>17, StopEffect DEF Begun
  <2>2. QED BY <2>1, FS_Subset
<1>18. ASSUME NEW s \in Stops, StopEnds(s) PROVE IsFiniteSet(Begun)'
  <2>1. Begun' \subseteq Begun
    BY <1>18 DEF StopEnds, Begun
  <2>2. QED BY <2>1, FS_Subset
<1>19. CASE Poll
  <2>1. Begun' \subseteq Begun
    BY <1>19 DEF Poll, Begun
  <2>2. QED BY <2>1, FS_Subset
<1>20. CASE PollEnds
  <2>1. Begun' \subseteq Begun
    BY <1>20 DEF PollEnds, Begun
  <2>2. QED BY <2>1, FS_Subset
<1>21. CASE Expire
  <2>1. Begun' \subseteq Begun
    BY <1>21 DEF Expire, Begun
  <2>2. QED BY <2>1, FS_Subset
<1>22. CASE Restart
  <2>1. Begun' \subseteq Begun
    BY <1>22 DEF Restart, Begun, Dead, Handling, Streaming, Unserved
  <2>2. QED BY <2>1, FS_Subset
<1>23. CASE UNCHANGED vars
  BY <1>23 DEF vars, Begun
<1>24. QED
  BY <1>1, <1>2, <1>3, <1>4, <1>5, <1>6, <1>7, <1>8, <1>9, <1>10, <1>11, <1>12, <1>13,
     <1>14, <1>15, <1>16, <1>17, <1>18, <1>19, <1>20, <1>21, <1>22, <1>23 DEF Next,
     Requests, PostStep

\* Nothing was asked or answered yet.
LEMMA InitInv == Init => ChatInv
<1> SUFFICES ASSUME Init PROVE ChatInv
  OBVIOUS
<1>1. ChatTypeOK /\ AnswersKnown /\ NoStaleMapping
  BY DEF Init, ChatTypeOK, AnswersKnown, NoStaleMapping, Places
<1>2. Controllers /\ Conversation
  BY NoneAssumption DEF Init, Controllers, ControllerOf, Controlled, Streaming,
     Conversation, RunOf, OpenQuestion
<1>3. OneHolder /\ SpentForGood
  BY DEF Init, OneHolder, SpentForGood, Holder, Spent, Given, Started, Streaming, Dead
<1>4. IsFiniteSet(Begun)
  <2>1. Begun = {}
    BY DEF Init, Begun
  <2>2. QED BY <2>1, FS_EmptySet
<1>5. QED BY <1>1, <1>2, <1>3, <1>4 DEF ChatInv

\* The inductive invariant of a thread's runs: types, the mapping, the controllers,
\* who asked and answered what, one holder per run, and answers spent for good.
THEOREM ChatInvariant == Spec => []ChatInv
<1>1. ChatInv /\ [Next]_vars => ChatInv'
  BY TypeStep, AnswersStep, MappingStep, ControllersStep, ConversationStep, HolderStep,
     SpentStep, BegunStep DEF ChatInv
<1>2. QED BY InitInv, <1>1, PTL DEF Spec

\* What the server keeps of a thread's runs is true of them: the thread is never mapped
\* to a stream that is over, and a shutdown waits for exactly the runs that go on and
\* were not told to stop (and for those whose agent threw: routes/chat.ts does not take
\* these off the record).
THEOREM RegistriesAreTrue == Spec => []RegistriesFollowRuns
<1>1. ChatInv => RegistriesFollowRuns
  <2> SUFFICES ASSUME ChatInv PROVE DrainExact
    BY DEF ChatInv, RegistriesFollowRuns
  <2>1. ASSUME NEW p \in Posts, p \in registered, at[p] \notin {"restoring", "failed"}
        PROVE  p \in Controlled /\ ~aborted[p]
    BY <2>1 DEF ChatInv, Controllers, ControllerOf
  <2>2. ASSUME NEW p \in Controlled, ~aborted[p]
        PROVE  p \in registered /\ at[p] \notin {"restoring", "failed"}
    BY <2>2 DEF ChatInv, Controllers, ControllerOf, Controlled, Streaming
  <2>3. registered \subseteq Posts /\ Controlled \subseteq Posts
    BY DEF ChatInv, ChatTypeOK, Controlled
  <2>4. QED BY <2>1, <2>2, <2>3 DEF DrainExact
<1>2. QED BY ChatInvariant, <1>1, PTL

\* Of two answers to one question that were both given to the agent, one asked the
\* next question, or another answer failed and put the question back.
LEMMA ResumedOnce == ChatInv => SingleResume
<1> SUFFICES ASSUME ChatInv, NEW p \in Posts, NEW q \in Posts, ResumedTwice(p, q),
                    ~Asks(p), ~Asks(q),
                    ~\E b \in Posts : want[b] = want[p] /\ at[b] \in {"restoring", "failed"}
             PROVE  FALSE
  BY DEF SingleResume
<1>1. Spent(p) /\ Spent(q) /\ want[p] = want[q] /\ p # q
  BY DEF ResumedTwice, Spent, Given
<1>2. QED BY <1>1 DEF ChatInv, SpentForGood

\* While nothing is in progress and no question of the run was answered twice, the
\* question in the row was answered, or it can be.  If it could not, its run would be
\* over: but then the answers of the run, each to a question of its own, would have
\* to answer every question but the one in the row, and the last answer asked none.
LEMMA Answerable == ChatInv => RowAnswerable
<1> SUFFICES ASSUME ChatInv, row # None,
                    \A p \in Posts : at[p] \in {"idle", "closed"} \cup Dead \cup Unserved,
                    ~\E p, q \in Posts : ResumedTwice(p, q) /\ run[p] = run[row],
                    run[row] \in consumed,
                    ~\E p \in Posts : want[p] = row /\ Started(p)
             PROVE  FALSE
  BY DEF RowAnswerable
<1> DEFINE r == run[row]
           S == {p \in Posts : Started(p) /\ run[p] = r}
<1>1. row \in Posts /\ asked[row] /\ ChatTypeOK /\ Conversation /\ OneHolder
  BY DEF ChatInv, ChatTypeOK, Conversation
<1>2. PICK h \in Posts : (Holder(h) \/ Ender(h)) /\ run[h] = r /\ want[h] # None
  BY <1>1 DEF OneHolder
<1>3. at[h] = "closed" /\ ~asked[h]
  <2>1. ~Holder(h)
    BY DEF Holder, Dead, Unserved
  <2>2. QED BY <1>2, <2>1 DEF Ender
<1>4. \A p \in Posts : asked[p] => Started(p) /\ at[p] # "idle"
  BY <1>1 DEF Conversation, RunOf, Started, Streaming, Dead
<1>5. row \in S /\ h \in S /\ row # h
  BY <1>1, <1>2, <1>3, <1>4 DEF Started
<1>6. r \in S /\ want[r] = None /\ r # h
  <2>1. asked[r] /\ r # None
    BY <1>1, <1>2 DEF Conversation, RunOf
  <2>2. r \in Posts /\ run[r] = r /\ want[r] = None
    BY <1>1, <2>1 DEF Conversation, RunOf, ChatTypeOK
  <2>3. QED BY <1>2, <1>4, <2>1, <2>2
<1>7. ASSUME NEW p \in S \ {r}
      PROVE  want[p] \in S \ {row, h}
  <2>1. p \in Posts /\ Started(p) /\ run[p] = r /\ p # r
    OBVIOUS
  <2>2. at[p] # "idle" /\ want[p] # None
    BY <1>1, <2>1 DEF Started, Streaming, Conversation, RunOf
  <2>3. want[p] \in Posts /\ asked[want[p]] /\ run[want[p]] = r
    BY <1>1, <2>1, <2>2 DEF ChatTypeOK, Conversation, RunOf
  <2>4. want[p] # row /\ want[p] # h
    BY <1>3, <2>1, <2>3
  <2>5. QED BY <1>4, <2>3, <2>4
<1>8. ASSUME NEW p \in S \ {r}, NEW q \in S \ {r}, want[p] = want[q]
      PROVE  p = q
  <2>1. want[p] # None
    BY <1>1, <1>7, NoneAssumption
  <2>2. QED BY <1>8, <2>1 DEF ResumedTwice
<1>9. IsFiniteSet(S)
  <2>1. S \subseteq Begun
    BY DEF Begun, Started, Streaming, Dead
  <2>2. QED BY <2>1, FS_Subset DEF ChatInv
<1>10. /\ IsFiniteSet(S \ {r}) /\ Cardinality(S \ {r}) = Cardinality(S) - 1
       /\ IsFiniteSet(S \ {row}) /\ Cardinality(S \ {row}) = Cardinality(S) - 1
       /\ IsFiniteSet(S \ {row, h})
       /\ Cardinality(S \ {row, h}) = Cardinality(S) - 2
  <2>1. /\ IsFiniteSet(S \ {r}) /\ Cardinality(S \ {r}) = Cardinality(S) - 1
        /\ IsFiniteSet(S \ {row}) /\ Cardinality(S \ {row}) = Cardinality(S) - 1
    BY <1>5, <1>6, <1>9, FS_RemoveElement
  <2>2. (S \ {row}) \ {h} = S \ {row, h} /\ h \in S \ {row}
    BY <1>5
  <2>3. /\ IsFiniteSet((S \ {row}) \ {h})
        /\ Cardinality((S \ {row}) \ {h}) = Cardinality(S \ {row}) - 1
    BY <2>1, <2>2, FS_RemoveElement
  <2>4. Cardinality(S) \in Nat
    BY <1>9, FS_CardinalityType
  <2>5. /\ IsFiniteSet(S \ {row, h})
        /\ Cardinality(S \ {row, h}) = Cardinality(S \ {row}) - 1
    BY <2>2, <2>3
  <2>6. Cardinality(S \ {row}) - 1 = Cardinality(S) - 2
    BY <2>1, <2>4
  <2>7. QED BY <2>1, <2>5, <2>6
<1>11. \A f \in [S \ {r} -> S \ {row, h}] :
         \E p, q \in S \ {r} : p # q /\ f[p] = f[q]
  <2>1. Cardinality(S) \in Nat
    BY <1>9, FS_CardinalityType
  <2>2. Cardinality(S \ {r}) > Cardinality(S \ {row, h})
    BY <1>10, <2>1
  <2>3. QED BY <1>10, <2>2, FS_PigeonHole
<1>12. QED
  <2>1. [p \in S \ {r} |-> want[p]] \in [S \ {r} -> S \ {row, h}]
    BY <1>7
  <2>2. PICK f \in [S \ {r} -> S \ {row, h}] : f = [p \in S \ {r} |-> want[p]]
    BY <2>1
  <2>3. PICK p \in S \ {r}, q \in S \ {r} : p # q /\ f[p] = f[q]
    BY <1>11
  <2>4. want[p] = want[q]
    BY <2>2, <2>3
  <2>5. QED BY <1>8, <2>3, <2>4

\* A question of a run is answered once, across restarts and failed launches, and the
\* question the thread's row shows can be answered until somebody did
\* (chat-suspension-registry.ts).
THEOREM AnsweredOnce == Spec => []QuestionsAreAnsweredOnce
<1>1. ChatInv => QuestionsAreAnsweredOnce
  BY ResumedOnce, Answerable DEF QuestionsAreAnsweredOnce
<1>2. QED BY ChatInvariant, <1>1, PTL
=============================================================================
