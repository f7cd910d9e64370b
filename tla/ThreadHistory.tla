---- MODULE ThreadHistory ----
(***************************************************************************)
(* The threads of the list and the history each of them loads              *)
(* (web/src/lib/use-external-history.ts, history-load-state.ts,            *)
(* server-thread-history-adapter.tsx, thread-activity-store.ts,            *)
(* thread-activity-ack.ts, components/assistant-ui/thread-list.tsx,        *)
(* thread.tsx).                                                            *)
(* A thread once opened stays mounted, with its own chat and its own load  *)
(* effect; that effect runs again whenever the thread comes to the front   *)
(* or leaves it, gets its id, is renamed or is reloaded, and must neither  *)
(* spin nor leave the thread blank.  The error it shows and the handler of *)
(* "Retry" are one per window.                                             *)
(* A transcript reaches the server at once: its way is TranscriptSync's.   *)
(* Left out: editing and truncating, reloading the window, deleting the    *)
(* thread in front, conversions of single messages.                        *)
(***************************************************************************)
EXTENDS Naturals, Sequences, FiniteSets, Functions, SequencesExt

CONSTANTS ChatThreads,
          FreshThreads,  \* those of ChatThreads made in this window
          HistoryTurns,  \* what may be said, each once
          FileTurns,     \* the turns that carry a file or a skill
          HistoryFails,  \* bound: requests that fail
          HistoryActs,   \* bound: what the user does and titles that arrive
          NoThread

ASSUME ThreadHistoryAssumption ==
  /\ FreshThreads \subseteq ChatThreads /\ FileTurns \subseteq HistoryTurns
  /\ NoThread \notin ChatThreads /\ HistoryFails \in Nat /\ HistoryActs \in Nat

VARIABLES
  following,         \* what this behaviour follows: the "history" or the "badges"
  mainThread,        \* the thread in front
  mounted,           \* the threads opened so far, in that order
  remoteIds,         \* the threads the server has a row of
  deletedThreads,
  transcript, storedMessages,  \* of each thread: in the chat, and in the server
  loadedRemoteId, attemptedRemoteId, \* the threads whose refs are set
  loadGeneration, wasMain,
  reloadNonce,       \* the threads reloaded by hand: the nonce never falls back to 0
  historyLoads,      \* requests for a history
  historyError,      \* history-load-state: the thread whose load failed
  retryHandler,      \* history-load-state: the thread "Retry" reloads
  chatRuns,          \* of each thread: "none", "sending" or "running"
  saidIn, answered,  \* the thread each turn was said in, and the turns answered
  serverActivity, activityMap, polling, ackedAt, \* the badges of the list
  leftAt,            \* how many runs had finished when the thread was left
  blind,             \* threads the user wrote in before their history was there
  leftLater,         \* the thread last left had been mounted after the one in front
  errorTaken,        \* did another thread's error take the place of the one in front?
  failures, historyActs

historyVars == <<following, mainThread, mounted, remoteIds, deletedThreads, transcript, storedMessages, loadedRemoteId,
                 attemptedRemoteId, loadGeneration, wasMain, reloadNonce, historyLoads,
                 historyError, retryHandler, chatRuns, saidIn, answered, serverActivity, activityMap,
                 polling, ackedAt, leftAt, blind, leftLater, errorTaken, failures, historyActs>>

frontVars == <<mainThread, mounted, leftLater, errorTaken, deletedThreads>>
chatVars == <<transcript, storedMessages, chatRuns, saidIn, answered, blind>>
listVars == <<serverActivity, activityMap, polling, ackedAt, leftAt>>
loadVars == <<loadedRemoteId, attemptedRemoteId, loadGeneration, wasMain, historyLoads,
              historyError>>

SaidOf(m) == [turn |-> m, role |-> "user"]
ReplyTo(m) == [turn |-> m, role |-> "assistant"]
Earlier(t) == <<[turn |-> t, role |-> "user"], [turn |-> t, role |-> "assistant"]>>
Unread == <<[turn |-> NoThread, role |-> "none"]>>

Idle == [kind |-> "idle", at |-> 0]
Finished == Cardinality(answered)

HistoryInit ==
  /\ following \in {"history", "badges"}
  /\ mainThread \in FreshThreads /\ mounted = <<mainThread>> /\ deletedThreads = {}
  /\ remoteIds = ChatThreads \ FreshThreads
  /\ storedMessages = [t \in ChatThreads |-> IF t \in FreshThreads THEN <<>> ELSE Earlier(t)]
  /\ IF following = "badges"    \* the histories have been loaded
     THEN loadedRemoteId = remoteIds /\ transcript = storedMessages
     ELSE loadedRemoteId = {} /\ transcript = [t \in ChatThreads |-> <<>>]
  /\ attemptedRemoteId = loadedRemoteId /\ wasMain = {} /\ reloadNonce = {}
  /\ loadGeneration = [t \in ChatThreads |-> 0] /\ historyLoads = {}
  /\ historyError = NoThread /\ retryHandler = NoThread
  /\ chatRuns = [t \in ChatThreads |-> "none"] /\ saidIn = [m \in HistoryTurns |-> NoThread]
  /\ answered = {}
  /\ serverActivity = [t \in ChatThreads |-> Idle] /\ activityMap = serverActivity
  /\ polling = << >> /\ ackedAt = [t \in ChatThreads |-> 0]
  /\ leftAt = [t \in ChatThreads |-> 0] /\ blind = {} /\ leftLater = FALSE /\ errorTaken = FALSE /\ failures = 0 /\ historyActs = 0

-----------------------------------------------------------------------------
(* The load effect.                                                        *)

IsCurrent(load) == load.gen = loadGeneration[load.of]
isLoading(t) == \E load \in historyLoads : load.of = t /\ IsCurrent(load)

MayLoadLazy(t, main, remote, loaded, attempted, nonce) ==    \* a bug
  /\ t \in remote
  /\ ~(t \in loaded /\ transcript[t] # <<>>)
  /\ t \notin attempted \/ t \in nonce

(* Whether the effect of t fetches: not before the server has the thread,  *)
(* not when the chat shows what was loaded, and after an attempt only when *)
(* the thread comes to the front or was reloaded by hand.                  *)
MayLoad(t, main, remote, loaded, attempted, nonce) ==
  /\ t \in remote
  /\ ~(t \in loaded /\ transcript[t] # <<>>)
  /\ t \notin attempted \/ (t = main /\ t \notin wasMain) \/ t \in nonce

(* The effects of the threads ts run, with these refs and this main thread.*)
RunEffects(ts, main, remote, loaded, attempted, nonce, error) ==
  LET loading == {t \in ts : MayLoad(t, main, remote, loaded, attempted, nonce)}
  IN /\ wasMain' = (wasMain \ (ts \cap remote)) \cup ({main} \cap ts \cap remote)
     /\ loadGeneration' = [t \in ChatThreads |-> loadGeneration[t] + (IF t \in loading THEN 1 ELSE 0)]
     /\ historyLoads' = {l \in historyLoads : l.of \notin loading \/ l.got = Unread}
          \cup {[of |-> t, gen |-> loadGeneration[t] + 1, asMain |-> t = main, got |-> Unread] :
                  t \in loading}
     /\ historyError' = IF error \in loading THEN NoThread ELSE error
     /\ loadedRemoteId' = loaded /\ attemptedRemoteId' = attempted

(* The server reads the messages of the thread.                            *)
FetchThreadMessages(load) ==
  /\ load \in historyLoads /\ load.got = Unread
  /\ historyLoads' = IF IsCurrent(load)
       THEN (historyLoads \ {load}) \cup {[load EXCEPT !.got = storedMessages[load.of]]}
       ELSE historyLoads \ {load}
  /\ UNCHANGED <<frontVars, remoteIds, loadedRemoteId, attemptedRemoteId, loadGeneration,
                 wasMain, reloadNonce, historyError, retryHandler, chatVars, listVars, failures, historyActs>>

Carrying(ms) == Cardinality({i \in DOMAIN ms : ms[i].role = "user" /\ ms[i].turn \in FileTurns})



(* Whether a history that arrives takes the place of the chat: not when the*)
(* chat has more messages, or more files or skills, than the server.       *)
shouldHydrate(got, live) ==
  \/ live = <<>>
  \/ Len(got) >= Len(live) /\ Carrying(got) >= Carrying(live)

(* The history arrives.  The answer to an older request says nothing.      *)
HistoryArrives(load) ==
  LET t == load.of IN
  /\ load \in historyLoads /\ load.got # Unread /\ historyLoads' = historyLoads \ {load}
  /\ IF IsCurrent(load)
     THEN /\ attemptedRemoteId' = attemptedRemoteId \cup {t}
          /\ loadedRemoteId' = loadedRemoteId \cup {t}
          /\ transcript' = [transcript EXCEPT ![t] =
               IF load.got # <<>> /\ shouldHydrate(load.got, @) THEN load.got ELSE @]
     ELSE UNCHANGED <<attemptedRemoteId, loadedRemoteId, transcript>>
  /\ UNCHANGED <<frontVars, remoteIds, storedMessages, loadGeneration, wasMain, reloadNonce,
                 historyError, retryHandler, chatRuns, saidIn, answered, blind, listVars, failures, historyActs>>

(* The request fails.  The error is shown only by a load begun in front.   *)
HistoryFailed(load) ==
  LET t == load.of IN
  /\ following = "history" /\ failures < HistoryFails /\ failures' = failures + 1
  /\ load \in historyLoads /\ IsCurrent(load) /\ historyLoads' = historyLoads \ {load}
  /\ attemptedRemoteId' = attemptedRemoteId \cup {t}
  /\ historyError' = IF load.asMain THEN t ELSE historyError
  /\ errorTaken' = IF load.asMain THEN t # mainThread /\ (errorTaken \/ historyError = mainThread)
                   ELSE errorTaken
  /\ UNCHANGED <<mainThread, mounted, leftLater, deletedThreads, remoteIds, loadedRemoteId,
                 loadGeneration, wasMain, reloadNonce, retryHandler, chatVars, listVars, historyActs>>

-----------------------------------------------------------------------------
(* What the user does.                                                     *)

Act == historyActs < HistoryActs /\ historyActs' = historyActs + 1
Index(t) == CHOOSE i \in DOMAIN mounted : mounted[i] = t

(* The badge of a thread in front is acknowledged once it says anything but*)
(* "running".                                                              *)
ackTerminal(acked, activity, main) ==
  IF activity[main].kind = "finished" /\ chatRuns[main] = "none"
  THEN [acked EXCEPT ![main] = activity[main].at] ELSE acked

(* Another thread comes to the front.  The effects run in the order the    *)
(* threads were mounted: a thread mounted later that is left unsets the    *)
(* handler that the one in front has just set.                             *)
SwitchToThread(t) ==
  LET order == IF t \in ToSet(mounted) THEN mounted ELSE Append(mounted, t) IN
  /\ Act /\ t \notin deletedThreads \cup {mainThread} /\ mainThread' = t /\ mounted' = order
  /\ RunEffects({mainThread, t}, t, remoteIds, loadedRemoteId, attemptedRemoteId, reloadNonce,
                historyError)
  /\ leftLater' = (t \in ToSet(mounted) /\ Index(t) < Index(mainThread))
  /\ errorTaken' = FALSE
  /\ retryHandler' = IF t \in remoteIds /\ ~leftLater' THEN t ELSE NoThread
  /\ leftAt' = IF following = "badges" THEN [leftAt EXCEPT ![mainThread] = Finished] ELSE leftAt
  /\ ackedAt' = ackTerminal(ackedAt, activityMap, t)
  /\ UNCHANGED <<deletedThreads, remoteIds, reloadNonce, chatVars, serverActivity, activityMap, polling,
                 failures>>

(* "Retry" is on screen while a thread without messages has an error.      *)
ShowsError == historyError = mainThread /\ mainThread \in remoteIds /\ transcript[mainThread] = <<>>

ReloadHistory ==
  LET t == retryHandler IN
  /\ Act /\ ShowsError /\ ~isLoading(mainThread) /\ t # NoThread
  /\ reloadNonce' = reloadNonce \cup {t}
  /\ RunEffects({t}, mainThread, remoteIds, loadedRemoteId \ {t}, attemptedRemoteId \ {t},
                reloadNonce', IF historyError = t THEN NoThread ELSE historyError)
  /\ UNCHANGED <<frontVars, remoteIds, retryHandler, chatVars, listVars, failures>>

(* A title arrives, made by the server or typed.                           *)
Retitle(t) ==
  /\ following = "history" /\ Act /\ t \in ToSet(mounted) \cap remoteIds
  /\ RunEffects({t}, mainThread, remoteIds, loadedRemoteId, attemptedRemoteId, reloadNonce, historyError)
  /\ UNCHANGED <<frontVars, remoteIds, reloadNonce, retryHandler, chatVars, listVars, failures>>

(* A thread of the list is deleted; a request that fails changes nothing.  *)
DeleteThread(t) ==
  /\ Act /\ t \in remoteIds \ {mainThread} /\ chatRuns[t] = "none"
  /\ remoteIds' = remoteIds \ {t} /\ deletedThreads' = deletedThreads \cup {t}
  /\ mounted' = SelectSeq(mounted, LAMBDA u : u # t)
  /\ historyLoads' = {l \in historyLoads : l.of # t}
  /\ storedMessages' = [storedMessages EXCEPT ![t] = <<>>]
  /\ UNCHANGED <<leftLater, errorTaken, mainThread, transcript, loadedRemoteId, attemptedRemoteId, loadGeneration, wasMain,
                 reloadNonce, historyError, retryHandler, chatRuns, saidIn, answered, blind, listVars,
                 failures>>

(* The user writes: nothing waits for the history.                         *)
Say(m) ==
  LET t == mainThread IN
  /\ Act /\ saidIn[m] = NoThread /\ chatRuns[t] = "none"
  /\ saidIn' = [saidIn EXCEPT ![m] = t]
  /\ transcript' = [transcript EXCEPT ![t] = Append(@, SaidOf(m))]
  /\ chatRuns' = [chatRuns EXCEPT ![t] = "sending"]
  /\ blind' = IF t \notin FreshThreads /\ t \notin loadedRemoteId THEN blind \cup {t} ELSE blind
  /\ UNCHANGED <<frontVars, remoteIds, storedMessages, loadVars, reloadNonce, retryHandler,
                 answered, listVars, failures>>

(* A fresh thread is made at the server before its first message is sent.  *)
Initialize(t) ==
  /\ t \notin remoteIds \cup deletedThreads /\ chatRuns[t] = "sending" /\ remoteIds' = remoteIds \cup {t}
  /\ RunEffects({t}, mainThread, remoteIds', loadedRemoteId, attemptedRemoteId, reloadNonce, historyError)
  /\ retryHandler' = IF t = mainThread THEN t ELSE retryHandler
  /\ UNCHANGED <<frontVars, reloadNonce, chatVars, listVars, failures, historyActs>>

Now(t, activity) ==
  serverActivity' = IF following = "badges" THEN [serverActivity EXCEPT ![t] = activity]
                    ELSE serverActivity

(* The message is posted, with the transcript before it.                   *)
Post(t) ==
  /\ t \in remoteIds /\ chatRuns[t] = "sending"
  /\ chatRuns' = [chatRuns EXCEPT ![t] = "running"]
  /\ storedMessages' = [storedMessages EXCEPT ![t] = transcript[t]]
  /\ Now(t, [kind |-> "running", at |-> 0])
  /\ UNCHANGED <<frontVars, remoteIds, transcript, loadVars, reloadNonce, retryHandler, saidIn,
                 answered, activityMap, polling, ackedAt, leftAt, blind, failures, historyActs>>

(* The reply ends and the transcript is stored.                            *)
OnFinish(t) ==
  /\ chatRuns[t] = "running" /\ chatRuns' = [chatRuns EXCEPT ![t] = "none"]
  /\ \E m \in HistoryTurns \ answered :
       /\ saidIn[m] = t /\ answered' = answered \cup {m}
       /\ transcript' = [transcript EXCEPT ![t] = Append(@, ReplyTo(m))]
  /\ storedMessages' = [storedMessages EXCEPT ![t] = transcript'[t]]
  /\ Now(t, [kind |-> "finished", at |-> Finished + 1])
  /\ ackedAt' = IF t = mainThread /\ activityMap[t].kind = "finished"
                THEN [ackedAt EXCEPT ![t] = activityMap[t].at] ELSE ackedAt
  /\ UNCHANGED <<frontVars, remoteIds, loadVars, reloadNonce, retryHandler, saidIn,
                 activityMap, polling, leftAt, blind, failures, historyActs>>

-----------------------------------------------------------------------------
(* The badges: one request at a time for the activity of all threads.      *)

FetchActivity ==
  /\ following = "badges" /\ polling = << >> /\ serverActivity # activityMap /\ polling' = serverActivity
  /\ UNCHANGED <<frontVars, remoteIds, loadVars, reloadNonce, retryHandler, chatVars,
                 serverActivity, activityMap, ackedAt, leftAt, failures, historyActs>>

ActivityArrives ==
  /\ polling # << >> /\ activityMap' = polling /\ polling' = << >>
  /\ ackedAt' = ackTerminal(ackedAt, polling, mainThread)
  /\ UNCHANGED <<frontVars, remoteIds, loadVars, reloadNonce, retryHandler, chatVars,
                 serverActivity, leftAt, failures, historyActs>>

shouldShowThreadActivityBadge(t) ==
  \/ activityMap[t].kind = "running"
  \/ activityMap[t].kind = "finished" /\ activityMap[t].at > ackedAt[t]

HistoryNext ==
  /\ UNCHANGED following
  /\ \/ \E load \in historyLoads :
          FetchThreadMessages(load) \/ HistoryArrives(load) \/ HistoryFailed(load)
     \/ \E t \in ChatThreads :
          SwitchToThread(t) \/ DeleteThread(t) \/ Retitle(t) \/ Initialize(t) \/ Post(t) \/ OnFinish(t)
     \/ \E m \in HistoryTurns : Say(m)
     \/ ReloadHistory \/ FetchActivity \/ ActivityArrives

HistorySpec == HistoryInit /\ [][HistoryNext]_historyVars

-----------------------------------------------------------------------------

(* Everything said in t, now and before.                                   *)
EverSaid(t) == {SaidOf(m) : m \in {n \in HistoryTurns : saidIn[n] = t}}
               \cup (IF t \in FreshThreads THEN {} ELSE ToSet(Earlier(t)))

(* A thread in front that loads nothing shows its whole history, or the    *)
(* error of its own load unless that of a thread left before came later,   *)
(* with a "Retry" that works unless the thread left                        *)
(* for it was opened later (use-external-history.ts, thread.tsx: "Never    *)
(* spin", but never a blank thread either); nothing that was said is lost, *)
(* in a thread the user did not write in before its history was there; and *)
(* a run that ended behind the user's back keeps its badge until the user  *)
(* comes back to the thread (thread-activity-ack.ts).                      *)
HistoryIsShown ==
  /\ \A t \in remoteIds \ blind :
       /\ EverSaid(t) \subseteq ToSet(transcript[t]) \cup ToSet(storedMessages[t])
       /\ t = mainThread /\ ~isLoading(t) =>
            EverSaid(t) \subseteq ToSet(transcript[t]) \/ ShowsError \/ errorTaken
  /\ ShowsError => retryHandler = mainThread \/ leftLater
  /\ \A t \in ChatThreads \ {mainThread} :
       /\ serverActivity[t].kind = "finished" /\ serverActivity[t].at > leftAt[t]
       /\ activityMap[t] = serverActivity[t]
       => shouldShowThreadActivityBadge(t)
====
