---------------------------- MODULE AppPartsProofs ----------------------------
(***************************************************************************)
(* Proofs about the app and what is posted to the server.                  *)
(*                                                                         *)
(* The server a developer's launch leaves running: DevInv says that a      *)
(* launch which meets no other ends what it finds, in the order of its two *)
(* scripts (Converging), before it spawns or keeps one watchdog;           *)
(* OneDevServerIsLeft follows once all is at rest.                         *)
(*                                                                         *)
(* The composer: ComposerInv says where each message is, what ends the run *)
(* that is under way, and which idle event is the one to ignore;           *)
(* QueueIsServed follows.                                                  *)
(*                                                                         *)
(* Webhooks and what they start: EventsInv says how far each delivery has  *)
(* got and what it has started by then; EventsAreAnswered follows.         *)
(*                                                                         *)
(* The streamed answer: StreamInv says that what was read ends every frame *)
(* up to the cursor, in order, and what a connection may bring next;       *)
(* StreamIsWhole follows.                                                  *)
(*                                                                         *)
(* The history a thread shows: HistoryInv says that what was fetched is    *)
(* how the server's copy began and that the chat begins so, that a thread  *)
(* in front which waits for its history is loaded or has its error, and    *)
(* up to when a badge is acknowledged; HistoryIsShown follows.             *)
(***************************************************************************)
EXTENDS DevServers, ComposerRuns, EventTriggers, StreamClient,
        ThreadHistory, FiniteSetTheorems, SequenceTheorems, TLAPS

-----------------------------------------------------------------------------
(* The server of a developer's app. *)

DogStates == {"none", "starting", "up", "doomed", "gone"}
KidStates == {"none", "idle", "booting", "serving", "stopping"}
Reached == {"new", "asking", "routes", "keeping", "stopping", "waiting", "sweeping", "port",
            "sweeping again", "spawning", "health", "ready", "failed"}
Fallen == {"none", "doomed", "gone"}

DevTypeOK ==
  /\ dog \in [Launches -> DogStates] /\ kid \in [Launches -> KidStates]
  /\ port \in Launches \cup {0} /\ pidFile \in Launches \cup {0}
  /\ script \in [Launches -> {"prep", "ensure"}] /\ reached \in [Launches -> Reached]
  /\ owner \in [Launches -> Launches \cup {0}]
  /\ met \in SUBSET Launches /\ killed \in SUBSET Launches /\ fooled \in SUBSET Launches
  /\ erased \in BOOLEAN

\* Launches begin in their order.  Of one that has met no other, the earlier ones
\* have ended, and so have all others while it runs.
LaunchesInTurn ==
  /\ \A l, m \in Launches : m < l /\ reached[m] = "new" => reached[l] = "new"
  /\ (\E l \in Launches : reached[l] # "new") =>
       \E l \in Launches : reached[l] # "new" /\ \A m \in Launches : m > l => reached[m] = "new"
  /\ \A l, m \in Launches : reached[l] # "new" /\ l \notin met /\ m < l => ~Under(m)

\* A watchdog and its child.  A watchdog that was not killed has told its child to end.
DogsAndKids ==
  \A d \in Launches :
    /\ dog[d] \in {"none", "starting"} => kid[d] = "none"
    /\ dog[d] = "gone" /\ d \notin killed => kid[d] \in {"none", "stopping"}
    /\ port = d => kid[d] \in {"serving", "stopping"}

\* Where a launch is, and what it knows.
ScriptsInStep ==
  /\ pidFile # 0 => dog[pidFile] \notin {"none", "starting"}
  /\ \A l \in Launches :
       /\ reached[l] = "new" => script[l] = "prep"
       /\ reached[l] \in {"routes", "spawning", "health", "ready"} => script[l] = "ensure"
       /\ reached[l] = "sweeping again" => script[l] = "prep"
       /\ dog[l] # "none" => reached[l] \in {"health", "ready", "failed"}
       /\ owner[l] # 0 => dog[owner[l]] \notin {"none", "starting"}
       /\ reached[l] = "keeping" => owner[l] # 0

\* The pid file names a watchdog that is up, or another's exit took the file away.
Named(d) == dog[d] = "up" => pidFile = d \/ (pidFile = 0 /\ erased)
OnlyDog(d) == /\ d \in Launches /\ dog[d] \in {"starting", "up"} /\ Named(d)
              /\ \A x \in Launches \ {d} : dog[x] \in Fallen
Kept(l) == IF dog[l] = "none" THEN owner[l] ELSE l

\* What the last launch, having met no other, has made of the watchdogs it found.
Alone(l) == /\ reached[l] # "new" /\ l \notin met
            /\ \A m \in Launches : m > l => reached[m] = "new"

Converging(l) ==
  /\ script[l] = "ensure" => \A x \in Launches \ {l} : dog[x] # "starting"
  /\ script[l] = "ensure" /\ reached[l] \in {"routes", "keeping"} /\ owner[l] # 0 => Named(owner[l])
  /\ script[l] = "ensure" /\ reached[l] \in {"port", "spawning"} => \A x \in Launches : dog[x] \in Fallen
  /\ reached[l] = "health" => OnlyDog(l)
  /\ reached[l] = "ready" /\ l \notin fooled => OnlyDog(Kept(l))

LastLaunchRules == \A l \in Launches : Alone(l) => Converging(l)

DevInv == DevTypeOK /\ LaunchesInTurn /\ DogsAndKids /\ ScriptsInStep /\ LastLaunchRules

LEMMA DevInitially == DevInit => DevInv
<1>1. DevInit => DevTypeOK
  <2>1. DevInit => dog \in [Launches -> DogStates] /\ kid \in [Launches -> KidStates]
    BY DEF DevInit, DogStates, KidStates
  <2>2. DevInit => script \in [Launches -> {"prep", "ensure"}] /\ reached \in [Launches -> Reached]
    BY DEF DevInit, Reached
  <2>3. DevInit => owner \in [Launches -> Launches \cup {0}]
    BY DEF DevInit
  <2>4. DevInit => /\ port \in Launches \cup {0} /\ pidFile \in Launches \cup {0}
                   /\ met \in SUBSET Launches /\ killed \in SUBSET Launches /\ fooled \in SUBSET Launches
                   /\ erased \in BOOLEAN
    BY DEF DevInit
  <2> QED
    BY <2>1, <2>2, <2>3, <2>4 DEF DevTypeOK
<1>2. DevInit => LaunchesInTurn
  BY DEF DevInit, LaunchesInTurn
<1>3. DevInit => DogsAndKids
  BY DevServersAssumption DEF DevInit, DogsAndKids
<1>4. DevInit => ScriptsInStep
  BY DEF DevInit, ScriptsInStep
<1>5. DevInit => LastLaunchRules
  BY DEF DevInit, LastLaunchRules, Alone
<1> QED
  BY <1>1, <1>2, <1>3, <1>4, <1>5 DEF DevInv

\* What remains of the watchdogs that are signalled.
LEMMA WhatTerminates ==
  ASSUME DevTypeOK, NEW T \in SUBSET Launches
  PROVE  /\ Terminated(T) \in [Launches -> DogStates]
         /\ \A d \in Launches :
              /\ d \notin T => Terminated(T)[d] = dog[d]
              /\ d \in T => Terminated(T)[d] \in Fallen /\ (dog[d] \in Fallen => Terminated(T)[d] = dog[d])
              /\ Terminated(T)[d] = "none" <=> dog[d] = "none"
              /\ Terminated(T)[d] \in {"starting", "up"} => Terminated(T)[d] = dog[d]
              /\ Terminated(T)[d] = "gone" => dog[d] \in {"starting", "gone"}
<1> DEFINE D(d) == CASE d \in T /\ dog[d] = "starting" -> "gone"
                        [] d \in T /\ dog[d] = "up"       -> "doomed"
                        [] OTHER                                -> dog[d]
<1>1. Terminated(T) = [d \in Launches |-> D(d)]
  BY DEF Terminated
<1>2. ASSUME NEW d \in Launches
      PROVE  /\ d \notin T => D(d) = dog[d]
             /\ d \in T /\ dog[d] = "starting" => D(d) = "gone"
             /\ d \in T /\ dog[d] = "up" => D(d) = "doomed"
             /\ dog[d] \notin {"starting", "up"} => D(d) = dog[d]
  OBVIOUS
<1>3. ASSUME NEW d \in Launches PROVE Terminated(T)[d] = D(d) /\ dog[d] \in DogStates
  BY <1>1 DEF DevTypeOK
<1> HIDE DEF D
<1> QED
  BY <1>1, <1>2, <1>3 DEF DogStates, Fallen

\* Only the launch that met no other can act while it is the last.
LEMMA TheLastActs ==
  ASSUME DevTypeOK, LaunchesInTurn, NEW l \in Launches, Under(l), NEW k \in Launches, Alone(k)
  PROVE  k = l
<1>1. ~(l < k)
  BY DEF LaunchesInTurn, Alone
<1>2. ~(l > k)
  BY DEF Under, Alone
<1> QED
  BY <1>1, <1>2, DevServersAssumption

\* The turns of the launches change only when one begins.
LEMMA TurnsStay ==
  ASSUME DevTypeOK, LaunchesInTurn, UNCHANGED met, NEW l \in Launches, Under(l),
         NEW w \in Reached \ {"new"}, Goto(l, w)
  PROVE  /\ reached' \in [Launches -> Reached] /\ reached'[l] = w
         /\ \A m \in Launches \ {l} : reached'[m] = reached[m]
         /\ LaunchesInTurn'
         /\ \A k \in Launches : Alone(k)' => Alone(k) /\ k = l
<1>1. /\ reached' \in [Launches -> Reached] /\ reached'[l] = w
      /\ \A m \in Launches \ {l} : reached'[m] = reached[m]
  BY DEF Goto, DevTypeOK
<1>2. \A m \in Launches : reached'[m] = "new" <=> reached[m] = "new"
  BY <1>1 DEF Under
<1>3. ASSUME NEW k \in Launches, NEW m \in Launches, m < k, reached'[m] = "new" PROVE reached'[k] = "new"
  BY <1>2, <1>3 DEF LaunchesInTurn
<1>4. ASSUME NEW k \in Launches, reached'[k] # "new"
      PROVE  \E n \in Launches : reached'[n] # "new" /\ \A m \in Launches : m > n => reached'[m] = "new"
  <2>1. PICK n \in Launches : reached[n] # "new" /\ \A m \in Launches : m > n => reached[m] = "new"
    BY <1>2, <1>4 DEF LaunchesInTurn
  <2> QED
    BY <1>2, <2>1
<1>5. ASSUME NEW k \in Launches, NEW m \in Launches, reached'[k] # "new", k \notin met, m < k PROVE ~Under(m)'
  <2>1. ~Under(m)
    BY <1>2, <1>5 DEF LaunchesInTurn
  <2>2. m # l
    BY <2>1
  <2> QED
    BY <1>1, <2>1, <2>2 DEF Under
<1>6. LaunchesInTurn'
  BY <1>3, <1>4, <1>5 DEF LaunchesInTurn
<1>7. ASSUME NEW k \in Launches, Alone(k)' PROVE Alone(k) /\ k = l
  <2>1. Alone(k)
    BY <1>2, <1>7 DEF Alone
  <2> QED
    BY <2>1, TheLastActs
<1> QED
  BY <1>1, <1>6, <1>7

\* So only the launch that acts has something to keep to.
LEMMA TheLastKeeps ==
  ASSUME DevInv, UNCHANGED met, NEW l \in Launches, Under(l), NEW w \in Reached \ {"new"}, Goto(l, w),
         Alone(l) /\ Converging(l) => Converging(l)'
  PROVE  LastLaunchRules'
<1>1. \A k \in Launches : Alone(k)' => Alone(k) /\ k = l
  BY TurnsStay DEF DevInv
<1> QED
  BY <1>1 DEF DevInv, LastLaunchRules

\* The steps of the servers touch nothing that the launches look at.
LEMMA ServersKeep ==
  ASSUME DevInv, UNCHANGED <<dog, pidFile, launchVars, ghostVars, killed>>
  PROVE  LaunchesInTurn' /\ ScriptsInStep' /\ LastLaunchRules'
<1>1. LaunchesInTurn'
  BY DEF DevInv, LaunchesInTurn, Under, launchVars, ghostVars
<1>2. ScriptsInStep'
  BY DEF DevInv, ScriptsInStep, launchVars
<1>3. LastLaunchRules'
  BY DEF DevInv, LastLaunchRules, Alone, Converging, OnlyDog, Named, Kept, launchVars, ghostVars
<1> QED
  BY <1>1, <1>2, <1>3

\* Every step of a server keeps the invariant.
LEMMA ServerStep ==
  ASSUME DevInv, NEW d \in Launches,
         spawnServer(d) \/ watchHealth(d) \/ ServerBoots(d) \/ KidEnds(d)
  PROVE  DevInv'
<1> USE DevServersAssumption
<1>1. UNCHANGED <<dog, pidFile, launchVars, ghostVars, killed>>
  BY DEF spawnServer, watchHealth, ServerBoots, KidEnds
<1>2. LaunchesInTurn' /\ ScriptsInStep' /\ LastLaunchRules'
  BY <1>1, ServersKeep
<1>3. PICK k \in KidStates : kid' = [kid EXCEPT ![d] = k]
  BY DEF spawnServer, watchHealth, ServerBoots, KidEnds, KidStates
<1>4. kid' \in [Launches -> KidStates] /\ kid'[d] = k /\ \A x \in Launches \ {d} : kid'[x] = kid[x]
  BY <1>3 DEF DevInv, DevTypeOK
<1>5. port' \in Launches \cup {0}
  BY DEF spawnServer, watchHealth, ServerBoots, KidEnds, DevInv, DevTypeOK
<1>6. DevTypeOK'
  BY <1>1, <1>4, <1>5 DEF DevInv, DevTypeOK, launchVars, ghostVars
<1>7. dog[d] \notin {"none", "starting"} /\ (dog[d] = "gone" /\ d \notin killed => k \in {"none", "stopping"})
  <2>1. kid[d] = "booting" \/ kid[d] = "stopping" \/ dog[d] = "up"
    BY DEF spawnServer, watchHealth, ServerBoots, KidEnds
  <2>2. dog[d] \notin {"none", "starting"}
    BY <2>1 DEF DevInv, DogsAndKids
  <2>3. CASE spawnServer(d) \/ watchHealth(d)
    BY <2>2, <2>3 DEF spawnServer, watchHealth
  <2>4. CASE ServerBoots(d)
    BY <2>2, <2>4 DEF ServerBoots, DevInv, DogsAndKids
  <2>5. CASE KidEnds(d)
    <3>1. k = "none"
      BY <1>4, <2>5 DEF KidEnds, DevInv, DevTypeOK
    <3> QED
      BY <2>2, <3>1
  <2> QED
    BY <2>3, <2>4, <2>5
<1>8. ASSUME NEW x \in Launches, port' = x PROVE kid'[x] \in {"serving", "stopping"}
  <2>1. CASE spawnServer(d) \/ watchHealth(d)
    <3>1. port' = port /\ port # d
      BY <1>8, <2>1 DEF spawnServer, watchHealth, DevInv, DogsAndKids
    <3> QED
      BY <1>4, <1>8, <3>1 DEF DevInv, DogsAndKids
  <2>2. CASE ServerBoots(d)
    BY <1>3, <1>4, <1>8, <2>2 DEF ServerBoots, DevInv, DevTypeOK, DogsAndKids
  <2>3. CASE KidEnds(d)
    BY <1>3, <1>4, <1>8, <2>3 DEF KidEnds, DevInv, DevTypeOK, DogsAndKids
  <2> QED
    BY <2>1, <2>2, <2>3
<1>9. DogsAndKids'
  BY <1>1, <1>4, <1>7, <1>8 DEF DevInv, DogsAndKids
<1> QED
  BY <1>2, <1>6, <1>9 DEF DevInv

\* So does the restart of all of them.
LEMMA RestartStep ==
  ASSUME DevInv, SourceChanges
  PROVE  DevInv'
<1> USE DevServersAssumption
<1>1. UNCHANGED <<dog, pidFile, launchVars, ghostVars, killed>>
  BY DEF SourceChanges
<1>2. LaunchesInTurn' /\ ScriptsInStep' /\ LastLaunchRules'
  BY <1>1, ServersKeep
<1>3. /\ kid' \in [Launches -> KidStates]
      /\ \A d \in Launches : kid'[d] = IF kid[d] \in {"idle", "serving"} THEN "booting" ELSE kid[d]
  BY DEF SourceChanges, DevInv, DevTypeOK, KidStates
<1>4. /\ port' \in Launches \cup {0}
      /\ \A d \in Launches : port' = d => kid[d] = "stopping"
  BY DEF SourceChanges, DevInv, DevTypeOK
<1>5. DevTypeOK'
  BY <1>1, <1>3, <1>4 DEF DevInv, DevTypeOK, launchVars, ghostVars
<1>6. DogsAndKids'
  BY <1>1, <1>3, <1>4 DEF DevInv, DogsAndKids
<1> QED
  BY <1>2, <1>5, <1>6 DEF DevInv

\* A watchdog comes up only after everything else has ended, and a doomed one says so.
LEMMA DogStepKeeps ==
  ASSUME DevInv, NEW d \in Launches, DogStarts(d) \/ shutdown(d)
  PROVE  DevInv'
<1> USE DevServersAssumption
<1> DEFINE new == IF DogStarts(d) THEN "up" ELSE "gone"
<1>1. /\ DogStarts(d) => dog[d] = "starting" /\ dog' = [dog EXCEPT ![d] = "up"] /\ pidFile' = d /\ erased' = erased
      /\ ~DogStarts(d) => /\ dog[d] = "doomed" /\ dog' = [dog EXCEPT ![d] = "gone"] /\ pidFile' = 0
                          /\ erased' = (erased \/ pidFile \notin {0, d})
      /\ UNCHANGED <<port, launchVars, met, fooled, killed>>
  BY DEF DogStarts, shutdown, ghostVars
<1>2. PICK k \in {"none", "booting", "stopping"} : kid' = [kid EXCEPT ![d] = k]
  BY DEF DogStarts, shutdown
<1>3. DogStarts(d) => k = "booting"
  BY <1>2 DEF DogStarts, DevInv, DevTypeOK
<1>4. ~DogStarts(d) => k \in {"none", "stopping"} /\ (kid[d] # "none" => k = "stopping")
  BY <1>2 DEF shutdown, DevInv, DevTypeOK
<1>5. /\ dog' \in [Launches -> DogStates] /\ dog'[d] = new /\ \A x \in Launches \ {d} : dog'[x] = dog[x]
  BY <1>1 DEF DevInv, DevTypeOK, DogStates
<1>6. /\ kid' \in [Launches -> KidStates] /\ kid'[d] = k /\ \A x \in Launches \ {d} : kid'[x] = kid[x]
  BY <1>2 DEF DevInv, DevTypeOK, KidStates
<1>7. erased' \in BOOLEAN /\ (erased => erased') /\ (~DogStarts(d) /\ pidFile \notin {0, d} => erased')
  <2>1. erased \in BOOLEAN
    BY DEF DevInv, DevTypeOK
  <2>2. CASE DogStarts(d)
    BY <1>1, <2>1, <2>2
  <2>3. CASE ~DogStarts(d)
    BY <1>1, <2>1, <2>3
  <2> QED
    BY <2>2, <2>3
<1>8. DevTypeOK'
  <2>1. pidFile' \in Launches \cup {0}
    BY <1>1
  <2> QED
    BY <1>1, <1>5, <1>6, <1>7, <2>1 DEF DevInv, DevTypeOK, launchVars
<1>9. LaunchesInTurn'
  BY <1>1 DEF DevInv, LaunchesInTurn, Under, launchVars
<1>10. DogsAndKids'
  <2>1. port = d => kid[d] = "stopping" \/ kid[d] = "serving"
    BY DEF DevInv, DogsAndKids
  <2>2. port = d => k = "stopping"
    BY <1>1, <1>4, <2>1 DEF DevInv, DogsAndKids
  <2>3. ASSUME NEW x \in Launches
        PROVE  /\ dog'[x] \in {"none", "starting"} => kid'[x] = "none"
               /\ dog'[x] = "gone" /\ x \notin killed' => kid'[x] \in {"none", "stopping"}
               /\ port' = x => kid'[x] \in {"serving", "stopping"}
    <3>1. CASE x = d
      BY <1>1, <1>3, <1>4, <1>5, <1>6, <2>2, <3>1
    <3>2. CASE x # d
      BY <1>1, <1>5, <1>6, <3>2 DEF DevInv, DogsAndKids
    <3> QED
      BY <3>1, <3>2
  <2> QED
    BY <2>3 DEF DogsAndKids
<1>11. ScriptsInStep'
  <2>1. pidFile' # 0 => dog'[pidFile'] \notin {"none", "starting"}
    BY <1>1, <1>5
  <2>2. \A x \in Launches : /\ (dog'[x] # "none" => dog[x] # "none")
                           /\ (dog[x] \notin {"none", "starting"} => dog'[x] \notin {"none", "starting"})
    BY <1>1, <1>5
  <2>3. \A l \in Launches : owner[l] # 0 => owner[l] \in Launches
    BY DEF DevInv, DevTypeOK
  <2> QED
    BY <1>1, <2>1, <2>2, <2>3 DEF DevInv, ScriptsInStep, launchVars
<1>12. ASSUME NEW l \in Launches, Alone(l)' PROVE Converging(l)'
  <2>1. Alone(l) /\ Converging(l)
    BY <1>1, <1>12 DEF DevInv, LastLaunchRules, Alone, launchVars
  <2>2. UNCHANGED <<script, reached, owner, fooled>>
    BY <1>1 DEF launchVars
  <2>3. \A x \in Launches : (dog[x] # "starting" => dog'[x] # "starting") /\ (dog[x] \in Fallen => dog'[x] \in Fallen)
    BY <1>1, <1>5 DEF Fallen
  <2>4. ASSUME NEW x \in Launches, Named(x), ~DogStarts(d) PROVE Named(x)'
    BY <1>1, <1>5, <1>7, <2>4 DEF Named
  <2>5. ASSUME NEW x \in Launches, OnlyDog(x) PROVE OnlyDog(x)'
    <3>1. CASE d = x
      BY <1>1, <1>5, <2>5, <3>1 DEF OnlyDog, Named, Fallen
    <3>2. CASE d # x
      <4>1. dog[d] \in Fallen
        BY <2>5, <3>2 DEF OnlyDog
      <4>2. ~DogStarts(d)
        BY <1>1, <4>1 DEF Fallen
      <4>3. Named(x)'
        BY <2>4, <2>5, <4>2 DEF OnlyDog
      <4> QED
        BY <1>5, <2>3, <2>5, <3>2, <4>3 DEF OnlyDog
    <3> QED
      BY <3>1, <3>2
  <2>6. script[l] = "ensure" /\ reached[l] \in {"routes", "keeping"} /\ owner[l] # 0 => Named(owner[l])'
    <3>1. HAVE script[l] = "ensure" /\ reached[l] \in {"routes", "keeping"} /\ owner[l] # 0
    <3>2. dog[l] = "none"
      BY <3>1 DEF DevInv, ScriptsInStep
    <3>3. ~DogStarts(d)
      BY <1>1, <2>1, <3>1, <3>2 DEF Converging
    <3>4. PICK o \in Launches : o = owner[l]
      BY <3>1 DEF DevInv, DevTypeOK
    <3>5. Named(o)'
      BY <2>1, <2>4, <3>1, <3>3, <3>4 DEF Converging
    <3> QED
      BY <2>2, <3>4, <3>5
  <2>7. Kept(l)' = Kept(l)
    BY <1>1, <1>5, <2>2 DEF Kept
  <2>8. reached[l] = "ready" /\ l \notin fooled => OnlyDog(Kept(l))'
    <3>1. HAVE reached[l] = "ready" /\ l \notin fooled
    <3>2. OnlyDog(Kept(l))
      BY <2>1, <3>1 DEF Converging
    <3>3. PICK c \in Launches : c = Kept(l)
      BY <3>2 DEF OnlyDog
    <3>4. OnlyDog(c)'
      BY <2>5, <3>2, <3>3
    <3> QED
      BY <2>7, <3>3, <3>4
  <2>9. reached[l] = "health" => OnlyDog(l)'
    BY <2>1, <2>5 DEF Converging
  <2> QED
    BY <2>1, <2>2, <2>3, <2>6, <2>7, <2>8, <2>9 DEF Converging
<1>13. LastLaunchRules'
  BY <1>12 DEF LastLaunchRules
<1> QED
  BY <1>8, <1>9, <1>10, <1>11, <1>13 DEF DevInv

\* Watchdogs are signalled, killed or left alone: none begins and none comes back.
DogsFall ==
  /\ dog' \in [Launches -> DogStates]
  /\ \A x \in Launches :
       /\ dog'[x] = "none" <=> dog[x] = "none"
       /\ dog'[x] \in {"starting", "up"} => dog'[x] = dog[x]
       /\ dog'[x] = "gone" /\ x \notin killed' => dog[x] \in {"starting", "gone"}

LEMMA SignalsFall ==
  ASSUME DevTypeOK, NEW T \in SUBSET Launches, dog' = Terminated(T)
  PROVE  DogsFall /\ \A x \in T : dog'[x] \in Fallen
BY WhatTerminates DEF DogsFall

LEMMA NoSignalFalls ==
  ASSUME DevTypeOK, UNCHANGED dog
  PROVE  DogsFall
BY DEF DogsFall, DevTypeOK

LEMMA FallenKids ==
  ASSUME DevInv, DogsFall, killed \subseteq killed', UNCHANGED <<kid, port>>
  PROVE  DogsAndKids'
BY DEF DevInv, DogsAndKids, DogsFall

\* What a step of a script has to show for the invariant: where it goes, what it knows
\* then, and that the last launch converges.
LEMMA ScriptMoves ==
  ASSUME DevInv, NEW l \in Launches, Under(l), NEW w \in Reached \ {"new"}, Goto(l, w), UNCHANGED <<met, erased>>,
         DogsFall, kid' \in [Launches -> KidStates], port' \in Launches \cup {0}, DogsAndKids',
         killed' \in SUBSET Launches, fooled' \in SUBSET Launches, pidFile' \in {pidFile, 0},
         NEW s \in {"prep", "ensure"}, script' = [script EXCEPT ![l] = s],
         NEW o \in Launches \cup {0}, owner' = [owner EXCEPT ![l] = o], o \in {owner[l], pidFile, 0},
         reached[l] = "health" => w \in {"ready", "failed"},
         w \in {"routes", "spawning", "health", "ready"} => s = "ensure",
         w = "sweeping again" => s = "prep", w = "keeping" => o # 0,
         Alone(l) /\ Converging(l) => Converging(l)'
  PROVE  DevInv'
<1>1. /\ reached' \in [Launches -> Reached] /\ reached'[l] = w /\ LaunchesInTurn'
      /\ \A m \in Launches \ {l} : reached'[m] = reached[m]
  BY TurnsStay DEF DevInv
<1>2. LastLaunchRules'
  BY TheLastKeeps
<1>3. /\ script' \in [Launches -> {"prep", "ensure"}] /\ script'[l] = s
      /\ \A m \in Launches \ {l} : script'[m] = script[m]
  BY DEF DevInv, DevTypeOK
<1>4. /\ owner' \in [Launches -> Launches \cup {0}] /\ owner'[l] = o
      /\ \A m \in Launches \ {l} : owner'[m] = owner[m]
  BY DEF DevInv, DevTypeOK
<1>5. DevTypeOK'
  <2>1. dog' \in [Launches -> DogStates]
    BY DEF DogsFall
  <2>2. pidFile' \in Launches \cup {0} /\ met' \in SUBSET Launches /\ erased' \in BOOLEAN
    BY DEF DevInv, DevTypeOK
  <2> QED
    BY <1>1, <1>3, <1>4, <2>1, <2>2 DEF DevTypeOK
<1>6. ScriptsInStep'
  <2>1. \A x \in Launches : dog[x] \notin {"none", "starting"} => dog'[x] \notin {"none", "starting"}
    BY DEF DogsFall
  <2>2. pidFile \in Launches \cup {0}
    BY DEF DevInv, DevTypeOK
  <2>3. pidFile' # 0 => dog'[pidFile'] \notin {"none", "starting"}
    BY <2>1, <2>2 DEF DevInv, ScriptsInStep
  <2>4. /\ dog'[l] # "none" => w \in {"health", "ready", "failed"}
        /\ o # 0 => dog'[o] \notin {"none", "starting"}
    <3>1. dog'[l] # "none" => dog[l] # "none"
      BY DEF DogsFall
    <3>2. dog[l] # "none" => reached[l] = "health"
      BY DEF DevInv, ScriptsInStep, Under
    <3>3. o # 0 => o \in Launches /\ dog[o] \notin {"none", "starting"}
      BY <2>2 DEF DevInv, ScriptsInStep
    <3> QED
      BY <2>1, <3>1, <3>2, <3>3
  <2>5. ASSUME NEW m \in Launches
        PROVE  /\ reached'[m] = "new" => script'[m] = "prep"
               /\ reached'[m] \in {"routes", "spawning", "health", "ready"} => script'[m] = "ensure"
               /\ reached'[m] = "sweeping again" => script'[m] = "prep"
               /\ dog'[m] # "none" => reached'[m] \in {"health", "ready", "failed"}
               /\ owner'[m] # 0 => dog'[owner'[m]] \notin {"none", "starting"}
               /\ reached'[m] = "keeping" => owner'[m] # 0
    <3>1. CASE m = l
      BY <1>1, <1>3, <1>4, <2>4, <3>1
    <3>2. CASE m # l
      <4>1. reached'[m] = reached[m] /\ script'[m] = script[m] /\ owner'[m] = owner[m]
        BY <1>1, <1>3, <1>4, <3>2
      <4>2. dog'[m] # "none" => dog[m] # "none"
        BY DEF DogsFall
      <4>3. owner[m] # 0 => owner[m] \in Launches
        BY DEF DevInv, DevTypeOK
      <4> QED
        BY <2>1, <4>1, <4>2, <4>3 DEF DevInv, ScriptsInStep
    <3> QED
      BY <3>1, <3>2
  <2> QED
    BY <2>3, <2>5 DEF ScriptsInStep
<1> QED
  BY <1>1, <1>2, <1>5, <1>6 DEF DevInv

\* The two scripts look, and leave the watchdogs alone.
LEMMA LookingStep ==
  ASSUME DevInv, NEW l \in Launches, PrepAnswered(l) \/ EnsureAnswered(l) \/ ensureOwnedDevServer(l) \/ waitForHealth(l)
  PROVE  DevInv'
<1> USE DevServersAssumption
<1>1. Under(l) /\ l \in DOMAIN script /\ l \in DOMAIN owner
  BY DEF PrepAnswered, EnsureAnswered, ensureOwnedDevServer, waitForHealth, Under, DevInv, DevTypeOK
<1>2. UNCHANGED <<dog, kid, port, pidFile, script, ghostVars, killed>>
  BY DEF PrepAnswered, EnsureAnswered, ensureOwnedDevServer, waitForHealth
<1>3. PICK w \in {"keeping", "stopping", "routes", "ready", "failed"} : Goto(l, w)
  BY DEF PrepAnswered, EnsureAnswered, ensureOwnedDevServer, waitForHealth
<1>4. reached'[l] = w
  BY <1>3 DEF Goto, DevInv, DevTypeOK
<1>5. PICK s \in {"prep", "ensure"} : s = script[l]
  BY DEF DevInv, DevTypeOK
<1>6. PICK o \in Launches \cup {0} : o = IF EnsureAnswered(l) THEN IF port # 0 /\ Live(pidFile) THEN pidFile ELSE 0 ELSE owner[l]
  BY DEF DevInv, DevTypeOK
<1>7. owner' = [owner EXCEPT ![l] = o]
  BY <1>6 DEF PrepAnswered, EnsureAnswered, ensureOwnedDevServer, waitForHealth, DevInv, DevTypeOK
<1>8. owner'[l] = o /\ script' = [script EXCEPT ![l] = s]
  BY <1>2, <1>5, <1>7 DEF DevInv, DevTypeOK
<1>9. DogsFall /\ DogsAndKids'
  BY <1>2, NoSignalFalls, FallenKids DEF DevInv
<1>10. /\ reached[l] = "health" => w \in {"ready", "failed"}
       /\ w \in {"routes", "ready"} => s = "ensure"
       /\ w = "keeping" => o # 0
       /\ w = "ready" => reached[l] = "health"
  <2>1. CASE PrepAnswered(l)
    BY <1>4, <1>6, <1>3, <2>1 DEF PrepAnswered, EnsureAnswered, Goto, DevInv, DevTypeOK
  <2>2. CASE EnsureAnswered(l)
    BY <1>4, <1>5, <2>2 DEF EnsureAnswered, Goto, DevInv, DevTypeOK
  <2>3. CASE ensureOwnedDevServer(l)
    BY <1>4, <1>5, <1>6, <2>3 DEF EnsureAnswered, ensureOwnedDevServer, Goto, DevInv, DevTypeOK, ScriptsInStep
  <2>4. CASE waitForHealth(l)
    BY <1>4, <1>5, <2>4 DEF waitForHealth, Goto, DevInv, DevTypeOK, ScriptsInStep
  <2> QED
    BY <2>1, <2>2, <2>3, <2>4
<1>11. ASSUME Converging(l) PROVE Converging(l)'
  <2>1. script' = script /\ fooled' = fooled /\ dog' = dog /\ pidFile' = pidFile /\ erased' = erased
    BY <1>2 DEF ghostVars
  <2>2. w \in {"routes", "keeping"} /\ o # 0 /\ script[l] = "ensure" => Named(o)
    <3>1. CASE EnsureAnswered(l)
      BY <1>6, <3>1 DEF Named
    <3>2. CASE ~EnsureAnswered(l)
      <4>1. HAVE w \in {"routes", "keeping"} /\ o # 0 /\ script[l] = "ensure"
      <4>2. ensureOwnedDevServer(l)
        BY <1>4, <3>2, <4>1 DEF PrepAnswered, waitForHealth, Goto, DevInv, DevTypeOK
      <4> QED
        BY <1>6, <1>11, <3>2, <4>1, <4>2 DEF ensureOwnedDevServer, Converging
    <3> QED
      BY <3>1, <3>2
  <2>3. w \in {"routes", "keeping"} /\ o # 0 /\ script[l] = "ensure" => Named(owner[l])'
    BY <1>8, <2>1, <2>2 DEF Named
  <2>4. w = "ready" => OnlyDog(l) /\ Kept(l)' = l
    <3>1. HAVE w = "ready"
    <3>2. OnlyDog(l)
      BY <1>10, <1>11, <3>1 DEF Converging
    <3> QED
      BY <2>1, <3>2 DEF OnlyDog, Kept
  <2>5. w = "ready" => OnlyDog(Kept(l))'
    BY <2>1, <2>4 DEF OnlyDog, Named
  <2> QED
    BY <1>4, <1>8, <1>11, <2>1, <2>3, <2>5 DEF Converging
<1>12. /\ kid' \in [Launches -> KidStates] /\ port' \in Launches \cup {0} /\ killed' \in SUBSET Launches
       /\ fooled' \in SUBSET Launches /\ UNCHANGED <<met, erased>> /\ pidFile' \in {pidFile, 0}
  BY <1>2 DEF DevInv, DevTypeOK, ghostVars
<1>13. w \in Reached \ {"new"} /\ o \in {owner[l], pidFile, 0}
  BY <1>6 DEF Reached
<1> QED
  BY <1>1, <1>3, <1>7, <1>8, <1>9, <1>10, <1>11, <1>12, <1>13, ScriptMoves

\* The watchdog that is kept becomes the only one.
LEMMA KeepingStep ==
  ASSUME DevInv, NEW l \in Launches, KeepOwner(l)
  PROVE  DevInv'
<1> USE DevServersAssumption
<1>1. Under(l) /\ reached[l] = "keeping"
  BY DEF KeepOwner, Under
<1>2. PICK o \in Launches : o = owner[l] /\ dog[o] \notin {"none", "starting"}
  BY <1>1 DEF DevInv, DevTypeOK, ScriptsInStep
<1>3. PICK w \in {"asking", "ready"} : w = IF script[l] = "prep" THEN "asking" ELSE "ready"
  OBVIOUS
<1>4. Goto(l, w) /\ script' = [script EXCEPT ![l] = "ensure"]
  BY <1>3 DEF KeepOwner, NextScript, DevInv, DevTypeOK
<1>5. owner' = [owner EXCEPT ![l] = o] /\ owner'[l] = o /\ script'[l] = "ensure" /\ reached'[l] = w
  BY <1>2, <1>4 DEF KeepOwner, Goto, DevInv, DevTypeOK
<1>6. /\ dog' = Terminated(Launches \ {o}) /\ UNCHANGED <<kid, port, pidFile, met, erased, killed>>
      /\ fooled' = IF dog[o] = "up" THEN fooled ELSE fooled \cup {l}
  BY <1>2 DEF KeepOwner
<1>7. /\ DogsFall /\ dog'[o] = dog[o]
      /\ \A x \in Launches \ {o} : dog'[x] \in Fallen
  BY <1>6, SignalsFall, WhatTerminates DEF DevInv
<1>8. DogsAndKids'
  BY <1>6, <1>7, FallenKids
<1>9. ASSUME Converging(l) PROVE Converging(l)'
  <2>1. \A x \in Launches : dog'[x] # "starting"
    BY <1>2, <1>7 DEF Fallen
  <2>2. w = "ready" /\ l \notin fooled' => OnlyDog(o)'
    <3>1. HAVE w = "ready" /\ l \notin fooled'
    <3>2. dog[o] = "up"
      BY <1>6, <3>1
    <3>3. script[l] = "ensure"
      BY <1>3, <3>1 DEF DevInv, DevTypeOK
    <3>4. Named(o)
      BY <1>1, <1>2, <1>9, <3>3, DevServersAssumption DEF Converging
    <3> QED
      BY <1>6, <1>7, <3>2, <3>4 DEF OnlyDog, Named
  <2>3. Kept(l)' = o
    <3>1. dog[l] = "none"
      BY <1>1 DEF DevInv, ScriptsInStep
    <3>2. dog'[l] = "none"
      BY <1>7, <3>1 DEF DogsFall
    <3> QED
      BY <1>5, <3>2 DEF Kept
  <2>4. reached'[l] = "ready" /\ l \notin fooled' => OnlyDog(Kept(l))'
    BY <1>5, <2>2, <2>3
  <2> QED
    BY <1>5, <2>1, <2>4 DEF Converging
<1>10. /\ kid' \in [Launches -> KidStates] /\ port' \in Launches \cup {0} /\ killed' \in SUBSET Launches
       /\ fooled' \in SUBSET Launches /\ UNCHANGED <<met, erased>> /\ pidFile' \in {pidFile, 0}
  BY <1>6 DEF DevInv, DevTypeOK
<1>11. w \in Reached \ {"new"}
  BY DEF Reached
<1> QED
  BY <1>1, <1>2, <1>4, <1>5, <1>7, <1>8, <1>9, <1>10, <1>11, ScriptMoves

\* The one of the pid file is stopped first.
LEMMA StoppingStep ==
  ASSUME DevInv, NEW l \in Launches, stopWatchdogFromPidFile(l)
  PROVE  DevInv'
<1> USE DevServersAssumption
<1>1. Under(l) /\ reached[l] = "stopping" /\ UNCHANGED <<kid, port, script, met, erased, fooled, killed>>
  BY DEF stopWatchdogFromPidFile, Under, ghostVars
<1>2. PICK w \in {"waiting", "sweeping"} : Goto(l, w)
  BY DEF stopWatchdogFromPidFile
<1>3. PICK s \in {"prep", "ensure"} : s = script[l]
  BY DEF DevInv, DevTypeOK
<1>4. PICK o \in Launches \cup {0} : o \in {owner[l], pidFile} /\ owner' = [owner EXCEPT ![l] = o]
  BY DEF stopWatchdogFromPidFile, DevInv, DevTypeOK
<1>5. DogsFall
  <2>1. CASE Live(pidFile)
    <3>1. pidFile \in Launches
      BY <2>1 DEF Live, DevInv, DevTypeOK
    <3> QED
      BY <2>1, <3>1, SignalsFall DEF stopWatchdogFromPidFile, DevInv
  <2>2. CASE ~Live(pidFile)
    BY <2>2, NoSignalFalls DEF stopWatchdogFromPidFile, DevInv
  <2> QED
    BY <2>1, <2>2
<1>6. DogsAndKids'
  BY <1>1, <1>5, FallenKids
<1>7. pidFile' \in {pidFile, 0}
  BY DEF stopWatchdogFromPidFile
<1>8. script' = [script EXCEPT ![l] = s] /\ reached'[l] = w
  BY <1>1, <1>2, <1>3 DEF Goto, DevInv, DevTypeOK
<1>9. ASSUME Converging(l) PROVE Converging(l)'
  BY <1>1, <1>5, <1>8, <1>9 DEF Converging, DogsFall
<1>10. w \in Reached \ {"new"}
  BY DEF Reached
<1>11. /\ kid' \in [Launches -> KidStates] /\ port' \in Launches \cup {0} /\ killed' \in SUBSET Launches
       /\ fooled' \in SUBSET Launches /\ UNCHANGED <<met, erased>>
  BY <1>1 DEF DevInv, DevTypeOK
<1> QED
  BY <1>1, <1>2, <1>4, <1>5, <1>6, <1>7, <1>8, <1>9, <1>10, <1>11, ScriptMoves

\* Its end is waited for, or brought about.
LEMMA WaitingStep ==
  ASSUME DevInv, NEW l \in Launches, StopWaited(l)
  PROVE  DevInv'
<1> USE DevServersAssumption
<1>1. /\ Under(l) /\ reached[l] = "waiting" /\ UNCHANGED <<kid, port, script, owner, met, erased, fooled>>
      /\ pidFile' = 0 /\ Goto(l, "sweeping") /\ "sweeping" \in Reached \ {"new"}
  BY DEF StopWaited, Under, ghostVars, Reached
<1>2. PICK s \in {"prep", "ensure"} : s = script[l]
  BY DEF DevInv, DevTypeOK
<1>3. PICK o \in Launches \cup {0} : o = owner[l] /\ (o # 0 => dog[o] \notin {"none", "starting"})
  BY DEF DevInv, DevTypeOK, ScriptsInStep
<1>4. DogsFall /\ killed \subseteq killed' /\ killed' \in SUBSET Launches
  <2>1. CASE Live(o)
    <3>1. o \in Launches /\ dog' = [dog EXCEPT ![o] = "gone"] /\ killed' = killed \cup {o}
      BY <1>3, <2>1 DEF StopWaited, Live
    <3>2. dog' \in [Launches -> DogStates] /\ dog'[o] = "gone" /\ \A x \in Launches \ {o} : dog'[x] = dog[x]
      BY <3>1 DEF DevInv, DevTypeOK, DogStates
    <3> QED
      BY <1>3, <3>1, <3>2 DEF DogsFall, DevInv, DevTypeOK
  <2>2. CASE ~Live(o)
    <3>1. UNCHANGED <<dog, killed>>
      BY <1>3, <2>2 DEF StopWaited
    <3> QED
      BY <3>1, NoSignalFalls DEF DevInv, DevTypeOK
  <2> QED
    BY <2>1, <2>2
<1>5. DogsAndKids'
  BY <1>1, <1>4, FallenKids
<1>6. script' = [script EXCEPT ![l] = s] /\ owner' = [owner EXCEPT ![l] = o] /\ reached'[l] = "sweeping"
  BY <1>1, <1>2, <1>3 DEF Goto, DevInv, DevTypeOK
<1>7. ASSUME Converging(l) PROVE Converging(l)'
  BY <1>1, <1>4, <1>6, <1>7 DEF Converging, DogsFall
<1>8. /\ kid' \in [Launches -> KidStates] /\ port' \in Launches \cup {0}
      /\ fooled' \in SUBSET Launches /\ UNCHANGED <<met, erased>>
  BY <1>1 DEF DevInv, DevTypeOK
<1> QED
  BY <1>1, <1>3, <1>4, <1>5, <1>6, <1>7, <1>8, ScriptMoves

\* Then all that the process list shows: none is left that could still come up.
LEMMA SweepingStep ==
  ASSUME DevInv, NEW l \in Launches, killRepoWatchdogsByCommand(l)
  PROVE  DevInv'
<1> USE DevServersAssumption
<1>1. /\ Under(l) /\ reached[l] \in {"sweeping", "sweeping again"}
      /\ UNCHANGED <<kid, port, pidFile, owner, met, erased, fooled, killed>> /\ dog' = Terminated(Launches)
  BY DEF killRepoWatchdogsByCommand, Under, ghostVars
<1>2. PICK w \in {"port", "asking"} : w = IF reached[l] = "sweeping" THEN "port" ELSE "asking"
  OBVIOUS
<1>3. PICK s \in {"prep", "ensure"} : s = IF reached[l] = "sweeping" THEN script[l] ELSE "ensure"
  BY DEF DevInv, DevTypeOK
<1>4. Goto(l, w) /\ script' = [script EXCEPT ![l] = s] /\ w \in Reached \ {"new"}
  BY <1>2, <1>3 DEF killRepoWatchdogsByCommand, NextScript, DevInv, DevTypeOK, Reached
<1>5. PICK o \in Launches \cup {0} : o = owner[l]
  BY DEF DevInv, DevTypeOK
<1>6. owner' = [owner EXCEPT ![l] = o] /\ reached'[l] = w
  BY <1>1, <1>4, <1>5 DEF Goto, DevInv, DevTypeOK
<1>7. DogsFall /\ \A x \in Launches : dog'[x] \in Fallen
  BY <1>1, SignalsFall DEF DevInv
<1>8. DogsAndKids'
  BY <1>1, <1>7, FallenKids
<1>9. ASSUME Converging(l) PROVE Converging(l)'
  BY <1>6, <1>7 DEF Converging, Fallen
<1>10. /\ kid' \in [Launches -> KidStates] /\ port' \in Launches \cup {0} /\ killed' \in SUBSET Launches
       /\ fooled' \in SUBSET Launches /\ UNCHANGED <<met, erased>> /\ pidFile' \in {pidFile, 0}
  BY <1>1 DEF DevInv, DevTypeOK
<1> QED
  BY <1>1, <1>4, <1>5, <1>6, <1>7, <1>8, <1>9, <1>10, ScriptMoves

\* Then whoever has a socket on the port.
LEMMA PortStep ==
  ASSUME DevInv, NEW l \in Launches, killPortListener(l)
  PROVE  DevInv'
<1> USE DevServersAssumption
<1>1. /\ Under(l) /\ reached[l] = "port" /\ port' = 0
      /\ UNCHANGED <<pidFile, script, owner, met, erased, fooled>>
  BY DEF killPortListener, Under, ghostVars
<1>2. PICK dogs \in SUBSET {d \in Launches : port # 0 /\ dog[d] \in {"up", "doomed"}} :
        /\ dog' = [d \in Launches |-> IF d \in dogs THEN "gone" ELSE dog[d]]
        /\ killed' = killed \cup dogs
  BY DEF killPortListener
<1>3. DogsFall /\ killed' \in SUBSET Launches
  BY <1>2 DEF DogsFall, DevInv, DevTypeOK, DogStates
<1>4. PICK s \in {"prep", "ensure"} : s = script[l]
  BY DEF DevInv, DevTypeOK
<1>5. PICK w \in {"sweeping again", "spawning", "failed"} :
        Goto(l, w) /\ w \in {"failed", IF s = "prep" THEN "sweeping again" ELSE "spawning"}
  BY <1>4 DEF killPortListener
<1>6. PICK o \in Launches \cup {0} : o = owner[l]
  BY DEF DevInv, DevTypeOK
<1>7. /\ owner' = [owner EXCEPT ![l] = o] /\ script' = [script EXCEPT ![l] = s] /\ reached'[l] = w
      /\ w \in Reached \ {"new"}
  BY <1>1, <1>4, <1>5, <1>6 DEF Goto, DevInv, DevTypeOK, Reached
<1>8. /\ kid' \in [Launches -> KidStates]
      /\ \A d \in Launches : kid'[d] = IF d # port THEN kid[d] ELSE IF kid[d] = "stopping" THEN "none" ELSE "idle"
  BY DEF killPortListener, DevInv, DevTypeOK, KidStates
<1>9. DogsAndKids'
  <2>1. ASSUME NEW d \in Launches
        PROVE  /\ dog'[d] \in {"none", "starting"} => kid'[d] = "none"
               /\ dog'[d] = "gone" /\ d \notin killed' => kid'[d] \in {"none", "stopping"}
               /\ port' = d => kid'[d] \in {"serving", "stopping"}
    <3>1. /\ dog'[d] \in {"none", "starting"} => dog[d] \in {"none", "starting"}
          /\ dog'[d] = "gone" /\ d \notin killed' => dog[d] = "gone" /\ d \notin killed
      BY <1>2
    <3>2. kid[d] = "none" => kid'[d] = "none"
      BY <1>8 DEF DevInv, DogsAndKids
    <3>3. kid[d] \in {"none", "stopping"} => kid'[d] \in {"none", "stopping"}
      BY <1>8 DEF DevInv, DogsAndKids
    <3> QED
      BY <1>1, <3>1, <3>2, <3>3 DEF DevInv, DogsAndKids
  <2> QED
    BY <2>1 DEF DogsAndKids
<1>10. ASSUME Converging(l) PROVE Converging(l)'
  <2>1. \A x \in Launches : /\ (dog[x] \in Fallen => dog'[x] \in Fallen)
                           /\ (dog[x] # "starting" => dog'[x] # "starting")
    BY <1>2 DEF Fallen
  <2> QED
    BY <1>1, <1>7, <1>10, <2>1 DEF Converging
<1>11. UNCHANGED <<met, erased>> /\ fooled' \in SUBSET Launches /\ port' \in Launches \cup {0} /\ pidFile' \in {pidFile, 0}
  BY <1>1 DEF DevInv, DevTypeOK
<1>12. w \in {"routes", "spawning", "health", "ready"} => s = "ensure"
  BY <1>5
<1>13. w = "sweeping again" => s = "prep"
  BY <1>5
<1> QED
  BY <1>1, <1>3, <1>5, <1>6, <1>7, <1>8, <1>9, <1>10, <1>11, <1>12, <1>13, ScriptMoves

\* Only then does it spawn its own.
LEMMA SpawningStep ==
  ASSUME DevInv, NEW l \in Launches, spawnDevServerWatchdog(l)
  PROVE  DevInv'
<1> USE DevServersAssumption
<1>1. /\ Under(l) /\ reached[l] = "spawning" /\ dog' = [dog EXCEPT ![l] = "starting"] /\ Goto(l, "health")
      /\ UNCHANGED <<kid, port, pidFile, script, owner, met, erased, fooled, killed>>
  BY DEF spawnDevServerWatchdog, Under, ghostVars
<1>2. script[l] = "ensure" /\ dog[l] = "none" /\ pidFile # l /\ (\A m \in Launches : owner[m] # l)
  BY <1>1 DEF DevInv, ScriptsInStep, DevTypeOK
<1>3. /\ reached' \in [Launches -> Reached] /\ reached'[l] = "health"
      /\ \A m \in Launches \ {l} : reached'[m] = reached[m]
  BY <1>1 DEF Goto, DevInv, DevTypeOK, Reached
<1>4. /\ dog' \in [Launches -> DogStates] /\ dog'[l] = "starting"
      /\ \A m \in Launches \ {l} : dog'[m] = dog[m]
  BY <1>1 DEF DevInv, DevTypeOK, DogStates
<1>5. LaunchesInTurn'
  BY <1>1, TurnsStay DEF DevInv, Reached
<1>6. DevTypeOK'
  BY <1>1, <1>3, <1>4 DEF DevInv, DevTypeOK
<1>7. DogsAndKids'
  BY <1>1, <1>2, <1>4 DEF DevInv, DogsAndKids
<1>8. ScriptsInStep'
  <2>1. ASSUME NEW m \in Launches
        PROVE  /\ reached'[m] = "new" => script'[m] = "prep"
               /\ reached'[m] \in {"routes", "spawning", "health", "ready"} => script'[m] = "ensure"
               /\ reached'[m] = "sweeping again" => script'[m] = "prep"
               /\ dog'[m] # "none" => reached'[m] \in {"health", "ready", "failed"}
               /\ owner'[m] # 0 => dog'[owner'[m]] \notin {"none", "starting"}
               /\ reached'[m] = "keeping" => owner'[m] # 0
    <3>0. owner'[m] = owner[m] /\ owner[m] \in Launches \cup {0} /\ owner[m] # l
      BY <1>1, <1>2 DEF DevInv, DevTypeOK
    <3>5. owner[m] # 0 => dog[owner[m]] \notin {"none", "starting"}
      BY DEF DevInv, ScriptsInStep
    <3>1. owner'[m] # 0 => dog'[owner'[m]] \notin {"none", "starting"}
      BY <1>4, <3>0, <3>5
    <3>2. CASE m = l
      BY <1>1, <1>2, <1>3, <1>4, <3>1, <3>2
    <3>3. CASE m # l
      BY <1>1, <1>3, <1>4, <3>1, <3>3 DEF DevInv, ScriptsInStep
    <3> QED
      BY <3>2, <3>3
  <2>2. pidFile' # 0 => dog'[pidFile'] \notin {"none", "starting"}
    BY <1>1, <1>2, <1>4 DEF DevInv, DevTypeOK, ScriptsInStep
  <2> QED
    BY <2>1, <2>2 DEF ScriptsInStep
<1>9. ASSUME Converging(l) PROVE Converging(l)'
  <2>1. \A x \in Launches \ {l} : dog'[x] \in Fallen
    BY <1>1, <1>2, <1>4, <1>9 DEF Converging
  <2>2. OnlyDog(l)'
    BY <1>4, <2>1 DEF OnlyDog, Named
  <2> QED
    BY <1>3, <2>1, <2>2 DEF Converging, Fallen
<1>10. LastLaunchRules'
  BY <1>1, <1>9, TheLastKeeps DEF Reached
<1> QED
  BY <1>5, <1>6, <1>7, <1>8, <1>10 DEF DevInv

\* A launch that begins is the last; those it meets are no longer alone, and neither is it.
LEMMA BeginningStep ==
  ASSUME DevInv, NEW l \in Launches, BeginLaunch(l)
  PROVE  DevInv'
<1> USE DevServersAssumption
<1> DEFINE others == {m \in Launches : Under(m)}
<1>1. /\ reached[l] = "new" /\ \A m \in Launches : m < l => reached[m] # "new"
      /\ met' = IF others = {} THEN met ELSE met \cup others \cup {l}
      /\ UNCHANGED <<dog, kid, port, pidFile, script, killed, erased, fooled>>
  BY DEF BeginLaunch
<1>2. /\ reached' \in [Launches -> Reached] /\ reached'[l] = "asking"
      /\ \A m \in Launches \ {l} : reached'[m] = reached[m]
  BY DEF BeginLaunch, Goto, DevInv, DevTypeOK, Reached
<1>3. PICK o \in Launches \cup {0} : o \in {pidFile, 0} /\ owner' = [owner EXCEPT ![l] = o]
  BY DEF BeginLaunch, DevInv, DevTypeOK
<1>4. /\ owner' \in [Launches -> Launches \cup {0}] /\ owner'[l] = o
      /\ \A m \in Launches \ {l} : owner'[m] = owner[m]
  BY <1>3 DEF DevInv, DevTypeOK
<1>5. met' \in SUBSET Launches /\ met \subseteq met' /\ (l \notin met' => \A m \in Launches : ~Under(m))
  BY <1>1 DEF DevInv, DevTypeOK
<1>6. DevTypeOK'
  BY <1>1, <1>2, <1>4, <1>5 DEF DevInv, DevTypeOK
<1>7. \A m \in Launches : m > l => reached[m] = "new"
  BY <1>1 DEF DevInv, LaunchesInTurn
<1>8. LaunchesInTurn'
  <2>1. ASSUME NEW k \in Launches, NEW m \in Launches, m < k, reached'[m] = "new" PROVE reached'[k] = "new"
    <3>1. m # l /\ reached[m] = "new" /\ reached[k] = "new"
      BY <1>2, <2>1 DEF DevInv, LaunchesInTurn
    <3> QED
      BY <1>1, <1>2, <2>1, <3>1
  <2>2. reached'[l] # "new" /\ \A m \in Launches : m > l => reached'[m] = "new"
    BY <1>2, <1>7
  <2>3. ASSUME NEW k \in Launches, NEW m \in Launches, reached'[k] # "new", k \notin met', m < k PROVE ~Under(m)'
    <3>1. m # l
      BY <1>2, <1>7, <2>3
    <3>2. ~Under(m)
      BY <1>2, <1>5, <2>3 DEF DevInv, LaunchesInTurn
    <3> QED
      BY <1>2, <3>1, <3>2 DEF Under
  <2> QED
    BY <2>1, <2>2, <2>3 DEF LaunchesInTurn
<1>9. DogsAndKids'
  BY <1>1 DEF DevInv, DogsAndKids
<1>10. ScriptsInStep'
  <2>1. o # 0 => dog[o] \notin {"none", "starting"}
    BY <1>3 DEF DevInv, ScriptsInStep
  <2>2. dog[l] = "none" /\ script[l] = "prep"
    BY <1>1 DEF DevInv, ScriptsInStep
  <2> QED
    BY <1>1, <1>2, <1>4, <2>1, <2>2 DEF DevInv, ScriptsInStep
<1>11. LastLaunchRules'
  <2>1. ASSUME NEW k \in Launches, Alone(k)' PROVE k = l
    <3>1. ~(l > k)
      BY <1>2, <2>1 DEF Alone
    <3>2. ~(k > l)
      BY <1>2, <1>7, <2>1 DEF Alone
    <3> QED
      BY <3>1, <3>2
  <2>2. script[l] = "prep"
    BY <1>1 DEF DevInv, ScriptsInStep
  <2>3. Converging(l)'
    BY <1>1, <1>2, <2>2 DEF Converging
  <2> QED
    BY <2>1, <2>3 DEF LastLaunchRules
<1> QED
  BY <1>6, <1>8, <1>9, <1>10, <1>11 DEF DevInv

LEMMA DevStep == DevInv /\ [DevNext]_devVars => DevInv'
<1> SUFFICES ASSUME DevInv, [DevNext]_devVars PROVE DevInv'
  OBVIOUS
<1>1. CASE SourceChanges
  BY <1>1, RestartStep
<1>2. ASSUME NEW l \in Launches, ScriptStep(l) PROVE DevInv'
  BY <1>2, BeginningStep, LookingStep, KeepingStep, StoppingStep, WaitingStep, SweepingStep, PortStep, SpawningStep
     DEF ScriptStep
<1>3. ASSUME NEW d \in Launches, DogStep(d) PROVE DevInv'
  BY <1>3, DogStepKeeps, ServerStep DEF DogStep
<1>4. CASE UNCHANGED devVars
  <2>1. UNCHANGED <<dog, pidFile, launchVars, ghostVars, killed>> /\ UNCHANGED <<kid, port>>
    BY <1>4 DEF devVars, launchVars, ghostVars
  <2>2. LaunchesInTurn' /\ ScriptsInStep' /\ LastLaunchRules'
    BY <2>1, ServersKeep
  <2>3. DevTypeOK' /\ DogsAndKids'
    BY <2>1 DEF DevInv, DevTypeOK, DogsAndKids, launchVars, ghostVars
  <2> QED
    BY <2>2, <2>3 DEF DevInv
<1> QED
  BY <1>1, <1>2, <1>3, <1>4 DEF DevNext

\* At rest nothing is on its way, so what the last launch kept is all there is.
LEMMA ConvergedAtRest == DevInv => OneDevServerIsLeft
<1> USE DevServersAssumption
<1> SUFFICES ASSUME DevInv, AtRest, \E l \in Launches : reached[l] # "new", reached[LastLaunch] = "ready",
                    LastLaunch \notin met \cup fooled
             PROVE  \E d \in Launches :
                      /\ {x \in Launches : Live(x)} = {d}
                      /\ pidFile = d \/ (pidFile = 0 /\ erased)
                      /\ \A x \in Launches : kid[x] = "none" \/ x = d \/ x \in killed
  BY DEF OneDevServerIsLeft
<1>1. \E l \in Launches : reached[l] # "new" /\ \A m \in Launches : m > l => reached[m] = "new"
  BY DEF DevInv, LaunchesInTurn
<1>2. LastLaunch \in Launches /\ Alone(LastLaunch)
  BY <1>1 DEF LastLaunch, Alone
<1>3. OnlyDog(Kept(LastLaunch))
  BY <1>2 DEF DevInv, LastLaunchRules, Converging
<1>4. PICK d \in Launches : d = Kept(LastLaunch) /\ OnlyDog(d)
  BY <1>3 DEF OnlyDog
<1>5. dog[d] = "up" /\ \A x \in Launches \ {d} : dog[x] \in {"none", "gone"}
  BY <1>4 DEF OnlyDog, AtRest, Fallen
<1>6. {x \in Launches : Live(x)} = {d}
  <2>1. \A x \in Launches : Live(x) <=> x = d
    BY <1>5 DEF Live
  <2> QED
    BY <2>1
<1>7. pidFile = d \/ (pidFile = 0 /\ erased)
  BY <1>4, <1>5 DEF OnlyDog, Named
<1>8. \A x \in Launches : kid[x] = "none" \/ x = d \/ x \in killed
  BY <1>5 DEF DevInv, DogsAndKids, AtRest
<1> QED
  BY <1>6, <1>7, <1>8

\* For any number of launches, patient or not, one that overlapped no other and ended
\* ready on a watchdog nobody had signalled leaves exactly that one.
THEOREM LaunchesConverge == DevSpec => []OneDevServerIsLeft
<1>1. DevInit => DevInv
  BY DevInitially
<1>2. DevInv /\ [DevNext]_devVars => DevInv'
  BY DevStep
<1>3. DevInv => OneDevServerIsLeft
  BY ConvergedAtRest
<1> QED
  BY <1>1, <1>2, <1>3, PTL DEF DevSpec

-----------------------------------------------------------------------------
(* The composer. *)

Places == {"unsent", "queued", "preparing", "streaming", "returning", "done", "dropped", "restored"}
OnItsWay == {"preparing", "streaming", "returning"}

ComposerTypeOK ==
  /\ at \in [UserMessages -> Places] /\ queue \in Seq(UserMessages)
  /\ running \in BOOLEAN /\ suppressIdle \in Nat
  /\ streams \subseteq UserMessages \cup {"resume", "edit"}
  /\ turn \in [waits : BOOLEAN, stopped : BOOLEAN, muted : BOOLEAN]
  /\ IsFiniteSet(Dispatched)

\* The queue holds every message that is queued, once.
QueueOf(items, places) ==
  /\ \A i \in 1 .. Len(items) : places[items[i]] = "queued"
  /\ \A i, j \in 1 .. Len(items) : items[i] = items[j] => i = j
  /\ \A m \in UserMessages : places[m] = "queued" => \E i \in 1 .. Len(items) : items[i] = m

\* Each interrupted run is one idle to swallow; a queue that is not running has
\* nothing to wait for.
QueueCounts ==
  /\ Cardinality(Dispatched) = suppressIdle + (IF running THEN 1 ELSE 0)
  /\ queue # <<>> => running
  /\ ~running => suppressIdle = 0

StreamsOfMessages ==
  /\ \A m \in UserMessages : m \in streams <=> at[m] = "streaming"
  /\ activeTurn \in streams \cup {"none"}

\* Unless something the queue does not cover was done, the stream that is on is the
\* one chat.stop() stops, and the message being prepared meets no other.
OneAfterAnother ==
  misheard \cap {"early", "beside"} = {} =>
    /\ streams \subseteq {activeTurn}
    /\ \A m, n \in UserMessages :
         at[m] = "preparing" /\ at[n] \in {"preparing", "streaming"} => m = n

StopsAreHeard ==
  /\ turn.stopped => turn.muted \/ "lifted" \in misheard
  /\ "zombie" \in misheard => "lifted" \in misheard
  /\ turn.waits => panel # "none"

ComposerInv ==
  /\ ComposerTypeOK /\ QueueOf(queue, at) /\ QueueCounts /\ StreamsOfMessages
  /\ OneAfterAnother /\ StopsAreHeard

-----------------------------------------------------------------------------
(* Taking the head of a queue, and adding at its end, leave each message in it once. *)
LEMMA TakeHead ==
  ASSUME NEW S, NEW items \in Seq(S), items # <<>>,
         \A i, j \in 1 .. Len(items) : items[i] = items[j] => i = j
  PROVE  /\ Tail(items) \in Seq(S) /\ Head(items) \in S /\ Head(items) = items[1]
         /\ Len(Tail(items)) = Len(items) - 1
         /\ \A i \in 1 .. Len(Tail(items)) : Tail(items)[i] = items[i + 1]
         /\ \A i, j \in 1 .. Len(Tail(items)) : Tail(items)[i] = Tail(items)[j] => i = j
<1>1. Len(items) \in Nat /\ Len(items) # 0
  BY EmptySeq
<1>2. /\ Tail(items) \in Seq(S) /\ Head(items) \in S /\ Head(items) = items[1]
      /\ Len(Tail(items)) = Len(items) - 1
      /\ \A i \in 1 .. Len(Tail(items)) : Tail(items)[i] = items[i + 1]
  BY <1>1, HeadTailProperties
<1>3. ASSUME NEW i \in 1 .. Len(Tail(items)), NEW j \in 1 .. Len(Tail(items)),
             Tail(items)[i] = Tail(items)[j]
      PROVE  i = j
  <2>1. i + 1 \in 1 .. Len(items) /\ j + 1 \in 1 .. Len(items)
    BY <1>1, <1>2
  <2> QED BY <1>2, <1>3, <2>1
<1> QED BY <1>2, <1>3

(* What is left of a sequence without its element at k. *)
LEMMA WithoutOne ==
  ASSUME NEW S, NEW q \in Seq(S), NEW k \in 1 .. Len(q)
  PROVE  \E w \in Seq(S) :
           /\ w = RemoveAt(q, k) /\ Len(w) = Len(q) - 1
           /\ \A i \in 1 .. Len(w) : w[i] = IF i < k THEN q[i] ELSE q[i + 1]
<1> DEFINE a == SubSeq(q, 1, k - 1)
           b == SubSeq(q, k + 1, Len(q))
<1>1. PICK n \in Nat : n = Len(q)
  OBVIOUS
<1>2. k \in 1 .. n /\ k \in Int /\ n \in Int /\ k + 1 \in Int /\ k - 1 \in Int
  BY <1>1
<1>3. \A i \in 1 .. n : q[i] \in S
  BY <1>1
<1>4. /\ a \in Seq(S) /\ Len(a) = k - 1
      /\ \A i \in 1 .. (k - 1) : a[i] = q[i]
  <2>1. \A i \in 1 .. (k - 1) : q[i] \in S
    BY <1>2, <1>3
  <2>2. /\ a \in Seq(S)
        /\ Len(a) = IF 1 <= k - 1 THEN (k - 1) - 1 + 1 ELSE 0
        /\ \A i \in 1 .. (k - 1) - 1 + 1 : a[i] = q[1 + i - 1]
    BY <1>2, <2>1, SubSeqProperties
  <2> HIDE DEF a
  <2> QED BY <1>2, <2>2
<1>5. /\ b \in Seq(S) /\ Len(b) = n - k
      /\ \A i \in 1 .. (n - k) : b[i] = q[k + i]
  <2>1. \A i \in (k + 1) .. n : q[i] \in S
    BY <1>2, <1>3
  <2>2. /\ b \in Seq(S)
        /\ Len(b) = IF k + 1 <= n THEN n - (k + 1) + 1 ELSE 0
        /\ \A i \in 1 .. n - (k + 1) + 1 : b[i] = q[(k + 1) + i - 1]
    BY <1>1, <1>2, <2>1, SubSeqProperties
  <2> HIDE DEF b
  <2> QED BY <1>2, <2>2
<1> HIDE DEF a, b
<1>6. PICK w : w = a \o b
  OBVIOUS
<1>7. /\ w \in Seq(S) /\ Len(w) = Len(a) + Len(b)
      /\ \A i \in 1 .. Len(a) + Len(b) : w[i] = IF i <= Len(a) THEN a[i] ELSE b[i - Len(a)]
  BY <1>4, <1>5, <1>6, ConcatProperties
<1>8. Len(w) = n - 1
  BY <1>2, <1>4, <1>5, <1>7
<1>9. ASSUME NEW i \in 1 .. (n - 1)
      PROVE  w[i] = IF i < k THEN q[i] ELSE q[i + 1]
  <2>1. w[i] = IF i <= k - 1 THEN a[i] ELSE b[i - (k - 1)]
    BY <1>2, <1>4, <1>5, <1>7
  <2>2. CASE i < k
    BY <1>2, <1>4, <2>1, <2>2
  <2>3. CASE ~ i < k
    <3>1. i - (k - 1) \in 1 .. (n - k) /\ k + (i - (k - 1)) = i + 1 /\ ~ i <= k - 1
      BY <1>2, <2>3
    <3> QED BY <1>5, <2>1, <2>3, <3>1
  <2> QED BY <2>2, <2>3
<1>10. w = RemoveAt(q, k)
  BY <1>1, <1>6, Zenon DEF a, b, RemoveAt
<1>11. Len(w) = Len(q) - 1 /\ \A i \in 1 .. Len(w) : w[i] = IF i < k THEN q[i] ELSE q[i + 1]
  <2> HIDE <1>10
  <2> QED BY <1>1, <1>8, <1>9
<1> QED BY <1>7, <1>10, <1>11, Zenon

(* steerItem and remove: the queue without m. *)
LEMMA WithoutFacts ==
  ASSUME NEW m \in UserMessages, queue \in Seq(UserMessages),
         \A i, j \in 1 .. Len(queue) : queue[i] = queue[j] => i = j,
         \E i \in 1 .. Len(queue) : queue[i] = m
  PROVE  /\ Without(m) \in Seq(UserMessages)
         /\ \A i, j \in 1 .. Len(Without(m)) : Without(m)[i] = Without(m)[j] => i = j
         /\ \A n \in UserMessages : (\E i \in 1 .. Len(Without(m)) : Without(m)[i] = n)
                                    <=> (n # m /\ \E i \in 1 .. Len(queue) : queue[i] = n)
<1>1. PICK q \in Seq(UserMessages) : q = queue
  OBVIOUS
<1>2. PICK l \in Nat : l = Len(q)
  OBVIOUS
<1>3. PICK k \in 1 .. l : q[k] = m /\ Without(m) = RemoveAt(q, k)
  <2> DEFINE k == CHOOSE j \in DOMAIN queue : queue[j] = m
  <2>1. DOMAIN queue = 1 .. l /\ \E j \in DOMAIN queue : queue[j] = m
    BY <1>1, <1>2
  <2>2. k \in 1 .. l /\ queue[k] = m
    BY <2>1
  <2>3. Without(m) = RemoveAt(queue, k)
    BY DEF Without
  <2> HIDE DEF k
  <2> QED BY <1>1, <2>2, <2>3
<1>4. PICK w \in Seq(UserMessages) :
         /\ w = RemoveAt(q, k) /\ Len(w) = Len(q) - 1
         /\ \A i \in 1 .. Len(w) : w[i] = IF i < k THEN q[i] ELSE q[i + 1]
  <2>1. k \in 1 .. Len(q)
    BY <1>2
  <2> QED BY <2>1, WithoutOne
<1>5. /\ w = Without(m) /\ Len(w) = l - 1
      /\ \A i \in 1 .. (l - 1) : w[i] = IF i < k THEN q[i] ELSE q[i + 1]
  <2>1. w = Without(m)
    BY <1>3, <1>4, Zenon
  <2>2. Len(w) = l - 1
    BY <1>2, <1>4, Zenon
  <2> QED BY <1>4, <2>1, <2>2
<1>6. \A i, j \in 1 .. l : q[i] = q[j] => i = j
  BY <1>1, <1>2
<1>7. \A i, j \in 1 .. (l - 1) : w[i] = w[j] => i = j
  <2>1. SUFFICES ASSUME NEW i \in 1 .. (l - 1), NEW j \in 1 .. (l - 1), w[i] = w[j] PROVE i = j
    OBVIOUS
  <2>2. /\ i \in 1 .. l /\ i + 1 \in 1 .. l /\ j \in 1 .. l /\ j + 1 \in 1 .. l
    OBVIOUS
  <2>3. w[i] = (IF i < k THEN q[i] ELSE q[i + 1]) /\ w[j] = (IF j < k THEN q[j] ELSE q[j + 1])
    BY <1>5
  <2>4. (IF i < k THEN i ELSE i + 1) = (IF j < k THEN j ELSE j + 1)
    BY <1>6, <2>1, <2>2, <2>3
  <2> QED BY <2>2, <2>4
<1>8. ASSUME NEW n \in UserMessages
      PROVE  (\E i \in 1 .. (l - 1) : w[i] = n) <=> (n # m /\ \E i \in 1 .. l : q[i] = n)
  <2>1. ASSUME NEW i \in 1 .. (l - 1), w[i] = n
        PROVE  n # m /\ \E j \in 1 .. l : q[j] = n
    <3>1. PICK j \in 1 .. l : j # k /\ w[i] = q[j]
      <4>1. CASE i < k
        <5>1. i \in 1 .. l /\ i # k
          BY <4>1
        <5>2. w[i] = q[i]
          BY <1>5, <4>1, Zenon
        <5> QED BY <5>1, <5>2
      <4>2. CASE ~ i < k
        <5>1. i + 1 \in 1 .. l /\ i + 1 # k
          BY <4>2
        <5>2. w[i] = q[i + 1]
          BY <1>5, <4>2, Zenon
        <5> QED BY <5>1, <5>2
      <4> QED BY <4>1, <4>2
    <3> QED BY <1>3, <1>6, <2>1, <3>1
  <2>2. ASSUME n # m, NEW j \in 1 .. l, q[j] = n
        PROVE  \E i \in 1 .. (l - 1) : w[i] = n
    <3>1. j # k
      BY <1>3, <2>2
    <3>2. CASE j < k
      <4>1. j \in 1 .. (l - 1)
        BY <3>2
      <4> QED BY <1>5, <2>2, <3>2, <4>1
    <3>3. CASE ~ j < k
      <4>1. j - 1 \in 1 .. (l - 1) /\ ~ (j - 1 < k) /\ (j - 1) + 1 = j
        BY <3>1, <3>3
      <4> QED BY <1>5, <2>2, <4>1
    <3> QED BY <3>2, <3>3
  <2> QED BY <2>1, <2>2
<1> QED BY <1>1, <1>2, <1>5, <1>7, <1>8

(* advance: the head of the queue is run when nothing else is. *)
LEMMA AdvanceFacts ==
  ASSUME NEW items \in Seq(UserMessages), NEW places \in [UserMessages -> Places],
         NEW busy \in BOOLEAN, NEW d, d = {m \in UserMessages : places[m] \in OnItsWay},
         QueueOf(items, places), IsFiniteSet(d), ~busy => d = {},
         AdvanceQueue(items, places, busy)
  PROVE  /\ at' \in [UserMessages -> Places] /\ queue' \in Seq(UserMessages) /\ running' \in BOOLEAN
         /\ QueueOf(queue', at')
         /\ queue' # <<>> => running'
         /\ IsFiniteSet(Dispatched')
         /\ busy => running' /\ at' = places /\ Cardinality(Dispatched') = Cardinality(d)
         /\ ~busy => Cardinality(Dispatched') = IF running' THEN 1 ELSE 0
         /\ \A m \in UserMessages : at'[m] = "streaming" <=> places[m] = "streaming"
         /\ ~busy => \A m, n \in UserMessages : at'[m] \in OnItsWay /\ at'[n] \in OnItsWay => m = n
<1>0. Dispatched' = {m \in UserMessages : at'[m] \in OnItsWay}
  BY DEF Dispatched, OnItsWay
<1>1. CASE busy \/ items = <<>>
  <2>1. queue' = items /\ at' = places /\ running' = busy
    BY <1>1 DEF AdvanceQueue
  <2>2. Dispatched' = d
    BY <1>0, <2>1
  <2>3. ~busy => Cardinality(Dispatched') = 0 /\ \A m \in UserMessages : at'[m] \notin OnItsWay
    BY <2>1, <2>2, FS_EmptySet
  <2> QED BY <1>1, <2>1, <2>2, <2>3
<1>2. CASE ~(busy \/ items = <<>>)
  <2> DEFINE h == Head(items)
  <2>1. queue' = Tail(items) /\ at' = [places EXCEPT ![h] = "preparing"] /\ running' = TRUE
    BY <1>2 DEF AdvanceQueue, Run
  <2>2. \A i, j \in 1 .. Len(items) : items[i] = items[j] => i = j
    BY DEF QueueOf
  <2>3. /\ Tail(items) \in Seq(UserMessages) /\ h \in UserMessages /\ h = items[1]
        /\ Len(Tail(items)) = Len(items) - 1
        /\ \A i \in 1 .. Len(Tail(items)) : Tail(items)[i] = items[i + 1]
        /\ \A i, j \in 1 .. Len(Tail(items)) : Tail(items)[i] = Tail(items)[j] => i = j
    BY <1>2, <2>2, TakeHead
  <2> HIDE DEF h
  <2>4. Len(items) \in Nat /\ 1 \in 1 .. Len(items)
    <3>1. Len(items) \in Nat /\ Len(items) # 0
      BY <1>2, EmptySeq
    <3> QED BY <3>1
  <2>5. at' \in [UserMessages -> Places]
    BY <2>1, <2>3 DEF Places
  <2>6. Dispatched' = {h}
    BY <1>0, <1>2, <2>1, <2>3 DEF OnItsWay
  <2>7. IsFiniteSet(Dispatched') /\ Cardinality(Dispatched') = 1
    BY <2>6, FS_Singleton
  <2>8. QueueOf(queue', at')
    <3>1. ASSUME NEW i \in 1 .. Len(Tail(items))
          PROVE  at'[Tail(items)[i]] = "queued"
      <4>1. i + 1 \in 1 .. Len(items) /\ i + 1 # 1
        BY <2>3, <2>4
      <4>2. items[i + 1] # h /\ places[items[i + 1]] = "queued" /\ items[i + 1] \in UserMessages
        BY <2>2, <2>3, <2>4, <4>1 DEF QueueOf
      <4> QED BY <2>1, <2>3, <4>2
    <3>2. ASSUME NEW m \in UserMessages, at'[m] = "queued"
          PROVE  \E i \in 1 .. Len(Tail(items)) : Tail(items)[i] = m
      <4>1. m # h /\ places[m] = "queued"
        BY <2>1, <2>3, <3>2
      <4>2. PICK j \in 1 .. Len(items) : items[j] = m
        BY <4>1 DEF QueueOf
      <4>3. j - 1 \in 1 .. Len(Tail(items)) /\ (j - 1) + 1 = j
        BY <2>3, <2>4, <4>1, <4>2
      <4> QED BY <2>3, <4>2, <4>3
    <3> QED BY <2>1, <2>3, <3>1, <3>2 DEF QueueOf
  <2>9. \A m \in UserMessages : at'[m] = "streaming" <=> places[m] = "streaming"
    <3>1. places[h] = "queued"
      BY <2>3, <2>4 DEF QueueOf
    <3> QED BY <2>1, <2>3, <3>1
  <2>10. \A m, n \in UserMessages : at'[m] \in OnItsWay /\ at'[n] \in OnItsWay => m = n
    BY <1>0, <2>6
  <2> QED BY <1>2, <2>1, <2>3, <2>5, <2>7, <2>8, <2>9, <2>10
<1> QED BY <1>1, <1>2

-----------------------------------------------------------------------------
LEMMA ComposerInitial == ComposerInit => ComposerInv
<1> SUFFICES ASSUME ComposerInit PROVE ComposerInv
  OBVIOUS
<1> USE DEF ComposerInit
<1>1. Dispatched = {}
  BY DEF Dispatched
<1>2. IsFiniteSet(Dispatched) /\ Cardinality(Dispatched) = 0
  BY <1>1, FS_EmptySet
<1>3. ComposerTypeOK
  <2>1. queue \in Seq(UserMessages)
    BY Zenon, EmptySeq
  <2>2. turn \in [waits : BOOLEAN, stopped : BOOLEAN, muted : BOOLEAN]
    OBVIOUS
  <2>3. /\ at \in [UserMessages -> Places] /\ running \in BOOLEAN /\ suppressIdle \in Nat
        /\ streams \subseteq UserMessages \cup {"resume", "edit"}
    BY DEF Places
  <2> QED BY <1>2, <2>1, <2>2, <2>3 DEF ComposerTypeOK
<1>4. QueueOf(queue, at)
  <2>1. Len(queue) = 0 /\ \A m \in UserMessages : at[m] # "queued"
    OBVIOUS
  <2>2. 1 .. 0 = {}
    OBVIOUS
  <2> QED BY <2>1, <2>2, Zenon DEF QueueOf
<1>5. QueueCounts /\ StreamsOfMessages /\ OneAfterAnother /\ StopsAreHeard
  BY <1>2 DEF QueueCounts, StreamsOfMessages, OneAfterAnother, StopsAreHeard, Nobody
<1> QED BY <1>3, <1>4, <1>5 DEF ComposerInv

(* What interruptChatRun does to a record of where the messages are. *)
LEMMA InterruptFacts ==
  ASSUME ComposerTypeOK, StreamsOfMessages,
         NEW places \in [UserMessages -> Places],
         \A m \in UserMessages : places[m] = "streaming" <=> at[m] = "streaming",
         InterruptRun(places)
  PROVE  /\ at' \in [UserMessages -> Places]
         /\ \A m \in UserMessages : at'[m] = IF m = activeTurn /\ places[m] = "streaming"
                                             THEN "returning" ELSE places[m]
         /\ streams' \subseteq UserMessages \cup {"resume", "edit"} /\ streams' = streams \ {activeTurn}
         /\ StreamsOfMessages'
         /\ turn' \in [waits : BOOLEAN, stopped : BOOLEAN, muted : BOOLEAN]
         /\ turn'.muted /\ turn'.waits = turn.waits
         /\ {m \in UserMessages : at'[m] \in OnItsWay} = {m \in UserMessages : places[m] \in OnItsWay}
<1> USE ComposerAssumption
<1>1. /\ streams' = streams \ {activeTurn} /\ activeTurn' = "none"
      /\ turn' = [turn EXCEPT !.stopped = TRUE, !.muted = TRUE]
      /\ at' = [m \in UserMessages |-> IF m = activeTurn /\ places[m] = "streaming"
                                       THEN "returning" ELSE places[m]]
  BY DEF InterruptRun, Nobody
<1>2. at' \in [UserMessages -> Places]
  BY <1>1 DEF Places
<1>3. \A m \in UserMessages : at'[m] = IF m = activeTurn /\ places[m] = "streaming"
                                       THEN "returning" ELSE places[m]
  BY <1>1
<1>4. StreamsOfMessages'
  BY <1>1, <1>3 DEF StreamsOfMessages
<1>5. \A m \in UserMessages : at'[m] \in OnItsWay <=> places[m] \in OnItsWay
  BY <1>3 DEF OnItsWay
<1>6. /\ turn' \in [waits : BOOLEAN, stopped : BOOLEAN, muted : BOOLEAN]
      /\ turn'.muted /\ turn'.waits = turn.waits
  BY <1>1 DEF ComposerTypeOK
<1> QED BY <1>1, <1>2, <1>3, <1>4, <1>5, <1>6 DEF ComposerTypeOK

(* The turn that a message, a resume or an edit begins. *)
LEMMA NewTurn ==
  ASSUME turn' = [waits |-> FALSE, stopped |-> FALSE, muted |-> FALSE]
  PROVE  /\ turn' \in [waits : BOOLEAN, stopped : BOOLEAN, muted : BOOLEAN]
         /\ ~turn'.waits /\ ~turn'.stopped /\ ~turn'.muted
  OBVIOUS

LEMMA ComposerStep == ComposerInv /\ [ComposerNext]_composerVars => ComposerInv'
<1> SUFFICES ASSUME ComposerInv, [ComposerNext]_composerVars PROVE ComposerInv'
  OBVIOUS
<1> USE ComposerAssumption
<1>i. /\ ComposerTypeOK /\ QueueOf(queue, at) /\ QueueCounts /\ StreamsOfMessages
      /\ OneAfterAnother /\ StopsAreHeard
  BY DEF ComposerInv
<1>t. /\ at \in [UserMessages -> Places] /\ queue \in Seq(UserMessages)
      /\ running \in BOOLEAN /\ suppressIdle \in Nat
      /\ streams \subseteq UserMessages \cup {"resume", "edit"}
      /\ turn \in [waits : BOOLEAN, stopped : BOOLEAN, muted : BOOLEAN]
      /\ IsFiniteSet(Dispatched)
  BY <1>i DEF ComposerTypeOK
<1>d. Dispatched = {m \in UserMessages : at[m] \in OnItsWay}
  BY DEF Dispatched, OnItsWay
<1>e. Dispatched' = {m \in UserMessages : at'[m] \in OnItsWay}
  BY DEF Dispatched, OnItsWay
<1>z. Cardinality(Dispatched) = 0 => Dispatched = {}
  BY <1>t, FS_EmptySet
\* Where the messages are and what is counted stays; the queue may be emptied.
<1>k. ASSUME at' \in [UserMessages -> Places], Dispatched' = Dispatched,
             UNCHANGED <<running, suppressIdle>>,
             queue' \in Seq(UserMessages), queue' # <<>> => running,
             streams' \subseteq UserMessages \cup {"resume", "edit"},
             turn' \in [waits : BOOLEAN, stopped : BOOLEAN, muted : BOOLEAN]
      PROVE  ComposerTypeOK' /\ QueueCounts'
  BY <1>i, <1>t, <1>k DEF ComposerTypeOK, QueueCounts
<1>1. ASSUME NEW m \in UserMessages, Enqueue(m)
      PROVE  ComposerInv'
  <2> DEFINE items == Append(queue, m)
             places == [at EXCEPT ![m] = "queued"]
  <2>1. /\ at[m] = "unsent" /\ AdvanceQueue(items, places, running)
        /\ UNCHANGED <<suppressIdle, streams, activeTurn, turn, panel, beingEdited, misheard>>
    BY <1>1 DEF Enqueue
  <2>2. items \in Seq(UserMessages) /\ places \in [UserMessages -> Places]
    BY <1>t DEF Places
  <2>3. \A n \in UserMessages : places[n] \in OnItsWay <=> at[n] \in OnItsWay
    BY <1>t, <2>1 DEF OnItsWay
  <2>4. Dispatched = {n \in UserMessages : places[n] \in OnItsWay}
    BY <1>d, <2>3
  <2>5. QueueOf(items, places)
    <3>1. PICK q \in Seq(UserMessages) : q = queue
      BY <1>t
    <3>2. PICK w \in Seq(UserMessages) : w = items
      BY <2>2
    <3>3. PICK l \in Nat : l = Len(q)
      OBVIOUS
    <3>4. /\ Len(w) = l + 1 /\ w[l + 1] = m
          /\ \A i \in 1 .. l : w[i] = q[i]
      BY <3>1, <3>2, <3>3
    <3>5. /\ \A i \in 1 .. l : at[q[i]] = "queued" /\ q[i] \in UserMessages /\ q[i] # m
          /\ \A i, j \in 1 .. l : q[i] = q[j] => i = j
          /\ \A n \in UserMessages : at[n] = "queued" => \E i \in 1 .. l : q[i] = n
      BY <1>i, <2>1, <3>1, <3>3 DEF QueueOf
    <3>6. \A i \in 1 .. (l + 1) : i \in 1 .. l \/ i = l + 1
      OBVIOUS
    <3>7. \A i \in 1 .. (l + 1) : places[w[i]] = "queued"
      BY <1>t, <3>4, <3>5, <3>6
    <3>8. \A i, j \in 1 .. (l + 1) : w[i] = w[j] => i = j
      BY <3>4, <3>5, <3>6
    <3>9. ASSUME NEW n \in UserMessages, places[n] = "queued"
          PROVE  \E i \in 1 .. (l + 1) : w[i] = n
      <4>1. CASE n = m
        BY <3>4, <4>1
      <4>2. CASE n # m
        <5>1. PICK i \in 1 .. l : q[i] = n
          BY <1>t, <3>5, <3>9, <4>2
        <5> QED BY <3>4, <5>1
      <4> QED BY <4>1, <4>2
    <3> QED BY <3>2, <3>4, <3>7, <3>8, <3>9 DEF QueueOf
  <2>6. ~running => Dispatched = {}
    BY <1>i, <1>t, <1>z DEF QueueCounts
  <2> HIDE DEF items, places
  <2>7. /\ at' \in [UserMessages -> Places] /\ queue' \in Seq(UserMessages) /\ running' \in BOOLEAN
        /\ QueueOf(queue', at')
        /\ queue' # <<>> => running'
        /\ IsFiniteSet(Dispatched')
        /\ running => running' /\ at' = places /\ Cardinality(Dispatched') = Cardinality(Dispatched)
        /\ ~running => Cardinality(Dispatched') = IF running' THEN 1 ELSE 0
        /\ \A n \in UserMessages : at'[n] = "streaming" <=> places[n] = "streaming"
        /\ ~running => \A n, k \in UserMessages : at'[n] \in OnItsWay /\ at'[k] \in OnItsWay => n = k
    BY <1>t, <2>1, <2>2, <2>4, <2>5, <2>6, AdvanceFacts
  <2>8. ComposerTypeOK' /\ QueueOf(queue, at)'
    BY <1>t, <2>1, <2>7 DEF ComposerTypeOK
  <2>9. QueueCounts'
    <3>1. CASE running
      BY <1>i, <2>1, <2>7, <3>1 DEF QueueCounts
    <3>2. CASE ~running
      BY <1>i, <2>1, <2>7, <3>2 DEF QueueCounts
    <3> QED BY <3>1, <3>2
  <2>10. \A n \in UserMessages : at'[n] = "streaming" <=> at[n] = "streaming"
    BY <1>t, <2>1, <2>7 DEF places
  <2>11. StreamsOfMessages' /\ StopsAreHeard'
    BY <1>i, <2>1, <2>10 DEF StreamsOfMessages, StopsAreHeard
  <2>12. OneAfterAnother'
    <3>1. CASE running
      BY <1>i, <1>t, <2>1, <2>7, <3>1 DEF OneAfterAnother, places
    <3>2. CASE ~running
      BY <1>i, <2>1, <2>7, <3>2 DEF OneAfterAnother, OnItsWay
    <3> QED BY <3>1, <3>2
  <2> QED BY <2>8, <2>9, <2>11, <2>12 DEF ComposerInv
\* A queued message is in the queue, and the queue is running.
<1>q. ASSUME NEW m \in UserMessages, at[m] = "queued"
      PROVE  /\ running /\ Without(m) \in Seq(UserMessages)
             /\ \A i, j \in 1 .. Len(Without(m)) : Without(m)[i] = Without(m)[j] => i = j
             /\ \A n \in UserMessages : (\E i \in 1 .. Len(Without(m)) : Without(m)[i] = n)
                                        <=> (n # m /\ at[n] = "queued")
  <2>1. /\ \A i, j \in 1 .. Len(queue) : queue[i] = queue[j] => i = j
        /\ \A n \in UserMessages : (\E i \in 1 .. Len(queue) : queue[i] = n) <=> at[n] = "queued"
    BY <1>i, <1>t DEF QueueOf
  <2>2. queue # <<>>
    BY <1>q, <2>1
  <2> QED BY <1>i, <1>q, <1>t, <2>1, <2>2, WithoutFacts DEF QueueCounts
\* The queue without m, when m is put elsewhere.
<1>w. ASSUME NEW m \in UserMessages, at[m] = "queued", queue' = Without(m),
             \A n \in UserMessages : at'[n] = "queued" <=> (n # m /\ at[n] = "queued")
      PROVE  QueueOf(queue', at')
  <2>1. PICK w : w = Without(m)
    OBVIOUS
  <2>2. /\ w \in Seq(UserMessages)
        /\ \A i, j \in 1 .. Len(w) : w[i] = w[j] => i = j
        /\ \A n \in UserMessages : (\E i \in 1 .. Len(w) : w[i] = n) <=> (n # m /\ at[n] = "queued")
    BY <1>q, <1>w, <2>1
  <2>3. \A i \in 1 .. Len(w) : w[i] \in UserMessages
    BY <2>2
  <2> QED BY <1>w, <2>1, <2>2, <2>3 DEF QueueOf
<1>2. ASSUME NEW m \in UserMessages, steerItem(m)
      PROVE  ComposerInv'
  <2> DEFINE places == [at EXCEPT ![m] = "preparing"]
  <2>1. /\ at[m] = "queued" /\ running /\ queue' = Without(m) /\ suppressIdle' = suppressIdle + 1
        /\ InterruptRun(places)
        /\ misheard' = misheard \cup (IF \E n \in UserMessages : at[n] = "preparing" THEN {"early"} ELSE {})
        /\ UNCHANGED <<running, panel, beingEdited>>
    BY <1>2 DEF steerItem
  <2>2. places \in [UserMessages -> Places]
    BY <1>t DEF Places
  <2>3. \A n \in UserMessages : places[n] = "streaming" <=> at[n] = "streaming"
    BY <1>t, <2>1
  <2>4. /\ at' \in [UserMessages -> Places]
        /\ \A n \in UserMessages : at'[n] = IF n = activeTurn /\ places[n] = "streaming"
                                            THEN "returning" ELSE places[n]
        /\ streams' \subseteq UserMessages \cup {"resume", "edit"} /\ streams' = streams \ {activeTurn}
        /\ StreamsOfMessages'
        /\ turn' \in [waits : BOOLEAN, stopped : BOOLEAN, muted : BOOLEAN]
        /\ turn'.muted /\ turn'.waits = turn.waits
        /\ {n \in UserMessages : at'[n] \in OnItsWay} = {n \in UserMessages : places[n] \in OnItsWay}
    BY <1>i, <2>1, <2>2, <2>3, InterruptFacts
  <2>5. Dispatched' = Dispatched \cup {m} /\ m \notin Dispatched
    BY <1>d, <1>e, <1>t, <2>1, <2>4 DEF OnItsWay
  <2>6. IsFiniteSet(Dispatched') /\ Cardinality(Dispatched') = Cardinality(Dispatched) + 1
    BY <1>t, <2>5, FS_AddElement
  <2>7. \A n \in UserMessages : at'[n] = "queued" <=> (n # m /\ at[n] = "queued")
    BY <1>t, <2>4
  <2>8. QueueOf(queue', at') /\ queue' \in Seq(UserMessages)
    BY <1>q, <1>w, <2>1, <2>7
  <2>9. ComposerTypeOK' /\ QueueOf(queue, at)'
    BY <1>t, <2>1, <2>4, <2>6, <2>8 DEF ComposerTypeOK
  <2>10. QueueCounts'
    BY <1>i, <1>t, <2>1, <2>6 DEF QueueCounts
  <2>11. StopsAreHeard'
    BY <1>i, <2>1, <2>4 DEF StopsAreHeard
  <2>12. OneAfterAnother'
    <3> SUFFICES ASSUME misheard' \cap {"early", "beside"} = {}
                 PROVE  /\ (streams \subseteq {activeTurn})'
                        /\ \A n, k \in UserMessages :
                             at'[n] = "preparing" /\ at'[k] \in {"preparing", "streaming"} => n = k
      BY DEF OneAfterAnother
    <3>1. ~ \E n \in UserMessages : at[n] = "preparing"
      BY <2>1
    <3>2. streams \subseteq {activeTurn}
      BY <1>i, <2>1 DEF OneAfterAnother
    <3>3. streams' = {}
      BY <2>4, <3>2
    <3>4. \A k \in UserMessages : at'[k] \in {"preparing", "streaming"} => k = m
      BY <1>t, <2>4, <3>1, <3>3 DEF StreamsOfMessages
    <3> QED BY <3>3, <3>4
  <2> QED BY <2>4, <2>9, <2>10, <2>11, <2>12 DEF ComposerInv
<1>3. ASSUME NEW m \in UserMessages, remove(m)
      PROVE  ComposerInv'
  <2>1. PICK spot \in {"dropped", "restored"} :
          /\ at[m] = "queued" /\ queue' = Without(m) /\ at' = [at EXCEPT ![m] = spot]
          /\ UNCHANGED <<running, suppressIdle, streams, activeTurn, turn, panel, beingEdited, misheard>>
    BY <1>3 DEF remove
  <2>2. \A n \in UserMessages : at'[n] = IF n = m THEN spot ELSE at[n]
    BY <1>t, <2>1
  <2>3. at' \in [UserMessages -> Places]
    BY <1>t, <2>1 DEF Places
  <2>4. Dispatched' = Dispatched
    BY <1>d, <1>e, <2>1, <2>2 DEF OnItsWay
  <2>5. \A n \in UserMessages : at'[n] = "queued" <=> (n # m /\ at[n] = "queued")
    BY <2>2
  <2>6. QueueOf(queue', at') /\ queue' \in Seq(UserMessages) /\ running
    BY <1>q, <1>w, <2>1, <2>5
  <2>7. ComposerTypeOK' /\ QueueCounts'
    BY <1>k, <1>t, <2>1, <2>3, <2>4, <2>6
  <2>8. StreamsOfMessages' /\ OneAfterAnother' /\ StopsAreHeard'
    BY <1>i, <2>1, <2>2 DEF StreamsOfMessages, OneAfterAnother, StopsAreHeard
  <2> QED BY <2>6, <2>7, <2>8 DEF ComposerInv
<1>4. ASSUME NEW m \in UserMessages, handleNew(m)
      PROVE  ComposerInv'
  <2>1. /\ at[m] = "preparing" /\ at' = [at EXCEPT ![m] = "streaming"]
        /\ streams' = streams \cup {m} /\ activeTurn' = m
        /\ turn' = [waits |-> FALSE, stopped |-> FALSE, muted |-> FALSE]
        /\ misheard' = misheard \cup (IF streams \ UserMessages # {} THEN {"beside"} ELSE {})
        /\ UNCHANGED <<queue, running, suppressIdle, panel, beingEdited>>
    BY <1>4 DEF handleNew, SendOff
  <2>2. \A n \in UserMessages : at'[n] = IF n = m THEN "streaming" ELSE at[n]
    BY <1>t, <2>1
  <2>3. at' \in [UserMessages -> Places]
    BY <1>t, <2>1 DEF Places
  <2>4. Dispatched' = Dispatched
    BY <1>d, <1>e, <2>1, <2>2 DEF OnItsWay
  <2>5. /\ turn' \in [waits : BOOLEAN, stopped : BOOLEAN, muted : BOOLEAN]
        /\ ~turn'.waits /\ ~turn'.stopped /\ ~turn'.muted
    BY <2>1, NewTurn
  <2>6. ComposerTypeOK' /\ QueueCounts'
    <3>1. queue' \in Seq(UserMessages) /\ (queue' # <<>> => running)
          /\ streams' \subseteq UserMessages \cup {"resume", "edit"}
      BY <1>i, <1>t, <2>1 DEF QueueCounts
    <3> QED BY <1>k, <2>1, <2>3, <2>4, <2>5, <3>1
  <2>7. QueueOf(queue, at)'
    BY <1>i, <1>t, <2>1, <2>2 DEF QueueOf
  <2>8. StreamsOfMessages' /\ StopsAreHeard'
    BY <1>i, <2>1, <2>2, <2>5 DEF StreamsOfMessages, StopsAreHeard
  <2>9. OneAfterAnother'
    <3> SUFFICES ASSUME misheard' \cap {"early", "beside"} = {}
                 PROVE  /\ streams' \subseteq {m}
                        /\ \A n, k \in UserMessages :
                             at'[n] = "preparing" /\ at'[k] \in {"preparing", "streaming"} => n = k
      BY <2>1 DEF OneAfterAnother
    <3>1. misheard \cap {"early", "beside"} = {} /\ streams \subseteq UserMessages
      BY <2>1
    <3>2. \A n \in UserMessages : at[n] \in {"preparing", "streaming"} => n = m
      BY <1>i, <2>1, <3>1 DEF OneAfterAnother
    <3>3. \A n \in UserMessages : n \in streams => n = m
      BY <1>i, <3>2 DEF StreamsOfMessages
    <3> QED BY <2>1, <2>2, <3>1, <3>2, <3>3
  <2> QED BY <2>6, <2>7, <2>8, <2>9 DEF ComposerInv
<1>5. ASSUME NEW m \in UserMessages, Returned(m)
      PROVE  ComposerInv'
  <2> DEFINE places == [at EXCEPT ![m] = "done"]
             d == Dispatched \ {m}
  <2>1. /\ at[m] = "returning" /\ turn' = [turn EXCEPT !.muted = FALSE]
        /\ misheard' = misheard \cup (IF turn.muted THEN {"lifted"} ELSE {})
        /\ notifyIdle(places)
        /\ UNCHANGED <<streams, activeTurn, panel, beingEdited>>
    BY <1>5 DEF Returned
  <2>2. places \in [UserMessages -> Places] /\ \A n \in UserMessages : places[n] = IF n = m THEN "done" ELSE at[n]
    BY <1>t DEF Places
  <2>3. d = {n \in UserMessages : places[n] \in OnItsWay} /\ m \in Dispatched
    BY <1>d, <2>1, <2>2 DEF OnItsWay
  <2>4. IsFiniteSet(d) /\ Cardinality(d) = Cardinality(Dispatched) - 1 /\ Cardinality(Dispatched) # 0
    <3>1. Cardinality(Dispatched) \in Nat /\ Cardinality(Dispatched) # 0
      BY <1>t, <1>z, <2>3, FS_CardinalityType
    <3> QED BY <1>t, <2>3, <3>1, FS_RemoveElement
  <2>5. QueueOf(queue, places)
    BY <1>i, <1>t, <2>1, <2>2 DEF QueueOf
  <2>6. /\ turn' \in [waits : BOOLEAN, stopped : BOOLEAN, muted : BOOLEAN]
        /\ turn'.waits = turn.waits /\ turn'.stopped = turn.stopped /\ ~turn'.muted
    BY <1>t, <2>1
  <2>7. StopsAreHeard'
    <3>1. turn.muted \in BOOLEAN
      BY <1>t
    <3> QED BY <1>i, <2>1, <2>6, <3>1 DEF StopsAreHeard
  <2>8. misheard' \cap {"early", "beside"} = misheard \cap {"early", "beside"}
    BY <2>1
  <2>a. CASE suppressIdle > 0
    <3>1. suppressIdle' = suppressIdle - 1 /\ at' = places /\ UNCHANGED <<queue, running>>
      BY <2>1, <2>a DEF notifyIdle
    <3>2. Dispatched' = d
      BY <1>e, <2>3, <3>1
    <3>3. ComposerTypeOK' /\ QueueCounts'
      BY <1>i, <1>t, <2>1, <2>2, <2>4, <2>6, <2>a, <3>1, <3>2 DEF ComposerTypeOK, QueueCounts
    <3>4. QueueOf(queue, at)' /\ StreamsOfMessages'
      BY <1>i, <2>1, <2>2, <2>5, <3>1 DEF StreamsOfMessages
    <3>5. OneAfterAnother'
      BY <1>i, <2>1, <2>2, <2>8, <3>1 DEF OneAfterAnother
    <3> QED BY <2>7, <3>3, <3>4, <3>5 DEF ComposerInv
  <2>b. CASE ~(suppressIdle > 0)
    <3> HIDE DEF places
    <3>1. AdvanceQueue(queue, places, FALSE) /\ UNCHANGED suppressIdle /\ suppressIdle = 0
      <4>1. AdvanceQueue(queue, places, FALSE) /\ UNCHANGED suppressIdle
        BY <2>1, <2>b, Zenon DEF notifyIdle
      <4>2. suppressIdle = 0
        BY <1>t, <2>b
      <4> QED BY <4>1, <4>2
    <3>2. Cardinality(d) = 0
      BY <1>i, <1>t, <2>4, <3>1 DEF QueueCounts
    <3>3. d = {}
      BY <2>4, <3>2, FS_EmptySet
    <3> HIDE DEF d
    <3>4. /\ at' \in [UserMessages -> Places] /\ queue' \in Seq(UserMessages) /\ running' \in BOOLEAN
          /\ QueueOf(queue', at')
          /\ queue' # <<>> => running'
          /\ IsFiniteSet(Dispatched')
          /\ Cardinality(Dispatched') = IF running' THEN 1 ELSE 0
          /\ \A n \in UserMessages : at'[n] = "streaming" <=> places[n] = "streaming"
          /\ \A n, k \in UserMessages : at'[n] \in OnItsWay /\ at'[k] \in OnItsWay => n = k
      BY <1>t, <2>2, <2>3, <2>4, <2>5, <3>1, <3>3, AdvanceFacts
    <3>5. ComposerTypeOK' /\ QueueCounts' /\ QueueOf(queue, at)'
      BY <1>t, <2>1, <2>6, <3>1, <3>4 DEF ComposerTypeOK, QueueCounts
    <3>6. StreamsOfMessages'
      BY <1>i, <2>1, <2>2, <3>4 DEF StreamsOfMessages
    <3>7. OneAfterAnother'
      BY <1>i, <2>1, <2>8, <3>4 DEF OneAfterAnother, OnItsWay
    <3> QED BY <2>7, <3>5, <3>6, <3>7 DEF ComposerInv
  <2> QED BY <2>a, <2>b
<1>6. ASSUME NEW s \in UserMessages \cup {"resume", "edit"}, StreamEnds(s)
      PROVE  ComposerInv'
  <2>1. /\ s \in streams /\ streams' = streams \ {s}
        /\ activeTurn' = (IF s = activeTurn THEN "none" ELSE activeTurn)
        /\ at' = [m \in UserMessages |-> IF m = s THEN "returning" ELSE at[m]]
        /\ UNCHANGED <<queue, running, suppressIdle, turn, panel, beingEdited, misheard>>
    BY <1>6 DEF StreamEnds, Nobody
  <2>2. \A m \in UserMessages : m = s => at[m] = "streaming"
    BY <1>i, <2>1 DEF StreamsOfMessages
  <2>3. \A m \in UserMessages : at'[m] = IF m = s THEN "returning" ELSE at[m]
    BY <2>1
  <2>4. at' \in [UserMessages -> Places]
    BY <1>t, <2>1 DEF Places
  <2>5. Dispatched' = Dispatched
    BY <1>d, <1>e, <2>2, <2>3 DEF OnItsWay
  <2>6. ComposerTypeOK' /\ QueueCounts'
    <3>1. queue' \in Seq(UserMessages) /\ (queue' # <<>> => running)
          /\ streams' \subseteq UserMessages \cup {"resume", "edit"}
      BY <1>i, <1>t, <2>1 DEF QueueCounts
    <3> QED BY <1>k, <1>t, <2>1, <2>4, <2>5, <3>1
  <2>7. QueueOf(queue, at)'
    BY <1>i, <1>t, <2>1, <2>2, <2>3 DEF QueueOf
  <2>8. StreamsOfMessages' /\ StopsAreHeard'
    BY <1>i, <2>1, <2>3 DEF StreamsOfMessages, StopsAreHeard
  <2>9. OneAfterAnother'
    BY <1>i, <2>1, <2>3 DEF OneAfterAnother
  <2> QED BY <2>6, <2>7, <2>8, <2>9 DEF ComposerInv
<1>7. CASE Suspended
  <2>1. /\ turn' = [turn EXCEPT !.waits = TRUE] /\ panel' = "open"
        /\ UNCHANGED <<at, queue, running, suppressIdle, streams, activeTurn, beingEdited, misheard>>
    BY <1>7 DEF Suspended
  <2>2. /\ turn' \in [waits : BOOLEAN, stopped : BOOLEAN, muted : BOOLEAN]
        /\ turn'.stopped = turn.stopped /\ turn'.muted = turn.muted
    BY <1>t, <2>1
  <2>3. Dispatched' = Dispatched
    BY <1>d, <1>e, <2>1
  <2>4. ComposerTypeOK' /\ QueueCounts' /\ QueueOf(queue, at)' /\ StreamsOfMessages' /\ OneAfterAnother'
    BY <1>i, <1>t, <2>1, <2>2, <2>3
       DEF ComposerTypeOK, QueueCounts, QueueOf, StreamsOfMessages, OneAfterAnother
  <2>5. StopsAreHeard'
    BY <1>i, <2>1, <2>2 DEF StopsAreHeard
  <2> QED BY <2>4, <2>5 DEF ComposerInv
<1>8. CASE onCancel
  <2> DEFINE places == [m \in UserMessages |-> IF at[m] = "queued" THEN "restored" ELSE at[m]]
  <2>1. /\ queue' = <<>> /\ InterruptRun(places)
        /\ UNCHANGED <<running, suppressIdle, panel, beingEdited, misheard>>
    BY <1>8 DEF onCancel
  <2>2. places \in [UserMessages -> Places]
    BY <1>t DEF Places
  <2>3. \A n \in UserMessages : places[n] = "streaming" <=> at[n] = "streaming"
    OBVIOUS
  <2>4. /\ at' \in [UserMessages -> Places]
        /\ \A n \in UserMessages : at'[n] = IF n = activeTurn /\ places[n] = "streaming"
                                            THEN "returning" ELSE places[n]
        /\ streams' \subseteq UserMessages \cup {"resume", "edit"} /\ streams' = streams \ {activeTurn}
        /\ StreamsOfMessages'
        /\ turn' \in [waits : BOOLEAN, stopped : BOOLEAN, muted : BOOLEAN]
        /\ turn'.muted /\ turn'.waits = turn.waits
        /\ {n \in UserMessages : at'[n] \in OnItsWay} = {n \in UserMessages : places[n] \in OnItsWay}
    BY <1>i, <2>1, <2>2, <2>3, InterruptFacts
  <2>5. Dispatched' = Dispatched
    BY <1>d, <1>e, <2>4 DEF OnItsWay
  <2>6. ComposerTypeOK' /\ QueueCounts'
    <3>1. queue' \in Seq(UserMessages)
      BY <2>1
    <3> QED BY <1>k, <2>1, <2>4, <2>5, <3>1
  <2>7. QueueOf(queue, at)'
    BY <2>1, <2>4 DEF QueueOf
  <2>8. StopsAreHeard'
    BY <1>i, <2>1, <2>4 DEF StopsAreHeard
  <2>9. OneAfterAnother'
    <3> SUFFICES ASSUME misheard' \cap {"early", "beside"} = {}
                 PROVE  /\ (streams \subseteq {activeTurn})'
                        /\ \A n, k \in UserMessages :
                             at'[n] = "preparing" /\ at'[k] \in {"preparing", "streaming"} => n = k
      BY DEF OneAfterAnother
    <3>1. /\ streams \subseteq {activeTurn}
          /\ \A m, n \in UserMessages :
               at[m] = "preparing" /\ at[n] \in {"preparing", "streaming"} => m = n
      BY <1>i, <2>1 DEF OneAfterAnother
    <3> QED BY <2>4, <3>1
  <2> QED BY <2>4, <2>6, <2>7, <2>8, <2>9 DEF ComposerInv
<1>9. CASE deliverResult
  <2>1. /\ panel' = "sending"
        /\ UNCHANGED <<at, queue, running, suppressIdle, streams, activeTurn, turn, beingEdited, misheard>>
    BY <1>9 DEF deliverResult
  <2>2. Dispatched' = Dispatched
    BY <1>d, <1>e, <2>1
  <2> QED BY <1>i, <2>1, <2>2
       DEF ComposerInv, ComposerTypeOK, QueueCounts, QueueOf, StreamsOfMessages, OneAfterAnother, StopsAreHeard
<1>10. CASE applyToolResult
  <2>1. UNCHANGED <<at, queue, running, suppressIdle, beingEdited>>
    BY <1>10 DEF applyToolResult
  <2>2. Dispatched' = Dispatched
    BY <1>d, <1>e, <2>1
  <2>3. QueueOf(queue, at)'
    BY <1>i, <2>1 DEF QueueOf
  <2>4. queue' \in Seq(UserMessages) /\ (queue' # <<>> => running) /\ at' \in [UserMessages -> Places]
    BY <1>i, <1>t, <2>1 DEF QueueCounts
  <2>a. CASE turn.muted /\ panel' = "none" /\ turn' = [turn EXCEPT !.waits = FALSE]
             /\ UNCHANGED <<streams, activeTurn, misheard>>
    <3>1. /\ turn' \in [waits : BOOLEAN, stopped : BOOLEAN, muted : BOOLEAN]
          /\ ~turn'.waits /\ turn'.stopped = turn.stopped /\ turn'.muted = turn.muted
      BY <1>t, <2>a
    <3>2. ComposerTypeOK' /\ QueueCounts'
      BY <1>k, <1>t, <2>1, <2>2, <2>4, <2>a, <3>1
    <3>3. StreamsOfMessages' /\ OneAfterAnother' /\ StopsAreHeard'
      BY <1>i, <2>1, <2>a, <3>1 DEF StreamsOfMessages, OneAfterAnother, StopsAreHeard
    <3> QED BY <2>3, <3>2, <3>3 DEF ComposerInv
  <2>b. CASE ~turn.muted /\ turn.waits /\ panel' = "none" /\ SendOff("resume")
    <3>1. /\ streams' = streams \cup {"resume"} /\ activeTurn' = "resume"
          /\ turn' = [waits |-> FALSE, stopped |-> FALSE, muted |-> FALSE]
          /\ misheard' = misheard \cup (IF streams \ UserMessages # {} \/ isRunning THEN {"beside"} ELSE {})
                                  \cup (IF turn.stopped THEN {"zombie"} ELSE {})
      <4>1. SendOff("resume")
        BY <2>b
      <4> QED BY <4>1, Zenon DEF SendOff
    <3>2. /\ turn' \in [waits : BOOLEAN, stopped : BOOLEAN, muted : BOOLEAN]
          /\ ~turn'.waits /\ ~turn'.stopped /\ ~turn'.muted
      BY <3>1, NewTurn
    <3>3. ComposerTypeOK' /\ QueueCounts'
      <4>1. streams' \subseteq UserMessages \cup {"resume", "edit"}
        BY <1>t, <3>1
      <4> QED BY <1>k, <2>1, <2>2, <2>4, <3>2, <4>1
    <3>4. StreamsOfMessages'
      BY <1>i, <2>1, <3>1 DEF StreamsOfMessages
    <3>5. OneAfterAnother'
      <4> SUFFICES ASSUME misheard' \cap {"early", "beside"} = {}
                   PROVE  /\ streams' \subseteq {"resume"}
                          /\ \A n, k \in UserMessages :
                               at'[n] = "preparing" /\ at'[k] \in {"preparing", "streaming"} => n = k
        BY <3>1 DEF OneAfterAnother
      <4>1. misheard \cap {"early", "beside"} = {} /\ streams = {}
        BY <3>1 DEF isRunning
      <4> QED BY <1>i, <2>1, <3>1, <4>1 DEF OneAfterAnother
    <3>6. StopsAreHeard'
      <4>1. turn.stopped => "lifted" \in misheard
        BY <1>i, <2>b DEF StopsAreHeard
      <4>2. "zombie" \in misheard' => "lifted" \in misheard
        <5>1. CASE turn.stopped
          BY <4>1, <5>1
        <5>2. CASE ~turn.stopped
          BY <1>i, <3>1, <5>2 DEF StopsAreHeard
        <5> QED BY <5>1, <5>2
      <4>3. "lifted" \in misheard => "lifted" \in misheard'
        BY <3>1
      <4> QED BY <3>2, <4>2, <4>3 DEF StopsAreHeard
    <3> QED BY <2>3, <3>3, <3>4, <3>5, <3>6 DEF ComposerInv
  <2>c. CASE ~turn.muted /\ ~turn.waits /\ panel' = "failed"
             /\ UNCHANGED <<streams, activeTurn, turn, misheard>>
    <3>1. ComposerTypeOK' /\ QueueCounts'
      BY <1>k, <1>t, <2>1, <2>2, <2>4, <2>c
    <3>2. StreamsOfMessages' /\ OneAfterAnother' /\ StopsAreHeard'
      BY <1>i, <2>1, <2>c DEF StreamsOfMessages, OneAfterAnother, StopsAreHeard
    <3> QED BY <2>3, <3>1, <3>2 DEF ComposerInv
  <2> QED BY <1>10, <2>a, <2>b, <2>c DEF applyToolResult
<1>11. CASE EditBegins
  <2>1. /\ queue' = <<>>
        /\ at' = [m \in UserMessages |-> IF at[m] = "queued" THEN "dropped" ELSE at[m]]
        /\ UNCHANGED <<running, suppressIdle, streams, activeTurn, turn, panel, misheard>>
    BY <1>11 DEF EditBegins
  <2>2. \A m \in UserMessages : at'[m] = IF at[m] = "queued" THEN "dropped" ELSE at[m]
    BY <2>1
  <2>3. at' \in [UserMessages -> Places]
    BY <1>t, <2>1 DEF Places
  <2>4. Dispatched' = Dispatched
    BY <1>d, <1>e, <2>2 DEF OnItsWay
  <2>5. ComposerTypeOK' /\ QueueCounts'
    <3>1. queue' \in Seq(UserMessages)
      BY <2>1
    <3> QED BY <1>k, <1>t, <2>1, <2>3, <2>4, <3>1
  <2>6. QueueOf(queue, at)'
    BY <2>1, <2>2 DEF QueueOf
  <2>7. StreamsOfMessages' /\ OneAfterAnother' /\ StopsAreHeard'
    BY <1>i, <2>1, <2>2 DEF StreamsOfMessages, OneAfterAnother, StopsAreHeard
  <2> QED BY <2>5, <2>6, <2>7 DEF ComposerInv
<1>12. CASE onEdit
  <2>1. /\ streams' = (streams \ {activeTurn}) \cup {"edit"} /\ activeTurn' = "edit"
        /\ at' = [m \in UserMessages |-> IF m = activeTurn THEN "returning" ELSE at[m]]
        /\ misheard' = misheard \cup (IF streams \subseteq {activeTurn} THEN {} ELSE {"beside"})
                     \cup (IF \E m \in UserMessages : at[m] = "preparing" THEN {"early"} ELSE {})
        /\ turn' = [waits |-> FALSE, stopped |-> FALSE, muted |-> FALSE]
        /\ UNCHANGED <<queue, running, suppressIdle, panel>>
    BY <1>12 DEF onEdit
  <2>2. \A m \in UserMessages : m = activeTurn => at[m] = "streaming"
    BY <1>i DEF StreamsOfMessages
  <2>3. \A m \in UserMessages : at'[m] = IF m = activeTurn THEN "returning" ELSE at[m]
    BY <2>1
  <2>4. at' \in [UserMessages -> Places]
    BY <1>t, <2>1 DEF Places
  <2>5. Dispatched' = Dispatched
    BY <1>d, <1>e, <2>2, <2>3 DEF OnItsWay
  <2>6. /\ turn' \in [waits : BOOLEAN, stopped : BOOLEAN, muted : BOOLEAN]
        /\ ~turn'.waits /\ ~turn'.stopped /\ ~turn'.muted
    BY <2>1, NewTurn
  <2>7. ComposerTypeOK' /\ QueueCounts'
    <3>1. queue' \in Seq(UserMessages) /\ (queue' # <<>> => running)
          /\ streams' \subseteq UserMessages \cup {"resume", "edit"}
      BY <1>i, <1>t, <2>1 DEF QueueCounts
    <3> QED BY <1>k, <2>1, <2>4, <2>5, <2>6, <3>1
  <2>8. QueueOf(queue, at)'
    BY <1>i, <1>t, <2>1, <2>2, <2>3 DEF QueueOf
  <2>9. StreamsOfMessages'
    BY <1>i, <2>1, <2>3 DEF StreamsOfMessages
  <2>10. StopsAreHeard'
    BY <1>i, <2>1, <2>6 DEF StopsAreHeard
  <2>11. OneAfterAnother'
    <3> SUFFICES ASSUME misheard' \cap {"early", "beside"} = {}
                 PROVE  /\ streams' \subseteq {"edit"}
                        /\ \A n, k \in UserMessages :
                             at'[n] = "preparing" /\ at'[k] \in {"preparing", "streaming"} => n = k
      BY <2>1 DEF OneAfterAnother
    <3>1. streams \subseteq {activeTurn} /\ ~ \E m \in UserMessages : at[m] = "preparing"
      BY <2>1
    <3> QED BY <2>1, <2>3, <3>1
  <2> QED BY <2>7, <2>8, <2>9, <2>10, <2>11 DEF ComposerInv
<1>13. CASE UNCHANGED composerVars
  <2>1. Dispatched' = Dispatched
    BY <1>13, <1>d, <1>e DEF composerVars
  <2> QED BY <1>13, <1>i, <2>1
       DEF composerVars, ComposerInv, ComposerTypeOK, QueueCounts, QueueOf, StreamsOfMessages,
           OneAfterAnother, StopsAreHeard
<1> QED BY <1>1, <1>2, <1>3, <1>4, <1>5, <1>6, <1>7, <1>8, <1>9, <1>10, <1>11, <1>12, <1>13
        DEF ComposerNext

(* The queue of the composer takes itself for busy exactly while a message it ran has  *)
(* not come back, whatever is typed, steered, stopped, edited, answered and in which   *)
(* order: none waits with nothing to wake it.                                          *)
THEOREM QueueServed == ComposerSpec => []QueueIsServed
<1>1. ComposerInv => QueueIsServed
  <2> SUFFICES ASSUME ComposerInv PROVE QueueIsServed
    OBVIOUS
  <2>1. Cardinality(streams) > 1 => misheard \cap {"early", "beside"} # {}
    <3>1. ASSUME misheard \cap {"early", "beside"} = {}
          PROVE  Cardinality(streams) = 0 \/ Cardinality(streams) = 1
      <4>1. streams \subseteq {activeTurn}
        BY <3>1 DEF ComposerInv, OneAfterAnother
      <4>2. streams = {} \/ streams = {activeTurn}
        BY <4>1
      <4> QED BY <4>2, FS_EmptySet, FS_Singleton
    <3> QED BY <3>1
  <2> QED BY <2>1 DEF ComposerInv, QueueCounts, StopsAreHeard, QueueIsServed
<1> QED BY <1>1, ComposerInitial, ComposerStep, PTL DEF ComposerSpec

-----------------------------------------------------------------------------
(* Webhooks and what they start. *)

\* What the rows mean to start for a delivery.
Meant(rows, d) == Saying(VerdictsOf(Starters, rows, d), "yes")

DeliveryFields == {"event", "source", "signed", "at", "eventKey", "told", "unheard",
                   "todo", "started", "ever", "always"}
Serving == {"automations", "dispatching", "workflows", "dispatching workflows"}
Turned == {"unknown source", "bad signature", "failed"}

\* Of a delivery being served, what always matched has been started or will be, as far
\* as its list was read; what was started did match.
DeliveryOK(d, rows) ==
  /\ DOMAIN d = DeliveryFields
  /\ d.at \in {"config", "ok"} \cup Serving \cup Turned
  /\ d.told \in BOOLEAN /\ (d.told = TRUE => d.at \in {"ok"} \cup Turned)
  /\ d.started \subseteq d.ever
  /\ d.at = "config" => d.started = {} /\ d.todo = {}
  /\ d.at \in Turned => d.started \subseteq Triggers /\ (d.at # "failed" => d.started = {})
  /\ d.at \in Serving => /\ d.always \subseteq Meant(rows, d) /\ Meant(rows, d) \subseteq d.ever
                         /\ d.todo \subseteq d.ever
  /\ d.at = "automations" => d.started = {}
  /\ d.at = "dispatching" => /\ d.started \cup d.todo \subseteq Triggers
                             /\ d.always \cap Triggers \subseteq d.started \cup d.todo
  /\ d.at = "workflows" => /\ d.started \subseteq Triggers
                           /\ d.always \cap Triggers \subseteq d.started
  /\ d.at = "dispatching workflows" => d.always \subseteq d.started \cup d.todo
  /\ d.at = "ok" => d.always \subseteq d.started

\* Before a delivery is sent, those of its event that were answered were turned down.
DeliveriesInv ==
  /\ \E n \in Nat : deliveries = [i \in 1 .. n |-> deliveries[i]]
  /\ \A i \in DOMAIN deliveries : DeliveryOK(deliveries[i], triggerRows)
  /\ \A i, j \in DOMAIN deliveries :
       i < j /\ deliveries[i].event = deliveries[j].event /\ i \notin deliveries[j].unheard =>
         deliveries[i].at \in Turned

\* The screen has yet to hear of a change.
NewsPending == \E r \in screenRequests : r.at = "done"

\* The newest load reads what is there now, and what is shown is what is there now,
\* unless the screen has yet to hear of a change or was never told.
ScreenInv ==
  /\ hookCount \in Nat /\ loadCount \in Nat /\ unaware \in Nat
  /\ \A h \in hookRows : DOMAIN h = {"id", "source", "expr", "enabled"} /\ h.id # 0
  /\ \A r \in screenRequests : /\ DOMAIN r = {"n", "kind", "of", "form", "at", "secret"}
                               /\ r.secret # 0 => r.at = "done"
  /\ \A l \in screenLoads : DOMAIN l = {"n", "rows", "hooks"} /\ l.n \in 1 .. loadCount
  /\ \A h \in hookRows : h.id \in secretsShown \cup lostSecrets \cup {r.secret : r \in screenRequests}
  /\ \A g, h \in hookRows : g.source = h.source => g = h
  /\ \A l \in screenLoads : l.n = loadCount =>
       \/ NewsPending \/ unaware > loadCount
       \/ l.rows \in {Dropped, triggerRows} /\ l.hooks \in {Dropped, hookRows}
  /\ \/ NewsPending \/ unaware # 0 \/ screenFailed = TRUE \/ overtakenLoad = TRUE
     \/ \E l \in screenLoads : l.n = loadCount
     \/ shownRows = triggerRows /\ shownHooks = hookRows

EventsInv == DeliveriesInv /\ (watched = "screen" => ScreenInv)

-----------------------------------------------------------------------------
LEMMA MeantFacts ==
  ASSUME NEW rows, NEW d
  PROVE  Meant(rows, d) = {i \in Starters :
           /\ rows[i] # Dropped /\ rows[i].enabled /\ (i \in Flows => MayBeMeant(i, d.event))
           /\ matchesEventTrigger(rows[i], d.source, d.eventKey, d.event) = "yes"}
  BY DEF Meant, Saying, VerdictsOf

(* Only the source, the key and the event of a delivery say what is meant. *)
LEMMA MeantSame ==
  ASSUME NEW rows, NEW d, NEW e, e.source = d.source, e.eventKey = d.eventKey, e.event = d.event
  PROVE  Meant(rows, e) = Meant(rows, d)
  BY MeantFacts

(* One list, read and matched: what it will start is what is meant of it. *)
LEMMA MatchFacts ==
  ASSUME NEW ids \in SUBSET Starters, NEW d
  PROVE  MatchAll(ids, d).todo = Meant(triggerRows, d) \cap ids
<1>1. MatchAll(ids, d).todo = {s \in ids :
         /\ triggerRows[s] # Dropped /\ triggerRows[s].enabled /\ triggerRows[s].source = d.source
         /\ s \in Flows => MayBeMeant(s, d.event)
         /\ matchesEventTrigger(triggerRows[s], d.source, d.eventKey, d.event) = "yes"}
  BY DEF MatchAll, Listed, Saying
<1>2. \A s \in ids : matchesEventTrigger(triggerRows[s], d.source, d.eventKey, d.event) = "yes"
                     => triggerRows[s].source = d.source
  BY DEF matchesEventTrigger
<1> QED BY <1>1, <1>2, MeantFacts

(* One delivery goes on. *)
LEMMA OneDelivery ==
  ASSUME DeliveriesInv, triggerRows' = triggerRows, NEW i \in DOMAIN deliveries, NEW e,
         deliveries' = [deliveries EXCEPT ![i] = e],
         e.event = deliveries[i].event, e.unheard = deliveries[i].unheard,
         e.at = deliveries[i].at \/ deliveries[i].at \notin Turned, DeliveryOK(e, triggerRows)
  PROVE  DeliveriesInv'
<1>1. PICK n \in Nat : deliveries = [k \in 1 .. n |-> deliveries[k]]
  BY DEF DeliveriesInv
<1>2. DOMAIN deliveries = 1 .. n
  BY <1>1
<1>3. deliveries' = [k \in 1 .. n |-> IF k = i THEN e ELSE deliveries[k]]
  BY <1>1, <1>2
<1>4. deliveries' = [k \in 1 .. n |-> deliveries'[k]]
  BY <1>3
<1>5. \A k \in 1 .. n : deliveries'[k] = IF k = i THEN e ELSE deliveries[k]
  BY <1>3
<1>6. DOMAIN deliveries' = 1 .. n
  BY <1>3
<1>7. \A k \in DOMAIN deliveries' : DeliveryOK(deliveries'[k], triggerRows')
  BY <1>2, <1>5, <1>6 DEF DeliveriesInv
<1>8. ASSUME NEW j \in DOMAIN deliveries', NEW k \in DOMAIN deliveries',
             j < k, deliveries'[j].event = deliveries'[k].event, j \notin deliveries'[k].unheard
      PROVE  deliveries'[j].at \in Turned
  <2>1. deliveries[j].event = deliveries[k].event /\ j \notin deliveries[k].unheard
    BY <1>2, <1>5, <1>6, <1>8
  <2>2. deliveries[j].at \in Turned
    BY <1>2, <1>6, <1>8, <2>1 DEF DeliveriesInv
  <2> QED BY <1>2, <1>5, <1>6, <2>2
<1> QED BY <1>4, <1>7, <1>8 DEF DeliveriesInv

(* The rows change under the deliveries being served. *)
LEMMA RowsChange ==
  ASSUME DeliveriesInv, NEW rows, SetRows(rows)
  PROVE  DeliveriesInv'
<1>1. PICK n \in Nat : deliveries = [k \in 1 .. n |-> deliveries[k]]
  BY DEF DeliveriesInv
<1>2. DOMAIN deliveries = 1 .. n
  BY <1>1
<1> DEFINE Told(d) == IF Underway(d) /\ d.at # "config"
                      THEN [d EXCEPT !.ever = @ \cup Meant(rows, d), !.always = @ \cap Meant(rows, d)]
                      ELSE d
<1>3. triggerRows' = rows /\ deliveries' = [i \in 1 .. n |-> Told(deliveries[i])]
  BY <1>2 DEF SetRows, Meant
<1>4. ASSUME NEW d, DeliveryOK(d, triggerRows)
      PROVE  /\ DeliveryOK(Told(d), rows)
             /\ Told(d).at = d.at /\ Told(d).event = d.event /\ Told(d).unheard = d.unheard
  <2>1. CASE Underway(d) /\ d.at # "config"
    <3>1. DOMAIN d = DeliveryFields
      BY <1>4 DEF DeliveryOK
    <3>2. PICK m : m = Meant(rows, d)
      OBVIOUS
    <3>3. PICK e : e = Told(d)
      OBVIOUS
    <3>4. e = [d EXCEPT !.ever = @ \cup m, !.always = @ \cap m]
      BY <2>1, <3>2, <3>3
    <3>5. /\ DOMAIN e = DeliveryFields
          /\ e.at = d.at /\ e.event = d.event /\ e.source = d.source /\ e.eventKey = d.eventKey
          /\ e.told = d.told /\ e.unheard = d.unheard
          /\ e.todo = d.todo /\ e.started = d.started
          /\ e.ever = d.ever \cup m /\ e.always = d.always \cap m
      BY <3>1, <3>4 DEF DeliveryFields
    <3>6. Meant(rows, e) = m
      BY <3>2, <3>5, MeantSame
    <3>7. DeliveryOK(e, rows)
      BY <1>4, <3>5, <3>6 DEF DeliveryOK
    <3> QED BY <3>3, <3>5, <3>7
  <2>2. CASE ~(Underway(d) /\ d.at # "config")
    <3>1. Told(d) = d
      BY <2>2
    <3>2. d.at \notin Serving
      BY <2>2 DEF Underway, Serving
    <3>3. DeliveryOK(d, rows)
      BY <1>4, <3>2 DEF DeliveryOK
    <3> QED BY <3>1, <3>3
  <2> QED BY <2>1, <2>2
<1>5. deliveries' = [k \in 1 .. n |-> deliveries'[k]] /\ DOMAIN deliveries' = 1 .. n
  BY <1>3
<1>6. \A k \in 1 .. n : /\ DeliveryOK(deliveries'[k], triggerRows')
                        /\ deliveries'[k].at = deliveries[k].at
                        /\ deliveries'[k].event = deliveries[k].event
                        /\ deliveries'[k].unheard = deliveries[k].unheard
  <2> HIDE DEF Told
  <2> SUFFICES ASSUME NEW k \in 1 .. n
               PROVE  /\ DeliveryOK(deliveries'[k], triggerRows')
                      /\ deliveries'[k].at = deliveries[k].at
                      /\ deliveries'[k].event = deliveries[k].event
                      /\ deliveries'[k].unheard = deliveries[k].unheard
    OBVIOUS
  <2>1. deliveries'[k] = Told(deliveries[k])
    BY <1>3
  <2>2. DeliveryOK(deliveries[k], triggerRows)
    BY <1>2 DEF DeliveriesInv
  <2> QED BY <1>3, <1>4, <2>1, <2>2
<1>7. \A i, j \in DOMAIN deliveries' :
        i < j /\ deliveries'[i].event = deliveries'[j].event /\ i \notin deliveries'[j].unheard =>
          deliveries'[i].at \in Turned
  BY <1>2, <1>5, <1>6 DEF DeliveriesInv
<1> QED BY <1>5, <1>6, <1>7 DEF DeliveriesInv

-----------------------------------------------------------------------------
LEMMA EventsInitial == EventInit => EventsInv
<1> SUFFICES ASSUME EventInit PROVE EventsInv
  OBVIOUS
<1>1. deliveries = <<>> /\ DOMAIN deliveries = {}
  BY DEF EventInit
<1>2. deliveries = [i \in 1 .. 0 |-> deliveries[i]]
  BY <1>1
<1>3. DeliveriesInv
  BY <1>1, <1>2 DEF DeliveriesInv
<1>4. ScreenInv
  <2>1. PICK s \in HookSources : hookRows = {[id |-> 1, source |-> s, expr |-> CHOOSE x \in Exprs : TRUE, enabled |-> TRUE]}
    BY DEF EventInit
  <2>2. /\ hookCount = 1 /\ loadCount = 0 /\ unaware = 0 /\ screenRequests = {} /\ screenLoads = {}
        /\ shownRows = triggerRows /\ shownHooks = hookRows /\ secretsShown = {1}
    BY DEF EventInit
  <2> QED BY <2>1, <2>2 DEF ScreenInv
<1> QED BY <1>3, <1>4 DEF EventsInv

(* The deliveries. *)
LEMMA DeliverStep ==
  ASSUME DeliveriesInv, NEW event, NEW origin, NEW signed, Deliver(event, origin, signed)
  PROVE  DeliveriesInv'
<1> DEFINE d == [event |-> event, source |-> origin, signed |-> signed, at |-> "config", eventKey |-> Dropped,
                 told |-> FALSE, unheard |-> {i \in DOMAIN deliveries : ~deliveries[i].told},
                 todo |-> {}, started |-> {}, ever |-> {}, always |-> {}]
<1>1. PICK n \in Nat : deliveries = [k \in 1 .. n |-> deliveries[k]]
  BY DEF DeliveriesInv
<1>2. DOMAIN deliveries = 1 .. n
  BY <1>1
<1>3. /\ deliveries' = Append(deliveries, d) /\ triggerRows' = triggerRows
      /\ ~SenderTold(event)
  BY DEF Deliver
<1> DEFINE S == {deliveries[k] : k \in 1 .. n} \cup {d}
<1> HIDE DEF d
<1>4. deliveries' = [k \in 1 .. (n + 1) |-> IF k = n + 1 THEN d ELSE deliveries[k]]
  <2>1. PICK q \in [1 .. n -> S] : q = deliveries
    BY <1>1
  <2>2. q \in Seq(S) /\ Len(q) = n
    OBVIOUS
  <2>3. Append(q, d) = [k \in 1 .. (n + 1) |-> IF k = n + 1 THEN d ELSE q[k]]
    <3>0. d \in S
      OBVIOUS
    <3> HIDE DEF S
    <3>1. /\ Append(q, d) \in Seq(S) /\ Len(Append(q, d)) = n + 1
          /\ \A k \in 1 .. (n + 1) : Append(q, d)[k] = IF k = n + 1 THEN d ELSE q[k]
      BY <2>2, <3>0, AppendProperties
    <3>2. PICK w : w = Append(q, d)
      OBVIOUS
    <3>3. w \in Seq(S) /\ Len(w) = n + 1
      BY <3>1, <3>2
    <3>4. w = [k \in 1 .. (n + 1) |-> w[k]]
      BY <3>3
    <3> QED BY <3>1, <3>2, <3>4
  <2> QED BY <1>3, <2>1, <2>3
<1>5. deliveries' = [k \in 1 .. (n + 1) |-> deliveries'[k]] /\ DOMAIN deliveries' = 1 .. (n + 1)
      /\ \A k \in 1 .. (n + 1) : deliveries'[k] = IF k = n + 1 THEN d ELSE deliveries[k]
  BY <1>4
<1>6. DeliveryOK(d, triggerRows)
  BY DEF DeliveryOK, DeliveryFields, d, Serving, Turned
<1>7. \A k \in DOMAIN deliveries' : DeliveryOK(deliveries'[k], triggerRows')
  BY <1>2, <1>3, <1>5, <1>6 DEF DeliveriesInv
<1>8. ASSUME NEW j \in DOMAIN deliveries', NEW k \in DOMAIN deliveries',
             j < k, deliveries'[j].event = deliveries'[k].event, j \notin deliveries'[k].unheard
      PROVE  deliveries'[j].at \in Turned
  <2>1. j \in 1 .. n /\ k \in 1 .. (n + 1) /\ deliveries'[j] = deliveries[j]
    BY <1>5, <1>8
  <2>2. CASE k = n + 1
    <3>1. deliveries[j].event = event
      BY <1>5, <1>8, <2>1, <2>2 DEF d
    <3>2. deliveries[j].told = TRUE => deliveries[j].at \in {"ok"} \cup Turned
      BY <1>2, <2>1 DEF DeliveriesInv, DeliveryOK
    <3>3. deliveries[j].told = TRUE
      <4>1. j \notin d.unheard
        BY <1>5, <1>8, <2>2
      <4>2. deliveries[j].told
        BY <1>2, <2>1, <4>1 DEF d
      <4>3. deliveries[j].told \in BOOLEAN
        BY <1>2, <2>1 DEF DeliveriesInv, DeliveryOK
      <4> QED BY <4>2, <4>3
    <3>4. deliveries[j].at # "ok"
      BY <1>2, <1>3, <2>1, <3>1, <3>3 DEF SenderTold
    <3> QED BY <2>1, <3>2, <3>3, <3>4
  <2>3. CASE k # n + 1
    <3>1. k \in 1 .. n /\ deliveries'[k] = deliveries[k]
      BY <1>5, <2>1, <2>3
    <3> QED BY <1>2, <1>8, <2>1, <3>1 DEF DeliveriesInv
  <2> QED BY <2>2, <2>3
<1>9. \E m \in Nat : deliveries' = [k \in 1 .. m |-> deliveries'[k]]
  BY <1>5
<1> QED BY <1>7, <1>8, <1>9 DEF DeliveriesInv

(* What stepTo leaves of a delivery. *)
LEMMA StepToFacts ==
  ASSUME NEW d, DOMAIN d = DeliveryFields, NEW spot, NEW todo, NEW started
  PROVE  LET e == StepTo(d, spot, todo, started)
         IN /\ DOMAIN e = DeliveryFields
            /\ e.at = spot /\ e.todo = todo /\ e.started = started
            /\ e.event = d.event /\ e.source = d.source /\ e.eventKey = d.eventKey
            /\ e.ever = d.ever /\ e.always = d.always
            /\ e.told = d.told /\ e.unheard = d.unheard
  BY DEF StepTo, DeliveryFields

LEMMA ReadConfigStep ==
  ASSUME DeliveriesInv, NEW i \in DOMAIN deliveries, ReadConfig(i)
  PROVE  DeliveriesInv'
<1> DEFINE d == deliveries[i]
<1>1. PICK e, h :
        /\ deliveries' = [deliveries EXCEPT ![i] = e]
        /\ e = IF h = Dropped THEN StepTo(d, "unknown source", {}, {})
               ELSE IF ~verifyWebhookSignature(d.signed, h) THEN StepTo(d, "bad signature", {}, {})
               ELSE LET key == resolveEventKey(h, d.event)
                        read == [d EXCEPT !.eventKey = key]
                        meant == Meant(triggerRows, read)
                    IN IF key = "throws" THEN StepTo(d, "failed", {}, {})
                       ELSE [read EXCEPT !.at = "automations", !.ever = meant, !.always = meant]
  BY DEF ReadConfig, Meant
<1>2. d.at = "config" /\ triggerRows' = triggerRows
  BY DEF ReadConfig
<1>3. DeliveryOK(d, triggerRows)
  BY DEF DeliveriesInv
<1>4. DOMAIN d = DeliveryFields /\ d.started = {} /\ d.todo = {} /\ d.told \in BOOLEAN /\ d.told # TRUE
  BY <1>2, <1>3 DEF DeliveryOK, Turned
<1>5. e.event = d.event /\ e.unheard = d.unheard /\ DeliveryOK(e, triggerRows)
  <2>1. ASSUME NEW spot \in Turned, e = StepTo(d, spot, {}, {})
        PROVE  e.event = d.event /\ e.unheard = d.unheard /\ DeliveryOK(e, triggerRows)
    <3>1. /\ DOMAIN e = DeliveryFields /\ e.told = d.told /\ e.unheard = d.unheard
          /\ e.at = spot /\ e.todo = {} /\ e.started = {} /\ e.event = d.event
      BY <1>4, <2>1, StepToFacts
    <3> QED BY <1>4, <3>1 DEF DeliveryOK, Turned, Serving
  <2>2. ASSUME NEW key, NEW read, NEW meant, read = [d EXCEPT !.eventKey = key],
               meant = Meant(triggerRows, read),
               e = [read EXCEPT !.at = "automations", !.ever = meant, !.always = meant]
        PROVE  e.event = d.event /\ e.unheard = d.unheard /\ DeliveryOK(e, triggerRows)
    <3>1. /\ DOMAIN read = DeliveryFields /\ read.event = d.event
          /\ read.told = d.told /\ read.unheard = d.unheard
          /\ read.started = {} /\ read.todo = {}
      BY <1>4, <2>2 DEF DeliveryFields
    <3>2. /\ DOMAIN e = DeliveryFields
          /\ e.at = "automations" /\ e.started = {} /\ e.todo = {}
          /\ e.event = read.event /\ e.source = read.source /\ e.eventKey = read.eventKey
          /\ e.ever = meant /\ e.always = meant /\ e.told = d.told /\ e.unheard = d.unheard
      BY <2>2, <3>1 DEF DeliveryFields
    <3>3. Meant(triggerRows, e) = meant
      <4>1. e.source = read.source /\ e.eventKey = read.eventKey /\ e.event = read.event
        BY <3>2
      <4>2. Meant(triggerRows, e) = Meant(triggerRows, read)
        BY <4>1, MeantSame, Zenon
      <4> QED BY <2>2, <4>2, Zenon
    <3> QED BY <1>4, <3>1, <3>2, <3>3 DEF DeliveryOK, Serving, Turned
  <2> QED
    <3>1. CASE h = Dropped
      BY <1>1, <2>1, <3>1 DEF Turned
    <3>2. CASE h # Dropped /\ ~verifyWebhookSignature(d.signed, h)
      BY <1>1, <2>1, <3>2 DEF Turned
    <3>3. CASE h # Dropped /\ verifyWebhookSignature(d.signed, h)
      <4> DEFINE key == resolveEventKey(h, d.event)
                 read == [d EXCEPT !.eventKey = key]
                 meant == Meant(triggerRows, read)
      <4>1. e = IF key = "throws" THEN StepTo(d, "failed", {}, {})
                ELSE [read EXCEPT !.at = "automations", !.ever = meant, !.always = meant]
        BY <1>1, <3>3
      <4>2. CASE key = "throws"
        BY <2>1, <4>1, <4>2 DEF Turned
      <4>3. CASE key # "throws"
        <5> HIDE DEF key
        <5>1. read = [d EXCEPT !.eventKey = key] /\ meant = Meant(triggerRows, read)
          OBVIOUS
        <5> HIDE DEF read, meant
        <5> QED BY <2>2, <4>1, <4>3, <5>1
      <4> QED BY <4>2, <4>3
    <3> QED BY <3>1, <3>2, <3>3
<1>6. d.at \notin Turned
  BY <1>2 DEF Turned
<1> QED BY <1>1, <1>2, <1>5, <1>6, OneDelivery

LEMMA ListAndMatchStep ==
  ASSUME DeliveriesInv, NEW i \in DOMAIN deliveries, ListAndMatch(i)
  PROVE  DeliveriesInv'
<1> DEFINE d == deliveries[i]
           ids == IF d.at = "automations" THEN Triggers ELSE Flows
<1>1. PICK todo, e :
        /\ todo = MatchAll(ids, d).todo /\ deliveries' = [deliveries EXCEPT ![i] = e]
        /\ \/ e = StepTo(d, "failed", {}, d.started)
           \/ e = StepTo(d, IF d.at = "automations" THEN "dispatching" ELSE "dispatching workflows",
                         todo, d.started)
  BY DEF ListAndMatch
<1>2. d.at \in {"automations", "workflows"} /\ triggerRows' = triggerRows
  BY DEF ListAndMatch
<1>3. DeliveryOK(d, triggerRows)
  BY DEF DeliveriesInv
<1>4. PICK m : m = Meant(triggerRows, d)
  OBVIOUS
<1>5. ids \in SUBSET Starters /\ m \subseteq Starters /\ Starters = Triggers \cup Flows
  BY <1>4, MeantFacts DEF Starters
<1>6. todo = m \cap ids
  BY <1>1, <1>4, <1>5, MatchFacts
<1>7. DOMAIN d = DeliveryFields /\ d.told \in BOOLEAN /\ d.told # TRUE
  BY <1>2, <1>3 DEF DeliveryOK, Turned
<1>8. /\ d.started \subseteq d.ever /\ d.always \subseteq m /\ m \subseteq d.ever /\ d.started \subseteq Triggers
      /\ d.at = "automations" => d.started = {}
      /\ d.at = "workflows" => d.always \cap Triggers \subseteq d.started
  BY <1>2, <1>3, <1>4 DEF DeliveryOK, Serving
<1>9. e.event = d.event /\ e.unheard = d.unheard /\ DeliveryOK(e, triggerRows)
  <2>1. CASE e = StepTo(d, "failed", {}, d.started)
    <3>1. /\ DOMAIN e = DeliveryFields /\ e.at = "failed" /\ e.started = d.started
          /\ e.event = d.event /\ e.ever = d.ever /\ e.told = d.told /\ e.unheard = d.unheard
      BY <1>7, <2>1, StepToFacts
    <3> QED BY <1>7, <1>8, <3>1 DEF DeliveryOK, Serving, Turned
  <2>2. CASE e = StepTo(d, IF d.at = "automations" THEN "dispatching" ELSE "dispatching workflows",
                        todo, d.started)
    <3>1. /\ DOMAIN e = DeliveryFields
          /\ e.at = IF d.at = "automations" THEN "dispatching" ELSE "dispatching workflows"
          /\ e.todo = todo /\ e.started = d.started
          /\ e.event = d.event /\ e.source = d.source /\ e.eventKey = d.eventKey
          /\ e.ever = d.ever /\ e.always = d.always /\ e.told = d.told /\ e.unheard = d.unheard
      <4>1. PICK spot : spot = IF d.at = "automations" THEN "dispatching" ELSE "dispatching workflows"
        OBVIOUS
      <4>2. e = StepTo(d, spot, todo, d.started)
        BY <2>2, <4>1
      <4>3. /\ DOMAIN e = DeliveryFields /\ e.at = spot /\ e.todo = todo /\ e.started = d.started
            /\ e.event = d.event /\ e.source = d.source /\ e.eventKey = d.eventKey
            /\ e.ever = d.ever /\ e.always = d.always /\ e.told = d.told /\ e.unheard = d.unheard
        BY <1>7, <4>2, StepToFacts
      <4> QED BY <4>1, <4>3
    <3>2. Meant(triggerRows, e) = m
      <4>1. e.source = d.source /\ e.eventKey = d.eventKey /\ e.event = d.event
        BY <3>1
      <4>2. Meant(triggerRows, e) = Meant(triggerRows, d)
        BY <4>1, MeantSame, Zenon
      <4> QED BY <1>4, <4>2
    <3>3. CASE d.at = "automations"
      BY <1>5, <1>6, <1>7, <1>8, <3>1, <3>2, <3>3 DEF DeliveryOK, Serving, Turned
    <3>4. CASE d.at = "workflows"
      BY <1>5, <1>6, <1>7, <1>8, <3>1, <3>2, <3>4 DEF DeliveryOK, Serving, Turned
    <3> QED BY <1>2, <3>3, <3>4
  <2> QED BY <1>1, <2>1, <2>2
<1>10. d.at \notin Turned
  BY <1>2 DEF Turned
<1> QED BY <1>1, <1>2, <1>9, <1>10, OneDelivery

LEMMA DispatchStep ==
  ASSUME DeliveriesInv, NEW i \in DOMAIN deliveries, Dispatch(i)
  PROVE  DeliveriesInv'
<1> DEFINE d == deliveries[i]
<1>1. d.at \in {"dispatching", "dispatching workflows"} /\ triggerRows' = triggerRows
  BY DEF Dispatch
<1>2. DeliveryOK(d, triggerRows)
  BY DEF DeliveriesInv
<1>3. DOMAIN d = DeliveryFields /\ d.told \in BOOLEAN /\ d.told # TRUE
  BY <1>1, <1>2 DEF DeliveryOK, Turned
<1>4. PICK m : m = Meant(triggerRows, d)
  OBVIOUS
<1>5. /\ d.started \subseteq d.ever /\ d.always \subseteq m /\ m \subseteq d.ever /\ d.todo \subseteq d.ever
      /\ d.at = "dispatching" => /\ d.started \cup d.todo \subseteq Triggers
                                 /\ d.always \cap Triggers \subseteq d.started \cup d.todo
      /\ d.at = "dispatching workflows" => d.always \subseteq d.started \cup d.todo
  BY <1>1, <1>2, <1>4 DEF DeliveryOK, Serving
<1>6. d.at \notin Turned
  BY <1>1 DEF Turned
<1>7. ASSUME NEW s \in d.todo, NEW e, e = StepTo(d, d.at, d.todo \ {s}, d.started \cup {s}),
             deliveries' = [deliveries EXCEPT ![i] = e]
      PROVE  DeliveriesInv'
  <2>1. /\ DOMAIN e = DeliveryFields
        /\ e.at = d.at /\ e.todo = d.todo \ {s} /\ e.started = d.started \cup {s}
        /\ e.event = d.event /\ e.source = d.source /\ e.eventKey = d.eventKey
        /\ e.ever = d.ever /\ e.always = d.always /\ e.told = d.told /\ e.unheard = d.unheard
    BY <1>3, <1>7, StepToFacts
  <2>2. Meant(triggerRows, e) = m
    <3>1. Meant(triggerRows, e) = Meant(triggerRows, d)
      BY <2>1, MeantSame
    <3> QED BY <1>4, <3>1
  <2>3. DeliveryOK(e, triggerRows)
    <3>1. CASE d.at = "dispatching"
      BY <1>3, <1>5, <1>7, <2>1, <2>2, <3>1 DEF DeliveryOK, Serving, Turned
    <3>2. CASE d.at = "dispatching workflows"
      BY <1>3, <1>5, <1>7, <2>1, <2>2, <3>2 DEF DeliveryOK, Serving, Turned
    <3> QED BY <1>1, <3>1, <3>2
  <2> QED BY <1>1, <1>6, <1>7, <2>1, <2>3, OneDelivery
<1>8. ASSUME d.todo = {}, NEW spot, spot = (IF d.at = "dispatching" THEN "workflows" ELSE "ok"),
             NEW e, e = [d EXCEPT !.at = spot], deliveries' = [deliveries EXCEPT ![i] = e]
      PROVE  DeliveriesInv'
  <2>1. /\ DOMAIN e = DeliveryFields
        /\ e.at = spot /\ e.todo = d.todo /\ e.started = d.started
        /\ e.event = d.event /\ e.source = d.source /\ e.eventKey = d.eventKey
        /\ e.ever = d.ever /\ e.always = d.always /\ e.told = d.told /\ e.unheard = d.unheard
    BY <1>3, <1>8 DEF DeliveryFields
  <2>2. Meant(triggerRows, e) = m
    <3>1. Meant(triggerRows, e) = Meant(triggerRows, d)
      BY <2>1, MeantSame
    <3> QED BY <1>4, <3>1
  <2>3. DeliveryOK(e, triggerRows)
    <3>1. CASE d.at = "dispatching"
      <4>1. spot = "workflows"
        BY <1>8, <3>1
      <4>2. e.at = "workflows" /\ e.told \in BOOLEAN /\ e.told # TRUE
        BY <1>3, <2>1, <4>1
      <4>3. /\ e.started \subseteq Triggers /\ e.always \cap Triggers \subseteq e.started
            /\ e.started \subseteq e.ever /\ e.always \subseteq m /\ m \subseteq e.ever
            /\ e.todo \subseteq e.ever /\ DOMAIN e = DeliveryFields
        BY <1>5, <1>8, <2>1, <3>1
      <4> QED BY <2>2, <4>2, <4>3 DEF DeliveryOK, Serving, Turned
    <3>2. CASE d.at = "dispatching workflows"
      <4>1. e.at = "ok" /\ e.at \notin Serving \cup Turned
        <5>1. spot = "ok"
          <6>1. d.at # "dispatching"
            BY <3>2
          <6> QED BY <1>8, <6>1, Zenon
        <5> QED BY <2>1, <5>1 DEF Serving, Turned
      <4>2. e.always \subseteq e.started /\ e.started \subseteq e.ever
        BY <1>5, <1>8, <2>1, <3>2
      <4> QED BY <1>3, <2>1, <4>1, <4>2 DEF DeliveryOK, Serving
    <3> QED BY <1>1, <3>1, <3>2
  <2> QED BY <1>1, <1>6, <1>8, <2>1, <2>3, OneDelivery
<1>9. \/ \E s \in d.todo :
           deliveries' = [deliveries EXCEPT ![i] = StepTo(d, d.at, d.todo \ {s}, d.started \cup {s})]
      \/ d.todo = {} /\ deliveries' = [deliveries EXCEPT ![i] =
                          [d EXCEPT !.at = IF d.at = "dispatching" THEN "workflows" ELSE "ok"]]
  BY DEF Dispatch
<1> QED BY <1>7, <1>8, <1>9

(* A read of the database that fails ends the request before its workflows. *)
LEMMA ReadFailsStep ==
  ASSUME DeliveriesInv, NEW i \in DOMAIN deliveries, ReadFails(i)
  PROVE  DeliveriesInv'
<1> DEFINE d == deliveries[i]
<1>1. PICK e : deliveries' = [deliveries EXCEPT ![i] = e] /\ e = StepTo(d, "failed", {}, d.started)
  BY DEF ReadFails
<1>2. d.at \in {"config", "automations", "workflows"} /\ triggerRows' = triggerRows
  BY DEF ReadFails
<1>3. DeliveryOK(d, triggerRows)
  BY DEF DeliveriesInv
<1>4. DOMAIN d = DeliveryFields /\ d.told \in BOOLEAN /\ d.started \subseteq d.ever
  BY <1>3 DEF DeliveryOK
<1>5. d.started \subseteq Triggers
  BY <1>2, <1>3 DEF DeliveryOK
<1>6. /\ DOMAIN e = DeliveryFields /\ e.at = "failed" /\ e.started = d.started
      /\ e.event = d.event /\ e.ever = d.ever /\ e.told = d.told /\ e.unheard = d.unheard
  BY <1>1, <1>4, StepToFacts
<1>7. DeliveryOK(e, triggerRows)
  BY <1>4, <1>5, <1>6 DEF DeliveryOK, Serving, Turned
<1>8. d.at \notin Turned
  BY <1>2 DEF Turned
<1> QED BY <1>1, <1>2, <1>6, <1>7, <1>8, OneDelivery

(* The sender hears the answer. *)
LEMMA SenderHearsStep ==
  ASSUME DeliveriesInv, NEW i \in DOMAIN deliveries, SenderHears(i), triggerRows' = triggerRows
  PROVE  DeliveriesInv'
<1> DEFINE d == deliveries[i]
<1>1. PICK e : deliveries' = [deliveries EXCEPT ![i] = e] /\ e = [d EXCEPT !.told = TRUE]
  BY DEF SenderHears
<1>2. d.at \in {"ok"} \cup Turned
  BY DEF SenderHears, Answered, Turned
<1>3. DeliveryOK(d, triggerRows)
  BY DEF DeliveriesInv
<1>4. DOMAIN d = DeliveryFields
  BY <1>3 DEF DeliveryOK
<1>5. /\ DOMAIN e = DeliveryFields /\ e.at = d.at /\ e.started = d.started
      /\ e.event = d.event /\ e.ever = d.ever /\ e.told = TRUE /\ e.unheard = d.unheard
      /\ e.always = d.always
  BY <1>1, <1>4 DEF DeliveryFields
<1>6. DeliveryOK(e, triggerRows)
  BY <1>2, <1>3, <1>5 DEF DeliveryOK, Serving, Turned
<1> QED BY <1>1, <1>5, <1>6, OneDelivery

-----------------------------------------------------------------------------
(* The screen: what changes is pending, and what it has to show is on its way. *)
LEMMA ScreenChange ==
  ASSUME ScreenInv,
         UNCHANGED <<shownRows, shownHooks, screenLoads, loadCount, screenFailed, secretsShown, overtakenLoad,
                     lostSecrets, unaware>>,
         hookCount' \in Nat,
         \A h \in hookRows' : DOMAIN h = {"id", "source", "expr", "enabled"} /\ h.id # 0,
         \A g, h \in hookRows' : g.source = h.source => g = h,
         \A r \in screenRequests' : /\ DOMAIN r = {"n", "kind", "of", "form", "at", "secret"}
                                    /\ r.secret # 0 => r.at = "done",
         \A h \in hookRows' : h.id \in secretsShown \cup lostSecrets \cup {r.secret : r \in screenRequests'},
         NewsPending => NewsPending',
         NewsPending' \/ UNCHANGED <<triggerRows, hookRows>>
  PROVE  ScreenInv'
<1>1. /\ hookCount' \in Nat /\ loadCount' \in Nat /\ unaware' \in Nat
      /\ \A l \in screenLoads' : DOMAIN l = {"n", "rows", "hooks"} /\ l.n \in 1 .. loadCount'
  BY DEF ScreenInv
<1>2. \A l \in screenLoads' : l.n = loadCount' =>
       \/ NewsPending' \/ unaware' > loadCount'
       \/ l.rows \in {Dropped, triggerRows'} /\ l.hooks \in {Dropped, hookRows'}
  BY DEF ScreenInv
<1>3. \/ NewsPending' \/ unaware' # 0 \/ screenFailed' = TRUE \/ overtakenLoad' = TRUE
      \/ \E l \in screenLoads' : l.n = loadCount'
      \/ shownRows' = triggerRows' /\ shownHooks' = hookRows'
  BY DEF ScreenInv
<1> QED BY <1>1, <1>2, <1>3 DEF ScreenInv

(* A request is answered: its secret, if any, is in the answer. *)
LEMMA RespondFacts ==
  ASSUME ScreenInv, watched = "screen", NEW r \in screenRequests, r.at # "done",
         NEW verdict, NEW secret, secret # 0 => verdict = "done", Respond(r, verdict, secret)
  PROVE  /\ \A q \in screenRequests' : /\ DOMAIN q = {"n", "kind", "of", "form", "at", "secret"}
                                       /\ q.secret # 0 => q.at = "done"
         /\ verdict = "done" => NewsPending'
         /\ NewsPending => NewsPending'
         /\ {q.secret : q \in screenRequests} \subseteq {q.secret : q \in screenRequests'} \cup {0}
         /\ secret \in {q.secret : q \in screenRequests'}
<1>1. DOMAIN r = {"n", "kind", "of", "form", "at", "secret"} /\ r.secret = 0
  BY DEF ScreenInv
<1>2. PICK a : a = [r EXCEPT !.at = verdict, !.secret = secret]
  OBVIOUS
<1>3. DOMAIN a = {"n", "kind", "of", "form", "at", "secret"} /\ a.at = verdict /\ a.secret = secret
  BY <1>1, <1>2
<1>4. screenRequests' = (screenRequests \ {r}) \cup {a}
  BY <1>2 DEF Respond
<1>5. \A q \in screenRequests : q = r \/ q \in screenRequests'
  BY <1>4
<1> QED BY <1>1, <1>3, <1>4, <1>5 DEF ScreenInv, NewsPending

(* What a click asks for is sent, and has no secret yet. *)
LEMMA AskFacts ==
  ASSUME ScreenInv, NEW kind, NEW of, NEW form, Ask(kind, of, form)
  PROVE  /\ \A q \in screenRequests' : /\ DOMAIN q = {"n", "kind", "of", "form", "at", "secret"}
                                       /\ q.secret # 0 => q.at = "done"
         /\ screenRequests \subseteq screenRequests'
  BY DEF Ask, ScreenInv

LEMMA ClickStep ==
  ASSUME ScreenInv,
         UNCHANGED <<triggerRows, hookRows, hookCount, shownRows, shownHooks, screenLoads, loadCount, screenFailed,
                     secretsShown, overtakenLoad, lostSecrets, unaware>>,
         screenRequests' = screenRequests \/ \E kind, of, form : Ask(kind, of, form)
  PROVE  ScreenInv'
<1>1. /\ \A q \in screenRequests' : /\ DOMAIN q = {"n", "kind", "of", "form", "at", "secret"}
                                    /\ q.secret # 0 => q.at = "done"
      /\ screenRequests \subseteq screenRequests'
  <2>1. CASE screenRequests' = screenRequests
    BY <2>1 DEF ScreenInv
  <2>2. CASE \E kind, of, form : Ask(kind, of, form)
    BY <2>2, AskFacts
  <2> QED BY <2>1, <2>2
<1>2. NewsPending => NewsPending'
  BY <1>1 DEF NewsPending
<1>3. \A h \in hookRows' : h.id \in secretsShown \cup lostSecrets \cup {r.secret : r \in screenRequests'}
  BY <1>1 DEF ScreenInv
<1>4. /\ hookCount' \in Nat
      /\ \A h \in hookRows' : DOMAIN h = {"id", "source", "expr", "enabled"} /\ h.id # 0
      /\ \A g, h \in hookRows' : g.source = h.source => g = h
  BY DEF ScreenInv
<1> QED BY <1>1, <1>2, <1>3, <1>4, ScreenChange

LEMMA ServeRowStep ==
  ASSUME ScreenInv, watched = "screen", NEW r, ServeRow(r)
  PROVE  ScreenInv'
<1>1. /\ r \in screenRequests /\ r.at = "sent"
      /\ UNCHANGED <<hookRows, hookCount, shownRows, shownHooks, screenLoads, loadCount, screenFailed, secretsShown,
                     overtakenLoad, lostSecrets, unaware>>
  BY DEF ServeRow, hookVars, viewVars, faultVars
<1>2. \/ Respond(r, "refused", 0) /\ UNCHANGED triggerRows
      \/ Respond(r, "done", 0)
  BY DEF ServeRow
<1>3. /\ \A q \in screenRequests' : /\ DOMAIN q = {"n", "kind", "of", "form", "at", "secret"}
                                    /\ q.secret # 0 => q.at = "done"
      /\ NewsPending => NewsPending'
      /\ {q.secret : q \in screenRequests} \subseteq {q.secret : q \in screenRequests'} \cup {0}
      /\ NewsPending' \/ UNCHANGED <<triggerRows, hookRows>>
  <2>1. CASE Respond(r, "refused", 0) /\ UNCHANGED triggerRows
    BY <1>1, <2>1, RespondFacts
  <2>2. CASE Respond(r, "done", 0)
    BY <1>1, <2>2, RespondFacts
  <2> QED BY <1>2, <2>1, <2>2
<1>4. /\ hookCount' \in Nat
      /\ \A h \in hookRows' : DOMAIN h = {"id", "source", "expr", "enabled"} /\ h.id # 0
      /\ \A g, h \in hookRows' : g.source = h.source => g = h
  BY <1>1 DEF ScreenInv
<1>5. \A h \in hookRows' : h.id \in secretsShown \cup lostSecrets \cup {q.secret : q \in screenRequests'}
  <2> SUFFICES ASSUME NEW h \in hookRows
               PROVE  h.id \in secretsShown \cup lostSecrets \cup {q.secret : q \in screenRequests'}
    BY <1>1
  <2>1. h.id \in secretsShown \cup lostSecrets \cup {q.secret : q \in screenRequests} /\ h.id # 0
    BY DEF ScreenInv
  <2> QED BY <1>3, <2>1
<1> QED BY <1>1, <1>3, <1>4, <1>5, ScreenChange

(* A route that looked, or was refused, changed no row. *)
LEMMA QuietStep ==
  ASSUME ScreenInv, watched = "screen", NEW r, LookForGithub(r) \/ RouteFails(r)
  PROVE  ScreenInv'
<1>1. /\ r \in screenRequests /\ r.at # "done"
      /\ UNCHANGED <<triggerRows, hookRows, hookCount, shownRows, shownHooks, screenLoads, loadCount, screenFailed,
                     secretsShown, overtakenLoad, lostSecrets, unaware>>
  BY DEF LookForGithub, RouteFails, hookVars, viewVars, faultVars
<1>2. PICK verdict : Respond(r, verdict, 0)
  BY DEF LookForGithub, RouteFails
<1>3. /\ \A q \in screenRequests' : /\ DOMAIN q = {"n", "kind", "of", "form", "at", "secret"}
                                    /\ q.secret # 0 => q.at = "done"
      /\ NewsPending => NewsPending'
      /\ {q.secret : q \in screenRequests} \subseteq {q.secret : q \in screenRequests'} \cup {0}
  BY <1>1, <1>2, RespondFacts
<1>4. /\ hookCount' \in Nat
      /\ \A h \in hookRows' : DOMAIN h = {"id", "source", "expr", "enabled"} /\ h.id # 0
      /\ \A g, h \in hookRows' : g.source = h.source => g = h
  BY <1>1 DEF ScreenInv
<1>5. \A h \in hookRows' : h.id \in secretsShown \cup lostSecrets \cup {q.secret : q \in screenRequests'}
  <2> SUFFICES ASSUME NEW h \in hookRows
               PROVE  h.id \in secretsShown \cup lostSecrets \cup {q.secret : q \in screenRequests'}
    BY <1>1
  <2>1. h.id \in secretsShown \cup lostSecrets \cup {q.secret : q \in screenRequests} /\ h.id # 0
    BY DEF ScreenInv
  <2> QED BY <1>3, <2>1
<1> QED BY <1>1, <1>3, <1>4, <1>5, ScreenChange

(* A row of webhooks inserted, changed or deleted. *)
LEMMA ServeHookStep ==
  ASSUME ScreenInv, watched = "screen", NEW r, ServeHook(r)
  PROVE  ScreenInv'
<1>1. /\ r \in screenRequests /\ r.at # "done"
      /\ UNCHANGED <<triggerRows, shownRows, shownHooks, screenLoads, loadCount, screenFailed,
                     secretsShown, overtakenLoad, lostSecrets, unaware>>
  BY DEF ServeHook, viewVars, faultVars
<1>2. /\ hookCount \in Nat
      /\ \A h \in hookRows : DOMAIN h = {"id", "source", "expr", "enabled"} /\ h.id # 0
      /\ \A g, h \in hookRows : g.source = h.source => g = h
      /\ \A h \in hookRows : h.id \in secretsShown \cup lostSecrets \cup {q.secret : q \in screenRequests}
  BY DEF ScreenInv
<1> DEFINE Covered(rows) ==
             \A h \in rows : h.id \in secretsShown \cup lostSecrets \cup {q.secret : q \in screenRequests'}
<1>3. ASSUME NEW verdict, NEW secret, secret # 0 => verdict = "done", Respond(r, verdict, secret),
             hookCount' \in Nat,
             \A h \in hookRows' : DOMAIN h = {"id", "source", "expr", "enabled"} /\ h.id # 0,
             \A g, h \in hookRows' : g.source = h.source => g = h,
             \A h \in hookRows' : h.id = secret \/ \E g \in hookRows : g.id = h.id,
             verdict = "done" \/ hookRows' = hookRows
      PROVE  ScreenInv'
  <2>1. /\ \A q \in screenRequests' : /\ DOMAIN q = {"n", "kind", "of", "form", "at", "secret"}
                                      /\ q.secret # 0 => q.at = "done"
        /\ verdict = "done" => NewsPending'
        /\ NewsPending => NewsPending'
        /\ {q.secret : q \in screenRequests} \subseteq {q.secret : q \in screenRequests'} \cup {0}
        /\ secret \in {q.secret : q \in screenRequests'}
    BY <1>1, <1>3, RespondFacts
  <2>2. Covered(hookRows')
    <3> SUFFICES ASSUME NEW h \in hookRows'
                 PROVE  h.id \in secretsShown \cup lostSecrets \cup {q.secret : q \in screenRequests'}
      OBVIOUS
    <3>1. CASE h.id = secret
      BY <2>1, <3>1
    <3>2. CASE \E g \in hookRows : g.id = h.id
      <4>1. h.id \in secretsShown \cup lostSecrets \cup {q.secret : q \in screenRequests} /\ h.id # 0
        BY <1>2, <3>2
      <4> QED BY <2>1, <4>1
    <3> QED BY <1>3, <3>1, <3>2
  <2>3. NewsPending' \/ UNCHANGED <<triggerRows, hookRows>>
    BY <1>1, <1>3, <2>1
  <2> QED BY <1>1, <1>3, <2>1, <2>2, <2>3, ScreenChange
<1>4. ASSUME InsertWebhook(r)
      PROVE  ScreenInv'
  <2>1. CASE \E h \in hookRows : h.source = r.of
    <3>1. Respond(r, "refused", 0) /\ hookRows' = hookRows /\ hookCount' = hookCount
      BY <1>4, <2>1 DEF InsertWebhook, hookVars
    <3>2. /\ hookCount' \in Nat
          /\ \A h \in hookRows' : DOMAIN h = {"id", "source", "expr", "enabled"} /\ h.id # 0
          /\ \A g, h \in hookRows' : g.source = h.source => g = h
          /\ \A h \in hookRows' : h.id = 0 \/ \E g \in hookRows : g.id = h.id
      BY <1>2, <3>1
    <3> QED BY <1>3, <3>1, <3>2
  <2>2. CASE ~ \E h \in hookRows : h.source = r.of
    <3>1. PICK new : new = [id |-> hookCount + 1, source |-> r.of, expr |-> r.form, enabled |-> TRUE]
      OBVIOUS
    <3>2. DOMAIN new = {"id", "source", "expr", "enabled"} /\ new.id = hookCount + 1 /\ new.source = r.of
      BY <3>1
    <3>3. /\ Respond(r, "done", hookCount + 1)
          /\ hookRows' = hookRows \cup {new} /\ hookCount' = hookCount + 1
      BY <1>4, <2>2, <3>1 DEF InsertWebhook
    <3>4. hookCount' \in Nat /\ hookCount + 1 # 0
      BY <1>2, <3>3
    <3>5. /\ \A h \in hookRows' : DOMAIN h = {"id", "source", "expr", "enabled"} /\ h.id # 0
          /\ \A g, h \in hookRows' : g.source = h.source => g = h
          /\ \A h \in hookRows' : h.id = hookCount + 1 \/ \E g \in hookRows : g.id = h.id
      BY <1>2, <2>2, <3>2, <3>3, <3>4
    <3> QED BY <1>3, <3>3, <3>4, <3>5
  <2> QED BY <2>1, <2>2
<1>5. ASSUME NEW old, old = {h \in hookRows : h.id = r.of},
             IF old = {} THEN Respond(r, "refused", 0) /\ UNCHANGED hookVars
             ELSE /\ hookRows' = (hookRows \ old) \cup
                       {Edited(h, r) : h \in {h \in old : r.kind # "delete hook"}}
                  /\ Respond(r, "done", 0) /\ UNCHANGED hookCount
      PROVE  ScreenInv'
  <2>1. CASE old = {}
    <3>1. Respond(r, "refused", 0) /\ hookRows' = hookRows /\ hookCount' = hookCount
      BY <1>5, <2>1 DEF hookVars
    <3>2. /\ hookCount' \in Nat
          /\ \A h \in hookRows' : DOMAIN h = {"id", "source", "expr", "enabled"} /\ h.id # 0
          /\ \A g, h \in hookRows' : g.source = h.source => g = h
          /\ \A h \in hookRows' : h.id = 0 \/ \E g \in hookRows : g.id = h.id
      BY <1>2, <3>1
    <3> QED BY <1>3, <3>1, <3>2
  <2>2. CASE old # {}
    <3>1. /\ Respond(r, "done", 0) /\ hookCount' = hookCount
          /\ hookRows' = (hookRows \ old) \cup
                {Edited(h, r) : h \in {h \in old : r.kind # "delete hook"}}
      BY <1>5, <2>2
    <3>2. \A h \in hookRows' : h \in hookRows \ old \/ \E o \in old : h = Edited(o, r)
      BY <3>1
    <3>3. ASSUME NEW h \in hookRows'
          PROVE  \E o \in hookRows :
                   /\ DOMAIN h = {"id", "source", "expr", "enabled"} /\ h.id = o.id /\ h.source = o.source
                   /\ \/ h = o /\ o \notin old
                      \/ h = Edited(o, r) /\ o \in old
      <4>1. CASE h \in hookRows \ old
        BY <1>2, <4>1
      <4>2. ASSUME NEW o \in old, h = Edited(o, r)
            PROVE  DOMAIN h = {"id", "source", "expr", "enabled"} /\ h.id = o.id /\ h.source = o.source
                   /\ o \in hookRows
        <5>1. o \in hookRows /\ DOMAIN o = {"id", "source", "expr", "enabled"}
          BY <1>2, <1>5
        <5> QED BY <4>2, <5>1 DEF Edited
      <4> QED BY <3>2, <4>1, <4>2
    <3>4. \A g, h \in hookRows' : g.source = h.source => g = h
      <4> SUFFICES ASSUME NEW g \in hookRows', NEW h \in hookRows', g.source = h.source PROVE g = h
        OBVIOUS
      <4>1. PICK o \in hookRows : /\ g.source = o.source
                                  /\ \/ g = o /\ o \notin old
                                     \/ g = Edited(o, r) /\ o \in old
        BY <3>3
      <4>2. PICK p \in hookRows : /\ h.source = p.source
                                  /\ \/ h = p /\ p \notin old
                                     \/ h = Edited(p, r) /\ p \in old
        BY <3>3
      <4>3. o = p
        BY <1>2, <4>1, <4>2
      <4> QED BY <4>1, <4>2, <4>3
    <3>5. /\ hookCount' \in Nat
          /\ \A h \in hookRows' : DOMAIN h = {"id", "source", "expr", "enabled"} /\ h.id # 0
          /\ \A h \in hookRows' : h.id = 0 \/ \E g \in hookRows : g.id = h.id
      <4>1. ASSUME NEW h \in hookRows'
            PROVE  /\ DOMAIN h = {"id", "source", "expr", "enabled"} /\ h.id # 0
                   /\ \E g \in hookRows : g.id = h.id
        <5>1. PICK o \in hookRows : DOMAIN h = {"id", "source", "expr", "enabled"} /\ h.id = o.id
          BY <3>3
        <5> QED BY <1>2, <5>1
      <4>2. hookCount' \in Nat
        BY <1>2, <3>1
      <4> QED BY <4>1, <4>2
    <3> QED BY <1>3, <3>1, <3>4, <3>5
  <2> QED BY <2>1, <2>2
<1> QED BY <1>4, <1>5 DEF ServeHook

-----------------------------------------------------------------------------
(* A load is begun: it is the newest, and has read nothing. *)
LEMMA LoadBegins ==
  ASSUME ScreenInv, LoadLists, UNCHANGED <<unaware, hookRows, hookCount, triggerRows, shownRows, shownHooks, overtakenLoad>>,
         screenRequests' \subseteq screenRequests,
         \A h \in hookRows : h.id \in secretsShown' \cup lostSecrets' \cup {r.secret : r \in screenRequests'}
  PROVE  ScreenInv'
<1>1. PICK l : l = NewLoad
  OBVIOUS
<1>2. DOMAIN l = {"n", "rows", "hooks"} /\ l.n = loadCount + 1 /\ l.rows = Dropped /\ l.hooks = Dropped
  BY <1>1 DEF NewLoad
<1>3. loadCount' = loadCount + 1 /\ screenLoads' = screenLoads \cup {l}
  BY <1>1 DEF LoadLists
<1>4. /\ hookCount \in Nat /\ loadCount \in Nat /\ unaware \in Nat
      /\ \A k \in screenLoads : DOMAIN k = {"n", "rows", "hooks"} /\ k.n \in 1 .. loadCount
  BY DEF ScreenInv
<1>5. \A k \in screenLoads' : DOMAIN k = {"n", "rows", "hooks"} /\ k.n \in 1 .. loadCount'
                              /\ (k.n = loadCount' => k = l)
  BY <1>2, <1>3, <1>4
<1>6. \E k \in screenLoads' : k.n = loadCount'
  BY <1>2, <1>3
<1>7. /\ hookCount' \in Nat /\ loadCount' \in Nat /\ unaware' \in Nat
      /\ \A h \in hookRows' : DOMAIN h = {"id", "source", "expr", "enabled"} /\ h.id # 0
      /\ \A r \in screenRequests' : /\ DOMAIN r = {"n", "kind", "of", "form", "at", "secret"}
                                    /\ r.secret # 0 => r.at = "done"
      /\ \A g, h \in hookRows' : g.source = h.source => g = h
      /\ \A h \in hookRows' : h.id \in secretsShown' \cup lostSecrets' \cup {r.secret : r \in screenRequests'}
  BY <1>3, <1>4 DEF ScreenInv
<1>8. \A k \in screenLoads' : k.n = loadCount' => k.rows \in {Dropped, triggerRows'} /\ k.hooks \in {Dropped, hookRows'}
  BY <1>2, <1>5
<1> QED BY <1>5, <1>6, <1>7, <1>8 DEF ScreenInv

LEMMA AnswerArrivesStep ==
  ASSUME ScreenInv, watched = "screen", NEW r, AnswerArrives(r)
  PROVE  ScreenInv'
<1>1. /\ r \in screenRequests /\ r.at \in {"done", "refused"} /\ screenRequests' = screenRequests \ {r}
      /\ UNCHANGED <<triggerRows, hookRows, hookCount, shownRows, shownHooks, overtakenLoad, lostSecrets, unaware>>
  BY DEF AnswerArrives, hookVars, faultVars
<1>2. /\ \A h \in hookRows : /\ DOMAIN h = {"id", "source", "expr", "enabled"} /\ h.id # 0
                             /\ h.id \in secretsShown \cup lostSecrets \cup {q.secret : q \in screenRequests}
      /\ \A g, h \in hookRows : g.source = h.source => g = h
      /\ \A q \in screenRequests : /\ DOMAIN q = {"n", "kind", "of", "form", "at", "secret"}
                                   /\ q.secret # 0 => q.at = "done"
      /\ hookCount \in Nat
  BY DEF ScreenInv
<1>3. {q.secret : q \in screenRequests} \subseteq {q.secret : q \in screenRequests'} \cup {r.secret}
  BY <1>1
<1>4. CASE r.at = "done"
  <2>1. LoadLists /\ secretsShown' = secretsShown \cup ({r.secret} \ {0})
    BY <1>4 DEF AnswerArrives
  <2>2. \A h \in hookRows : h.id \in secretsShown' \cup lostSecrets' \cup {q.secret : q \in screenRequests'}
    BY <1>1, <1>2, <1>3, <2>1
  <2> QED BY <1>1, <2>1, <2>2, LoadBegins
<1>5. CASE r.at = "refused"
  <2>1. UNCHANGED <<loadCount, screenLoads, screenFailed, secretsShown>>
    BY <1>5 DEF AnswerArrives
  <2>2. \A h \in hookRows' : h.id \in secretsShown \cup lostSecrets \cup {q.secret : q \in screenRequests'}
    BY <1>1, <1>2, <1>3, <1>5
  <2>3. NewsPending => NewsPending'
    BY <1>1, <1>5 DEF NewsPending
  <2>4. /\ hookCount' \in Nat
        /\ \A h \in hookRows' : DOMAIN h = {"id", "source", "expr", "enabled"} /\ h.id # 0
        /\ \A g, h \in hookRows' : g.source = h.source => g = h
        /\ \A q \in screenRequests' : /\ DOMAIN q = {"n", "kind", "of", "form", "at", "secret"}
                                      /\ q.secret # 0 => q.at = "done"
    BY <1>1, <1>2
  <2> QED BY <1>1, <2>1, <2>2, <2>3, <2>4, ScreenChange
<1> QED BY <1>1, <1>4, <1>5

LEMMA AnswerLostStep ==
  ASSUME ScreenInv, watched = "screen", NEW r, AnswerLost(r)
  PROVE  ScreenInv'
<1>1. /\ r \in screenRequests /\ r.at \in {"done", "refused"} /\ screenRequests' = screenRequests \ {r}
      /\ unaware' = IF r.at = "done" THEN loadCount + 1 ELSE unaware
      /\ lostSecrets' = lostSecrets \cup ({r.secret} \ {0})
      /\ UNCHANGED <<triggerRows, hookRows, hookCount, shownRows, shownHooks, screenLoads, loadCount, screenFailed,
                     secretsShown, overtakenLoad>>
  BY DEF AnswerLost, hookVars
<1>2. /\ \A h \in hookRows : /\ DOMAIN h = {"id", "source", "expr", "enabled"} /\ h.id # 0
                             /\ h.id \in secretsShown \cup lostSecrets \cup {q.secret : q \in screenRequests}
      /\ \A g, h \in hookRows : g.source = h.source => g = h
      /\ \A q \in screenRequests : /\ DOMAIN q = {"n", "kind", "of", "form", "at", "secret"}
                                   /\ q.secret # 0 => q.at = "done"
      /\ \A l \in screenLoads : DOMAIN l = {"n", "rows", "hooks"} /\ l.n \in 1 .. loadCount
      /\ hookCount \in Nat /\ loadCount \in Nat /\ unaware \in Nat
  BY DEF ScreenInv
<1>3. {q.secret : q \in screenRequests} \subseteq {q.secret : q \in screenRequests'} \cup {r.secret}
  BY <1>1
<1>4. /\ \A h \in hookRows' : /\ DOMAIN h = {"id", "source", "expr", "enabled"} /\ h.id # 0
                              /\ h.id \in secretsShown' \cup lostSecrets' \cup {q.secret : q \in screenRequests'}
      /\ \A g, h \in hookRows' : g.source = h.source => g = h
      /\ \A q \in screenRequests' : /\ DOMAIN q = {"n", "kind", "of", "form", "at", "secret"}
                                    /\ q.secret # 0 => q.at = "done"
      /\ \A l \in screenLoads' : DOMAIN l = {"n", "rows", "hooks"} /\ l.n \in 1 .. loadCount'
      /\ hookCount' \in Nat /\ loadCount' \in Nat /\ unaware' \in Nat
  BY <1>1, <1>2, <1>3
<1>5. CASE r.at = "done"
  <2>1. unaware' > loadCount' /\ unaware' # 0
    BY <1>1, <1>2, <1>5
  <2> QED BY <1>4, <2>1 DEF ScreenInv
<1>6. CASE r.at = "refused"
  <2>1. NewsPending => NewsPending'
    BY <1>1, <1>6 DEF NewsPending
  <2>2. unaware' = unaware
    BY <1>1, <1>6
  <2> QED BY <1>1, <1>4, <2>1, <2>2 DEF ScreenInv
<1> QED BY <1>1, <1>5, <1>6

(* What a step of a load leaves alone. *)
LEMMA LoadStep ==
  ASSUME ScreenInv,
         UNCHANGED <<hookRows, hookCount, triggerRows, screenRequests, loadCount, secretsShown, lostSecrets>>,
         unaware' \in Nat,
         \A l \in screenLoads' : DOMAIN l = {"n", "rows", "hooks"} /\ l.n \in 1 .. loadCount,
         \A l \in screenLoads' : l.n = loadCount =>
           \/ NewsPending \/ unaware' > loadCount
           \/ l.rows \in {Dropped, triggerRows} /\ l.hooks \in {Dropped, hookRows},
         \/ NewsPending \/ unaware' # 0 \/ screenFailed' = TRUE \/ overtakenLoad' = TRUE
         \/ \E l \in screenLoads' : l.n = loadCount
         \/ shownRows' = triggerRows /\ shownHooks' = hookRows
  PROVE  ScreenInv'
<1>1. NewsPending' <=> NewsPending
  BY DEF NewsPending
<1>2. /\ \A l \in screenLoads' : l.n = loadCount' =>
           \/ NewsPending' \/ unaware' > loadCount'
           \/ l.rows \in {Dropped, triggerRows'} /\ l.hooks \in {Dropped, hookRows'}
      /\ \/ NewsPending' \/ unaware' # 0 \/ screenFailed' = TRUE \/ overtakenLoad' = TRUE
         \/ \E l \in screenLoads' : l.n = loadCount'
         \/ shownRows' = triggerRows' /\ shownHooks' = hookRows'
      /\ \A l \in screenLoads' : DOMAIN l = {"n", "rows", "hooks"} /\ l.n \in 1 .. loadCount'
  BY <1>1
<1>3. /\ hookCount' \in Nat /\ loadCount' \in Nat
      /\ \A h \in hookRows' : DOMAIN h = {"id", "source", "expr", "enabled"} /\ h.id # 0
      /\ \A r \in screenRequests' : /\ DOMAIN r = {"n", "kind", "of", "form", "at", "secret"}
                                    /\ r.secret # 0 => r.at = "done"
      /\ \A h \in hookRows' : h.id \in secretsShown' \cup lostSecrets' \cup {r.secret : r \in screenRequests'}
      /\ \A g, h \in hookRows' : g.source = h.source => g = h
  BY DEF ScreenInv
<1> QED BY <1>2, <1>3 DEF ScreenInv

LEMMA ServeLoadStep ==
  ASSUME ScreenInv, NEW l, ServeLoad(l)
  PROVE  ScreenInv'
<1>1. /\ l \in screenLoads
      /\ UNCHANGED <<hookRows, hookCount, triggerRows, screenRequests, loadCount, secretsShown, lostSecrets,
                     unaware, screenFailed, overtakenLoad, shownRows, shownHooks>>
  BY DEF ServeLoad, hookVars, faultVars
<1>2. /\ unaware \in Nat
      /\ \A k \in screenLoads : DOMAIN k = {"n", "rows", "hooks"} /\ k.n \in 1 .. loadCount
      /\ \A k \in screenLoads : k.n = loadCount =>
           \/ NewsPending \/ unaware > loadCount
           \/ k.rows \in {Dropped, triggerRows} /\ k.hooks \in {Dropped, hookRows}
      /\ \/ NewsPending \/ unaware # 0 \/ screenFailed = TRUE \/ overtakenLoad = TRUE
         \/ \E k \in screenLoads : k.n = loadCount
         \/ shownRows = triggerRows /\ shownHooks = hookRows
  BY DEF ScreenInv
<1>3. PICK k : /\ screenLoads' = (screenLoads \ {l}) \cup {k}
               /\ k = [l EXCEPT !.rows = triggerRows] \/ k = [l EXCEPT !.hooks = hookRows]
  BY DEF ServeLoad
<1>4. DOMAIN l = {"n", "rows", "hooks"}
  BY <1>1, <1>2
<1>5. /\ DOMAIN k = {"n", "rows", "hooks"} /\ k.n = l.n
      /\ k.rows \in {l.rows, triggerRows} /\ k.hooks \in {l.hooks, hookRows}
  <2>1. CASE k = [l EXCEPT !.rows = triggerRows]
    BY <1>4, <2>1
  <2>2. CASE k = [l EXCEPT !.hooks = hookRows]
    BY <1>4, <2>2
  <2> QED BY <1>3, <2>1, <2>2
<1>6. \A o \in screenLoads' : DOMAIN o = {"n", "rows", "hooks"} /\ o.n \in 1 .. loadCount
  BY <1>1, <1>2, <1>3, <1>5
<1>7. \A o \in screenLoads' : o.n = loadCount =>
        \/ NewsPending \/ unaware' > loadCount
        \/ o.rows \in {Dropped, triggerRows} /\ o.hooks \in {Dropped, hookRows}
  BY <1>1, <1>2, <1>3, <1>5
<1>8. (\E o \in screenLoads : o.n = loadCount) => \E o \in screenLoads' : o.n = loadCount
  BY <1>1, <1>3, <1>5
<1> QED BY <1>1, <1>2, <1>6, <1>7, <1>8, LoadStep

LEMMA LoadArrivesStep ==
  ASSUME ScreenInv, NEW l, LoadArrives(l)
  PROVE  ScreenInv'
<1>1. /\ l \in screenLoads /\ l.rows # Dropped /\ l.hooks # Dropped /\ screenLoads' = screenLoads \ {l}
      /\ shownRows' = l.rows /\ shownHooks' = l.hooks
      /\ overtakenLoad' = \E k \in (l.n + 1) .. loadCount : \A o \in screenLoads : o.n # k
      /\ unaware' = IF l.n >= unaware THEN 0 ELSE unaware
      /\ UNCHANGED <<hookRows, hookCount, triggerRows, screenRequests, loadCount, secretsShown, lostSecrets,
                     screenFailed>>
  BY DEF LoadArrives, hookVars
<1>2. /\ unaware \in Nat /\ loadCount \in Nat
      /\ \A k \in screenLoads : DOMAIN k = {"n", "rows", "hooks"} /\ k.n \in 1 .. loadCount
      /\ \A k \in screenLoads : k.n = loadCount =>
           \/ NewsPending \/ unaware > loadCount
           \/ k.rows \in {Dropped, triggerRows} /\ k.hooks \in {Dropped, hookRows}
  BY DEF ScreenInv
<1>3. l.n \in 1 .. loadCount
  BY <1>1, <1>2
<1>4. unaware' \in Nat /\ (unaware > loadCount => unaware' = unaware)
  BY <1>1, <1>2, <1>3
<1>5. \A k \in screenLoads' : k.n = loadCount =>
        \/ NewsPending \/ unaware' > loadCount
        \/ k.rows \in {Dropped, triggerRows} /\ k.hooks \in {Dropped, hookRows}
  BY <1>1, <1>2, <1>4
<1>6. \/ NewsPending \/ unaware' # 0 \/ overtakenLoad' = TRUE
      \/ \E k \in screenLoads' : k.n = loadCount
      \/ shownRows' = triggerRows /\ shownHooks' = hookRows
  <2>1. CASE l.n = loadCount
    BY <1>1, <1>2, <1>4, <2>1
  <2>2. CASE l.n # loadCount
    <3>1. CASE \E k \in screenLoads : k.n = loadCount
      BY <1>1, <2>2, <3>1
    <3>2. CASE \A k \in screenLoads : k.n # loadCount
      <4>1. loadCount \in (l.n + 1) .. loadCount
        BY <1>2, <1>3, <2>2
      <4>2. \E k \in (l.n + 1) .. loadCount : \A o \in screenLoads : o.n # k
        BY <3>2, <4>1
      <4> QED BY <1>1, <4>2
    <3> QED BY <3>1, <3>2
  <2> QED BY <2>1, <2>2
<1> QED BY <1>1, <1>2, <1>4, <1>5, <1>6, LoadStep

LEMMA LoadFailsStep ==
  ASSUME ScreenInv, NEW l, LoadFails(l)
  PROVE  ScreenInv'
<1>1. /\ screenLoads' = screenLoads \ {l} /\ screenFailed' = TRUE
      /\ UNCHANGED <<hookRows, hookCount, triggerRows, screenRequests, loadCount, secretsShown, lostSecrets,
                     unaware>>
  BY DEF LoadFails, hookVars
<1> QED BY <1>1, LoadStep DEF ScreenInv

-----------------------------------------------------------------------------
LEMMA EventsStep == EventsInv /\ [EventNext]_eventVars => EventsInv'
<1> SUFFICES ASSUME EventsInv, [EventNext]_eventVars PROVE EventsInv'
  OBVIOUS
<1>1. DeliveriesInv /\ (watched = "screen" => ScreenInv)
  BY DEF EventsInv
<1>s. ASSUME UNCHANGED <<deliveries, triggerRows>> PROVE DeliveriesInv'
  BY <1>1, <1>s DEF DeliveriesInv
<1>u. ASSUME UNCHANGED <<triggerRows, hookVars, screenRequests, viewVars, faultVars>>, watched = "screen"
      PROVE  ScreenInv'
  BY <1>1, <1>u DEF ScreenInv, NewsPending, hookVars, viewVars, faultVars
<1>2. CASE DeliverAny
  <2>1. PICK e \in Payloads, s \in KnownUrls, k \in 1 .. hookCount : Deliver(e, s, k)
    BY <1>2 DEF DeliverAny
  <2>2. DeliveriesInv'
    BY <1>1, <2>1, DeliverStep
  <2>3. watched # "screen" /\ watched' = watched
    BY <2>1 DEF Deliver
  <2> QED BY <2>2, <2>3 DEF EventsInv
<1>3. CASE HandleAny
  <2>1. PICK i \in DOMAIN deliveries :
          ReadConfig(i) \/ ListAndMatch(i) \/ ReadFails(i) \/ Dispatch(i) \/ SenderHears(i)
    BY <1>3 DEF HandleAny
  <2>3. UNCHANGED <<watched, triggerRows, hookVars, screenRequests, viewVars, faultVars>>
    BY <2>1 DEF ReadConfig, ListAndMatch, ReadFails, Dispatch, SenderHears
  <2>2. DeliveriesInv'
    BY <1>1, <2>1, <2>3, ReadConfigStep, ListAndMatchStep, ReadFailsStep, DispatchStep, SenderHearsStep
  <2> QED BY <1>u, <2>2, <2>3 DEF EventsInv
<1>4. CASE ServeAny
  <2>1. PICK r \in screenRequests : ServeRow(r) \/ LookForGithub(r) \/ ServeHook(r) \/ RouteFails(r)
    BY <1>4 DEF ServeAny
  <2>2. watched' = watched
    BY <2>1 DEF ServeRow, LookForGithub, ServeHook, RouteFails
  <2>3. DeliveriesInv'
    <3>1. CASE UNCHANGED <<deliveries, triggerRows>>
      BY <1>s, <3>1
    <3>2. CASE \E rows : SetRows(rows)
      BY <1>1, <3>2, RowsChange
    <3>3. UNCHANGED <<deliveries, triggerRows>> \/ \E rows : SetRows(rows)
      <4>1. CASE ServeRow(r)
        BY <4>1 DEF ServeRow
      <4>2. CASE LookForGithub(r) \/ ServeHook(r) \/ RouteFails(r)
        BY <4>2 DEF LookForGithub, ServeHook, RouteFails
      <4> QED BY <2>1, <4>1, <4>2
    <3> QED BY <3>1, <3>2, <3>3
  <2>4. watched = "screen" => ScreenInv'
    BY <1>1, <2>1, ServeRowStep, QuietStep, ServeHookStep
  <2> QED BY <2>2, <2>3, <2>4 DEF EventsInv
<1>5. CASE AskElsewhere
  <2>1. watched # "screen" /\ UNCHANGED <<watched, deliveries, triggerRows>>
    BY <1>5 DEF AskElsewhere
  <2> QED BY <1>s, <2>1 DEF EventsInv
<1>6. CASE ClickCard \/ ClickHook
  <2>1. /\ UNCHANGED <<watched, deliveries, triggerRows, hookRows, hookCount, shownRows, shownHooks, screenLoads,
                       loadCount, screenFailed, secretsShown, overtakenLoad, lostSecrets, unaware>>
        /\ screenRequests' = screenRequests \/ \E kind, of, form : Ask(kind, of, form)
    <3>1. CASE ClickCard
      BY <3>1 DEF ClickCard, hookVars, faultVars
    <3>2. CASE ClickHook
      BY <3>2 DEF ClickHook, hookVars, faultVars
    <3> QED BY <1>6, <3>1, <3>2
  <2>2. watched = "screen" => ScreenInv'
    BY <1>1, <2>1, ClickStep
  <2> QED BY <1>s, <2>1, <2>2 DEF EventsInv
<1>7. CASE AnswerAny
  <2>1. PICK r \in screenRequests : AnswerArrives(r) \/ AnswerLost(r)
    BY <1>7 DEF AnswerAny
  <2>2. watched = "screen" /\ UNCHANGED <<watched, deliveries, triggerRows>>
    BY <2>1 DEF AnswerArrives, AnswerLost
  <2>3. ScreenInv'
    BY <1>1, <2>1, <2>2, AnswerArrivesStep, AnswerLostStep
  <2> QED BY <1>s, <2>2, <2>3 DEF EventsInv
<1>8. CASE LoadAny
  <2>1. PICK l \in screenLoads : ServeLoad(l) \/ LoadArrives(l) \/ LoadFails(l)
    BY <1>8 DEF LoadAny
  <2>2. UNCHANGED <<watched, deliveries, triggerRows>>
    BY <2>1 DEF ServeLoad, LoadArrives, LoadFails
  <2>3. watched = "screen" => ScreenInv'
    BY <1>1, <2>1, ServeLoadStep, LoadArrivesStep, LoadFailsStep
  <2> QED BY <1>s, <2>2, <2>3 DEF EventsInv
<1>9. CASE RetryLoad
  <2>1. /\ LoadLists
        /\ UNCHANGED <<watched, deliveries, triggerRows, unaware, hookRows, hookCount, shownRows, shownHooks,
                       overtakenLoad, screenRequests, secretsShown, lostSecrets>>
    BY <1>9 DEF RetryLoad, hookVars, faultVars
  <2>2. watched = "screen" => ScreenInv'
    <3>1. SUFFICES ASSUME watched = "screen" PROVE ScreenInv'
      OBVIOUS
    <3>2. ScreenInv
      BY <1>1, <3>1
    <3>3. \A h \in hookRows : h.id \in secretsShown' \cup lostSecrets' \cup {r.secret : r \in screenRequests'}
      BY <2>1, <3>2 DEF ScreenInv
    <3> QED BY <2>1, <3>2, <3>3, LoadBegins
  <2> QED BY <1>s, <2>1, <2>2 DEF EventsInv
<1>10. CASE UNCHANGED eventVars
  <2>1. UNCHANGED <<watched, deliveries, triggerRows, hookVars, screenRequests, viewVars, faultVars>>
    BY <1>10 DEF eventVars, hookVars, viewVars, faultVars
  <2> QED BY <1>s, <1>u, <2>1 DEF EventsInv
<1> QED BY <1>2, <1>3, <1>4, <1>5, <1>6, <1>7, <1>8, <1>9, <1>10 DEF EventNext

(* A delivery that was answered started what matched from its receipt on, and nothing  *)
(* else; one sent after the earlier ones were heard of repeats only automations; what  *)
(* throws stops it before it started a workflow; every secret was shown or its answer is known to be lost; and   *)
(* the settings screen comes to show the rows.  Whatever the screen, other clients and *)
(* the senders do meanwhile.                                                           *)
THEOREM EventsAnswered == EventSpec => []EventsAreAnswered
<1>1. EventsInv => EventsAreAnswered
  <2> SUFFICES ASSUME EventsInv PROVE EventsAreAnswered
    OBVIOUS
  <2>1. \A i \in DOMAIN deliveries :
          /\ deliveries[i].started \subseteq deliveries[i].ever
          /\ deliveries[i].at = "ok" => deliveries[i].always \subseteq deliveries[i].started
          /\ deliveries[i].at \in Turned =>
               deliveries[i].started \subseteq Triggers /\ (deliveries[i].at # "failed" => deliveries[i].started = {})
    BY DEF EventsInv, DeliveriesInv, DeliveryOK
  <2>2. \A i, j \in DOMAIN deliveries :
          i < j /\ deliveries[i].event = deliveries[j].event /\ i \notin deliveries[j].unheard =>
            deliveries[i].at \in Turned
    BY DEF EventsInv, DeliveriesInv
  <2>3. StartsWhatMatched
    BY <2>1 DEF StartsWhatMatched
  <2>4. RepeatsOnlyAutomations
    <3> SUFFICES ASSUME NEW i \in DOMAIN deliveries, NEW j \in DOMAIN deliveries, i < j,
                        deliveries[i].event = deliveries[j].event, i \notin deliveries[j].unheard,
                        deliveries[i].started \cap deliveries[j].started # {}
                 PROVE  /\ deliveries[i].at = "failed"
                        /\ deliveries[i].started \cap deliveries[j].started \subseteq Triggers
      BY DEF RepeatsOnlyAutomations
    <3>1. deliveries[i].at \in Turned
      BY <2>2
    <3> QED BY <2>1, <3>1
  <2>5. FailsBeforeStarting
    BY <2>1 DEF FailsBeforeStarting, Turned
  <2>6. SecretsWereShown
    BY DEF EventsInv, ScreenInv, SecretsWereShown
  <2>7. ScreenShowsRows
    BY DEF EventsInv, ScreenInv, NewsPending, ScreenShowsRows
  <2> QED BY <2>3, <2>4, <2>5, <2>6, <2>7 DEF EventsAreAnswered
<1> QED BY <1>1, EventsInitial, EventsStep, PTL DEF EventSpec

-----------------------------------------------------------------------------
(* The answer that is streamed. *)
StreamTypeOK ==
  /\ source \in [id : Nat, made : Nat, state : {"open", "finished", "halted", "gone"}]
  /\ place \in Nat /\ cursor \in Nat /\ seen \in Seq(Nat)
  /\ link.phase \in {"posting", "reading", "resuming", "failed", "closed", "over", "asking", "stopped"}
  /\ DOMAIN link = {"phase", "tries", "last", "auto"}

\* What was read, when the last half was of the frame after the first n, or ended it.
Comes(halves, n) ==
  /\ InOrder(halves) /\ Whole(halves) /\ EndedFrames(halves) = 1..n /\ n <= Len(halves)
  /\ IF halves = <<>> THEN n = 0 ELSE halves[Len(halves)] \in {2 * n, 2 * n + 1}

\* The connection goes on from what was read, or from the frame after it.
GoesOnFrom(p, halves, n) ==
  p = 2 * n \/ (p = 2 * n + 1 /\ halves # <<>> /\ halves[Len(halves)] = p)

ClosedWhole ==
  link.phase = "closed" =>
    /\ Alive => source.state = "finished" /\ cursor + 1 >= source.made
    /\ banner \in {"none", "offline"}

StreamInv ==
  /\ StreamTypeOK
  /\ \E n \in Nat : Comes(seen, n) /\ (link.phase # "stopped" => cursor = n)
  /\ link.phase \in {"posting", "reading"} => GoesOnFrom(place, seen, cursor)
  /\ ClosedWhole

LEMMA ReadOn ==
  ASSUME NEW halves \in Seq(Nat), NEW n \in Nat, Comes(halves, n),
         NEW p \in Nat, GoesOnFrom(p, halves, n), NEW to \in Nat, p < to
  PROVE  /\ Comes(halves \o [i \in 1..(to - p) |-> p + i], to \div 2)
         /\ GoesOnFrom(to, halves \o [i \in 1..(to - p) |-> p + i], to \div 2)
         /\ halves \o [i \in 1..(to - p) |-> p + i] \in Seq(Nat)
         /\ n + AdvanceCursor(p, to) = to \div 2
<1> DEFINE new == [i \in 1..(to - p) |-> p + i]
           all == halves \o new
           L == Len(halves)
<1>1. new \in Seq(Nat) /\ Len(new) = to - p
  OBVIOUS
<1>2. /\ all \in Seq(Nat) /\ Len(all) = L + (to - p) /\ L \in Nat
      /\ \A i \in 1..L : all[i] = halves[i]
      /\ \A i \in L + 1 .. L + (to - p) : all[i] = p + (i - L)
  BY <1>1
<1>3. DOMAIN halves = 1..L /\ DOMAIN all = 1..(L + (to - p))
  BY <1>1, <1>2
<1>4. p \div 2 = n /\ to \div 2 \in Nat /\ n <= to \div 2 /\ to \in {2 * (to \div 2), 2 * (to \div 2) + 1}
  BY DEF GoesOnFrom
<1>5. \A i \in 1..L : halves[i] \in Nat /\ (halves[i] % 2 = 0 => halves[i] \div 2 \in 1..n)
  <2>1. ASSUME NEW i \in 1..L, halves[i] % 2 = 0 PROVE halves[i] \div 2 \in 1..n
    <3>1. halves[i] \div 2 \in EndedFrames(halves)
      BY <2>1, <1>3 DEF EndedFrames, EndsAt
    <3> QED BY <3>1 DEF Comes
  <2>2. \A i \in 1..L : halves[i] \in Nat
    BY <1>3
  <2> QED BY <2>1, <2>2
<1>6. \A i \in 1..L : halves[i] % 2 = 0 => halves[i] <= 2 * n
  BY <1>5
<1>a. /\ L = 0 => n = 0 /\ p = 2 * n
      /\ L > 0 => /\ halves[L] \in {2 * n, 2 * n + 1}
                  /\ p = 2 * n \/ (p = 2 * n + 1 /\ halves[L] = p)
      /\ p \in {2 * n, 2 * n + 1}
  BY DEF Comes, GoesOnFrom
<1>b. \A i \in 1..L : IF halves[i] % 2 = 0 THEN i > 1 /\ halves[i - 1] = halves[i] - 1
                       ELSE i < L => halves[i + 1] \in {halves[i], halves[i] + 1}
  BY <1>3 DEF Comes, Whole
<1> HIDE DEF new, all, L
<1>7. InOrder(all)
  <2> SUFFICES ASSUME NEW i \in 1..(L + (to - p)), NEW j \in 1..(L + (to - p)), i < j,
                      all[i] % 2 = 0, all[j] % 2 = 0
               PROVE  all[i] < all[j]
    BY <1>3 DEF InOrder, EndsAt
  <2>1. CASE j \in 1..L
    <3>1. i \in 1..L
      BY <2>1, <1>2
    <3> QED BY <2>1, <3>1, <1>2, <1>3 DEF Comes, InOrder, EndsAt
  <2>2. CASE j \notin 1..L
    <3>1. all[j] = p + (j - L) /\ j \in L + 1..L + (to - p)
      BY <2>2, <1>2
    <3>2. CASE i \in 1..L
      <4>1. all[i] = halves[i] /\ halves[i] <= 2 * n /\ all[i] \in Nat
        BY <3>2, <1>2, <1>5, <1>6
      <4>2. all[j] > p /\ p >= 2 * n /\ all[j] \in Nat
        BY <3>1, <1>2, <1>a
      <4>3. \A x, y \in Nat : x <= 2 * n /\ y > p /\ p >= 2 * n => x < y
        OBVIOUS
      <4>4. all[i] <= 2 * n
        BY <4>1, Zenon
      <4> QED BY <4>1, <4>2, <4>3, <4>4
    <3>3. CASE i \notin 1..L
      BY <3>1, <3>3, <1>2
    <3> QED BY <3>2, <3>3
  <2> QED BY <2>1, <2>2
<1>8. Whole(all)
  <2> SUFFICES ASSUME NEW i \in 1..(L + (to - p))
               PROVE  IF all[i] % 2 = 0 THEN i > 1 /\ all[i - 1] = all[i] - 1
                      ELSE i < L + (to - p) => all[i + 1] \in {all[i], all[i] + 1}
    BY <1>2, <1>3 DEF Whole
  <2>1. CASE i \in 1..L /\ i < L
    <3>1. IF halves[i] % 2 = 0 THEN i > 1 /\ halves[i - 1] = halves[i] - 1
          ELSE halves[i + 1] \in {halves[i], halves[i] + 1}
      BY <2>1, <1>b
    <3>2. all[i] = halves[i] /\ all[i + 1] = halves[i + 1] /\ (i > 1 => all[i - 1] = halves[i - 1])
      BY <2>1, <1>2
    <3> QED BY <3>1, <3>2
  <2>2. CASE i = L /\ L > 0
    <3>1. halves[L] % 2 = 0 => L > 1 /\ halves[L - 1] = halves[L] - 1
      BY <2>2, <1>b
    <3>2. all[L] = halves[L] /\ (L > 1 => all[L - 1] = halves[L - 1]) /\ all[L + 1] = p + 1
      BY <2>2, <1>2
    <3>3. p + 1 \in {halves[L], halves[L] + 1} \/ halves[L] % 2 = 0
      BY <2>2, <1>a
    <3>4. halves[L] % 2 # 0 => p + 1 \in {halves[L], halves[L] + 1}
      BY <3>3
    <3> QED BY <2>2, <3>1, <3>2, <3>4
  <2>3. CASE i \notin 1..L
    <3>1. i \in L + 1..L + (to - p) /\ all[i] = p + (i - L)
      BY <2>3, <1>2
    <3>2. i < L + (to - p) => all[i + 1] = all[i] + 1
      BY <3>1, <1>2
    <3>3. CASE i > L + 1
      <4>1. all[i - 1] = p + (i - 1 - L) /\ i > 1
        BY <3>1, <3>3, <1>2
      <4>2. all[i - 1] = all[i] - 1 /\ i > 1
        BY <3>1, <4>1, <1>2
      <4>3. i < L + (to - p) => all[i + 1] \in {all[i], all[i] + 1}
        BY <3>2
      <4> QED BY <4>2, <4>3, Zenon
    <3>4. CASE i = L + 1
      <4>1. all[i] = p + 1
        BY <3>1, <3>4, <1>2
      <4>0. p = 2 * n => (p + 1) % 2 = 1
        OBVIOUS
      <4>2. (p + 1) % 2 = 0 => L > 0 /\ halves[L] = p
        BY <4>0, <1>2, <1>a
      <4>3. L > 0 => all[L] = halves[L]
        BY <1>2
      <4> QED BY <3>2, <3>4, <4>1, <4>2, <4>3, <1>2
    <3> QED BY <3>1, <3>3, <3>4, <1>2
  <2> QED BY <2>1, <2>2, <2>3, <1>2
<1>9. EndedFrames(all) = 1..(to \div 2)
  <2>1. ASSUME NEW f \in EndedFrames(all) PROVE f \in 1..(to \div 2)
    <3>1. PICK i \in 1..(L + (to - p)) : all[i] % 2 = 0 /\ f = all[i] \div 2
      BY <2>1, <1>3 DEF EndedFrames, EndsAt
    <3>2. CASE i \in 1..L
      <4>1. f \in 1..n
        BY <3>1, <3>2, <1>2, <1>5
      <4> QED BY <4>1, <1>4
    <3>3. CASE i \notin 1..L
      <4>1. all[i] = p + (i - L) /\ i - L \in 1..(to - p)
        BY <3>3, <1>2
      <4>2. all[i] \in 1..to
        BY <4>1
      <4> QED BY <3>1, <4>2
    <3> QED BY <3>2, <3>3
  <2>2. ASSUME NEW f \in 1..(to \div 2) PROVE f \in EndedFrames(all)
    <3>1. CASE f <= n
      <4>1. f \in EndedFrames(halves)
        BY <3>1, <1>4 DEF Comes
      <4>2. PICK i \in 1..L : halves[i] % 2 = 0 /\ f = halves[i] \div 2
        BY <4>1, <1>3 DEF EndedFrames, EndsAt
      <4>3. i \in DOMAIN all /\ all[i] = halves[i]
        BY <1>2, <1>3
      <4> QED BY <4>2, <4>3 DEF EndedFrames, EndsAt
    <3>2. CASE f > n
      <4>1. 2 * f > p /\ 2 * f <= to
        BY <3>2, <1>4 DEF GoesOnFrom
      <4>2. L + (2 * f - p) \in L + 1..L + (to - p)
        BY <4>1, <1>2
      <4>3. all[L + (2 * f - p)] = 2 * f /\ L + (2 * f - p) \in DOMAIN all
        BY <4>2, <1>2, <1>3
      <4>4. (2 * f) % 2 = 0 /\ (2 * f) \div 2 = f
        OBVIOUS
      <4> QED BY <4>3, <4>4 DEF EndedFrames, EndsAt
    <3> QED BY <3>1, <3>2, <1>4
  <2> QED BY <2>1, <2>2
<1>10. all # <<>> /\ all[Len(all)] = to /\ Len(all) \in Nat
  BY <1>2, <1>3
<1>11. to \div 2 <= Len(all)
  <2>1. n <= L
    BY DEF Comes, L
  <2> QED BY <2>1, <1>2, <1>4 DEF GoesOnFrom
<1>12. Comes(all, to \div 2)
  BY <1>4, <1>7, <1>8, <1>9, <1>10, <1>11 DEF Comes
<1>13. GoesOnFrom(to, all, to \div 2)
  BY <1>4, <1>10 DEF GoesOnFrom
<1> QED
  BY <1>2, <1>4, <1>12, <1>13 DEF all, new, AdvanceCursor

LEMMA StreamInvInit == StreamInit => StreamInv
<1> SUFFICES ASSUME StreamInit PROVE StreamInv
  OBVIOUS
<1>1. Comes(seen, 0)
  BY DEF StreamInit, Comes, InOrder, Whole, EndsAt, EndedFrames
<1>2. StreamTypeOK /\ ClosedWhole
  BY DEF StreamInit, StreamTypeOK, ClosedWhole
<1>3. GoesOnFrom(place, seen, cursor)
  BY DEF StreamInit, GoesOnFrom
<1> QED BY <1>1, <1>2, <1>3 DEF StreamInv, StreamInit


LEMMA StreamTypeStep == StreamTypeOK /\ [StreamNext]_streamVars /\ ~Read => StreamTypeOK'
<1> SUFFICES ASSUME StreamTypeOK, [StreamNext]_streamVars, ~Read PROVE StreamTypeOK'
  OBVIOUS
<1> USE DEF StreamTypeOK, LinkAt, clientView, Fault, Alive, NewRun
<1>1. CASE UNCHANGED streamVars
  BY <1>1 DEF streamVars
<1>2. CASE SourceGoesOn
  <2>1. source' \in [id : Nat, made : Nat, state : {"open", "finished", "halted", "gone"}]
    <3>1. source.made + 1 \in Nat
      OBVIOUS
    <3> QED BY <1>2, <3>1 DEF SourceGoesOn, Produce, FinishSource, Halt, Expire
  <2> QED BY <1>2, <2>1 DEF SourceGoesOn
<1>3. CASE PostAnswered \/ PostFailed \/ PostRefused
  BY <1>3 DEF PostAnswered, PostFailed, PostRefused
<1>4. CASE BodyEnds \/ Broken
  BY <1>4 DEF BodyEnds, Broken
<1>5. CASE Resumed \/ ResumeGone \/ ResumeFails
  BY <1>5 DEF Resumed, ResumeGone, ResumeFails, Ended
<1>6. CASE Attach
  BY <1>6 DEF Attach, QuietLink
<1>7. CASE Asked
  BY <1>7 DEF Asked
<1>8. CASE StopStream \/ Network
  BY <1>8 DEF StopStream, Network
<1> QED BY <1>1, <1>2, <1>3, <1>4, <1>5, <1>6, <1>7, <1>8 DEF StreamNext

\* A step that reads nothing keeps what was read, and goes on reading only where it was.
LEMMA NothingRead ==
  ASSUME StreamTypeOK, [StreamNext]_streamVars, ~Read
  PROVE  /\ seen' = seen
         /\ link'.phase # "stopped" => link.phase # "stopped" /\ cursor' = cursor
         /\ link'.phase \in {"posting", "reading"} =>
              \/ place' = place /\ link.phase \in {"posting", "reading"}
              \/ place' = 2 * cursor
<1> USE DEF StreamTypeOK, LinkAt, clientView, Fault
<1>1. CASE UNCHANGED streamVars
  BY <1>1 DEF streamVars
<1>2. CASE SourceGoesOn
  BY <1>2 DEF SourceGoesOn
<1>3. CASE PostAnswered \/ PostFailed \/ PostRefused
  BY <1>3 DEF PostAnswered, PostFailed, PostRefused
<1>4. CASE BodyEnds \/ Broken
  BY <1>4 DEF BodyEnds, Broken
<1>5. CASE Resumed \/ ResumeGone \/ ResumeFails
  BY <1>5 DEF Resumed, ResumeGone, ResumeFails, Ended
<1>6. CASE Attach
  BY <1>6 DEF Attach, QuietLink
<1>7. CASE Asked
  BY <1>7 DEF Asked
<1>8. CASE StopStream \/ Network
  BY <1>8 DEF StopStream, Network
<1> QED BY <1>1, <1>2, <1>3, <1>4, <1>5, <1>6, <1>7, <1>8 DEF StreamNext

LEMMA ClosedStays == StreamTypeOK /\ ClosedWhole /\ [StreamNext]_streamVars /\ ~Read => ClosedWhole'
<1> SUFFICES ASSUME StreamTypeOK, ClosedWhole, [StreamNext]_streamVars, ~Read,
                    link'.phase = "closed"
             PROVE  /\ Alive' => source'.state = "finished" /\ cursor' + 1 >= source'.made
                    /\ banner' \in {"none", "offline"}
  BY DEF ClosedWhole
<1> USE DEF ClosedWhole, StreamTypeOK, LinkAt, clientView, Fault, Alive, Transient
<1>1. CASE UNCHANGED streamVars
  BY <1>1 DEF streamVars
<1>2. CASE SourceGoesOn
  BY <1>2 DEF SourceGoesOn, Produce, FinishSource, Halt, Expire
<1>3. CASE PostAnswered \/ PostFailed \/ PostRefused
  BY <1>3 DEF PostAnswered, PostFailed, PostRefused
<1>4. CASE BodyEnds \/ Broken
  BY <1>4 DEF BodyEnds, Broken
<1>5. CASE Resumed \/ ResumeGone \/ ResumeFails
  BY <1>5 DEF Resumed, ResumeGone, ResumeFails, Ended
<1>6. CASE Attach
  BY <1>6 DEF Attach, QuietLink
<1>7. CASE Asked
  BY <1>7 DEF Asked
<1>8. CASE StopStream \/ Network
  BY <1>8 DEF StopStream, Network
<1> QED BY <1>1, <1>2, <1>3, <1>4, <1>5, <1>6, <1>7, <1>8 DEF StreamNext

LEMMA StreamInvRead == StreamInv /\ Read => StreamInv'
<1> SUFFICES ASSUME StreamInv, Read PROVE StreamInv'
  OBVIOUS
<1>1. PICK to \in place + 1 .. 2 * source.made :
        /\ place' = to
        /\ cursor' = cursor + AdvanceCursor(place, to)
        /\ seen' = seen \o [i \in 1..(to - place) |-> place + i]
        /\ IF link.auto /\ SeesFinish(to) THEN Ended ELSE UNCHANGED <<link, kept, banner>>
  BY DEF Read
<1>2. /\ StreamTypeOK /\ link.phase = "reading" /\ UNCHANGED source /\ to \in Nat /\ place < to
      /\ Comes(seen, cursor) /\ GoesOnFrom(place, seen, cursor)
      /\ seen \in Seq(Nat) /\ cursor \in Nat /\ place \in Nat
  BY DEF StreamInv, StreamTypeOK, Read
<1>3. /\ Comes(seen', to \div 2) /\ GoesOnFrom(place', seen', cursor')
      /\ seen' \in Seq(Nat) /\ cursor' = to \div 2 /\ cursor' \in Nat
  BY <1>1, <1>2, ReadOn
<1>4. StreamTypeOK'
  BY <1>1, <1>2, <1>3 DEF StreamTypeOK, Ended, LinkAt
<1>5. ClosedWhole'
  <2>1. CASE link.auto /\ SeesFinish(to)
    <3>1. source.state = "finished" /\ to > 2 * (source.made - 1) /\ source.made \in Nat
      BY <2>1, <1>2 DEF SeesFinish, StreamTypeOK
    <3>2. cursor' + 1 >= source.made
      BY <3>1, <1>2, <1>3
    <3> QED BY <2>1, <3>1, <3>2, <1>1, <1>2 DEF ClosedWhole, Ended, Transient
  <2>2. CASE ~(link.auto /\ SeesFinish(to))
    BY <2>2, <1>1, <1>2 DEF ClosedWhole
  <2> QED BY <2>1, <2>2
<1> QED
  BY <1>3, <1>4, <1>5 DEF StreamInv

LEMMA StreamInvStep == StreamInv /\ [StreamNext]_streamVars => StreamInv'
<1> SUFFICES ASSUME StreamInv, [StreamNext]_streamVars, ~Read PROVE StreamInv'
  BY StreamInvRead
<1>0. StreamTypeOK /\ ClosedWhole
  BY DEF StreamInv
<1>1. StreamTypeOK' /\ ClosedWhole'
  BY <1>0, StreamTypeStep, ClosedStays
<1>2. PICK n \in Nat : Comes(seen, n) /\ (link.phase # "stopped" => cursor = n)
  BY DEF StreamInv
<1>3. Comes(seen', n) /\ (link'.phase # "stopped" => cursor' = n)
  BY <1>0, <1>2, NothingRead
<1>4. link'.phase \in {"posting", "reading"} => GoesOnFrom(place', seen', cursor')
  BY <1>0, NothingRead DEF StreamInv, GoesOnFrom
<1> QED BY <1>1, <1>3, <1>4 DEF StreamInv

LEMMA StreamInvGives == StreamInv => StreamIsWhole
<1> SUFFICES ASSUME StreamInv PROVE StreamIsWhole
  OBVIOUS
<1>1. PICK n \in Nat : Comes(seen, n) /\ (link.phase # "stopped" => cursor = n)
  BY DEF StreamInv
<1>2. n \in 0..Len(seen)
  BY <1>1 DEF Comes, StreamInv, StreamTypeOK
<1>3. link.phase = "closed" => /\ Alive => source.state = "finished" /\ n + 1 >= source.made
                               /\ banner \in {"none", "offline"}
  BY <1>1 DEF StreamInv, ClosedWhole
<1> QED BY <1>1, <1>2, <1>3 DEF StreamIsWhole, Comes

(* Whatever the network cuts and however often the stream is resumed, the     *)
(* reader gets every frame of the run once, whole and in order                *)
(* (create-resilient-chat-fetch.ts).                                          *)
THEOREM AnswersAreWhole == StreamSpec => []StreamIsWhole
<1>1. StreamInit => StreamInv
  BY StreamInvInit
<1>2. StreamInv /\ [StreamNext]_streamVars => StreamInv'
  BY StreamInvStep
<1>3. StreamInv => StreamIsWhole
  BY StreamInvGives
<1> QED BY <1>1, <1>2, <1>3, PTL DEF StreamSpec

-----------------------------------------------------------------------------
(* What a thread shows of its history. *)
HistoryMessages == [turn : HistoryTurns \cup ChatThreads, role : {"user", "assistant"}]
HistoryRequests == [of : ChatThreads, gen : Nat, asMain : BOOLEAN,
                    got : Seq(HistoryMessages) \cup {Unread}]
Activities == [kind : {"idle", "running", "finished"}, at : Nat]

HistoryTypeOK ==
  /\ following \in {"history", "badges"}
  /\ mainThread \in ChatThreads \ deletedThreads /\ deletedThreads \subseteq ChatThreads
  /\ remoteIds \subseteq ChatThreads \ deletedThreads
  /\ ChatThreads \subseteq FreshThreads \cup remoteIds \cup deletedThreads
  /\ transcript \in [ChatThreads -> Seq(HistoryMessages)]
  /\ storedMessages \in [ChatThreads -> Seq(HistoryMessages)]
  /\ historyLoads \subseteq HistoryRequests /\ loadGeneration \in [ChatThreads -> Nat]
  /\ chatRuns \in [ChatThreads -> {"none", "sending", "running"}]
  /\ saidIn \in [HistoryTurns -> ChatThreads \cup {NoThread}]
  /\ answered \subseteq HistoryTurns /\ IsFiniteSet(answered)

\* A thread of the server whose history is not there, in which nothing was written.
Waiting(t) == t \notin FreshThreads \cup loadedRemoteId \cup blind
Followed == ChatThreads \ (blind \cup deletedThreads)

Begins(early, late) == Len(early) <= Len(late) /\ \A i \in 1..Len(early) : early[i] = late[i]

\* What was fetched is how the server's copy began, and that is how the chat begins.
CopiesBegin ==
  /\ \A t \in Followed :
       IF Waiting(t)
       THEN /\ transcript[t] = <<>> /\ storedMessages[t] = Earlier(t) /\ chatRuns[t] = "none"
            /\ \A m \in HistoryTurns : saidIn[m] # t
       ELSE /\ Begins(storedMessages[t], transcript[t]) /\ EverSaid(t) \subseteq ToSet(transcript[t])
            /\ t \notin FreshThreads => transcript[t] # <<>>
  /\ \A l \in historyLoads : l.of \in Followed /\ l.got # Unread =>
       IF Waiting(l.of) THEN l.got = Earlier(l.of) ELSE Begins(l.got, storedMessages[l.of])

\* The thread in front, when it waits, is loaded or has its error.
FrontLoads ==
  /\ wasMain \subseteq {mainThread} \cap remoteIds /\ retryHandler \in {mainThread, NoThread}
  /\ mainThread \in remoteIds => retryHandler = mainThread \/ leftLater
  /\ \A l \in historyLoads : l.gen <= loadGeneration[l.of]
  /\ \A t \in ChatThreads : t = mainThread /\ Waiting(t) =>
       /\ isLoading(t) \/ historyError = t \/ errorTaken
       /\ \A l \in historyLoads : l.of = t /\ IsCurrent(l) => l.asMain

\* A badge is acknowledged up to what had finished when its thread was left.
BadgesKept ==
  /\ serverActivity \in [ChatThreads -> Activities] /\ activityMap \in [ChatThreads -> Activities]
  /\ ackedAt \in [ChatThreads -> Nat] /\ leftAt \in [ChatThreads -> Nat]
  /\ polling # << >> => polling \in [ChatThreads -> Activities] /\ \A t \in ChatThreads : polling[t].at <= Finished
  /\ \A t \in ChatThreads : /\ serverActivity[t].at <= Finished /\ activityMap[t].at <= Finished
                            /\ ackedAt[t] <= Finished
                            /\ following = "badges" /\ t # mainThread => ackedAt[t] <= leftAt[t]
                            /\ following = "history" => serverActivity[t].kind = "idle"

HistoryInv == HistoryTypeOK /\ CopiesBegin /\ FrontLoads /\ BadgesKept

LEMMA ToSetAppend ==
  ASSUME NEW S, NEW s \in Seq(S), NEW e \in S
  PROVE  ToSet(Append(s, e)) = ToSet(s) \cup {e}
<1>1. /\ DOMAIN Append(s, e) = DOMAIN s \cup {Len(s) + 1}
      /\ \A i \in DOMAIN s : Append(s, e)[i] = s[i]
      /\ Append(s, e)[Len(s) + 1] = e
  OBVIOUS
<1> QED BY <1>1 DEF ToSet

LEMMA BeginsFacts ==
  ASSUME NEW S, NEW a \in Seq(S), NEW b \in Seq(S), Begins(a, b)
  PROVE  /\ Begins(a, a)
         /\ \A e \in S : Begins(a, Append(b, e))
         /\ \A c \in Seq(S) : Begins(b, c) => Begins(a, c)
         /\ Len(a) >= Len(b) => a = b
         /\ b = <<>> => a = <<>>
<1> USE DEF Begins
<1>1. \A e \in S : Begins(a, Append(b, e))
  OBVIOUS
<1>2. \A c \in Seq(S) : Begins(b, c) => Begins(a, c)
  OBVIOUS
<1>3. Len(a) >= Len(b) => a = b
  <2> SUFFICES ASSUME Len(a) >= Len(b) PROVE a = b
    OBVIOUS
  <2>1. Len(a) = Len(b) /\ Len(a) \in Nat
    OBVIOUS
  <2>2. DOMAIN a = 1..Len(a) /\ DOMAIN b = 1..Len(a)
    BY <2>1
  <2>3. a = [i \in 1..Len(a) |-> a[i]] /\ b = [i \in 1..Len(a) |-> b[i]]
    BY <2>1, <2>2
  <2> QED BY <2>1, <2>3
<1>4. b = <<>> => a = <<>>
  <2> SUFFICES ASSUME b = <<>> PROVE a = <<>>
    OBVIOUS
  <2>1. Len(a) = 0
    OBVIOUS
  <2> QED BY <2>1
<1> QED BY <1>1, <1>2, <1>3, <1>4

\* What was said in a thread, and a history that was there before.
LEMMA EarlierFacts ==
  ASSUME NEW t \in ChatThreads
  PROVE  /\ Earlier(t) \in Seq(HistoryMessages) /\ Earlier(t) # <<>> /\ Earlier(t) # Unread
         /\ Len(Earlier(t)) = 2
         /\ Begins(Earlier(t), Earlier(t))
<1>1. [turn |-> t, role |-> "user"] \in HistoryMessages /\ [turn |-> t, role |-> "assistant"] \in HistoryMessages
  BY DEF HistoryMessages
<1>2. Earlier(t) \in Seq(HistoryMessages) /\ Len(Earlier(t)) = 2
  BY <1>1 DEF Earlier
<1>3. Earlier(t) # <<>> /\ Len(Unread) = 1
  BY <1>2 DEF Unread
<1>4. Earlier(t) # Unread
  <2>1. Len(Earlier(t)) = 2
    BY <1>2
  <2>2. Len(Unread) = 1
    BY <1>3
  <2>3. 1 # 2
    OBVIOUS
  <2>4. Earlier(t) = Unread => Len(Earlier(t)) = Len(Unread)
    BY Zenon
  <2> QED BY <2>1, <2>2, <2>3, <2>4, Zenon
<1>5. Begins(Earlier(t), Earlier(t))
  BY <1>2 DEF Begins
<1> QED BY <1>2, <1>3, <1>4, <1>5

LEMMA UnreadIsNone == Unread \notin Seq(HistoryMessages)
<1> SUFFICES ASSUME Unread \in Seq(HistoryMessages) PROVE FALSE
  OBVIOUS
<1>1. Len(Unread) = 1 /\ Unread[1] = [turn |-> NoThread, role |-> "none"]
  BY DEF Unread
<1>2. Unread[1] \in HistoryMessages
  BY <1>1, ElementOfSeq
<1>3. Unread[1].role = "none" /\ "none" \notin {"user", "assistant"}
  BY <1>1
<1> QED BY <1>2, <1>3 DEF HistoryMessages

\* What running the effects comes to.
EffectsDone(ts, main, remote, loaded, attempted, nonce, error) ==
  /\ wasMain' = (wasMain \ (ts \cap remote)) \cup ({main} \cap ts \cap remote)
  /\ loadGeneration' \in [ChatThreads -> Nat]
  /\ historyLoads' \subseteq HistoryRequests
  /\ \A t \in ChatThreads :
       LET on == t \in ts /\ MayLoad(t, main, remote, loaded, attempted, nonce)
       IN /\ loadGeneration'[t] = loadGeneration[t] + (IF on THEN 1 ELSE 0)
          /\ on => \E l \in historyLoads' : l.of = t /\ l.gen = loadGeneration'[t]
          /\ historyError' = t <=> error = t /\ ~on
  /\ \A l \in historyLoads' :
       \/ l \in historyLoads
       \/ l.got = Unread /\ l.gen = loadGeneration'[l.of] /\ l.asMain = (l.of = main)
  /\ \A l \in historyLoads : l.got = Unread => l \in historyLoads'
  /\ \A l \in historyLoads :
       l.of \notin ts \/ ~MayLoad(l.of, main, remote, loaded, attempted, nonce) => l \in historyLoads'
  /\ loadedRemoteId' = loaded

LEMMA EffectsFacts ==
  ASSUME HistoryTypeOK, NEW ts \in SUBSET ChatThreads, NEW main, NEW remote, NEW loaded,
         NEW attempted, NEW nonce, NEW error,
         RunEffects(ts, main, remote, loaded, attempted, nonce, error)
  PROVE  EffectsDone(ts, main, remote, loaded, attempted, nonce, error)
<1> DEFINE loading == {t \in ts : MayLoad(t, main, remote, loaded, attempted, nonce)}
           new == {[of |-> t, gen |-> loadGeneration[t] + 1, asMain |-> t = main, got |-> Unread] : t \in loading}
<1>1. /\ wasMain' = (wasMain \ (ts \cap remote)) \cup ({main} \cap ts \cap remote)
      /\ loadGeneration' = [t \in ChatThreads |-> loadGeneration[t] + (IF t \in loading THEN 1 ELSE 0)]
      /\ historyLoads' = {l \in historyLoads : l.of \notin loading \/ l.got = Unread} \cup new
      /\ historyError' = IF error \in loading THEN NoThread ELSE error
      /\ loadedRemoteId' = loaded
  BY DEF RunEffects
<1>2. loading \subseteq ts /\ loading \subseteq ChatThreads
  OBVIOUS
<1>3. loadGeneration \in [ChatThreads -> Nat]
  BY DEF HistoryTypeOK
<1>4. \A t \in ChatThreads : t \in loading <=> t \in ts /\ MayLoad(t, main, remote, loaded, attempted, nonce)
  OBVIOUS
<1>5. \A l \in new : l \in HistoryRequests /\ l.of \in loading /\ l.gen = loadGeneration[l.of] + 1
                     /\ l.got = Unread /\ l.asMain = (l.of = main)
  <2> SUFFICES ASSUME NEW l \in new
               PROVE  l \in HistoryRequests /\ l.of \in loading /\ l.gen = loadGeneration[l.of] + 1
                      /\ l.got = Unread /\ l.asMain = (l.of = main)
    OBVIOUS
  <2>1. PICK t \in loading : l = [of |-> t, gen |-> loadGeneration[t] + 1, asMain |-> t = main, got |-> Unread]
    OBVIOUS
  <2>2. t \in ChatThreads /\ loadGeneration[t] + 1 \in Nat /\ (t = main) \in BOOLEAN
    BY <1>2, <1>3
  <2>3. l \in HistoryRequests
    BY <2>1, <2>2 DEF HistoryRequests
  <2>4. l.of = t /\ l.gen = loadGeneration[t] + 1 /\ l.got = Unread
    BY <2>1
  <2>5. l.asMain = (t = main)
    BY <2>1, Zenon
  <2> QED BY <2>3, <2>4, <2>5
<1>6. \A t \in loading : \E l \in new : l.of = t /\ l.gen = loadGeneration[t] + 1
  <2> SUFFICES ASSUME NEW t \in loading PROVE \E l \in new : l.of = t /\ l.gen = loadGeneration[t] + 1
    OBVIOUS
  <2>1. PICK l \in new : l = [of |-> t, gen |-> loadGeneration[t] + 1, asMain |-> t = main, got |-> Unread]
    BY Zenon
  <2> QED BY <2>1
<1>7. historyLoads \subseteq HistoryRequests
  BY DEF HistoryTypeOK
<1>8. NoThread \notin ChatThreads
  BY ThreadHistoryAssumption
<1> HIDE DEF loading, new
<1>9. \A t \in ChatThreads : loadGeneration'[t] = loadGeneration[t] + (IF t \in loading THEN 1 ELSE 0)
  BY <1>1
<1>10. loadGeneration' \in [ChatThreads -> Nat]
  BY <1>1, <1>3
<1>11. historyLoads' \subseteq HistoryRequests
  BY <1>1, <1>5, <1>7
<1>12. \A l \in historyLoads' :
         \/ l \in historyLoads
         \/ l.got = Unread /\ l.gen = loadGeneration'[l.of] /\ l.asMain = (l.of = main)
  BY <1>1, <1>2, <1>5, <1>9
<1>13. \A t \in loading : \E l \in historyLoads' : l.of = t /\ l.gen = loadGeneration'[t]
  BY <1>1, <1>2, <1>6, <1>9
<1>14. \A l \in historyLoads : l.got = Unread \/ l.of \notin loading => l \in historyLoads'
  BY <1>1
<1>15. \A l \in historyLoads : l.of \in ChatThreads
  BY <1>7 DEF HistoryRequests
<1>16. \A t \in ChatThreads : historyError' = t <=> error = t /\ t \notin loading
  BY <1>1, <1>8
<1>17. \A t \in ChatThreads :
         LET on == t \in ts /\ MayLoad(t, main, remote, loaded, attempted, nonce)
         IN /\ loadGeneration'[t] = loadGeneration[t] + (IF on THEN 1 ELSE 0)
            /\ on => \E l \in historyLoads' : l.of = t /\ l.gen = loadGeneration'[t]
            /\ historyError' = t <=> error = t /\ ~on
  BY <1>4, <1>9, <1>13, <1>16
<1>18. \A l \in historyLoads :
         l.of \notin ts \/ ~MayLoad(l.of, main, remote, loaded, attempted, nonce) => l \in historyLoads'
  BY <1>4, <1>14, <1>15
<1> QED BY <1>1, <1>10, <1>11, <1>12, <1>14, <1>17, <1>18 DEF EffectsDone

-----------------------------------------------------------------------------
(* Frames: what does not touch a part of the invariant keeps it.           *)

LEMMA WaitingFrame ==
  ASSUME loadedRemoteId' = loadedRemoteId, blind' = blind, deletedThreads' = deletedThreads
  PROVE  Followed' = Followed /\ \A t \in ChatThreads : Waiting(t)' <=> Waiting(t)
  BY DEF Followed, Waiting

LEMMA CopiesFrame ==
  ASSUME CopiesBegin, UNCHANGED chatVars, deletedThreads' = deletedThreads,
         \A t \in ChatThreads : Waiting(t)' <=> Waiting(t),
         \A l \in historyLoads' : l \in historyLoads \/ l.got = Unread
  PROVE  CopiesBegin'
<1>1. UNCHANGED <<transcript, storedMessages, chatRuns, saidIn, blind>>
  BY DEF chatVars
<1>2. Followed' = Followed
  BY <1>1 DEF Followed
<1>3. \A t \in Followed : t \in ChatThreads
  BY DEF Followed
<1>4. \A t \in Followed : EverSaid(t)' = EverSaid(t)
  BY <1>1 DEF EverSaid
<1>5. \A t \in Followed' :
        IF Waiting(t)'
        THEN /\ transcript'[t] = <<>> /\ storedMessages'[t] = Earlier(t) /\ chatRuns'[t] = "none"
             /\ \A m \in HistoryTurns : saidIn'[m] # t
        ELSE /\ Begins(storedMessages'[t], transcript'[t]) /\ EverSaid(t)' \subseteq ToSet(transcript'[t])
             /\ t \notin FreshThreads => transcript'[t] # <<>>
  BY <1>1, <1>2, <1>3, <1>4 DEF CopiesBegin
<1>6. \A l \in historyLoads' : l.of \in Followed' /\ l.got # Unread =>
        IF Waiting(l.of)' THEN l.got = Earlier(l.of) ELSE Begins(l.got, storedMessages'[l.of])
  BY <1>1, <1>2, <1>3 DEF CopiesBegin
<1> QED BY <1>5, <1>6 DEF CopiesBegin

LEMMA BadgesFrame ==
  ASSUME BadgesKept, UNCHANGED <<following, mainThread, answered, listVars>>
  PROVE  BadgesKept'
  BY DEF BadgesKept, listVars, Finished

LEMMA FrontFrame ==
  ASSUME FrontLoads, HistoryTypeOK, UNCHANGED <<mainThread, remoteIds, leftLater, errorTaken, loadVars, retryHandler>>,
         \A t \in ChatThreads : Waiting(t)' => Waiting(t)
  PROVE  FrontLoads'
<1>1. UNCHANGED <<mainThread, remoteIds, leftLater, errorTaken, loadGeneration, wasMain, historyLoads, historyError, retryHandler>>
  BY DEF loadVars
<1>2. \A t \in ChatThreads : isLoading(t)' <=> isLoading(t)
  BY <1>1 DEF isLoading, IsCurrent
<1>3. \A l \in historyLoads : IsCurrent(l)' <=> IsCurrent(l)
  BY <1>1 DEF IsCurrent
<1> QED BY <1>1, <1>2, <1>3 DEF FrontLoads

\* Running the effects: who loads afterwards, and who asks for whom.
LEMMA EffectsLoad ==
  ASSUME HistoryTypeOK, FrontLoads, NEW ts \in SUBSET ChatThreads, NEW main, NEW remote, NEW loaded,
         NEW attempted, NEW nonce, NEW error,
         RunEffects(ts, main, remote, loaded, attempted, nonce, error)
  PROVE  /\ \A l \in historyLoads' : l.gen <= loadGeneration'[l.of]
         /\ \A t \in ChatThreads :
              IF t \in ts /\ MayLoad(t, main, remote, loaded, attempted, nonce)
              THEN /\ isLoading(t)'
                   /\ \A l \in historyLoads' : l.of = t /\ IsCurrent(l)' => l.asMain = (t = main)
              ELSE /\ isLoading(t) => isLoading(t)'
                   /\ \A l \in historyLoads' : l.of = t /\ IsCurrent(l)' =>
                        (l \in historyLoads /\ IsCurrent(l)) \/ l.asMain = (t = main)
<1> EffectsDone(ts, main, remote, loaded, attempted, nonce, error)
  BY EffectsFacts
<1>1. /\ \A t \in ChatThreads :
            LET on == t \in ts /\ MayLoad(t, main, remote, loaded, attempted, nonce)
            IN /\ loadGeneration'[t] = loadGeneration[t] + (IF on THEN 1 ELSE 0)
               /\ on => \E l \in historyLoads' : l.of = t /\ l.gen = loadGeneration'[t]
      /\ \A l \in historyLoads' :
            \/ l \in historyLoads
            \/ l.got = Unread /\ l.gen = loadGeneration'[l.of] /\ l.asMain = (l.of = main)
      /\ \A l \in historyLoads :
            l.of \notin ts \/ ~MayLoad(l.of, main, remote, loaded, attempted, nonce) => l \in historyLoads'
      /\ loadGeneration' \in [ChatThreads -> Nat] /\ historyLoads' \subseteq HistoryRequests
  BY DEF EffectsDone
<1>2. /\ loadGeneration \in [ChatThreads -> Nat]
      /\ \A l \in historyLoads : l.of \in ChatThreads /\ l.gen \in Nat /\ l.gen <= loadGeneration[l.of]
      /\ \A l \in historyLoads' : l.of \in ChatThreads /\ l.gen \in Nat
  BY <1>1 DEF HistoryTypeOK, FrontLoads, HistoryRequests
<1>3. \A l \in historyLoads' : l.gen <= loadGeneration'[l.of]
  <2> SUFFICES ASSUME NEW l \in historyLoads' PROVE l.gen <= loadGeneration'[l.of]
    OBVIOUS
  <2>1. CASE l \in historyLoads
    <3>1. loadGeneration[l.of] <= loadGeneration'[l.of]
      BY <1>1, <1>2
    <3> QED BY <3>1, <2>1, <1>1, <1>2
  <2>2. CASE l.gen = loadGeneration'[l.of]
    BY <2>2, <1>2
  <2> QED BY <2>1, <2>2, <1>1
<1> SUFFICES ASSUME NEW t \in ChatThreads
             PROVE  IF t \in ts /\ MayLoad(t, main, remote, loaded, attempted, nonce)
                    THEN /\ isLoading(t)'
                         /\ \A l \in historyLoads' : l.of = t /\ IsCurrent(l)' => l.asMain = (t = main)
                    ELSE /\ isLoading(t) => isLoading(t)'
                         /\ \A l \in historyLoads' : l.of = t /\ IsCurrent(l)' =>
                              (l \in historyLoads /\ IsCurrent(l)) \/ l.asMain = (t = main)
  BY <1>3
<1>4. CASE t \in ts /\ MayLoad(t, main, remote, loaded, attempted, nonce)
  <2>1. loadGeneration'[t] = loadGeneration[t] + 1
    BY <1>1, <1>4
  <2>2. isLoading(t)'
    BY <1>1, <1>4 DEF isLoading, IsCurrent
  <2>3. \A l \in historyLoads' : l.of = t /\ IsCurrent(l)' => l.asMain = (t = main)
    <3> SUFFICES ASSUME NEW l \in historyLoads', l.of = t, IsCurrent(l)' PROVE l.asMain = (t = main)
      OBVIOUS
    <3>1. l.gen = loadGeneration[t] + 1
      BY <2>1 DEF IsCurrent
    <3>2. l \notin historyLoads
      BY <3>1, <1>2
    <3> QED BY <3>2, <1>1
  <2> QED BY <1>4, <2>2, <2>3
<1>5. CASE ~(t \in ts /\ MayLoad(t, main, remote, loaded, attempted, nonce))
  <2>1. loadGeneration'[t] = loadGeneration[t]
    BY <1>1, <1>2, <1>5
  <2>2. isLoading(t) => isLoading(t)'
    BY <1>1, <1>5, <2>1 DEF isLoading, IsCurrent
  <2>3. \A l \in historyLoads' : l.of = t /\ IsCurrent(l)' =>
                              (l \in historyLoads /\ IsCurrent(l)) \/ l.asMain = (t = main)
    BY <1>1, <2>1 DEF IsCurrent
  <2> QED BY <1>5, <2>2, <2>3
<1> QED BY <1>4, <1>5

-----------------------------------------------------------------------------
(* One lemma per action.                                                   *)

LEMMA SeqMessages ==
  ASSUME HistoryTypeOK, NEW t \in ChatThreads
  PROVE  /\ transcript[t] \in Seq(HistoryMessages) /\ storedMessages[t] \in Seq(HistoryMessages)
         /\ loadGeneration[t] \in Nat /\ Finished \in Nat
<1>1. Finished \in Nat
  BY FS_CardinalityType DEF HistoryTypeOK, Finished
<1> QED BY <1>1 DEF HistoryTypeOK

LEMMA GotMessages ==
  ASSUME HistoryTypeOK, NEW l \in historyLoads
  PROVE  /\ l.of \in ChatThreads /\ l.gen \in Nat /\ l \in HistoryRequests
         /\ l.got # Unread => l.got \in Seq(HistoryMessages)
  BY DEF HistoryTypeOK, HistoryRequests

LEMMA FetchKeeps ==
  ASSUME HistoryInv, NEW load \in historyLoads, FetchThreadMessages(load), following' = following
  PROVE  HistoryInv'
<1>1. HistoryTypeOK /\ CopiesBegin /\ FrontLoads /\ BadgesKept
  BY DEF HistoryInv
<1>2. /\ load.got = Unread
      /\ historyLoads' = IF IsCurrent(load)
           THEN (historyLoads \ {load}) \cup {[load EXCEPT !.got = storedMessages[load.of]]}
           ELSE historyLoads \ {load}
      /\ UNCHANGED <<frontVars, remoteIds, loadedRemoteId, attemptedRemoteId, loadGeneration,
                     wasMain, reloadNonce, historyError, retryHandler, chatVars, listVars>>
  BY DEF FetchThreadMessages
<1>3. load.of \in ChatThreads /\ load \in HistoryRequests
  BY <1>1, GotMessages
<1>4. PICK read : read = [load EXCEPT !.got = storedMessages[load.of]]
  OBVIOUS
<1>5. /\ read.of = load.of /\ read.gen = load.gen /\ read.asMain = load.asMain
      /\ read.got = storedMessages[load.of] /\ read \in HistoryRequests
  <2>1. storedMessages[load.of] \in Seq(HistoryMessages)
    BY <1>1, <1>3, SeqMessages
  <2> QED BY <1>3, <1>4, <2>1 DEF HistoryRequests
<1>6. /\ UNCHANGED <<mainThread, mounted, leftLater, errorTaken, deletedThreads>>
      /\ UNCHANGED <<transcript, storedMessages, chatRuns, saidIn, answered, blind>>
      /\ UNCHANGED listVars
  BY <1>2 DEF frontVars, chatVars
<1>7. \A l \in historyLoads' : l \in historyLoads \/ l = read
  BY <1>2, <1>4
<1>8. HistoryTypeOK'
  <2>1. historyLoads' \subseteq HistoryRequests
    BY <1>1, <1>5, <1>7 DEF HistoryTypeOK
  <2> QED BY <1>1, <1>2, <1>6, <2>1 DEF HistoryTypeOK
<1>9. CopiesBegin'
  <2>1. Followed' = Followed /\ \A t \in ChatThreads : Waiting(t)' <=> Waiting(t)
    BY <1>2, <1>6, WaitingFrame
  <2>2. \A t \in Followed : EverSaid(t)' = EverSaid(t) /\ t \in ChatThreads
    BY <1>6 DEF EverSaid, Followed
  <2>3. \A l \in historyLoads' : l.of \in Followed /\ l.got # Unread =>
          IF Waiting(l.of) THEN l.got = Earlier(l.of) ELSE Begins(l.got, storedMessages[l.of])
    <3> SUFFICES ASSUME NEW l \in historyLoads', l.of \in Followed, l.got # Unread
                 PROVE  IF Waiting(l.of) THEN l.got = Earlier(l.of) ELSE Begins(l.got, storedMessages[l.of])
      OBVIOUS
    <3>1. CASE l \in historyLoads
      BY <1>1, <3>1 DEF CopiesBegin
    <3>2. CASE l = read
      <4>1. storedMessages[l.of] \in Seq(HistoryMessages)
        BY <1>1, <2>2, SeqMessages
      <4>2. Begins(storedMessages[l.of], storedMessages[l.of])
        BY <4>1 DEF Begins
      <4>3. Waiting(l.of) => storedMessages[l.of] = Earlier(l.of)
        BY <1>1 DEF CopiesBegin
      <4>4. l.got = storedMessages[l.of]
        BY <1>5, <3>2
      <4> QED BY <4>2, <4>3, <4>4
    <3> QED BY <1>7, <3>1, <3>2
  <2>4. \A t \in Followed' :
        IF Waiting(t)'
        THEN /\ transcript'[t] = <<>> /\ storedMessages'[t] = Earlier(t) /\ chatRuns'[t] = "none"
             /\ \A m \in HistoryTurns : saidIn'[m] # t
        ELSE /\ Begins(storedMessages'[t], transcript'[t]) /\ EverSaid(t)' \subseteq ToSet(transcript'[t])
             /\ t \notin FreshThreads => transcript'[t] # <<>>
    BY <1>1, <1>6, <2>1, <2>2 DEF CopiesBegin
  <2>5. \A l \in historyLoads' : l.of \in Followed' /\ l.got # Unread =>
          IF Waiting(l.of)' THEN l.got = Earlier(l.of) ELSE Begins(l.got, storedMessages'[l.of])
    BY <1>6, <2>1, <2>2, <2>3
  <2> QED BY <2>4, <2>5 DEF CopiesBegin
<1>10. FrontLoads'
  <2>1. \A t \in ChatThreads : Waiting(t)' <=> Waiting(t)
    BY <1>2, <1>6, WaitingFrame
  <2>2. \A t \in ChatThreads : isLoading(t) => isLoading(t)'
    <3> SUFFICES ASSUME NEW t \in ChatThreads, NEW l \in historyLoads, l.of = t, IsCurrent(l)
                 PROVE  isLoading(t)'
      BY DEF isLoading
    <3>1. CASE l = load
      <4>1. read \in historyLoads' /\ read.of = t /\ read.gen = loadGeneration'[read.of]
        BY <1>2, <1>4, <1>5, <3>1 DEF IsCurrent
      <4> QED BY <4>1 DEF isLoading, IsCurrent
    <3>2. CASE l # load
      <4>1. l \in historyLoads' /\ l.gen = loadGeneration'[l.of]
        BY <1>2, <3>2 DEF IsCurrent
      <4> QED BY <4>1 DEF isLoading, IsCurrent
    <3> QED BY <3>1, <3>2
  <2>3. \A l \in historyLoads' :
          \E k \in historyLoads : k.of = l.of /\ k.gen = l.gen /\ k.asMain = l.asMain
    BY <1>5, <1>7
  <2> QED BY <1>1, <1>2, <1>6, <2>1, <2>2, <2>3 DEF FrontLoads, IsCurrent
<1>11. BadgesKept'
  BY <1>1, <1>2, <1>6, BadgesFrame
<1> QED BY <1>8, <1>9, <1>10, <1>11 DEF HistoryInv

LEMMA ArrivesKeeps ==
  ASSUME HistoryInv, NEW load \in historyLoads, HistoryArrives(load), following' = following
  PROVE  HistoryInv'
<1>1. HistoryTypeOK /\ CopiesBegin /\ FrontLoads /\ BadgesKept
  BY DEF HistoryInv
<1> DEFINE t == load.of
           live == transcript[t]
<1>2. /\ load.got # Unread /\ historyLoads' = historyLoads \ {load}
      /\ IF IsCurrent(load)
         THEN /\ loadedRemoteId' = loadedRemoteId \cup {t}
              /\ transcript' = [transcript EXCEPT ![t] =
                   IF load.got # <<>> /\ shouldHydrate(load.got, @) THEN load.got ELSE @]
         ELSE UNCHANGED <<loadedRemoteId, transcript>>
      /\ UNCHANGED <<mainThread, mounted, leftLater, errorTaken, deletedThreads, remoteIds, storedMessages,
                     loadGeneration, wasMain, historyError, retryHandler, chatRuns, saidIn, answered, blind,
                     listVars>>
  BY DEF HistoryArrives, frontVars
<1>3. t \in ChatThreads /\ load.got \in Seq(HistoryMessages) /\ live \in Seq(HistoryMessages)
  BY <1>1, <1>2, GotMessages, SeqMessages
<1>4. PICK now : now = IF IsCurrent(load) /\ load.got # <<>> /\ shouldHydrate(load.got, live) THEN load.got ELSE live
  OBVIOUS
<1>5. now \in Seq(HistoryMessages)
  BY <1>3, <1>4
<1>6. transcript' = [transcript EXCEPT ![t] = now]
  <2>1. DOMAIN transcript = ChatThreads /\ transcript = [u \in ChatThreads |-> transcript[u]]
    BY <1>1 DEF HistoryTypeOK
  <2>2. CASE IsCurrent(load)
    BY <1>2, <1>4, <2>2
  <2>3. CASE ~IsCurrent(load)
    BY <1>2, <1>4, <2>1, <2>3
  <2> QED BY <2>2, <2>3
<1>7. transcript' \in [ChatThreads -> Seq(HistoryMessages)] /\ transcript'[t] = now
      /\ \A u \in ChatThreads : u # t => transcript'[u] = transcript[u]
  BY <1>1, <1>3, <1>5, <1>6 DEF HistoryTypeOK
<1>8. Followed' = Followed /\ \A u \in Followed : u \in ChatThreads
  BY <1>2 DEF Followed
<1>9. \A u \in ChatThreads : /\ u # t => (Waiting(u)' <=> Waiting(u))
                             /\ Waiting(u)' => Waiting(u)
                             /\ IsCurrent(load) => ~Waiting(t)'
                             /\ ~IsCurrent(load) => (Waiting(u)' <=> Waiting(u))
  BY <1>2 DEF Waiting
<1>10. t \in Followed =>
          IF Waiting(t)
          THEN load.got = Earlier(t) /\ now = IF IsCurrent(load) THEN Earlier(t) ELSE <<>>
          ELSE now = live /\ Begins(load.got, storedMessages[t])
  <2> SUFFICES ASSUME t \in Followed
               PROVE  IF Waiting(t)
                      THEN load.got = Earlier(t) /\ now = IF IsCurrent(load) THEN Earlier(t) ELSE <<>>
                      ELSE now = live /\ Begins(load.got, storedMessages[t])
    OBVIOUS
  <2>1. CASE Waiting(t)
    <3>1. load.got = Earlier(t) /\ live = <<>>
      BY <1>1, <1>2, <2>1 DEF CopiesBegin
    <3>2. Earlier(t) # <<>>
      BY <1>3, EarlierFacts
    <3>3. shouldHydrate(load.got, live)
      BY <3>1 DEF shouldHydrate
    <3> QED BY <1>4, <2>1, <3>1, <3>2, <3>3
  <2>2. CASE ~Waiting(t)
    <3>1. Begins(load.got, storedMessages[t]) /\ Begins(storedMessages[t], live)
      BY <1>1, <1>2, <2>2 DEF CopiesBegin
    <3>2. storedMessages[t] \in Seq(HistoryMessages)
      BY <1>1, <1>3, SeqMessages
    <3>3. Begins(load.got, live)
      BY <1>3, <3>1, <3>2, BeginsFacts
    <3>4. shouldHydrate(load.got, live) => live = <<>> \/ Len(load.got) >= Len(live)
      BY DEF shouldHydrate
    <3>5. live = <<>> => load.got = <<>>
      BY <1>3, <3>3, BeginsFacts
    <3>6. Len(load.got) >= Len(live) => load.got = live
      BY <1>3, <3>3, BeginsFacts
    <3> QED BY <1>4, <2>2, <3>1, <3>4, <3>5, <3>6
  <2> QED BY <2>1, <2>2
<1> HIDE DEF t, live
<1>11. HistoryTypeOK'
  BY <1>1, <1>2, <1>7 DEF HistoryTypeOK
<1>12. CopiesBegin'
  <2>1. \A u \in Followed : EverSaid(u)' = EverSaid(u)
    BY <1>2 DEF EverSaid
  <2>2. Begins(Earlier(t), Earlier(t)) /\ Earlier(t) # <<>>
    BY <1>3, EarlierFacts
  <2>3. \A u \in Followed :
        IF Waiting(u)'
        THEN /\ transcript'[u] = <<>> /\ storedMessages[u] = Earlier(u) /\ chatRuns[u] = "none"
             /\ \A m \in HistoryTurns : saidIn[m] # u
        ELSE /\ Begins(storedMessages[u], transcript'[u]) /\ EverSaid(u) \subseteq ToSet(transcript'[u])
             /\ u \notin FreshThreads => transcript'[u] # <<>>
    <3> SUFFICES ASSUME NEW u \in Followed
                 PROVE  IF Waiting(u)'
        THEN /\ transcript'[u] = <<>> /\ storedMessages[u] = Earlier(u) /\ chatRuns[u] = "none"
             /\ \A m \in HistoryTurns : saidIn[m] # u
        ELSE /\ Begins(storedMessages[u], transcript'[u]) /\ EverSaid(u) \subseteq ToSet(transcript'[u])
             /\ u \notin FreshThreads => transcript'[u] # <<>>
      OBVIOUS
    <3>1. CASE u # t
      BY <1>1, <1>7, <1>8, <1>9, <3>1 DEF CopiesBegin
    <3>2. CASE u = t /\ ~Waiting(t)
      <4>1. now = live /\ ~Waiting(t)'
        BY <1>8, <1>9, <1>10, <3>2
      <4>2. transcript'[t] = transcript[t]
        BY <4>1, <1>7 DEF live
      <4> QED BY <1>1, <3>2, <4>1, <4>2 DEF CopiesBegin
    <3>3. CASE u = t /\ Waiting(t) /\ ~IsCurrent(load)
      <4>1. transcript'[t] = <<>> /\ Waiting(t)'
        BY <1>3, <1>7, <1>9, <1>10, <3>3
      <4> QED BY <1>1, <3>3, <4>1 DEF CopiesBegin
    <3>4. CASE u = t /\ Waiting(t) /\ IsCurrent(load)
      <4>1. transcript'[t] = Earlier(t) /\ ~Waiting(t)'
        BY <1>3, <1>7, <1>9, <1>10, <3>4
      <4>2. storedMessages[t] = Earlier(t) /\ \A m \in HistoryTurns : saidIn[m] # t
        BY <1>1, <3>4 DEF CopiesBegin
      <4>3. EverSaid(t) \subseteq ToSet(Earlier(t))
        BY <4>2 DEF EverSaid
      <4> QED BY <2>2, <3>4, <4>1, <4>2, <4>3
    <3> QED BY <3>1, <3>2, <3>3, <3>4
  <2>4. \A l \in historyLoads' : l.of \in Followed /\ l.got # Unread =>
          IF Waiting(l.of)' THEN l.got = Earlier(l.of) ELSE Begins(l.got, storedMessages[l.of])
    <3> SUFFICES ASSUME NEW l \in historyLoads', l.of \in Followed, l.got # Unread
                 PROVE  IF Waiting(l.of)' THEN l.got = Earlier(l.of) ELSE Begins(l.got, storedMessages[l.of])
      OBVIOUS
    <3>1. IF Waiting(l.of) THEN l.got = Earlier(l.of) ELSE Begins(l.got, storedMessages[l.of])
      BY <1>1, <1>2 DEF CopiesBegin
    <3>2. CASE l.of = t /\ Waiting(t)
      <4>1. storedMessages[t] = Earlier(t)
        BY <1>1, <3>2 DEF CopiesBegin
      <4> QED BY <2>2, <3>1, <3>2, <4>1
    <3>3. CASE ~(l.of = t /\ Waiting(t))
      BY <1>8, <1>9, <3>1, <3>3
    <3> QED BY <3>2, <3>3
  <2> QED BY <1>2, <1>8, <2>1, <2>3, <2>4 DEF CopiesBegin
<1>13. FrontLoads'
  <2>1. \A l \in historyLoads' : l \in historyLoads /\ (IsCurrent(l)' <=> IsCurrent(l))
    BY <1>2 DEF IsCurrent
  <2>2. \A u \in ChatThreads : Waiting(u)' /\ isLoading(u) => isLoading(u)'
    <3> SUFFICES ASSUME NEW u \in ChatThreads, Waiting(u)', NEW l \in historyLoads, l.of = u, IsCurrent(l)
                 PROVE  isLoading(u)'
      BY DEF isLoading
    <3>1. l # load
      BY <1>9 DEF t
    <3>2. l \in historyLoads' /\ l.gen = loadGeneration'[l.of]
      BY <1>2, <3>1 DEF IsCurrent
    <3> QED BY <3>2 DEF isLoading, IsCurrent
  <2> QED BY <1>1, <1>2, <1>9, <2>1, <2>2 DEF FrontLoads
<1>14. BadgesKept'
  BY <1>1, <1>2, BadgesFrame
<1> QED BY <1>11, <1>12, <1>13, <1>14 DEF HistoryInv

LEMMA FailedKeeps ==
  ASSUME HistoryInv, NEW load \in historyLoads, HistoryFailed(load), following' = following
  PROVE  HistoryInv'
<1>1. HistoryTypeOK /\ CopiesBegin /\ FrontLoads /\ BadgesKept
  BY DEF HistoryInv
<1>2. /\ IsCurrent(load) /\ historyLoads' = historyLoads \ {load}
      /\ historyError' = IF load.asMain THEN load.of ELSE historyError
      /\ errorTaken' = IF load.asMain THEN load.of # mainThread /\ (errorTaken \/ historyError = mainThread)
                       ELSE errorTaken
      /\ UNCHANGED <<mainThread, mounted, leftLater, deletedThreads, remoteIds, loadedRemoteId,
                     loadGeneration, wasMain, retryHandler, chatVars, listVars>>
  BY DEF HistoryFailed
<1>3. UNCHANGED <<transcript, storedMessages, chatRuns, saidIn, answered, blind>>
  BY <1>2 DEF chatVars
<1>4. HistoryTypeOK'
  BY <1>1, <1>2, <1>3 DEF HistoryTypeOK
<1>6. \A t \in ChatThreads : Waiting(t)' <=> Waiting(t)
  BY <1>2, <1>3, WaitingFrame
<1>5. CopiesBegin'
  BY <1>1, <1>2, <1>6, CopiesFrame
<1>7. \A l \in historyLoads' : l \in historyLoads /\ (IsCurrent(l)' <=> IsCurrent(l))
  BY <1>2 DEF IsCurrent
<1>8. \A t \in ChatThreads : isLoading(t) => isLoading(t)' \/ load.of = t
  <2> SUFFICES ASSUME NEW t \in ChatThreads, NEW l \in historyLoads, l.of = t, IsCurrent(l), load.of # t
               PROVE  isLoading(t)'
    BY DEF isLoading
  <2>1. l \in historyLoads' /\ l.gen = loadGeneration'[l.of]
    BY <1>2 DEF IsCurrent
  <2> QED BY <2>1 DEF isLoading, IsCurrent
<1>9. \A t \in ChatThreads : t = mainThread /\ Waiting(t) => isLoading(t)' \/ historyError' = t \/ errorTaken'
  <2> SUFFICES ASSUME NEW t \in ChatThreads, t = mainThread, Waiting(t)
               PROVE  isLoading(t)' \/ historyError' = t \/ errorTaken'
    OBVIOUS
  <2>1. CASE load.of = t
    <3>1. load.asMain
      BY <1>1, <1>2, <2>1 DEF FrontLoads
    <3> QED BY <1>2, <2>1, <3>1
  <2>2. CASE load.of # t
    <3>1. isLoading(t) \/ historyError = t \/ errorTaken
      BY <1>1 DEF FrontLoads
    <3> QED BY <1>2, <1>8, <2>2, <3>1
  <2> QED BY <2>1, <2>2
<1>10. FrontLoads'
  BY <1>1, <1>2, <1>6, <1>7, <1>9 DEF FrontLoads
<1>11. BadgesKept'
  BY <1>1, <1>2, <1>3, BadgesFrame
<1> QED BY <1>4, <1>5, <1>10, <1>11 DEF HistoryInv

\* An effect that asks for a history says nothing yet.
LEMMA EffectsKeepCopies ==
  ASSUME HistoryTypeOK, CopiesBegin, NEW ts \in SUBSET ChatThreads, NEW main, NEW remote, NEW loaded,
         NEW attempted, NEW nonce, NEW error,
         RunEffects(ts, main, remote, loaded, attempted, nonce, error),
         UNCHANGED <<chatVars, deletedThreads>>, loaded = loadedRemoteId
  PROVE  CopiesBegin'
<1>1. EffectsDone(ts, main, remote, loaded, attempted, nonce, error)
  BY EffectsFacts
<1>2. loadedRemoteId' = loadedRemoteId /\ \A l \in historyLoads' : l \in historyLoads \/ l.got = Unread
  BY <1>1 DEF EffectsDone
<1>3. blind' = blind
  BY DEF chatVars
<1>4. \A t \in ChatThreads : Waiting(t)' <=> Waiting(t)
  BY <1>2, <1>3, WaitingFrame
<1> QED BY <1>2, <1>4, CopiesFrame

LEMMA SwitchKeeps ==
  ASSUME HistoryInv, NEW t \in ChatThreads, SwitchToThread(t), following' = following
  PROVE  HistoryInv'
<1>1. HistoryTypeOK /\ CopiesBegin /\ FrontLoads /\ BadgesKept
  BY DEF HistoryInv
<1>2. /\ t \notin deletedThreads \cup {mainThread} /\ mainThread' = t
      /\ RunEffects({mainThread, t}, t, remoteIds, loadedRemoteId, attemptedRemoteId, reloadNonce, historyError)
      /\ retryHandler' = IF t \in remoteIds /\ ~leftLater' THEN t ELSE NoThread
      /\ leftAt' = IF following = "badges" THEN [leftAt EXCEPT ![mainThread] = Finished] ELSE leftAt
      /\ ackedAt' = ackTerminal(ackedAt, activityMap, t)
      /\ UNCHANGED <<deletedThreads, remoteIds, chatVars, serverActivity, activityMap, polling>>
  BY DEF SwitchToThread
<1>3. UNCHANGED <<transcript, storedMessages, chatRuns, saidIn, answered, blind>>
  BY <1>2 DEF chatVars
<1>4. {mainThread, t} \in SUBSET ChatThreads /\ mainThread \in ChatThreads
  BY <1>1 DEF HistoryTypeOK
<1>5. EffectsDone({mainThread, t}, t, remoteIds, loadedRemoteId, attemptedRemoteId, reloadNonce, historyError)
  BY <1>1, <1>2, <1>4, EffectsFacts
<1>6. HistoryTypeOK'
  BY <1>1, <1>2, <1>3, <1>5 DEF HistoryTypeOK, EffectsDone
<1>7. CopiesBegin'
  BY <1>1, <1>2, <1>4, EffectsKeepCopies
<1>8. \A u \in ChatThreads : Waiting(u)' <=> Waiting(u)
  BY <1>3, <1>5 DEF Waiting, EffectsDone
<1>9. FrontLoads'
  <2>1. \A l \in historyLoads' : l.gen <= loadGeneration'[l.of]
    BY <1>1, <1>2, <1>4, EffectsLoad
  <2>2. wasMain' \subseteq {mainThread'} \cap remoteIds'
    BY <1>1, <1>2, <1>5 DEF EffectsDone, FrontLoads
  <2>3. Waiting(t) => MayLoad(t, t, remoteIds, loadedRemoteId, attemptedRemoteId, reloadNonce)
    BY <1>1, <1>2 DEF Waiting, MayLoad, HistoryTypeOK, FrontLoads
  <2>4. Waiting(t) =>
          /\ isLoading(t)'
          /\ \A l \in historyLoads' : l.of = t /\ IsCurrent(l)' => l.asMain
    <3>1. IF t \in {mainThread, t} /\ MayLoad(t, t, remoteIds, loadedRemoteId, attemptedRemoteId, reloadNonce)
          THEN /\ isLoading(t)'
               /\ \A l \in historyLoads' : l.of = t /\ IsCurrent(l)' => l.asMain = (t = t)
          ELSE TRUE
      BY <1>1, <1>2, <1>4, EffectsLoad
    <3> QED BY <2>3, <3>1
  <2>5. retryHandler' \in {t, NoThread} /\ (t \in remoteIds => retryHandler' = t \/ leftLater')
    BY <1>2
  <2> QED BY <1>2, <1>8, <2>1, <2>2, <2>4, <2>5 DEF FrontLoads
<1>10. BadgesKept'
  <2>1. Finished' = Finished /\ Finished \in Nat
    BY <1>1, <1>3, <1>4, SeqMessages DEF Finished
  <2>2. ackedAt' \in [ChatThreads -> Nat] /\ leftAt' \in [ChatThreads -> Nat]
    BY <1>1, <1>2, <2>1 DEF BadgesKept, ackTerminal, Activities
  <2>3. \A u \in ChatThreads : ackedAt'[u] <= Finished /\ (u # t => ackedAt'[u] = ackedAt[u])
    BY <1>1, <1>2 DEF BadgesKept, ackTerminal
  <2>4. \A u \in ChatThreads : following = "badges" /\ u # t => ackedAt'[u] <= leftAt'[u]
    <3> SUFFICES ASSUME NEW u \in ChatThreads, following = "badges", u # t PROVE ackedAt'[u] <= leftAt'[u]
      OBVIOUS
    <3>1. CASE u = mainThread
      <4>1. leftAt'[u] = Finished
        BY <1>1, <1>2, <3>1 DEF BadgesKept
      <4> QED BY <2>3, <4>1
    <3>2. CASE u # mainThread
      <4>1. leftAt'[u] = leftAt[u]
        BY <1>1, <1>2, <3>2 DEF BadgesKept
      <4>2. ackedAt[u] <= leftAt[u]
        BY <1>1, <3>2 DEF BadgesKept
      <4> QED BY <2>3, <4>1, <4>2
    <3> QED BY <3>1, <3>2
  <2> QED BY <1>1, <1>2, <2>1, <2>2, <2>3, <2>4 DEF BadgesKept
<1> QED BY <1>6, <1>7, <1>9, <1>10 DEF HistoryInv

LEMMA RetitleKeeps ==
  ASSUME HistoryInv, NEW t \in ChatThreads, Retitle(t), following' = following
  PROVE  HistoryInv'
<1>1. HistoryTypeOK /\ CopiesBegin /\ FrontLoads /\ BadgesKept
  BY DEF HistoryInv
<1>2. /\ RunEffects({t}, mainThread, remoteIds, loadedRemoteId, attemptedRemoteId, reloadNonce, historyError)
      /\ UNCHANGED <<mainThread, leftLater, errorTaken, deletedThreads, remoteIds, retryHandler, chatVars, listVars>>
  BY DEF Retitle, frontVars
<1>3. UNCHANGED <<transcript, storedMessages, chatRuns, saidIn, answered, blind>>
  BY <1>2 DEF chatVars
<1>4. {t} \in SUBSET ChatThreads /\ mainThread \in ChatThreads
  BY <1>1 DEF HistoryTypeOK
<1>5. EffectsDone({t}, mainThread, remoteIds, loadedRemoteId, attemptedRemoteId, reloadNonce, historyError)
  BY <1>1, <1>2, <1>4, EffectsFacts
<1>6. HistoryTypeOK'
  BY <1>1, <1>2, <1>3, <1>5 DEF HistoryTypeOK, EffectsDone
<1>7. CopiesBegin'
  BY <1>1, <1>2, <1>4, EffectsKeepCopies
<1>8. \A u \in ChatThreads : Waiting(u)' <=> Waiting(u)
  BY <1>3, <1>5 DEF Waiting, EffectsDone
<1>9. FrontLoads'
  <2>1. \A l \in historyLoads' : l.gen <= loadGeneration'[l.of]
    BY <1>1, <1>2, <1>4, EffectsLoad
  <2>2. wasMain' \subseteq {mainThread'} \cap remoteIds'
    BY <1>1, <1>2, <1>5 DEF EffectsDone, FrontLoads
  <2>3. \A u \in ChatThreads : u = mainThread /\ Waiting(u) =>
          /\ isLoading(u)' \/ historyError' = u \/ errorTaken
          /\ \A l \in historyLoads' : l.of = u /\ IsCurrent(l)' => l.asMain
    <3> SUFFICES ASSUME NEW u \in ChatThreads, u = mainThread, Waiting(u)
                 PROVE  /\ isLoading(u)' \/ historyError' = u \/ errorTaken
                        /\ \A l \in historyLoads' : l.of = u /\ IsCurrent(l)' => l.asMain
      OBVIOUS
    <3>1. IF u \in {t} /\ MayLoad(u, mainThread, remoteIds, loadedRemoteId, attemptedRemoteId, reloadNonce)
          THEN /\ isLoading(u)'
               /\ \A l \in historyLoads' : l.of = u /\ IsCurrent(l)' => l.asMain = (u = mainThread)
          ELSE /\ isLoading(u) => isLoading(u)'
               /\ \A l \in historyLoads' : l.of = u /\ IsCurrent(l)' =>
                    (l \in historyLoads /\ IsCurrent(l)) \/ l.asMain = (u = mainThread)
      BY <1>1, <1>2, <1>4, EffectsLoad
    <3>2. /\ isLoading(u) \/ historyError = u \/ errorTaken
          /\ \A l \in historyLoads : l.of = u /\ IsCurrent(l) => l.asMain
      BY <1>1 DEF FrontLoads
    <3>3. historyError' = u <=> historyError = u
            /\ ~(u \in {t} /\ MayLoad(u, mainThread, remoteIds, loadedRemoteId, attemptedRemoteId, reloadNonce))
      BY <1>5 DEF EffectsDone
    <3> QED BY <3>1, <3>2, <3>3
  <2> QED BY <1>1, <1>2, <1>8, <2>1, <2>2, <2>3 DEF FrontLoads
<1>10. BadgesKept'
  BY <1>1, <1>2, <1>3, BadgesFrame
<1> QED BY <1>6, <1>7, <1>9, <1>10 DEF HistoryInv

LEMMA InitializeKeeps ==
  ASSUME HistoryInv, NEW t \in ChatThreads, Initialize(t), following' = following
  PROVE  HistoryInv'
<1>1. HistoryTypeOK /\ CopiesBegin /\ FrontLoads /\ BadgesKept
  BY DEF HistoryInv
<1> DEFINE remote == remoteIds \cup {t}
<1>2. /\ t \notin remoteIds \cup deletedThreads /\ remoteIds' = remote
      /\ RunEffects({t}, mainThread, remote, loadedRemoteId, attemptedRemoteId, reloadNonce, historyError)
      /\ retryHandler' = IF t = mainThread THEN t ELSE retryHandler
      /\ UNCHANGED <<mainThread, leftLater, errorTaken, deletedThreads, chatVars, listVars>>
  BY DEF Initialize, frontVars
<1>3. UNCHANGED <<transcript, storedMessages, chatRuns, saidIn, answered, blind>>
  BY <1>2 DEF chatVars
<1>4. {t} \in SUBSET ChatThreads /\ mainThread \in ChatThreads /\ t \in FreshThreads
  BY <1>1, <1>2 DEF HistoryTypeOK
<1>5. EffectsDone({t}, mainThread, remote, loadedRemoteId, attemptedRemoteId, reloadNonce, historyError)
  BY <1>1, <1>2, <1>4, EffectsFacts
<1>6. HistoryTypeOK'
  BY <1>1, <1>2, <1>3, <1>5 DEF HistoryTypeOK, EffectsDone
<1>7. CopiesBegin'
  BY <1>1, <1>2, <1>4, EffectsKeepCopies
<1>8. \A u \in ChatThreads : Waiting(u)' <=> Waiting(u)
  BY <1>3, <1>5 DEF Waiting, EffectsDone
<1>9. FrontLoads'
  <2>1. \A l \in historyLoads' : l.gen <= loadGeneration'[l.of]
    BY <1>1, <1>2, <1>4, EffectsLoad
  <2>2. wasMain' \subseteq {mainThread'} \cap remoteIds'
    BY <1>1, <1>2, <1>5 DEF EffectsDone, FrontLoads
  <2>3. \A u \in ChatThreads : u = mainThread /\ Waiting(u) =>
          /\ isLoading(u)' \/ historyError' = u \/ errorTaken
          /\ \A l \in historyLoads' : l.of = u /\ IsCurrent(l)' => l.asMain
    <3> SUFFICES ASSUME NEW u \in ChatThreads, u = mainThread, Waiting(u)
                 PROVE  /\ isLoading(u)' \/ historyError' = u \/ errorTaken
                        /\ \A l \in historyLoads' : l.of = u /\ IsCurrent(l)' => l.asMain
      OBVIOUS
    <3>1. IF u \in {t} /\ MayLoad(u, mainThread, remote, loadedRemoteId, attemptedRemoteId, reloadNonce)
          THEN /\ isLoading(u)'
               /\ \A l \in historyLoads' : l.of = u /\ IsCurrent(l)' => l.asMain = (u = mainThread)
          ELSE /\ isLoading(u) => isLoading(u)'
               /\ \A l \in historyLoads' : l.of = u /\ IsCurrent(l)' =>
                    (l \in historyLoads /\ IsCurrent(l)) \/ l.asMain = (u = mainThread)
      BY <1>1, <1>2, <1>4, EffectsLoad
    <3>2. /\ isLoading(u) \/ historyError = u \/ errorTaken
          /\ \A l \in historyLoads : l.of = u /\ IsCurrent(l) => l.asMain
      BY <1>1 DEF FrontLoads
    <3>3. historyError' = u <=> historyError = u
            /\ ~(u \in {t} /\ MayLoad(u, mainThread, remote, loadedRemoteId, attemptedRemoteId, reloadNonce))
      BY <1>5 DEF EffectsDone
    <3> QED BY <3>1, <3>2, <3>3
  <2>4. /\ retryHandler' \in {mainThread, NoThread}
        /\ mainThread \in remoteIds' => retryHandler' = mainThread \/ leftLater
    BY <1>1, <1>2 DEF FrontLoads
  <2> QED BY <1>1, <1>2, <1>8, <2>1, <2>2, <2>3, <2>4 DEF FrontLoads
<1>10. BadgesKept'
  BY <1>1, <1>2, <1>3, BadgesFrame
<1> QED BY <1>6, <1>7, <1>9, <1>10 DEF HistoryInv

LEMMA ReloadKeeps ==
  ASSUME HistoryInv, ReloadHistory, following' = following
  PROVE  HistoryInv'
<1>1. HistoryTypeOK /\ CopiesBegin /\ FrontLoads /\ BadgesKept
  BY DEF HistoryInv
<1> DEFINE loaded == loadedRemoteId \ {mainThread}
           attempted == attemptedRemoteId \ {mainThread}
           error == IF historyError = mainThread THEN NoThread ELSE historyError
<1>2. retryHandler = mainThread
  BY <1>1 DEF ReloadHistory, FrontLoads
<1>3. /\ ShowsError
      /\ RunEffects({mainThread}, mainThread, remoteIds, loaded, attempted, reloadNonce', error)
      /\ reloadNonce' = reloadNonce \cup {mainThread}
      /\ UNCHANGED <<mainThread, leftLater, errorTaken, deletedThreads, remoteIds, retryHandler, chatVars, listVars>>
  BY <1>2 DEF ReloadHistory, frontVars
<1>4. UNCHANGED <<transcript, storedMessages, chatRuns, saidIn, answered, blind>>
  BY <1>3 DEF chatVars
<1>5. {mainThread} \in SUBSET ChatThreads /\ mainThread \in ChatThreads /\ mainThread \notin deletedThreads
  BY <1>1 DEF HistoryTypeOK
<1>6. PICK nonce : nonce = reloadNonce'
  OBVIOUS
<1>7. RunEffects({mainThread}, mainThread, remoteIds, loaded, attempted, nonce, error)
  BY <1>3, <1>6
<1>8. EffectsDone({mainThread}, mainThread, remoteIds, loaded, attempted, nonce, error)
  BY <1>1, <1>5, <1>7, EffectsFacts
<1>9. HistoryTypeOK'
  BY <1>1, <1>3, <1>4, <1>8 DEF HistoryTypeOK, EffectsDone
<1>10. \A u \in ChatThreads : Waiting(u)' <=> Waiting(u)
  <2>1. loadedRemoteId' = loadedRemoteId \ {mainThread}
    BY <1>8 DEF EffectsDone
  <2>2. mainThread \in loadedRemoteId => mainThread \in FreshThreads \cup blind
    <3>1. transcript[mainThread] = <<>>
      BY <1>3 DEF ShowsError
    <3> QED BY <1>1, <1>5, <3>1 DEF CopiesBegin, Followed, Waiting
  <2> QED BY <1>4, <2>1, <2>2 DEF Waiting
<1>11. CopiesBegin'
  <2>1. \A l \in historyLoads' : l \in historyLoads \/ l.got = Unread
    BY <1>8 DEF EffectsDone
  <2> QED BY <1>1, <1>3, <1>10, <2>1, CopiesFrame
<1>12. FrontLoads'
  <2>1. \A l \in historyLoads' : l.gen <= loadGeneration'[l.of]
    BY <1>1, <1>5, <1>7, EffectsLoad
  <2>2. wasMain' \subseteq {mainThread'} \cap remoteIds'
    BY <1>1, <1>3, <1>8 DEF EffectsDone, FrontLoads
  <2>3. MayLoad(mainThread, mainThread, remoteIds, loaded, attempted, nonce)
    BY <1>3 DEF MayLoad, ShowsError
  <2>4. /\ isLoading(mainThread)'
        /\ \A l \in historyLoads' : l.of = mainThread /\ IsCurrent(l)' => l.asMain
    <3>1. PICK u \in ChatThreads : u = mainThread
      BY <1>5
    <3>2. IF u \in {mainThread} /\ MayLoad(u, mainThread, remoteIds, loaded, attempted, nonce)
          THEN /\ isLoading(u)'
               /\ \A l \in historyLoads' : l.of = u /\ IsCurrent(l)' => l.asMain = (u = mainThread)
          ELSE TRUE
      BY <1>1, <1>5, <1>7, EffectsLoad
    <3>3. /\ isLoading(u)'
          /\ \A l \in historyLoads' : l.of = u /\ IsCurrent(l)' => l.asMain
      BY <2>3, <3>1, <3>2
    <3> QED BY <1>3, <3>1, <3>3 DEF isLoading, IsCurrent
  <2> QED BY <1>1, <1>3, <1>5, <1>10, <2>1, <2>2, <2>4 DEF FrontLoads, isLoading, IsCurrent
<1>13. BadgesKept'
  BY <1>1, <1>3, <1>4, BadgesFrame
<1> QED BY <1>9, <1>11, <1>12, <1>13 DEF HistoryInv

LEMMA DeleteKeeps ==
  ASSUME HistoryInv, NEW t \in ChatThreads, DeleteThread(t), following' = following
  PROVE  HistoryInv'
<1>1. HistoryTypeOK /\ CopiesBegin /\ FrontLoads /\ BadgesKept
  BY DEF HistoryInv
<1>2. /\ t \in remoteIds \ {mainThread}
      /\ remoteIds' = remoteIds \ {t} /\ deletedThreads' = deletedThreads \cup {t}
      /\ historyLoads' = {l \in historyLoads : l.of # t}
      /\ storedMessages' = [storedMessages EXCEPT ![t] = <<>>]
      /\ UNCHANGED <<leftLater, errorTaken, mainThread, transcript, loadedRemoteId, attemptedRemoteId, loadGeneration,
                     wasMain, historyError, retryHandler, chatRuns, saidIn, answered, blind, listVars>>
  BY DEF DeleteThread
<1>3. HistoryTypeOK'
  <2>1. storedMessages' \in [ChatThreads -> Seq(HistoryMessages)]
    BY <1>1, <1>2 DEF HistoryTypeOK
  <2> QED BY <1>1, <1>2, <2>1 DEF HistoryTypeOK
<1>4. /\ \A u \in ChatThreads : Waiting(u)' <=> Waiting(u)
      /\ \A u \in Followed' : u \in Followed /\ u # t /\ u \in ChatThreads
      /\ \A u \in ChatThreads \ {t} : storedMessages'[u] = storedMessages[u]
  BY <1>1, <1>2 DEF Waiting, Followed, HistoryTypeOK
<1>5. CopiesBegin'
  <2>1. \A u \in Followed' : EverSaid(u)' = EverSaid(u)
    BY <1>2 DEF EverSaid
  <2>2. \A u \in Followed' :
        IF Waiting(u)'
        THEN /\ transcript'[u] = <<>> /\ storedMessages'[u] = Earlier(u) /\ chatRuns'[u] = "none"
             /\ \A m \in HistoryTurns : saidIn'[m] # u
        ELSE /\ Begins(storedMessages'[u], transcript'[u]) /\ EverSaid(u)' \subseteq ToSet(transcript'[u])
             /\ u \notin FreshThreads => transcript'[u] # <<>>
    BY <1>1, <1>2, <1>4, <2>1 DEF CopiesBegin
  <2>3. \A l \in historyLoads' : l.of \in Followed' /\ l.got # Unread =>
          IF Waiting(l.of)' THEN l.got = Earlier(l.of) ELSE Begins(l.got, storedMessages'[l.of])
    BY <1>1, <1>2, <1>4 DEF CopiesBegin
  <2> QED BY <2>2, <2>3 DEF CopiesBegin
<1>6. FrontLoads'
  <2>1. \A l \in historyLoads' : l \in historyLoads /\ (IsCurrent(l)' <=> IsCurrent(l))
    BY <1>2 DEF IsCurrent
  <2>2. \A u \in ChatThreads \ {t} : isLoading(u) => isLoading(u)'
    BY <1>2 DEF isLoading, IsCurrent
  <2> QED BY <1>1, <1>2, <1>4, <2>1, <2>2 DEF FrontLoads
<1>7. BadgesKept'
  BY <1>1, <1>2, BadgesFrame
<1> QED BY <1>3, <1>5, <1>6, <1>7 DEF HistoryInv

LEMMA SayKeeps ==
  ASSUME HistoryInv, NEW m \in HistoryTurns, Say(m), following' = following
  PROVE  HistoryInv'
<1>1. HistoryTypeOK /\ CopiesBegin /\ FrontLoads /\ BadgesKept
  BY DEF HistoryInv
<1>0. PICK t : t = mainThread
  OBVIOUS
<1>2. /\ saidIn' = [saidIn EXCEPT ![m] = t]
      /\ transcript' = [transcript EXCEPT ![t] = Append(@, SaidOf(m))]
      /\ chatRuns' = [chatRuns EXCEPT ![t] = "sending"]
      /\ blind' = IF t \notin FreshThreads /\ t \notin loadedRemoteId THEN blind \cup {t} ELSE blind
      /\ UNCHANGED <<mainThread, leftLater, errorTaken, deletedThreads, remoteIds, storedMessages, loadVars,
                     retryHandler, answered, listVars>>
  BY <1>0 DEF Say, frontVars
<1>3. UNCHANGED <<loadedRemoteId, loadGeneration, wasMain, historyLoads, historyError>>
  BY <1>2 DEF loadVars
<1>4. t \in ChatThreads /\ transcript[t] \in Seq(HistoryMessages) /\ SaidOf(m) \in HistoryMessages
  BY <1>0, <1>1, SeqMessages DEF HistoryTypeOK, SaidOf, HistoryMessages
<1>5. Append(transcript[t], SaidOf(m)) \in Seq(HistoryMessages) /\ Append(transcript[t], SaidOf(m)) # <<>>
      /\ ToSet(Append(transcript[t], SaidOf(m))) = ToSet(transcript[t]) \cup {SaidOf(m)}
  BY <1>4, ToSetAppend
<1>6. /\ transcript'[t] = Append(transcript[t], SaidOf(m)) /\ transcript' \in [ChatThreads -> Seq(HistoryMessages)]
      /\ \A u \in ChatThreads : u # t => transcript'[u] = transcript[u] /\ chatRuns'[u] = chatRuns[u]
      /\ chatRuns' \in [ChatThreads -> {"none", "sending", "running"}]
      /\ saidIn' \in [HistoryTurns -> ChatThreads \cup {NoThread}]
      /\ saidIn'[m] = t /\ \A n \in HistoryTurns : n # m => saidIn'[n] = saidIn[n]
  BY <1>1, <1>2, <1>4, <1>5 DEF HistoryTypeOK
<1>7. HistoryTypeOK'
  BY <1>1, <1>2, <1>3, <1>6 DEF HistoryTypeOK
<1>8. /\ ~Waiting(t)'
      /\ \A u \in ChatThreads : Waiting(u)' => Waiting(u)
      /\ Followed' \subseteq Followed /\ Followed \subseteq ChatThreads
      /\ \A u \in Followed' : Waiting(u)' <=> Waiting(u)
  BY <1>2, <1>3 DEF Waiting, Followed
<1>9. CopiesBegin'
  <2>1. \A u \in ChatThreads : u # t => EverSaid(u)' = EverSaid(u)
    <3> SUFFICES ASSUME NEW u \in ChatThreads, u # t PROVE EverSaid(u)' = EverSaid(u)
      OBVIOUS
    <3>1. saidIn[m] # u \/ t = u \/ saidIn[m] = u
      OBVIOUS
    <3>2. saidIn[m] = NoThread /\ NoThread # u
      BY ThreadHistoryAssumption DEF Say
    <3>3. {n \in HistoryTurns : saidIn'[n] = u} = {n \in HistoryTurns : saidIn[n] = u}
      BY <1>6, <3>2
    <3> QED BY <3>3 DEF EverSaid
  <2>2. EverSaid(t)' \subseteq EverSaid(t) \cup {SaidOf(m)}
    <3>1. {n \in HistoryTurns : saidIn'[n] = t} \subseteq {n \in HistoryTurns : saidIn[n] = t} \cup {m}
      BY <1>6
    <3> QED BY <3>1 DEF EverSaid
  <2>3. SUFFICES ASSUME NEW u \in Followed'
        PROVE IF Waiting(u)
              THEN /\ transcript'[u] = <<>> /\ storedMessages[u] = Earlier(u) /\ chatRuns'[u] = "none"
                   /\ \A n \in HistoryTurns : saidIn'[n] # u
              ELSE /\ Begins(storedMessages[u], transcript'[u]) /\ EverSaid(u)' \subseteq ToSet(transcript'[u])
                   /\ u \notin FreshThreads => transcript'[u] # <<>>
    <3>1. \A l \in historyLoads' : l.of \in Followed' /\ l.got # Unread =>
            IF Waiting(l.of)' THEN l.got = Earlier(l.of) ELSE Begins(l.got, storedMessages'[l.of])
      BY <1>1, <1>2, <1>3, <1>8 DEF CopiesBegin
    <3> QED BY <1>2, <1>8, <2>3, <3>1 DEF CopiesBegin
  <2>4. IF Waiting(u)
        THEN /\ transcript[u] = <<>> /\ storedMessages[u] = Earlier(u) /\ chatRuns[u] = "none"
             /\ \A n \in HistoryTurns : saidIn[n] # u
        ELSE /\ Begins(storedMessages[u], transcript[u]) /\ EverSaid(u) \subseteq ToSet(transcript[u])
             /\ u \notin FreshThreads => transcript[u] # <<>>
    BY <1>1, <1>8 DEF CopiesBegin
  <2>5. CASE u # t
    BY <1>6, <1>8, <2>1, <2>4, <2>5
  <2>6. CASE u = t
    <3>1. ~Waiting(u)
      BY <1>8, <2>6
    <3>2. Begins(storedMessages[t], Append(transcript[t], SaidOf(m)))
      BY <1>1, <1>4, <2>4, <2>6, <3>1, BeginsFacts, SeqMessages
    <3> QED BY <1>5, <1>6, <2>2, <2>4, <2>6, <3>1, <3>2
  <2> QED BY <2>5, <2>6
<1>10. FrontLoads'
  BY <1>1, <1>2, <1>8, FrontFrame
<1>11. BadgesKept'
  BY <1>1, <1>2, BadgesFrame
<1> QED BY <1>7, <1>9, <1>10, <1>11 DEF HistoryInv

\* A run was begun only in a thread whose history is there.
LEMMA RunningHasHistory ==
  ASSUME HistoryInv, NEW t \in Followed, chatRuns[t] # "none"
  PROVE  /\ ~Waiting(t) /\ Begins(storedMessages[t], transcript[t])
         /\ EverSaid(t) \subseteq ToSet(transcript[t]) /\ (t \notin FreshThreads => transcript[t] # <<>>)
  BY DEF HistoryInv, CopiesBegin

\* What the chat has now is stored.
LEMMA StoredKeeps ==
  ASSUME HistoryInv, NEW t \in ChatThreads, chatRuns[t] # "none", NEW now \in Seq(HistoryMessages),
         Begins(transcript[t], now), ToSet(transcript[t]) \subseteq ToSet(now),
         transcript' = [transcript EXCEPT ![t] = now], storedMessages' = [storedMessages EXCEPT ![t] = now],
         NEW run \in {"none", "sending", "running"}, chatRuns' = [chatRuns EXCEPT ![t] = run],
         UNCHANGED <<loadedRemoteId, blind, deletedThreads, saidIn, historyLoads>>
  PROVE  /\ CopiesBegin' /\ transcript' \in [ChatThreads -> Seq(HistoryMessages)]
         /\ storedMessages' \in [ChatThreads -> Seq(HistoryMessages)]
         /\ chatRuns' \in [ChatThreads -> {"none", "sending", "running"}]
<1>1. HistoryTypeOK /\ CopiesBegin
  BY DEF HistoryInv
<1>2. /\ transcript' \in [ChatThreads -> Seq(HistoryMessages)] /\ storedMessages' \in [ChatThreads -> Seq(HistoryMessages)]
      /\ chatRuns' \in [ChatThreads -> {"none", "sending", "running"}]
      /\ transcript'[t] = now /\ storedMessages'[t] = now
      /\ \A u \in ChatThreads : u # t => /\ transcript'[u] = transcript[u] /\ chatRuns'[u] = chatRuns[u]
                                        /\ storedMessages'[u] = storedMessages[u]
  BY <1>1 DEF HistoryTypeOK
<1>3. Followed' = Followed /\ (\A u \in ChatThreads : Waiting(u)' <=> Waiting(u)) /\ Followed \subseteq ChatThreads
  BY WaitingFrame DEF Followed
<1>4. \A u \in Followed : EverSaid(u)' = EverSaid(u)
  BY DEF EverSaid
<1>5. /\ transcript[t] \in Seq(HistoryMessages) /\ storedMessages[t] \in Seq(HistoryMessages)
      /\ Begins(now, now) /\ (now = <<>> => transcript[t] = <<>>)
  <2>1. transcript[t] \in Seq(HistoryMessages) /\ storedMessages[t] \in Seq(HistoryMessages)
    BY <1>1, SeqMessages
  <2>2. Begins(now, now)
    BY DEF Begins
  <2> QED BY <2>1, <2>2, BeginsFacts
<1>6. t \in Followed =>
        /\ ~Waiting(t) /\ Begins(storedMessages[t], now) /\ EverSaid(t) \subseteq ToSet(now)
        /\ t \notin FreshThreads => now # <<>>
  <2> SUFFICES ASSUME t \in Followed
               PROVE  /\ ~Waiting(t) /\ Begins(storedMessages[t], now) /\ EverSaid(t) \subseteq ToSet(now)
                      /\ t \notin FreshThreads => now # <<>>
    OBVIOUS
  <2>1. /\ ~Waiting(t) /\ Begins(storedMessages[t], transcript[t])
        /\ EverSaid(t) \subseteq ToSet(transcript[t]) /\ (t \notin FreshThreads => transcript[t] # <<>>)
    BY RunningHasHistory
  <2>2. Begins(storedMessages[t], now)
    BY <1>5, <2>1, BeginsFacts
  <2> QED BY <1>5, <2>1, <2>2
<1>7. \A u \in Followed' :
        IF Waiting(u)'
        THEN /\ transcript'[u] = <<>> /\ storedMessages'[u] = Earlier(u) /\ chatRuns'[u] = "none"
             /\ \A n \in HistoryTurns : saidIn'[n] # u
        ELSE /\ Begins(storedMessages'[u], transcript'[u]) /\ EverSaid(u)' \subseteq ToSet(transcript'[u])
             /\ u \notin FreshThreads => transcript'[u] # <<>>
  <2> SUFFICES ASSUME NEW u \in Followed
      PROVE IF Waiting(u)
            THEN /\ transcript'[u] = <<>> /\ storedMessages'[u] = Earlier(u) /\ chatRuns'[u] = "none"
                 /\ \A n \in HistoryTurns : saidIn[n] # u
            ELSE /\ Begins(storedMessages'[u], transcript'[u]) /\ EverSaid(u) \subseteq ToSet(transcript'[u])
                 /\ u \notin FreshThreads => transcript'[u] # <<>>
    BY <1>3, <1>4
  <2>1. CASE u = t
    BY <1>2, <1>5, <1>6, <2>1
  <2>2. CASE u # t
    BY <1>1, <1>2, <1>3, <2>2 DEF CopiesBegin
  <2> QED BY <2>1, <2>2
<1>8. \A l \in historyLoads' : l.of \in Followed' /\ l.got # Unread =>
          IF Waiting(l.of)' THEN l.got = Earlier(l.of) ELSE Begins(l.got, storedMessages'[l.of])
  <2> SUFFICES ASSUME NEW l \in historyLoads, l.of \in Followed, l.got # Unread
      PROVE IF Waiting(l.of) THEN l.got = Earlier(l.of) ELSE Begins(l.got, storedMessages'[l.of])
    BY <1>3
  <2>1. IF Waiting(l.of) THEN l.got = Earlier(l.of) ELSE Begins(l.got, storedMessages[l.of])
    BY <1>1 DEF CopiesBegin
  <2>2. CASE l.of = t
    <3>1. l.got \in Seq(HistoryMessages) /\ Begins(l.got, storedMessages[t]) /\ Begins(storedMessages[t], now)
      BY <1>1, <1>6, <2>1, <2>2, GotMessages
    <3>2. Begins(l.got, now)
      BY <1>5, <3>1, BeginsFacts
    <3> QED BY <1>2, <1>6, <2>2, <3>2
  <2>3. CASE l.of # t
    BY <1>2, <1>3, <2>1, <2>3
  <2> QED BY <2>2, <2>3
<1> QED BY <1>2, <1>7, <1>8 DEF CopiesBegin

LEMMA PostKeeps ==
  ASSUME HistoryInv, NEW t \in ChatThreads, Post(t), following' = following
  PROVE  HistoryInv'
<1>1. HistoryTypeOK /\ CopiesBegin /\ FrontLoads /\ BadgesKept
  BY DEF HistoryInv
<1>2. /\ chatRuns[t] = "sending" /\ chatRuns' = [chatRuns EXCEPT ![t] = "running"]
      /\ storedMessages' = [storedMessages EXCEPT ![t] = transcript[t]]
      /\ serverActivity' = IF following = "badges" THEN [serverActivity EXCEPT ![t] = [kind |-> "running", at |-> 0]]
                           ELSE serverActivity
      /\ UNCHANGED <<mainThread, leftLater, errorTaken, deletedThreads, remoteIds, transcript, loadVars, retryHandler,
                     saidIn, answered, activityMap, polling, ackedAt, leftAt, blind>>
  BY DEF Post, Now, frontVars
<1>3. UNCHANGED <<loadedRemoteId, loadGeneration, wasMain, historyLoads, historyError>>
  BY <1>2 DEF loadVars
<1>4. transcript[t] \in Seq(HistoryMessages) /\ Begins(transcript[t], transcript[t]) /\ transcript' = [transcript EXCEPT ![t] = transcript[t]]
  <2>1. transcript[t] \in Seq(HistoryMessages) /\ transcript \in [ChatThreads -> Seq(HistoryMessages)]
    BY <1>1 DEF HistoryTypeOK
  <2> QED BY <1>2, <2>1 DEF Begins
<1>5. /\ CopiesBegin' /\ transcript' \in [ChatThreads -> Seq(HistoryMessages)]
      /\ storedMessages' \in [ChatThreads -> Seq(HistoryMessages)]
      /\ chatRuns' \in [ChatThreads -> {"none", "sending", "running"}]
  <2>1. PICK now : now = transcript[t]
    OBVIOUS
  <2>2. /\ now \in Seq(HistoryMessages) /\ Begins(transcript[t], now) /\ ToSet(transcript[t]) \subseteq ToSet(now)
        /\ transcript' = [transcript EXCEPT ![t] = now] /\ storedMessages' = [storedMessages EXCEPT ![t] = now]
    BY <1>2, <1>4, <2>1
  <2> QED BY <1>2, <1>3, <2>2, StoredKeeps
<1>6. HistoryTypeOK'
  BY <1>1, <1>2, <1>3, <1>5 DEF HistoryTypeOK
<1>7. FrontLoads'
  <2>1. \A u \in ChatThreads : Waiting(u)' => Waiting(u)
    BY <1>2, <1>3 DEF Waiting
  <2> QED BY <1>1, <1>2, <2>1, FrontFrame
<1>8. BadgesKept'
  <2>1. Finished' = Finished /\ Finished \in Nat
    BY <1>1, <1>2, SeqMessages DEF Finished
  <2>2. serverActivity' \in [ChatThreads -> Activities]
    <3>1. [kind |-> "running", at |-> 0] \in Activities
      BY DEF Activities
    <3> QED BY <1>1, <1>2, <3>1 DEF BadgesKept
  <2>3. \A u \in ChatThreads : /\ serverActivity'[u].at <= Finished
                               /\ following = "history" => serverActivity'[u].kind = "idle"
    BY <1>1, <1>2, <2>1 DEF BadgesKept
  <2> QED BY <1>1, <1>2, <2>1, <2>2, <2>3 DEF BadgesKept
<1> QED BY <1>5, <1>6, <1>7, <1>8 DEF HistoryInv

LEMMA FinishKeeps ==
  ASSUME HistoryInv, NEW t \in ChatThreads, OnFinish(t), following' = following
  PROVE  HistoryInv'
<1>1. HistoryTypeOK /\ CopiesBegin /\ FrontLoads /\ BadgesKept
  BY DEF HistoryInv
<1>2. PICK m \in HistoryTurns \ answered :
        answered' = answered \cup {m} /\ transcript' = [transcript EXCEPT ![t] = Append(@, ReplyTo(m))]
  BY DEF OnFinish
<1>3. /\ chatRuns[t] = "running" /\ chatRuns' = [chatRuns EXCEPT ![t] = "none"]
      /\ storedMessages' = [storedMessages EXCEPT ![t] = transcript'[t]]
      /\ serverActivity' = IF following = "badges"
                           THEN [serverActivity EXCEPT ![t] = [kind |-> "finished", at |-> Finished + 1]]
                           ELSE serverActivity
      /\ ackedAt' = IF t = mainThread /\ activityMap[t].kind = "finished"
                    THEN [ackedAt EXCEPT ![t] = activityMap[t].at] ELSE ackedAt
      /\ UNCHANGED <<mainThread, leftLater, errorTaken, deletedThreads, remoteIds, loadVars, retryHandler,
                     saidIn, activityMap, polling, leftAt, blind>>
  BY DEF OnFinish, Now, frontVars
<1>4. UNCHANGED <<loadedRemoteId, loadGeneration, wasMain, historyLoads, historyError>>
  BY <1>3 DEF loadVars
<1>5. PICK now : now = Append(transcript[t], ReplyTo(m))
  OBVIOUS
<1>6. /\ now \in Seq(HistoryMessages) /\ Begins(transcript[t], now) /\ ToSet(transcript[t]) \subseteq ToSet(now)
      /\ transcript' = [transcript EXCEPT ![t] = now] /\ storedMessages' = [storedMessages EXCEPT ![t] = now]
  <2>1. transcript[t] \in Seq(HistoryMessages) /\ ReplyTo(m) \in HistoryMessages
    BY <1>1, SeqMessages DEF ReplyTo, HistoryMessages
  <2>2. now \in Seq(HistoryMessages) /\ ToSet(now) = ToSet(transcript[t]) \cup {ReplyTo(m)}
    BY <1>5, <2>1, ToSetAppend
  <2>3. Begins(transcript[t], now)
    BY <1>5, <2>1 DEF Begins
  <2>4. transcript' = [transcript EXCEPT ![t] = now]
    BY <1>2, <1>5
  <2>5. transcript'[t] = now
    BY <1>1, <2>4 DEF HistoryTypeOK
  <2> QED BY <1>3, <2>2, <2>3, <2>4, <2>5
<1>7. /\ CopiesBegin' /\ transcript' \in [ChatThreads -> Seq(HistoryMessages)]
      /\ storedMessages' \in [ChatThreads -> Seq(HistoryMessages)]
      /\ chatRuns' \in [ChatThreads -> {"none", "sending", "running"}]
  BY <1>3, <1>4, <1>6, StoredKeeps
<1>8. Finished' = Finished + 1 /\ Finished \in Nat /\ IsFiniteSet(answered')
  BY <1>1, <1>2, FS_AddElement, FS_CardinalityType DEF HistoryTypeOK, Finished
<1>9. HistoryTypeOK'
  BY <1>1, <1>2, <1>3, <1>4, <1>7, <1>8 DEF HistoryTypeOK
<1>10. FrontLoads'
  <2>1. \A u \in ChatThreads : Waiting(u)' => Waiting(u)
    BY <1>3, <1>4 DEF Waiting
  <2> QED BY <1>1, <1>3, <2>1, FrontFrame
<1>11. BadgesKept'
  <2>1. [kind |-> "finished", at |-> Finished + 1] \in Activities
    BY <1>8 DEF Activities
  <2>2. serverActivity' \in [ChatThreads -> Activities]
    BY <1>1, <1>3, <2>1 DEF BadgesKept
  <2>3. \A u \in ChatThreads : /\ serverActivity'[u].at <= Finished + 1
                               /\ following = "history" => serverActivity'[u].kind = "idle"
    <3> SUFFICES ASSUME NEW u \in ChatThreads
                 PROVE  /\ serverActivity'[u].at <= Finished + 1
                        /\ following = "history" => serverActivity'[u].kind = "idle"
      OBVIOUS
    <3>1. /\ serverActivity[u].at <= Finished /\ serverActivity[u].at \in Nat
          /\ following = "history" => serverActivity[u].kind = "idle"
      BY <1>1 DEF BadgesKept, Activities
    <3>2. \/ serverActivity'[u] = serverActivity[u]
          \/ serverActivity'[u] = [kind |-> "finished", at |-> Finished + 1] /\ following = "badges"
      BY <1>1, <1>3 DEF BadgesKept
    <3> QED BY <1>8, <3>1, <3>2
  <2>4. /\ ackedAt' \in [ChatThreads -> Nat]
        /\ \A u \in ChatThreads : ackedAt'[u] <= Finished /\ (u # mainThread => ackedAt'[u] = ackedAt[u])
    BY <1>1, <1>3 DEF BadgesKept, Activities
  <2>5. \A u \in ChatThreads : /\ activityMap[u].at <= Finished + 1 /\ ackedAt'[u] <= Finished + 1
                               /\ (polling # << >> => polling[u].at <= Finished + 1)
                               /\ (following = "badges" /\ u # mainThread => ackedAt'[u] <= leftAt[u])
    BY <1>1, <1>8, <2>4 DEF BadgesKept, Activities
  <2> QED BY <1>1, <1>3, <1>8, <2>2, <2>3, <2>4, <2>5 DEF BadgesKept
<1> QED BY <1>7, <1>9, <1>10, <1>11 DEF HistoryInv

LEMMA PollKeeps ==
  ASSUME HistoryInv, FetchActivity \/ ActivityArrives, following' = following
  PROVE  HistoryInv'
<1>1. HistoryTypeOK /\ CopiesBegin /\ FrontLoads /\ BadgesKept
  BY DEF HistoryInv
<1>2. UNCHANGED <<mainThread, leftLater, errorTaken, deletedThreads, remoteIds, loadVars, retryHandler, chatVars,
                  serverActivity, leftAt>>
  BY DEF FetchActivity, ActivityArrives, frontVars
<1>3. /\ UNCHANGED <<loadedRemoteId, loadGeneration, wasMain, historyLoads, historyError>>
      /\ UNCHANGED <<transcript, storedMessages, chatRuns, saidIn, answered, blind>>
  BY <1>2 DEF loadVars, chatVars
<1>4. HistoryTypeOK'
  BY <1>1, <1>2, <1>3 DEF HistoryTypeOK
<1>5. \A u \in ChatThreads : Waiting(u)' <=> Waiting(u)
  BY <1>3 DEF Waiting
<1>6. CopiesBegin'
  BY <1>1, <1>2, <1>3, <1>5, CopiesFrame
<1>7. FrontLoads'
  BY <1>1, <1>2, <1>5, FrontFrame
<1>8. BadgesKept'
  <2>1. Finished' = Finished /\ mainThread \in ChatThreads
    BY <1>1, <1>3 DEF Finished, HistoryTypeOK
  <2>2. CASE FetchActivity
    <3>1. UNCHANGED <<serverActivity, activityMap, ackedAt, leftAt>> /\ polling' = serverActivity
      BY <2>2 DEF FetchActivity
    <3> QED BY <1>1, <1>2, <2>1, <3>1 DEF BadgesKept
  <2>3. CASE ActivityArrives
    <3>1. /\ polling # << >> /\ activityMap' = polling /\ polling' = << >>
          /\ ackedAt' = ackTerminal(ackedAt, polling, mainThread) /\ UNCHANGED <<serverActivity, leftAt>>
      BY <2>3 DEF ActivityArrives
    <3>2. polling \in [ChatThreads -> Activities] /\ \A t \in ChatThreads : polling[t].at <= Finished
      BY <1>1, <3>1 DEF BadgesKept
    <3>3. /\ ackedAt' \in [ChatThreads -> Nat]
          /\ \A u \in ChatThreads : ackedAt'[u] <= Finished /\ (u # mainThread => ackedAt'[u] = ackedAt[u])
      BY <1>1, <3>1, <3>2 DEF BadgesKept, ackTerminal, Activities
    <3> QED BY <1>1, <1>2, <2>1, <3>1, <3>2, <3>3 DEF BadgesKept
  <2> QED BY <2>2, <2>3
<1> QED BY <1>4, <1>6, <1>7, <1>8 DEF HistoryInv

LEMMA HistoryBegins == HistoryInit => HistoryInv
<1> SUFFICES ASSUME HistoryInit PROVE HistoryInv
  OBVIOUS
<1>1. /\ following \in {"history", "badges"} /\ mainThread \in FreshThreads /\ deletedThreads = {}
      /\ remoteIds = ChatThreads \ FreshThreads
      /\ storedMessages = [t \in ChatThreads |-> IF t \in FreshThreads THEN <<>> ELSE Earlier(t)]
      /\ \/ loadedRemoteId = remoteIds /\ transcript = storedMessages
         \/ loadedRemoteId = {} /\ transcript = [t \in ChatThreads |-> <<>>]
      /\ wasMain = {} /\ loadGeneration = [t \in ChatThreads |-> 0] /\ historyLoads = {}
      /\ historyError = NoThread /\ retryHandler = NoThread
      /\ chatRuns = [t \in ChatThreads |-> "none"] /\ saidIn = [m \in HistoryTurns |-> NoThread]
      /\ answered = {} /\ blind = {}
      /\ serverActivity = [t \in ChatThreads |-> Idle] /\ activityMap = serverActivity
      /\ polling = << >> /\ ackedAt = [t \in ChatThreads |-> 0] /\ leftAt = [t \in ChatThreads |-> 0]
  BY DEF HistoryInit
<1>2. \A t \in ChatThreads : /\ Earlier(t) \in Seq(HistoryMessages) /\ Earlier(t) # <<>>
                             /\ Begins(Earlier(t), Earlier(t)) /\ <<>> \in Seq(HistoryMessages)
  BY EarlierFacts
<1>3. Begins(<<>>, <<>>)
  BY DEF Begins
<1>4. NoThread \notin ChatThreads /\ FreshThreads \subseteq ChatThreads
  BY ThreadHistoryAssumption
<1>5. HistoryTypeOK
  <2>1. storedMessages \in [ChatThreads -> Seq(HistoryMessages)] /\ transcript \in [ChatThreads -> Seq(HistoryMessages)]
    BY <1>1, <1>2
  <2>2. IsFiniteSet(answered)
    BY <1>1, FS_EmptySet
  <2> QED BY <1>1, <1>4, <2>1, <2>2 DEF HistoryTypeOK
<1>6. CopiesBegin
  <2> SUFFICES ASSUME NEW t \in Followed
      PROVE IF Waiting(t)
            THEN /\ transcript[t] = <<>> /\ storedMessages[t] = Earlier(t) /\ chatRuns[t] = "none"
                 /\ \A m \in HistoryTurns : saidIn[m] # t
            ELSE /\ Begins(storedMessages[t], transcript[t]) /\ EverSaid(t) \subseteq ToSet(transcript[t])
                 /\ t \notin FreshThreads => transcript[t] # <<>>
    BY <1>1 DEF CopiesBegin
  <2>1. t \in ChatThreads
    BY DEF Followed
  <2>2. \A m \in HistoryTurns : saidIn[m] # t
    BY <1>1, <1>4, <2>1
  <2>3. EverSaid(t) = IF t \in FreshThreads THEN {} ELSE ToSet(Earlier(t))
    BY <2>2 DEF EverSaid
  <2>4. storedMessages[t] = IF t \in FreshThreads THEN <<>> ELSE Earlier(t)
    BY <1>1, <2>1
  <2>5. CASE Waiting(t)
    <3>1. t \notin FreshThreads /\ t \notin loadedRemoteId
      BY <2>5 DEF Waiting
    <3>2. transcript[t] = <<>>
      BY <1>1, <2>1, <3>1
    <3> QED BY <1>1, <2>1, <2>2, <2>4, <2>5, <3>1, <3>2
  <2>6. CASE ~Waiting(t)
    <3>1. t \in FreshThreads \/ t \in loadedRemoteId
      BY <1>1, <2>6 DEF Waiting
    <3>2. transcript[t] = IF t \in FreshThreads THEN <<>> ELSE Earlier(t)
      BY <1>1, <2>1, <2>4, <3>1
    <3> QED BY <1>2, <1>3, <2>1, <2>3, <2>4, <2>6, <3>1, <3>2
  <2> QED BY <2>5, <2>6
<1>7. FrontLoads
  BY <1>1 DEF FrontLoads, Waiting
<1>8. BadgesKept
  <2>1. Finished = 0
    BY <1>1, FS_EmptySet DEF Finished
  <2>2. Idle \in Activities /\ Idle.at = 0 /\ Idle.kind = "idle"
    BY DEF Idle, Activities
  <2> QED BY <1>1, <2>1, <2>2 DEF BadgesKept
<1> QED BY <1>5, <1>6, <1>7, <1>8 DEF HistoryInv

LEMMA HistoryShows == HistoryInv => HistoryIsShown
<1> SUFFICES ASSUME HistoryTypeOK, CopiesBegin, FrontLoads, BadgesKept PROVE HistoryIsShown
  BY DEF HistoryInv
<1>1. \A t \in remoteIds \ blind :
       /\ EverSaid(t) \subseteq ToSet(transcript[t]) \cup ToSet(storedMessages[t])
       /\ t = mainThread /\ ~isLoading(t) =>
            EverSaid(t) \subseteq ToSet(transcript[t]) \/ ShowsError \/ errorTaken
  <2> SUFFICES ASSUME NEW t \in remoteIds \ blind
      PROVE /\ EverSaid(t) \subseteq ToSet(transcript[t]) \cup ToSet(storedMessages[t])
            /\ t = mainThread /\ ~isLoading(t) =>
                 EverSaid(t) \subseteq ToSet(transcript[t]) \/ ShowsError \/ errorTaken
    OBVIOUS
  <2>1. t \in Followed /\ t \in ChatThreads
    BY DEF Followed, HistoryTypeOK
  <2>2. CASE Waiting(t)
    <3>1. /\ transcript[t] = <<>> /\ storedMessages[t] = Earlier(t)
          /\ \A m \in HistoryTurns : saidIn[m] # t
      BY <2>1, <2>2 DEF CopiesBegin
    <3>2. EverSaid(t) \subseteq ToSet(Earlier(t))
      BY <3>1 DEF EverSaid
    <3>3. t = mainThread /\ ~isLoading(t) => historyError = t \/ errorTaken
      BY <2>1, <2>2 DEF FrontLoads
    <3> QED BY <3>1, <3>2, <3>3 DEF ShowsError
  <2>3. CASE ~Waiting(t)
    BY <2>1, <2>3 DEF CopiesBegin
  <2> QED BY <2>2, <2>3
<1>2. ShowsError => retryHandler = mainThread \/ leftLater
  BY DEF ShowsError, FrontLoads
<1>3. \A t \in ChatThreads \ {mainThread} :
       /\ serverActivity[t].kind = "finished" /\ serverActivity[t].at > leftAt[t]
       /\ activityMap[t] = serverActivity[t]
       => shouldShowThreadActivityBadge(t)
  <2> SUFFICES ASSUME NEW t \in ChatThreads \ {mainThread}, serverActivity[t].kind = "finished",
                      serverActivity[t].at > leftAt[t], activityMap[t] = serverActivity[t]
               PROVE  shouldShowThreadActivityBadge(t)
    OBVIOUS
  <2>1. following = "badges"
    BY DEF BadgesKept, HistoryTypeOK
  <2>2. ackedAt[t] <= leftAt[t] /\ ackedAt[t] \in Nat /\ leftAt[t] \in Nat /\ serverActivity[t].at \in Nat
    BY <2>1 DEF BadgesKept, Activities
  <2>3. activityMap[t].at > ackedAt[t]
    BY <2>2
  <2> QED BY <2>3 DEF shouldShowThreadActivityBadge
<1> QED BY <1>1, <1>2, <1>3 DEF HistoryIsShown

\* However threads are opened, written in, renamed, reloaded and deleted, and however many
\* loads fail, a thread in front shows its whole history, or is loading, or has its error and a
\* "Retry" that works; and a run that ended behind the user's back keeps its badge.
THEOREM HistoriesAreShown == HistorySpec => []HistoryIsShown
<1>1. HistoryInv /\ [HistoryNext]_historyVars => HistoryInv'
  <2> SUFFICES ASSUME HistoryInv, [HistoryNext]_historyVars PROVE HistoryInv'
    OBVIOUS
  <2>1. CASE HistoryNext
    <3>1. following' = following
      BY <2>1 DEF HistoryNext
    <3>2. CASE \E load \in historyLoads :
                 FetchThreadMessages(load) \/ HistoryArrives(load) \/ HistoryFailed(load)
      BY <3>1, <3>2, FetchKeeps, ArrivesKeeps, FailedKeeps
    <3>3. CASE \E t \in ChatThreads :
                 SwitchToThread(t) \/ DeleteThread(t) \/ Retitle(t) \/ Initialize(t) \/ Post(t) \/ OnFinish(t)
      BY <3>1, <3>3, SwitchKeeps, DeleteKeeps, RetitleKeeps, InitializeKeeps, PostKeeps, FinishKeeps
    <3>4. CASE \E m \in HistoryTurns : Say(m)
      BY <3>1, <3>4, SayKeeps
    <3>5. CASE ReloadHistory \/ FetchActivity \/ ActivityArrives
      BY <3>1, <3>5, ReloadKeeps, PollKeeps
    <3> QED BY <2>1, <3>2, <3>3, <3>4, <3>5 DEF HistoryNext
  <2>2. CASE UNCHANGED historyVars
    <3>1. /\ UNCHANGED <<frontVars, chatVars, listVars, loadVars>>
          /\ UNCHANGED <<mainThread, leftLater, errorTaken, deletedThreads>>
          /\ UNCHANGED <<remoteIds, retryHandler, following>>
          /\ UNCHANGED <<loadedRemoteId, loadGeneration, wasMain, historyLoads, historyError>>
          /\ UNCHANGED <<transcript, storedMessages, chatRuns, saidIn, answered, blind>>
      BY <2>2 DEF historyVars, frontVars, chatVars, listVars, loadVars
    <3>2. HistoryTypeOK'
      BY <3>1 DEF HistoryInv, HistoryTypeOK
    <3>3. \A u \in ChatThreads : Waiting(u)' <=> Waiting(u)
      BY <3>1 DEF Waiting
    <3>4. CopiesBegin'
      BY <3>1, <3>3, CopiesFrame DEF HistoryInv
    <3>5. FrontLoads'
      BY <3>1, <3>3, FrontFrame DEF HistoryInv
    <3>6. BadgesKept'
      BY <3>1, BadgesFrame DEF HistoryInv
    <3> QED BY <3>2, <3>4, <3>5, <3>6 DEF HistoryInv
  <2> QED BY <2>1, <2>2
<1> QED BY <1>1, HistoryBegins, HistoryShows, PTL DEF HistorySpec
=============================================================================
