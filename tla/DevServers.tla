---- MODULE DevServers ----
(***************************************************************************)
(* The server of a developer's desktop app (desktop/scripts: dev.mjs,      *)
(* prep-dev.mjs, ensure-server.mjs, server-dev-singleton.mjs,              *)
(* run-server-dev.mjs).  A launch runs two scripts, one after the other;   *)
(* either may stop what an earlier launch left, and the second spawns a    *)
(* detached watchdog, which keeps a "tsx watch" and its server alive.  The *)
(* watchdogs share one pid file and one port, and nothing keeps two        *)
(* launches apart.  A watchdog has the number of the launch that spawned   *)
(* it.  A probe is answered by whoever listens.  Left out: bundled         *)
(* sidecars, Windows, servers too old to have the route that is probed,    *)
(* time (a wait may end at any moment its code allows).                    *)
(***************************************************************************)
EXTENDS Naturals, FiniteSets

CONSTANTS Launches, \* bound: launches of the app, as numbers from 1
          Patient   \* bound: launches that begin only when all has come to rest

ASSUME DevServersAssumption == Launches \subseteq Nat \ {0} /\ Patient \subseteq Launches

VARIABLES
  dog,       \* each watchdog: "none", "starting", "up", "doomed" (signalled) or "gone"
  kid,       \* its tsx watch: "none", "idle" (no server under it), "booting", "serving", "stopping"
  port,      \* the watchdog whose server listens, or 0
  pidFile,   \* the watchdog the pid file names, or 0
  script,    \* each launch: "prep" or "ensure"
  reached,   \* the point of that script it has reached
  owner,     \* the watchdog it read in the pid file, or is waiting for
  connected, \* launches whose script had a probe answered: their socket is still open
  met,       \* launches that overlapped another
  killed,    \* watchdogs that were killed without running their handler
  erased,    \* a watchdog's exit removed a pid file that named another
  fooled     \* launches that kept a watchdog which had been signalled already

devVars == <<dog, kid, port, pidFile, script, reached, owner, connected, met, killed, erased, fooled>>
launchVars == <<script, reached, owner, connected>>
ghostVars == <<met, erased, fooled>>

Live(d) == d # 0 /\ dog[d] \in {"starting", "up", "doomed"}
Under(l) == reached[l] \notin {"new", "ready", "failed"}

\* Everything the launches set in motion has come to an end.
AtRest == /\ \A l \in Launches : ~ Under(l)
          /\ \A d \in Launches : dog[d] \notin {"starting", "doomed"} /\ kid[d] # "stopping"

DevInit ==
  /\ dog = [d \in Launches |-> "none"] /\ kid = [d \in Launches |-> "none"]
  /\ port = 0 /\ pidFile = 0
  /\ script = [l \in Launches |-> "prep"] /\ reached = [l \in Launches |-> "new"]
  /\ owner = [l \in Launches |-> 0]
  /\ connected = {} /\ met = {} /\ killed = {} /\ erased = FALSE /\ fooled = {}

(* tryKill(SIGTERM) on a set of watchdogs: one that has not installed its  *)
(* handler yet dies at once.                                               *)
Terminated(targets) ==
  [d \in Launches |-> CASE d \in targets /\ dog[d] = "starting" -> "gone"
                        [] d \in targets /\ dog[d] = "up"       -> "doomed"
                        [] OTHER                                -> dog[d]]

-----------------------------------------------------------------------------
(* The scripts of a launch.                                                *)

Goto(l, where) == reached' = [reached EXCEPT ![l] = where]

\* dev.mjs (or a second terminal) starts prep-dev.mjs, which reads the pid file.
BeginLaunch(l) ==
  /\ reached[l] = "new" /\ \A m \in Launches : m < l => reached[m] # "new"
  /\ l \in Patient => AtRest
  /\ owner' = [owner EXCEPT ![l] = IF Live(pidFile) THEN pidFile ELSE 0]
  /\ Goto(l, "asking")
  /\ LET others == {m \in Launches : Under(m)}
     IN met' = IF others = {} THEN met ELSE met \cup others \cup {l}
  /\ UNCHANGED <<dog, kid, port, pidFile, script, connected, killed, erased, fooled>>

Heard(l) == connected' = IF port # 0 THEN connected \cup {l} ELSE connected

PrepAnswered(l) ==
  /\ script[l] = "prep" /\ reached[l] = "asking"
  /\ Heard(l)
  /\ Goto(l, IF owner[l] # 0 /\ port # 0 THEN "keeping" ELSE "stopping")
  /\ UNCHANGED <<dog, kid, port, pidFile, script, owner, ghostVars, killed>>

(* ensure-server: a server that answers is looked at more closely, any     *)
(* other is replaced.                                                      *)
EnsureAnswered(l) ==
  /\ script[l] = "ensure" /\ reached[l] = "asking"
  /\ Heard(l)
  /\ Goto(l, IF port # 0 THEN "routes" ELSE "stopping")
  /\ owner' = [owner EXCEPT ![l] = IF port # 0 /\ Live(pidFile) THEN pidFile ELSE 0]
  /\ UNCHANGED <<dog, kid, port, pidFile, script, ghostVars, killed>>

ensureOwnedDevServer(l) ==
  /\ reached[l] = "routes"
  /\ Goto(l, IF owner[l] # 0 /\ port # 0 THEN "keeping" ELSE "stopping")
  /\ UNCHANGED <<dog, kid, port, pidFile, script, owner, connected, ghostVars, killed>>

\* prep-dev.mjs has ended, and its sockets with it.
NextScript(l) ==
  /\ script' = [script EXCEPT ![l] = "ensure"]
  /\ connected' = connected \ {l}

(* killRepoWatchdogsByCommand with keepPid.                                *)
KeepOwner(l) ==
  /\ reached[l] = "keeping"
  /\ dog' = Terminated(Launches \ {owner[l]})
  /\ IF script[l] = "prep" THEN NextScript(l) /\ Goto(l, "asking")
                           ELSE UNCHANGED <<script, connected>> /\ Goto(l, "ready")
  /\ fooled' = IF dog[owner[l]] = "up" THEN fooled ELSE fooled \cup {l}
  /\ UNCHANGED <<kid, port, pidFile, owner, met, erased, killed>>

(* stopWatchdogFromPidFile: signal the watchdog of the file; the file goes *)
(* when that one is gone, or when there is none.                           *)
stopWatchdogFromPidFile(l) ==
  /\ reached[l] = "stopping"
  /\ IF Live(pidFile)
       THEN /\ dog' = Terminated({pidFile}) /\ Goto(l, "waiting")
            /\ owner' = [owner EXCEPT ![l] = pidFile] /\ UNCHANGED pidFile
       ELSE pidFile' = 0 /\ Goto(l, "sweeping") /\ UNCHANGED <<dog, owner>>
  /\ UNCHANGED <<kid, port, script, connected, ghostVars, killed>>

\* The wait of 1.5 s ends early, or with a SIGKILL.
StopWaited(l) ==
  /\ reached[l] = "waiting"
  /\ IF Live(owner[l]) THEN /\ dog' = [dog EXCEPT ![owner[l]] = "gone"]
                            /\ killed' = killed \cup {owner[l]}
                       ELSE UNCHANGED <<dog, killed>>
  /\ pidFile' = 0
  /\ Goto(l, "sweeping")
  /\ UNCHANGED <<kid, port, script, owner, connected, ghostVars>>

\* Mutant of killRepoWatchdogsByCommand: only the watchdog of the pid file is stopped.
SweepNobody(l) ==
  /\ reached[l] \in {"sweeping", "sweeping again"}
  /\ IF reached[l] = "sweeping" THEN Goto(l, "port") /\ UNCHANGED <<script, connected>>
                           ELSE NextScript(l) /\ Goto(l, "asking")
  /\ UNCHANGED <<dog, kid, port, pidFile, owner, ghostVars, killed>>

(* killRepoWatchdogsByCommand: nobody waits for them.  prep-dev.mjs does   *)
(* it once more at its end.                                                *)
killRepoWatchdogsByCommand(l) ==
  /\ reached[l] \in {"sweeping", "sweeping again"}
  /\ dog' = Terminated(Launches)
  /\ IF reached[l] = "sweeping" THEN Goto(l, "port") /\ UNCHANGED <<script, connected>>
                           ELSE NextScript(l) /\ Goto(l, "asking")
  /\ UNCHANGED <<kid, port, pidFile, owner, ghostVars, killed>>

(* killPortListener: kill -9 to every process with a socket on the port:   *)
(* the server, a watchdog whose probe is still connected, or the script    *)
(* itself.                                                                 *)
killPortListener(l) ==
  /\ reached[l] = "port"
  /\ port' = 0
  /\ kid' = [d \in Launches |-> IF d # port THEN kid[d]
                                ELSE IF kid[d] = "stopping" THEN "none" ELSE "idle"]
  /\ \E dogs \in SUBSET {d \in Launches : port # 0 /\ dog[d] \in {"up", "doomed"}} :
       /\ dog' = [d \in Launches |-> IF d \in dogs THEN "gone" ELSE dog[d]]
       /\ killed' = killed \cup dogs
  /\ \/ Goto(l, IF script[l] = "prep" THEN "sweeping again" ELSE "spawning")
     \/ port # 0 /\ l \in connected /\ Goto(l, "failed")
  /\ UNCHANGED <<pidFile, script, owner, connected, ghostVars>>

spawnDevServerWatchdog(l) ==
  /\ reached[l] = "spawning"
  /\ dog' = [dog EXCEPT ![l] = "starting"]
  /\ Goto(l, "health")
  /\ UNCHANGED <<kid, port, pidFile, script, owner, connected, ghostVars, killed>>

\* A minute without an answer is an error; the watchdog stays.
waitForHealth(l) ==
  /\ reached[l] = "health"
  /\ \/ port # 0 /\ Goto(l, "ready")
     \/ port = 0 /\ Goto(l, "failed")
  /\ UNCHANGED <<dog, kid, port, pidFile, script, owner, connected, ghostVars, killed>>

-----------------------------------------------------------------------------
(* Watchdogs and servers.                                                  *)

\* run-server-dev.mjs writes the pid file, installs its handlers and spawns.
DogStarts(d) ==
  /\ dog[d] = "starting"
  /\ dog' = [dog EXCEPT ![d] = "up"]
  /\ kid' = [kid EXCEPT ![d] = "booting"]
  /\ pidFile' = d
  /\ UNCHANGED <<port, launchVars, ghostVars, killed>>

\* Mutant of shutdown: it exits without a word to its child.
ShutdownAlone(d) ==
  /\ dog[d] = "doomed"
  /\ dog' = [dog EXCEPT ![d] = "gone"]
  /\ pidFile' = 0
  /\ erased' = (erased \/ pidFile \notin {0, d})
  /\ UNCHANGED <<kid, port, launchVars, met, fooled, killed>>

(* shutdown: the child is told to end, and the pid file goes, whoever it   *)
(* names by now.                                                           *)
shutdown(d) ==
  /\ dog[d] = "doomed"
  /\ dog' = [dog EXCEPT ![d] = "gone"]
  /\ kid' = [kid EXCEPT ![d] = IF @ = "none" THEN "none" ELSE "stopping"]
  /\ pidFile' = 0
  /\ erased' = (erased \/ pidFile \notin {0, d})
  /\ UNCHANGED <<port, launchVars, met, fooled, killed>>

\* spawnServer again, a second after the tsx watch exited.
spawnServer(d) ==
  /\ dog[d] = "up" /\ kid[d] = "none"
  /\ kid' = [kid EXCEPT ![d] = "booting"]
  /\ UNCHANGED <<dog, port, pidFile, launchVars, ghostVars, killed>>

(* watchHealth: nobody answers on the port although the child is there.    *)
watchHealth(d) ==
  /\ dog[d] = "up" /\ kid[d] = "idle" /\ port = 0
  /\ kid' = [kid EXCEPT ![d] = "stopping"]
  /\ UNCHANGED <<dog, port, pidFile, launchVars, ghostVars, killed>>

\* The server listens, or cannot: then tsx watch waits for the source to change.
ServerBoots(d) ==
  /\ kid[d] = "booting"
  /\ IF port = 0 THEN port' = d /\ kid' = [kid EXCEPT ![d] = "serving"]
                 ELSE UNCHANGED port /\ kid' = [kid EXCEPT ![d] = "idle"]
  /\ UNCHANGED <<dog, pidFile, launchVars, ghostVars, killed>>

KidEnds(d) ==
  /\ kid[d] = "stopping"
  /\ kid' = [kid EXCEPT ![d] = "none"]
  /\ port' = IF port = d THEN 0 ELSE port
  /\ UNCHANGED <<dog, pidFile, launchVars, ghostVars, killed>>

\* The developer saves a source file: every tsx watch restarts its server.
SourceChanges ==
  /\ kid' = [d \in Launches |-> IF kid[d] \in {"idle", "serving"} THEN "booting" ELSE kid[d]]
  /\ kid' # kid
  /\ port' = IF port # 0 /\ kid[port] = "stopping" THEN port ELSE 0
  /\ UNCHANGED <<dog, pidFile, launchVars, ghostVars, killed>>

ScriptStep(l) ==
  \/ BeginLaunch(l) \/ PrepAnswered(l) \/ EnsureAnswered(l) \/ ensureOwnedDevServer(l) \/ KeepOwner(l)
  \/ stopWatchdogFromPidFile(l) \/ StopWaited(l) \/ killRepoWatchdogsByCommand(l)
  \/ killPortListener(l) \/ spawnDevServerWatchdog(l) \/ waitForHealth(l)

DogStep(d) ==
  DogStarts(d) \/ shutdown(d) \/ spawnServer(d) \/ watchHealth(d) \/ ServerBoots(d) \/ KidEnds(d)

DevNext == SourceChanges \/ \E l \in Launches : ScriptStep(l) \/ DogStep(l)

DevSpec == DevInit /\ [][DevNext]_devVars

-----------------------------------------------------------------------------
LastLaunch == CHOOSE l \in Launches : reached[l] # "new" /\ \A m \in Launches : m > l => reached[m] = "new"

(* A launch that overlapped no other and ended ready leaves one watchdog,  *)
(* however many it found, unless the one it kept was on its way out; the   *)
(* pid file names it unless another's exit took the file away; and no tsx  *)
(* watch is left without its watchdog, but for those whose watchdog was    *)
(* killed before it could tell them to end (server-dev-singleton.mjs:      *)
(* "Converge to zero watchdogs for this repo before spawning a new one").  *)
OneDevServerIsLeft ==
  AtRest /\ (\E l \in Launches : reached[l] # "new") /\ reached[LastLaunch] = "ready" /\ LastLaunch \notin met \cup fooled =>
    \E d \in Launches :
      /\ {x \in Launches : Live(x)} = {d}
      /\ pidFile = d \/ (pidFile = 0 /\ erased)
      /\ \A x \in Launches : kid[x] = "none" \/ x = d \/ x \in killed
====
