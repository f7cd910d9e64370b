------------------------------ MODULE Plugins ------------------------------
(***************************************************************************)
(* The installed plugins: plugins.json, which every change reads as a whole     *)
(* and writes again (apps/server/src/plugin-store.ts), the directory each         *)
(* plugin is copied to and made ready in (plugin-runtime.ts), the routes           *)
(* (routes/plugins.ts), the screen that installs, enables and deletes              *)
(* (plugins-settings-screen.tsx), and the installs that an earlier version          *)
(* kept in the database.  Requests overlap; a copy, a clone, making ready, the loading  *)
(* after a change, opening plugins.json and writing it may fail; and the server may       *)
(* stop at any time.  The removal of a directory does not fail.                            *)
(*                                                                         *)
(* A plugin comes from a path, copied file by file (two files stand for them),     *)
(* or from a repository, cloned aside and moved into place; it needs an              *)
(* environment, "venv".  plugins.json is empty between its opening and its             *)
(* writing, and an empty file reads as one without plugins.  Left out: what is          *)
(* loaded from the directories, manifests that do not parse, the clones left aside,      *)
(* requests served while the installs of the database are copied (a lazy boot).         *)
(***************************************************************************)
EXTENDS Naturals, FiniteSets

CONSTANTS
  PluginNames, Repositories, \* the plugins, and those that come from a repository too
  InstalledBefore,           \* those in the database of an earlier version
  PluginRequests, PluginSteps \* requests at a time, and at most so many in all
ASSUME PluginsAssumption == Repositories \cup InstalledBefore \subseteq PluginNames

VARIABLES
  entries,      \* plugins.json: of each name where it comes from and if it is enabled
  entriesOpen,  \* is plugins.json opened and not yet written?
  fileThere,    \* is there a plugins.json?
  migration,    \* of the database's installs: "due", "query", "write" or "done"
  pluginRows,         \* the installs of the database
  pluginDir,    \* of each plugin the files in its directory, {} without one
  call,         \* what each request is at
  shownPlugins,        \* what the screen lists
  spoilt,       \* the plugins of which something overlapped, failed halfway or stopped
  pluginCalls, stopped

fileState == <<entries, entriesOpen, fileThere, migration, pluginRows>>
pluginVars == <<fileState, pluginDir, call, shownPlugins, spoilt, pluginCalls, stopped>>

SourcesOf(n) == {"path"} \cup IF n \in Repositories THEN {"git"} ELSE {}
CatalogSource(n) == IF n \in Repositories THEN "git" ELSE "path"
Entry(from, enabled) == [from |-> from, enabled |-> enabled]
NoEntry == Entry("none", FALSE)
NoPlugins == [n \in PluginNames |-> NoEntry]
Place(from) == {"dir"} \cup (IF from = "git" THEN {"clone"} ELSE {"file1", "file2"})
Ready(from) == Place(from) \cup {"venv", "ready"}

NoCall == [at |-> "none", op |-> "none", name |-> "none", entry |-> NoEntry,
           read |-> NoPlugins, retried |-> FALSE, enabling |-> FALSE, alone |-> TRUE]
Calls == {r \in PluginRequests : call[r].at # "none"}
Changing == {r \in Calls : call[r].at \notin {"list", "answer"}}
Stands(r, step) == call[r].at = step
TurnsTo(r, step) == call' = [call EXCEPT ![r].at = step]
EndsCall(r) == call' = [call EXCEPT ![r] = NoCall]
Spoil(names) == spoilt' = spoilt \cup names

readPluginsFile == IF entriesOpen THEN NoPlugins ELSE entries
\* The plugins whose entries a write of what was read before undoes.
EntriesUndone(read, but) == {n \in PluginNames \ but : entries[n] # read[n]}

PluginsInit ==
  /\ entries = NoPlugins /\ entriesOpen = FALSE /\ fileThere = FALSE /\ migration = "due"
  /\ pluginRows = [n \in PluginNames |-> IF n \in InstalledBefore THEN Entry("path", TRUE) ELSE NoEntry]
  /\ pluginDir = [n \in PluginNames |-> IF pluginRows[n] = NoEntry THEN {} ELSE Ready("path")]
  /\ call = [r \in PluginRequests |-> NoCall]
  /\ shownPlugins = NoPlugins /\ spoilt = {} /\ pluginCalls = 0 /\ stopped = FALSE

-----------------------------------------------------------------------------
\* The first start without a file copies the rows of the database, before it serves
\* requests.  Rows that cannot be read or written are given up: a list without plugins
\* is written instead, for good, unless that is refused as well.
migratePluginsFromDb ==
  /\ UNCHANGED <<pluginRows, pluginDir, call, shownPlugins, pluginCalls, stopped>>
  /\ \/ /\ migration = "due"
        /\ migration' = IF fileThere THEN "done" ELSE "query"
        /\ UNCHANGED <<entries, entriesOpen, fileThere, spoilt>>
     \/ /\ migration = "query"
        /\ migration' = "write"
        /\ entriesOpen' = TRUE /\ fileThere' = TRUE
        /\ UNCHANGED <<entries, spoilt>>
     \/ /\ migration = "query"
        /\ migration' = "done" /\ Spoil(EntriesUndone(pluginRows, {}))
        /\ UNCHANGED <<entries, entriesOpen, fileThere>>
     \/ /\ migration = "write"
        /\ migration' = "done"
        /\ entriesOpen' = FALSE
        /\ \/ entries' = pluginRows /\ UNCHANGED spoilt
           \/ entries' = NoPlugins /\ Spoil(EntriesUndone(pluginRows, {}))
        /\ UNCHANGED fileThere

-----------------------------------------------------------------------------
\* The screen: one installation from its dialog, one from the marketplace and one
\* deletion at a time; a plugin is enabled or disabled as the list shows it.
FirstStep(op, from) ==
  IF op \in {"enable", "delete"} THEN "get" ELSE IF from = "git" THEN "clone" ELSE "clear"

BeginChange(r, op, n, entry) ==
  LET others == {q \in Changing : call[q].name = n /\ ~(op = "enable" /\ call[q].op = "enable")}
  IN /\ call[r] = NoCall /\ migration = "done" /\ pluginCalls < PluginSteps
     /\ op # "enable" => \A q \in Calls : call[q].op # op
     /\ pluginCalls' = pluginCalls + 1
     /\ call' = [q \in PluginRequests |->
                   IF q = r THEN [NoCall EXCEPT !.at = FirstStep(op, entry.from), !.op = op, !.name = n,
                                                !.entry = entry, !.alone = others = {}]
                   ELSE IF q \in others THEN [call[q] EXCEPT !.alone = FALSE] ELSE call[q]]
     /\ IF others = {} THEN UNCHANGED spoilt ELSE Spoil({n})
     /\ UNCHANGED <<fileState, pluginDir, shownPlugins, stopped>>

install(r) == \E n \in PluginNames : \E from \in SourcesOf(n) : BeginChange(r, "dialog", n, Entry(from, TRUE))
installFromMarket(r) == \E n \in PluginNames : BeginChange(r, "market", n, Entry(CatalogSource(n), TRUE))
toggleEnabled(r) == \E n \in PluginNames :
                      shownPlugins[n] # NoEntry /\ BeginChange(r, "enable", n, Entry("none", ~shownPlugins[n].enabled))
confirmUninstall(r) == \E n \in PluginNames : shownPlugins[n] # NoEntry /\ BeginChange(r, "delete", n, NoEntry)

-----------------------------------------------------------------------------
\* Installing.  A copy that fails leaves what it copied; a clone that fails, nothing.
runGitClone(r) ==
  /\ Stands(r, "clone")
  /\ TurnsTo(r, "clear") \/ EndsCall(r)
  /\ UNCHANGED <<fileState, pluginDir, shownPlugins, spoilt, pluginCalls, stopped>>

ClearDirectory(r) ==
  LET n == call[r].name
  IN /\ Stands(r, "clear")
     /\ pluginDir' = [pluginDir EXCEPT ![n] = {}]
     /\ TurnsTo(r, IF call[r].entry.from = "git" THEN "rename" ELSE "copy")
     /\ UNCHANGED <<fileState, shownPlugins, spoilt, pluginCalls, stopped>>

\* A directory that is there again is not overwritten by the move.
RenameClone(r) ==
  LET n == call[r].name
  IN /\ Stands(r, "rename")
     /\ IF pluginDir[n] = {}
        THEN pluginDir' = [pluginDir EXCEPT ![n] = Place("git")] /\ TurnsTo(r, "venv") /\ UNCHANGED spoilt
        ELSE EndsCall(r) /\ Spoil({n}) /\ UNCHANGED pluginDir
     /\ UNCHANGED <<fileState, shownPlugins, pluginCalls, stopped>>

copyDir(r) ==
  LET n == call[r].name
      Copied(file, next) == /\ pluginDir' = [pluginDir EXCEPT ![n] = @ \cup {"dir", file}]
                            /\ TurnsTo(r, next) /\ UNCHANGED spoilt
  IN /\ \/ Stands(r, "copy") /\ Copied("file1", "copyOn")
        \/ Stands(r, "copyOn") /\ pluginDir[n] # {} /\ Copied("file2", "venv")
        \/ Stands(r, "copyOn") /\ EndsCall(r) /\ Spoil({n}) /\ UNCHANGED pluginDir
     /\ UNCHANGED <<fileState, shownPlugins, pluginCalls, stopped>>

\* A directory marked as ready is left as it is.  An installation that pip left
\* broken is tried once more in a fresh environment.  Nothing works in a directory
\* that is gone.
ensurePluginRuntime(r) ==
  LET n == call[r].name
      dir == pluginDir[n]
      Becomes(files, next) == pluginDir' = [pluginDir EXCEPT ![n] = files] /\ TurnsTo(r, next)
      Fails == TurnsTo(r, "undo") /\ UNCHANGED pluginDir
  IN /\ \/ Stands(r, "venv") /\ "ready" \in dir /\ TurnsTo(r, "read") /\ UNCHANGED pluginDir
        \/ Stands(r, "venv") /\ dir # {} /\ "ready" \notin dir /\ Becomes(dir \cup {"venv"}, "pip")
        \/ Stands(r, "pip") /\ "venv" \in dir /\ TurnsTo(r, "mark") /\ UNCHANGED pluginDir
        \/ /\ Stands(r, "pip") /\ dir # {} /\ ~call[r].retried
           /\ pluginDir' = [pluginDir EXCEPT ![n] = dir \cup {"venv"}]
           /\ call' = [call EXCEPT ![r].retried = TRUE]
        \/ Stands(r, "mark") /\ dir # {} /\ Becomes(dir \cup {"ready"}, "read")
        \/ call[r].at \in {"venv", "pip", "mark"} /\ Fails
     /\ UNCHANGED <<fileState, shownPlugins, spoilt, pluginCalls, stopped>>

\* What cannot be made ready is removed, and an entry of an earlier installation stays.
RemoveNothing(r) ==
  /\ Stands(r, "undo")
  /\ EndsCall(r)
  /\ IF entries[call[r].name] # NoEntry THEN Spoil({call[r].name}) ELSE UNCHANGED spoilt
  /\ UNCHANGED <<pluginDir, fileState, shownPlugins, pluginCalls, stopped>>
RemoveUnready(r) ==
  /\ Stands(r, "undo")
  /\ EndsCall(r)
  /\ pluginDir' = [pluginDir EXCEPT ![call[r].name] = {}]
  /\ IF entries[call[r].name] # NoEntry THEN Spoil({call[r].name}) ELSE UNCHANGED spoilt
  /\ UNCHANGED <<fileState, shownPlugins, pluginCalls, stopped>>

-----------------------------------------------------------------------------
\* Enabling and deleting first look the plugin up, and an unknown one is answered
\* with 404.  A plugin of the marketplace that came from a repository is enabled
\* once more.
getPluginInstall(r) ==
  LET n == call[r].name
      found == readPluginsFile[n]
  IN /\ Stands(r, "get")
     /\ IF found # NoEntry
        THEN call' = [call EXCEPT ![r].at = "read",
                                  ![r].entry.from = IF call[r].op = "delete" THEN "none" ELSE found.from]
        ELSE IF call[r].op = "market" THEN TurnsTo(r, "reload") ELSE EndsCall(r)
     /\ UNCHANGED <<fileState, pluginDir, shownPlugins, spoilt, pluginCalls, stopped>>

ReadFile(r) ==
  /\ Stands(r, "read")
  /\ call' = [call EXCEPT ![r].at = "open", ![r].read = readPluginsFile]
  /\ UNCHANGED <<fileState, pluginDir, shownPlugins, spoilt, pluginCalls, stopped>>

OpenFile(r) ==
  /\ Stands(r, "open")
  /\ entriesOpen' = TRUE /\ fileThere' = TRUE
  /\ TurnsTo(r, "write")
  /\ UNCHANGED <<entries, migration, pluginRows, pluginDir, shownPlugins, spoilt, pluginCalls, stopped>>

writePluginsFile(r) ==
  LET n == call[r].name
      wants == call[r]
      again == wants.op = "market" /\ wants.entry.from = "git" /\ ~wants.enabling
  IN /\ Stands(r, "write")
     /\ entriesOpen' = FALSE
     /\ entries' = [wants.read EXCEPT ![n] = wants.entry]
     /\ call' = [call EXCEPT ![r].at = IF wants.op = "delete" THEN "remove"
                                       ELSE IF again THEN "get" ELSE "reload",
                             ![r].enabling = again]
     /\ spoilt' = (IF wants.alone /\ ~wants.enabling /\ wants.op \in {"dialog", "market"} THEN spoilt \ {n} ELSE spoilt)
                    \cup EntriesUndone(wants.read, {n})
     /\ UNCHANGED <<fileThere, migration, pluginRows, pluginDir, shownPlugins, pluginCalls, stopped>>

\* The write is refused before plugins.json is opened, or after: what nobody has
\* written since stays empty.  An installation leaves its directory without its entry.
WriteFails(r) ==
  LET installs == call[r].op \in {"dialog", "market"} /\ ~call[r].enabling
      lost == {n \in PluginNames : entries'[n] # entries[n]}
  IN /\ \/ Stands(r, "open") /\ UNCHANGED <<entries, entriesOpen>>
        \/ Stands(r, "write") /\ entriesOpen' = FALSE /\ entries' = readPluginsFile
     /\ EndsCall(r)
     /\ Spoil(lost \cup IF installs THEN {call[r].name} ELSE {})
     /\ UNCHANGED <<fileThere, migration, pluginRows, pluginDir, shownPlugins, pluginCalls, stopped>>

RemoveUninstalled(r) ==
  LET n == call[r].name
  IN /\ Stands(r, "remove")
     /\ pluginDir' = [pluginDir EXCEPT ![n] = {}]
     /\ TurnsTo(r, "reload")
     /\ spoilt' = IF call[r].alone /\ entries[n] = NoEntry THEN spoilt \ {n} ELSE spoilt
     /\ UNCHANGED <<fileState, shownPlugins, pluginCalls, stopped>>

\* The hooks and the tool servers are loaded again; if that fails the request does,
\* although the change was made, and the screen does not load its list again.
ReloadAll(r) ==
  /\ Stands(r, "reload")
  /\ TurnsTo(r, "list") \/ EndsCall(r)
  /\ UNCHANGED <<fileState, pluginDir, shownPlugins, spoilt, pluginCalls, stopped>>

\* The list, asked for after a change or when the screen opens: nothing
\* else is at work then, and a list that is up to date is not asked for again.
OpenPluginsScreen(r) ==
  /\ Calls = {} /\ migration = "done" /\ shownPlugins # entries
  /\ call' = [call EXCEPT ![r].at = "list", ![r].op = "open"]
  /\ UNCHANGED <<fileState, pluginDir, shownPlugins, spoilt, pluginCalls, stopped>>
listPluginInstalls(r) ==
  /\ Stands(r, "list")
  /\ call' = [call EXCEPT ![r].at = "answer", ![r].read = readPluginsFile]
  /\ UNCHANGED <<fileState, pluginDir, shownPlugins, spoilt, pluginCalls, stopped>>
loadPlugins(r) ==
  /\ Stands(r, "answer")
  /\ EndsCall(r)
  /\ shownPlugins' = call[r].read
  /\ UNCHANGED <<fileState, pluginDir, spoilt, pluginCalls, stopped>>

\* The server stops.  A file that was opened stays empty, and a file that is there
\* keeps the next start from copying the rows: of none of them it knows any more.
ServerStops ==
  /\ ~stopped /\ stopped' = TRUE
  /\ call' = [r \in PluginRequests |-> NoCall]
  /\ entriesOpen' = FALSE /\ entries' = readPluginsFile
  /\ migration' = "due"
  /\ Spoil({call[r].name : r \in Changing} \cup IF entriesOpen THEN PluginNames ELSE {})
  /\ UNCHANGED <<fileThere, pluginRows, pluginDir, shownPlugins, pluginCalls>>

-----------------------------------------------------------------------------
PluginsNext ==
  \/ migratePluginsFromDb \/ ServerStops
  \/ \E r \in PluginRequests :
       \/ install(r) \/ installFromMarket(r) \/ toggleEnabled(r) \/ confirmUninstall(r) \/ OpenPluginsScreen(r)
       \/ runGitClone(r) \/ ClearDirectory(r) \/ RenameClone(r) \/ copyDir(r)
       \/ ensurePluginRuntime(r) \/ RemoveUnready(r)
       \/ getPluginInstall(r) \/ ReadFile(r) \/ OpenFile(r) \/ writePluginsFile(r) \/ WriteFails(r)
       \/ RemoveUninstalled(r) \/ ReloadAll(r) \/ listPluginInstalls(r) \/ loadPlugins(r)

PluginsSpec == PluginsInit /\ [][PluginsNext]_pluginVars

-----------------------------------------------------------------------------
\* A plugin that is listed has the whole directory of the source its entry names,
\* made ready, and one that is not listed has no directory, whatever was installed,
\* enabled and deleted before and beside it: once nothing is at work on it, unless
\* two requests changed it at the same time, one wrote a list read before another's
\* change, a copy or a second installation failed halfway, a write of the list was
\* refused, or the server stopped in the middle (plugin-store.ts:69-72, 182-299).
PluginsAreWhole ==
  \A n \in PluginNames \ spoilt :
    (migration = "done" /\ \A r \in Changing : call[r].name # n) =>
      pluginDir[n] = IF entries[n] = NoEntry THEN {} ELSE Ready(entries[n].from)
=============================================================================
