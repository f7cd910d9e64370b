----------------------------- MODULE UserFiles -----------------------------
(***************************************************************************)
(* What the user adds to the agent as files: rules, one file each               *)
(* (apps/server/src/rules-store.ts, routes/rules.ts), skills, one directory        *)
(* each (skills-store.ts, routes/skills.ts, packages/agent-package/src/             *)
(* discover-standard-skills.ts), and settings.json, which lists what is switched     *)
(* off (veylin-settings-file.ts); the screens that list and edit them                  *)
(* (rules-settings-screen.tsx, skills-settings-screen.tsx) and the tool with which      *)
(* the agent writes the same files (veylin-config-fs-tools.ts).  A behaviour is          *)
(* about rules, skills or settings.                                           *)
(*                                                                         *)
(* A file has the name of the rule or skill in it too, and the two may differ: rules   *)
(* are known to the server by the file, skills by the name inside.  A text is the        *)
(* name it was first saved under and a number.  Left out: triggers and keywords,           *)
(* importing a directory and renaming a skill (no screen does), skills of plugins           *)
(* and packages; a file is written in one step.                               *)
(***************************************************************************)
EXTENDS Naturals, FiniteSets

CONSTANTS FileNames, SaveSlots, MaxSaves   \* changes at a time, and at most so many
ASSUME FileNamesAssumption == "none" \notin FileNames

VARIABLES
  topic,       \* "rules", "skills" or "settings"
  userFile,    \* of each file name the name inside and the text; NoFile without one
  rulesToMove, \* the rules an earlier version left in the database
  settings,    \* settings.json: the skills and the hooks that are switched off
  listed, off, \* the screen: its list, and the skills it knows to be off
  save,        \* what each change is at
  meant,       \* the texts that the user and the agent saved and did not replace
  meantOff,    \* and what they switched off
  lost,        \* texts overwritten or left behind, see the property
  overlapping,       \* have changes overlapped?
  saves

diskVars == <<userFile, rulesToMove, settings>>
screenVars == <<listed, off>>
intentVars == <<meant, meantOff, lost, overlapping>>
userVars == <<topic, diskVars, screenVars, save, intentVars, saves>>

File(inner, text) == [inner |-> inner, text |-> text]
NoText == <<"none", 0>>
NoFile == File("none", NoText)
NoFiles == [n \in FileNames |-> NoFile]
Kept == {n \in FileNames : userFile[n] # NoFile}
TextsIn(files) == {files[n].text : n \in FileNames} \ {NoText}
Settings(skills, hooks) == [skills |-> skills, hooks |-> hooks]

NoSave == [at |-> "none", op |-> "none", key |-> "none", name |-> "none", base |-> NoText,
           text |-> NoText, answer |-> NoFiles, read |-> Settings({}, {}), wants |-> Settings({}, {})]
Saving == {r \in SaveSlots : save[r].at # "none"}
Step(r, at) == save[r].at = at
Leads(r, at) == save' = [save EXCEPT ![r].at = at]
Done(r) == save' = [save EXCEPT ![r] = NoSave]
NewText(n) == <<n, saves + 1>>

UserFilesInit ==
  /\ topic \in {"rules", "skills", "settings"}
  /\ \E held \in SUBSET FileNames, inner \in [FileNames -> FileNames], moved \in {FileNames, {}} :
       /\ userFile = [n \in FileNames |-> IF n \in held THEN File(inner[n], <<n, 0>>) ELSE NoFile]
       /\ rulesToMove = IF topic = "rules" /\ held = {} THEN moved ELSE {}
       /\ topic = "settings" => held = FileNames /\ \A n \in FileNames : inner[n] = n
  /\ settings = Settings({}, {}) /\ listed = NoFiles /\ off = {}
  /\ save = [r \in SaveSlots |-> NoSave]
  /\ meant = TextsIn(userFile) \cup {<<n, 0>> : n \in rulesToMove}
  /\ meantOff = settings
  /\ lost = {} /\ overlapping = FALSE /\ saves = 0

-----------------------------------------------------------------------------
\* The rules of the database are written one by one before the first list.  A name
\* that is not valid any more ends it, and the rules left are never moved: from then
\* on there are files.
migrateRulesFromDb ==
  /\ \/ \E n \in rulesToMove :
          /\ userFile' = [userFile EXCEPT ![n] = File(n, <<n, 0>>)]
          /\ rulesToMove' = rulesToMove \ {n}
          /\ UNCHANGED lost
     \/ /\ rulesToMove # {}
        /\ rulesToMove' = {} /\ lost' = lost \cup {<<n, 0>> : n \in rulesToMove}
        /\ UNCHANGED userFile
  /\ UNCHANGED <<topic, settings, screenVars, save, meant, meantOff, overlapping, saves>>

-----------------------------------------------------------------------------
\* The screen.  Of two skills of one name it lists one; a rule it lists by its file.
Listings ==
  IF topic = "rules" THEN {userFile}
  ELSE {l \in [FileNames -> {NoFile} \cup {userFile[k] : k \in Kept}] :
          \A n \in FileNames : LET named == {userFile[k] : k \in {j \in Kept : userFile[j].inner = n}}
                               IN IF named = {} THEN l[n] = NoFile ELSE l[n] \in named}

BeginSave(r, change) ==
  /\ save[r] = NoSave /\ saves < MaxSaves /\ rulesToMove = {}
  /\ saves' = saves + 1
  /\ save' = [save EXCEPT ![r] = change]
  /\ overlapping' = (overlapping \/ Saving # {})
Change(op, at, key, name, base, text) ==
  [NoSave EXCEPT !.op = op, !.at = at, !.key = key, !.name = name, !.base = base, !.text = text]

OpenListScreen(r) ==
  /\ Saving = {} /\ rulesToMove = {} /\ listed # userFile
  /\ save' = [save EXCEPT ![r].at = "list", ![r].op = "open"]
  /\ UNCHANGED <<topic, diskVars, screenVars, intentVars, saves>>

\* A rule: created, edited in a form filled from the list, switched on or off, deleted.
SaveRule(r) ==
  /\ topic = "rules"
  /\ \E n \in FileNames :
       \/ BeginSave(r, Change("create", "access", n, n, NoText, NewText(n)))
       \/ /\ listed[n] # NoFile
          /\ \/ \E name \in FileNames :
                  BeginSave(r, Change("edit", "read", n, name, listed[n].text, NewText(n)))
             \/ BeginSave(r, Change("toggle", "read", n, "none", NoText, NoText))
             \/ BeginSave(r, Change("delete", "delete", n, n, listed[n].text, NoText))
  /\ UNCHANGED <<topic, diskVars, screenVars, meant, meantOff, lost>>

\* A skill: its name is not edited, and what is written keeps the name inside.
SaveSkill(r) ==
  /\ topic = "skills"
  /\ \E n \in FileNames :
       \/ BeginSave(r, Change("create", "write", n, n, NoText, NewText(n)))
       \/ /\ listed[n] # NoFile
          /\ \/ BeginSave(r, Change("edit", "find", n, n, listed[n].text, NewText(n)))
             \/ BeginSave(r, Change("delete", "access", n, n, listed[n].text, NoText))
  /\ UNCHANGED <<topic, diskVars, screenVars, meant, meantOff, lost>>

-----------------------------------------------------------------------------
\* The stores.  A rule is not created over another; a skill may be.
createRule(r) ==
  /\ Step(r, "access") /\ topic = "rules"
  /\ IF save[r].key \in Kept THEN Done(r) ELSE Leads(r, "write")
  /\ UNCHANGED <<topic, diskVars, screenVars, intentVars, saves>>

\* What the request does not say is kept as the file has it, the name inside too.
updateRule(r) ==
  LET k == save[r].key
  IN /\ Step(r, "read")
     /\ IF k \notin Kept THEN Done(r)
        ELSE IF save[r].op = "edit" THEN Leads(r, "write")
        ELSE save' = [save EXCEPT ![r].at = "write", ![r].name = userFile[k].inner,
                                  ![r].base = userFile[k].text, ![r].text = userFile[k].text]
     /\ UNCHANGED <<topic, diskVars, screenVars, intentVars, saves>>

updateUserSkill(r) ==
  /\ Step(r, "find")
  /\ IF \E k \in Kept : userFile[k].inner = save[r].name THEN Leads(r, "write") ELSE Done(r)
  /\ UNCHANGED <<topic, diskVars, screenVars, intentVars, saves>>

\* A text that is to be replaced or deleted, but is in other files than those.
LeftBehind(text, files) == {text} \cap ({userFile[n].text : n \in FileNames \ files} \ {NoText})

\* The file is written under the name inside, whatever file the text came from.
WriteText(r) ==
  LET s == save[r]
      over == {userFile[s.name].text} \ {s.base, NoText}
  IN /\ Step(r, "write")
     /\ userFile' = [userFile EXCEPT ![s.name] = File(s.name, s.text)]
     /\ meant' = (meant \ {s.base}) \cup {s.text}
     /\ lost' = lost \cup over \cup LeftBehind(s.base, {s.name, s.key})
     /\ Leads(r, IF topic = "rules" /\ s.name # s.key THEN "remove" ELSE "answer")
     /\ UNCHANGED <<topic, rulesToMove, settings, screenVars, meantOff, overlapping, saves>>

KeepOld(r) ==
  /\ Step(r, "remove")
  /\ Leads(r, "answer")
  /\ UNCHANGED <<topic, diskVars, screenVars, intentVars, saves>>
RemoveOld(r) ==
  LET s == save[r]
  IN /\ Step(r, "remove")
     /\ userFile' = [userFile EXCEPT ![s.key] = NoFile]
     /\ lost' = lost \cup ({userFile[s.key].text} \ {s.base, NoText})
     /\ Leads(r, "answer")
     /\ UNCHANGED <<topic, rulesToMove, settings, screenVars, meant, meantOff, overlapping, saves>>

\* Deleting removes the file, for a skill the directory, of that name; a skill whose
\* directory has another name is not found.
deleteRule(r) ==
  LET s == save[r]
      found == userFile[s.key].text
  IN /\ Step(r, "delete")
     /\ userFile' = [userFile EXCEPT ![s.key] = NoFile]
     /\ meant' = meant \ {s.base}
     /\ lost' = lost \cup ({found} \ {s.base, NoText}) \cup LeftBehind(s.base, {s.key})
     /\ Leads(r, "list")
     /\ UNCHANGED <<topic, rulesToMove, settings, screenVars, meantOff, overlapping, saves>>
deleteVeylinSkill(r) ==
  /\ Step(r, "access") /\ topic = "skills"
  /\ IF save[r].key \in Kept THEN Leads(r, "delete") ELSE Done(r)
  /\ UNCHANGED <<topic, diskVars, screenVars, intentVars, saves>>

\* A saved rule is put into the list at once, one that was renamed only if the list
\* has one of that name; then all is listed again.
SaveAnswered(r) ==
  LET s == save[r]
      shows == topic = "rules" /\ (s.op = "create" \/ (s.op = "edit" /\ listed[s.name] # NoFile))
  IN /\ Step(r, "answer")
     /\ listed' = IF shows THEN [listed EXCEPT ![s.name] = File(s.name, s.text)] ELSE listed
     /\ Leads(r, "list")
     /\ UNCHANGED <<topic, diskVars, off, intentVars, saves>>
List(r) ==
  /\ Step(r, "list")
  /\ \E l \in Listings : save' = [save EXCEPT ![r].at = "show", ![r].answer = l, ![r].read = settings]
  /\ UNCHANGED <<topic, diskVars, screenVars, intentVars, saves>>
loadList(r) ==
  /\ Step(r, "show")
  /\ listed' = save[r].answer /\ off' = save[r].read.skills
  /\ Done(r)
  /\ UNCHANGED <<topic, diskVars, intentVars, saves>>

-----------------------------------------------------------------------------
\* The agent writes any of these files, and deletes them.
configWrite ==
  /\ topic # "settings" /\ saves < MaxSaves /\ rulesToMove = {}
  /\ saves' = saves + 1
  /\ \E n \in FileNames :
       /\ \/ \E inner \in FileNames :
               /\ userFile' = [userFile EXCEPT ![n] = File(inner, NewText(n))]
               /\ meant' = (meant \ {userFile[n].text}) \cup {NewText(n)}
          \/ userFile' = [userFile EXCEPT ![n] = NoFile] /\ meant' = meant \ {userFile[n].text}
       /\ lost' = lost \cup LeftBehind(userFile[n].text, {n})
  /\ overlapping' = (overlapping \/ Saving # {})
  /\ UNCHANGED <<topic, rulesToMove, settings, screenVars, save, meantOff>>

-----------------------------------------------------------------------------
\* settings.json.  The screen sends all the skills that are off as it knows them; a
\* hook is switched by the server, on what the file says.
toggleSkill(r) ==
  /\ topic = "settings"
  /\ \E n \in FileNames :
       LET next == (off \cup {n}) \ (off \cap {n})
       IN /\ BeginSave(r, [NoSave EXCEPT !.op = "toggleSkill", !.at = "patch", !.wants.skills = next])
          /\ off' = next
          /\ meantOff' = [meantOff EXCEPT !.skills = (@ \cup {n}) \ (@ \cap {n})]
  /\ UNCHANGED <<topic, diskVars, listed, meant, lost>>

setHookDisabled(r) ==
  /\ \/ /\ topic = "settings"
        /\ \E n \in FileNames :
             /\ BeginSave(r, [NoSave EXCEPT !.op = "toggleHook", !.at = "get", !.key = n])
             /\ meantOff' = [meantOff EXCEPT !.hooks = (@ \cup {n}) \ (@ \cap {n})]
     \/ /\ Step(r, "get")
        /\ LET n == save[r].key
               hooks == (settings.hooks \cup {n}) \ (settings.hooks \cap {n})
           IN save' = [save EXCEPT ![r].at = "patch", ![r].wants.hooks = hooks]
        /\ UNCHANGED <<meantOff, overlapping, saves>>
  /\ UNCHANGED <<topic, diskVars, screenVars, meant, lost>>

patchVeylinSettings(r) ==
  LET s == save[r]
      next == IF s.op = "toggleSkill" THEN Settings(s.wants.skills, s.read.hooks)
              ELSE Settings(s.read.skills, s.wants.hooks)
  IN /\ \/ Step(r, "patch") /\ save' = [save EXCEPT ![r].at = "store", ![r].read = settings] /\ UNCHANGED settings
        \/ Step(r, "store") /\ settings' = next /\ Done(r)
     /\ UNCHANGED <<topic, userFile, rulesToMove, screenVars, intentVars, saves>>

\* A save of the settings fails: the screen loads its list again.
SettingsFail(r) ==
  /\ save[r].at \in {"patch", "store"}
  /\ Leads(r, "list") /\ meantOff' = settings
  /\ UNCHANGED <<topic, diskVars, screenVars, meant, lost, overlapping, saves>>

-----------------------------------------------------------------------------
UserFilesNext ==
  \/ migrateRulesFromDb \/ configWrite
  \/ \E r \in SaveSlots :
       \/ OpenListScreen(r) \/ SaveRule(r) \/ SaveSkill(r)
       \/ createRule(r) \/ updateRule(r) \/ updateUserSkill(r) \/ WriteText(r) \/ RemoveOld(r)
       \/ deleteRule(r) \/ deleteVeylinSkill(r) \/ SaveAnswered(r) \/ List(r) \/ loadList(r)
       \/ toggleSkill(r) \/ setHookDisabled(r) \/ patchVeylinSettings(r) \/ SettingsFail(r)

UserFilesSpec == UserFilesInit /\ [][UserFilesNext]_userVars

-----------------------------------------------------------------------------
\* What was saved is there, once, until it is replaced or deleted, and nothing else
\* is: once no request is at work, and unless two of them overlapped, every text that
\* was saved and not replaced is in exactly one file, except one that was written over
\* by a save that did not mean it (a rule renamed to, or a skill created under, its
\* name; a form filled from an old list) or stays behind in a file named unlike the
\* rule or skill in it; and settings.json switches off what the user did
\* (rules-store.ts:183-242, discover-standard-skills.ts:24-58, veylin-settings-file.ts:95-114).
ChoicesAreKept ==
  Saving = {} /\ ~overlapping =>
    /\ settings = meantOff
    /\ \A t \in (meant \cup TextsIn(userFile)) \ (lost \cup {<<n, 0>> : n \in rulesToMove}) :
         t \in meant /\ Cardinality({n \in FileNames : userFile[n].text = t}) = 1
=============================================================================
