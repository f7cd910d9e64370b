-------------------------- MODULE ThreadPartsProofs --------------------------
(***************************************************************************)
(* Proofs about what a thread works with.  The tool servers of its tenant: *)
(* ToolsInv says how far a request has come, and that the toolsets in      *)
(* memory are those of the files as they were read; ToolsFollowFiles       *)
(* follows once nobody is at work.  Its row: RowInv says that a handler    *)
(* holds the row as it is unless another has written since it read, from   *)
(* which OnlyStaleWritesHarm follows step by step; LoopInv adds that a     *)
(* running loop has a timer, a handler or the browser at work for it.  The *)
(* modes the composer shows: SureOf says of a mode that the newest switch  *)
(* under way, or else the row, agrees with its chip, and that no older one *)
(* is served after it.                                                     *)
(***************************************************************************)
EXTENDS ToolServers, ThreadRow, ComposerModes, FiniteSetTheorems, TLAPS

-----------------------------------------------------------------------------
(* The tool servers. *)

Entries == [ServerNames -> {"none", "on", "off", "bare"}]
Merging == [state : Entries, headers : SUBSET ServerNames]
ChangeSteps == {"read", "openPublic", "writePublic", "openLocal", "writeLocal"}
RebuildSteps == {"disconnect", "connect", "list"}
ToolRequest == [step : ChangeSteps \cup RebuildSteps \cup {"rest", "rebuild"},
                kind : {"none", "create", "update", "delete"},
                tenant : Tenants, file : Merging, closing : BOOLEAN]
Toolsets == [tenant : Tenants \cup {"nobody"}, names : SUBSET ServerNames]

ToolsTypeOK ==
  /\ mcpFile \in Entries /\ localFile \in SUBSET ServerNames
  /\ emptied \in SUBSET {"public", "local"}
  /\ request \in [RequestSlots -> ToolRequest]
  /\ \A s \in RequestSlots : request[s].step = "read" => request[s].kind # "none"
  /\ mcp \in BOOLEAN /\ leaked \in BOOLEAN /\ crossed \in BOOLEAN /\ torn \in BOOLEAN
  /\ mcpToolsets \in Toolsets
  /\ mcpCache \in [Tenants -> Toolsets]
  /\ \A t \in Tenants : mcpCache[t] = NoTools \/ mcpCache[t].tenant = t

\* While requests do not overlap, one is at work, and closes the client there is.
OneAtWork ==
  ~crossed =>
    /\ ~leaked
    /\ \A s, o \in Busy : s = o
    /\ \A s \in RequestSlots : /\ request[s].step = "disconnect" => request[s].closing
                               /\ request[s].step = "connect" => ~mcp

\* Every entry has a url, those with headers are among them.
Clean(state, headers) ==
  \A n \in ServerNames : state[n] # "bare" /\ (n \in headers => state[n] # "none")

\* How far the one who writes the files has come.
FilesInStep ==
  ~crossed /\ ~torn =>
    /\ (\A s \in RequestSlots : request[s].step \notin {"writePublic", "openLocal", "writeLocal"}) =>
         emptied = {} /\ Clean(mcpFile, localFile)
    /\ \A s \in RequestSlots :
         /\ request[s].step \in {"openPublic", "writePublic"} =>
              Clean(request[s].file.state, request[s].file.headers)
         /\ request[s].step = "openLocal" => emptied = {}
         /\ request[s].step = "writeLocal" => emptied = {"local"}
         /\ request[s].step \in {"openLocal", "writeLocal"} => Clean(mcpFile, request[s].file.headers)
         /\ request[s].step = "writePublic" => emptied = {"public"}

\* A request on its own: nobody else changes the files while it lists the tools.
LastOnItsOwn ==
  lastAlone \in Tenants =>
    /\ \A s, o \in Busy : s = o
    /\ \A s \in Busy : /\ request[s].tenant = lastAlone
                       /\ request[s].step = "list" => request[s].file.headers = buildMcpServerConfigs
    /\ Busy = {} => mcpCache[lastAlone] \in {ToolsOf(lastAlone, buildMcpServerConfigs), ToolsOf(lastAlone, {})}

\* The tools in use are what is kept for some tenant, or are being listed again.
ToolsAreKept ==
  mcpToolsets # NoTools =>
    \/ \E s \in RequestSlots : request[s].step \in RebuildSteps
    \/ mcpToolsets.tenant \in Tenants /\ mcpToolsets = mcpCache[mcpToolsets.tenant]

ToolsInv == ToolsTypeOK /\ OneAtWork /\ FilesInStep /\ LastOnItsOwn /\ ToolsAreKept

\* Only the request of slot s goes on.
GoesOn(s, r) ==
  /\ r \in ToolRequest /\ request' = [request EXCEPT ![s] = r]

\* What then is known of the others.
LEMMA OthersWait ==
  ASSUME ToolsTypeOK, NEW s \in RequestSlots, NEW r, GoesOn(s, r)
  PROVE  /\ request' \in [RequestSlots -> ToolRequest] /\ request'[s] = r
         /\ \A o \in RequestSlots : o # s => request'[o] = request[o]
  BY DEF GoesOn, ToolsTypeOK

\* What is read of the files depends on nothing else.
LEMMA FilesRead ==
  ASSUME UNCHANGED fileVars
  PROVE  buildMcpServerConfigs' = buildMcpServerConfigs
  BY DEF fileVars, buildMcpServerConfigs, listRemoteMcpServers, loadMergedMcpFile, NoFile, Merged

\* A request at rest.
LEMMA AtRest ==
  /\ NoFile \in Merging /\ Resting \in ToolRequest /\ Resting.step = "rest" /\ Resting.closing = FALSE
  /\ \A t \in Tenants : Rebuilds(t) \in ToolRequest /\ Rebuilds(t).step = "rebuild" /\ Rebuilds(t).tenant = t
                        /\ Rebuilds(t).closing = FALSE
  /\ NoTools \in Toolsets /\ NoTools.tenant = "nobody"
  /\ \A t \in Tenants, names \in SUBSET ServerNames :
       ToolsOf(t, names) \in Toolsets /\ ToolsOf(t, names).tenant = t
<1>1. NoFile \in Merging
  BY DEF NoFile, Merged, Merging, Entries
<1>2. Resting \in ToolRequest /\ Resting.step = "rest" /\ Resting.closing = FALSE
  BY <1>1, DevTenantAssumption DEF Resting, ToolRequest
<1>3. \A t \in Tenants : Rebuilds(t) \in ToolRequest /\ Rebuilds(t).step = "rebuild" /\ Rebuilds(t).tenant = t
                        /\ Rebuilds(t).closing = FALSE
  BY <1>1, DevTenantAssumption DEF Rebuilds, Resting, ToolRequest
<1>4. NoTools \in Toolsets /\ NoTools.tenant = "nobody"
  BY DEF NoTools, ToolsOf, Toolsets
<1>5. \A t \in Tenants, names \in SUBSET ServerNames :
       ToolsOf(t, names) \in Toolsets /\ ToolsOf(t, names).tenant = t
  BY DEF ToolsOf, Toolsets
<1> QED
  BY <1>1, <1>2, <1>3, <1>4, <1>5

\* A request that arrives while another one is at work is known to overlap it.
LEMMA ArrivalKeeps ==
  ASSUME ToolsInv, NEW s \in RequestSlots, NEW t \in Tenants, NEW r \in ToolRequest,
         r.step = "rebuild" \/ (r.step = "read" /\ r.kind # "none"), r.tenant = t, Arrive(s, t, r)
  PROVE  ToolsInv'
<1>0. ToolsTypeOK /\ OneAtWork /\ FilesInStep /\ LastOnItsOwn /\ ToolsAreKept
  BY DEF ToolsInv
<1>1. /\ request[s].step = "rest" /\ GoesOn(s, r) /\ UNCHANGED <<fileVars, clientVars, torn>>
      /\ lastAlone' = IF Busy = {} THEN t ELSE "nobody"
  BY DEF Arrive, GoesOn
<1>2. crossed' \in BOOLEAN /\ (~crossed' => ~crossed /\ Busy = {})
  <2>1. PICK x \in BOOLEAN : crossed' = (crossed \/ x) /\ (x <=> Busy # {})
    BY DEF Arrive
  <2> QED
    BY <1>0, <2>1 DEF ToolsTypeOK
<1>3. /\ request' \in [RequestSlots -> ToolRequest] /\ request'[s] = r
      /\ \A o \in RequestSlots : o # s => request'[o] = request[o]
  BY <1>0, <1>1, OthersWait
<1>4. ToolsTypeOK'
  BY <1>0, <1>1, <1>2, <1>3 DEF ToolsTypeOK, fileVars, clientVars
<1>5. OneAtWork'
  BY <1>0, <1>1, <1>2, <1>3 DEF OneAtWork, clientVars, Busy
<1>6. FilesInStep'
  BY <1>0, <1>1, <1>2, <1>3 DEF FilesInStep, fileVars, Clean
<1>7. LastOnItsOwn'
  <2>1. SUFFICES ASSUME lastAlone' \in Tenants
                 PROVE  /\ \A a, o \in Busy' : a = o
                        /\ \A a \in Busy' : /\ request'[a].tenant = lastAlone'
                                            /\ request'[a].step # "list"
                        /\ Busy' # {}
    BY DEF LastOnItsOwn
  <2>2. Busy = {} /\ lastAlone' = t
    BY <1>1, <2>1, NobodyAssumption
  <2>3. Busy' = {s}
    BY <1>3, <2>2 DEF Busy
  <2> QED
    BY <1>3, <2>2, <2>3
<1>8. ToolsAreKept'
  BY <1>0, <1>1, <1>3 DEF ToolsAreKept, clientVars, RebuildSteps, NoTools, ToolsOf
<1> QED
  BY <1>4, <1>5, <1>6, <1>7, <1>8 DEF ToolsInv

\* What is kept for a tenant is taken into use.
LEMMA CachedKeeps ==
  ASSUME ToolsInv, NEW t \in Tenants, mcpCache[t] # NoTools, mcpToolsets' = mcpCache[t],
         UNCHANGED <<fileVars, request, mcp, mcpCache, leaked, crossed, torn, lastAlone>>
  PROVE  ToolsInv'
<1>0. ToolsTypeOK /\ OneAtWork /\ FilesInStep /\ LastOnItsOwn /\ ToolsAreKept
  BY DEF ToolsInv
<1>1. ToolsTypeOK'
  BY <1>0 DEF ToolsTypeOK, fileVars, NoTools, ToolsOf
<1>2. OneAtWork' /\ FilesInStep'
  BY <1>0 DEF OneAtWork, FilesInStep, fileVars, Busy, Clean
<1>3. LastOnItsOwn'
  BY <1>0, FilesRead DEF LastOnItsOwn, Busy, ToolsOf
<1>4. ToolsAreKept'
  BY <1>0 DEF ToolsTypeOK, ToolsAreKept
<1> QED
  BY <1>1, <1>2, <1>3, <1>4 DEF ToolsInv

\* Files without entries that lack a url stay such when they are changed.
LEMMA ChangedClean ==
  ASSUME NEW file \in Merging, NEW kind \in {"create", "update", "delete"}, NEW n \in ServerNames,
         NEW headers \in BOOLEAN
  PROVE  /\ Changed(file, kind, n, headers) \in Merging
         /\ Clean(file.state, file.headers) /\ ((kind = "create") = (file.state[n] = "none")) =>
              Clean(Changed(file, kind, n, headers).state, Changed(file, kind, n, headers).headers)
<1>1. file.state \in Entries /\ file.headers \in SUBSET ServerNames
  BY DEF Merging
<1>2. CASE kind = "create"
  <2>1. PICK q : q = Changed(file, kind, n, headers)
    OBVIOUS
  <2>2. /\ q = [state |-> q.state, headers |-> q.headers] /\ q.state = [file.state EXCEPT ![n] = "on"]
        /\ q.headers = IF headers THEN file.headers \cup {n} ELSE file.headers
    BY <1>2, <2>1 DEF Changed, Merged
  <2> QED
    BY <1>1, <2>1, <2>2 DEF Merging, Entries, Clean
<1>3. CASE kind = "update"
  <2>1. PICK q : q = Changed(file, kind, n, headers)
    OBVIOUS
  <2>2. /\ q = [state |-> q.state, headers |-> q.headers]
        /\ q.state = [file.state EXCEPT ![n] = IF @ = "on" THEN "off" ELSE "on"]
        /\ q.headers = file.headers
    BY <1>3, <2>1 DEF Changed, Merged
  <2> QED
    BY <1>1, <1>3, <2>1, <2>2 DEF Merging, Entries, Clean
<1>4. CASE kind = "delete"
  <2>1. PICK q : q = Changed(file, kind, n, headers)
    OBVIOUS
  <2>2. /\ q = [state |-> q.state, headers |-> q.headers] /\ q.state = [file.state EXCEPT ![n] = "none"]
        /\ q.headers = file.headers \ {n}
    BY <1>4, <2>1 DEF Changed, Merged
  <2> QED
    BY <1>1, <2>1, <2>2 DEF Merging, Entries, Clean
<1> QED
  BY <1>2, <1>3, <1>4

\* A request on its own that changes what it is at, and no file the others read.
LEMMA AloneStill ==
  ASSUME ToolsInv, NEW s \in RequestSlots, NEW r, GoesOn(s, r), request[s].step # "rest",
         r.step \notin {"rest", "list"}, r.tenant = request[s].tenant, UNCHANGED lastAlone
  PROVE  LastOnItsOwn'
<1>0. ToolsTypeOK /\ LastOnItsOwn
  BY DEF ToolsInv
<1>1. /\ request' \in [RequestSlots -> ToolRequest] /\ request'[s] = r
      /\ \A o \in RequestSlots : o # s => request'[o] = request[o]
  BY <1>0, OthersWait
<1>2. SUFFICES ASSUME lastAlone' \in Tenants
               PROVE  /\ \A a, o \in Busy' : a = o
                      /\ \A a \in Busy' : /\ request'[a].tenant = lastAlone'
                                          /\ request'[a].step # "list"
                      /\ Busy' # {}
  BY DEF LastOnItsOwn
<1>3. s \in Busy /\ \A o \in Busy : o = s
  BY <1>0, <1>2 DEF LastOnItsOwn, Busy
<1>4. Busy' = {s}
  BY <1>1, <1>3 DEF Busy
<1> QED
  BY <1>0, <1>1, <1>2, <1>3, <1>4 DEF LastOnItsOwn

\* The files are read, and what is changed in them is as clean as they are.
LEMMA ReadingKeeps ==
  ASSUME ToolsInv, NEW s \in RequestSlots, ReadFile(s)
  PROVE  ToolsInv'
<1>0. ToolsTypeOK /\ OneAtWork /\ FilesInStep /\ LastOnItsOwn /\ ToolsAreKept
  BY DEF ToolsInv
<1>1. request[s].step = "read" /\ UNCHANGED <<fileVars, clientVars, crossed, torn>>
      /\ request[s] \in ToolRequest
  BY <1>0 DEF ReadFile, ToolsTypeOK
<1>2. PICK file : file = loadMergedMcpFile
  OBVIOUS
<1>3. file \in Merging
  <2>1. file.state \in Entries /\ file.headers \in SUBSET ServerNames
        /\ file = [state |-> file.state, headers |-> file.headers]
    BY <1>0, <1>2, AtRest DEF loadMergedMcpFile, Merged, ToolsTypeOK, Entries, Merging
  <2> QED
    BY <2>1 DEF Merging
<1>4. PICK n \in ServerNames, headers \in BOOLEAN :
        /\ file.state[n] = "bare" => request[s].kind = "create"
        /\ IF (request[s].kind = "create") = (file.state[n] = "none")
           THEN /\ request' = [request EXCEPT ![s].step = "openPublic",
                                              ![s].file = Changed(file, request[s].kind, n, headers)]
                /\ UNCHANGED lastAlone
           ELSE Ends(s) /\ lastAlone' = "nobody"
  BY <1>2 DEF ReadFile
<1>5. CASE Ends(s) /\ lastAlone' = "nobody"
  <2>1. GoesOn(s, Resting)
    BY <1>5, AtRest DEF Ends, GoesOn
  <2>2. /\ request' \in [RequestSlots -> ToolRequest] /\ request'[s] = Resting
        /\ \A o \in RequestSlots : o # s => request'[o] = request[o]
    BY <1>0, <2>1, OthersWait
  <2>3. ToolsTypeOK'
    BY <1>0, <1>1, <2>2, AtRest DEF ToolsTypeOK, fileVars, clientVars
  <2>4. OneAtWork' /\ FilesInStep'
    BY <1>0, <1>1, <2>2, AtRest DEF OneAtWork, FilesInStep, fileVars, clientVars, Busy, Clean
  <2>5. LastOnItsOwn'
    BY <1>5, NobodyAssumption DEF LastOnItsOwn
  <2>6. ToolsAreKept'
    BY <1>0, <1>1, <2>2 DEF ToolsAreKept, clientVars, RebuildSteps, NoTools, ToolsOf
  <2> QED
    BY <2>3, <2>4, <2>5, <2>6 DEF ToolsInv
<1>6. CASE /\ (request[s].kind = "create") = (file.state[n] = "none")
           /\ request' = [request EXCEPT ![s].step = "openPublic",
                                         ![s].file = Changed(file, request[s].kind, n, headers)]
           /\ UNCHANGED lastAlone
  <2>1. request[s].kind \in {"create", "update", "delete"}
    BY <1>0, <1>1 DEF ToolRequest, ToolsTypeOK
  <2>2. PICK new : new = Changed(file, request[s].kind, n, headers)
    OBVIOUS
  <2>3. PICK r : r = [request[s] EXCEPT !.step = "openPublic", !.file = new]
    OBVIOUS
  <2>4. request' = [request EXCEPT ![s] = r]
    BY <1>0, <1>6, <2>2, <2>3 DEF ToolsTypeOK
  <2>5. new \in Merging /\ (Clean(file.state, file.headers) => Clean(new.state, new.headers))
    BY <1>3, <1>6, <2>2, <2>1, ChangedClean
  <2>6. /\ r \in ToolRequest /\ r.step = "openPublic" /\ r.tenant = request[s].tenant /\ r.file = new
    <3>1. r = [step |-> "openPublic", kind |-> request[s].kind, tenant |-> request[s].tenant,
               file |-> new, closing |-> request[s].closing]
      BY <1>1, <2>3 DEF ToolRequest
    <3>2. request[s].tenant \in Tenants /\ request[s].closing \in BOOLEAN
      BY <1>1 DEF ToolRequest
    <3> QED
      BY <2>1, <2>5, <3>1, <3>2 DEF ToolRequest, ChangeSteps
  <2>7. GoesOn(s, r)
    BY <2>4, <2>6 DEF GoesOn
  <2>8. /\ request' \in [RequestSlots -> ToolRequest] /\ request'[s] = r
        /\ \A o \in RequestSlots : o # s => request'[o] = request[o]
    BY <1>0, <2>7, OthersWait
  <2>9. ToolsTypeOK'
    BY <1>0, <1>1, <1>6, <2>6, <2>8 DEF ToolsTypeOK, fileVars, clientVars
  <2>10. OneAtWork'
    BY <1>0, <1>1, <2>6, <2>8 DEF OneAtWork, clientVars, Busy
  <2>11. FilesInStep'
    <3>1. ASSUME ~crossed, ~torn PROVE emptied = {} /\ Clean(mcpFile, localFile)
      BY <1>0, <1>1, <3>1 DEF OneAtWork, FilesInStep, Busy
    <3>2. ASSUME ~crossed, ~torn PROVE Clean(file.state, file.headers)
      BY <1>2, <3>1, <3>2 DEF loadMergedMcpFile, Merged, Clean
    <3> QED
      BY <1>0, <1>1, <2>5, <2>6, <2>8, <3>1, <3>2 DEF FilesInStep, fileVars, Clean
  <2>12. LastOnItsOwn'
    BY <1>1, <1>6, <2>6, <2>7, AloneStill
  <2>13. ToolsAreKept'
    BY <1>0, <1>1, <2>6, <2>8 DEF ToolsAreKept, clientVars, RebuildSteps, NoTools, ToolsOf
  <2> QED
    BY <2>9, <2>10, <2>11, <2>12, <2>13 DEF ToolsInv
<1> QED
  BY <1>4, <1>5, <1>6

\* The files are opened and written, one after the other.
LEMMA WritingKeeps ==
  ASSUME ToolsInv, NEW s \in RequestSlots, OpenFile(s) \/ writeMcpPublic(s) \/ writeMcpLocal(s)
  PROVE  ToolsInv'
<1>0. ToolsTypeOK /\ OneAtWork /\ FilesInStep /\ LastOnItsOwn /\ ToolsAreKept /\ request[s] \in ToolRequest
  BY DEF ToolsInv, ToolsTypeOK
<1>1. UNCHANGED <<clientVars, crossed, torn, lastAlone>>
  BY DEF OpenFile, writeMcpPublic, writeMcpLocal
<1>2. PICK r :
        /\ GoesOn(s, r) /\ r.tenant = request[s].tenant
        /\ \/ /\ request[s].step = "openPublic" /\ r.step = "writePublic" /\ r.file = request[s].file
              /\ emptied' = emptied \cup {"public"} /\ UNCHANGED <<mcpFile, localFile>>
           \/ /\ request[s].step = "openLocal" /\ r.step = "writeLocal" /\ r.file = request[s].file
              /\ emptied' = emptied \cup {"local"} /\ UNCHANGED <<mcpFile, localFile>>
           \/ /\ request[s].step = "writePublic" /\ r.step = "openLocal"
              /\ r.file.headers = request[s].file.headers /\ r.file \in Merging
              /\ mcpFile' = request[s].file.state /\ emptied' = emptied \ {"public"} /\ UNCHANGED localFile
           \/ /\ request[s].step = "writeLocal" /\ r.step = "rebuild"
              /\ localFile' = request[s].file.headers /\ emptied' = emptied \ {"local"} /\ UNCHANGED mcpFile
  <2>1. ASSUME NEW step \in ChangeSteps, Proceeds(s, step)
        PROVE  \E r : /\ GoesOn(s, r) /\ r.tenant = request[s].tenant
                      /\ r.step = step /\ r.file = request[s].file
    <3>1. PICK r : r = [request[s] EXCEPT !.step = step]
      OBVIOUS
    <3>2. /\ r \in ToolRequest /\ r.tenant = request[s].tenant
          /\ r.step = step /\ r.file = request[s].file
      BY <1>0, <2>1, <3>1 DEF ToolRequest
    <3>3. request' = [request EXCEPT ![s] = r]
      BY <1>0, <2>1, <3>1 DEF Proceeds, ToolsTypeOK
    <3> QED
      BY <3>2, <3>3 DEF GoesOn
  <2>2. CASE request[s].step = "openPublic" /\ OpenFile(s)
    BY <2>1, <2>2 DEF OpenFile, ChangeSteps
  <2>3. CASE request[s].step = "openLocal" /\ OpenFile(s)
    BY <2>1, <2>3 DEF OpenFile, ChangeSteps
  <2>4. CASE writeMcpPublic(s)
    <3>1. PICK file : file = [request[s].file EXCEPT !.state = NoFile.state]
      OBVIOUS
    <3>2. PICK r : r = [request[s] EXCEPT !.step = "openLocal", !.file = file]
      OBVIOUS
    <3>3. file \in Merging /\ file.headers = request[s].file.headers
      BY <1>0, <3>1, AtRest DEF Merging, ToolRequest
    <3>4. r = [step |-> "openLocal", kind |-> request[s].kind, tenant |-> request[s].tenant,
               file |-> file, closing |-> request[s].closing]
      BY <1>0, <3>2 DEF ToolRequest
    <3>5. r \in ToolRequest
      BY <1>0, <3>3, <3>4 DEF ToolRequest, ChangeSteps
    <3>6. request' = [request EXCEPT ![s] = r]
      BY <1>0, <2>4, <3>1, <3>2 DEF writeMcpPublic, ToolsTypeOK, ToolRequest
    <3>7. GoesOn(s, r)
      BY <3>5, <3>6 DEF GoesOn
    <3>8. /\ r.step = "openLocal" /\ r.tenant = request[s].tenant
          /\ r.file = file
      BY <3>4
    <3> QED
      BY <2>4, <3>3, <3>7, <3>8 DEF writeMcpPublic
  <2>5. CASE writeMcpLocal(s)
    <3>1. request[s].tenant \in Tenants
      BY <1>0 DEF ToolRequest
    <3>2. PICK r : r = Rebuilds(request[s].tenant)
      OBVIOUS
    <3>3. GoesOn(s, r) /\ r.step = "rebuild" /\ r.tenant = request[s].tenant
      BY <2>5, <3>1, <3>2, AtRest DEF GoesOn, writeMcpLocal
    <3> QED
      BY <2>5, <3>3 DEF writeMcpLocal, HeadersWritten
  <2> QED
    BY <2>2, <2>3, <2>4, <2>5 DEF OpenFile
<1>3. /\ request' \in [RequestSlots -> ToolRequest] /\ request'[s] = r
      /\ \A o \in RequestSlots : o # s => request'[o] = request[o]
  BY <1>0, <1>2, OthersWait
<1>4. request[s].step \in {"openPublic", "openLocal", "writePublic", "writeLocal"}
      /\ r.step \in {"writePublic", "openLocal", "writeLocal", "rebuild"}
  BY <1>2
<1>5. ToolsTypeOK'
  <2>1. request[s].file.state \in Entries /\ request[s].file.headers \in SUBSET ServerNames
    BY <1>0 DEF ToolRequest, Merging
  <2>2. /\ mcpFile' \in Entries /\ localFile' \in SUBSET ServerNames
        /\ emptied' \in SUBSET {"public", "local"}
    BY <1>0, <1>2, <2>1 DEF ToolsTypeOK
  <2> QED
    BY <1>0, <1>1, <1>3, <1>4, <2>2 DEF ToolsTypeOK, clientVars
<1>6. OneAtWork'
  BY <1>0, <1>1, <1>3, <1>4 DEF OneAtWork, clientVars, Busy
<1>7. FilesInStep'
  <2>1. SUFFICES ASSUME ~crossed, ~torn PROVE FilesInStep'
    BY <1>1 DEF FilesInStep
  <2>2. \A o \in RequestSlots : o # s => request[o].step = "rest" /\ request'[o].step = "rest"
    BY <1>0, <1>3, <1>4, <2>1 DEF OneAtWork, Busy
  <2>3. CASE request[s].step = "openPublic"
    <3>1. emptied = {} /\ Clean(mcpFile, localFile)
      BY <1>0, <2>1, <2>2, <2>3 DEF FilesInStep
    <3> QED
      BY <1>0, <1>2, <1>3, <2>1, <2>2, <2>3, <3>1 DEF FilesInStep, Clean
  <2>4. CASE request[s].step = "openLocal"
    BY <1>0, <1>2, <1>3, <2>1, <2>2, <2>4 DEF FilesInStep, Clean
  <2>5. CASE request[s].step = "writePublic"
    BY <1>0, <1>2, <1>3, <2>1, <2>2, <2>5 DEF FilesInStep, Clean
  <2>6. CASE request[s].step = "writeLocal"
    BY <1>0, <1>2, <1>3, <2>1, <2>2, <2>6 DEF FilesInStep, Clean
  <2> QED
    BY <1>4, <2>3, <2>4, <2>5, <2>6
<1>8. LastOnItsOwn'
  BY <1>1, <1>2, <1>4, AloneStill
<1>9. ToolsAreKept'
  BY <1>0, <1>1, <1>3, <1>4 DEF ToolsAreKept, clientVars, RebuildSteps, NoTools, ToolsOf
<1> QED
  BY <1>5, <1>6, <1>7, <1>8, <1>9 DEF ToolsInv

\* The old client is put away, and closed if there is one.
LEMMA ClosingKeeps ==
  ASSUME ToolsInv, NEW s \in RequestSlots, BeginRebuild(s) \/ Disconnect(s)
  PROVE  ToolsInv'
<1>0. ToolsTypeOK /\ OneAtWork /\ FilesInStep /\ LastOnItsOwn /\ ToolsAreKept /\ request[s] \in ToolRequest
  BY DEF ToolsInv, ToolsTypeOK
<1>1. UNCHANGED <<fileVars, mcpToolsets, crossed, torn, lastAlone>>
      /\ request[s].step \in {"rebuild", "disconnect"} /\ mcp' \in BOOLEAN /\ leaked' \in BOOLEAN
      /\ request[s].tenant \in Tenants
  BY <1>0 DEF BeginRebuild, Disconnect, ToolsTypeOK, ToolRequest
<1>2. PICK r :
        /\ GoesOn(s, r) /\ r.tenant = request[s].tenant /\ r.step \in {"disconnect", "connect"}
        /\ \/ /\ request[s].step = "rebuild" /\ UNCHANGED <<mcp, leaked>>
              /\ (r.step = "disconnect" => r.closing) /\ (r.step = "connect" => ~mcp)
           \/ /\ request[s].step = "disconnect" /\ r.step = "connect" /\ ~mcp'
              /\ (leaked' => leaked \/ ~request[s].closing)
  <2>1. CASE BeginRebuild(s)
    <3>1. PICK step \in {"disconnect", "connect"} : step = IF mcp THEN "disconnect" ELSE "connect"
      BY <1>0 DEF ToolsTypeOK
    <3>2. PICK r : r = [request[s] EXCEPT !.step = step, !.closing = mcp]
      OBVIOUS
    <3>3. r = [step |-> step, kind |-> request[s].kind, tenant |-> request[s].tenant,
               file |-> request[s].file, closing |-> mcp]
      BY <1>0, <3>2 DEF ToolRequest
    <3>4. r \in ToolRequest
      BY <1>0, <3>3 DEF ToolRequest, ToolsTypeOK, RebuildSteps
    <3>5. request' = [request EXCEPT ![s] = r]
      BY <1>0, <2>1, <3>1, <3>2 DEF BeginRebuild, ToolsTypeOK
    <3>6. /\ r.tenant = request[s].tenant /\ r.step = step /\ r.closing = mcp
          /\ GoesOn(s, r)
      BY <3>3, <3>4, <3>5 DEF GoesOn
    <3>7. (r.step = "disconnect" => r.closing) /\ (r.step = "connect" => ~mcp)
      BY <1>0, <3>1, <3>6 DEF ToolsTypeOK
    <3>8. request[s].step = "rebuild" /\ UNCHANGED <<mcp, leaked>>
      BY <2>1 DEF BeginRebuild
    <3>9. /\ GoesOn(s, r) /\ r.tenant = request[s].tenant /\ r.step \in {"disconnect", "connect"}
          /\ request[s].step = "rebuild" /\ UNCHANGED <<mcp, leaked>>
          /\ (r.step = "disconnect" => r.closing) /\ (r.step = "connect" => ~mcp)
      BY <3>6, <3>7, <3>8
    <3> QED
      BY <3>9, Zenon
  <2>2. CASE Disconnect(s)
    <3>1. PICK r : r = [request[s] EXCEPT !.step = "connect", !.closing = FALSE]
      OBVIOUS
    <3>2. r = [step |-> "connect", kind |-> request[s].kind, tenant |-> request[s].tenant,
               file |-> request[s].file, closing |-> FALSE]
      BY <1>0, <3>1 DEF ToolRequest
    <3>3. r \in ToolRequest
      BY <1>0, <3>2 DEF ToolRequest, RebuildSteps
    <3>4. request' = [request EXCEPT ![s] = r]
      BY <1>0, <2>2, <3>1 DEF Disconnect, ToolsTypeOK
    <3>5. leaked' => leaked \/ ~request[s].closing
      BY <1>0, <2>2 DEF Disconnect, ToolsTypeOK
    <3> QED
      <4>1. /\ GoesOn(s, r) /\ r.tenant = request[s].tenant /\ r.step = "connect"
            /\ request[s].step = "disconnect" /\ ~mcp'
        BY <2>2, <3>2, <3>3, <3>4 DEF Disconnect, GoesOn
      <4> QED
        BY <3>5, <4>1
  <2> QED
    BY <2>1, <2>2
<1>3. /\ request' \in [RequestSlots -> ToolRequest] /\ request'[s] = r
      /\ \A o \in RequestSlots : o # s => request'[o] = request[o]
  BY <1>0, <1>2, OthersWait
<1>4. ToolsTypeOK'
  <2>1. mcpCache' = mcpCache \/ mcpCache' = [mcpCache EXCEPT ![request[s].tenant] = NoTools]
    BY DEF BeginRebuild, Disconnect
  <2>2. mcpCache' \in [Tenants -> Toolsets] /\ \A t \in Tenants : mcpCache'[t] = NoTools \/ mcpCache'[t].tenant = t
    BY <1>0, <1>1, <2>1, AtRest DEF ToolsTypeOK
  <2>3. (\A t \in Tenants : mcpCache[t] = NoTools \/ mcpCache[t].tenant = t)'
    BY <2>2 DEF NoTools, ToolsOf
  <2> QED
    BY <1>0, <1>1, <1>2, <1>3, <2>2, <2>3 DEF ToolsTypeOK, fileVars
<1>5. OneAtWork'
  <2>1. SUFFICES ASSUME ~crossed PROVE OneAtWork'
    BY <1>1 DEF OneAtWork
  <2>2. \A o \in RequestSlots : o # s => request[o].step = "rest" /\ request'[o].step = "rest"
    BY <1>0, <1>1, <1>3, <2>1 DEF OneAtWork, Busy
  <2>3. ~leaked /\ (request[s].step = "disconnect" => request[s].closing)
    BY <1>0, <2>1 DEF OneAtWork
  <2>4. ~leaked'
    BY <1>2, <2>3
  <2>5. (r.step = "disconnect" => r.closing) /\ (r.step = "connect" => ~mcp')
    BY <1>2
  <2> QED
    BY <1>3, <2>2, <2>4, <2>5 DEF OneAtWork, Busy
<1>6. FilesInStep'
  BY <1>0, <1>1, <1>2, <1>3 DEF FilesInStep, fileVars, Clean
<1>7. LastOnItsOwn'
  BY <1>1, <1>2, AloneStill
<1>8. ToolsAreKept'
  BY <1>2, <1>3 DEF ToolsAreKept, RebuildSteps
<1> QED
  BY <1>4, <1>5, <1>6, <1>7, <1>8 DEF ToolsInv

\* A client is made, of the servers that are enabled in the files.
LEMMA ConnectingKeeps ==
  ASSUME ToolsInv, NEW s \in RequestSlots, createMcpClient(s)
  PROVE  ToolsInv'
<1>0. ToolsTypeOK /\ OneAtWork /\ FilesInStep /\ LastOnItsOwn /\ ToolsAreKept
      /\ \A o \in RequestSlots : request[o] \in ToolRequest
  BY DEF ToolsInv, ToolsTypeOK
<1>1. /\ UNCHANGED <<fileVars, mcpToolsets, mcpCache, crossed, torn, lastAlone>>
      /\ request[s].step = "connect" /\ mcp' = TRUE
  BY DEF createMcpClient
<1>2. leaked' \in BOOLEAN /\ (leaked' => leaked \/ mcp)
  BY <1>0 DEF createMcpClient, ToolsTypeOK
<1>3. PICK file : file = Merged(NoFile.state, buildMcpServerConfigs)
  OBVIOUS
<1>4. file \in Merging /\ file.headers = buildMcpServerConfigs
  <2>1. buildMcpServerConfigs \in SUBSET ServerNames
    BY DEF buildMcpServerConfigs, listRemoteMcpServers
  <2> QED
    BY <1>3, <2>1, AtRest DEF Merged, Merging
<1>5. request' = [o \in RequestSlots |->
        IF o = s THEN [request[o] EXCEPT !.step = "list", !.file = file]
        ELSE [request[o] EXCEPT !.closing = FALSE]]
  BY <1>3 DEF createMcpClient
<1>6. \A o \in RequestSlots : o # s =>
        /\ request'[o] \in ToolRequest
        /\ request'[o].step = request[o].step /\ request'[o].kind = request[o].kind
        /\ request'[o].tenant = request[o].tenant /\ request'[o].file = request[o].file
  BY <1>0, <1>5 DEF ToolRequest
<1>7. /\ request'[s] \in ToolRequest /\ request'[s].step = "list" /\ request'[s].file = file
      /\ request'[s].tenant = request[s].tenant
  <2>1. request'[s] = [step |-> "list", kind |-> request[s].kind, tenant |-> request[s].tenant,
                       file |-> file, closing |-> request[s].closing]
    BY <1>0, <1>5 DEF ToolRequest
  <2> QED
    BY <1>0, <1>4, <2>1 DEF ToolRequest, RebuildSteps
<1>8. ToolsTypeOK'
  <2>1. request' \in [RequestSlots -> ToolRequest]
    BY <1>5, <1>6, <1>7
  <2> QED
    BY <1>0, <1>1, <1>2, <1>6, <1>7, <2>1 DEF ToolsTypeOK, fileVars, NoTools, ToolsOf
<1>9. OneAtWork'
  <2>1. SUFFICES ASSUME ~crossed PROVE OneAtWork'
    BY <1>1 DEF OneAtWork
  <2>2. \A o \in RequestSlots : o # s => request[o].step = "rest" /\ request'[o].step = "rest"
    BY <1>0, <1>1, <1>6, <2>1 DEF OneAtWork, Busy
  <2>3. ~leaked'
    BY <1>0, <1>1, <1>2, <2>1 DEF OneAtWork
  <2> QED
    BY <1>7, <2>2, <2>3 DEF OneAtWork, Busy
<1>10. FilesInStep'
  BY <1>0, <1>1, <1>6, <1>7 DEF FilesInStep, fileVars, Clean
<1>11. LastOnItsOwn'
  <2>1. SUFFICES ASSUME lastAlone' \in Tenants
                 PROVE  /\ \A a, o \in Busy' : a = o
                        /\ \A a \in Busy' : /\ request'[a].tenant = lastAlone'
                                            /\ request'[a].file.headers = buildMcpServerConfigs'
                        /\ Busy' # {}
    BY DEF LastOnItsOwn
  <2>2. s \in Busy /\ \A o \in Busy : o = s
    BY <1>0, <1>1, <2>1 DEF LastOnItsOwn, Busy
  <2>3. Busy' = {s}
    BY <1>6, <1>7, <2>2 DEF Busy
  <2>4. request[s].tenant = lastAlone
    BY <1>0, <1>1, <2>1, <2>2 DEF LastOnItsOwn
  <2> QED
    BY <1>1, <1>4, <1>7, <2>3, <2>4, FilesRead
<1>12. ToolsAreKept'
  BY <1>7 DEF ToolsAreKept, RebuildSteps
<1> QED
  BY <1>8, <1>9, <1>10, <1>11, <1>12 DEF ToolsInv

\* The tools are listed, or cannot be.
LEMMA ListingKeeps ==
  ASSUME ToolsInv, NEW s \in RequestSlots, ListToolsets(s)
  PROVE  ToolsInv'
<1>0. ToolsTypeOK /\ OneAtWork /\ FilesInStep /\ LastOnItsOwn /\ ToolsAreKept /\ request[s] \in ToolRequest
  BY DEF ToolsInv, ToolsTypeOK
<1>1. PICK t, names, tools :
        /\ t \in Tenants /\ names \in SUBSET ServerNames
        /\ t = request[s].tenant /\ names \in {request[s].file.headers, {}}
        /\ tools = ToolsOf(t, names) /\ mcpToolsets' = tools /\ mcpCache' = [mcpCache EXCEPT ![t] = tools]
  <2>1. request[s].tenant \in Tenants /\ request[s].file.headers \in SUBSET ServerNames
    BY <1>0 DEF ToolRequest, Merging
  <2> QED
    BY <2>1 DEF ListToolsets
<1>2. tools \in Toolsets /\ tools.tenant = t /\ tools # NoTools
  BY <1>1, AtRest, NobodyAssumption
<1>3. /\ UNCHANGED <<fileVars, mcp, leaked, crossed, torn, lastAlone>>
      /\ request[s].step = "list" /\ GoesOn(s, Resting)
  BY AtRest DEF ListToolsets, Ends, GoesOn
<1>4. /\ request' \in [RequestSlots -> ToolRequest] /\ request'[s] = Resting
      /\ \A o \in RequestSlots : o # s => request'[o] = request[o]
  BY <1>0, <1>3, OthersWait
<1>5. /\ mcpCache' \in [Tenants -> Toolsets] /\ mcpCache'[t] = tools
      /\ \A u \in Tenants : u # t => mcpCache'[u] = mcpCache[u]
  BY <1>0, <1>1, <1>2 DEF ToolsTypeOK
<1>6. ToolsTypeOK'
  <2>1. (\A u \in Tenants : mcpCache[u] = NoTools \/ mcpCache[u].tenant = u)'
    BY <1>0, <1>2, <1>5 DEF ToolsTypeOK, NoTools, ToolsOf
  <2> QED
    BY <1>0, <1>1, <1>2, <1>3, <1>4, <1>5, <2>1, AtRest DEF ToolsTypeOK, fileVars
<1>7. OneAtWork'
  BY <1>0, <1>3, <1>4, AtRest DEF OneAtWork, Busy
<1>8. FilesInStep'
  BY <1>0, <1>3, <1>4, AtRest DEF FilesInStep, fileVars, Clean
<1>9. LastOnItsOwn'
  <2>1. SUFFICES ASSUME lastAlone' \in Tenants
                 PROVE  /\ Busy' = {}
                        /\ mcpCache'[lastAlone'] \in {ToolsOf(lastAlone', buildMcpServerConfigs'),
                                                      ToolsOf(lastAlone', {})}
    BY DEF LastOnItsOwn, ToolsOf
  <2>2. s \in Busy /\ \A o \in Busy : o = s
    BY <1>0, <1>3, <2>1 DEF LastOnItsOwn, Busy
  <2>3. Busy' = {}
    BY <1>4, <2>2, AtRest DEF Busy
  <2>4. t = lastAlone /\ request[s].file.headers = buildMcpServerConfigs
    BY <1>0, <1>1, <1>3, <2>1, <2>2 DEF LastOnItsOwn
  <2>5. buildMcpServerConfigs' = buildMcpServerConfigs
    BY <1>3, FilesRead
  <2> QED
    BY <1>1, <1>3, <1>5, <2>3, <2>4, <2>5
<1>10. ToolsAreKept'
  BY <1>1, <1>2, <1>5 DEF ToolsAreKept
<1> QED
  BY <1>6, <1>7, <1>8, <1>9, <1>10 DEF ToolsInv

\* The server stops and starts again.
LEMMA RestartKeeps ==
  ASSUME ToolsInv, RestartTools
  PROVE  ToolsInv'
<1>0. ToolsTypeOK /\ OneAtWork /\ FilesInStep
  BY DEF ToolsInv
<1>1. PICK first \in RequestSlots :
        request' = [s \in RequestSlots |-> IF s = first THEN Rebuilds(DevTenant) ELSE Resting]
  BY DEF RestartTools
<1>2. /\ mcp' = FALSE /\ mcpToolsets' = NoTools /\ leaked' = FALSE /\ lastAlone' = DevTenant
      /\ mcpCache' = [t \in Tenants |-> NoTools] /\ UNCHANGED <<fileVars, crossed>>
  BY DEF RestartTools
<1>3. torn' \in BOOLEAN /\ (~torn' => ~torn /\ \A s \in RequestSlots :
                              request[s].step \notin {"writePublic", "openLocal", "writeLocal"})
  <2>1. PICK x \in BOOLEAN : /\ torn' = (torn \/ x)
                             /\ x <=> \E s \in RequestSlots :
                                        request[s].step \in {"writePublic", "openLocal", "writeLocal"}
    BY DEF RestartTools
  <2> QED
    BY <1>0, <2>1 DEF ToolsTypeOK
<1>4. /\ request'[first] = Rebuilds(DevTenant) /\ request' \in [RequestSlots -> ToolRequest]
      /\ \A s \in RequestSlots : s # first => request'[s] = Resting
  BY <1>1, AtRest, DevTenantAssumption
<1>5. /\ request'[first].step = "rebuild" /\ request'[first].tenant = DevTenant
      /\ \A s \in RequestSlots : s # first => request'[s].step = "rest"
  BY <1>4, AtRest, DevTenantAssumption
<1>6. ToolsTypeOK'
  <2>1. (\A t \in Tenants : mcpCache[t] = NoTools \/ mcpCache[t].tenant = t)'
    BY <1>2 DEF NoTools, ToolsOf
  <2> QED
    BY <1>0, <1>2, <1>3, <1>4, <1>5, <2>1, AtRest DEF ToolsTypeOK, fileVars
<1>7. OneAtWork'
  BY <1>2, <1>5 DEF OneAtWork, Busy
<1>8. FilesInStep'
  BY <1>0, <1>2, <1>3, <1>5 DEF FilesInStep, fileVars, Clean
<1>9. LastOnItsOwn'
  BY <1>2, <1>5 DEF LastOnItsOwn, Busy
<1>10. ToolsAreKept'
  BY <1>2 DEF ToolsAreKept, NoTools, ToolsOf
<1> QED
  BY <1>6, <1>7, <1>8, <1>9, <1>10 DEF ToolsInv

\* What is kept and in use is what the files enable, once a request has run on its
\* own; no client is forgotten and no entry hidden as long as requests do not overlap
\* and saves are not cut off: for every set of servers, tenants and requests at a time
\* (mcp-store.ts, rebuildMcp in server.ts).
THEOREM ToolsFollow == ToolsSpec => []ToolsFollowFiles
<1>1. ToolsInit => ToolsInv
  <2>1. SUFFICES ASSUME ToolsInit PROVE ToolsInv
    OBVIOUS
  <2>2. /\ mcpFile = NoFile.state /\ localFile = {} /\ emptied = {} /\ mcp = FALSE /\ mcpToolsets = NoTools
        /\ crossed = FALSE /\ torn = FALSE /\ leaked = FALSE /\ lastAlone = "nobody"
    BY <2>1 DEF ToolsInit
  <2>3. \A s \in RequestSlots : request[s] = Resting /\ request[s].step = "rest"
    BY <2>1, AtRest DEF ToolsInit
  <2>4. request \in [RequestSlots -> ToolRequest] /\ mcpCache \in [Tenants -> Toolsets]
        /\ \A t \in Tenants : mcpCache[t] = NoTools
    BY <2>1, AtRest DEF ToolsInit
  <2>5. NoFile.state \in Entries /\ \A n \in ServerNames : NoFile.state[n] = "none"
    BY DEF NoFile, Merged, Entries
  <2>6. ToolsTypeOK
    BY <2>2, <2>3, <2>4, <2>5, AtRest DEF ToolsTypeOK
  <2>7. OneAtWork /\ FilesInStep
    BY <2>2, <2>3, <2>5 DEF OneAtWork, FilesInStep, Busy, Clean
  <2>8. LastOnItsOwn /\ ToolsAreKept
    BY <2>2, NobodyAssumption DEF LastOnItsOwn, ToolsAreKept
  <2> QED
    BY <2>6, <2>7, <2>8 DEF ToolsInv
<1>2. ToolsInv /\ [ToolsNext]_toolVars => ToolsInv'
  <2>1. SUFFICES ASSUME ToolsInv, [ToolsNext]_toolVars PROVE ToolsInv'
    OBVIOUS
  <2>2. ASSUME NEW s \in RequestSlots, NEW t \in Tenants,
               Change(s, t) \/ Reconnect(s, t) \/ ensureMcpForTenant(s, t)
        PROVE  ToolsInv'
    <3>1. ASSUME NEW kind \in {"create", "update", "delete"},
                 Arrive(s, t, [Resting EXCEPT !.step = "read", !.kind = kind, !.tenant = t])
          PROVE  ToolsInv'
      <4>1. PICK r : r = [Resting EXCEPT !.step = "read", !.kind = kind, !.tenant = t]
        OBVIOUS
      <4>2. r = [step |-> "read", kind |-> kind, tenant |-> t, file |-> NoFile, closing |-> FALSE]
        BY <4>1 DEF Resting
      <4>3. r \in ToolRequest
        BY <4>2, AtRest DEF ToolRequest, ChangeSteps
      <4>4. r.step = "read" /\ r.kind # "none" /\ r.tenant = t /\ Arrive(s, t, r)
        BY <3>1, <4>1, <4>2
      <4> QED
        BY <2>1, <4>3, <4>4, ArrivalKeeps
    <3>2. CASE Arrive(s, t, Rebuilds(t))
      <4>1. PICK r : r = Rebuilds(t)
        OBVIOUS
      <4>2. r \in ToolRequest /\ r.step = "rebuild" /\ r.tenant = t /\ Arrive(s, t, r)
        BY <3>2, <4>1, AtRest
      <4>3. r.step = "rebuild" \/ (r.step = "read" /\ r.kind # "none")
        BY <4>2
      <4> QED
        BY <2>1, <4>2, <4>3, ArrivalKeeps, Zenon
    <3>3. CASE /\ mcpCache[t] # NoTools /\ mcpToolsets' = mcpCache[t]
               /\ UNCHANGED <<fileVars, request, mcp, mcpCache, leaked, crossed, torn, lastAlone>>
      BY <2>1, <3>3, CachedKeeps
    <3> QED
      BY <2>2, <3>1, <3>2, <3>3 DEF Change, Reconnect, ensureMcpForTenant
  <2>3. ASSUME NEW s \in RequestSlots, ReadFile(s) PROVE ToolsInv'
    BY <2>1, <2>3, ReadingKeeps
  <2>4. ASSUME NEW s \in RequestSlots, OpenFile(s) \/ writeMcpPublic(s) \/ writeMcpLocal(s) PROVE ToolsInv'
    BY <2>1, <2>4, WritingKeeps
  <2>5. ASSUME NEW s \in RequestSlots, BeginRebuild(s) \/ Disconnect(s) PROVE ToolsInv'
    BY <2>1, <2>5, ClosingKeeps
  <2>6. ASSUME NEW s \in RequestSlots, createMcpClient(s) PROVE ToolsInv'
    BY <2>1, <2>6, ConnectingKeeps
  <2>7. ASSUME NEW s \in RequestSlots, ListToolsets(s) PROVE ToolsInv'
    BY <2>1, <2>7, ListingKeeps
  <2>8. CASE RestartTools
    BY <2>1, <2>8, RestartKeeps
  <2>9. CASE UNCHANGED toolVars
    BY <2>1, <2>9, FilesRead DEF toolVars, fileVars, clientVars, ToolsInv, ToolsTypeOK, OneAtWork, FilesInStep,
      LastOnItsOwn, ToolsAreKept, Busy, Clean, NoTools, ToolsOf
  <2> QED
    BY <2>1, <2>2, <2>3, <2>4, <2>5, <2>6, <2>7, <2>8, <2>9 DEF ToolsNext
<1>3. ToolsInv => ToolsFollowFiles
  <2>1. SUFFICES ASSUME ToolsInv PROVE ToolsFollowFiles
    OBVIOUS
  <2>2. ToolsTypeOK /\ OneAtWork /\ FilesInStep /\ LastOnItsOwn /\ ToolsAreKept
    BY <2>1 DEF ToolsInv
  <2>3. ASSUME ~crossed, ~torn, emptied = {}, \A s \in Busy : request[s].step # "openLocal", NEW n \in ServerNames
        PROVE  loadMergedMcpFile.state[n] # "bare"
    <3>1. \A s \in RequestSlots : request[s].step \notin {"writePublic", "openLocal", "writeLocal"}
      BY <2>2, <2>3 DEF FilesInStep, Busy
    <3>2. Clean(mcpFile, localFile)
      BY <2>2, <2>3, <3>1 DEF FilesInStep
    <3> QED
      BY <2>3, <3>2 DEF loadMergedMcpFile, Merged, Clean
  <2>4. ASSUME Busy = {}, mcpToolsets # NoTools PROVE mcpToolsets = mcpCache[mcpToolsets.tenant]
    BY <2>2, <2>4 DEF ToolsAreKept, Busy, RebuildSteps
  <2> QED
    BY <2>2, <2>3, <2>4 DEF ToolsFollowFiles, OneAtWork, LastOnItsOwn
<1> QED
  BY <1>1, <1>2, <1>3, PTL DEF ToolsSpec

-----------------------------------------------------------------------------
(* The row of a thread. *)

Places == {"free", "arrived", "judging", "read", "judged", "rescheduling"}

BrowserSteps == {"idle", "no goal", "continue", "continuing", "acking", "wake", "waking"}

RowTypeOK ==
  /\ topic \in Topics
  /\ threadRow \in ThreadRows \cup {Nothing}
  /\ used \in SUBSET (Goals \cup Loops)
  /\ timer \in Loops \cup {Nothing}
  /\ whereAt \in [Handlers -> Places]
  /\ op \in [Handlers -> Ops \cup {"none"}]
  /\ arg \in [Handlers -> Goals \cup Loops \cup Skills \cup {Nothing}]
  /\ held \in [Handlers -> ThreadRows \cup {Nothing}]
  /\ stale \in [Handlers -> BOOLEAN]
  /\ agentRun \in BOOLEAN /\ owed \in BOOLEAN
  /\ browser \in BrowserSteps

\* What a handler is about, and what it keeps of the row, fit its operation.
HandlersFit ==
  \A h \in Handlers :
    /\ whereAt[h] = "free" => op[h] = "none"
    /\ op[h] = "set goal" => arg[h] \in Goals
    /\ op[h] \in {"set loop", "start loop"} => arg[h] \in Loops
    /\ op[h] = "activate" => arg[h] \in Skills
    /\ whereAt[h] = "read" /\ op[h] \in Ensures => held[h] # Nothing
    /\ whereAt[h] = "rescheduling" => held[h] # Nothing /\ held[h].loop # Nothing
    /\ whereAt[h] \in {"judging", "judged"} => op[h] = "finish"

\* The row agrees with what was read, but for a wake time that has come since.
SameButWake(a, b) ==
  /\ a.goal = b.goal /\ a.title = b.title /\ a.skills = b.skills
  /\ a.loop = Nothing <=> b.loop = Nothing
  /\ a.loop # Nothing =>
       /\ a.loop.job = b.loop.job
       /\ a.loop.status = b.loop.status

\* What a handler that was not overtaken knows of the row.
AsRead(h) ==
  ~stale[h] =>
    /\ whereAt[h] \in {"read", "judged"} =>
         \/ held[h] = Nothing /\ threadRow \in {Nothing, Fresh}
         \/ held[h] # Nothing /\ threadRow # Nothing /\ SameButWake(held[h], threadRow)
    /\ whereAt[h] = "rescheduling" /\ LoopOn(threadRow) =>
         threadRow.loop.job = held[h].loop.job

RowInv == RowTypeOK /\ HandlersFit /\ \A h \in Handlers : AsRead(h)

\* A row in which one field is written (updateThreadState).
LEMMA RowWritten ==
  ASSUME NEW r \in ThreadRows, NEW v
  PROVE  /\ [r EXCEPT !["goal"] = v] =
              [goal |-> v, loop |-> r.loop, title |-> r.title, skills |-> r.skills, todos |-> r.todos]
         /\ [r EXCEPT !["loop"] = v] =
              [goal |-> r.goal, loop |-> v, title |-> r.title, skills |-> r.skills, todos |-> r.todos]
         /\ [r EXCEPT !["title"] = v] =
              [goal |-> r.goal, loop |-> r.loop, title |-> v, skills |-> r.skills, todos |-> r.todos]
         /\ [r EXCEPT !["skills"] = v] =
              [goal |-> r.goal, loop |-> r.loop, title |-> r.title, skills |-> v, todos |-> r.todos]
         /\ [r EXCEPT !["todos"] = v] =
              [goal |-> r.goal, loop |-> r.loop, title |-> r.title, skills |-> r.skills, todos |-> v]
<1>1. r = [goal |-> r.goal, loop |-> r.loop, title |-> r.title, skills |-> r.skills, todos |-> r.todos]
  BY DEF ThreadRows
<1>2. PICK g, l, t, s, d : r = [goal |-> g, loop |-> l, title |-> t, skills |-> s, todos |-> d]
  BY <1>1
<1>3. r.goal = g /\ r.loop = l /\ r.title = t /\ r.skills = s /\ r.todos = d
  BY <1>2
<1>4. [r EXCEPT !["goal"] = v] = [goal |-> v, loop |-> l, title |-> t, skills |-> s, todos |-> d]
  BY <1>2
<1>5. [r EXCEPT !["loop"] = v] = [goal |-> g, loop |-> v, title |-> t, skills |-> s, todos |-> d]
  BY <1>2
<1>6. [r EXCEPT !["title"] = v] = [goal |-> g, loop |-> l, title |-> v, skills |-> s, todos |-> d]
  BY <1>2
<1>7. [r EXCEPT !["skills"] = v] = [goal |-> g, loop |-> l, title |-> t, skills |-> v, todos |-> d]
  BY <1>2
<1>8. [r EXCEPT !["todos"] = v] = [goal |-> g, loop |-> l, title |-> t, skills |-> s, todos |-> v]
  BY <1>2
<1> QED
  BY <1>3, <1>4, <1>5, <1>6, <1>7, <1>8

\* A thread begins with a row.
LEMMA FreshIsRow == Fresh \in ThreadRows /\ Fresh # Nothing
  BY NothingAssumption DEF Fresh, ThreadRows

\* The loops and goals that are stored.
LEMMA LoopStored ==
  ASSUME NEW l \in StoredLoops, NEW w \in {"none", "later", "due"}
  PROVE  /\ [l EXCEPT !.wake = w] \in StoredLoops /\ [l EXCEPT !.wake = w].job = l.job
         /\ [l EXCEPT !.wake = w].status = l.status /\ [l EXCEPT !.wake = w].wake = w
         /\ StoppedLoop(l) \in StoredLoops /\ StoppedLoop(l).job = l.job /\ StoppedLoop(l).status = "stopped"
  BY DEF StoredLoops, StoppedLoop

\* Every goal a handler writes is one the row can hold.
LEMMA GoalStored ==
  ASSUME NEW g \in StoredGoals
  PROVE  /\ [g EXCEPT !.flagged = FALSE] \in StoredGoals
         /\ [g EXCEPT !.flagged = FALSE].status = g.status
         /\ [g EXCEPT !.status = "cleared", !.flagged = FALSE] \in StoredGoals
         /\ [g EXCEPT !.status = "cleared", !.flagged = FALSE].status = "cleared"
  BY DEF StoredGoals

\* So is every loop, begun or changed.
LEMMA NewStored ==
  /\ \A g \in Goals : NewGoal(g) \in StoredGoals
  /\ \A l \in Loops : \A m \in {"fixed", "dynamic"} : \A w \in {"none", "later"} :
       NewLoop(l, m, w) \in StoredLoops /\ NewLoop(l, m, w).job = l
  BY DEF NewGoal, NewLoop, StoredGoals, StoredLoops

\* What writing a field does: nothing to a row that is not there, and every handler
\* at work but the writer was overtaken.
Put(h) ==
  /\ threadRow' \in ThreadRows \cup {Nothing}
  /\ threadRow = Nothing <=> threadRow' = Nothing
  /\ stale' = [x \in Handlers |-> IF x = h THEN FALSE ELSE stale[x] \/ whereAt[x] # "free"]

LoopAwake == LoopOn(threadRow) => threadRow.loop.wake # "none"

KeepsGoal == threadRow # Nothing => threadRow'.goal = threadRow.goal

KeepsLoop == threadRow # Nothing => threadRow'.loop = threadRow.loop

KeepsTitle == threadRow # Nothing => threadRow'.title = threadRow.title

KeepsSkills == threadRow # Nothing => threadRow'.skills = threadRow.skills

\* Writing the goal leaves a row, with everything else of it as it was.
LEMMA GoalWritten ==
  ASSUME RowTypeOK, NEW h \in Handlers, NEW v \in StoredGoals \cup {Nothing}, SetField(h, "goal", v)
  PROVE  Put(h) /\ (threadRow # Nothing => threadRow'.goal = v) /\ KeepsLoop /\ KeepsTitle /\ KeepsSkills
<1>1. CASE threadRow = Nothing
  BY <1>1 DEF SetField, PutRow, Put, KeepsGoal, KeepsLoop, KeepsTitle, KeepsSkills
<1>2. CASE threadRow # Nothing
  <2>1. PICK r \in ThreadRows : r = threadRow
    BY <1>2 DEF RowTypeOK
  <2>2. threadRow' = [r EXCEPT !["goal"] = v]
    BY <1>2, <2>1 DEF SetField, PutRow
  <2>3. threadRow' = [goal |-> v, loop |-> r.loop, title |-> r.title, skills |-> r.skills, todos |-> r.todos]
    BY <2>2, RowWritten
  <2>4. threadRow' \in ThreadRows /\ threadRow' # Nothing
    BY <2>1, <2>3, NothingAssumption DEF ThreadRows
  <2> QED
    BY <1>2, <2>1, <2>3, <2>4 DEF SetField, PutRow, Put, KeepsGoal, KeepsLoop, KeepsTitle, KeepsSkills
<1> QED
  BY <1>1, <1>2

\* Writing the loop does.
LEMMA LoopWritten ==
  ASSUME RowTypeOK, NEW h \in Handlers, NEW v \in StoredLoops \cup {Nothing}, SetField(h, "loop", v)
  PROVE  Put(h) /\ (threadRow # Nothing => threadRow'.loop = v) /\ KeepsGoal /\ KeepsTitle /\ KeepsSkills
<1>1. CASE threadRow = Nothing
  BY <1>1 DEF SetField, PutRow, Put, KeepsGoal, KeepsLoop, KeepsTitle, KeepsSkills
<1>2. CASE threadRow # Nothing
  <2>1. PICK r \in ThreadRows : r = threadRow
    BY <1>2 DEF RowTypeOK
  <2>2. threadRow' = [r EXCEPT !["loop"] = v]
    BY <1>2, <2>1 DEF SetField, PutRow
  <2>3. threadRow' = [goal |-> r.goal, loop |-> v, title |-> r.title, skills |-> r.skills, todos |-> r.todos]
    BY <2>2, RowWritten
  <2>4. threadRow' \in ThreadRows /\ threadRow' # Nothing
    BY <2>1, <2>3, NothingAssumption DEF ThreadRows
  <2> QED
    BY <1>2, <2>1, <2>3, <2>4 DEF SetField, PutRow, Put, KeepsGoal, KeepsLoop, KeepsTitle, KeepsSkills
<1> QED
  BY <1>1, <1>2

\* Writing the title does.
LEMMA TitleWritten ==
  ASSUME RowTypeOK, NEW h \in Handlers, NEW v \in {"generated", "given"}, SetField(h, "title", v)
  PROVE  Put(h) /\ (threadRow # Nothing => threadRow'.title = v) /\ KeepsGoal /\ KeepsLoop /\ KeepsSkills
<1>1. CASE threadRow = Nothing
  BY <1>1 DEF SetField, PutRow, Put, KeepsGoal, KeepsLoop, KeepsTitle, KeepsSkills
<1>2. CASE threadRow # Nothing
  <2>1. PICK r \in ThreadRows : r = threadRow
    BY <1>2 DEF RowTypeOK
  <2>2. threadRow' = [r EXCEPT !["title"] = v]
    BY <1>2, <2>1 DEF SetField, PutRow
  <2>3. threadRow' = [goal |-> r.goal, loop |-> r.loop, title |-> v, skills |-> r.skills, todos |-> r.todos]
    BY <2>2, RowWritten
  <2>4. threadRow' \in ThreadRows /\ threadRow' # Nothing
    BY <2>1, <2>3, NothingAssumption DEF ThreadRows
  <2> QED
    BY <1>2, <2>1, <2>3, <2>4 DEF SetField, PutRow, Put, KeepsGoal, KeepsLoop, KeepsTitle, KeepsSkills
<1> QED
  BY <1>1, <1>2

\* Writing the skills does.
LEMMA SkillsWritten ==
  ASSUME RowTypeOK, NEW h \in Handlers, NEW v \in SUBSET Skills, SetField(h, "skills", v)
  PROVE  Put(h) /\ (threadRow # Nothing => threadRow'.skills = v) /\ KeepsGoal /\ KeepsLoop /\ KeepsTitle
<1>1. CASE threadRow = Nothing
  BY <1>1 DEF SetField, PutRow, Put, KeepsGoal, KeepsLoop, KeepsTitle, KeepsSkills
<1>2. CASE threadRow # Nothing
  <2>1. PICK r \in ThreadRows : r = threadRow
    BY <1>2 DEF RowTypeOK
  <2>2. threadRow' = [r EXCEPT !["skills"] = v]
    BY <1>2, <2>1 DEF SetField, PutRow
  <2>3. threadRow' = [goal |-> r.goal, loop |-> r.loop, title |-> r.title, skills |-> v, todos |-> r.todos]
    BY <2>2, RowWritten
  <2>4. threadRow' \in ThreadRows /\ threadRow' # Nothing
    BY <2>1, <2>3, NothingAssumption DEF ThreadRows
  <2> QED
    BY <1>2, <2>1, <2>3, <2>4 DEF SetField, PutRow, Put, KeepsGoal, KeepsLoop, KeepsTitle, KeepsSkills
<1> QED
  BY <1>1, <1>2

\* Writing the checklist does.
LEMMA TodosWritten ==
  ASSUME RowTypeOK, NEW h \in Handlers, NEW v \in {"none", "list"}, SetField(h, "todos", v)
  PROVE  Put(h) /\ KeepsGoal /\ KeepsLoop /\ KeepsTitle /\ KeepsSkills
<1>1. CASE threadRow = Nothing
  BY <1>1 DEF SetField, PutRow, Put, KeepsGoal, KeepsLoop, KeepsTitle, KeepsSkills
<1>2. CASE threadRow # Nothing
  <2>1. PICK r \in ThreadRows : r = threadRow
    BY <1>2 DEF RowTypeOK
  <2>2. threadRow' = [r EXCEPT !["todos"] = v]
    BY <1>2, <2>1 DEF SetField, PutRow
  <2>3. threadRow' = [goal |-> r.goal, loop |-> r.loop, title |-> r.title, skills |-> r.skills, todos |-> v]
    BY <2>2, RowWritten
  <2>4. threadRow' \in ThreadRows /\ threadRow' # Nothing
    BY <2>1, <2>3, NothingAssumption DEF ThreadRows
  <2> QED
    BY <1>2, <2>1, <2>3, <2>4 DEF SetField, PutRow, Put, KeepsGoal, KeepsLoop, KeepsTitle, KeepsSkills
<1> QED
  BY <1>1, <1>2

\* What a handler knows of a row it was not overtaken on.
LEMMA Known ==
  ASSUME RowInv, NEW h \in Handlers, ~stale[h], whereAt[h] \in {"read", "judged"},
         threadRow # Nothing
  PROVE  /\ GoalOn(held[h]) <=> GoalOn(threadRow)
         /\ LoopOn(held[h]) <=> LoopOn(threadRow)
         /\ held[h] # Nothing => /\ held[h].title = threadRow.title
                                 /\ held[h].skills = threadRow.skills
                                 /\ LoopOn(threadRow) => held[h].loop # Nothing
                                                         /\ held[h].loop.job = threadRow.loop.job
<1>1. AsRead(h)
  BY DEF RowInv
<1>2. CASE held[h] = Nothing /\ threadRow = Fresh
  BY <1>2 DEF GoalOn, LoopOn, Active, Fresh
<1>3. CASE held[h] # Nothing /\ SameButWake(held[h], threadRow)
  BY <1>3 DEF SameButWake, GoalOn, LoopOn, Active
<1> QED
  BY <1>1, <1>2, <1>3 DEF AsRead

\* A handler ends, having written the row or not: it leaves nothing behind, and the
\* others know that they were overtaken.
LEMMA LeavingKeeps ==
  ASSUME RowInv, NEW h \in Handlers, Leave(h), UNCHANGED <<topic, used>>,
         timer' \in Loops \cup {Nothing}, agentRun' \in BOOLEAN, owed' \in BOOLEAN, browser' \in BrowserSteps,
         threadRow' \in ThreadRows \cup {Nothing},
         \/ stale' = [x \in Handlers |-> IF x = h THEN FALSE ELSE stale[x] \/ whereAt[x] # "free"]
         \/ stale' = [stale EXCEPT ![h] = FALSE] /\ UNCHANGED threadRow
  PROVE  RowInv'
<1> USE DEF RowInv
<1>1. RowTypeOK'
  BY DEF RowTypeOK, Leave, Places
<1>2. whereAt'[h] = "free" /\ op'[h] = "none"
  BY DEF RowTypeOK, Leave
<1>3. \A x \in Handlers \ {h} : /\ whereAt'[x] = whereAt[x] /\ op'[x] = op[x]
                               /\ arg'[x] = arg[x] /\ held'[x] = held[x]
  BY DEF RowTypeOK, Leave
<1>4. HandlersFit'
  BY <1>2, <1>3 DEF HandlersFit
<1>5. \A x \in Handlers : AsRead(x)'
  <2>1. SUFFICES ASSUME NEW x \in Handlers, ~stale'[x], whereAt'[x] # "free" PROVE AsRead(x)'
    BY DEF AsRead
  <2>2. x # h /\ whereAt'[x] = whereAt[x] /\ held'[x] = held[x]
    BY <2>1, <1>2, <1>3
  <2>3. ~stale[x] /\ threadRow' = threadRow
    BY <2>1, <2>2 DEF RowTypeOK
  <2> QED
    BY <2>2, <2>3 DEF AsRead
<1> QED
  BY <1>1, <1>4, <1>5

\* A loop is stored, and its timer is to be set.
LEMMA ResettleKeeps ==
  ASSUME RowInv, NEW h \in Handlers, NEW o \in Ops, NEW l \in StoredLoops, Resettle(h, o, l)
  PROVE  RowInv' /\ Put(h) /\ KeepsGoal /\ KeepsTitle /\ KeepsSkills
         /\ (threadRow # Nothing => threadRow'.loop = l)
<1> USE DEF RowInv
<1>1. Put(h) /\ KeepsGoal /\ KeepsTitle /\ KeepsSkills /\ (threadRow # Nothing => threadRow'.loop = l)
  BY LoopWritten DEF Resettle
<1>2. [Fresh EXCEPT !.loop = l] = [goal |-> Nothing, loop |-> l, title |-> "none", skills |-> {}, todos |-> "none"]
  BY DEF Fresh
<1>3. [Fresh EXCEPT !.loop = l] \in ThreadRows /\ [Fresh EXCEPT !.loop = l] # Nothing
      /\ [Fresh EXCEPT !.loop = l].loop = l
  BY <1>2, NothingAssumption DEF ThreadRows
<1>4. RowTypeOK'
  BY <1>1, <1>3 DEF RowTypeOK, Resettle, Places, client, Put
<1>5. whereAt'[h] = "rescheduling" /\ held'[h] = [Fresh EXCEPT !.loop = l]
  BY DEF RowTypeOK, Resettle
<1>6. \A x \in Handlers \ {h} : whereAt'[x] = whereAt[x] /\ held'[x] = held[x]
  BY DEF RowTypeOK, Resettle
<1>7. l # Nothing /\ UNCHANGED <<op, arg>>
  BY NothingAssumption DEF Resettle
<1>8. HandlersFit'
  BY <1>3, <1>5, <1>6, <1>7 DEF HandlersFit, Resettle
<1>9. \A x \in Handlers : AsRead(x)'
  <2>1. ASSUME NEW x \in Handlers, ~stale'[x], x # h PROVE whereAt'[x] = "free"
    BY <2>1, <1>1, <1>6 DEF RowTypeOK, Put
  <2>2. AsRead(h)'
    BY <1>1, <1>3, <1>5 DEF AsRead, LoopOn, Put
  <2> QED
    BY <2>1, <2>2 DEF AsRead
<1> QED
  BY <1>1, <1>4, <1>8, <1>9

-----------------------------------------------------------------------------
(* What each handler does. *)

\* The handlers of the goal keep the invariant.
LEMMA GoalWriters ==
  ASSUME RowInv, NEW h \in Handlers,
         SetGoal(h) \/ ClearGoal(h) \/ AckContinue(h) \/ \E done \in BOOLEAN : WriteVerdict(h, done)
  PROVE  RowInv' /\ (HarmBy(h) => stale[h]) /\ KeepsLoop
<1>0. RowTypeOK /\ HandlersFit
  BY DEF RowInv
<1>1. CASE SetGoal(h)
  <2>1. NewGoal(arg[h]) \in StoredGoals
    BY <1>0, <1>1, NewStored DEF SetGoal, HandlersFit
  <2>2. Put(h) /\ KeepsLoop /\ KeepsTitle /\ KeepsSkills
    BY <1>0, <1>1, <2>1, GoalWritten DEF SetGoal
  <2>3. RowInv'
    BY <1>0, <1>1, <2>2, LeavingKeeps DEF SetGoal, Put, RowTypeOK
  <2>4. ASSUME HarmBy(h), ~stale[h] PROVE FALSE
    <3>1. ~LoopOn(threadRow)
      BY <1>1, <2>4, Known DEF SetGoal, Willing, HarmBy
    <3> QED
      BY <1>1, <2>2, <2>4, <3>1 DEF SetGoal, HarmBy, KeepsLoop, KeepsTitle, KeepsSkills, LoopOn
  <2> QED
    BY <2>2, <2>3, <2>4
<1>2. CASE ClearGoal(h)
  <2> DEFINE g == held[h].goal
  <2> DEFINE v == IF Active(g) THEN [g EXCEPT !.status = "cleared", !.flagged = FALSE] ELSE Nothing
  <2>0. whereAt[h] = "read" /\ op[h] = "clear goal" /\ SetField(h, "goal", v) /\ Leave(h)
    BY <1>2 DEF ClearGoal, Store
  <2>1. g \in StoredGoals \cup {Nothing}
    BY <1>0, <2>0 DEF HandlersFit, Ensures, RowTypeOK, ThreadRows
  <2>2. v \in StoredGoals \cup {Nothing} /\ ~Active(v)
    BY <2>1, GoalStored DEF Active
  <2>3. Put(h) /\ KeepsLoop /\ KeepsTitle /\ KeepsSkills /\ (threadRow # Nothing => threadRow'.goal = v)
    BY <1>0, <2>0, <2>2, GoalWritten
  <2>4. RowInv'
    BY <1>0, <1>2, <2>0, <2>3, LeavingKeeps DEF ClearGoal, Store, Put, RowTypeOK, client
  <2>5. ~HarmBy(h)
    BY <2>2, <2>3 DEF HarmBy, KeepsLoop, KeepsTitle, KeepsSkills, LoopOn, GoalOn
  <2> QED
    BY <2>3, <2>4, <2>5
<1>3. CASE AckContinue(h)
  <2> DEFINE v == [held[h].goal EXCEPT !.flagged = FALSE]
  <2>0. whereAt[h] = "read" /\ op[h] = "ack goal" /\ SetField(h, "goal", v) /\ Leave(h) /\ GoalOn(held[h])
    BY <1>3 DEF AckContinue, Store, Willing
  <2>1. held[h].goal \in StoredGoals /\ held[h].goal.status = "active"
    BY <1>0, <2>0 DEF GoalOn, Active, RowTypeOK, ThreadRows
  <2>2. v \in StoredGoals
    BY <2>1, GoalStored
  <2>3. Put(h) /\ KeepsLoop /\ KeepsTitle /\ KeepsSkills
    BY <1>0, <2>0, <2>2, GoalWritten
  <2>4. RowInv'
    BY <1>0, <1>3, <2>0, <2>3, LeavingKeeps DEF AckContinue, Store, Put, RowTypeOK, client
  <2>5. ASSUME HarmBy(h), ~stale[h] PROVE FALSE
    <3>1. GoalOn(threadRow)
      BY <2>0, <2>5, Known DEF HarmBy
    <3> QED
      BY <2>3, <2>5, <3>1 DEF HarmBy, KeepsLoop, KeepsTitle, KeepsSkills, LoopOn
  <2> QED
    BY <2>3, <2>4, <2>5
<1>4. ASSUME NEW done \in BOOLEAN, WriteVerdict(h, done) PROVE RowInv' /\ (HarmBy(h) => stale[h]) /\ KeepsLoop
  <2>1. PICK g : g = held[h].goal
    OBVIOUS
  <2>2. g \in StoredGoals /\ GoalOn(held[h])
    BY <1>0, <1>4, <2>1 DEF WriteVerdict, GoalOn, Active, RowTypeOK, ThreadRows
  <2>3. PICK v : v = [g EXCEPT !.turns = @ + 1,
                 !.status = IF done THEN "achieved" ELSE IF g.turns + 1 >= MaxTurns THEN "max_turns" ELSE @,
                 !.flagged = ~done /\ g.turns + 1 < MaxTurns]
    OBVIOUS
  <2>4. v \in StoredGoals
    <3>1. g = [id |-> g.id, status |-> g.status, turns |-> g.turns, flagged |-> g.flagged]
          /\ g.id \in Goals /\ g.turns \in Nat /\ g.status \in {"active", "cleared", "achieved", "max_turns"}
      BY <2>2 DEF StoredGoals
    <3>2. PICK b \in BOOLEAN : b = (~done /\ g.turns + 1 < MaxTurns)
      OBVIOUS
    <3>3. v = [id |-> g.id, turns |-> g.turns + 1, flagged |-> b,
               status |-> IF done THEN "achieved" ELSE IF g.turns + 1 >= MaxTurns THEN "max_turns" ELSE g.status]
      BY <2>3, <3>1, <3>2
    <3> QED
      BY <3>1, <3>3 DEF StoredGoals
  <2>5. SetField(h, "goal", v) /\ whereAt[h] = "judged" /\ Leave(h) /\ UNCHANGED <<topic, used, timer, client>>
    BY <1>4, <2>1, <2>3 DEF WriteVerdict
  <2>6. Put(h) /\ KeepsLoop /\ KeepsTitle /\ KeepsSkills
    BY <1>0, <2>5, <2>4, GoalWritten
  <2>7. RowInv'
    BY <1>0, <2>5, <2>6, LeavingKeeps DEF Put, RowTypeOK, client
  <2>8. ASSUME HarmBy(h), ~stale[h] PROVE FALSE
    <3>1. GoalOn(threadRow)
      BY <2>2, <2>5, <2>8, Known DEF HarmBy
    <3> QED
      BY <2>6, <2>8, <3>1 DEF HarmBy, KeepsLoop, KeepsTitle, KeepsSkills, LoopOn
  <2> QED
    BY <2>6, <2>7, <2>8
<1> QED
  BY <1>1, <1>2, <1>3, <1>4

\* Those of the loop keep it.
LEMMA LoopWriters ==
  ASSUME RowInv, NEW h \in Handlers,
         (\E mode \in {"fixed", "dynamic"} : SetLoop(h, mode)) \/ StopLoop(h) \/ MarkDue(h)
  PROVE  RowInv' /\ (HarmBy(h) => stale[h]) /\ KeepsGoal /\ (LoopAwake' \/ owed')
<1>0. RowTypeOK /\ HandlersFit
  BY DEF RowInv
<1>1. ASSUME NEW mode \in {"fixed", "dynamic"}, SetLoop(h, mode)
      PROVE  RowInv' /\ (HarmBy(h) => stale[h]) /\ KeepsGoal /\ owed'
  <2>1. NewLoop(arg[h], mode, "none") \in StoredLoops
    BY <1>0, <1>1, NewStored DEF SetLoop, HandlersFit
  <2>2. Put(h) /\ KeepsGoal /\ KeepsTitle /\ KeepsSkills
    BY <1>0, <1>1, <2>1, LoopWritten DEF SetLoop
  <2>3. RowInv'
    BY <1>0, <1>1, <2>2, LeavingKeeps DEF SetLoop, Put, RowTypeOK
  <2>4. ASSUME HarmBy(h), ~stale[h] PROVE FALSE
    <3>1. ~GoalOn(threadRow)
      BY <1>1, <2>4, Known DEF SetLoop, Willing, HarmBy
    <3> QED
      BY <1>1, <2>2, <2>4, <3>1 DEF SetLoop, HarmBy, KeepsGoal, KeepsTitle, KeepsSkills, GoalOn
  <2> QED
    BY <1>1, <2>2, <2>3, <2>4 DEF SetLoop
<1>2. CASE StopLoop(h)
  <2>1. PICK l : l = held[h].loop
    OBVIOUS
  <2>2. PICK v : v = IF l = Nothing THEN Nothing ELSE StoppedLoop(l)
    OBVIOUS
  <2>3. whereAt[h] = "read" /\ op[h] = "stop loop" /\ SetField(h, "loop", v) /\ Leave(h)
        /\ UNCHANGED <<topic, used, client>> /\ timer' = Nothing
    BY <1>2, <2>1, <2>2 DEF StopLoop, Store
  <2>4. held[h] # Nothing /\ l \in StoredLoops \cup {Nothing}
    BY <1>0, <2>1, <2>3 DEF HandlersFit, Ensures, RowTypeOK, ThreadRows
  <2>5. v \in StoredLoops \cup {Nothing} /\ ~Active(v) /\ (v # Nothing => l # Nothing /\ v.job = l.job)
    BY <2>2, <2>4, LoopStored DEF Active
  <2>6. Put(h) /\ KeepsGoal /\ KeepsTitle /\ KeepsSkills /\ (threadRow # Nothing => threadRow'.loop = v)
    BY <1>0, <2>3, <2>5, LoopWritten
  <2>7. RowInv'
    BY <1>0, <2>3, <2>6, LeavingKeeps DEF Put, RowTypeOK, client
  <2>8. ASSUME HarmBy(h), ~stale[h] PROVE FALSE
    <3>1. ~LoopOn(threadRow')
      BY <2>5, <2>6, <2>8 DEF HarmBy, LoopOn
    <3>2. LoopOn(threadRow) /\ threadRow'.loop # Nothing => threadRow'.loop.job = threadRow.loop.job
      BY <2>1, <2>3, <2>4, <2>5, <2>6, <2>8, Known DEF HarmBy
    <3> QED
      BY <2>6, <2>8, <3>1, <3>2 DEF HarmBy, KeepsGoal, KeepsTitle, KeepsSkills, GoalOn
  <2>9. LoopAwake'
    BY <2>5, <2>6 DEF Put, LoopAwake, LoopOn
  <2> QED
    BY <2>6, <2>7, <2>8, <2>9
<1>3. CASE MarkDue(h)
  <2>1. PICK l : l = held[h].loop
    OBVIOUS
  <2>2. PICK v : v = [l EXCEPT !.wake = "due"]
    OBVIOUS
  <2>3. whereAt[h] = "read" /\ op[h] = "wake" /\ SetField(h, "loop", v) /\ Leave(h)
        /\ UNCHANGED <<topic, used, client, timer>> /\ LoopOn(held[h])
    BY <1>3, <2>1, <2>2 DEF MarkDue, Store, Willing
  <2>4. held[h] # Nothing /\ l \in StoredLoops
    BY <1>0, <2>1, <2>3 DEF LoopOn, Active, RowTypeOK, ThreadRows
  <2>5. v \in StoredLoops /\ v.job = l.job /\ v.wake = "due"
    BY <2>2, <2>4, LoopStored
  <2>6. Put(h) /\ KeepsGoal /\ KeepsTitle /\ KeepsSkills /\ (threadRow # Nothing => threadRow'.loop = v)
    BY <1>0, <2>3, <2>5, LoopWritten
  <2>7. RowInv'
    BY <1>0, <2>3, <2>6, LeavingKeeps DEF Put, RowTypeOK, client
  <2>8. ASSUME HarmBy(h), ~stale[h] PROVE FALSE
    <3>1. LoopOn(threadRow) /\ threadRow'.loop.job = threadRow.loop.job
      BY <2>1, <2>3, <2>4, <2>5, <2>6, <2>8, Known DEF HarmBy
    <3> QED
      BY <2>6, <2>8, <3>1 DEF HarmBy, KeepsGoal, KeepsTitle, KeepsSkills, GoalOn
  <2>9. LoopAwake'
    BY <2>5, <2>6 DEF Put, LoopAwake, LoopOn
  <2> QED
    BY <2>6, <2>7, <2>8, <2>9
<1> QED
  BY <1>1, <1>2, <1>3

\* A handler that stores what it read of the loop, going on or ended.
LEMMA HeldLoopStored ==
  ASSUME RowInv, NEW h \in Handlers, NEW o \in Ops, LoopOn(held[h]), NEW v \in StoredLoops,
         v.job = held[h].loop.job, Resettle(h, o, v)
  PROVE  RowInv' /\ (HarmBy(h) => stale[h]) /\ KeepsGoal
         /\ (threadRow' # Nothing => threadRow'.loop = v)
<1>1. RowInv' /\ Put(h) /\ KeepsGoal /\ KeepsTitle /\ KeepsSkills
      /\ (threadRow # Nothing => threadRow'.loop = v)
  BY ResettleKeeps
<1>2. ASSUME HarmBy(h), ~stale[h] PROVE FALSE
  <2>1. whereAt[h] = "read" /\ held[h] # Nothing
    BY DEF Resettle, LoopOn
  <2>2. LoopOn(threadRow) /\ threadRow'.loop.job = threadRow.loop.job
    BY <1>1, <1>2, <2>1, Known DEF HarmBy
  <2> QED
    BY <1>1, <1>2, <2>2 DEF HarmBy, KeepsGoal, KeepsTitle, KeepsSkills, GoalOn
<1> QED
  BY <1>1, <1>2 DEF Put

\* A loop that is changed is settled anew: its next wake-up is set, or left.
LEMMA LoopResettled ==
  ASSUME RowInv, NEW h \in Handlers,
         AckLoopWake(h) \/ StartThreadLoop(h) \/ ScheduleLoopWakeup(h) \/ RestLoop(h)
  PROVE  RowInv' /\ (HarmBy(h) => stale[h]) /\ KeepsGoal /\ (LoopAwake' \/ op[h] = "ack wake")
<1>0. RowTypeOK /\ HandlersFit
  BY DEF RowInv
<1>1. PICK l : l = held[h].loop
  OBVIOUS
<1>2. LoopOn(held[h]) => l \in StoredLoops
  BY <1>0, <1>1 DEF LoopOn, Active, RowTypeOK, ThreadRows
<1>3. CASE StartThreadLoop(h)
  <2>1. PICK v : v = NewLoop(arg[h], "fixed", "later")
    OBVIOUS
  <2>2. whereAt[h] = "read" /\ op[h] = "start loop" /\ ~GoalOn(held[h]) /\ Resettle(h, "start loop", v)
    BY <1>3, <2>1 DEF StartThreadLoop, Resettle, Willing
  <2>3. v \in StoredLoops /\ v.wake = "later"
    BY <1>0, <2>1, <2>2, NewStored DEF HandlersFit, NewLoop
  <2>4. RowInv' /\ Put(h) /\ KeepsGoal /\ KeepsTitle /\ KeepsSkills /\ (threadRow # Nothing => threadRow'.loop = v)
    BY <2>2, <2>3, ResettleKeeps DEF Ops, LoopOps
  <2>5. ASSUME HarmBy(h), ~stale[h] PROVE FALSE
    <3>1. ~GoalOn(threadRow)
      BY <2>2, <2>5, Known DEF HarmBy
    <3> QED
      BY <2>2, <2>4, <2>5, <3>1 DEF HarmBy, KeepsGoal, KeepsTitle, KeepsSkills, GoalOn
  <2> QED
    BY <2>3, <2>4, <2>5 DEF Put, LoopAwake, LoopOn
<1>4. CASE AckLoopWake(h)
  <2>1. PICK w \in {"later", "none"} : w = IF l.mode = "fixed" THEN "later" ELSE "none"
    OBVIOUS
  <2>2. Resettle(h, "ack wake", [l EXCEPT !.wake = w]) /\ LoopOn(held[h]) /\ op[h] = "ack wake"
    BY <1>1, <1>4, <2>1 DEF AckLoopWake, Resettle, Willing
  <2> QED
    <3>1. PICK v \in StoredLoops : v = [l EXCEPT !.wake = w] /\ v.job = l.job
      BY <1>2, <2>2, LoopStored
    <3> QED
      BY <1>1, <2>2, <3>1, HeldLoopStored DEF Ops, LoopOps
<1>5. CASE ScheduleLoopWakeup(h)
  <2>1. LoopOn(held[h])
    BY <1>5 DEF ScheduleLoopWakeup, Resettle, Willing
  <2>2. CASE Resettle(h, "schedule", [l EXCEPT !.wake = "later"])
    <3>1. PICK v \in StoredLoops : v = [l EXCEPT !.wake = "later"] /\ v.job = l.job /\ v.wake = "later"
      BY <1>2, <2>1, LoopStored
    <3>2. RowInv' /\ (HarmBy(h) => stale[h]) /\ KeepsGoal /\ (threadRow' # Nothing => threadRow'.loop = v)
      BY <1>1, <2>1, <2>2, <3>1, HeldLoopStored DEF Ops, LoopOps
    <3>3. LoopAwake'
      BY <3>1, <3>2 DEF LoopAwake, LoopOn, Active
    <3> QED
      BY <3>2, <3>3
  <2>3. CASE Resettle(h, "quit", StoppedLoop(l))
    <3>1. PICK v \in StoredLoops : v = StoppedLoop(l) /\ v.job = l.job /\ v.status = "stopped"
      BY <1>2, <2>1, LoopStored
    <3>2. RowInv' /\ (HarmBy(h) => stale[h]) /\ KeepsGoal /\ (threadRow' # Nothing => threadRow'.loop = v)
      BY <1>1, <2>1, <2>3, <3>1, HeldLoopStored DEF Ops, LoopOps
    <3>3. LoopAwake'
      BY <3>1, <3>2 DEF LoopAwake, LoopOn, Active
    <3> QED
      BY <3>2, <3>3
  <2> QED
    BY <1>1, <1>5, <2>2, <2>3 DEF ScheduleLoopWakeup
<1>6. CASE RestLoop(h)
  <2>1. Resettle(h, "finish", [l EXCEPT !.wake = "later"]) /\ LoopOn(held[h])
    BY <1>1, <1>6 DEF RestLoop, Resettle, Willing
  <2> QED
    <3>1. PICK v \in StoredLoops : v = [l EXCEPT !.wake = "later"] /\ v.job = l.job /\ v.wake = "later"
      BY <1>2, <2>1, LoopStored
    <3>2. RowInv' /\ (HarmBy(h) => stale[h]) /\ KeepsGoal /\ (threadRow' # Nothing => threadRow'.loop = v)
      BY <1>1, <2>1, <3>1, HeldLoopStored DEF Ops, OwnOps
    <3>3. LoopAwake'
      BY <3>1, <3>2 DEF LoopAwake, LoopOn, Active
    <3> QED
      BY <3>2, <3>3
<1> QED
  BY <1>3, <1>4, <1>5, <1>6

\* Setting the wake-up of a loop that is due again keeps the invariant.
LEMMA Rescheduling ==
  ASSUME RowInv, NEW h \in Handlers, NEW old \in BOOLEAN, Reschedule(h, old)
  PROVE  RowInv' /\ (HarmBy(h) => stale[h]) /\ KeepsGoal /\ (KeepsLoop \/ LoopAwake')
<1>0. RowTypeOK /\ HandlersFit /\ AsRead(h)
  BY DEF RowInv
<1>1. PICK l : l = held[h].loop
  OBVIOUS
<1>2. l \in StoredLoops
  BY <1>0, <1>1 DEF Reschedule, HandlersFit, RowTypeOK, ThreadRows
<1>3. CASE SetField(h, "loop", StoppedLoop(l)) /\ timer' = Nothing
  <2>1. StoppedLoop(l) \in StoredLoops /\ StoppedLoop(l).job = l.job /\ StoppedLoop(l).status = "stopped"
    BY <1>2, LoopStored
  <2>2. Put(h) /\ KeepsGoal /\ KeepsTitle /\ KeepsSkills /\ (threadRow # Nothing => threadRow'.loop = StoppedLoop(l))
    BY <1>0, <1>3, <2>1, LoopWritten
  <2>3. RowInv'
    BY <1>0, <1>3, <2>2, LeavingKeeps DEF Reschedule, Put, RowTypeOK, client
  <2>4. ASSUME HarmBy(h), ~stale[h] PROVE FALSE
    <3>1. ~LoopOn(threadRow')
      BY <2>1, <2>2, <2>4 DEF HarmBy, LoopOn, Active
    <3>2. LoopOn(threadRow) => threadRow'.loop.job = threadRow.loop.job
      BY <1>0, <1>1, <2>1, <2>2, <2>4 DEF HarmBy, AsRead, Reschedule
    <3> QED
      BY <2>2, <2>4, <3>1, <3>2 DEF HarmBy, KeepsGoal, KeepsTitle, KeepsSkills, GoalOn
  <2> QED
    BY <2>1, <2>2, <2>3, <2>4 DEF Put, LoopAwake, LoopOn, Active
<1>4. CASE timer' \in {l.job, Nothing} /\ stale' = [stale EXCEPT ![h] = FALSE] /\ UNCHANGED threadRow
  <2>1. l.job \in Loops
    BY <1>2 DEF StoredLoops
  <2>2. RowInv'
    BY <1>0, <1>4, <2>1, LeavingKeeps DEF Reschedule, RowTypeOK, client
  <2>3. ~HarmBy(h)
    BY <1>0, <1>4 DEF HarmBy, RowTypeOK, ThreadRows
  <2> QED
    BY <1>4, <2>2, <2>3 DEF KeepsGoal, KeepsLoop
<1> QED
  BY <1>1, <1>3, <1>4 DEF Reschedule

\* The handlers of the title, the skills and the checklist keep it.
LEMMA OtherWriters ==
  ASSUME RowInv, NEW h \in Handlers,
         \/ ActivateSkill(h) \/ RefreshActivatedSkills(h) \/ EnsureThreadTitle(h) \/ RenameThread(h)
         \/ PersistTodos(h) \/ DeleteThread(h) \/ Refuse(h)
  PROVE  RowInv' /\ (HarmBy(h) => stale[h]) /\ ((KeepsGoal /\ KeepsLoop) \/ threadRow' = Nothing)
<1>0. RowTypeOK /\ HandlersFit
  BY DEF RowInv
<1>1. ASSUME ActivateSkill(h) \/ RefreshActivatedSkills(h)
      PROVE  RowInv' /\ (HarmBy(h) => stale[h]) /\ KeepsGoal /\ KeepsLoop
  <2>1. PICK v : v = IF op[h] = "activate" THEN held[h].skills \cup {arg[h]} ELSE held[h].skills
    OBVIOUS
  <2>2. SetField(h, "skills", v) /\ whereAt[h] = "read" /\ Leave(h) /\ UNCHANGED <<topic, used, client, timer>>
        /\ op[h] \in {"activate", "refresh"} /\ held[h] # Nothing
    BY <1>1, <2>1 DEF ActivateSkill, RefreshActivatedSkills, Store, Willing
  <2>3. held[h].skills \in SUBSET Skills
    BY <1>0, <2>2 DEF RowTypeOK, ThreadRows
  <2>4. v \in SUBSET Skills /\ held[h].skills \subseteq v
    BY <1>0, <2>1, <2>2, <2>3 DEF HandlersFit
  <2>5. Put(h) /\ KeepsGoal /\ KeepsLoop /\ KeepsTitle /\ (threadRow # Nothing => threadRow'.skills = v)
    BY <1>0, <2>2, <2>4, SkillsWritten
  <2>6. RowInv'
    BY <1>0, <2>2, <2>5, LeavingKeeps DEF Put, RowTypeOK, client
  <2>7. ASSUME HarmBy(h), ~stale[h] PROVE FALSE
    <3>1. threadRow.skills \subseteq threadRow'.skills
      BY <2>2, <2>4, <2>5, <2>7, Known DEF HarmBy
    <3> QED
      BY <2>5, <2>7, <3>1 DEF HarmBy, KeepsGoal, KeepsLoop, KeepsTitle, GoalOn, LoopOn
  <2> QED
    BY <2>5, <2>6, <2>7
<1>2. ASSUME EnsureThreadTitle(h) \/ RenameThread(h)
      PROVE  RowInv' /\ (HarmBy(h) => stale[h]) /\ KeepsGoal /\ KeepsLoop
  <2>1. PICK v \in {"generated", "given"} : v = IF op[h] = "entitle" THEN "generated" ELSE "given"
    OBVIOUS
  <2>2. SetField(h, "title", v) /\ whereAt[h] = "read" /\ Leave(h) /\ UNCHANGED <<topic, used, client, timer>>
        /\ op[h] \in {"entitle", "rename"} /\ (op[h] = "entitle" => held[h].title = "none")
    BY <1>2, <2>1 DEF EnsureThreadTitle, RenameThread, Store, Willing
  <2>3. held[h] # Nothing
    BY <1>0, <2>2 DEF HandlersFit, Ensures
  <2>4. Put(h) /\ KeepsGoal /\ KeepsLoop /\ KeepsSkills /\ (threadRow # Nothing => threadRow'.title = v)
    BY <1>0, <2>2, TitleWritten
  <2>5. RowInv'
    BY <1>0, <2>2, <2>4, LeavingKeeps DEF Put, RowTypeOK, client
  <2>6. ASSUME HarmBy(h), ~stale[h] PROVE FALSE
    <3>1. op[h] = "entitle" => threadRow.title = "none"
      BY <2>2, <2>3, <2>6, Known DEF HarmBy
    <3> QED
      BY <2>1, <2>4, <2>6, <3>1 DEF HarmBy, KeepsGoal, KeepsLoop, KeepsSkills, GoalOn, LoopOn
  <2> QED
    BY <2>4, <2>5, <2>6
<1>3. ASSUME PersistTodos(h) PROVE RowInv' /\ (HarmBy(h) => stale[h]) /\ KeepsGoal /\ KeepsLoop
  <2>1. Put(h) /\ KeepsGoal /\ KeepsLoop /\ KeepsTitle /\ KeepsSkills
    BY <1>0, <1>3, TodosWritten DEF PersistTodos, Store
  <2>2. RowInv'
    BY <1>0, <1>3, <2>1, LeavingKeeps DEF PersistTodos, Store, Put, RowTypeOK, client
  <2>3. ~HarmBy(h)
    BY <2>1 DEF HarmBy, KeepsGoal, KeepsLoop, KeepsTitle, KeepsSkills, GoalOn, LoopOn
  <2> QED
    BY <2>1, <2>2, <2>3
<1>4. ASSUME DeleteThread(h) PROVE RowInv' /\ (HarmBy(h) => stale[h]) /\ threadRow' = Nothing
  <2>1. threadRow' = Nothing
        /\ stale' = [x \in Handlers |-> IF x = h THEN FALSE ELSE stale[x] \/ whereAt[x] # "free"]
    BY <1>4 DEF DeleteThread, PutRow
  <2>2. RowInv'
    BY <1>0, <1>4, <2>1, LeavingKeeps DEF DeleteThread, RowTypeOK, client
  <2> QED
    BY <2>1, <2>2 DEF HarmBy
<1>5. ASSUME Refuse(h) PROVE RowInv' /\ (HarmBy(h) => stale[h]) /\ KeepsGoal /\ KeepsLoop
  <2>1. RowInv'
    BY <1>0, <1>5, LeavingKeeps DEF Refuse, RowTypeOK, client
  <2>2. ~HarmBy(h)
    BY <1>0, <1>5 DEF Refuse, HarmBy, RowTypeOK, ThreadRows
  <2> QED
    BY <1>5, <2>1, <2>2 DEF Refuse, KeepsGoal, KeepsLoop
<1> QED
  BY <1>1, <1>2, <1>3, <1>4, <1>5

-----------------------------------------------------------------------------
(* The steps that write nothing, and those that are no handler's. *)

\* A handler begins.
LEMMA EnterKeeps ==
  ASSUME RowInv, NEW h \in Handlers, NEW o \in Ops, NEW x \in Goals \cup Loops \cup Skills \cup {Nothing},
         Enter(h, o, x), whereAt[h] = "free",
         o = "set goal" => x \in Goals, o \in {"set loop", "start loop"} => x \in Loops,
         o = "activate" => x \in Skills,
         UNCHANGED <<topic, threadRow>>, used' \in SUBSET (Goals \cup Loops), timer' \in Loops \cup {Nothing},
         agentRun' \in BOOLEAN, owed' \in BOOLEAN, browser' \in BrowserSteps
  PROVE  RowInv'
<1> USE DEF RowInv
<1>1. RowTypeOK'
  BY DEF RowTypeOK, Enter, Places
<1>2. whereAt'[h] = "arrived" /\ op'[h] = o /\ arg'[h] = x
  BY DEF RowTypeOK, Enter
<1>3. \A y \in Handlers \ {h} : /\ whereAt'[y] = whereAt[y] /\ op'[y] = op[y] /\ arg'[y] = arg[y]
                               /\ held'[y] = held[y] /\ stale'[y] = stale[y]
  BY DEF RowTypeOK, Enter
<1>4. HandlersFit'
  BY <1>2, <1>3 DEF HandlersFit
<1>5. \A y \in Handlers : AsRead(y)'
  BY <1>2, <1>3 DEF AsRead
<1> QED
  BY <1>1, <1>4, <1>5

\* The row is made where there was none, or time passes: no handler was overtaken.
LEMMA RowMoves ==
  ASSUME RowInv, UNCHANGED <<topic, used, timer, whereAt, op, arg, held, stale>>,
         threadRow' = threadRow \/ (threadRow = Nothing /\ threadRow' = Fresh)
           \/ (threadRow # Nothing /\ threadRow' \in ThreadRows /\ threadRow # Fresh
               /\ SameButWake(threadRow, threadRow')),
         agentRun' \in BOOLEAN, owed' \in BOOLEAN, browser' \in BrowserSteps
  PROVE  RowInv'
<1> USE DEF RowInv
<1>1. RowTypeOK'
  BY FreshIsRow DEF RowTypeOK
<1>2. HandlersFit'
  BY DEF HandlersFit
<1>3. ASSUME NEW h \in Handlers PROVE AsRead(h)'
  <2>1. SUFFICES ASSUME ~stale[h] PROVE AsRead(h)'
    BY DEF AsRead
  <2>2. AsRead(h)
    OBVIOUS
  <2>3. CASE threadRow' = threadRow
    BY <2>1, <2>2, <2>3 DEF AsRead
  <2>4. CASE threadRow = Nothing /\ threadRow' = Fresh
    BY <2>1, <2>2, <2>4 DEF AsRead, LoopOn, Active, Fresh
  <2>5. CASE threadRow # Nothing /\ threadRow' \in ThreadRows /\ threadRow # Fresh /\ SameButWake(threadRow, threadRow')
    <3>1. threadRow' # Nothing
      BY <2>5, NothingAssumption
    <3>2. whereAt[h] \in {"read", "judged"} => held[h] # Nothing /\ SameButWake(held[h], threadRow')
      BY <2>1, <2>2, <2>5 DEF AsRead, SameButWake
    <3>3. LoopOn(threadRow') => LoopOn(threadRow) /\ threadRow'.loop.job = threadRow.loop.job
      BY <2>5, <3>1 DEF LoopOn, Active, SameButWake
    <3> QED
      BY <2>1, <2>2, <3>1, <3>2, <3>3 DEF AsRead
  <2> QED
    BY <2>3, <2>4, <2>5
<1> QED
  BY <1>1, <1>2, <1>3

\* A handler has read the row, once or again.
LEMMA RowReadingKeeps ==
  ASSUME RowInv, NEW h \in Handlers, Read(h) \/ Judged(h)
  PROVE  RowInv' /\ ~HarmBy(h)
<1> USE DEF RowInv
<1>1. threadRow' = threadRow \/ (threadRow = Nothing /\ threadRow' = Fresh)
  BY DEF Read, Judged
<1>2. /\ held' = [held EXCEPT ![h] = threadRow']
      /\ stale' = [stale EXCEPT ![h] = FALSE]
      /\ UNCHANGED <<topic, used, timer, op, arg, client>>
  BY DEF Read, Judged
<1>3. PICK w \in {"judging", "read", "judged"} :
        /\ whereAt' = [whereAt EXCEPT ![h] = w]
        /\ w \in {"judging", "judged"} => op[h] = "finish"
        /\ w = "read" /\ op[h] \in Ensures => threadRow' # Nothing
  <2>1. CASE Read(h)
    BY <2>1, FreshIsRow DEF Read
  <2>2. CASE Judged(h)
    BY <2>2 DEF Judged, HandlersFit
  <2> QED
    BY <2>1, <2>2
<1>4. RowTypeOK'
  BY <1>1, <1>2, <1>3, FreshIsRow DEF RowTypeOK, Places, client
<1>5. whereAt'[h] = w /\ held'[h] = threadRow' /\ op' = op /\ arg' = arg
  BY <1>2, <1>3 DEF RowTypeOK
<1>6. \A y \in Handlers \ {h} : whereAt'[y] = whereAt[y] /\ held'[y] = held[y] /\ stale'[y] = stale[y]
  BY <1>2, <1>3 DEF RowTypeOK
<1>7. HandlersFit'
  BY <1>3, <1>5, <1>6 DEF HandlersFit
<1>8. ASSUME NEW y \in Handlers PROVE AsRead(y)'
  <2>1. CASE y = h
    BY <1>1, <1>3, <1>5, <2>1 DEF AsRead, SameButWake
  <2>2. CASE y # h
    <3>1. AsRead(y)
      OBVIOUS
    <3> QED
      BY <1>1, <1>6, <2>2, <3>1 DEF AsRead, LoopOn, Active, Fresh
  <2> QED
    BY <2>1, <2>2
<1>9. ~HarmBy(h)
  BY <1>1 DEF HarmBy, RowTypeOK, ThreadRows
<1> QED
  BY <1>4, <1>7, <1>8, <1>9

\* A handler that begins, and one that reads, keep it.
LEMMA BeginningKeeps ==
  ASSUME RowInv, NEW h \in Handlers,
         (\E o \in Ops : Call(h, o)) \/ Fire(h) \/ RunEnds(h) \/ AckGoal(h) \/ AckWake(h)
  PROVE  RowInv' /\ UNCHANGED threadRow
<1>0. RowTypeOK
  BY DEF RowInv
<1>1. ASSUME NEW o \in Ops, Call(h, o) PROVE RowInv' /\ UNCHANGED threadRow
  <2>1. PICK x \in Subject(o) : Enter(h, o, x)
          /\ used' = IF x = Nothing THEN used ELSE used \cup ({x} \cap (Goals \cup Loops))
    BY <1>1 DEF Call
  <2>2. x \in Goals \cup Loops \cup Skills \cup {Nothing} /\ (o = "set goal" => x \in Goals)
        /\ (o \in {"set loop", "start loop"} => x \in Loops) /\ (o = "activate" => x \in Skills)
    BY <2>1 DEF Subject
  <2> QED
    BY <1>0, <1>1, <2>1, <2>2, EnterKeeps DEF Call, client, RowTypeOK
<1>2. CASE Fire(h)
  BY <1>0, <1>2, EnterKeeps DEF Fire, RowTypeOK, client, Ops, OwnOps
<1>3. CASE RunEnds(h)
  BY <1>0, <1>3, EnterKeeps DEF RunEnds, RowTypeOK, Ops, OwnOps
<1>4. CASE AckGoal(h)
  BY <1>0, <1>4, EnterKeeps DEF AckGoal, RowTypeOK, Ops, GoalOps, BrowserSteps
<1>5. CASE AckWake(h)
  BY <1>0, <1>5, EnterKeeps DEF AckWake, RowTypeOK, Ops, LoopOps, BrowserSteps
<1> QED
  BY <1>1, <1>2, <1>3, <1>4, <1>5

\* Time passes for a loop: SameButWake.
LEMMA Elapsed ==
  ASSUME RowTypeOK, Elapse
  PROVE  /\ threadRow # Nothing /\ threadRow' \in ThreadRows /\ threadRow # Fresh
         /\ SameButWake(threadRow, threadRow')
         /\ threadRow.loop # Nothing /\ threadRow'.loop # Nothing
         /\ threadRow'.loop.wake = "due"
<1>1. PICK r \in ThreadRows : r = threadRow
  BY DEF RowTypeOK, Elapse
<1>2. PICK l \in StoredLoops : l = r.loop
  BY <1>1 DEF Elapse, ThreadRows
<1>3. PICK g, t, s, d : r = [goal |-> g, loop |-> l, title |-> t, skills |-> s, todos |-> d]
  <2>1. r = [goal |-> r.goal, loop |-> r.loop, title |-> r.title, skills |-> r.skills, todos |-> r.todos]
    BY DEF ThreadRows
  <2> QED
    BY <1>2, <2>1
<1>4. PICK m \in StoredLoops : m = [l EXCEPT !.wake = "due"] /\ m.job = l.job /\ m.status = l.status /\ m.wake = "due"
  BY LoopStored
<1>5. threadRow' = [goal |-> g, loop |-> m, title |-> t, skills |-> s, todos |-> d]
  <2>1. threadRow' = [r EXCEPT !.loop.wake = "due"]
    BY <1>1 DEF Elapse
  <2> QED
    BY <2>1, <1>3, <1>4
<1>6. g \in StoredGoals \cup {Nothing} /\ t \in {"none", "generated", "given"} /\ s \in SUBSET Skills /\ d \in {"none", "list"}
  BY <1>3 DEF ThreadRows
<1>7. threadRow' \in ThreadRows
  BY <1>5, <1>6 DEF ThreadRows
<1>8. l # Nothing /\ m # Nothing
  BY NothingAssumption
<1>9. threadRow # Fresh
  BY <1>1, <1>3, <1>8 DEF Fresh
<1>10. /\ threadRow.goal = threadRow'.goal /\ threadRow.title = threadRow'.title
       /\ threadRow.skills = threadRow'.skills /\ threadRow.loop = l /\ threadRow'.loop = m
  BY <1>1, <1>3, <1>5
<1> QED
  BY <1>1, <1>4, <1>7, <1>8, <1>9, <1>10, NothingAssumption DEF SameButWake

\* What the browser does by itself keeps it.
LEMMA AloneKeeps ==
  ASSUME RowInv,
         PromptRun \/ Look \/ LookLoop \/ Continue \/ Acked \/ SendPrompt \/ Elapse \/ ServerRestarts \/ Close
           \/ UNCHANGED rowVars
  PROVE  RowInv' /\ \A h \in Handlers : ~HarmBy(h)
<1>0. RowTypeOK
  BY DEF RowInv
<1>1. CASE PromptRun \/ Continue \/ SendPrompt
  <2>1. UNCHANGED <<topic, used, timer, whereAt, op, arg, held, stale>>
        /\ agentRun' = TRUE /\ owed' = FALSE /\ browser' \in BrowserSteps
        /\ (threadRow' = threadRow \/ (threadRow = Nothing /\ threadRow' = Fresh))
    BY <1>0, <1>1 DEF PromptRun, Continue, SendPrompt, StartRun, slots, BrowserSteps, RowTypeOK
  <2>2. RowInv'
    BY <2>1, RowMoves
  <2> QED
    BY <2>1, <2>2 DEF HarmBy
<1>2. CASE Look \/ LookLoop \/ Acked \/ Close \/ UNCHANGED rowVars
  <2>1. UNCHANGED <<topic, threadRow, used, timer, whereAt, op, arg, held, stale>>
        /\ agentRun' \in BOOLEAN /\ owed' \in BOOLEAN /\ browser' \in BrowserSteps
    BY <1>0, <1>2 DEF Look, LookLoop, Acked, Close, rowVars, slots, client, BrowserSteps, RowTypeOK
  <2>2. RowInv'
    BY <2>1, RowMoves
  <2> QED
    BY <2>1, <2>2 DEF HarmBy
<1>3. CASE Elapse
  <2>1. UNCHANGED <<topic, used, timer, whereAt, op, arg, held, stale>>
        /\ agentRun' \in BOOLEAN /\ owed' \in BOOLEAN /\ browser' \in BrowserSteps
    BY <1>0, <1>3 DEF Elapse, slots, client, RowTypeOK
  <2>2. RowInv'
    BY <1>0, <1>3, <2>1, Elapsed, RowMoves
  <2> QED
    BY <2>1, <2>2 DEF HarmBy
<1>4. CASE ServerRestarts
  <2>1. RowTypeOK'
    BY <1>0, <1>4 DEF ServerRestarts, RowTypeOK, Places
  <2>2. HandlersFit' /\ \A h \in Handlers : AsRead(h)'
    BY <1>4 DEF ServerRestarts, HandlersFit, AsRead
  <2>3. UNCHANGED threadRow
    BY <1>4 DEF ServerRestarts
  <2> QED
    BY <1>0, <2>1, <2>2, <2>3 DEF RowInv, HarmBy, RowTypeOK, ThreadRows
<1> QED
  BY <1>1, <1>2, <1>3, <1>4

\* A step of one handler is no other's.
LEMMA OneHandlerActs ==
  ASSUME RowTypeOK, NEW h \in Handlers, Handle(h), NEW x \in Handlers \ {h}
  PROVE  whereAt'[x] = whereAt[x]
BY DEF Handle, Read, Refuse, SetGoal, ClearGoal, AckContinue, SetLoop, StopLoop, AckLoopWake, StartThreadLoop,
   ScheduleLoopWakeup, RestLoop, MarkDue, Reschedule, Judged, WriteVerdict, ActivateSkill,
   RefreshActivatedSkills, EnsureThreadTitle, RenameThread, PersistTodos, DeleteThread, Store, Resettle,
   Leave, RowTypeOK

\* Every step keeps it.
LEMMA RowStep ==
  ASSUME RowInv, [RowNext]_rowVars
  PROVE  RowInv' /\ \A h \in Handlers : HarmBy(h) => stale[h]
<1>0. RowTypeOK
  BY DEF RowInv
<1>1. ASSUME NEW h \in Handlers, Handle(h) PROVE RowInv' /\ (HarmBy(h) => stale[h])
  BY <1>1, GoalWriters, LoopWriters, LoopResettled, Rescheduling, OtherWriters, RowReadingKeeps DEF Handle
<1>2. ASSUME NEW h \in Handlers, Handle(h) PROVE RowInv' /\ \A x \in Handlers : HarmBy(x) => stale[x]
  BY <1>0, <1>1, <1>2, OneHandlerActs DEF HarmBy
<1>3. ASSUME NEW h \in Handlers, (\E o \in Ops : Call(h, o)) \/ Fire(h) \/ RunEnds(h) \/ AckGoal(h) \/ AckWake(h)
      PROVE  RowInv' /\ \A x \in Handlers : ~HarmBy(x)
  BY <1>0, <1>3, BeginningKeeps DEF HarmBy, RowTypeOK, ThreadRows
<1> QED
  BY <1>2, <1>3, AloneKeeps DEF RowNext

\* No handler of the routes, the tools or the timer (goal-loop.ts, chat.ts,
\* loop-scheduler.ts) undoes what it could have seen when it read the row: one that
\* revives a goal or a loop, or loses a skill or a title, was overtaken since.
THEOREM OnlyTheStaleHarm == RowSpec => OnlyStaleWritesHarm
<1>1. RowInit => RowInv
  BY DEF RowInit, RowInv, RowTypeOK, HandlersFit, AsRead, Places, BrowserSteps
<1>2. RowInv /\ [RowNext]_rowVars => RowInv'
  BY RowStep
<1>3. RowInv /\ [RowNext]_rowVars => [\A h \in Handlers : HarmBy(h) => stale[h]]_rowVars
  BY RowStep
<1> QED
  BY <1>1, <1>2, <1>3, PTL DEF RowSpec, OnlyStaleWritesHarm

-----------------------------------------------------------------------------
(* A loop that is active is woken. *)

\* A thread that never had a goal has none, in its row, in what is kept of it, and in
\* the browser.
GoalFree ==
  used \cap Goals = {} =>
    /\ threadRow # Nothing => threadRow.goal = Nothing
    /\ \A h \in Handlers : /\ op[h] # "set goal" /\ whereAt[h] \notin {"judging", "judged"}
                           /\ held[h] # Nothing => held[h].goal = Nothing
    /\ browser \notin {"continue", "continuing", "acking"}

\* The prompt of a loop waits for its acknowledgement.
AcksAwaited ==
  topic \cap RowFaults = {} => \A h \in Handlers : op[h] = "ack wake" => browser = "waking"

\* The end of a run that has yet to look at the loop, or has seen that it has no
\* wake time.
WillRest(h) ==
  /\ op[h] = "finish"
  /\ \/ whereAt[h] = "arrived"
     \/ whereAt[h] = "read" /\ Willing(h)

LoopFed ==
  used \cap Goals = {} /\ topic \cap RowFaults = {} =>
    \/ LoopAwake \/ agentRun \/ owed \/ browser \in {"wake", "waking"}
    \/ \E h \in Handlers : WillRest(h)

LoopInv == RowInv /\ GoalFree /\ AcksAwaited /\ LoopFed

\* In a thread without a goal none is written, and no handler touches the browser.
LEMMA WritersKeepGoalFree ==
  ASSUME RowInv, GoalFree, NEW h \in Handlers, Handle(h)
  PROVE  GoalFree' /\ UNCHANGED <<used, topic>> /\ UNCHANGED browser /\ UNCHANGED agentRun
         /\ (owed => owed')
         /\ (\A x \in Handlers \ {h} : /\ op'[x] = op[x] /\ whereAt'[x] = whereAt[x]
                                       /\ held'[x] = held[x] /\ arg'[x] = arg[x])
         /\ (op'[h] = "none" \/ op'[h] = op[h])
<1>0. RowTypeOK /\ HandlersFit
  BY DEF RowInv
<1>1. UNCHANGED <<used, topic>> /\ UNCHANGED browser /\ UNCHANGED agentRun /\ (owed => owed')
  <2>1. UNCHANGED <<used, topic>> /\ UNCHANGED browser /\ UNCHANGED agentRun /\ (owed' = TRUE \/ owed' = owed)
    BY DEF Handle, Read, Refuse, SetGoal, ClearGoal, AckContinue, SetLoop, StopLoop, AckLoopWake, StartThreadLoop,
     ScheduleLoopWakeup, RestLoop, MarkDue, Reschedule, Judged, WriteVerdict, ActivateSkill,
     RefreshActivatedSkills, EnsureThreadTitle, RenameThread, PersistTodos, DeleteThread, Store, Resettle, client
  <2>2. owed => owed'
    BY <1>0, <2>1 DEF RowTypeOK
  <2> QED
    BY <2>1, <2>2
<1>2. /\ \A x \in Handlers \ {h} : op'[x] = op[x] /\ whereAt'[x] = whereAt[x] /\ held'[x] = held[x] /\ arg'[x] = arg[x]
      /\ (op'[h] = "none" \/ op'[h] = op[h])
  BY <1>0 DEF Handle, Read, Refuse, SetGoal, ClearGoal, AckContinue, SetLoop, StopLoop, AckLoopWake, StartThreadLoop,
   ScheduleLoopWakeup, RestLoop, MarkDue, Reschedule, Judged, WriteVerdict, ActivateSkill,
   RefreshActivatedSkills, EnsureThreadTitle, RenameThread, PersistTodos, DeleteThread, Store, Resettle, client,
   Leave, RowTypeOK
<1>3. ASSUME used \cap Goals = {}
      PROVE  /\ threadRow' # Nothing => threadRow'.goal = Nothing
             /\ whereAt'[h] \notin {"judging", "judged"}
             /\ held'[h] # Nothing => held'[h].goal = Nothing
  <2>1. /\ threadRow # Nothing => threadRow.goal = Nothing
        /\ op[h] # "set goal" /\ whereAt[h] \notin {"judging", "judged"}
        /\ ~GoalOn(threadRow) /\ ~GoalOn(held[h])
        /\ held[h] # Nothing => held[h].goal = Nothing
    BY <1>3 DEF GoalFree, GoalOn, Active
  <2>2. CASE SetGoal(h) \/ AckContinue(h) \/ (\E done \in BOOLEAN : WriteVerdict(h, done)) \/ Judged(h)
    BY <2>1, <2>2 DEF SetGoal, AckContinue, Store, WriteVerdict, Judged, Willing
  <2>3. CASE ClearGoal(h)
    <3>1. whereAt[h] = "read" /\ op[h] = "clear goal" /\ Leave(h)
      BY <2>3 DEF ClearGoal, Store
    <3>2. held[h].goal = Nothing
      BY <1>0, <2>1, <3>1 DEF HandlersFit, Ensures
    <3>3. SetField(h, "goal", Nothing)
      BY <2>3, <3>2 DEF ClearGoal, Store, Active
    <3>4. Put(h) /\ (threadRow # Nothing => threadRow'.goal = Nothing)
      BY <1>0, <3>3, GoalWritten
    <3> QED
      BY <1>0, <3>1, <3>4 DEF Put, Leave, RowTypeOK
  <2>4. CASE Read(h)
    <3>1. threadRow' = threadRow \/ threadRow' = Fresh
      BY <2>4 DEF Read
    <3>2. Fresh.goal = Nothing
      BY DEF Fresh
    <3>3. threadRow' # Nothing => threadRow'.goal = Nothing
      BY <2>1, <3>1, <3>2
    <3> QED
      BY <1>0, <2>4, <3>3 DEF Read, RowTypeOK, GoalOn, Active
  <2>5. CASE AckLoopWake(h) \/ StartThreadLoop(h) \/ ScheduleLoopWakeup(h) \/ RestLoop(h)
    <3>1. KeepsGoal
      BY <2>5, LoopResettled
    <3>2. whereAt'[h] = "rescheduling" /\ held'[h].goal = Nothing /\ (threadRow = Nothing => threadRow' = Nothing)
      <4>1. \E o, l : Resettle(h, o, l)
        BY <2>5 DEF AckLoopWake, StartThreadLoop, ScheduleLoopWakeup, RestLoop
      <4>2. PICK o, l : Resettle(h, o, l)
        BY <4>1
      <4>3. /\ whereAt' = [whereAt EXCEPT ![h] = "rescheduling"]
            /\ held' = [held EXCEPT ![h] = [Fresh EXCEPT !.loop = l]]
            /\ threadRow = Nothing => threadRow' = Nothing
        BY <4>2 DEF Resettle, SetField, PutRow
      <4>4. [Fresh EXCEPT !.loop = l].goal = Nothing
        BY DEF Fresh
      <4>5. whereAt'[h] = "rescheduling" /\ held'[h] = [Fresh EXCEPT !.loop = l]
        BY <1>0, <4>3 DEF RowTypeOK
      <4> QED BY <4>3, <4>4, <4>5
    <3> QED
      BY <2>1, <3>1, <3>2 DEF KeepsGoal
  <2>6. ASSUME \/ (\E mode \in {"fixed", "dynamic"} : SetLoop(h, mode)) \/ StopLoop(h) \/ MarkDue(h)
               \/ (\E old \in BOOLEAN : Reschedule(h, old))
               \/ ActivateSkill(h) \/ RefreshActivatedSkills(h) \/ EnsureThreadTitle(h) \/ RenameThread(h)
               \/ PersistTodos(h) \/ DeleteThread(h) \/ Refuse(h)
        PROVE  /\ threadRow' # Nothing => threadRow'.goal = Nothing
               /\ whereAt'[h] = "free" /\ held'[h] = Nothing
    <3>1. KeepsGoal \/ threadRow' = Nothing
      BY <2>6, LoopWriters, OtherWriters, Rescheduling
    <3>2. threadRow = Nothing => threadRow' = Nothing
      BY <2>6 DEF SetLoop, StopLoop, MarkDue, Reschedule, ActivateSkill, RefreshActivatedSkills, EnsureThreadTitle,
         RenameThread, PersistTodos, DeleteThread, Refuse, Store, SetField, PutRow
    <3>3. Leave(h)
      BY <2>6 DEF SetLoop, StopLoop, MarkDue, Reschedule, ActivateSkill, RefreshActivatedSkills, EnsureThreadTitle,
         RenameThread, PersistTodos, DeleteThread, Refuse, Store
    <3> QED
      BY <1>0, <2>1, <3>1, <3>2, <3>3 DEF KeepsGoal, Leave, RowTypeOK
  <2> QED
    BY <2>2, <2>3, <2>4, <2>5, <2>6 DEF Handle
<1>4. GoalFree'
  BY <1>1, <1>2, <1>3 DEF GoalFree
<1> QED
  BY <1>1, <1>2, <1>4

\* A handler's step leaves an active loop fed.
LEMMA WritersKeepLoopFed ==
  ASSUME RowInv, GoalFree, AcksAwaited, LoopFed, NEW h \in Handlers, Handle(h),
         used \cap Goals = {}, topic \cap RowFaults = {}
  PROVE  \/ LoopAwake' \/ agentRun' \/ owed' \/ browser' \in {"wake", "waking"}
         \/ \E x \in Handlers : WillRest(x)'
<1>0. RowTypeOK /\ HandlersFit
  BY DEF RowInv
<1>1. /\ UNCHANGED <<used, topic>> /\ UNCHANGED browser /\ UNCHANGED agentRun /\ (owed => owed')
      /\ \A x \in Handlers \ {h} : op'[x] = op[x] /\ whereAt'[x] = whereAt[x] /\ held'[x] = held[x] /\ arg'[x] = arg[x]
  BY WritersKeepGoalFree
<1>2. ASSUME NEW x \in Handlers \ {h}, WillRest(x) PROVE WillRest(x)'
  BY <1>1, <1>2 DEF WillRest, Willing, LoopOn
<1>3. (owed => owed') /\ (agentRun => agentRun') /\ (browser \in {"wake", "waking"} => browser' \in {"wake", "waking"})
  BY <1>0, <1>1 DEF RowTypeOK
<1>4. LoopAwake \/ agentRun \/ owed \/ browser \in {"wake", "waking"} \/ \E x \in Handlers : WillRest(x)
  BY DEF LoopFed
<1>5. ASSUME LoopAwake => LoopAwake', WillRest(h) => WillRest(h)'
       PROVE  \/ LoopAwake' \/ agentRun' \/ owed' \/ browser' \in {"wake", "waking"}
              \/ \E x \in Handlers : WillRest(x)'
  <2>1. (\E x \in Handlers : WillRest(x)) => \E x \in Handlers : WillRest(x)'
    BY <1>2, <1>5, Zenon
  <2> QED
    BY <1>3, <1>4, <1>5, <2>1, Zenon
<1>6. whereAt[h] \notin {"judging", "judged"} /\ ~GoalOn(threadRow) /\ ~GoalOn(held[h]) /\ op[h] # "set goal"
  BY DEF GoalFree, GoalOn, Active
<1>7. CASE KeepsLoop /\ (threadRow = Nothing => threadRow' = Nothing) /\ ~WillRest(h)
  <2>1. LoopAwake => LoopAwake'
    BY <1>7 DEF KeepsLoop, LoopAwake, LoopOn
  <2> QED
    BY <1>7, <1>5, <2>1
<1>8. CASE Read(h)
  <2>1. CASE LoopAwake'
    BY <2>1
  <2>2. CASE ~LoopAwake'
    <3>1. threadRow' = threadRow /\ LoopOn(threadRow) /\ threadRow.loop.wake = "none"
      BY <1>8, <2>2 DEF Read, LoopAwake, LoopOn, Active, Fresh
    <3>2. ~LoopAwake
      BY <3>1 DEF LoopAwake
    <3>3. WillRest(h) => WillRest(h)'
      <4>1. SUFFICES ASSUME op[h] = "finish" PROVE WillRest(h)'
        BY DEF WillRest
      <4>2. whereAt'[h] = "read" /\ held'[h] = threadRow /\ op' = op
        BY <1>0, <1>6, <1>8, <3>1 DEF Read, RowTypeOK
      <4> QED
        BY <4>1, <4>2, <3>1 DEF WillRest, Willing
    <3> QED
      BY <1>5, <3>2, <3>3
  <2> QED
    BY <2>1, <2>2
<1>9. CASE ClearGoal(h)
  <2>1. KeepsLoop
    BY <1>9, GoalWriters
  <2>2. (threadRow = Nothing => threadRow' = Nothing) /\ ~WillRest(h)
    BY <1>9 DEF ClearGoal, Store, SetField, PutRow, WillRest
  <2> QED
    BY <1>7, <2>1, <2>2
<1>10. CASE (\E mode \in {"fixed", "dynamic"} : SetLoop(h, mode)) \/ StopLoop(h) \/ MarkDue(h)
  BY <1>10, LoopWriters
<1>11. CASE AckLoopWake(h) \/ StartThreadLoop(h) \/ ScheduleLoopWakeup(h) \/ RestLoop(h)
  BY <1>1, <1>11, LoopResettled DEF AcksAwaited
<1>12. ASSUME NEW old \in BOOLEAN, Reschedule(h, old)
      PROVE  LoopAwake' \/ (KeepsLoop /\ (threadRow = Nothing => threadRow' = Nothing) /\ ~WillRest(h))
  <2>1. KeepsLoop \/ LoopAwake'
    BY <1>12, Rescheduling
  <2>2. (threadRow = Nothing => threadRow' = Nothing) /\ ~WillRest(h)
    BY <1>12 DEF Reschedule, SetField, PutRow, WillRest
  <2> QED
    BY <2>1, <2>2
<1>13. CASE \/ ActivateSkill(h) \/ RefreshActivatedSkills(h) \/ EnsureThreadTitle(h) \/ RenameThread(h)
            \/ PersistTodos(h) \/ DeleteThread(h) \/ Refuse(h)
  <2>1. KeepsLoop \/ threadRow' = Nothing
    BY <1>13, OtherWriters
  <2>2. threadRow = Nothing => threadRow' = Nothing
    BY <1>13 DEF ActivateSkill, RefreshActivatedSkills, EnsureThreadTitle,
       RenameThread, PersistTodos, DeleteThread, Refuse, Store, SetField, PutRow
  <2>3. ~WillRest(h)
    BY <1>6, <1>13 DEF ActivateSkill, RefreshActivatedSkills, EnsureThreadTitle,
       RenameThread, PersistTodos, DeleteThread, Refuse, Store, WillRest
  <2>4. threadRow' = Nothing => LoopAwake'
    BY DEF LoopAwake, LoopOn
  <2> QED
    BY <1>7, <2>1, <2>2, <2>3, <2>4
<1>14. ~(SetGoal(h) \/ AckContinue(h) \/ (\E done \in BOOLEAN : WriteVerdict(h, done)) \/ Judged(h))
  BY <1>6 DEF SetGoal, AckContinue, Store, WriteVerdict, Judged, Willing
<1> QED
  BY <1>7, <1>8, <1>9, <1>10, <1>11, <1>12, <1>13, <1>14 DEF Handle

\* A handler begins: a goal that is set counts as used at once, a loop's prompt is
\* awaited, and the end of a run will look at the loop.
LEMMA EnterKeepsLoop ==
  ASSUME LoopInv, NEW h \in Handlers, NEW o \in Ops, NEW x, Enter(h, o, x), whereAt[h] = "free",
         UNCHANGED <<topic, threadRow>>, used \subseteq used', o = "set goal" => used' \cap Goals # {},
         o = "ack wake" => browser' = "waking",
         browser' # browser => browser = "continuing" \/ (browser = "wake" /\ browser' = "waking"),
         owed' = owed, agentRun' = agentRun \/ o = "finish"
  PROVE  GoalFree' /\ AcksAwaited' /\ LoopFed'
<1>0. RowTypeOK /\ HandlersFit /\ GoalFree /\ AcksAwaited /\ LoopFed
  BY DEF LoopInv, RowInv
<1>1. whereAt'[h] = "arrived" /\ op'[h] = o /\ held'[h] = Nothing /\ op[h] = "none"
  BY <1>0 DEF RowTypeOK, Enter, HandlersFit
<1>2. \A y \in Handlers \ {h} : /\ whereAt'[y] = whereAt[y] /\ op'[y] = op[y] /\ arg'[y] = arg[y]
                               /\ held'[y] = held[y]
  BY <1>0 DEF RowTypeOK, Enter
<1>3. GoalFree'
  <2>1. SUFFICES ASSUME used' \cap Goals = {} PROVE GoalFree'
    BY DEF GoalFree
  <2>2. used \cap Goals = {} /\ o # "set goal"
    BY <2>1
  <2> QED
    BY <1>0, <1>1, <1>2, <2>2 DEF GoalFree
<1>4. AcksAwaited'
  BY <1>0, <1>1, <1>2 DEF AcksAwaited
<1>5. LoopFed'
  <2>1. SUFFICES ASSUME used' \cap Goals = {}, topic \cap RowFaults = {}, ~LoopAwake'
                 PROVE  agentRun' \/ owed' \/ browser' \in {"wake", "waking"} \/ \E y \in Handlers : WillRest(y)'
    BY DEF LoopFed
  <2>2. used \cap Goals = {} /\ ~LoopAwake
    BY <2>1 DEF LoopAwake
  <2>3. browser # "continuing"
    BY <1>0, <2>2 DEF GoalFree
  <2>4. ASSUME NEW y \in Handlers, WillRest(y) PROVE WillRest(y)'
    <3>1. y # h
      BY <1>1, <2>4 DEF WillRest
    <3> QED
      BY <1>2, <2>4, <3>1 DEF WillRest, Willing, LoopOn
  <2>5. agentRun \/ owed \/ browser \in {"wake", "waking"} \/ \E y \in Handlers : WillRest(y)
    BY <1>0, <2>1, <2>2 DEF LoopFed
  <2>6. CASE \E y \in Handlers : WillRest(y)
    BY <2>4, <2>6, Zenon
  <2>7. CASE browser \in {"wake", "waking"}
    BY <2>3, <2>7
  <2>8. CASE owed
    BY <2>8, Zenon
  <2>9. CASE agentRun
    <3>1. agentRun' = agentRun \/ o = "finish"
      OBVIOUS
    <3>2. CASE o = "finish"
      BY <1>1, <3>2 DEF WillRest
    <3>3. CASE agentRun' = agentRun
      BY <2>9, <3>3, Zenon
    <3> QED
      BY <3>1, <3>2, <3>3
  <2> QED
    BY <2>5, <2>6, <2>7, <2>8, <2>9
<1> QED
  BY <1>3, <1>4, <1>5

\* A handler that begins keeps a running loop fed.
LEMMA BeginningKeepsLoop ==
  ASSUME LoopInv, NEW h \in Handlers,
         (\E o \in Ops : Call(h, o)) \/ Fire(h) \/ RunEnds(h) \/ AckGoal(h) \/ AckWake(h)
  PROVE  GoalFree' /\ AcksAwaited' /\ LoopFed'
<1>0. RowTypeOK
  BY DEF LoopInv, RowInv
<1>1. ASSUME NEW o \in Ops, Call(h, o) PROVE GoalFree' /\ AcksAwaited' /\ LoopFed'
  <2>1. PICK x \in Subject(o) : Enter(h, o, x)
          /\ used' = IF x = Nothing THEN used ELSE used \cup ({x} \cap (Goals \cup Loops))
    BY <1>1 DEF Call
  <2>2. used \subseteq used' /\ (o = "set goal" => used' \cap Goals # {})
    BY <2>1, NamesAssumption DEF Subject
  <2>3. o # "ack wake" /\ whereAt[h] = "free" /\ UNCHANGED <<topic, threadRow>> /\ browser' = browser
        /\ owed' = owed /\ agentRun' = agentRun
    BY <1>1 DEF Call, client
  <2> QED
    BY <2>1, <2>2, <2>3, EnterKeepsLoop
<1>2. CASE Fire(h)
  BY <1>2, EnterKeepsLoop DEF Fire, client, Ops, OwnOps
<1>3. CASE RunEnds(h)
  BY <1>3, EnterKeepsLoop DEF RunEnds, Ops, OwnOps
<1>4. CASE AckGoal(h)
  BY <1>4, EnterKeepsLoop DEF AckGoal, Ops, GoalOps
<1>5. CASE AckWake(h)
  BY <1>5, EnterKeepsLoop DEF AckWake, Ops, LoopOps
<1> QED
  BY <1>1, <1>2, <1>3, <1>4, <1>5

\* Runs, the browser, time, a restart and the end of the page.
LEMMA AloneKeepsLoop ==
  ASSUME LoopInv,
         PromptRun \/ Look \/ LookLoop \/ Continue \/ Acked \/ SendPrompt \/ Elapse \/ ServerRestarts \/ Close
           \/ UNCHANGED rowVars
  PROVE  GoalFree' /\ AcksAwaited' /\ LoopFed'
<1>0. RowTypeOK /\ HandlersFit /\ GoalFree /\ AcksAwaited /\ LoopFed
  BY DEF LoopInv, RowInv
<1>1. CASE PromptRun \/ Continue \/ SendPrompt
  <2>1. UNCHANGED <<topic, used, op, arg, whereAt, held>> /\ agentRun' = TRUE
        /\ (threadRow' = threadRow \/ threadRow' = Fresh)
        /\ browser' \in {browser, "continuing", "idle"}
    BY <1>0, <1>1 DEF PromptRun, Continue, SendPrompt, StartRun, slots
  <2>2. Fresh.goal = Nothing
    BY DEF Fresh
  <2>3. Continue => browser = "continue"
    BY DEF Continue
  <2>4. ~Continue => browser' \in {browser, "idle"}
    BY <1>1 DEF PromptRun, SendPrompt
  <2>5. GoalFree'
    BY <1>0, <2>1, <2>2, <2>3, <2>4 DEF GoalFree
  <2>6. AcksAwaited'
    BY <1>0, <1>1, <2>1 DEF AcksAwaited, PromptRun, Continue, SendPrompt, Waited
  <2> QED
    BY <2>1, <2>5, <2>6 DEF LoopFed
<1>2. CASE Look \/ LookLoop \/ Acked
  <2>1. UNCHANGED <<topic, threadRow, used, op, arg, whereAt, held, agentRun, owed>>
        /\ browser \in {"idle", "no goal", "acking"}
        /\ (browser' = "continue" => GoalOn(threadRow)) /\ browser' \in {"continue", "no goal", "wake", "idle"}
    BY <1>2 DEF Look, LookLoop, Acked, slots
  <2>2. GoalFree'
    BY <1>0, <2>1 DEF GoalFree, GoalOn, Active
  <2>3. AcksAwaited'
    BY <1>0, <2>1 DEF AcksAwaited
  <2>4. LoopFed'
    BY <1>0, <2>1 DEF LoopFed, LoopAwake, WillRest, Willing
  <2> QED
    BY <2>2, <2>3, <2>4
<1>3. CASE Elapse
  <2>1. UNCHANGED <<topic, used, op, arg, whereAt, held, agentRun, owed, browser>>
    BY <1>3 DEF Elapse, slots, client
  <2>2. /\ threadRow # Nothing /\ threadRow'.goal = threadRow.goal /\ LoopAwake'
    BY <1>0, <1>3, Elapsed DEF SameButWake, LoopAwake
  <2> QED
    BY <1>0, <2>1, <2>2 DEF GoalFree, AcksAwaited, LoopFed
<1>4. CASE ServerRestarts \/ Close
  <2>1. topic' = topic /\ topic \cap RowFaults # {} /\ UNCHANGED <<used, threadRow>>
        /\ browser' \in {browser, "idle"}
        /\ \A h \in Handlers : (op'[h] = op[h] /\ whereAt'[h] = whereAt[h] /\ held'[h] = held[h])
                               \/ (op'[h] = "none" /\ whereAt'[h] = "free" /\ held'[h] = Nothing)
    BY <1>4 DEF ServerRestarts, Close, RowFaults, slots
  <2> QED
    BY <1>0, <2>1 DEF GoalFree, AcksAwaited, LoopFed
<1>5. CASE UNCHANGED rowVars
  BY <1>0, <1>5 DEF rowVars, slots, client, GoalFree, AcksAwaited, LoopFed, LoopAwake, WillRest, Willing
<1> QED
  BY <1>1, <1>2, <1>3, <1>4, <1>5

\* Every step keeps the loop fed.
LEMMA LoopStep ==
  ASSUME LoopInv, [RowNext]_rowVars
  PROVE  LoopInv'
<1>1. RowInv'
  BY RowStep DEF LoopInv
<1>2. ASSUME NEW h \in Handlers, Handle(h) PROVE GoalFree' /\ AcksAwaited' /\ LoopFed'
  <2>1. RowInv /\ GoalFree /\ AcksAwaited /\ LoopFed
    BY DEF LoopInv
  <2>2. GoalFree' /\ UNCHANGED <<used, topic>> /\ UNCHANGED browser
        /\ (\A x \in Handlers \ {h} : op'[x] = op[x]) /\ (op'[h] = "none" \/ op'[h] = op[h])
    BY <1>2, <2>1, WritersKeepGoalFree
  <2>3. AcksAwaited'
    BY <2>1, <2>2 DEF AcksAwaited
  <2>4. LoopFed'
    BY <1>2, <2>1, <2>2, WritersKeepLoopFed DEF LoopFed
  <2> QED
    BY <2>2, <2>3, <2>4
<1>3. ASSUME NEW h \in Handlers, (\E o \in Ops : Call(h, o)) \/ Fire(h) \/ RunEnds(h) \/ AckGoal(h) \/ AckWake(h)
      PROVE  GoalFree' /\ AcksAwaited' /\ LoopFed'
  BY <1>3, BeginningKeepsLoop
<1>4. GoalFree' /\ AcksAwaited' /\ LoopFed'
  BY <1>2, <1>3, AloneKeepsLoop DEF RowNext
<1> QED
  BY <1>1, <1>4 DEF LoopInv

\* An active loop has a time at which it wakes, or a run, a first turn, a browser that
\* is waking it or the end of a run is about to give it one (loop-scheduler.ts, the end
\* of a run in chat.ts, use-composer-settings.ts).
THEOREM LoopsKeepGoing == RowSpec => []LoopKeepsGoing
<1>1. RowInit => LoopInv
  BY DEF RowInit, LoopInv, RowInv, RowTypeOK, HandlersFit, AsRead, Places, BrowserSteps, GoalFree, AcksAwaited,
     LoopFed, LoopAwake, LoopOn
<1>2. LoopInv /\ [RowNext]_rowVars => LoopInv'
  BY LoopStep
<1>3. LoopInv => LoopKeepsGoing
  <2>1. ASSUME LoopInv, LoopOn(threadRow), used \cap Goals = {}, topic \cap RowFaults = {}
        PROVE  threadRow.loop.wake # "none" \/ OnItsWay
    BY <2>1 DEF LoopInv, LoopFed, LoopAwake, OnItsWay, WillRest
  <2> QED
    BY <2>1 DEF LoopKeepsGoing
<1> QED
  BY <1>1, <1>2, <1>3, PTL DEF RowSpec

-----------------------------------------------------------------------------
(* The modes of the composer. *)
\* A message is sent with the plan mode of the screen; a loop is only posted off; a fetch asks.
Requests ==
  {c \in [what : {"get", "put", "send"}, of : Conversations, mode : Modes, on : BOOLEAN,
          served : BOOLEAN, got : BOOLEAN, stale : BOOLEAN, old : BOOLEAN] :
     /\ c.what = "send" => c.mode = "plan" /\ ~c.served
     /\ c.mode = "loop" \/ c.what = "get" => ~c.on}

ModesTypeOK ==
  /\ front \in Conversations /\ followed \subseteq Modes /\ sure \subseteq Modes
  /\ modeRow \in [Conversations -> [Modes -> BOOLEAN]]
  /\ modeCache \in [Conversations -> [Modes -> BOOLEAN]]
  /\ chatSettings \in [Modes -> BOOLEAN]
  /\ fetches \subseteq Requests

\* What the composer switches on excludes the rest, but for what an answer switched on.
SwitchedApart == (byHand => OneAtMost) /\ ~(chatSettings.goal /\ chatSettings.loop)

\* An answer that no write came after says what the row says, but for a refused goal.
AnswersFresh ==
  \A c \in fetches : c.served /\ ~c.stale =>
    (c.got <=> modeRow[c.of][c.mode]) \/ (c.what = "put" /\ c.mode = "goal" /\ c.on /\ ~c.got)

IsPut(c, t, m) == c.what # "get" /\ c.of = t /\ c.mode = m

\* A mode the composer is sure of: the newest switch under way says what the chip says, or
\* there is none and the row does; and no older switch will be served after it.
SureOf(m) ==
  /\ \A c \in fetches : IsPut(c, front, m) /\ ~c.old =>
       /\ (c.on <=> Chip(m))
       /\ c.served => (modeRow[front][m] <=> c.on)
       /\ ~(m = "goal" /\ c.on)
  /\ (\A c \in fetches : IsPut(c, front, m) => c.old) => (modeRow[front][m] <=> Chip(m))
  /\ \A d \in fetches : IsPut(d, front, m) /\ d.old /\ ~d.served =>
       /\ \E c \in fetches : IsPut(c, front, m) /\ ~c.old
       /\ \A c \in fetches : IsPut(c, front, m) /\ ~c.old => ~c.served

SureIsTrue == \A m \in sure : SureOf(m)

ModesInv == ModesTypeOK /\ SwitchedApart /\ AnswersFresh /\ SureIsTrue

LEMMA ModesFollow == ModesInv => ModesAreTrue
<1> SUFFICES ASSUME ModesInv PROVE ModesAreTrue
  OBVIOUS
<1>1. ModesTypeOK /\ SwitchedApart /\ SureIsTrue
  BY DEF ModesInv
<1>2. ASSUME NEW m \in sure PROVE Chip(m) = Coming(m)
  <2>1. m \in Modes /\ SureOf(m)
    BY <1>1, <1>2 DEF ModesTypeOK, SureIsTrue
  <2>2. Chip(m) \in BOOLEAN /\ modeRow[front][m] \in BOOLEAN
    BY <1>1, <2>1 DEF ModesTypeOK, Chip, Modes
  <2> DEFINE newest == {c \in Puts(front, m) : ~c.old}
  <2>3. \A c \in fetches : c \in newest <=> IsPut(c, front, m) /\ ~c.old
    BY DEF Puts, Same, IsPut
  <2>4. newest \subseteq fetches
    BY DEF Puts
  <2>5. CASE newest = {}
    <3>1. \A c \in fetches : IsPut(c, front, m) => c.old
      BY <2>3, <2>5
    <3>2. modeRow[front][m] <=> Chip(m)
      BY <2>1, <3>1 DEF SureOf
    <3>3. modeRow[front][m] = Chip(m)
      BY <2>2, <3>2
    <3> QED BY <2>5, <3>3 DEF Coming
  <2>6. CASE newest # {}
    <3>1. \A c \in newest : c.on <=> Chip(m)
      BY <2>1, <2>3, <2>4 DEF SureOf
    <3>2. Chip(m) <=> \A c \in newest : c.on
      BY <2>6, <3>1
    <3>3. Coming(m) = (\A c \in newest : c.on)
      BY <2>6 DEF Coming
    <3> QED BY <2>2, <3>2, <3>3
  <2> QED BY <2>5, <2>6
<1> QED BY <1>1, <1>2 DEF ModesAreTrue, SwitchedApart

-----------------------------------------------------------------------------
\* One request after another was sent, or a row changed.
Like(x, c) == /\ x.what = c.what /\ x.of = c.of /\ x.mode = c.mode
              /\ (x.on <=> c.on) /\ (x.served <=> c.served) /\ (x.got <=> c.got)

LEMMA RequestFields ==
  ASSUME NEW c \in Requests
  PROVE  /\ c.what \in {"get", "put", "send"} /\ c.of \in Conversations /\ c.mode \in Modes
         /\ {c.on, c.served, c.got, c.stale, c.old} \subseteq BOOLEAN
         /\ c.what = "send" => c.mode = "plan" /\ ~c.served
         /\ c.mode = "loop" \/ c.what = "get" => ~c.on
  BY DEF Requests

LEMMA FetchIs ==
  ASSUME NEW what \in {"get", "put", "send"}, NEW t \in Conversations, NEW m \in Modes, NEW on \in BOOLEAN,
         what = "send" => m = "plan", m = "loop" \/ what = "get" => ~on
  PROVE  LET f == Fetch(what, t, m, on)
         IN /\ f \in Requests /\ f.what = what /\ f.of = t /\ f.mode = m /\ (f.on <=> on)
            /\ ~f.served /\ ~f.got /\ ~f.stale /\ ~f.old
  BY DEF Fetch, Requests

LEMMA GetsAre ==
  ASSUME ModesTypeOK, NEW t \in Conversations
  PROVE  \A n \in fetchModes(t) : n \in Requests /\ n.what = "get" /\ ~n.served
<1> SUFFICES ASSUME NEW n \in fetchModes(t) PROVE n \in Requests /\ n.what = "get" /\ ~n.served
  OBVIOUS
<1>1. PICK m \in Modes : n = Fetch("get", t, m, FALSE)
  BY DEF fetchModes, ModesTypeOK
<1>2. FALSE \in BOOLEAN /\ "get" \in {"get", "put", "send"}
  OBVIOUS
<1> QED BY <1>1, <1>2 DEF Fetch, Requests

LEMMA MadeOld ==
  ASSUME NEW c \in Requests, NEW b \in BOOLEAN
  PROVE  LET x == [c EXCEPT !.old = c.old \/ b]
         IN x \in Requests /\ Like(x, c) /\ (x.stale <=> c.stale) /\ (x.old <=> c.old \/ b)
<1>1. (c.old \/ b) \in BOOLEAN
  OBVIOUS
<1>2. PICK o \in BOOLEAN : o = (c.old \/ b)
  BY <1>1
<1>3. PICK x : x = [c EXCEPT !.old = o]
  OBVIOUS
<1>4. x \in Requests /\ Like(x, c) /\ (x.stale <=> c.stale) /\ x.old = o
  BY <1>3 DEF Requests, Like
<1> QED BY <1>2, <1>3, <1>4

LEMMA MadeStale ==
  ASSUME NEW c \in Requests, NEW b \in BOOLEAN
  PROVE  LET x == [c EXCEPT !.stale = c.stale \/ b]
         IN x \in Requests /\ Like(x, c) /\ (x.old <=> c.old) /\ (x.stale <=> c.stale \/ b)
<1>2. PICK o \in BOOLEAN : o = (c.stale \/ b)
  OBVIOUS
<1>3. PICK x : x = [c EXCEPT !.stale = o]
  OBVIOUS
<1>4. x \in Requests /\ Like(x, c) /\ (x.old <=> c.old) /\ x.stale = o
  BY <1>3 DEF Requests, Like
<1> QED BY <1>2, <1>3, <1>4

\* What is on its way after some requests were sent.
SendsDone(left, new) ==
  /\ fetches' \subseteq Requests /\ new \subseteq fetches'
  /\ \A x \in fetches' : x \in new \/ \E c \in left :
       /\ Like(x, c) /\ (x.stale <=> c.stale)
       /\ (x.old <=> c.old \/ (c.what # "get" /\ \E n \in new : IsPut(n, c.of, c.mode)))
  /\ \A c \in left : \E x \in fetches' :
       /\ Like(x, c) /\ (x.stale <=> c.stale)
       /\ (x.old <=> c.old \/ (c.what # "get" /\ \E n \in new : IsPut(n, c.of, c.mode)))

LEMMA SendsFacts ==
  ASSUME NEW left \in SUBSET Requests, NEW new \in SUBSET Requests, Sends(left, new)
  PROVE  SendsDone(left, new)
<1> DEFINE late(c) == c.what # "get" /\ \E n \in new : n.what # "get" /\ Same(n, c.of, c.mode)
           image(c) == [c EXCEPT !.old = c.old \/ late(c)]
<1>1. fetches' = new \cup {image(c) : c \in left}
  BY DEF Sends
<1>2. \A c \in left : /\ image(c) \in Requests /\ Like(image(c), c) /\ (image(c).stale <=> c.stale)
                      /\ (image(c).old <=> c.old \/ late(c))
  <2> SUFFICES ASSUME NEW c \in left
               PROVE  /\ image(c) \in Requests /\ Like(image(c), c) /\ (image(c).stale <=> c.stale)
                      /\ (image(c).old <=> c.old \/ late(c))
    OBVIOUS
  <2>1. c \in Requests /\ late(c) \in BOOLEAN
    OBVIOUS
  <2> HIDE DEF late
  <2> QED BY <2>1, MadeOld
<1>3. \A c \in left : late(c) <=> c.what # "get" /\ \E n \in new : IsPut(n, c.of, c.mode)
  BY DEF Same, IsPut
<1> HIDE DEF image, late
<1> QED BY <1>1, <1>2, <1>3 DEF SendsDone

\* What is on its way after the mode of a conversation was written.
OvertakenAre(over, t, mode) ==
  /\ over \subseteq Requests
  /\ \A x \in over : \E c \in fetches :
       /\ Like(x, c) /\ (x.old <=> c.old) /\ (x.stale <=> c.stale \/ (c.served /\ Same(c, t, mode)))
       /\ ~c.served => x = c
  /\ \A c \in fetches : \E x \in over :
       /\ Like(x, c) /\ (x.old <=> c.old) /\ (x.stale <=> c.stale \/ (c.served /\ Same(c, t, mode)))
       /\ ~c.served => x = c

LEMMA OvertakenFacts ==
  ASSUME fetches \subseteq Requests, NEW t, NEW mode
  PROVE  OvertakenAre(Overtaken(t, mode), t, mode)
<1> DEFINE hit(c) == c.served /\ Same(c, t, mode)
           image(c) == [c EXCEPT !.stale = c.stale \/ hit(c)]
<1>1. Overtaken(t, mode) = {image(c) : c \in fetches}
  BY DEF Overtaken
<1>2. \A c \in fetches : /\ image(c) \in Requests /\ Like(image(c), c) /\ (image(c).old <=> c.old)
                         /\ (image(c).stale <=> c.stale \/ hit(c))
  <2> SUFFICES ASSUME NEW c \in fetches
               PROVE  /\ image(c) \in Requests /\ Like(image(c), c) /\ (image(c).old <=> c.old)
                      /\ (image(c).stale <=> c.stale \/ hit(c))
    OBVIOUS
  <2>1. c \in Requests /\ hit(c) \in BOOLEAN
    OBVIOUS
  <2> HIDE DEF hit
  <2> QED BY <2>1, MadeStale
<1>3. \A c \in fetches : hit(c) <=> c.served /\ Same(c, t, mode)
  OBVIOUS
<1>4. \A c \in fetches : ~c.served => image(c) = c
  <2> SUFFICES ASSUME NEW c \in fetches, ~c.served PROVE image(c) = c
    OBVIOUS
  <2>1. c \in Requests /\ (c.stale \/ hit(c)) = c.stale
    BY DEF Requests
  <2> QED BY <2>1 DEF Requests
<1> HIDE DEF image, hit
<1> QED BY <1>1, <1>2, <1>3, <1>4 DEF OvertakenAre

-----------------------------------------------------------------------------
\* The switches under way for the mode on the screen are what they were.
PutsKept(m) ==
  /\ \A x \in fetches' : IsPut(x, front, m) =>
       \E c \in fetches : Like(x, c) /\ (x.old <=> c.old)
  /\ \A c \in fetches : IsPut(c, front, m) =>
       \E x \in fetches' : Like(x, c) /\ (x.old <=> c.old)

LEMMA SureFrame ==
  ASSUME NEW m \in Modes, SureOf(m), PutsKept(m), front' = front,
         modeRow'[front][m] <=> modeRow[front][m], Chip(m)' <=> Chip(m)
  PROVE  SureOf(m)'
<1>1. \A x \in fetches' : IsPut(x, front, m) =>
        \E c \in fetches : IsPut(c, front, m) /\ (x.on <=> c.on) /\ (x.served <=> c.served) /\ (x.old <=> c.old)
  BY DEF PutsKept, Like, IsPut
<1>2. \A c \in fetches : IsPut(c, front, m) =>
        \E x \in fetches' : IsPut(x, front, m) /\ (x.on <=> c.on) /\ (x.served <=> c.served) /\ (x.old <=> c.old)
  BY DEF PutsKept, Like, IsPut
<1>3. /\ \A c \in fetches' : IsPut(c, front, m) /\ ~c.old =>
           (c.on <=> Chip(m)) /\ (c.served => (modeRow[front][m] <=> c.on)) /\ ~(m = "goal" /\ c.on)
      /\ (\A c \in fetches' : IsPut(c, front, m) => c.old) => (modeRow[front][m] <=> Chip(m))
  BY <1>1, <1>2 DEF SureOf
<1>4. \A d \in fetches' : IsPut(d, front, m) /\ d.old /\ ~d.served =>
       /\ \E c \in fetches' : IsPut(c, front, m) /\ ~c.old
       /\ \A c \in fetches' : IsPut(c, front, m) /\ ~c.old => ~c.served
  <2> SUFFICES ASSUME NEW d \in fetches', IsPut(d, front, m), d.old, ~d.served
               PROVE  /\ \E c \in fetches' : IsPut(c, front, m) /\ ~c.old
                      /\ \A c \in fetches' : IsPut(c, front, m) /\ ~c.old => ~c.served
    OBVIOUS
  <2>1. PICK e \in fetches : IsPut(e, front, m) /\ e.old /\ ~e.served
    BY <1>1
  <2>2. /\ \E c \in fetches : IsPut(c, front, m) /\ ~c.old
        /\ \A c \in fetches : IsPut(c, front, m) /\ ~c.old => ~c.served
    BY <2>1 DEF SureOf
  <2> QED BY <2>2, <1>1, <1>2
<1> QED BY <1>3, <1>4 DEF SureOf

LEMMA ChipIs ==
  ASSUME ModesTypeOK, NEW m \in Modes
  PROVE  Chip(m) \in BOOLEAN /\ modeRow[front][m] \in BOOLEAN
  BY DEF ModesTypeOK, Chip, Modes

LEMMA SwitchKeeps ==
  ASSUME ModesInv, NEW offs \in SUBSET Modes, NEW plan \in SUBSET {"plan"}, NEW pending \in SUBSET {"goal", "loop"},
         plan \cap offs = {}, pending \cap offs = {},
         plan \cup pending # {} => \E keep \in Modes : offs = Modes \ {keep} /\ plan \cup pending = {keep},
         Switch(offs, plan, pending)
  PROVE  ModesInv'
<1>1. ModesTypeOK /\ SwitchedApart /\ AnswersFresh /\ SureIsTrue
  BY DEF ModesInv
<1> DEFINE new == Posted(offs, FALSE) \cup Posted(plan, TRUE)
<1>2. /\ chatSettings' = [m \in Modes |-> m \in pending \cup plan \/ (chatSettings[m] /\ m \notin offs)]
      /\ modeCache' = [modeCache EXCEPT ![front] =
           [m \in Modes |-> m \in plan \/ (@[m] /\ m \notin offs \ {"loop"})]]
      /\ Sends(fetches, new)
      /\ sure' = (sure \cup offs \cup plan) \ (offs \cap {"loop"})
      /\ byHand' = (byHand \/ plan \cup pending # {})
      /\ UNCHANGED <<followed, modeRow, front>>
  BY DEF Switch
<1>3. /\ front \in Conversations /\ fetches \subseteq Requests /\ sure \subseteq Modes
      /\ chatSettings \in [Modes -> BOOLEAN] /\ modeCache \in [Conversations -> [Modes -> BOOLEAN]]
  BY <1>1 DEF ModesTypeOK
<1>4. \A n \in new : /\ n \in Requests /\ IsPut(n, front, n.mode) /\ ~n.served /\ ~n.old /\ n.mode \in offs \cup plan
                     /\ (n.on <=> n.mode \in plan)
  <2> SUFFICES ASSUME NEW n \in new
               PROVE  /\ n \in Requests /\ IsPut(n, front, n.mode) /\ ~n.served /\ ~n.old /\ n.mode \in offs \cup plan
                      /\ (n.on <=> n.mode \in plan)
    OBVIOUS
  <2>1. CASE n \in Posted(offs, FALSE)
    <3>1. PICK m \in offs : n = Fetch("put", front, m, FALSE)
      BY <2>1 DEF Posted
    <3>2. m \in Modes /\ m \notin plan /\ FALSE \in BOOLEAN /\ "put" \in {"get", "put", "send"}
      OBVIOUS
    <3>3. n \in Requests /\ n.what = "put" /\ n.of = front /\ n.mode = m /\ ~n.on /\ ~n.served /\ ~n.old
      BY <1>3, <3>1, <3>2 DEF Fetch, Requests
    <3> QED BY <3>2, <3>3 DEF IsPut
  <2>2. CASE n \in Posted(plan, TRUE)
    <3>1. PICK m \in plan : n = Fetch("put", front, m, TRUE)
      BY <2>2 DEF Posted
    <3>2. m = "plan" /\ m \in Modes /\ TRUE \in BOOLEAN /\ "put" \in {"get", "put", "send"}
      BY DEF Modes
    <3>3. n \in Requests /\ n.what = "put" /\ n.of = front /\ n.mode = m /\ n.on /\ ~n.served /\ ~n.old
      BY <1>3, <3>1, <3>2 DEF Fetch, Requests
    <3> QED BY <3>2, <3>3 DEF IsPut
  <2> QED BY <2>1, <2>2
<1>5. \A m \in offs \cup plan : \E n \in new : IsPut(n, front, m)
  <2> SUFFICES ASSUME NEW m \in offs \cup plan PROVE \E n \in new : IsPut(n, front, m)
    OBVIOUS
  <2>1. Fetch("put", front, m, FALSE).what = "put" /\ Fetch("put", front, m, FALSE).of = front /\ Fetch("put", front, m, FALSE).mode = m
        /\ Fetch("put", front, m, TRUE).what = "put" /\ Fetch("put", front, m, TRUE).of = front /\ Fetch("put", front, m, TRUE).mode = m
    BY DEF Fetch
  <2>2. CASE m \in offs
    <3>1. Fetch("put", front, m, FALSE) \in new
      BY <2>2 DEF Posted
    <3> QED BY <2>1, <3>1 DEF IsPut
  <2>3. CASE m \in plan
    <3>1. Fetch("put", front, m, TRUE) \in new
      BY <2>3 DEF Posted
    <3> QED BY <2>1, <3>1 DEF IsPut
  <2> QED BY <2>2, <2>3
<1> HIDE DEF new
<1>6. SendsDone(fetches, new)
  BY <1>2, <1>3, <1>4, SendsFacts
<1>7. /\ chatSettings' \in [Modes -> BOOLEAN] /\ modeCache' \in [Conversations -> [Modes -> BOOLEAN]]
      /\ \A m \in Modes : /\ (chatSettings'[m] <=> m \in pending \cup plan \/ (chatSettings[m] /\ m \notin offs))
                           /\ (modeCache'[front][m] <=> m \in plan \/ (modeCache[front][m] /\ m \notin offs \ {"loop"}))
  <2>1. PICK shown : shown = [m \in Modes |-> m \in plan \/ (modeCache[front][m] /\ m \notin offs \ {"loop"})]
    OBVIOUS
  <2>2. shown \in [Modes -> BOOLEAN] /\ modeCache' = [modeCache EXCEPT ![front] = shown]
    BY <1>2, <2>1
  <2>3. modeCache' \in [Conversations -> [Modes -> BOOLEAN]] /\ modeCache'[front] = shown
    BY <1>3, <2>2
  <2>4. chatSettings' \in [Modes -> BOOLEAN]
    BY <1>2
  <2>5. \A m \in Modes : shown[m] <=> m \in plan \/ (modeCache[front][m] /\ m \notin offs \ {"loop"})
    BY <2>1
  <2>6. \A m \in Modes : chatSettings'[m] <=> m \in pending \cup plan \/ (chatSettings[m] /\ m \notin offs)
    BY <1>2
  <2> QED BY <2>3, <2>4, <2>5, <2>6
<1>8. ModesTypeOK'
  <2>1. sure' \subseteq Modes
    BY <1>2, <1>3 DEF Modes
  <2> QED BY <1>1, <1>2, <1>6, <1>7, <2>1 DEF ModesTypeOK, SendsDone
<1>9. SwitchedApart'
  <2>1. \A m \in Modes : chatSettings'[m] => m \in plan \cup pending \/ (chatSettings[m] /\ m \notin offs)
    BY <1>7
  <2>2. CASE plan \cup pending = {}
    <3>1. \A m \in Modes : chatSettings'[m] => chatSettings[m]
      BY <2>1, <2>2
    <3> QED BY <1>1, <1>2, <2>2, <3>1 DEF SwitchedApart, OneAtMost, Modes
  <2>3. CASE plan \cup pending # {}
    <3>1. PICK keep \in Modes : offs = Modes \ {keep} /\ plan \cup pending = {keep}
      BY <2>3
    <3>2. \A m \in Modes : chatSettings'[m] => m = keep
      BY <2>1, <3>1
    <3> QED BY <3>2 DEF SwitchedApart, OneAtMost, Modes
  <2> QED BY <2>2, <2>3
<1>10. AnswersFresh'
  BY <1>1, <1>2, <1>4, <1>6 DEF AnswersFresh, SendsDone, Like
<1>11. ASSUME NEW m \in sure' PROVE SureOf(m)'
  <2>1. m \in Modes /\ ~(m = "loop" /\ m \in offs)
    BY <1>2, <1>8 DEF ModesTypeOK
  <2>2. Chip(m)' <=> IF m = "plan" THEN chatSettings'["plan"] ELSE modeCache'[front][m]
    BY <1>2 DEF Chip
  <2>3. CASE m \in offs \cup plan
    <3>1. Chip(m)' <=> m \in plan
      <4>1. m = "plan" => (chatSettings'["plan"] <=> m \in plan)
        BY <1>7, <2>1, <2>3
      <4>2. m # "plan" => (modeCache'[front][m] <=> m \in plan)
        BY <1>7, <2>1, <2>3
      <4> QED BY <2>2, <4>1, <4>2
    <3>2. \A x \in fetches' : IsPut(x, front, m) /\ ~x.old => x \in new
      BY <1>5, <1>6, <2>3 DEF SendsDone, Like, IsPut
    <3>3. \E x \in fetches' : IsPut(x, front, m) /\ ~x.old
      BY <1>4, <1>5, <1>6, <2>3 DEF SendsDone
    <3>4. \A x \in new : IsPut(x, front, m) => (x.on <=> m \in plan) /\ ~x.served
      BY <1>4 DEF IsPut
    <3>5. m = "goal" => m \notin plan
      OBVIOUS
    <3> QED BY <1>2, <3>1, <3>2, <3>3, <3>4, <3>5 DEF SureOf
  <2>4. CASE m \notin offs \cup plan
    <3>1. m \in sure /\ SureOf(m)
      BY <1>1, <1>2, <2>4 DEF SureIsTrue
    <3>2. PutsKept(m)
      <4>1. \A n \in new : ~IsPut(n, front, m)
        BY <1>4, <2>4 DEF IsPut
      <4> QED BY <1>6, <4>1 DEF PutsKept, SendsDone, Like, IsPut
    <3>3. Chip(m)' <=> Chip(m)
      <4>1. m = "plan" => (chatSettings'["plan"] <=> chatSettings["plan"])
        BY <1>7, <2>1, <2>4
      <4>2. m # "plan" => (modeCache'[front][m] <=> modeCache[front][m])
        BY <1>7, <2>1, <2>4
      <4> QED BY <2>2, <4>1, <4>2 DEF Chip
    <3> QED BY <1>2, <2>1, <3>1, <3>2, <3>3, SureFrame
  <2> QED BY <2>3, <2>4
<1> QED BY <1>8, <1>9, <1>10, <1>11 DEF ModesInv, SureIsTrue

LEMMA TogglesKeep ==
  ASSUME ModesInv, ComposerPlusMenu \/ ComposerSlashMenu \/ (\E m \in Modes : RemoveChip(m))
  PROVE  ModesInv'
<1>1. \A m \in Modes : Switch({m}, {}, {}) => ModesInv'
  <2> SUFFICES ASSUME NEW m \in Modes, Switch({m}, {}, {}) PROVE ModesInv'
    OBVIOUS
  <2>1. {m} \in SUBSET Modes /\ {} \in SUBSET {"plan"} /\ {} \in SUBSET {"goal", "loop"}
    OBVIOUS
  <2>2. {} \cap {m} = {} /\ ~({} \cup {} # {})
    OBVIOUS
  <2> HIDE DEF ModesInv
  <2> QED BY <2>1, <2>2, SwitchKeeps
<1>2. \A m \in {"goal", "loop"} : Switch(Modes \ {m}, {}, {m}) => ModesInv'
  <2> SUFFICES ASSUME NEW m \in {"goal", "loop"}, Switch(Modes \ {m}, {}, {m}) PROVE ModesInv'
    OBVIOUS
  <2>1. Modes \ {m} \in SUBSET Modes /\ {} \in SUBSET {"plan"} /\ {m} \in SUBSET {"goal", "loop"} /\ m \in Modes
    BY DEF Modes
  <2>2. {} \cap (Modes \ {m}) = {} /\ {m} \cap (Modes \ {m}) = {} /\ {} \cup {m} = {m}
    OBVIOUS
  <2> QED BY <2>1, <2>2, SwitchKeeps
<1>3. Switch(Modes \ {"plan"}, {"plan"}, {}) => ModesInv'
  <2> SUFFICES ASSUME Switch(Modes \ {"plan"}, {"plan"}, {}) PROVE ModesInv'
    OBVIOUS
  <2>1. Modes \ {"plan"} \in SUBSET Modes /\ {"plan"} \in SUBSET {"plan"} /\ {} \in SUBSET {"goal", "loop"} /\ "plan" \in Modes
    BY DEF Modes
  <2>2. {"plan"} \cap (Modes \ {"plan"}) = {} /\ {} \cap (Modes \ {"plan"}) = {} /\ {"plan"} \cup {} = {"plan"}
    OBVIOUS
  <2> QED BY <2>1, <2>2, SwitchKeeps
<1>4. \A on : setPlanMode(on) => ModesInv'
  <2>1. "plan" \in Modes
    BY DEF Modes
  <2> QED BY <1>1, <1>3, <2>1 DEF setPlanMode, clearOtherComposerModes
<1>5. \A m \in {"goal", "loop"} : toggle(m) => ModesInv'
  BY <1>1, <1>2 DEF toggle, clearOtherComposerModes, Modes
<1>6. CASE \E m \in Modes : RemoveChip(m)
  BY <1>1, <1>6 DEF RemoveChip
<1>7. CASE ComposerPlusMenu
  BY <1>4, <1>5, <1>7 DEF ComposerPlusMenu
<1>8. CASE ComposerSlashMenu
  BY <1>4, <1>5, <1>8 DEF ComposerSlashMenu
<1> QED BY <1>6, <1>7, <1>8

-----------------------------------------------------------------------------
\* The switches of a mode on the screen, when a request is gone.
DropDone(c, m) ==
  /\ \A x \in fetches' : IsPut(x, front, m) =>
       \E d \in fetches : d # c /\ Like(x, d) /\ (x.old <=> d.old)
  /\ \A d \in fetches : d # c /\ IsPut(d, front, m) =>
       \E x \in fetches' : Like(x, d) /\ (x.old <=> d.old)

\* A switch that was served is forgotten.
LEMMA SureDrop ==
  ASSUME NEW m \in Modes, NEW c \in fetches, SureOf(m), DropDone(c, m), c.served \/ ~IsPut(c, front, m),
         front' = front, (modeRow[front][m])' <=> modeRow[front][m], Chip(m)' <=> Chip(m)
  PROVE  SureOf(m)'
<1>1. \A x \in fetches' : IsPut(x, front, m) =>
        \E d \in fetches : d # c /\ IsPut(d, front, m) /\ (x.on <=> d.on) /\ (x.served <=> d.served) /\ (x.old <=> d.old)
  BY DEF DropDone, Like, IsPut
<1>2. \A d \in fetches : d # c /\ IsPut(d, front, m) =>
        \E x \in fetches' : IsPut(x, front, m) /\ (x.on <=> d.on) /\ (x.served <=> d.served) /\ (x.old <=> d.old)
  BY DEF DropDone, Like, IsPut
<1>3. \A x \in fetches' : IsPut(x, front, m) /\ ~x.old =>
           (x.on <=> Chip(m)) /\ (x.served => (modeRow[front][m] <=> x.on)) /\ ~(m = "goal" /\ x.on)
  BY <1>1 DEF SureOf
<1>4. (\A x \in fetches' : IsPut(x, front, m) => x.old) => (modeRow[front][m] <=> Chip(m))
  <2> SUFFICES ASSUME \A x \in fetches' : IsPut(x, front, m) => x.old PROVE modeRow[front][m] <=> Chip(m)
    OBVIOUS
  <2>1. \A d \in fetches : d # c /\ IsPut(d, front, m) => d.old
    BY <1>2
  <2>2. CASE IsPut(c, front, m) /\ ~c.old
    BY <2>2 DEF SureOf
  <2>3. CASE ~(IsPut(c, front, m) /\ ~c.old)
    BY <2>1, <2>3 DEF SureOf
  <2> QED BY <2>2, <2>3
<1>5. \A d \in fetches' : IsPut(d, front, m) /\ d.old /\ ~d.served =>
       /\ \E x \in fetches' : IsPut(x, front, m) /\ ~x.old
       /\ \A x \in fetches' : IsPut(x, front, m) /\ ~x.old => ~x.served
  <2> SUFFICES ASSUME NEW d \in fetches', IsPut(d, front, m), d.old, ~d.served
               PROVE  /\ \E x \in fetches' : IsPut(x, front, m) /\ ~x.old
                      /\ \A x \in fetches' : IsPut(x, front, m) /\ ~x.old => ~x.served
    OBVIOUS
  <2>1. PICK e \in fetches : IsPut(e, front, m) /\ e.old /\ ~e.served
    BY <1>1
  <2>2. /\ \E x \in fetches : IsPut(x, front, m) /\ ~x.old
        /\ \A x \in fetches : IsPut(x, front, m) /\ ~x.old => ~x.served
    BY <2>1 DEF SureOf
  <2> QED BY <2>2, <1>1, <1>2
<1> QED BY <1>3, <1>4, <1>5 DEF SureOf

\* A switch is sent that says what the chip says.
LEMMA SureSent ==
  ASSUME NEW m \in Modes, NEW left, NEW new, SendsDone(left, new), front' = front,
         \E n \in new : IsPut(n, front, m),
         \A n \in new : IsPut(n, front, m) => (n.on <=> Chip(m)') /\ ~n.served /\ ~n.old /\ ~(m = "goal" /\ n.on)
  PROVE  SureOf(m)'
<1>1. \A x \in fetches' : IsPut(x, front, m) /\ ~x.old => x \in new
  BY DEF SendsDone, Like, IsPut
<1>2. \E x \in fetches' : IsPut(x, front, m) /\ ~x.old
  BY DEF SendsDone
<1>3. \A x \in new : IsPut(x, front, m) => (x.on <=> Chip(m)') /\ ~x.served /\ ~(m = "goal" /\ x.on)
  OBVIOUS
<1> QED BY <1>1, <1>2, <1>3 DEF SureOf

\* Nothing is sent for the mode on the screen, and one request may go.
LEMMA SureApart ==
  ASSUME NEW m \in Modes, NEW c \in fetches, NEW new, SureOf(m), SendsDone(fetches \ {c}, new), front' = front,
         c.served \/ ~IsPut(c, front, m), \A n \in new : ~IsPut(n, front, m),
         (modeRow[front][m])' <=> modeRow[front][m], Chip(m)' <=> Chip(m)
  PROVE  SureOf(m)'
<1>1. DropDone(c, m)
  BY DEF DropDone, SendsDone, Like, IsPut
<1> QED BY <1>1, SureDrop

LEMMA SureStays ==
  ASSUME NEW m \in Modes, NEW left, NEW new, SureOf(m), SendsDone(left, new), front' = front,
         \A n \in new : ~IsPut(n, front, m),
         \A x \in left : x.what # "get" => \E c \in fetches : Like(x, c) /\ (x.old <=> c.old),
         \A c \in fetches : c.what # "get" => \E x \in left : Like(x, c) /\ (x.old <=> c.old),
         (modeRow[front][m])' <=> modeRow[front][m], Chip(m)' <=> Chip(m)
  PROVE  SureOf(m)'
<1>1. PutsKept(m)
  <2>1. \A x \in fetches' : IsPut(x, front, m) => \E c \in left : Like(x, c) /\ (x.old <=> c.old) /\ c.what # "get"
    BY DEF SendsDone, Like, IsPut
  <2>2. \A c \in left : IsPut(c, front, m) => \E x \in fetches' : Like(x, c) /\ (x.old <=> c.old)
    BY DEF SendsDone, Like, IsPut
  <2> QED BY <2>1, <2>2 DEF PutsKept, Like, IsPut
<1> QED BY <1>1, SureFrame

LEMMA AnswersFrame ==
  ASSUME AnswersFresh, modeRow' = modeRow,
         \A x \in fetches' : x.served => \E c \in fetches : Like(x, c) /\ (c.stale => x.stale)
  PROVE  AnswersFresh'
  BY DEF AnswersFresh, Like

-----------------------------------------------------------------------------
\* The server.
LEMMA ReadModeKeeps ==
  ASSUME ModesInv, NEW c \in fetches, ReadMode(c)
  PROVE  ModesInv'
<1>1. ModesTypeOK /\ SwitchedApart /\ AnswersFresh /\ SureIsTrue
  BY DEF ModesInv
<1>2. fetches \subseteq Requests /\ c \in Requests /\ c.what = "get" /\ ~c.served
  BY <1>1 DEF ModesTypeOK, ReadMode
<1>3. modeRow[c.of][c.mode] \in BOOLEAN
  BY <1>1, <1>2, RequestFields DEF ModesTypeOK
<1>4. PICK x : x = [c EXCEPT !.served = TRUE, !.got = modeRow[c.of][c.mode]]
  OBVIOUS
<1>5. x \in Requests /\ x.what = "get" /\ x.of = c.of /\ x.mode = c.mode /\ (x.got <=> modeRow[x.of][x.mode])
  <2>1. PICK got \in BOOLEAN : got = modeRow[c.of][c.mode]
    BY <1>3
  <2>2. x = [c EXCEPT !.served = TRUE, !.got = got]
    BY <1>4, <2>1
  <2>3. x \in Requests /\ x.what = "get" /\ x.of = c.of /\ x.mode = c.mode /\ x.got = got
    BY <1>2, <2>1, <2>2 DEF Requests
  <2> QED BY <2>1, <2>3
<1>6. fetches' = (fetches \ {c}) \cup {x} /\ UNCHANGED <<modeRow, screenVars, sure, byHand>>
  BY <1>4 DEF ReadMode
<1>7. ModesTypeOK' /\ SwitchedApart'
  BY <1>1, <1>5, <1>6 DEF ModesTypeOK, SwitchedApart, OneAtMost, screenVars
<1>8. AnswersFresh'
  BY <1>1, <1>5, <1>6 DEF AnswersFresh
<1>9. ASSUME NEW m \in sure' PROVE SureOf(m)'
  <2>1. m \in Modes /\ SureOf(m)
    BY <1>1, <1>6, <1>9 DEF ModesTypeOK, SureIsTrue
  <2>2. PutsKept(m)
    BY <1>2, <1>5, <1>6 DEF PutsKept, IsPut, Like
  <2>3. front' = front /\ (modeRow'[front][m] <=> modeRow[front][m]) /\ (Chip(m)' <=> Chip(m))
    BY <1>6 DEF screenVars, Chip
  <2> QED BY <2>1, <2>2, <2>3, SureFrame
<1> QED BY <1>7, <1>8, <1>9 DEF ModesInv, SureIsTrue

LEMMA WriteModeKeeps ==
  ASSUME ModesInv, NEW c \in fetches, WriteMode(c)
  PROVE  ModesInv'
<1>1. ModesTypeOK /\ SwitchedApart /\ AnswersFresh /\ SureIsTrue
  BY DEF ModesInv
<1>2. fetches \subseteq Requests /\ c \in Requests /\ c.what # "get" /\ ~c.served
  BY <1>1 DEF ModesTypeOK, WriteMode
<1>3. c.of \in Conversations /\ c.mode \in Modes /\ c.on \in BOOLEAN
      /\ (c.what = "put" \/ (c.what = "send" /\ c.mode = "plan"))
  BY <1>2, RequestFields
<1>4. PICK got \in BOOLEAN : got = (c.on /\ ~GoalRefused(c))
  OBVIOUS
<1>5. PICK x : x = [c EXCEPT !.served = TRUE, !.got = got]
  OBVIOUS
<1>6. /\ x.what = c.what /\ x.of = c.of /\ x.mode = c.mode /\ (x.on <=> c.on) /\ x.served /\ (x.got <=> got)
      /\ (x.old <=> c.old) /\ (c.what = "put" => x \in Requests)
  BY <1>2, <1>5 DEF Requests
<1>7. PICK over : over = Overtaken(c.of, c.mode)
  OBVIOUS
<1>8. OvertakenAre(over, c.of, c.mode)
  BY <1>2, <1>7, OvertakenFacts
<1>9. /\ fetches' = (over \ {c}) \cup {d \in {x} : c.what = "put"}
      /\ modeRow' = IF GoalRefused(c) THEN modeRow ELSE [modeRow EXCEPT ![c.of][c.mode] = c.on]
      /\ sure' = IF c.of = front /\ Unordered(c) THEN sure \ {c.mode} ELSE sure
      /\ UNCHANGED <<screenVars, byHand>>
  BY <1>4, <1>5, <1>7 DEF WriteMode
<1>10. /\ modeRow' \in [Conversations -> [Modes -> BOOLEAN]]
       /\ \A t \in Conversations, m \in Modes : ~(t = c.of /\ m = c.mode) => modeRow'[t][m] = modeRow[t][m]
       /\ ~GoalRefused(c) => modeRow'[c.of][c.mode] = c.on
  <2>1. modeRow \in [Conversations -> [Modes -> BOOLEAN]]
    BY <1>1 DEF ModesTypeOK
  <2> QED BY <1>3, <1>9, <2>1
<1>11. \A y \in over \ {c} : \E d \in fetches :
         d # c /\ Like(y, d) /\ (y.old <=> d.old) /\ (y.stale <=> d.stale \/ (d.served /\ Same(d, c.of, c.mode)))
  BY <1>2, <1>8 DEF OvertakenAre
<1>12. \A d \in fetches : d # c => \E y \in over \ {c} : Like(y, d) /\ (y.old <=> d.old)
  BY <1>2, <1>8 DEF OvertakenAre, Like
<1>13. ModesTypeOK'
  <2>1. fetches' \subseteq Requests
    BY <1>6, <1>8, <1>9 DEF OvertakenAre
  <2> QED BY <1>1, <1>9, <1>10, <2>1 DEF ModesTypeOK, screenVars
<1>14. SwitchedApart'
  BY <1>1, <1>9 DEF SwitchedApart, OneAtMost, screenVars
<1>15. AnswersFresh'
  <2> SUFFICES ASSUME NEW y \in fetches', y.served, ~y.stale
               PROVE  (y.got <=> modeRow'[y.of][y.mode]) \/ (y.what = "put" /\ y.mode = "goal" /\ y.on /\ ~y.got)
    BY DEF AnswersFresh
  <2>1. CASE y = x /\ c.what = "put"
    <3>1. CASE GoalRefused(c)
      BY <1>4, <1>6, <2>1, <3>1 DEF GoalRefused
    <3>2. CASE ~GoalRefused(c)
      BY <1>4, <1>6, <1>10, <2>1, <3>2
    <3> QED BY <3>1, <3>2
  <2>2. CASE y \in over \ {c}
    <3>1. PICK d \in fetches : Like(y, d) /\ (y.stale <=> d.stale \/ (d.served /\ Same(d, c.of, c.mode)))
      BY <1>11, <2>2
    <3>2. d \in Requests /\ d.served /\ ~d.stale /\ ~Same(d, c.of, c.mode)
      BY <1>2, <3>1 DEF Like
    <3>3. (d.got <=> modeRow[d.of][d.mode]) \/ (d.what = "put" /\ d.mode = "goal" /\ d.on /\ ~d.got)
      BY <1>1, <3>2 DEF AnswersFresh
    <3>4. modeRow'[d.of][d.mode] = modeRow[d.of][d.mode]
      BY <1>10, <3>2, RequestFields DEF Same
    <3> QED BY <3>1, <3>3, <3>4 DEF Like
  <2> QED BY <1>9, <2>1, <2>2
<1>16. ASSUME NEW m \in sure' PROVE SureOf(m)'
  <2>1. m \in Modes /\ SureOf(m) /\ m \in sure
    BY <1>1, <1>9, <1>16 DEF ModesTypeOK, SureIsTrue
  <2>2. front' = front /\ front \in Conversations /\ (Chip(m)' <=> Chip(m))
    BY <1>1, <1>9 DEF screenVars, Chip, ModesTypeOK
  <2>3. CASE ~IsPut(c, front, m)
    <3>1. DropDone(c, m)
      BY <1>6, <1>9, <1>11, <1>12, <2>3 DEF DropDone, IsPut, Like
    <3>2. modeRow'[front][m] <=> modeRow[front][m]
      BY <1>2, <1>10, <2>1, <2>2, <2>3 DEF IsPut
    <3> QED BY <2>1, <2>2, <2>3, <3>1, <3>2, SureDrop
  <2>4. CASE IsPut(c, front, m)
    <3>1. c.of = front /\ c.mode = m /\ ~Unordered(c)
      BY <1>9, <1>16, <2>4 DEF IsPut
    <3>2. c.old \/ \A d \in fetches : IsPut(d, front, m) => ~(d.old /\ ~d.served)
      BY <3>1 DEF Unordered, Puts, Same, IsPut
    <3>3. \A y \in fetches' : IsPut(y, front, m) =>
            \/ y = x /\ c.what = "put"
            \/ \E d \in fetches : d # c /\ IsPut(d, front, m) /\ (y.on <=> d.on) /\ (y.served <=> d.served) /\ (y.old <=> d.old)
      BY <1>9, <1>11 DEF IsPut, Like
    <3>4. \A d \in fetches : d # c /\ IsPut(d, front, m) =>
            \E y \in fetches' : IsPut(y, front, m) /\ (y.on <=> d.on) /\ (y.served <=> d.served) /\ (y.old <=> d.old)
      BY <1>9, <1>12 DEF IsPut, Like
    <3>5. ~c.old => ~GoalRefused(c) /\ (c.on <=> Chip(m)) /\ ~(m = "goal" /\ c.on)
      BY <2>1, <2>4, <3>1 DEF SureOf, GoalRefused
    <3>6. ~c.old => (modeRow'[front][m] <=> Chip(m)')
      BY <1>10, <2>2, <3>1, <3>5
    <3>7. c.old => /\ \E d \in fetches : d # c /\ IsPut(d, front, m) /\ ~d.old
                   /\ \A d \in fetches : IsPut(d, front, m) /\ ~d.old => ~d.served
      BY <1>2, <2>1, <2>4 DEF SureOf
    <3>8. \A y \in fetches' : IsPut(y, front, m) /\ ~y.old =>
            (y.on <=> Chip(m)') /\ (y.served => (modeRow'[front][m] <=> y.on)) /\ ~(m = "goal" /\ y.on)
      <4> SUFFICES ASSUME NEW y \in fetches', IsPut(y, front, m), ~y.old
                   PROVE  (y.on <=> Chip(m)') /\ (y.served => (modeRow'[front][m] <=> y.on)) /\ ~(m = "goal" /\ y.on)
        OBVIOUS
      <4>1. CASE y = x
        BY <1>6, <2>2, <3>5, <3>6, <4>1
      <4>2. CASE y # x
        <5>1. PICK d \in fetches : IsPut(d, front, m) /\ (y.on <=> d.on) /\ (y.served <=> d.served) /\ (y.old <=> d.old)
          BY <3>3, <4>2
        <5>2. (d.on <=> Chip(m)) /\ ~(m = "goal" /\ d.on) /\ ~d.old
          BY <2>1, <5>1 DEF SureOf
        <5>3. c.old => ~d.served
          BY <3>7, <5>1, <5>2
        <5> QED BY <2>2, <3>6, <5>1, <5>2, <5>3
      <4> QED BY <4>1, <4>2
    <3>9. (\A y \in fetches' : IsPut(y, front, m) => y.old) => (modeRow'[front][m] <=> Chip(m)')
      BY <3>4, <3>6, <3>7
    <3>10. \A e \in fetches' : IsPut(e, front, m) /\ e.old /\ ~e.served =>
             /\ \E y \in fetches' : IsPut(y, front, m) /\ ~y.old
             /\ \A y \in fetches' : IsPut(y, front, m) /\ ~y.old => ~y.served
      <4> SUFFICES ASSUME NEW e \in fetches', IsPut(e, front, m), e.old, ~e.served
                   PROVE  /\ \E y \in fetches' : IsPut(y, front, m) /\ ~y.old
                          /\ \A y \in fetches' : IsPut(y, front, m) /\ ~y.old => ~y.served
        OBVIOUS
      <4>1. PICK d \in fetches : IsPut(d, front, m) /\ d.old /\ ~d.served
        BY <1>6, <3>3
      <4>2. c.old
        BY <3>2, <4>1
      <4>3. \A y \in fetches' : IsPut(y, front, m) /\ ~y.old => ~y.served
        BY <1>6, <3>3, <3>7, <4>2
      <4> QED BY <3>4, <3>7, <4>2, <4>3
    <3> QED BY <2>2, <3>8, <3>9, <3>10 DEF SureOf
  <2> QED BY <2>3, <2>4
<1> QED BY <1>13, <1>14, <1>15, <1>16 DEF ModesInv, SureIsTrue

LEMMA AgentKeeps ==
  ASSUME ModesInv, NEW t \in Conversations, NEW mode \in Modes, NEW on \in BOOLEAN, AgentSets(t, mode, on)
  PROVE  ModesInv'
<1>1. ModesTypeOK /\ SwitchedApart /\ AnswersFresh /\ SureIsTrue
  BY DEF ModesInv
<1>2. /\ modeRow' = [modeRow EXCEPT ![t][mode] = on] /\ fetches' = Overtaken(t, mode)
      /\ sure' = IF t = front THEN sure \ {mode} ELSE sure
      /\ UNCHANGED <<screenVars, byHand>>
  BY DEF AgentSets
<1>3. fetches \subseteq Requests /\ modeRow \in [Conversations -> [Modes -> BOOLEAN]] /\ front \in Conversations
  BY <1>1 DEF ModesTypeOK
<1>4. OvertakenAre(fetches', t, mode)
  BY <1>2, <1>3, OvertakenFacts
<1>5. /\ modeRow' \in [Conversations -> [Modes -> BOOLEAN]]
      /\ \A u \in Conversations, m \in Modes : ~(u = t /\ m = mode) => modeRow'[u][m] = modeRow[u][m]
  BY <1>2, <1>3
<1>6. ModesTypeOK' /\ SwitchedApart'
  BY <1>1, <1>2, <1>4, <1>5 DEF ModesTypeOK, SwitchedApart, OneAtMost, screenVars, OvertakenAre
<1>7. AnswersFresh'
  <2> SUFFICES ASSUME NEW y \in fetches', y.served, ~y.stale
               PROVE  (y.got <=> modeRow'[y.of][y.mode]) \/ (y.what = "put" /\ y.mode = "goal" /\ y.on /\ ~y.got)
    BY DEF AnswersFresh
  <2>1. PICK d \in fetches : Like(y, d) /\ (y.stale <=> d.stale \/ (d.served /\ Same(d, t, mode)))
    BY <1>4 DEF OvertakenAre
  <2>2. d \in Requests /\ d.served /\ ~d.stale /\ ~Same(d, t, mode)
    BY <1>3, <2>1 DEF Like
  <2>3. (d.got <=> modeRow[d.of][d.mode]) \/ (d.what = "put" /\ d.mode = "goal" /\ d.on /\ ~d.got)
    BY <1>1, <2>2 DEF AnswersFresh
  <2>4. modeRow'[d.of][d.mode] = modeRow[d.of][d.mode]
    BY <1>5, <2>2, RequestFields DEF Same
  <2> QED BY <2>1, <2>3, <2>4 DEF Like
<1>8. ASSUME NEW m \in sure' PROVE SureOf(m)'
  <2>1. m \in Modes /\ SureOf(m) /\ ~(t = front /\ m = mode)
    BY <1>1, <1>2, <1>8 DEF ModesTypeOK, SureIsTrue
  <2>2. PutsKept(m)
    BY <1>4 DEF OvertakenAre, PutsKept
  <2>3. front' = front /\ (modeRow'[front][m] <=> modeRow[front][m]) /\ (Chip(m)' <=> Chip(m))
    BY <1>2, <1>3, <1>5, <2>1 DEF screenVars, Chip
  <2> QED BY <2>1, <2>2, <2>3, SureFrame
<1> QED BY <1>6, <1>7, <1>8 DEF ModesInv, SureIsTrue

LEMMA RunEndKeeps ==
  ASSUME ModesInv, NEW t \in Conversations, ModesRunEnds(t)
  PROVE  ModesInv'
<1>1. ModesTypeOK /\ SwitchedApart /\ AnswersFresh /\ SureIsTrue
  BY DEF ModesInv
<1>2. PICK met \in BOOLEAN :
        /\ modeRow' = IF met THEN [modeRow EXCEPT ![t].goal = FALSE] ELSE modeRow
        /\ sure' = IF met /\ t = front THEN sure \ {"goal"} ELSE sure
        /\ Sends(IF met THEN Overtaken(t, "goal") ELSE fetches, IF t = front THEN fetchModes(t) ELSE {})
  BY DEF ModesRunEnds
<1>3. UNCHANGED <<screenVars, byHand>>
  BY DEF ModesRunEnds
<1>4. fetches \subseteq Requests /\ modeRow \in [Conversations -> [Modes -> BOOLEAN]] /\ front \in Conversations
      /\ followed \subseteq Modes
  BY <1>1 DEF ModesTypeOK
<1>5. PICK left : left = IF met THEN Overtaken(t, "goal") ELSE fetches
  OBVIOUS
<1>6. PICK new : new = IF t = front THEN fetchModes(t) ELSE {}
  OBVIOUS
<1>7. \A n \in new : n \in Requests /\ n.what = "get" /\ ~n.served
  BY <1>1, <1>6, GetsAre
<1>8. \A u \in Conversations, m \in Modes : ~(met /\ u = t /\ m = "goal") => modeRow'[u][m] = modeRow[u][m]
  BY <1>2, <1>4
<1>9. modeRow' \in [Conversations -> [Modes -> BOOLEAN]]
  BY <1>2, <1>4 DEF Modes
<1>10. /\ left \subseteq Requests
       /\ \A x \in left : \E c \in fetches :
            Like(x, c) /\ (x.old <=> c.old) /\ (x.stale <=> c.stale \/ (met /\ c.served /\ Same(c, t, "goal")))
       /\ \A c \in fetches : \E x \in left : Like(x, c) /\ (x.old <=> c.old)
  <2>1. CASE met
    <3>1. OvertakenAre(left, t, "goal")
      BY <1>4, <1>5, <2>1, OvertakenFacts
    <3> QED BY <2>1, <3>1 DEF OvertakenAre
  <2>2. CASE ~met
    BY <1>4, <1>5, <2>2 DEF Like
  <2> QED BY <2>1, <2>2
<1>11. SendsDone(left, new)
  BY <1>2, <1>5, <1>6, <1>7, <1>10, SendsFacts
<1>12. ModesTypeOK' /\ SwitchedApart'
  BY <1>1, <1>2, <1>3, <1>9, <1>11 DEF ModesTypeOK, SwitchedApart, OneAtMost, screenVars, SendsDone
<1>13. AnswersFresh'
  <2> SUFFICES ASSUME NEW y \in fetches', y.served, ~y.stale
               PROVE  (y.got <=> modeRow'[y.of][y.mode]) \/ (y.what = "put" /\ y.mode = "goal" /\ y.on /\ ~y.got)
    BY DEF AnswersFresh
  <2>1. PICK e \in left : Like(y, e) /\ (y.stale <=> e.stale)
    BY <1>7, <1>11 DEF SendsDone
  <2>2. PICK d \in fetches : Like(e, d) /\ (e.stale <=> d.stale \/ (met /\ d.served /\ Same(d, t, "goal")))
    BY <1>10
  <2>3. d \in Requests /\ d.served /\ ~d.stale /\ ~(met /\ Same(d, t, "goal"))
    BY <1>4, <2>1, <2>2 DEF Like
  <2>4. (d.got <=> modeRow[d.of][d.mode]) \/ (d.what = "put" /\ d.mode = "goal" /\ d.on /\ ~d.got)
    BY <1>1, <2>3 DEF AnswersFresh
  <2>5. modeRow'[d.of][d.mode] = modeRow[d.of][d.mode]
    BY <1>8, <2>3, RequestFields DEF Same
  <2> QED BY <2>1, <2>2, <2>4, <2>5 DEF Like
<1>14. ASSUME NEW m \in sure' PROVE SureOf(m)'
  <2>1. m \in Modes /\ SureOf(m) /\ ~(met /\ t = front /\ m = "goal")
    BY <1>1, <1>2, <1>14 DEF ModesTypeOK, SureIsTrue
  <2>2. front' = front /\ (modeRow'[front][m] <=> modeRow[front][m]) /\ (Chip(m)' <=> Chip(m))
    BY <1>3, <1>4, <1>8, <2>1 DEF screenVars, Chip
  <2>3. \A n \in new : ~IsPut(n, front, m)
    BY <1>7 DEF IsPut
  <2> QED BY <1>10, <1>11, <2>1, <2>2, <2>3, SureStays
<1> QED BY <1>12, <1>13, <1>14 DEF ModesInv, SureIsTrue

-----------------------------------------------------------------------------
\* The browser.
\* What plan mode on the screen being set does.
LEMMA PlanApplied ==
  ASSUME ModesTypeOK, SwitchedApart, NEW t \in Conversations, NEW on \in BOOLEAN, applyPlanModeForThread(t, on)
  PROVE  /\ modeCache' \in [Conversations -> [Modes -> BOOLEAN]] /\ chatSettings' \in [Modes -> BOOLEAN]
         /\ \A m \in Modes : m # "plan" => modeCache'[front][m] = modeCache[front][m] /\ chatSettings'[m] = chatSettings[m]
         /\ chatSettings'["plan"] = on
         /\ (byHand' => \A m, n \in Modes : chatSettings'[m] /\ chatSettings'[n] => m = n)
<1>1. /\ modeCache \in [Conversations -> [Modes -> BOOLEAN]] /\ chatSettings \in [Modes -> BOOLEAN] /\ front \in Conversations
  BY DEF ModesTypeOK
<1>2. /\ modeCache' = [modeCache EXCEPT ![t].plan = on] /\ chatSettings' = [chatSettings EXCEPT !.plan = on]
      /\ byHand' = (byHand /\ ~(on /\ ~chatSettings.plan))
  BY DEF applyPlanModeForThread
<1>3. /\ modeCache' \in [Conversations -> [Modes -> BOOLEAN]] /\ chatSettings' \in [Modes -> BOOLEAN]
      /\ \A m \in Modes : m # "plan" => modeCache'[front][m] = modeCache[front][m] /\ chatSettings'[m] = chatSettings[m]
      /\ chatSettings'["plan"] = on
  BY <1>1, <1>2 DEF Modes
<1>4. byHand' => \A m \in Modes : chatSettings'[m] => chatSettings[m]
  BY <1>1, <1>2, <1>3 DEF Modes
<1>5. byHand' => byHand
  BY <1>2
<1> QED BY <1>3, <1>4, <1>5 DEF SwitchedApart, OneAtMost

LEMMA DroppedDone ==
  ASSUME NEW c \in fetches, fetches' = fetches \ {c}
  PROVE  \A m : DropDone(c, m)
  BY DEF DropDone, Like

\* A mode is sure with no switch of it under way, when its chip says what the row says.
LEMMA SureAlone ==
  ASSUME NEW m \in Modes, \A x \in fetches' : ~IsPut(x, front', m), (modeRow[front][m])' <=> Chip(m)'
  PROVE  SureOf(m)'
  BY DEF SureOf

\* An answer of a fetch that is up to date: no switch is under way, and it says what the row says.
LEMMA UpToDateFetch ==
  ASSUME ModesInv, NEW c \in fetches, c.what = "get", c.served, UpToDate(c),
         c.mode = "loop" \/ c.of \notin posting[c.mode]
  PROVE  /\ c.of = front /\ (c.got <=> modeRow[front][c.mode])
         /\ \A d \in fetches : ~IsPut(d, front, c.mode)
<1>1. c.of = front /\ ~c.stale /\ Puts(c.of, c.mode) \subseteq {c}
  BY DEF UpToDate
<1>2. \A d \in fetches : IsPut(d, front, c.mode) => d \in Puts(c.of, c.mode)
  BY <1>1 DEF Puts, Same, IsPut
<1>3. \A d \in fetches : ~IsPut(d, front, c.mode)
  BY <1>1, <1>2 DEF IsPut
<1>4. c.got <=> modeRow[c.of][c.mode]
  BY <1>1 DEF ModesInv, AnswersFresh
<1> QED BY <1>1, <1>3, <1>4

LEMMA FetchedKeeps ==
  ASSUME ModesInv, NEW c \in fetches, Fetched(c)
  PROVE  ModesInv'
<1>1. ModesTypeOK /\ SwitchedApart /\ AnswersFresh /\ SureIsTrue
  BY DEF ModesInv
<1>2. fetches \subseteq Requests /\ c \in Requests /\ c.what = "get" /\ c.served
  BY <1>1 DEF ModesTypeOK, Fetched
<1>3. c.of \in Conversations /\ c.mode \in Modes /\ c.got \in BOOLEAN
  BY <1>2, RequestFields
<1>4. /\ fetches' = fetches \ {c} /\ UNCHANGED <<followed, modeRow, front>>
      /\ \/ c.mode = "plan" /\ applyFetchedPlanMode(c, c.got)
         \/ c.mode = "goal" /\ fetchThreadGoal(c) /\ UNCHANGED byHand
         \/ c.mode = "loop" /\ fetchThreadLoop(c) /\ UNCHANGED byHand
  BY DEF Fetched
<1>5. fetches' \subseteq Requests /\ AnswersFresh'
  BY <1>1, <1>2, <1>4 DEF AnswersFresh
<1>6. modeCache \in [Conversations -> [Modes -> BOOLEAN]] /\ chatSettings \in [Modes -> BOOLEAN] /\ front \in Conversations
  BY <1>1 DEF ModesTypeOK
\* What a changed chip, a trusted answer or neither comes to.
<1>7. ASSUME NEW changes \in BOOLEAN, Trusted(c, changes), c.mode = "loop" \/ c.of \notin posting[c.mode],
             \A m \in Modes : m # c.mode \/ ~changes => (Chip(m)' <=> Chip(m)),
             c.of = front => (Chip(c.mode)' <=> c.got)
      PROVE  SureIsTrue' /\ sure' \subseteq Modes
  <2>1. sure' = IF UpToDate(c) THEN sure \cup {c.mode} ELSE IF changes THEN sure \ {c.mode} ELSE sure
    BY <1>7 DEF Trusted
  <2>2. sure' \subseteq Modes
    BY <1>1, <1>3, <2>1 DEF ModesTypeOK
  <2>3. ASSUME NEW m \in sure' PROVE SureOf(m)'
    <3>1. CASE UpToDate(c) /\ m = c.mode
      <4>1. /\ c.of = front /\ (c.got <=> modeRow[front][c.mode])
            /\ \A d \in fetches : ~IsPut(d, front, c.mode)
        BY <1>2, <1>7, <3>1, UpToDateFetch
      <4>2. /\ \A d \in fetches' : ~IsPut(d, front', m)
            /\ (modeRow[front][m])' <=> Chip(m)'
        BY <1>4, <1>7, <3>1, <4>1
      <4> QED BY <1>3, <3>1, <4>2, SureAlone
    <3>2. CASE ~(UpToDate(c) /\ m = c.mode)
      <4>1. m \in sure /\ m \in Modes /\ SureOf(m) /\ (m # c.mode \/ ~changes)
        BY <1>1, <2>1, <2>2, <2>3, <3>2 DEF SureIsTrue
      <4>2. (Chip(m)' <=> Chip(m)) /\ ((modeRow[front][m])' <=> modeRow[front][m]) /\ front' = front
        BY <1>4, <1>7, <4>1
      <4>3. DropDone(c, m)
        BY <1>4, DroppedDone
      <4> QED BY <1>2, <4>1, <4>2, <4>3, SureDrop
    <3> QED BY <3>1, <3>2
  <2> QED BY <2>2, <2>3 DEF SureIsTrue
<1>8. ASSUME UNCHANGED <<sure, chatSettings>>, modeCache' = modeCache
      PROVE  SureIsTrue' /\ sure' \subseteq Modes
  <2>1. ASSUME NEW m \in sure' PROVE SureOf(m)'
    <3>1. m \in Modes /\ SureOf(m)
      BY <1>1, <1>8, <2>1 DEF ModesTypeOK, SureIsTrue
    <3>2. (Chip(m)' <=> Chip(m)) /\ ((modeRow[front][m])' <=> modeRow[front][m]) /\ front' = front
      BY <1>4, <1>8 DEF Chip
    <3>3. DropDone(c, m)
      BY <1>4, DroppedDone
    <3> QED BY <1>2, <3>1, <3>2, <3>3, SureDrop
  <2> QED BY <1>1, <1>8, <2>1 DEF ModesTypeOK, SureIsTrue
<1>9. CASE c.mode = "plan" /\ applyFetchedPlanMode(c, c.got)
  <2>1. CASE c.of \in posting.plan
    <3>1. UNCHANGED <<modeCache, chatSettings, sure, byHand>>
      BY <1>9, <2>1 DEF applyFetchedPlanMode
    <3> QED BY <1>1, <1>4, <1>5, <1>8, <3>1 DEF ModesInv, ModesTypeOK, SwitchedApart, OneAtMost
  <2>2. CASE c.of \notin posting.plan
    <3>1. applyPlanModeForThread(c.of, c.got) /\ Trusted(c, c.got # chatSettings.plan)
      BY <1>9, <2>2 DEF applyFetchedPlanMode
    <3>2. /\ modeCache' \in [Conversations -> [Modes -> BOOLEAN]] /\ chatSettings' \in [Modes -> BOOLEAN]
          /\ \A m \in Modes : m # "plan" => modeCache'[front][m] = modeCache[front][m] /\ chatSettings'[m] = chatSettings[m]
          /\ chatSettings'["plan"] = c.got
          /\ (byHand' => \A m, n \in Modes : chatSettings'[m] /\ chatSettings'[n] => m = n)
      BY <1>1, <1>3, <3>1, PlanApplied
    <3>3. PICK changes \in BOOLEAN : changes = (c.got # chatSettings.plan)
      OBVIOUS
    <3>4. \A m \in Modes : m # c.mode \/ ~changes => (Chip(m)' <=> Chip(m))
      <4>1. \A m \in Modes : m # "plan" => (Chip(m)' <=> Chip(m))
        BY <1>4, <3>2 DEF Chip
      <4>2. ~changes => (Chip("plan")' <=> Chip("plan"))
        BY <1>3, <1>6, <3>2, <3>3 DEF Chip
      <4> QED BY <1>9, <4>1, <4>2
    <3>5. Chip(c.mode)' <=> c.got
      BY <1>9, <3>2 DEF Chip
    <3>6. SureIsTrue' /\ sure' \subseteq Modes
      BY <1>7, <1>9, <2>2, <3>1, <3>3, <3>4, <3>5
    <3>7. SwitchedApart'
      BY <1>1, <3>2 DEF SwitchedApart, OneAtMost, Modes
    <3> QED BY <1>1, <1>4, <1>5, <3>2, <3>6, <3>7 DEF ModesInv, ModesTypeOK
  <2> QED BY <2>1, <2>2
\* A goal or a loop was fetched.
<1>10. ASSUME c.mode # "plan", writeCached(c), c.mode = "loop" \/ c.of \notin posting[c.mode], UNCHANGED byHand,
              \/ chatSettings' = chatSettings
              \/ chatSettings' = [chatSettings EXCEPT !.loop = chatSettings.loop /\ ~c.got]
       PROVE  ModesInv'
  <2>1. /\ modeCache' = [modeCache EXCEPT ![c.of][c.mode] = c.got]
        /\ Trusted(c, c.of = front /\ c.got # modeCache[front][c.mode])
    BY <1>10 DEF writeCached
  <2>2. PICK changes \in BOOLEAN : changes = (c.of = front /\ c.got # modeCache[front][c.mode])
    OBVIOUS
  <2>3. PICK pending \in BOOLEAN : pending = (chatSettings.loop /\ ~c.got)
    OBVIOUS
  <2>4. /\ chatSettings' \in [Modes -> BOOLEAN] /\ chatSettings'["plan"] = chatSettings["plan"]
        /\ \A m \in Modes : chatSettings'[m] => chatSettings[m]
    <3>1. "plan" \in Modes /\ "loop" \in Modes /\ "plan" # "loop"
      BY DEF Modes
    <3>2. CASE chatSettings' = chatSettings
      BY <1>6, <3>2
    <3>3. CASE chatSettings' = [chatSettings EXCEPT !.loop = pending]
      BY <1>6, <2>3, <3>1, <3>3
    <3> QED BY <1>10, <2>3, <3>2, <3>3
  <2>5. modeCache' \in [Conversations -> [Modes -> BOOLEAN]]
    BY <1>3, <1>6, <2>1
  <2>6. /\ \A m \in Modes : m # c.mode => modeCache'[front][m] = modeCache[front][m]
        /\ c.of # front => modeCache'[front] = modeCache[front]
        /\ c.of = front => modeCache'[front][c.mode] = c.got
    BY <1>3, <1>6, <2>1
  <2>7. \A m \in Modes : m # c.mode \/ ~changes => (Chip(m)' <=> Chip(m))
    <3> SUFFICES ASSUME NEW m \in Modes, m # c.mode \/ ~changes PROVE Chip(m)' <=> Chip(m)
      OBVIOUS
    <3>1. modeCache'[front][m] = modeCache[front][m]
      BY <1>3, <1>6, <2>2, <2>6
    <3> QED BY <1>4, <2>4, <3>1 DEF Chip
  <2>8. c.of = front => (Chip(c.mode)' <=> c.got)
    BY <1>4, <1>10, <2>6 DEF Chip
  <2>9. SureIsTrue' /\ sure' \subseteq Modes
    BY <1>7, <1>10, <2>1, <2>2, <2>7, <2>8
  <2>10. SwitchedApart'
    BY <1>1, <1>10, <2>4 DEF SwitchedApart, OneAtMost, Modes
  <2> QED BY <1>1, <1>4, <1>5, <2>4, <2>5, <2>9, <2>10 DEF ModesInv, ModesTypeOK
<1>11. CASE c.mode = "goal" /\ fetchThreadGoal(c) /\ UNCHANGED byHand
  <2>1. CASE c.of \in posting.goal
    <3>1. UNCHANGED <<modeCache, chatSettings, sure, byHand>>
      BY <1>11, <2>1 DEF fetchThreadGoal
    <3> QED BY <1>1, <1>4, <1>5, <1>8, <3>1 DEF ModesInv, ModesTypeOK, SwitchedApart, OneAtMost
  <2>2. CASE c.of \notin posting.goal
    BY <1>10, <1>11, <2>2 DEF fetchThreadGoal
  <2> QED BY <2>1, <2>2
<1>12. CASE c.mode = "loop" /\ fetchThreadLoop(c) /\ UNCHANGED byHand
  BY <1>10, <1>12 DEF fetchThreadLoop
<1> QED BY <1>4, <1>9, <1>11, <1>12

\* A message carries the plan mode of the screen.
LEMMA MessageIs ==
  ASSUME ModesTypeOK, NEW t \in Conversations
  PROVE  LET n == sendMessage(t)
         IN /\ n \in Requests /\ n.what = "send" /\ n.of = t /\ n.mode = "plan" /\ (n.on <=> chatSettings["plan"])
            /\ ~n.served /\ ~n.old
<1>1. chatSettings["plan"] \in BOOLEAN
  BY DEF ModesTypeOK, Modes
<1>2. PICK on \in BOOLEAN : on = chatSettings["plan"]
  BY <1>1
<1>3. sendMessage(t) = Fetch("send", t, "plan", on)
  BY <1>2 DEF sendMessage
<1>4. "plan" \in Modes /\ "send" \in {"get", "put", "send"}
  BY DEF Modes
<1>5. PICK n : n = Fetch("send", t, "plan", on)
  OBVIOUS
<1>6. n \in Requests /\ n.what = "send" /\ n.of = t /\ n.mode = "plan" /\ n.on = on /\ ~n.served /\ ~n.old
  BY <1>2, <1>4, <1>5 DEF Fetch, Requests
<1> QED BY <1>2, <1>3, <1>5, <1>6

\* The answer of a switch that is up to date says what the row says.
LEMMA UpToDatePut ==
  ASSUME ModesInv, NEW c \in fetches, c.what = "put", c.served, UpToDate(c), ~(c.mode = "goal" /\ c.on /\ ~c.got)
  PROVE  /\ c.of = front /\ (c.got <=> modeRow[front][c.mode])
         /\ \A d \in fetches : IsPut(d, front, c.mode) => d = c
<1>1. c.of = front /\ ~c.stale /\ Puts(c.of, c.mode) \subseteq {c}
  BY DEF UpToDate
<1>2. \A d \in fetches : IsPut(d, front, c.mode) => d \in Puts(c.of, c.mode)
  BY <1>1 DEF Puts, Same, IsPut
<1>3. (c.got <=> modeRow[c.of][c.mode])
  BY <1>1 DEF ModesInv, AnswersFresh
<1> QED BY <1>1, <1>2, <1>3

LEMMA PutAnsweredKeeps ==
  ASSUME ModesInv, NEW c \in fetches, PutAnswered(c)
  PROVE  ModesInv'
<1>1. ModesTypeOK /\ SwitchedApart /\ AnswersFresh /\ SureIsTrue
  BY DEF ModesInv
<1>2. fetches \subseteq Requests /\ c \in Requests /\ c.what = "put" /\ c.served
  BY <1>1 DEF ModesTypeOK, PutAnswered
<1>3. c.of \in Conversations /\ c.mode \in Modes /\ c.got \in BOOLEAN
  BY <1>2, RequestFields
<1>4. modeCache \in [Conversations -> [Modes -> BOOLEAN]] /\ chatSettings \in [Modes -> BOOLEAN] /\ front \in Conversations
  BY <1>1 DEF ModesTypeOK
<1> DEFINE new == IF c.mode = "goal" /\ c.on THEN {sendMessage(c.of)} ELSE {}
<1>5. /\ Sends(fetches \ {c}, new)
      /\ UNCHANGED <<followed, modeRow, front, byHand>>
      /\ \/ (c.mode = "plan" \/ (c.mode = "goal" /\ c.on /\ ~c.got)) /\ UNCHANGED <<modeCache, chatSettings, sure>>
         \/ /\ c.mode # "plan" /\ ~(c.mode = "goal" /\ c.on /\ ~c.got) /\ writeCached(c)
            /\ chatSettings' = chatSettings \/ chatSettings' = [chatSettings EXCEPT !.goal = FALSE]
  BY <1>3 DEF PutAnswered, Modes
<1>6. \A n \in new : /\ n \in Requests /\ n.what = "send" /\ n.of = c.of /\ n.mode = "plan" /\ (n.on <=> chatSettings["plan"])
                     /\ ~n.served /\ ~n.old
  BY <1>1, <1>3, MessageIs
<1> HIDE DEF new
<1>7. SendsDone(fetches \ {c}, new)
  BY <1>2, <1>5, <1>6, SendsFacts
<1>8. fetches' \subseteq Requests
  BY <1>7 DEF SendsDone
<1>9. AnswersFresh'
  <2>1. \A x \in fetches' : x.served => \E d \in fetches : Like(x, d) /\ (d.stale => x.stale)
    BY <1>6, <1>7 DEF SendsDone
  <2> QED BY <1>1, <1>5, <2>1, AnswersFrame
<1>10. /\ chatSettings' \in [Modes -> BOOLEAN] /\ chatSettings'["plan"] = chatSettings["plan"]
       /\ \A m \in Modes : chatSettings'[m] => chatSettings[m]
  BY <1>4, <1>5 DEF Modes
<1>11. SwitchedApart'
  BY <1>1, <1>5, <1>10 DEF SwitchedApart, OneAtMost, Modes
\* A mode whose chip did not change.
<1>12. ASSUME NEW m \in Modes, m \in sure, Chip(m)' <=> Chip(m) PROVE SureOf(m)'
  <2>1. SureOf(m)
    BY <1>1, <1>12 DEF SureIsTrue
  <2>2. front' = front /\ ((modeRow[front][m])' <=> modeRow[front][m])
    BY <1>5
  <2>3. CASE \A n \in new : ~IsPut(n, front, m)
    BY <1>2, <1>7, <1>12, <2>1, <2>2, <2>3, SureApart
  <2>4. CASE \E n \in new : IsPut(n, front, m)
    <3>1. m = "plan"
      BY <1>6, <2>4 DEF IsPut
    <3>2. chatSettings["plan"] <=> Chip(m)'
      BY <1>10, <3>1 DEF Chip
    <3>3. \A n \in new : IsPut(n, front, m) => (n.on <=> Chip(m)') /\ ~n.served /\ ~n.old /\ ~(m = "goal" /\ n.on)
      BY <1>6, <3>1, <3>2
    <3> QED BY <1>7, <2>2, <2>4, <3>3, SureSent
  <2> QED BY <2>3, <2>4
<1>13. CASE UNCHANGED <<modeCache, chatSettings, sure>>
  <2>1. \A m \in Modes : Chip(m)' <=> Chip(m)
    BY <1>5, <1>13 DEF Chip
  <2>2. sure' \subseteq Modes /\ SureIsTrue'
    BY <1>1, <1>12, <1>13, <2>1 DEF ModesTypeOK, SureIsTrue
  <2> QED BY <1>1, <1>5, <1>8, <1>9, <1>11, <1>13, <2>2 DEF ModesInv, ModesTypeOK
<1>14. CASE c.mode # "plan" /\ ~(c.mode = "goal" /\ c.on /\ ~c.got) /\ writeCached(c)
  <2>1. /\ modeCache' = [modeCache EXCEPT ![c.of][c.mode] = c.got]
        /\ Trusted(c, c.of = front /\ c.got # modeCache[front][c.mode])
    BY <1>14 DEF writeCached
  <2>2. PICK changes \in BOOLEAN : changes = (c.of = front /\ c.got # modeCache[front][c.mode])
    OBVIOUS
  <2>3. sure' = IF UpToDate(c) THEN sure \cup {c.mode} ELSE IF changes THEN sure \ {c.mode} ELSE sure
    BY <2>1, <2>2 DEF Trusted
  <2>4. sure' \subseteq Modes /\ modeCache' \in [Conversations -> [Modes -> BOOLEAN]]
    BY <1>1, <1>3, <1>4, <2>1, <2>3 DEF ModesTypeOK
  <2>5. /\ \A m \in Modes : m # c.mode => modeCache'[front][m] = modeCache[front][m]
        /\ c.of # front => modeCache'[front] = modeCache[front]
        /\ c.of = front => modeCache'[front][c.mode] = c.got
    BY <1>3, <1>4, <2>1
  <2>6. \A m \in Modes : m # c.mode \/ ~changes => (Chip(m)' <=> Chip(m))
    <3> SUFFICES ASSUME NEW m \in Modes, m # c.mode \/ ~changes PROVE Chip(m)' <=> Chip(m)
      OBVIOUS
    <3>1. modeCache'[front][m] = modeCache[front][m]
      BY <1>3, <1>4, <2>2, <2>5
    <3> QED BY <1>5, <1>10, <3>1 DEF Chip
  <2>7. ASSUME NEW m \in sure' PROVE SureOf(m)'
    <3>1. CASE UpToDate(c) /\ m = c.mode
      <4>1. /\ c.of = front /\ (c.got <=> modeRow[front][c.mode])
            /\ \A d \in fetches : IsPut(d, front, c.mode) => d = c
        BY <1>2, <1>14, <3>1, UpToDatePut
      <4>2. \A x \in fetches' : ~IsPut(x, front', m)
        BY <1>5, <1>6, <1>7, <1>14, <3>1, <4>1 DEF SendsDone, Like, IsPut
      <4>3. (modeRow[front][m])' <=> Chip(m)'
        BY <1>5, <1>14, <2>5, <3>1, <4>1 DEF Chip
      <4> QED BY <1>3, <3>1, <4>2, <4>3, SureAlone
    <3>2. CASE ~(UpToDate(c) /\ m = c.mode)
      <4>1. m \in sure /\ m \in Modes /\ (m # c.mode \/ ~changes)
        BY <1>1, <2>3, <2>4, <2>7, <3>2
      <4> QED BY <1>12, <2>6, <4>1
    <3> QED BY <3>1, <3>2
  <2> QED BY <1>1, <1>5, <1>8, <1>9, <1>10, <1>11, <2>4, <2>7 DEF ModesInv, ModesTypeOK, SureIsTrue
<1> QED BY <1>5, <1>13, <1>14

LEMMA FailKeeps ==
  ASSUME ModesInv, NEW c \in fetches, Fails(c)
  PROVE  ModesInv'
<1>1. ModesTypeOK /\ SwitchedApart /\ AnswersFresh /\ SureIsTrue
  BY DEF ModesInv
<1>2. fetches \subseteq Requests /\ c \in Requests
  BY <1>1 DEF ModesTypeOK
<1>3. c.of \in Conversations /\ c.mode \in Modes
  BY <1>2, RequestFields
<1>4. /\ fetches' = fetches \ {c} /\ UNCHANGED <<followed, modeRow, front>>
      /\ \/ /\ c.what = "get" /\ c.mode = "plan"
            /\ applyFetchedPlanMode([c EXCEPT !.stale = TRUE], FALSE)
         \/ /\ c.what # "get" /\ sure' = IF ~c.served /\ c.of = front THEN sure \ {c.mode} ELSE sure
            /\ UNCHANGED <<modeCache, chatSettings, byHand>>
  BY DEF Fails
<1>5. fetches' \subseteq Requests /\ AnswersFresh'
  BY <1>1, <1>2, <1>4 DEF AnswersFresh
<1>6. \A m : DropDone(c, m)
  BY <1>4, DroppedDone
<1>7. CASE c.what = "get" /\ c.mode = "plan" /\ applyFetchedPlanMode([c EXCEPT !.stale = TRUE], FALSE)
  <2>1. PICK d : d = [c EXCEPT !.stale = TRUE]
    OBVIOUS
  <2>2. d.of = c.of /\ d.mode = c.mode /\ d.stale
    BY <1>2, <2>1 DEF Requests
  <2>3. CASE UNCHANGED <<modeCache, chatSettings, sure, byHand>>
    <3>1. ASSUME NEW m \in sure PROVE SureOf(m)'
      <4>1. m \in Modes /\ SureOf(m)
        BY <1>1, <3>1 DEF ModesTypeOK, SureIsTrue
      <4>2. (Chip(m)' <=> Chip(m)) /\ ((modeRow[front][m])' <=> modeRow[front][m]) /\ front' = front
        BY <1>4, <2>3 DEF Chip
      <4> QED BY <1>6, <1>7, <4>1, <4>2, SureDrop DEF IsPut
    <3> QED BY <1>1, <1>4, <1>5, <2>3, <3>1 DEF ModesInv, ModesTypeOK, SwitchedApart, OneAtMost, SureIsTrue
  <2>4. CASE applyPlanModeForThread(d.of, FALSE) /\ Trusted(d, FALSE # chatSettings.plan)
    <3>1. /\ modeCache' \in [Conversations -> [Modes -> BOOLEAN]] /\ chatSettings' \in [Modes -> BOOLEAN]
          /\ \A m \in Modes : m # "plan" => modeCache'[front][m] = modeCache[front][m] /\ chatSettings'[m] = chatSettings[m]
          /\ chatSettings'["plan"] = FALSE
          /\ (byHand' => \A m, n \in Modes : chatSettings'[m] /\ chatSettings'[n] => m = n)
      BY <1>1, <1>3, <2>2, <2>4, PlanApplied
    <3>2. sure' = IF FALSE # chatSettings["plan"] THEN sure \ {"plan"} ELSE sure
      BY <1>7, <2>2, <2>4 DEF Trusted, UpToDate
    <3>3. ASSUME NEW m \in sure' PROVE SureOf(m)'
      <4>1. m \in Modes /\ SureOf(m)
        BY <1>1, <3>2, <3>3 DEF ModesTypeOK, SureIsTrue
      <4>2. Chip(m)' <=> Chip(m)
        BY <1>4, <3>1, <3>2, <3>3, <4>1 DEF Chip
      <4>3. ((modeRow[front][m])' <=> modeRow[front][m]) /\ front' = front
        BY <1>4
      <4> QED BY <1>6, <1>7, <4>1, <4>2, <4>3, SureDrop DEF IsPut
    <3>4. SwitchedApart'
      BY <1>1, <3>1 DEF SwitchedApart, OneAtMost, Modes
    <3> QED BY <1>1, <1>4, <1>5, <3>1, <3>2, <3>3, <3>4 DEF ModesInv, ModesTypeOK, SureIsTrue
  <2>5. applyFetchedPlanMode(d, FALSE)
    BY <1>7, <2>1
  <2> QED BY <2>3, <2>4, <2>5 DEF applyFetchedPlanMode
<1>8. CASE /\ c.what # "get" /\ sure' = IF ~c.served /\ c.of = front THEN sure \ {c.mode} ELSE sure
           /\ UNCHANGED <<modeCache, chatSettings, byHand>>
  <2>1. ASSUME NEW m \in sure' PROVE SureOf(m)'
    <3>1. m \in Modes /\ SureOf(m) /\ (c.served \/ ~IsPut(c, front, m))
      BY <1>1, <1>8, <2>1 DEF ModesTypeOK, SureIsTrue, IsPut
    <3>2. (Chip(m)' <=> Chip(m)) /\ ((modeRow[front][m])' <=> modeRow[front][m]) /\ front' = front
      BY <1>4, <1>8 DEF Chip
    <3> QED BY <1>6, <3>1, <3>2, SureDrop
  <2> QED BY <1>1, <1>4, <1>5, <1>8, <2>1 DEF ModesInv, ModesTypeOK, SwitchedApart, OneAtMost, SureIsTrue
<1> QED BY <1>4, <1>7, <1>8

\* The plan mode tool calls that the browser hears of.
CallsOK == lastCall \in [Conversations -> SUBSET BOOLEAN] /\ heardOf \in [Conversations -> SUBSET BOOLEAN]

LEMMA InferredKeeps ==
  ASSUME ModesInv, CallsOK, inferPlanModeFromThreadMessages
  PROVE  ModesInv'
<1>1. ModesTypeOK /\ SwitchedApart /\ AnswersFresh /\ SureIsTrue
  BY DEF ModesInv
<1>2. UNCHANGED <<followed, modeRow, front, fetches>>
  BY DEF inferPlanModeFromThreadMessages
<1>3. AnswersFresh' /\ fetches' \subseteq Requests
  BY <1>1, <1>2 DEF AnswersFresh, ModesTypeOK
<1>4. ASSUME NEW m \in Modes, m \in sure, Chip(m)' <=> Chip(m) PROVE SureOf(m)'
  <2>1. SureOf(m)
    BY <1>1, <1>4 DEF SureIsTrue
  <2>2. PutsKept(m) /\ ((modeRow[front][m])' <=> modeRow[front][m]) /\ front' = front
    BY <1>2 DEF PutsKept, Like
  <2> QED BY <1>4, <2>1, <2>2, SureFrame
<1>5. CASE UNCHANGED <<modeCache, chatSettings, sure, byHand>>
  <2>1. \A m \in Modes : Chip(m)' <=> Chip(m)
    BY <1>2, <1>5 DEF Chip
  <2> QED BY <1>1, <1>2, <1>3, <1>4, <1>5, <2>1 DEF ModesInv, ModesTypeOK, SwitchedApart, OneAtMost, SureIsTrue
<1>6. ASSUME NEW on \in BOOLEAN, applyPlanModeForThread(front, on),
             sure' = IF on = chatSettings.plan THEN sure ELSE sure \ {"plan"}
      PROVE  ModesInv'
  <2>1. /\ modeCache' \in [Conversations -> [Modes -> BOOLEAN]] /\ chatSettings' \in [Modes -> BOOLEAN]
        /\ \A m \in Modes : m # "plan" => modeCache'[front][m] = modeCache[front][m] /\ chatSettings'[m] = chatSettings[m]
        /\ chatSettings'["plan"] = on
        /\ (byHand' => \A m, n \in Modes : chatSettings'[m] /\ chatSettings'[n] => m = n)
    BY <1>1, <1>6, PlanApplied DEF ModesTypeOK
  <2>2. \A m \in sure' : m \in sure /\ m \in Modes /\ (Chip(m)' <=> Chip(m))
    BY <1>1, <1>2, <1>6, <2>1 DEF Chip, ModesTypeOK
  <2>3. SwitchedApart'
    BY <1>1, <2>1 DEF SwitchedApart, OneAtMost, Modes
  <2> QED BY <1>1, <1>2, <1>3, <1>4, <2>1, <2>2, <2>3 DEF ModesInv, ModesTypeOK, SureIsTrue
<1>7. heardOf'[front] \subseteq BOOLEAN
  <2>1. PICK r \in {lastCall[front]} \cup (IF opening THEN {} ELSE {heardOf[front]}) : heardOf' = [heardOf EXCEPT ![front] = r]
    BY DEF inferPlanModeFromThreadMessages
  <2>2. front \in Conversations /\ r \subseteq BOOLEAN
    BY <1>1, <2>1 DEF CallsOK, ModesTypeOK
  <2> QED BY <2>1, <2>2 DEF CallsOK
<1>8. CASE heardOf'[front] = {}
  BY <1>5, <1>8 DEF inferPlanModeFromThreadMessages
<1>9. CASE heardOf'[front] # {}
  <2>1. PICK on \in heardOf'[front] :
          applyPlanModeForThread(front, on) /\ sure' = IF on = chatSettings.plan THEN sure ELSE sure \ {"plan"}
    BY <1>9 DEF inferPlanModeFromThreadMessages
  <2> QED BY <1>6, <1>7, <2>1
<1> QED BY <1>8, <1>9

LEMMA OpenKeeps ==
  ASSUME ModesInv, NEW t \in Conversations, OpenConversation(t)
  PROVE  ModesInv'
<1>1. ModesTypeOK /\ SwitchedApart /\ AnswersFresh
  BY DEF ModesInv
<1>2. /\ front' = t /\ sure' = {} /\ Sends(fetches, fetchModes(t))
      /\ IF t \in visited THEN applyPlanModeForThread(t, modeCache[t].plan)
         ELSE UNCHANGED <<modeCache, visited, chatSettings, byHand>>
      /\ UNCHANGED <<followed, modeRow>>
  BY DEF OpenConversation
<1>3. \A n \in fetchModes(t) : n \in Requests /\ n.what = "get" /\ ~n.served
  BY <1>1, GetsAre
<1>4. fetches \subseteq Requests
  BY <1>1 DEF ModesTypeOK
<1>5. SendsDone(fetches, fetchModes(t))
  BY <1>2, <1>3, <1>4, SendsFacts
<1>6. AnswersFresh'
  <2>1. \A x \in fetches' : x.served => \E d \in fetches : Like(x, d) /\ (d.stale => x.stale)
    BY <1>3, <1>5 DEF SendsDone
  <2> QED BY <1>1, <1>2, <2>1, AnswersFrame
<1>7. SureIsTrue'
  BY <1>2 DEF SureIsTrue
<1>8. CASE t \in visited
  <2>1. modeCache[t]["plan"] \in BOOLEAN
    BY <1>1 DEF ModesTypeOK, Modes
  <2>2. /\ modeCache' \in [Conversations -> [Modes -> BOOLEAN]] /\ chatSettings' \in [Modes -> BOOLEAN]
        /\ \A m \in Modes : m # "plan" => modeCache'[front][m] = modeCache[front][m] /\ chatSettings'[m] = chatSettings[m]
        /\ (byHand' => \A m, n \in Modes : chatSettings'[m] /\ chatSettings'[n] => m = n)
    BY <1>1, <1>2, <1>8, <2>1, PlanApplied
  <2>3. SwitchedApart'
    BY <1>1, <2>2 DEF SwitchedApart, OneAtMost, Modes
  <2> QED BY <1>1, <1>2, <1>5, <1>6, <1>7, <2>2, <2>3 DEF ModesInv, ModesTypeOK, SendsDone
<1>9. CASE t \notin visited
  BY <1>1, <1>2, <1>5, <1>6, <1>7, <1>9 DEF ModesInv, ModesTypeOK, SendsDone, SwitchedApart, OneAtMost
<1> QED BY <1>8, <1>9

\* Only requests are sent, and what is sure is so of what is sent.
LEMMA SendsKeep ==
  ASSUME ModesInv, NEW new \in SUBSET Requests, Sends(fetches, new), \A n \in new : ~n.served,
         UNCHANGED <<modeRow, screenVars, byHand>>, sure' \subseteq Modes,
         \A m \in sure' : \/ m \in sure /\ \A n \in new : ~IsPut(n, front, m)
                          \/ /\ \E n \in new : IsPut(n, front, m)
                             /\ \A n \in new : IsPut(n, front, m) => (n.on <=> Chip(m)) /\ ~n.old /\ ~(m = "goal" /\ n.on)
  PROVE  ModesInv'
<1>1. ModesTypeOK /\ SwitchedApart /\ AnswersFresh /\ SureIsTrue
  BY DEF ModesInv
<1>2. fetches \subseteq Requests
  BY <1>1 DEF ModesTypeOK
<1>3. SendsDone(fetches, new)
  BY <1>2, SendsFacts
<1>4. AnswersFresh'
  <2>1. \A x \in fetches' : x.served => \E d \in fetches : Like(x, d) /\ (d.stale => x.stale)
    BY <1>3 DEF SendsDone
  <2> QED BY <1>1, <2>1, AnswersFrame
<1>5. ASSUME NEW m \in sure' PROVE SureOf(m)'
  <2>1. m \in Modes /\ front' = front /\ (Chip(m)' <=> Chip(m)) /\ ((modeRow[front][m])' <=> modeRow[front][m])
    BY DEF screenVars, Chip
  <2>2. CASE m \in sure /\ \A n \in new : ~IsPut(n, front, m)
    <3>1. SureOf(m)
      BY <1>1, <2>2 DEF SureIsTrue
    <3>2. PutsKept(m)
      BY <1>3, <2>1, <2>2 DEF PutsKept, SendsDone, Like, IsPut
    <3> QED BY <2>1, <3>1, <3>2, SureFrame
  <2>3. CASE /\ \E n \in new : IsPut(n, front, m)
             /\ \A n \in new : IsPut(n, front, m) => (n.on <=> Chip(m)) /\ ~n.old /\ ~(m = "goal" /\ n.on)
    BY <1>3, <2>1, <2>3, SureSent
  <2> QED BY <2>2, <2>3
<1> QED BY <1>1, <1>3, <1>4, <1>5 DEF ModesInv, ModesTypeOK, SureIsTrue, SendsDone, screenVars, SwitchedApart, OneAtMost

LEMMA PollKeeps ==
  ASSUME ModesInv, NEW mode \in Modes, PollModes(mode)
  PROVE  ModesInv'
<1>1. PICK new : new = {c \in fetchModes(front) : c.mode = mode}
  OBVIOUS
<1>2. ModesTypeOK /\ front \in Conversations /\ sure \subseteq Modes
  BY DEF ModesInv, ModesTypeOK
<1>3. Sends(fetches, new) /\ UNCHANGED <<modeRow, screenVars, sure, byHand>>
  BY <1>1 DEF PollModes
<1>4. \A n \in new : n \in Requests /\ n.what = "get" /\ ~n.served
  BY <1>1, <1>2, GetsAre
<1>5. \A m \in sure' : m \in sure /\ \A n \in new : ~IsPut(n, front, m)
  BY <1>3, <1>4 DEF IsPut
<1> QED BY <1>2, <1>3, <1>4, <1>5, SendsKeep

LEMMA SendFirstKeeps ==
  ASSUME ModesInv, SendFirst
  PROVE  ModesInv'
<1>1. ModesTypeOK /\ front \in Conversations /\ sure \subseteq Modes
  BY DEF ModesInv, ModesTypeOK
<1>2. UNCHANGED <<modeRow, screenVars, byHand>>
  BY DEF SendFirst
<1>3. CASE Sends(fetches, Posted({"goal"}, TRUE)) /\ sure' = sure \ {"goal"}
  <2>1. PICK n : n = Fetch("put", front, "goal", TRUE)
    OBVIOUS
  <2>2. Posted({"goal"}, TRUE) = {n}
    BY <2>1 DEF Posted
  <2>3. n \in Requests /\ n.what = "put" /\ n.mode = "goal" /\ ~n.served
    BY <1>1, <2>1 DEF Fetch, Requests, Modes
  <2>4. \A m \in sure' : m \in sure /\ \A x \in {n} : ~IsPut(x, front, m)
    BY <1>3, <2>3 DEF IsPut
  <2>5. {n} \in SUBSET Requests /\ \A x \in {n} : ~x.served
    BY <2>3
  <2> QED BY <1>1, <1>2, <1>3, <2>2, <2>4, <2>5, SendsKeep
<1>4. CASE Sends(fetches, {sendMessage(front)}) /\ sure' = sure \cup {"plan"}
  <2>1. PICK n : n = sendMessage(front)
    OBVIOUS
  <2>2. /\ n \in Requests /\ n.what = "send" /\ n.of = front /\ n.mode = "plan" /\ (n.on <=> chatSettings["plan"])
        /\ ~n.served /\ ~n.old
    BY <1>1, <2>1, MessageIs
  <2>3. {n} \in SUBSET Requests /\ (\A x \in {n} : ~x.served) /\ Sends(fetches, {n}) /\ sure' \subseteq Modes
    BY <1>1, <1>4, <2>1, <2>2 DEF Modes
  <2>4. \A m \in sure' : \/ m \in sure /\ \A x \in {n} : ~IsPut(x, front, m)
                         \/ /\ \E x \in {n} : IsPut(x, front, m)
                            /\ \A x \in {n} : IsPut(x, front, m) => (x.on <=> Chip(m)) /\ ~x.old /\ ~(m = "goal" /\ x.on)
    <3>1. \A m \in sure' : m = "plan" \/ (m \in sure /\ m # "plan")
      BY <1>4
    <3>2. chatSettings["plan"] <=> Chip("plan")
      BY DEF Chip
    <3> QED BY <2>2, <3>1, <3>2 DEF IsPut
  <2> QED BY <1>2, <2>3, <2>4, SendsKeep
<1> QED BY <1>3, <1>4 DEF SendFirst

-----------------------------------------------------------------------------
\* The modes of every behaviour.
LEMMA ModesInitInv ==
  ASSUME ModesInit
  PROVE  ModesInv /\ CallsOK
<1>1. PICK on \in {{}} \cup {{m} : m \in Modes} :
        modeRow = [t \in Conversations |-> [m \in Modes |-> t = front /\ m \in on]]
  BY DEF ModesInit
<1>2. modeRow \in [Conversations -> [Modes -> BOOLEAN]]
  BY <1>1
<1>3. front \in Conversations /\ followed \subseteq Modes /\ sure = {} /\ fetches = fetchModes(front)
  BY FollowedAssumption DEF ModesInit
<1>4. /\ chatSettings \in [Modes -> BOOLEAN] /\ ~chatSettings["plan"] /\ ~chatSettings["goal"] /\ ~chatSettings["loop"]
      /\ modeCache \in [Conversations -> [Modes -> BOOLEAN]]
  BY DEF ModesInit, Modes
<1>5. \A n \in fetches : n \in Requests /\ n.what = "get" /\ ~n.served
  <2> SUFFICES ASSUME NEW n \in fetchModes(front) PROVE n \in Requests /\ n.what = "get" /\ ~n.served
    BY <1>3
  <2>1. PICK m \in Modes : n = Fetch("get", front, m, FALSE)
    BY <1>3 DEF fetchModes
  <2>2. FALSE \in BOOLEAN /\ "get" \in {"get", "put", "send"}
    OBVIOUS
  <2> QED BY <1>3, <2>1, <2>2 DEF Fetch, Requests
<1>6. CallsOK
  BY DEF CallsOK, ModesInit
<1> QED BY <1>2, <1>3, <1>4, <1>5, <1>6 DEF ModesInv, ModesTypeOK, SwitchedApart, OneAtMost, AnswersFresh, SureIsTrue, Modes

LEMMA CallsKept ==
  ASSUME CallsOK, ModesInv, [ModesNext]_modeVars
  PROVE  CallsOK'
<1>1. front \in Conversations
  BY DEF ModesInv, ModesTypeOK
<1>2. CASE UNCHANGED <<lastCall, heardOf>>
  BY <1>2 DEF CallsOK
<1>3. CASE inferPlanModeFromThreadMessages
  <2>1. PICK r \in {lastCall[front]} \cup (IF opening THEN {} ELSE {heardOf[front]}) : heardOf' = [heardOf EXCEPT ![front] = r]
    BY <1>3 DEF inferPlanModeFromThreadMessages
  <2>2. r \subseteq BOOLEAN /\ lastCall' = lastCall
    BY <1>1, <1>3, <2>1 DEF CallsOK, inferPlanModeFromThreadMessages
  <2> QED BY <1>1, <2>1, <2>2 DEF CallsOK
<1>4. ASSUME NEW t \in Conversations, NEW m \in {"plan", "loop"}, NEW on \in BOOLEAN, AgentSets(t, m, on)
      PROVE  CallsOK'
  <2>1. heardOf' = heardOf /\ (lastCall' = lastCall \/ lastCall' = [lastCall EXCEPT ![t] = {on}])
    BY <1>4 DEF AgentSets, screenVars
  <2> QED BY <2>1 DEF CallsOK
<1>5. CASE ComposerPlusMenu \/ ComposerSlashMenu \/ \E m \in Modes : RemoveChip(m)
  BY <1>2, <1>5 DEF ComposerPlusMenu, ComposerSlashMenu, RemoveChip, setPlanMode, toggle, Switch
<1>6. CASE SendFirst \/ \E m \in Modes : PollModes(m)
  BY <1>2, <1>6 DEF SendFirst, PollModes, screenVars
<1>7. CASE \E t \in Conversations : OpenConversation(t) \/ ModesRunEnds(t)
  BY <1>2, <1>7 DEF OpenConversation, ModesRunEnds, screenVars
<1>8. CASE \E c \in fetches : ReadMode(c) \/ WriteMode(c) \/ Fetched(c) \/ PutAnswered(c) \/ Fails(c)
  BY <1>2, <1>8 DEF ReadMode, WriteMode, Fetched, PutAnswered, Fails, screenVars
<1>9. CASE UNCHANGED modeVars
  BY <1>2, <1>9 DEF modeVars, screenVars
<1> QED BY <1>3, <1>4, <1>5, <1>6, <1>7, <1>8, <1>9 DEF ModesNext

LEMMA ModesNextInv ==
  ASSUME CallsOK, ModesInv, [ModesNext]_modeVars
  PROVE  ModesInv'
<1>1. ASSUME NEW t \in Conversations, NEW m \in {"plan", "loop"}, NEW on \in BOOLEAN, AgentSets(t, m, on)
      PROVE  ModesInv'
  BY <1>1, AgentKeeps DEF Modes
<1>2. CASE ComposerPlusMenu \/ ComposerSlashMenu \/ \E m \in Modes : RemoveChip(m)
  BY <1>2, TogglesKeep
<1>3. CASE SendFirst \/ \E m \in Modes : PollModes(m)
  BY <1>3, SendFirstKeeps, PollKeeps
<1>4. CASE \E t \in Conversations : OpenConversation(t) \/ ModesRunEnds(t)
  BY <1>4, OpenKeeps, RunEndKeeps
<1>5. CASE \E c \in fetches : ReadMode(c) \/ WriteMode(c) \/ Fetched(c) \/ PutAnswered(c) \/ Fails(c)
  BY <1>5, ReadModeKeeps, WriteModeKeeps, FetchedKeeps, PutAnsweredKeeps, FailKeeps
<1>6. CASE inferPlanModeFromThreadMessages
  BY <1>6, InferredKeeps
<1>7. CASE UNCHANGED modeVars
  <2>1. /\ UNCHANGED <<followed, front, chatSettings, modeCache, modeRow>>
        /\ UNCHANGED <<fetches, sure, byHand>>
    BY <1>7 DEF modeVars, screenVars
  <2>2. \A m : SureOf(m) => SureOf(m)'
    BY <2>1 DEF SureOf, Chip, IsPut
  <2> QED BY <2>1, <2>2 DEF ModesInv, ModesTypeOK, SwitchedApart, OneAtMost, AnswersFresh, SureIsTrue
<1> QED BY <1>1, <1>2, <1>3, <1>4, <1>5, <1>6, <1>7 DEF ModesNext

\* In every behaviour the composer tells the modes of the conversation on the screen: a chip says
\* what the row says, or will once the switches on their way are served, and no two are switched
\* on together (use-composer-settings.ts:37-90, goal-loop-sync.ts:38-96).
THEOREM ModesAreTold == ModesSpec => []ModesAreTrue
<1>1. ModesInit => ModesInv /\ CallsOK
  BY ModesInitInv
<1>2. ModesInv /\ CallsOK /\ [ModesNext]_modeVars => (ModesInv /\ CallsOK)'
  BY ModesNextInv, CallsKept
<1>3. ModesInv => ModesAreTrue
  BY ModesFollow
<1> QED BY <1>1, <1>2, <1>3, PTL DEF ModesSpec
=============================================================================
