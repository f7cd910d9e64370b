---------------------------- MODULE ToolServers ----------------------------
(***************************************************************************)
(* The MCP servers: two files, mcp.json and the headers in mcp.local.json,     *)
(* which every change reads, merges and writes again (apps/server/src/            *)
(* mcp-store.ts), the one client whose tools serve the runs, built again after      *)
(* each change (rebuildMcp in server.ts), the routes (routes/mcp.ts), the screen     *)
(* (mcp-settings-screen.tsx) and the chat runs that ask for the tools of their        *)
(* tenant.  The files are of all tenants, the tools are kept per tenant.  The         *)
(* server may stop at any time.                                              *)
(*                                                                         *)
(* A file that is opened for writing is empty until it is written, and an empty    *)
(* one reads as one without servers.  What one call reads of the two files, it       *)
(* reads in one step.  Left out: bundled and plugin servers and their list of         *)
(* disabled ones, renaming (no caller does), the seed from the environment.         *)
(***************************************************************************)
EXTENDS Naturals, FiniteSets

CONSTANTS ServerNames, Tenants, DevTenant, RequestSlots
ASSUME DevTenantAssumption == DevTenant \in Tenants
ASSUME NobodyAssumption == "nobody" \notin Tenants

VARIABLES
  mcpFile,     \* mcp.json: of each name "none", "on", "off" or "bare", without a url
  localFile,   \* mcp.local.json: the names with headers
  emptied,     \* the files that are opened and not yet written
  request,     \* what each of the requests at work does
  mcp,         \* a client is in use
  mcpToolsets, \* the tools in use: whose, and of which servers
  mcpCache,    \* mcpCacheByTenant; the tenant "nobody" for none
  crossed, torn, leaked, \* have requests overlapped? has the server stopped in the
                         \* middle of a save? is a client open that nobody knows?
  lastAlone    \* whose request last ran on its own, "nobody" if it did not

fileVars == <<mcpFile, localFile, emptied>>
clientVars == <<mcp, mcpToolsets, mcpCache, leaked>>
toolVars == <<fileVars, request, clientVars, crossed, torn, lastAlone>>

ToolsOf(tenant, names) == [tenant |-> tenant, names |-> names]
NoTools == ToolsOf("nobody", {})
Merged(state, headers) == [state |-> state, headers |-> headers]
NoFile == Merged([n \in ServerNames |-> "none"], {})
Resting == [step |-> "rest", kind |-> "none", tenant |-> DevTenant, file |-> NoFile, closing |-> FALSE]
Rebuilds(t) == [Resting EXCEPT !.step = "rebuild", !.tenant = t]
Busy == {s \in RequestSlots : request[s].step # "rest"}

\* loadMergedMcpFile: headers without an entry make an entry without a url.
loadMergedMcpFile ==
  LET public == IF "public" \in emptied THEN NoFile.state ELSE mcpFile
      headers == IF "local" \in emptied THEN {} ELSE localFile
  IN Merged([n \in ServerNames |-> IF public[n] = "none" /\ n \in headers THEN "bare" ELSE public[n]],
            headers)
listRemoteMcpServers == {n \in ServerNames : loadMergedMcpFile.state[n] \in {"on", "off"}}
buildMcpServerConfigs == {n \in listRemoteMcpServers : loadMergedMcpFile.state[n] = "on"}

ToolsInit ==
  /\ mcpFile = NoFile.state /\ localFile = {} /\ emptied = {}
  /\ request = [s \in RequestSlots |-> Resting]
  /\ mcp = FALSE /\ mcpToolsets = NoTools
  /\ mcpCache = [t \in Tenants |-> NoTools]
  /\ crossed = FALSE /\ torn = FALSE /\ leaked = FALSE /\ lastAlone = "nobody"

-----------------------------------------------------------------------------
\* A request arrives: a change, a reconnection, or a run that wants its tools.
Proceeds(s, step) == request' = [request EXCEPT ![s].step = step]
Ends(s) == request' = [request EXCEPT ![s] = Resting]
Arrive(s, t, arrived) ==
  /\ request[s].step = "rest"
  /\ request' = [request EXCEPT ![s] = arrived]
  /\ crossed' = (crossed \/ Busy # {})
  /\ lastAlone' = IF Busy = {} THEN t ELSE "nobody"
  /\ UNCHANGED <<fileVars, clientVars, torn>>

Change(s, t) == \E kind \in {"create", "update", "delete"} : 
  Arrive(s, t, [Resting EXCEPT !.step = "read", !.kind = kind, !.tenant = t])
Reconnect(s, t) == Arrive(s, t, Rebuilds(t))

\* ensureMcpForTenant: the tools of the tenant are taken from the cache.
ensureMcpForTenant(s, t) ==
  \/ /\ request[s].step = "rest" /\ mcpCache[t] # NoTools
     /\ mcpToolsets' = mcpCache[t]
     /\ UNCHANGED <<fileVars, request, mcp, mcpCache, leaked, crossed, torn, lastAlone>>
  \/ mcpCache[t] = NoTools /\ Arrive(s, t, Rebuilds(t))

-----------------------------------------------------------------------------
\* The files: read, changed in memory, and written one after the other.
Changed(file, kind, n, headers) ==
  CASE kind = "create" ->
         Merged([file.state EXCEPT ![n] = "on"], IF headers THEN file.headers \cup {n} ELSE file.headers)
    [] kind = "update" ->
         Merged([file.state EXCEPT ![n] = IF @ = "on" THEN "off" ELSE "on"], file.headers)
    [] kind = "delete" -> Merged([file.state EXCEPT ![n] = "none"], file.headers \ {n})

\* A name that is taken is not created; the screen changes only what it lists.
ReadFile(s) ==
  LET r == request[s]  file == loadMergedMcpFile
  IN /\ r.step = "read"
     /\ \E n \in ServerNames, headers \in BOOLEAN :
          /\ file.state[n] = "bare" => r.kind = "create"
          /\ IF (r.kind = "create") = (file.state[n] = "none")
             THEN request' = [request EXCEPT ![s].step = "openPublic",
                                             ![s].file = Changed(file, r.kind, n, headers)]
                  /\ UNCHANGED lastAlone
             ELSE Ends(s) /\ lastAlone' = "nobody"
     /\ UNCHANGED <<fileVars, clientVars, crossed, torn>>

OpenFile(s) ==
  \/ /\ request[s].step = "openPublic"
     /\ emptied' = emptied \cup {"public"} /\ Proceeds(s, "writePublic")
     /\ UNCHANGED <<mcpFile, localFile, clientVars, crossed, torn, lastAlone>>
  \/ /\ request[s].step = "openLocal"
     /\ emptied' = emptied \cup {"local"} /\ Proceeds(s, "writeLocal")
     /\ UNCHANGED <<mcpFile, localFile, clientVars, crossed, torn, lastAlone>>

writeMcpPublic(s) ==
  /\ request[s].step = "writePublic"
  /\ mcpFile' = request[s].file.state /\ emptied' = emptied \ {"public"}
  /\ request' = [request EXCEPT ![s].step = "openLocal", ![s].file.state = NoFile.state]
  /\ UNCHANGED <<localFile, clientVars, crossed, torn, lastAlone>>

HeadersKept(s) == localFile \cup request[s].file.headers    \* a bug
HeadersWritten(s) == request[s].file.headers
writeMcpLocal(s) ==
  /\ request[s].step = "writeLocal"
  /\ localFile' = HeadersWritten(s) /\ emptied' = emptied \ {"local"}
  /\ request' = [request EXCEPT ![s] = Rebuilds(request[s].tenant)]
  /\ UNCHANGED <<mcpFile, clientVars, crossed, torn, lastAlone>>

-----------------------------------------------------------------------------
\* rebuildMcp.  It awaits the end of the old client, the servers to connect to, and
\* the list of their tools, and works on the one client there is.
BeginRebuild(s) ==
  /\ request[s].step = "rebuild"
  /\ mcpCache' = [mcpCache EXCEPT ![request[s].tenant] = NoTools]
  /\ request' = [request EXCEPT ![s].step = IF mcp THEN "disconnect" ELSE "connect",
                                ![s].closing = mcp]
  /\ UNCHANGED <<fileVars, mcp, mcpToolsets, leaked, crossed, torn, lastAlone>>

Disconnect(s) ==
  /\ request[s].step = "disconnect"
  /\ leaked' = (leaked \/ (mcp /\ ~request[s].closing))
  /\ mcp' = FALSE
  /\ request' = [request EXCEPT ![s].step = "connect", ![s].closing = FALSE]
  /\ UNCHANGED <<fileVars, mcpToolsets, mcpCache, crossed, torn, lastAlone>>

\* A client that others are closing is not this new one.
createMcpClient(s) ==
  /\ request[s].step = "connect"
  /\ leaked' = (leaked \/ mcp) /\ mcp' = TRUE
  /\ request' = [o \in RequestSlots |->
       IF o = s THEN [request[o] EXCEPT !.step = "list", !.file = Merged(NoFile.state, buildMcpServerConfigs)]
       ELSE [request[o] EXCEPT !.closing = FALSE]]
  /\ UNCHANGED <<fileVars, mcpToolsets, mcpCache, crossed, torn, lastAlone>>

\* The tools of the servers it connected to, or none if they cannot be listed.
ListToolsets(s) ==
  LET t == request[s].tenant
  IN /\ request[s].step = "list"
     /\ \E names \in {request[s].file.headers, {}} : mcpToolsets' = ToolsOf(t, names)
     /\ mcpCache' = [mcpCache EXCEPT ![t] = mcpToolsets']
     /\ Ends(s)
     /\ UNCHANGED <<fileVars, mcp, leaked, crossed, torn, lastAlone>>

\* The server stops; its next start connects for the tenant of the desktop.
RestartTools ==
  /\ torn' = (torn \/ \E s \in RequestSlots :
                request[s].step \in {"writePublic", "openLocal", "writeLocal"})
  /\ \E first \in RequestSlots :
       request' = [s \in RequestSlots |-> IF s = first THEN Rebuilds(DevTenant) ELSE Resting]
  /\ mcp' = FALSE /\ mcpToolsets' = NoTools /\ leaked' = FALSE
  /\ mcpCache' = [t \in Tenants |-> NoTools]
  /\ lastAlone' = DevTenant
  /\ UNCHANGED <<fileVars, crossed>>

ToolsNext ==
  \/ \E s \in RequestSlots :
       \/ \E t \in Tenants : Change(s, t) \/ Reconnect(s, t) \/ ensureMcpForTenant(s, t)
       \/ ReadFile(s) \/ OpenFile(s) \/ writeMcpPublic(s) \/ writeMcpLocal(s)
       \/ BeginRebuild(s) \/ Disconnect(s) \/ createMcpClient(s) \/ ListToolsets(s)
  \/ RestartTools
ToolsSpec == ToolsInit /\ [][ToolsNext]_toolVars

-----------------------------------------------------------------------------
\* What requests do that do not overlap: one client at most is open, and every
\* entry that forbids its name is one the screen lists, unless the server stopped
\* in the middle of a save.  Whatever happened before, once a request has run on
\* its own the tools kept for its tenant are of the servers that are enabled, and
\* of all of those unless they could not be listed.  While nothing runs the tools in
\* use are what is kept for some tenant (nothing sees to it that it is the run's).
ToolsFollowFiles ==
  /\ ~crossed => ~leaked
  /\ ~crossed /\ ~torn /\ emptied = {} /\ (\A s \in Busy : request[s].step # "openLocal") =>
       \A n \in ServerNames : loadMergedMcpFile.state[n] # "bare"
  /\ Busy = {} /\ lastAlone \in Tenants =>
       mcpCache[lastAlone] \in {ToolsOf(lastAlone, buildMcpServerConfigs), ToolsOf(lastAlone, {})}
  /\ Busy = {} /\ mcpToolsets # NoTools => mcpToolsets = mcpCache[mcpToolsets.tenant]
=============================================================================
