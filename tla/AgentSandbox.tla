---------------------------- MODULE AgentSandbox ----------------------------
(***************************************************************************)
(* The agent-sandbox adapter (internal/adapter/agentsandbox/adapter.go):   *)
(* sandboxes are SandboxClaims in a Kubernetes cluster, run by pods whose  *)
(* address may change.  The adapter keeps, in memory only, the claim name  *)
(* of each E2B ID, the ports handed out and an envd client per sandbox,    *)
(* which it trusts for envdClientTTL.  A step is one API call or one       *)
(* critical section; the gateway may restart between any two.  Access      *)
(* tokens are in AccessTokens, template CRDs in AgentTemplates.            *)
(***************************************************************************)
EXTENDS Naturals

CONSTANTS Sandboxes, Requests,
          None,
          TTL,          \* envdClientTTL
          MaxLag,       \* longest time from reading an address to caching it
          MaxMoves,     \* bound: addresses a pod has in a behaviour
          MaxCalls,     \* bound: calls of the adapter in a behaviour
          MaxRestarts   \* bound: restarts of the gateway

VARIABLES
    claim,      \* each sandbox's SandboxClaim: none, live or gone
    running,    \* sandboxes whose operatingMode is Running
    timed,      \* sandboxes whose claim has a shutdownTime
    ip,         \* the address of each sandbox's pod, counted up; 0 when it has none
    moves,      \* addresses its pod has had
    left,       \* time since the pod left each address, up to Old
    idMap,      \* sandboxes whose E2B ID the adapter can translate
    mapping,    \* sandboxes the registry maps to this adapter
    ports,      \* portTracker: names with an entry
    envd,       \* envdClients: name -> [addr, age] or None
    pc, name, target, addr, waited,   \* per request: step, sandbox ID it was
                \* given, claim name it resolved to, address, time since read
    calls, restarts,
    known,      \* names the API has told its clients
    answered,   \* sandboxes whose creation this process has answered
    killed,     \* names whose kill was answered with success
    late        \* names given local state after their claim was gone

cluster == <<claim, running, timed, ip, moves, left>>
adapter == <<idMap, mapping, ports, envd>>
request == <<pc, name, target, addr, waited>>
ghosts == <<known, answered, killed, late>>
bounded == <<calls, restarts>>
vars == <<cluster, adapter, request, bounded, ghosts>>

\* A sandbox goes by its E2B ID and by the name of its claim.
Names == Sandboxes \X {"id", "claim"}
Old == TTL + MaxLag

Init ==
    /\ claim = [s \in Sandboxes |-> "none"]
    /\ running = Sandboxes /\ timed = {}
    /\ ip = [s \in Sandboxes |-> 0] /\ moves = [s \in Sandboxes |-> 0]
    /\ left = [s \in Sandboxes |-> [a \in 1..MaxMoves |-> 0]]
    /\ idMap = {} /\ mapping = {} /\ ports = {}
    /\ envd = [n \in Names |-> None]
    /\ pc = [r \in Requests |-> "idle"]
    /\ name = [r \in Requests |-> None] /\ target = [r \in Requests |-> None]
    /\ addr = [r \in Requests |-> 0] /\ waited = [r \in Requests |-> 0]
    /\ calls = 0 /\ restarts = 0
    /\ known = {} /\ answered = {} /\ killed = {} /\ late = {}

Step(r, next) == pc' = [pc EXCEPT ![r] = next]

\* The call returns, with an answer or an error.
Return(r) ==
    /\ Step(r, "idle")
    /\ name' = [name EXCEPT ![r] = None] /\ target' = [target EXCEPT ![r] = None]
    /\ addr' = [addr EXCEPT ![r] = 0] /\ waited' = [waited EXCEPT ![r] = 0]

\* The claim that a resolved name names is there.
Live(n) == n[2] = "claim" /\ claim[n[1]] = "live"

MarkLate(n) == late' = IF claim[n[1]] = "live" THEN late ELSE late \cup {n}

\* An ID this process has no entry for is taken for a claim name.
resolveClaimName(n) == IF n[2] = "id" /\ n[1] \in idMap THEN <<n[1], "claim">> ELSE n

-----------------------------------------------------------------------------
(* CreateSandbox.                                                          *)

\* The SDK creates the claim, with or without envs, and waits until it is
\* bound to a running pod; when that fails nothing is entered.
CreateSandbox(r) ==
    /\ pc[r] = "idle" /\ calls < MaxCalls /\ calls' = calls + 1
    /\ \E s \in Sandboxes :
        /\ claim[s] = "none"
        /\ claim' = [claim EXCEPT ![s] = "live"]
        /\ ip' = [ip EXCEPT ![s] = 1] /\ moves' = [moves EXCEPT ![s] = 1]
        /\ name' = [name EXCEPT ![r] = <<s, "id">>]
    /\ Step(r, "insert-id")
    /\ UNCHANGED <<running, timed, left, adapter, target, addr, waited, restarts, ghosts>>

\* The new E2B ID's entry in idMap.
CreateInsert(r) ==
    /\ pc[r] = "insert-id"
    /\ idMap' = idMap \cup {name[r][1]}
    /\ Step(r, "register")
    /\ UNCHANGED <<cluster, mapping, ports, envd, name, target, addr, waited, bounded, ghosts>>

\* registry.SandboxBackend().Set, and the answer with the ID.
CreateRegister(r) ==
    /\ pc[r] = "register"
    /\ mapping' = mapping \cup {name[r][1]}
    /\ known' = known \cup {name[r]} /\ answered' = answered \cup {name[r][1]}
    /\ MarkLate(name[r])
    /\ Return(r)
    /\ UNCHANGED <<cluster, idMap, ports, envd, bounded, killed>>

\* Every live claim is listed: under its E2B ID, or its own name when this
\* process does not know the ID.
ListSandboxes ==
    /\ known' = known \cup {<<s, IF s \in idMap THEN "id" ELSE "claim">> :
                              s \in {s \in Sandboxes : claim[s] = "live"}}
    /\ UNCHANGED <<cluster, adapter, request, bounded, answered, killed, late>>

-----------------------------------------------------------------------------
(* Calls on a sandbox.                                                     *)

Arrive(r, next) ==
    /\ pc[r] = "idle" /\ calls < MaxCalls /\ calls' = calls + 1
    /\ \E n \in known :
        /\ name' = [name EXCEPT ![r] = n]
        /\ target' = [target EXCEPT ![r] = resolveClaimName(n)]
    /\ Step(r, next)
    /\ UNCHANGED <<cluster, adapter, addr, waited, restarts, ghosts>>

\* client.DeleteSandbox: done, or an error that ends the call and that may
\* also be a reply lost after the claim was deleted.
KillUpstream(r) ==
    /\ pc[r] = "kill"
    /\ \/ /\ Live(target[r])
          /\ claim' = [claim EXCEPT ![target[r][1]] = "gone"]
          /\ ip' = [ip EXCEPT ![target[r][1]] = 0]
          /\ \/ Step(r, "forget-id") /\ UNCHANGED <<name, target, addr, waited>>
             \/ Return(r)
       \/ UNCHANGED <<claim, ip>> /\ Return(r)
    /\ UNCHANGED <<running, timed, moves, left, adapter, bounded, ghosts>>

\* delete(a.idMap, sandboxID).
KillForgetID(r) ==
    /\ pc[r] = "forget-id"
    /\ idMap' = IF name[r][2] = "id" THEN idMap \ {name[r][1]} ELSE idMap
    /\ Step(r, "forget-ports")
    /\ UNCHANGED <<cluster, mapping, ports, envd, name, target, addr, waited, bounded, ghosts>>

\* delete(a.portTracker, sandboxID).
KillForgetPorts(r) ==
    /\ pc[r] = "forget-ports"
    /\ ports' = ports \ {name[r]}
    /\ Step(r, "forget-client")
    /\ UNCHANGED <<cluster, idMap, mapping, envd, name, target, addr, waited, bounded, ghosts>>

\* delete(a.envdClients, sandboxID).
KillForgetClient(r) ==
    /\ pc[r] = "forget-client"
    /\ envd' = [envd EXCEPT ![name[r]] = None]
    /\ Step(r, "unregister")
    /\ UNCHANGED <<cluster, idMap, mapping, ports, name, target, addr, waited, bounded, ghosts>>

\* registry.SandboxBackend().Delete, and the answer.
KillUnregister(r) ==
    /\ pc[r] = "unregister"
    /\ mapping' = IF name[r][2] = "id" THEN mapping \ {name[r][1]} ELSE mapping
    /\ killed' = killed \cup {name[r]}
    /\ Return(r)
    /\ UNCHANGED <<cluster, idMap, ports, envd, bounded, known, answered, late>>

\* Pause and Resume patch the Sandbox's operatingMode, SetTimeout the claim's
\* shutdownTime; each fails when the claim is gone.
Patch(r) ==
    /\ pc[r] = "patch"
    /\ LET s == target[r][1] IN
       \/ /\ Live(target[r])
          /\ \/ running' = running \ {s} /\ UNCHANGED timed    \* PauseSandbox
             \/ running' = running \cup {s} /\ UNCHANGED timed \* ResumeSandbox
             \/ timed' = timed \cup {s} /\ UNCHANGED running   \* SetTimeout
       \/ UNCHANGED <<running, timed>>
    /\ Return(r)
    /\ UNCHANGED <<claim, ip, moves, left, adapter, bounded, ghosts>>

-----------------------------------------------------------------------------
(* The data plane: getOrCreateEnvdClient, then one call to envd.  Code,    *)
(* commands, files, envs and moves all take this path.                     *)

Fresh(e) == e # None /\ e.age < TTL

\* A lookup that does not look at the entry's age.
EnvdLookupMut(r) ==
    /\ pc[r] = "lookup"
    /\ IF envd[name[r]] # None
       THEN addr' = [addr EXCEPT ![r] = envd[name[r]].addr] /\ Step(r, "run")
       ELSE Step(r, "envd-claim") /\ UNCHANGED addr
    /\ UNCHANGED <<cluster, adapter, name, target, waited, bounded, ghosts>>

\* The fast path, under the read lock.
EnvdLookup(r) ==
    /\ pc[r] = "lookup"
    /\ IF Fresh(envd[name[r]])
       THEN addr' = [addr EXCEPT ![r] = envd[name[r]].addr] /\ Step(r, "run")
       ELSE Step(r, "envd-claim") /\ UNCHANGED addr
    /\ UNCHANGED <<cluster, adapter, name, target, waited, bounded, ghosts>>

\* The claim's Get, which names the pod.
GetClaim(r, at, next) ==
    /\ pc[r] = at
    /\ \/ Live(target[r]) /\ Step(r, next) /\ UNCHANGED <<name, target, addr, waited>>
       \/ Return(r)
    /\ UNCHANGED <<cluster, adapter, bounded, ghosts>>

\* The pod's Get, which gives its address; a pod without one is an error.
GetPod(r, at, next) ==
    /\ pc[r] = at
    /\ \/ /\ ip[target[r][1]] # 0
          /\ addr' = [addr EXCEPT ![r] = ip[target[r][1]]]
          /\ Step(r, next) /\ UNCHANGED <<name, target, waited>>
       \/ Return(r)
    /\ UNCHANGED <<cluster, adapter, bounded, ghosts>>

\* The second check and the insertion, in one critical section: another
\* request's fresh client is used, a stale one replaced.
EnvdInsert(r) ==
    LET e == envd[name[r]] IN
    /\ pc[r] = "insert"
    /\ IF Fresh(e)
       THEN addr' = [addr EXCEPT ![r] = e.addr] /\ UNCHANGED <<envd, late>>
       ELSE /\ envd' = [envd EXCEPT ![name[r]] = [addr |-> addr[r], age |-> 0]]
            /\ MarkLate(name[r]) /\ UNCHANGED addr
    /\ Step(r, "run") /\ waited' = [waited EXCEPT ![r] = 0]
    /\ UNCHANGED <<cluster, idMap, mapping, ports, name, target, bounded, known, answered, killed>>

\* The data-plane operations.  useEnvdDataPlane sends them through the cached
\* envd client or through the SDK's handle; both are kept.
DataPlane(r) == Arrive(r, "lookup") \/ Arrive(r, "get-handle")
ExecuteCode(r) == DataPlane(r)
RunCommand(r) == DataPlane(r)
WriteFile(r) == DataPlane(r)
ReadFile(r) == DataPlane(r)
UploadFile(r) == DataPlane(r)
DownloadFile(r) == DataPlane(r)
ListFiles(r) == DataPlane(r)
MakeDir(r) == DataPlane(r)
RemoveFile(r) == DataPlane(r)
MoveFile(r) == DataPlane(r)
SetEnvs(r) == DataPlane(r)
ListProcesses(r) == Arrive(r, "get-handle")
KillProcess(r) == Arrive(r, "get-handle")

\* The call to envd at that address and the answer made of its result.
DataCall(r) ==
    /\ pc[r] = "run"
    /\ Return(r)
    /\ UNCHANGED <<cluster, adapter, bounded, ghosts>>

\* ListProcesses and KillProcess, and every data call when useEnvdDataPlane is
\* off, look the sandbox up each time and go through the SDK's handle.
HandleCall(r) ==
    /\ pc[r] = "handle"
    /\ Return(r)
    /\ UNCHANGED <<cluster, adapter, bounded, ghosts>>

\* GetPortURL's last step: the port is tracked.
PortTrack(r) ==
    /\ pc[r] = "track"
    /\ ports' = ports \cup {name[r]}
    /\ MarkLate(name[r])
    /\ Return(r)
    /\ UNCHANGED <<cluster, idMap, mapping, envd, bounded, known, answered, killed>>

-----------------------------------------------------------------------------
(* The cluster, time and the gateway process.                              *)

\* The pod is rescheduled, stops, or comes back at a new address.
PodMoves(s) ==
    /\ claim[s] = "live"
    /\ \/ /\ s \in running /\ moves[s] < MaxMoves
          /\ ip' = [ip EXCEPT ![s] = moves[s] + 1]
          /\ moves' = [moves EXCEPT ![s] = @ + 1]
       \/ ip[s] # 0 /\ ip' = [ip EXCEPT ![s] = 0] /\ UNCHANGED moves
    /\ UNCHANGED <<claim, running, timed, left, adapter, request, bounded, ghosts>>

\* A shutdownTime passes and the controller deletes the claim.
Shutdown(s) ==
    /\ s \in timed /\ claim[s] = "live"
    /\ claim' = [claim EXCEPT ![s] = "gone"] /\ ip' = [ip EXCEPT ![s] = 0]
    /\ UNCHANGED <<running, timed, moves, left, adapter, request, bounded, ghosts>>

Older(n, top) == IF n < top THEN n + 1 ELSE top

\* A unit of time.  A request that holds an address it read caches it within
\* MaxLag.
Tick ==
    /\ \A r \in Requests : pc[r] = "insert" => waited[r] < MaxLag
    /\ waited' = [r \in Requests |-> IF pc[r] = "insert" THEN waited[r] + 1 ELSE waited[r]]
    /\ envd' = [n \in Names |-> IF envd[n] = None THEN None
                                ELSE [envd[n] EXCEPT !.age = Older(@, TTL)]]
    /\ left' = [s \in Sandboxes |-> [a \in 1..MaxMoves |->
                  IF a <= moves[s] /\ a # ip[s] THEN Older(left[s][a], Old) ELSE left[s][a]]]
    /\ UNCHANGED <<claim, running, timed, ip, moves, idMap, mapping, ports,
                   pc, name, target, addr, bounded, ghosts>>

\* The process ends and a new one starts with empty maps.
Restart ==
    /\ restarts < MaxRestarts /\ restarts' = restarts + 1
    /\ idMap' = {} /\ mapping' = {} /\ ports' = {} /\ envd' = [n \in Names |-> None]
    /\ pc' = [r \in Requests |-> "idle"]
    /\ name' = [r \in Requests |-> None] /\ target' = [r \in Requests |-> None]
    /\ addr' = [r \in Requests |-> 0] /\ waited' = [r \in Requests |-> 0]
    /\ answered' = {}
    /\ UNCHANGED <<cluster, calls, known, killed, late>>

Serve(r) ==
    \/ CreateInsert(r) \/ CreateRegister(r)
    \/ KillUpstream(r) \/ KillForgetID(r) \/ KillForgetPorts(r)
    \/ KillForgetClient(r) \/ KillUnregister(r) \/ Patch(r)
    \/ EnvdLookup(r) \/ GetClaim(r, "envd-claim", "envd-pod") \/ GetPod(r, "envd-pod", "insert")
    \/ EnvdInsert(r) \/ DataCall(r)
    \/ GetClaim(r, "get-handle", "handle") \/ HandleCall(r)
    \/ GetClaim(r, "port-claim", "port-pod") \/ GetPod(r, "port-pod", "track") \/ PortTrack(r)

Next ==
    \/ \E r \in Requests :
        \/ CreateSandbox(r)
        \/ \E k \in {"kill", "patch", "port-claim"} : Arrive(r, k)
        \/ ExecuteCode(r) \/ RunCommand(r) \/ WriteFile(r) \/ ReadFile(r) \/ UploadFile(r)
        \/ DownloadFile(r) \/ ListFiles(r) \/ MakeDir(r) \/ RemoveFile(r) \/ MoveFile(r)
        \/ SetEnvs(r) \/ ListProcesses(r) \/ KillProcess(r)
        \/ Serve(r)
    \/ \E s \in Sandboxes : PodMoves(s) \/ Shutdown(s)
    \/ ListSandboxes \/ Tick \/ Restart

Spec == Init /\ [][Next]_vars

-----------------------------------------------------------------------------
(* Properties.                                                             *)

Steps == {"idle", "insert-id", "register", "kill", "forget-id", "forget-ports",
          "forget-client", "unregister", "patch", "lookup", "envd-claim", "envd-pod",
          "insert", "run", "get-handle", "handle", "port-claim", "port-pod", "track"}

\* Types of the adapter's maps and of the requests; a request past its lookup
\* has an address.
TypeOK ==
    /\ claim \in [Sandboxes -> {"none", "live", "gone"}]
    /\ running \subseteq Sandboxes /\ timed \subseteq Sandboxes
    /\ ip \in [Sandboxes -> 0..MaxMoves] /\ moves \in [Sandboxes -> 0..MaxMoves]
    /\ left \in [Sandboxes -> [1..MaxMoves -> 0..Old]]
    /\ idMap \subseteq Sandboxes /\ mapping \subseteq Sandboxes /\ ports \subseteq Names
    /\ envd \in [Names -> [addr : 1..MaxMoves, age : 0..TTL] \cup {None}]
    /\ pc \in [Requests -> Steps]
    /\ name \in [Requests -> Names \cup {None}] /\ target \in [Requests -> Names \cup {None}]
    /\ addr \in [Requests -> 0..MaxMoves] /\ waited \in [Requests -> 0..MaxLag]
    /\ \A r \in Requests : pc[r] \in {"insert", "run", "track"} => addr[r] # 0
    /\ calls \in 0..MaxCalls /\ restarts \in 0..MaxRestarts
    /\ known \subseteq Names /\ answered \subseteq Sandboxes
    /\ killed \subseteq Names /\ late \subseteq Names

\* "Entries older than envdClientTTL are evicted so pod IP changes are picked
\* up": no call goes to an address that the pod left envdClientTTL and the
\* time of one slow path ago, whichever requests cached it in between.
FreshAddress ==
    [][\A r \in Requests : pc[r] # "run" /\ pc'[r] = "run" =>
         left[name[r][1]][addr'[r]] < Old]_vars

\* A sandbox whose creation was answered by this process keeps its ID and its
\* place in the registry while its claim lives: a kill gives them up only
\* once the claim is deleted.
AnsweredMapped ==
    \A s \in answered : claim[s] = "live" => s \in idMap /\ s \in mapping

\* A kill that was answered leaves nothing under the name it was given, save
\* what a request overlapping it entered after the claim was gone.
KillLeavesNothing ==
    \A n \in killed \ late :
        /\ n \notin ports /\ envd[n] = None
        /\ n[2] = "id" => n[1] \notin idMap \cup mapping

=============================================================================
