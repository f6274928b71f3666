------------------------- MODULE SandboxLifecycle -------------------------
(***************************************************************************)
(* Sandboxes created, used and killed through the gateway: the handlers of *)
(* internal/api/v1, the sandbox-to-backend mapping of the registry, and    *)
(* the per-sandbox state of the OpenSandbox adapter (its execd clients and *)
(* tracked ports).  Every request runs in its own goroutine.  A step is    *)
(* one upstream call or one critical section; nothing is held across them. *)
(***************************************************************************)
EXTENDS Naturals

CONSTANTS Backends,     \* names of the registered adapters
          Sandboxes,    \* IDs the backends may hand out, each at most once
          Requests,     \* goroutines serving requests
          NoBackend, NoClient, NoSandbox,
          MaxRequests   \* bound: requests served in a behaviour

ASSUME LifecycleAssumption ==
    /\ NoBackend \notin Backends /\ NoSandbox \notin Sandboxes
    /\ NoClient \notin Requests /\ MaxRequests \in Nat

VARIABLES
    upstream,   \* state of each sandbox at the backend that made it
    owner,      \* the backend that made it
    mapping,    \* SandboxBackendMap: sandbox -> backend name
    execd,      \* adapter.execdClients: backend -> sandbox -> client
    ports,      \* adapter.portTracker: backends -> sandboxes with an entry
    pc, sb, to, \* per request: step, sandbox it names, adapter it uses
    todo,       \* per request: adapters of registry.List() not yet tried
    client,     \* per request: the execd client it talks through
    served,     \* requests begun so far
    announced,  \* sandboxes whose POST /sandboxes has answered 201
    killed,     \* sandboxes whose DELETE has answered 204
    late        \* sandboxes given local state once they were gone upstream

adapter == <<mapping, execd, ports>>
request == <<pc, sb, to, todo, client>>
ghosts == <<announced, killed, late>>
vars == <<upstream, owner, adapter, request, served, ghosts>>

\* The backend still answers for the sandbox.
Known(s) == upstream[s] \in {"pending", "running", "failed"}

Init ==
    /\ upstream = [s \in Sandboxes |-> "none"]
    /\ owner = [s \in Sandboxes |-> NoBackend]
    /\ mapping = [s \in Sandboxes |-> NoBackend]
    /\ execd = [b \in Backends |-> [s \in Sandboxes |-> NoClient]]
    /\ ports = [b \in Backends |-> {}]
    /\ pc = [r \in Requests |-> "idle"]
    /\ sb = [r \in Requests |-> NoSandbox]
    /\ to = [r \in Requests |-> NoBackend]
    /\ todo = [r \in Requests |-> {}]
    /\ client = [r \in Requests |-> NoClient]
    /\ served = 0
    /\ announced = {} /\ killed = {} /\ late = {}

-----------------------------------------------------------------------------
(* Bookkeeping of a request.                                               *)

Step(r, next) == pc' = [pc EXCEPT ![r] = next]

Arrive(r, s, next) ==
    /\ pc[r] = "idle" /\ served < MaxRequests
    /\ served' = served + 1
    /\ Step(r, next)
    /\ sb' = [sb EXCEPT ![r] = s]

\* The request is answered and its goroutine ends.
Answer(r) ==
    /\ Step(r, "idle")
    /\ sb' = [sb EXCEPT ![r] = NoSandbox]
    /\ to' = [to EXCEPT ![r] = NoBackend]
    /\ todo' = [todo EXCEPT ![r] = {}]
    /\ client' = [client EXCEPT ![r] = NoClient]

MarkLate(s) == late' = IF Known(s) THEN late ELSE late \cup {s}

-----------------------------------------------------------------------------
(* POST /sandboxes.                                                        *)

\* The router picks an adapter and the backend accepts the request; a
\* refused one changes nothing.  The new sandbox may already be running.
CreateSandbox(r) ==
    \E b \in Backends, s \in Sandboxes, st \in {"pending", "running"} :
        /\ upstream[s] = "none"
        /\ Arrive(r, s, IF st = "running" THEN "register" ELSE "wait")
        /\ upstream' = [upstream EXCEPT ![s] = st]
        /\ owner' = [owner EXCEPT ![s] = b]
        /\ to' = [to EXCEPT ![r] = b]
        /\ UNCHANGED <<adapter, todo, client, ghosts>>

\* One poll of waitRunning.  A pending sandbox, or an error of GetSandbox, is
\* polled again; a failed sandbox, the deadline or the caller's context ends
\* the wait.
waitRunning(r) ==
    /\ pc[r] = "wait"
    /\ \/ upstream[sb[r]] = "running" /\ Step(r, "register")
       \/ Step(r, "cleanup")
    /\ UNCHANGED <<upstream, owner, adapter, sb, to, todo, client, served, ghosts>>

\* The best-effort DeleteSandbox of a create that did not reach Running.
CreateCleanup(r) ==
    /\ pc[r] = "cleanup"
    /\ Answer(r)
    /\ \/ upstream' = [upstream EXCEPT ![sb[r]] = "gone"]
       \/ UNCHANGED upstream
    /\ UNCHANGED <<owner, adapter, served, ghosts>>

\* registry.SandboxBackend().Set(sbx.ID, a.name).
Register(r) ==
    /\ pc[r] = "register"
    /\ mapping' = [mapping EXCEPT ![sb[r]] = to[r]]
    /\ Step(r, "reply") /\ MarkLate(sb[r])
    /\ UNCHANGED <<upstream, owner, execd, ports, sb, to, todo, client, served,
                   announced, killed>>

\* The handler obtains the envd token (module AccessTokens) and answers 201.
CreateReply(r) ==
    /\ pc[r] = "reply"
    /\ announced' = announced \cup {sb[r]}
    /\ Answer(r)
    /\ UNCHANGED <<upstream, owner, adapter, served, killed, late>>

-----------------------------------------------------------------------------
(* resolveAdapterForSandbox: the mapping, else every adapter in any order. *)

FindStep == [kill |-> "find-kill", exec |-> "find-exec"]

\* A client may name any sandbox a backend lists, created or still starting.
ArriveFor(r, kind) ==
    \E s \in Sandboxes :
        /\ upstream[s] # "none"
        /\ Arrive(r, s, IF mapping[s] # NoBackend THEN kind ELSE FindStep[kind])
        /\ to' = [to EXCEPT ![r] = mapping[s]]
        /\ todo' = [todo EXCEPT ![r] = IF mapping[s] # NoBackend THEN {} ELSE Backends]
        /\ UNCHANGED <<upstream, owner, adapter, client, ghosts>>

KillSandboxHandler(r) == ArriveFor(r, "kill")
ExecuteCodeHandler(r) == ArriveFor(r, "exec")
RunCommandHandler(r) == ArriveFor(r, "exec")

FindMut(r, kind) ==
    /\ pc[r] = FindStep[kind]
    /\ \/ \E b \in todo[r] :
            /\ to' = [to EXCEPT ![r] = b]
            /\ todo' = [todo EXCEPT ![r] = {}]
            /\ Step(r, kind) /\ UNCHANGED <<sb, client>>
       \/ todo[r] = {} /\ Answer(r)
    /\ UNCHANGED <<upstream, owner, adapter, served, ghosts>>

\* GetSandbox of one more adapter: only the owner can answer, and its call
\* may fail too.  When all have failed the request is answered 404.
Find(r, kind) ==
    /\ pc[r] = FindStep[kind]
    /\ \/ \E b \in todo[r] :
            \/ /\ owner[sb[r]] = b /\ Known(sb[r])
               /\ to' = [to EXCEPT ![r] = b]
               /\ todo' = [todo EXCEPT ![r] = {}]
               /\ Step(r, kind) /\ UNCHANGED <<sb, client>>
            \/ /\ todo' = [todo EXCEPT ![r] = todo[r] \ {b}]
               /\ UNCHANGED <<pc, sb, to, client>>
       \/ todo[r] = {} /\ Answer(r)
    /\ UNCHANGED <<upstream, owner, adapter, served, ghosts>>

-----------------------------------------------------------------------------
(* DELETE /sandboxes/{id}: the adapter's KillSandbox.                      *)

\* lifecycle.DeleteSandbox: done, or an error that ends the call.  The error
\* may also be a reply lost after the backend has deleted the sandbox.
KillUpstream(r) ==
    /\ pc[r] = "kill"
    /\ \/ /\ Known(sb[r])
          /\ upstream' = [upstream EXCEPT ![sb[r]] = "gone"]
          /\ Step(r, "kill-execd") /\ UNCHANGED <<sb, to, todo, client>>
       \/ upstream' = [upstream EXCEPT ![sb[r]] = "gone"] /\ Answer(r)
       \/ UNCHANGED upstream /\ Answer(r)
    /\ UNCHANGED <<owner, adapter, served, ghosts>>

KillExecdMut(r) ==
    /\ pc[r] = "kill-execd"
    /\ Step(r, "kill-ports")
    /\ UNCHANGED <<upstream, owner, adapter, sb, to, todo, client, served, ghosts>>

\* delete(a.execdClients, sandboxID).
KillExecd(r) ==
    /\ pc[r] = "kill-execd"
    /\ execd' = [execd EXCEPT ![to[r]][sb[r]] = NoClient]
    /\ Step(r, "kill-ports")
    /\ UNCHANGED <<upstream, owner, mapping, ports, sb, to, todo, client, served, ghosts>>

\* delete(a.portTracker, sandboxID).
KillPorts(r) ==
    /\ pc[r] = "kill-ports"
    /\ ports' = [ports EXCEPT ![to[r]] = @ \ {sb[r]}]
    /\ Step(r, "kill-mapping")
    /\ UNCHANGED <<upstream, owner, mapping, execd, sb, to, todo, client, served, ghosts>>

\* registry.SandboxBackend().Delete(sandboxID), and the handler answers 204.
KillMapping(r) ==
    /\ pc[r] = "kill-mapping"
    /\ mapping' = [mapping EXCEPT ![sb[r]] = NoBackend]
    /\ killed' = killed \cup {sb[r]}
    /\ Answer(r)
    /\ UNCHANGED <<upstream, owner, execd, ports, served, announced, late>>

-----------------------------------------------------------------------------
(* Code, commands, files and envs: getOrCreateExecdClient and one call.    *)

\* These handlers call every adapter in turn until one succeeds.
ScanAdapters(r) ==
    \E s \in Sandboxes, b \in Backends :
        /\ upstream[s] # "none"
        /\ Arrive(r, s, "exec")
        /\ to' = [to EXCEPT ![r] = b]
        /\ todo' = [todo EXCEPT ![r] = Backends \ {b}]
        /\ UNCHANGED <<upstream, owner, adapter, client, ghosts>>

ReadFile(r) == ScanAdapters(r)
UploadFile(r) == ScanAdapters(r)   \* WriteFile too
DownloadFile(r) == ScanAdapters(r)
ListFiles(r) == ScanAdapters(r)
MakeDir(r) == ScanAdapters(r)
RemoveFile(r) == ScanAdapters(r)
MoveFile(r) == ScanAdapters(r)
SetEnvs(r) == ScanAdapters(r)

\* A call failed: the scan goes on, or the error is the answer.
TryNext(r) ==
    \/ \E b \in todo[r] :
        /\ to' = [to EXCEPT ![r] = b]
        /\ todo' = [todo EXCEPT ![r] = @ \ {b}]
        /\ client' = [client EXCEPT ![r] = NoClient]
        /\ Step(r, "exec") /\ UNCHANGED sb
    \/ todo[r] = {} /\ Answer(r)

\* The fast path under the read lock.
ExecLookup(r) ==
    LET ec == execd[to[r]][sb[r]] IN
    /\ pc[r] = "exec"
    /\ IF ec # NoClient
       THEN client' = [client EXCEPT ![r] = ec] /\ Step(r, "exec-run")
       ELSE Step(r, "exec-endpoint") /\ UNCHANGED client
    /\ UNCHANGED <<upstream, owner, adapter, sb, to, todo, served, ghosts>>

\* GetEndpoint, outside the lock.
ExecEndpoint(r) ==
    /\ pc[r] = "exec-endpoint"
    /\ \/ /\ owner[sb[r]] = to[r] /\ Known(sb[r])
          /\ Step(r, "exec-insert") /\ UNCHANGED <<sb, to, todo, client>>
       \/ TryNext(r)
    /\ UNCHANGED <<upstream, owner, adapter, served, ghosts>>

\* The re-check and the insertion, in one critical section.  The request that
\* makes a client stands for its identity.
ExecInsert(r) ==
    LET ec == execd[to[r]][sb[r]] IN
    /\ pc[r] = "exec-insert"
    /\ IF ec # NoClient
       THEN /\ client' = [client EXCEPT ![r] = ec]
            /\ UNCHANGED <<execd, late>>
       ELSE /\ execd' = [execd EXCEPT ![to[r]][sb[r]] = r]
            /\ client' = [client EXCEPT ![r] = r]
            /\ MarkLate(sb[r])
    /\ Step(r, "exec-run")
    /\ UNCHANGED <<upstream, owner, mapping, ports, sb, to, todo, served, announced, killed>>

\* The call itself, whose result is the answer.
ExecRun(r) ==
    /\ pc[r] = "exec-run"
    /\ Answer(r) \/ TryNext(r)
    /\ UNCHANGED <<upstream, owner, adapter, served, ghosts>>

-----------------------------------------------------------------------------
(* GET /sandboxes/{id}/ports/{port}: every adapter in turn.                *)

GetPortURLHandler(r) ==
    \E s \in Sandboxes :
        /\ upstream[s] # "none"
        /\ Arrive(r, s, "port")
        /\ todo' = [todo EXCEPT ![r] = Backends]
        /\ UNCHANGED <<upstream, owner, adapter, to, client, ghosts>>

\* GetPortURL of one more adapter: the endpoint request.
PortEndpoint(r) ==
    /\ pc[r] = "port"
    /\ \/ \E b \in todo[r] :
            \/ /\ owner[sb[r]] = b /\ Known(sb[r])
               /\ to' = [to EXCEPT ![r] = b]
               /\ todo' = [todo EXCEPT ![r] = {}]
               /\ Step(r, "port-track") /\ UNCHANGED <<sb, client>>
            \/ /\ todo' = [todo EXCEPT ![r] = todo[r] \ {b}]
               /\ UNCHANGED <<pc, sb, to, client>>
       \/ todo[r] = {} /\ Answer(r)
    /\ UNCHANGED <<upstream, owner, adapter, served, ghosts>>

\* The port is entered in portTracker under its lock, and the URL answered.
PortTrack(r) ==
    /\ pc[r] = "port-track"
    /\ ports' = [ports EXCEPT ![to[r]] = @ \cup {sb[r]}]
    /\ MarkLate(sb[r])
    /\ Answer(r)
    /\ UNCHANGED <<upstream, owner, mapping, execd, served, announced, killed>>

-----------------------------------------------------------------------------
(* The backend on its own: a sandbox comes up, fails, or times out.        *)

Upstream(s) ==
    /\ \/ /\ upstream[s] = "pending"
          /\ \E st \in {"running", "failed"} : upstream' = [upstream EXCEPT ![s] = st]
       \/ Known(s) /\ upstream' = [upstream EXCEPT ![s] = "gone"]
    /\ UNCHANGED <<owner, adapter, request, served, ghosts>>

\* Every request has been answered and no further one is served.
Quiet == (\A r \in Requests : pc[r] = "idle") /\ served = MaxRequests
Terminated == Quiet /\ UNCHANGED vars

Serve(r) ==
    \/ waitRunning(r) \/ CreateCleanup(r) \/ Register(r) \/ CreateReply(r)
    \/ Find(r, "kill") \/ Find(r, "exec")
    \/ KillUpstream(r) \/ KillExecd(r) \/ KillPorts(r) \/ KillMapping(r)
    \/ ExecLookup(r) \/ ExecEndpoint(r) \/ ExecInsert(r) \/ ExecRun(r)
    \/ PortEndpoint(r) \/ PortTrack(r)

Next ==
    \/ \E r \in Requests :
        \/ CreateSandbox(r) \/ KillSandboxHandler(r)
        \/ ExecuteCodeHandler(r) \/ RunCommandHandler(r)
        \/ ReadFile(r) \/ UploadFile(r) \/ DownloadFile(r) \/ ListFiles(r) \/ MakeDir(r)
        \/ RemoveFile(r) \/ MoveFile(r) \/ SetEnvs(r)
        \/ GetPortURLHandler(r) \/ Serve(r)
    \/ \E s \in Sandboxes : Upstream(s)
    \/ Terminated

Spec == Init /\ [][Next]_vars

-----------------------------------------------------------------------------
(* Properties.                                                             *)

Steps == {"idle", "wait", "cleanup", "register", "reply", "kill", "kill-execd",
          "kill-ports", "kill-mapping", "exec", "exec-endpoint", "exec-insert",
          "exec-run", "port", "port-track", "find-kill", "find-exec"}

\* Types of the registry's mapping, the adapters' maps and the requests; a
\* request that works on a sandbox has found an adapter for it.
TypeOK ==
    /\ upstream \in [Sandboxes -> {"none", "pending", "running", "failed", "gone"}]
    /\ owner \in [Sandboxes -> Backends \cup {NoBackend}]
    /\ mapping \in [Sandboxes -> Backends \cup {NoBackend}]
    /\ execd \in [Backends -> [Sandboxes -> Requests \cup {NoClient}]]
    /\ ports \in [Backends -> SUBSET Sandboxes]
    /\ pc \in [Requests -> Steps]
    /\ sb \in [Requests -> Sandboxes \cup {NoSandbox}]
    /\ to \in [Requests -> Backends \cup {NoBackend}]
    /\ todo \in [Requests -> SUBSET Backends]
    /\ client \in [Requests -> Requests \cup {NoClient}]
    /\ \A r \in Requests : pc[r] # "idle" =>
        /\ sb[r] \in Sandboxes
        /\ pc[r] \notin {"find-kill", "find-exec", "port"} => to[r] \in Backends
    /\ served \in 0..MaxRequests
    /\ announced \subseteq Sandboxes /\ killed \subseteq Sandboxes
    /\ late \subseteq Sandboxes

\* Whatever adapter resolveAdapterForSandbox or a handler's scan of the
\* adapters settles on, and whatever the mapping says, it is the backend that
\* made the sandbox; no other adapter is sent a kill or an execution, or keeps
\* state for it.
RoutedToOwner ==
    /\ \A s \in Sandboxes : mapping[s] \in {NoBackend, owner[s]}
    /\ \A r \in Requests :
        to[r] # NoBackend /\ pc[r] \notin {"exec", "exec-endpoint"} => to[r] = owner[sb[r]]
    /\ \A b \in Backends, s \in Sandboxes :
        (execd[b][s] # NoClient \/ s \in ports[b]) => b = owner[s]

\* A sandbox announced to its client stays in the mapping for as long as the
\* backend knows it: KillSandbox unregisters it only once the backend has
\* deleted it, and a failed delete leaves it registered.  So the envd proxy
\* never falls back to the router for a sandbox in use.
MappedWhileKnown ==
    \A s \in announced : Known(s) => mapping[s] = owner[s]

\* A DELETE answered 204 leaves no execd client, port entry or mapping
\* behind, save for a sandbox that a request overlapping the kill gave new
\* state after the backend had deleted it.
KillLeavesNothing ==
    \A s \in killed \ late :
        /\ mapping[s] = NoBackend
        /\ \A b \in Backends : execd[b][s] = NoClient /\ s \notin ports[b]

=============================================================================
