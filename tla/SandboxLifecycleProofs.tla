----------------------- MODULE SandboxLifecycleProofs -----------------------
(***************************************************************************)
(* Proofs about module SandboxLifecycle, for any backends, sandboxes,      *)
(* requests and number of requests served: requests reach the sandbox's    *)
(* owner, an announced sandbox stays mapped, and a kill leaves nothing.    *)
(***************************************************************************)
EXTENDS SandboxLifecycle, TLAPS

\* Nothing is known anywhere of a sandbox that was never created; one that was
\* has an owner, and requests and answers only name such sandboxes.
Consistent ==
    /\ \A s \in Sandboxes : upstream[s] # "none" => owner[s] \in Backends
    /\ \A s \in Sandboxes : upstream[s] = "none" =>
        mapping[s] = NoBackend /\ \A b \in Backends : execd[b][s] = NoClient /\ s \notin ports[b]
    /\ \A r \in Requests : pc[r] # "idle" => upstream[sb[r]] # "none"
    /\ \A r \in Requests : pc[r] = "idle" => to[r] = NoBackend
    /\ \A s \in announced : upstream[s] # "none"

\* A creation about to be answered has registered its sandbox.
Replying ==
    \A r \in Requests : pc[r] = "reply" /\ Known(sb[r]) => mapping[sb[r]] = owner[sb[r]]

\* A kill clears local state only once the sandbox is gone upstream, for good;
\* what it has cleared stays empty unless a request is late.
Killing ==
    /\ \A r \in Requests :
        pc[r] \in {"kill-execd", "kill-ports", "kill-mapping"} => upstream[sb[r]] = "gone"
    /\ \A s \in killed : upstream[s] = "gone"
    /\ \A r \in Requests : pc[r] \in {"kill-ports", "kill-mapping"} /\ sb[r] \notin late =>
        \A b \in Backends : execd[b][sb[r]] = NoClient
    /\ \A r \in Requests : pc[r] = "kill-mapping" /\ sb[r] \notin late =>
        \A b \in Backends : sb[r] \notin ports[b]

\* The inductive invariant.
IInv ==
    /\ TypeOK /\ Consistent /\ RoutedToOwner
    /\ Replying /\ MappedWhileKnown
    /\ Killing /\ KillLeavesNothing

USE DEF adapter, request, ghosts

-----------------------------------------------------------------------------
\* A step of a request or of the backends preserves the invariant.

\* An adapter without sandboxes satisfies the invariant.
LEMMA InitIInv == Init => IInv
BY LifecycleAssumption
DEF Init, IInv, TypeOK, Steps, Consistent, RoutedToOwner, Replying, MappedWhileKnown, Killing,
    KillLeavesNothing, Known

\* CreateSandbox enters a fresh sandbox upstream; the request waits for it.
LEMMA CreateIInv ==
  ASSUME IInv, NEW r \in Requests, CreateSandbox(r)
  PROVE  IInv'
<1> USE LifecycleAssumption DEF CreateSandbox, Arrive, Step
<1> PICK b \in Backends, s \in Sandboxes, st \in {"pending", "running"} :
      /\ upstream[s] = "none"
      /\ Arrive(r, s, IF st = "running" THEN "register" ELSE "wait")
      /\ upstream' = [upstream EXCEPT ![s] = st]
      /\ owner' = [owner EXCEPT ![s] = b]
      /\ to' = [to EXCEPT ![r] = b]
      /\ UNCHANGED <<adapter, todo, client, ghosts>>
  OBVIOUS
<1>1. TypeOK'
  BY DEF IInv, TypeOK, Steps
<1>2. Consistent'
  BY DEF IInv, TypeOK, Consistent
<1>3. RoutedToOwner'
  BY DEF IInv, TypeOK, Consistent, RoutedToOwner
<1>4. Replying' /\ MappedWhileKnown'
  BY DEF IInv, TypeOK, Consistent, Replying, MappedWhileKnown, Known
<1>5. Killing' /\ KillLeavesNothing'
  BY DEF IInv, TypeOK, Consistent, Killing, KillLeavesNothing
<1> QED BY <1>1, <1>2, <1>3, <1>4, <1>5 DEF IInv

-----------------------------------------------------------------------------
\* Most steps of a request change nothing but its own variables, and perhaps
\* take a sandbox away upstream: what they have to preserve.

\* The part of TypeOK that is about requests.
RequestsOK ==
    /\ pc \in [Requests -> Steps]
    /\ sb \in [Requests -> Sandboxes \cup {NoSandbox}]
    /\ to \in [Requests -> Backends \cup {NoBackend}]
    /\ todo \in [Requests -> SUBSET Backends]
    /\ client \in [Requests -> Requests \cup {NoClient}]
    /\ \A r \in Requests : pc[r] # "idle" =>
        /\ sb[r] \in Sandboxes
        /\ pc[r] \notin {"find-kill", "find-exec", "port"} => to[r] \in Backends

Local(r) ==
    /\ RequestsOK'
    /\ \A q \in Requests : q # r => pc'[q] = pc[q] /\ sb'[q] = sb[q] /\ to'[q] = to[q]
    /\ pc'[r] \notin {"reply", "kill-ports", "kill-mapping"}
    /\ pc'[r] # "idle" => upstream[sb'[r]] # "none"
    /\ pc'[r] = "idle" => to'[r] = NoBackend
    /\ to'[r] # NoBackend /\ pc'[r] \notin {"exec", "exec-endpoint"} => to'[r] = owner[sb'[r]]

Upstreams ==
    /\ upstream' \in [Sandboxes -> {"none", "pending", "running", "failed", "gone"}]
    /\ \A s \in Sandboxes :
        upstream'[s] = upstream[s] \/ (upstream[s] # "none" /\ upstream'[s] = "gone")

\* A step that moves one request and nothing shared keeps the invariant.
LEMMA LocalIInv ==
  ASSUME IInv, NEW r \in Requests, Local(r), Upstreams,
         UNCHANGED <<owner, adapter, ghosts>>, served' \in 0..MaxRequests,
         pc'[r] = "kill-execd" => upstream'[sb'[r]] = "gone"
  PROVE  IInv'
<1> USE LifecycleAssumption DEF Local, Upstreams
<1>1. TypeOK'
  BY DEF IInv, TypeOK, RequestsOK
<1>2. Consistent'
  <2>1. \A s \in Sandboxes : (upstream'[s] = "none") <=> (upstream[s] = "none")
    BY DEF IInv, TypeOK
  <2>2. ASSUME NEW q \in Requests, pc'[q] # "idle"
        PROVE  upstream'[sb'[q]] # "none"
    BY <1>1, <2>1, <2>2 DEF IInv, TypeOK, Consistent
  <2>3. ASSUME NEW q \in Requests, pc'[q] = "idle"
        PROVE  to'[q] = NoBackend
    BY <2>3 DEF IInv, Consistent
  <2> QED BY <2>1, <2>2, <2>3 DEF IInv, TypeOK, Consistent
<1>3. RoutedToOwner'
  BY DEF IInv, TypeOK, RequestsOK, Consistent, RoutedToOwner
<1>4. Replying' /\ MappedWhileKnown'
  BY DEF IInv, TypeOK, RequestsOK, Replying, MappedWhileKnown, Known
<1>5. Killing' /\ KillLeavesNothing'
  <2>1. \A s \in Sandboxes : upstream[s] = "gone" => upstream'[s] = "gone"
    BY DEF IInv, TypeOK
  <2>2. ASSUME NEW q \in Requests, pc'[q] \in {"kill-execd", "kill-ports", "kill-mapping"}
        PROVE  upstream'[sb'[q]] = "gone"
    BY <1>1, <2>1, <2>2 DEF IInv, TypeOK, Killing
  <2>3. ASSUME NEW q \in Requests, pc'[q] \in {"kill-ports", "kill-mapping"}
        PROVE  q # r /\ pc'[q] = pc[q] /\ sb'[q] = sb[q]
    BY <2>3
  <2> QED BY <2>1, <2>2, <2>3 DEF IInv, TypeOK, Killing, KillLeavesNothing
<1> QED BY <1>1, <1>2, <1>3, <1>4, <1>5 DEF IInv

\* Answering a request is such a step.
LEMMA AnswerLocal ==
  ASSUME IInv, NEW r \in Requests, Answer(r)
  PROVE  Local(r) /\ pc'[r] = "idle"
BY DEF IInv, TypeOK, Steps, RequestsOK, Local, Answer, Step

\* Going on to the next adapter, or giving up, is such a step.
LEMMA TryNextLocal ==
  ASSUME IInv, NEW r \in Requests, pc[r] # "idle", TryNext(r)
  PROVE  Local(r) /\ pc'[r] # "kill-execd"
<1>1. CASE todo[r] = {} /\ Answer(r)
  BY <1>1, AnswerLocal
<1>2. CASE ~(todo[r] = {} /\ Answer(r))
  <2> PICK b \in todo[r] :
        /\ to' = [to EXCEPT ![r] = b]
        /\ todo' = [todo EXCEPT ![r] = @ \ {b}]
        /\ client' = [client EXCEPT ![r] = NoClient]
        /\ Step(r, "exec") /\ UNCHANGED sb
    BY <1>2 DEF TryNext
  <2> b \in Backends
    BY DEF IInv, TypeOK
  <2>1. RequestsOK'
    BY DEF IInv, TypeOK, RequestsOK, Step, Steps
  <2> QED BY <2>1 DEF IInv, TypeOK, Consistent, Local, Step
<1> QED BY <1>1, <1>2

-----------------------------------------------------------------------------
(* Requests arrive.                                                        *)

\* A kill or an execution arrives, and finds its backend in the mapping or not.
LEMMA ArriveIInv ==
  ASSUME IInv, NEW r \in Requests, NEW kind \in {"kill", "exec"}, ArriveFor(r, kind)
  PROVE  IInv'
<1> USE LifecycleAssumption DEF ArriveFor, Arrive, Step, FindStep
<1> PICK s \in Sandboxes :
      /\ upstream[s] # "none"
      /\ Arrive(r, s, IF mapping[s] # NoBackend THEN kind ELSE FindStep[kind])
      /\ to' = [to EXCEPT ![r] = mapping[s]]
      /\ todo' = [todo EXCEPT ![r] = IF mapping[s] # NoBackend THEN {} ELSE Backends]
      /\ UNCHANGED <<upstream, owner, adapter, client, ghosts>>
  OBVIOUS
<1>1. pc'[r] = (IF mapping[s] # NoBackend THEN kind
                ELSE IF kind = "kill" THEN "find-kill" ELSE "find-exec")
  BY DEF IInv, TypeOK
<1>2. RequestsOK'
  BY <1>1 DEF IInv, TypeOK, RequestsOK, Steps
<1>3. Local(r)
  BY <1>1, <1>2 DEF IInv, TypeOK, Local, RoutedToOwner
<1> QED BY <1>1, <1>3, LocalIInv DEF Upstreams, IInv, TypeOK

\* A handler that scans the adapters starts with any one of them.
LEMMA ScanIInv ==
  ASSUME IInv, NEW r \in Requests, ScanAdapters(r)
  PROVE  IInv'
<1> USE LifecycleAssumption DEF ScanAdapters, Arrive, Step
<1>1. RequestsOK'
  BY DEF IInv, TypeOK, RequestsOK, Steps
<1>2. Local(r) /\ pc'[r] = "exec"
  BY <1>1 DEF IInv, TypeOK, Local
<1> QED BY <1>2, LocalIInv DEF Upstreams, IInv, TypeOK

\* GetPortURLHandler arrives, with every adapter still to try.
LEMMA GetPortIInv ==
  ASSUME IInv, NEW r \in Requests, GetPortURLHandler(r)
  PROVE  IInv'
<1> USE LifecycleAssumption DEF GetPortURLHandler, Arrive, Step
<1>1. RequestsOK'
  BY DEF IInv, TypeOK, RequestsOK, Steps
<1>2. Local(r) /\ pc'[r] = "port"
  BY <1>1 DEF IInv, TypeOK, Consistent, Local
<1> QED BY <1>2, LocalIInv DEF Upstreams, IInv, TypeOK

-----------------------------------------------------------------------------
(* Steps of a creation and of a lookup.                                    *)

\* The wait of CreateSandbox ends, well or not.
LEMMA WaitIInv ==
  ASSUME IInv, NEW r \in Requests, waitRunning(r)
  PROVE  IInv'
<1> USE DEF waitRunning, Step
<1>1. RequestsOK'
  BY DEF IInv, TypeOK, RequestsOK, Steps
<1>2. Local(r) /\ pc'[r] # "kill-execd"
  BY <1>1 DEF IInv, TypeOK, Consistent, RoutedToOwner, Local
<1> QED BY <1>2, LocalIInv DEF Upstreams, IInv, TypeOK

\* A creation whose wait failed is deleted upstream.
LEMMA CleanupIInv ==
  ASSUME IInv, NEW r \in Requests, CreateCleanup(r)
  PROVE  IInv'
<1> USE DEF CreateCleanup
<1>1. Local(r) /\ pc'[r] = "idle"
  BY AnswerLocal
<1>2. Upstreams
  BY DEF Upstreams, IInv, TypeOK, Consistent
<1> QED BY <1>1, <1>2, LocalIInv DEF IInv, TypeOK

\* The lookup of GetSandbox at an adapter.
LEMMA FindIInv ==
  ASSUME IInv, NEW r \in Requests, NEW kind \in {"kill", "exec"}, Find(r, kind)
  PROVE  IInv'
<1> USE LifecycleAssumption DEF Find, FindStep
<1>0. pc[r] \in {"find-kill", "find-exec"}
  OBVIOUS
<1>1. CASE todo[r] = {} /\ Answer(r)
  BY <1>1, AnswerLocal, LocalIInv DEF Upstreams, IInv, TypeOK
<1>2. ASSUME NEW b \in todo[r], owner[sb[r]] = b, to' = [to EXCEPT ![r] = b],
             todo' = [todo EXCEPT ![r] = {}], Step(r, kind), UNCHANGED <<sb, client>>
      PROVE  IInv'
  <2>1. RequestsOK'
    BY <1>0, <1>2 DEF IInv, TypeOK, RequestsOK, Steps, Step
  <2>2. Local(r) /\ pc'[r] = kind
    BY <1>0, <1>2, <2>1 DEF IInv, TypeOK, Consistent, Local, Step
  <2> QED BY <2>2, LocalIInv DEF Upstreams, IInv, TypeOK
<1>3. ASSUME NEW b \in todo[r], todo' = [todo EXCEPT ![r] = todo[r] \ {b}],
             UNCHANGED <<pc, sb, to, client>>
      PROVE  IInv'
  <2>1. RequestsOK'
    BY <1>0, <1>3 DEF IInv, TypeOK, RequestsOK
  <2>2. Local(r) /\ pc'[r] = pc[r]
    BY <1>0, <1>3, <2>1 DEF IInv, TypeOK, Consistent, RoutedToOwner, Local
  <2> QED BY <1>0, <2>2, LocalIInv DEF Upstreams, IInv, TypeOK
<1> QED BY <1>1, <1>2, <1>3

\* The upstream answers for a port.
LEMMA PortEndpointIInv ==
  ASSUME IInv, NEW r \in Requests, PortEndpoint(r)
  PROVE  IInv'
<1> USE LifecycleAssumption DEF PortEndpoint
<1>1. CASE todo[r] = {} /\ Answer(r)
  BY <1>1, AnswerLocal, LocalIInv DEF Upstreams, IInv, TypeOK
<1>2. ASSUME NEW b \in todo[r], owner[sb[r]] = b, to' = [to EXCEPT ![r] = b],
             todo' = [todo EXCEPT ![r] = {}], Step(r, "port-track"), UNCHANGED <<sb, client>>
      PROVE  IInv'
  <2>1. RequestsOK'
    BY <1>2 DEF IInv, TypeOK, RequestsOK, Steps, Step
  <2>2. Local(r) /\ pc'[r] = "port-track"
    BY <1>2, <2>1 DEF IInv, TypeOK, Consistent, Local, Step
  <2> QED BY <2>2, LocalIInv DEF Upstreams, IInv, TypeOK
<1>3. ASSUME NEW b \in todo[r], todo' = [todo EXCEPT ![r] = todo[r] \ {b}],
             UNCHANGED <<pc, sb, to, client>>
      PROVE  IInv'
  <2>1. RequestsOK'
    BY <1>3 DEF IInv, TypeOK, RequestsOK
  <2>2. Local(r) /\ pc'[r] = pc[r]
    BY <1>3, <2>1 DEF IInv, TypeOK, Consistent, RoutedToOwner, Local
  <2> QED BY <2>2, LocalIInv DEF Upstreams, IInv, TypeOK
<1> QED BY <1>1, <1>2, <1>3

\* CreateSandbox registers the sandbox in the mapping.
LEMMA RegisterIInv ==
  ASSUME IInv, NEW r \in Requests, Register(r)
  PROVE  IInv'
<1> USE LifecycleAssumption DEF Register, Step, MarkLate
<1>1. TypeOK'
  BY DEF IInv, TypeOK, Steps
<1>2. Consistent'
  BY DEF IInv, TypeOK, Consistent
<1>3. RoutedToOwner'
  BY DEF IInv, TypeOK, Consistent, RoutedToOwner
<1>4. Replying' /\ MappedWhileKnown'
  BY DEF IInv, TypeOK, Consistent, RoutedToOwner, Replying, MappedWhileKnown, Killing, Known
<1>5. Killing'
  BY DEF IInv, TypeOK, Consistent, RoutedToOwner, Killing
<1>6. KillLeavesNothing'
  BY DEF IInv, TypeOK, Consistent, RoutedToOwner, Killing, KillLeavesNothing, Known
<1> QED BY <1>1, <1>2, <1>3, <1>4, <1>5, <1>6 DEF IInv

\* The creation is answered: from now on clients know the sandbox.
LEMMA ReplyIInv ==
  ASSUME IInv, NEW r \in Requests, CreateReply(r)
  PROVE  IInv'
<1> USE LifecycleAssumption DEF CreateReply, Answer, Step
<1>1. TypeOK'
  BY DEF IInv, TypeOK, Steps
<1>2. Consistent'
  BY DEF IInv, TypeOK, Consistent
<1>3. RoutedToOwner'
  BY DEF IInv, TypeOK, Consistent, RoutedToOwner
<1>4. Replying' /\ MappedWhileKnown'
  BY DEF IInv, TypeOK, Consistent, RoutedToOwner, Replying, MappedWhileKnown, Killing, Known
<1>5. Killing'
  BY DEF IInv, TypeOK, Consistent, RoutedToOwner, Killing
<1>6. KillLeavesNothing'
  BY DEF IInv, TypeOK, Consistent, RoutedToOwner, Killing, KillLeavesNothing
<1> QED BY <1>1, <1>2, <1>3, <1>4, <1>5, <1>6 DEF IInv

-----------------------------------------------------------------------------
(* Steps of a kill.                                                        *)

\* KillSandbox deletes upstream.
LEMMA KillUpstreamIInv ==
  ASSUME IInv, NEW r \in Requests, KillUpstream(r)
  PROVE  IInv'
<1> USE DEF KillUpstream
<1>1. Upstreams
  BY DEF Upstreams, IInv, TypeOK, Consistent
<1>2. CASE Answer(r)
  BY <1>1, <1>2, AnswerLocal, LocalIInv DEF IInv, TypeOK
<1>3. CASE ~Answer(r)
  <2>1. /\ upstream' = [upstream EXCEPT ![sb[r]] = "gone"]
        /\ Step(r, "kill-execd") /\ UNCHANGED <<sb, to, todo, client>>
    BY <1>3
  <2>2. RequestsOK'
    BY <2>1 DEF IInv, TypeOK, RequestsOK, Steps, Step
  <2>3. Local(r) /\ upstream'[sb'[r]] = "gone"
    BY <2>1, <2>2 DEF IInv, TypeOK, Consistent, RoutedToOwner, Local, Step
  <2> QED BY <1>1, <2>3, LocalIInv DEF IInv, TypeOK
<1> QED BY <1>2, <1>3

\* KillSandbox drops the execd client.
LEMMA KillExecdIInv ==
  ASSUME IInv, NEW r \in Requests, KillExecd(r)
  PROVE  IInv'
<1> USE LifecycleAssumption DEF KillExecd, Step
<1>1. TypeOK'
  BY DEF IInv, TypeOK, Steps
<1>2. Consistent'
  BY DEF IInv, TypeOK, Consistent
<1>3. RoutedToOwner'
  BY DEF IInv, TypeOK, Consistent, RoutedToOwner
<1>4. Replying' /\ MappedWhileKnown'
  BY DEF IInv, TypeOK, Consistent, RoutedToOwner, Replying, MappedWhileKnown, Killing, Known
<1>5. Killing'
  BY DEF IInv, TypeOK, Consistent, RoutedToOwner, Killing
<1>6. KillLeavesNothing'
  BY DEF IInv, TypeOK, Consistent, RoutedToOwner, Killing, KillLeavesNothing
<1> QED BY <1>1, <1>2, <1>3, <1>4, <1>5, <1>6 DEF IInv

\* KillSandbox drops the tracked ports.
LEMMA KillPortsIInv ==
  ASSUME IInv, NEW r \in Requests, KillPorts(r)
  PROVE  IInv'
<1> USE LifecycleAssumption DEF KillPorts, Step
<1>1. TypeOK'
  BY DEF IInv, TypeOK, Steps
<1>2. Consistent'
  BY DEF IInv, TypeOK, Consistent
<1>3. RoutedToOwner'
  BY DEF IInv, TypeOK, Consistent, RoutedToOwner
<1>4. Replying' /\ MappedWhileKnown'
  BY DEF IInv, TypeOK, Consistent, RoutedToOwner, Replying, MappedWhileKnown, Killing, Known
<1>5. Killing'
  BY DEF IInv, TypeOK, Consistent, RoutedToOwner, Killing
<1>6. KillLeavesNothing'
  BY DEF IInv, TypeOK, Consistent, RoutedToOwner, Killing, KillLeavesNothing
<1> QED BY <1>1, <1>2, <1>3, <1>4, <1>5, <1>6 DEF IInv

\* KillSandbox drops the mapping and is answered.
LEMMA KillMappingIInv ==
  ASSUME IInv, NEW r \in Requests, KillMapping(r)
  PROVE  IInv'
<1> USE LifecycleAssumption DEF KillMapping, Answer, Step
<1>1. TypeOK'
  BY DEF IInv, TypeOK, Steps
<1>2. Consistent'
  BY DEF IInv, TypeOK, Consistent
<1>3. RoutedToOwner'
  BY DEF IInv, TypeOK, Consistent, RoutedToOwner
<1>4. Replying' /\ MappedWhileKnown'
  BY DEF IInv, TypeOK, Consistent, RoutedToOwner, Replying, MappedWhileKnown, Killing, Known
<1>5. Killing'
  BY DEF IInv, TypeOK, Consistent, RoutedToOwner, Killing
<1>6. KillLeavesNothing'
  BY DEF IInv, TypeOK, Consistent, RoutedToOwner, Killing, KillLeavesNothing
<1> QED BY <1>1, <1>2, <1>3, <1>4, <1>5, <1>6 DEF IInv

-----------------------------------------------------------------------------
(* Steps of an execution and of a port request.                            *)

\* An execution looks for a cached client.
LEMMA ExecLookupIInv ==
  ASSUME IInv, NEW r \in Requests, ExecLookup(r)
  PROVE  IInv'
<1> USE LifecycleAssumption DEF ExecLookup, Step
<1>0. to[r] \in Backends /\ sb[r] \in Sandboxes
  BY DEF IInv, TypeOK
<1>1. RequestsOK'
  <2>1. execd[to[r]][sb[r]] \in Requests \cup {NoClient}
    BY <1>0 DEF IInv, TypeOK
  <2>2. client' \in [Requests -> Requests \cup {NoClient}]
    <3>1. CASE UNCHANGED client
      BY <3>1 DEF IInv, TypeOK
    <3>2. CASE client' = [client EXCEPT ![r] = execd[to[r]][sb[r]]]
      BY <2>1, <3>2 DEF IInv, TypeOK
    <3> QED BY <3>1, <3>2
  <2>3. pc' \in [Requests -> Steps]
    <3>1. PICK st \in {"exec-run", "exec-endpoint"} : pc' = [pc EXCEPT ![r] = st]
      OBVIOUS
    <3> QED BY <3>1 DEF IInv, TypeOK, Steps
  <2> QED BY <1>0, <2>2, <2>3 DEF IInv, TypeOK, RequestsOK
<1>2. Local(r) /\ pc'[r] # "kill-execd"
  BY <1>0, <1>1 DEF IInv, TypeOK, Consistent, RoutedToOwner, Local
<1> QED BY <1>2, LocalIInv DEF Upstreams, IInv, TypeOK

\* An execution asks upstream for the endpoint.
LEMMA ExecEndpointIInv ==
  ASSUME IInv, NEW r \in Requests, ExecEndpoint(r)
  PROVE  IInv'
<1> USE DEF ExecEndpoint
<1>1. CASE TryNext(r)
  BY <1>1, TryNextLocal, LocalIInv DEF Upstreams, IInv, TypeOK
<1>2. CASE ~TryNext(r)
  <2>1. owner[sb[r]] = to[r] /\ Step(r, "exec-insert") /\ UNCHANGED <<sb, to, todo, client>>
    BY <1>2
  <2>2. RequestsOK'
    BY <2>1 DEF IInv, TypeOK, RequestsOK, Steps, Step
  <2>3. Local(r) /\ pc'[r] = "exec-insert"
    BY <2>1, <2>2 DEF IInv, TypeOK, Consistent, Local, Step
  <2> QED BY <2>3, LocalIInv DEF Upstreams, IInv, TypeOK
<1> QED BY <1>1, <1>2

\* An execution enters its client, unless another has.
LEMMA ExecInsertIInv ==
  ASSUME IInv, NEW r \in Requests, ExecInsert(r)
  PROVE  IInv'
<1> USE LifecycleAssumption DEF ExecInsert, Step
<1>0. to[r] \in Backends /\ sb[r] \in Sandboxes /\ to[r] = owner[sb[r]]
  BY DEF IInv, TypeOK, RoutedToOwner
<1>1. CASE execd[to[r]][sb[r]] # NoClient
  <2>1. RequestsOK'
    BY <1>0, <1>1 DEF IInv, TypeOK, RequestsOK, Steps
  <2>2. Local(r) /\ pc'[r] = "exec-run"
    BY <1>0, <1>1, <2>1 DEF IInv, TypeOK, Consistent, Local
  <2> QED BY <1>1, <2>2, LocalIInv DEF Upstreams, IInv, TypeOK
<1>2. CASE execd[to[r]][sb[r]] = NoClient
  <2> USE DEF MarkLate
  <2>0. \A b \in Backends, s \in Sandboxes :
          execd'[b][s] = IF b = to[r] /\ s = sb[r] THEN r ELSE execd[b][s]
    BY <1>0, <1>2 DEF IInv, TypeOK
  <2>1. TypeOK'
    <3>1. execd' \in [Backends -> [Sandboxes -> Requests \cup {NoClient}]]
      <4> DEFINE mine == [execd[to[r]] EXCEPT ![sb[r]] = r]
      <4>1. mine \in [Sandboxes -> Requests \cup {NoClient}]
        BY <1>0 DEF IInv, TypeOK
      <4>2. execd' = [execd EXCEPT ![to[r]] = mine]
        BY <1>2
      <4> HIDE DEF mine
      <4> QED BY <4>1, <4>2 DEF IInv, TypeOK
    <3>2. pc' \in [Requests -> Steps] /\ client' \in [Requests -> Requests \cup {NoClient}]
      BY <1>2 DEF IInv, TypeOK, Steps
    <3>3. late' \subseteq Sandboxes
      BY <1>0, <1>2 DEF IInv, TypeOK
    <3> QED BY <1>0, <1>2, <3>1, <3>2, <3>3 DEF IInv, TypeOK
  <2>2. Consistent'
    BY <1>0, <1>2, <2>0 DEF IInv, TypeOK, Consistent
  <2>3. RoutedToOwner'
    BY <1>0, <1>2, <2>0 DEF IInv, TypeOK, Consistent, RoutedToOwner
  <2>4. Replying' /\ MappedWhileKnown'
    BY <1>2 DEF IInv, TypeOK, Replying, MappedWhileKnown, Known
  <2>5. Killing' /\ KillLeavesNothing'
    <3>1. upstream[sb[r]] = "gone" => sb[r] \in late'
      BY <1>2 DEF Known
    <3>2. ASSUME NEW s \in Sandboxes, s \notin late', upstream[s] = "gone"
          PROVE  s \notin late /\ \A b \in Backends : execd'[b][s] = execd[b][s]
      BY <1>2, <2>0, <3>1, <3>2
    <3>3. ASSUME NEW q \in Requests, pc'[q] \in {"kill-execd", "kill-ports", "kill-mapping"}
          PROVE  pc'[q] = pc[q] /\ sb[q] \in Sandboxes /\ upstream[sb[q]] = "gone"
      BY <3>3 DEF IInv, TypeOK, Killing
    <3>4. Killing'
      BY <1>2, <3>2, <3>3 DEF IInv, TypeOK, Killing
    <3>5. KillLeavesNothing'
      BY <1>2, <3>2 DEF IInv, TypeOK, Killing, KillLeavesNothing
    <3> QED BY <3>4, <3>5
  <2> QED BY <2>1, <2>2, <2>3, <2>4, <2>5 DEF IInv
<1> QED BY <1>1, <1>2

\* An execution runs and is answered.
LEMMA ExecRunIInv ==
  ASSUME IInv, NEW r \in Requests, ExecRun(r)
  PROVE  IInv'
BY AnswerLocal, TryNextLocal, LocalIInv DEF ExecRun, Upstreams, IInv, TypeOK

\* The endpoint of a port is tracked.
LEMMA PortTrackIInv ==
  ASSUME IInv, NEW r \in Requests, PortTrack(r)
  PROVE  IInv'
<1> USE LifecycleAssumption DEF PortTrack, MarkLate, Answer, Step
<1>0. to[r] \in Backends /\ sb[r] \in Sandboxes /\ to[r] = owner[sb[r]]
  BY DEF IInv, TypeOK, RoutedToOwner
<1>1. TypeOK'
  BY DEF IInv, TypeOK, Steps
<1>2. Consistent'
  BY DEF IInv, TypeOK, Consistent
<1>3. RoutedToOwner'
  <2>1. \A b \in Backends, s \in Sandboxes : s \in ports'[b] => s \in ports[b] \/ b = owner[s]
    BY <1>0 DEF IInv, TypeOK
  <2>2. \A q \in Requests : q # r => pc'[q] = pc[q] /\ sb'[q] = sb[q] /\ to'[q] = to[q]
    BY DEF IInv, TypeOK
  <2>3. to'[r] = NoBackend
    BY DEF IInv, TypeOK
  <2> QED BY <2>1, <2>2, <2>3 DEF IInv, TypeOK, RoutedToOwner
<1>4. Replying' /\ MappedWhileKnown'
  BY DEF IInv, TypeOK, Consistent, RoutedToOwner, Replying, MappedWhileKnown, Killing, Known
<1>5. ASSUME NEW s \in Sandboxes, s \notin late', upstream[s] = "gone"
      PROVE  s \notin late /\ \A b \in Backends : s \in ports'[b] => s \in ports[b]
  <2>1. s # sb[r]
    BY <1>0, <1>5 DEF Known
  <2>2. s \notin late
    BY <1>5
  <2> QED BY <1>0, <2>1, <2>2 DEF IInv, TypeOK
<1>6. ASSUME NEW q \in Requests, pc'[q] \in {"kill-execd", "kill-ports", "kill-mapping"}
      PROVE  pc'[q] = pc[q] /\ sb'[q] = sb[q] /\ sb[q] \in Sandboxes /\ upstream[sb[q]] = "gone"
  BY <1>6 DEF IInv, TypeOK, Killing
<1>7. Killing'
  BY <1>5, <1>6 DEF IInv, TypeOK, Killing
<1>8. KillLeavesNothing'
  BY <1>5 DEF IInv, TypeOK, Killing, KillLeavesNothing
<1> QED BY <1>1, <1>2, <1>3, <1>4, <1>7, <1>8 DEF IInv

-----------------------------------------------------------------------------
(* The backend on its own, and the theorems.                               *)

\* At the backend a sandbox comes up, fails or times out by itself.
LEMMA UpstreamIInv ==
  ASSUME IInv, NEW s \in Sandboxes, Upstream(s)
  PROVE  IInv'
<1> USE DEF Upstream, Known
<1>1. TypeOK'
  BY DEF IInv, TypeOK
<1>2. \A x \in Sandboxes : /\ (upstream'[x] = "none") <=> (upstream[x] = "none")
                           /\ upstream[x] = "gone" => upstream'[x] = "gone"
                           /\ Known(x)' => Known(x)
  BY DEF IInv, TypeOK
<1>3. Consistent' /\ RoutedToOwner'
  BY <1>2 DEF IInv, TypeOK, Consistent, RoutedToOwner
<1>4. Replying' /\ MappedWhileKnown'
  BY <1>2 DEF IInv, TypeOK, Replying, MappedWhileKnown
<1>5. Killing' /\ KillLeavesNothing'
  BY <1>2 DEF IInv, TypeOK, Killing, KillLeavesNothing
<1> QED BY <1>1, <1>3, <1>4, <1>5 DEF IInv

\* A step that changes nothing keeps the invariant.
LEMMA StutterIInv ==
  ASSUME IInv, UNCHANGED vars
  PROVE  IInv'
<1> USE DEF vars
<1>1. TypeOK'
  BY DEF IInv, TypeOK
<1>2. Consistent' /\ RoutedToOwner'
  BY DEF IInv, Consistent, RoutedToOwner
<1>3. Replying' /\ MappedWhileKnown'
  BY DEF IInv, Replying, MappedWhileKnown, Known
<1>4. Killing' /\ KillLeavesNothing'
  BY DEF IInv, Killing, KillLeavesNothing
<1> QED BY <1>1, <1>2, <1>3, <1>4 DEF IInv

\* The inductive invariant holds: no handler, no step of the adapter and no
\* change at a backend breaks it, however they interleave.
THEOREM Inductive == Spec => []IInv
<1>1. ASSUME IInv, [Next]_vars PROVE IInv'
  <2>1. ASSUME NEW r \in Requests, CreateSandbox(r) PROVE IInv'
    BY <1>1, <2>1, CreateIInv
  <2>2. ASSUME NEW r \in Requests,
               KillSandboxHandler(r) \/ ExecuteCodeHandler(r) \/ RunCommandHandler(r)
        PROVE  IInv'
    BY <1>1, <2>2, ArriveIInv DEF KillSandboxHandler, ExecuteCodeHandler, RunCommandHandler
  <2>3. ASSUME NEW r \in Requests,
               \/ ReadFile(r) \/ UploadFile(r) \/ DownloadFile(r) \/ ListFiles(r)
               \/ MakeDir(r) \/ RemoveFile(r) \/ MoveFile(r) \/ SetEnvs(r)
        PROVE  IInv'
    BY <1>1, <2>3, ScanIInv
    DEF ReadFile, UploadFile, DownloadFile, ListFiles, MakeDir, RemoveFile, MoveFile, SetEnvs
  <2>4. ASSUME NEW r \in Requests, GetPortURLHandler(r) PROVE IInv'
    BY <1>1, <2>4, GetPortIInv
  <2>5. ASSUME NEW r \in Requests, Serve(r) PROVE IInv'
    <3> USE <1>1
    <3>1. CASE waitRunning(r) \/ CreateCleanup(r) \/ Register(r) \/ CreateReply(r)
      BY <3>1, WaitIInv, CleanupIInv, RegisterIInv, ReplyIInv
    <3>2. CASE Find(r, "kill") \/ Find(r, "exec")
      BY <3>2, FindIInv
    <3>3. CASE KillUpstream(r) \/ KillExecd(r) \/ KillPorts(r) \/ KillMapping(r)
      BY <3>3, KillUpstreamIInv, KillExecdIInv, KillPortsIInv, KillMappingIInv
    <3>4. CASE ExecLookup(r) \/ ExecEndpoint(r) \/ ExecInsert(r) \/ ExecRun(r)
      BY <3>4, ExecLookupIInv, ExecEndpointIInv, ExecInsertIInv, ExecRunIInv
    <3>5. CASE PortEndpoint(r) \/ PortTrack(r)
      BY <3>5, PortEndpointIInv, PortTrackIInv
    <3> QED BY <2>5, <3>1, <3>2, <3>3, <3>4, <3>5 DEF Serve
  <2>6. ASSUME NEW s \in Sandboxes, Upstream(s) PROVE IInv'
    BY <1>1, <2>6, UpstreamIInv
  <2>7. CASE UNCHANGED vars
    BY <1>1, <2>7, StutterIInv
  <2> QED BY <1>1, <2>1, <2>2, <2>3, <2>4, <2>5, <2>6, <2>7 DEF Next, Terminated
<1> QED BY <1>1, InitIInv, PTL DEF Spec

\* For any backends, sandboxes and requests, no adapter but the owner is sent
\* a kill or an execution of a sandbox, or keeps state for it.
THEOREM OwnerRouting == Spec => []RoutedToOwner
BY Inductive, PTL DEF IInv

\* For any instance a sandbox whose creation was answered is in the registry's
\* mapping while its backend knows it.
THEOREM AnnouncedMapped == Spec => []MappedWhileKnown
BY Inductive, PTL DEF IInv

\* For any instance a kill that was answered leaves no client, port or mapping
\* behind, save what a request entered after the sandbox was gone upstream.
THEOREM KillCleans == Spec => []KillLeavesNothing
BY Inductive, PTL DEF IInv

=============================================================================
