------------------------------ MODULE CloudClient ------------------------------
(* The E2B Cloud adapter's calls over an unreliable network: do, its        *)
(* retries and handleResponse (internal/adapter/e2bcloud/client.go), and    *)
(* CreateSandbox and KillSandbox with the sandbox-to-backend mapping        *)
(* (adapter.go).  A request may be lost, or reach the service late, after   *)
(* the client's timeout; a response may be lost.  A sandbox is named by the *)
(* call and the attempt that created it.                                    *)
EXTENDS Naturals, FiniteSets

CONSTANTS
  Calls,
  None,
  MaxRetries

VARIABLES
  cloud,     \* the service: sandboxes that run
  created,   \* the service: sandboxes ever created
  late,      \* requests that will reach the service after their timeout
  mapping,   \* sandboxes registered in SandboxBackend
  kind,      \* per call: "create" or "kill"
  pc,        \* per call: "idle", "ready", "backoff", "wire", "get" or "done"
  attempt,   \* per call
  target,    \* per call: the sandbox it kills, or was answered
  reply,     \* per call: "none", "ok" or "error"
  ctx        \* calls whose context is canceled
vars == <<cloud, created, late, mapping, kind, pc, attempt, target, reply, ctx>>
service == <<cloud, created, late>>

Ids == Calls \X (0..MaxRetries)
Messages == [call : Calls, kind : {"create", "kill"}, id : Ids]

Init ==
  /\ cloud = {} /\ created = {} /\ late = {} /\ mapping = {} /\ ctx = {}
  /\ kind = [c \in Calls |-> "create"] /\ pc = [c \in Calls |-> "idle"]
  /\ attempt = [c \in Calls |-> 0] /\ target = [c \in Calls |-> None]
  /\ reply = [c \in Calls |-> "none"]

Create(c) ==
  /\ pc[c] = "idle"
  /\ kind' = [kind EXCEPT ![c] = "create"]
  /\ pc' = [pc EXCEPT ![c] = "ready"]
  /\ UNCHANGED <<service, mapping, attempt, target, reply, ctx>>

Kill(c) ==
  /\ pc[c] = "idle"
  /\ \E s \in mapping : target' = [target EXCEPT ![c] = s]
  /\ kind' = [kind EXCEPT ![c] = "kill"]
  /\ pc' = [pc EXCEPT ![c] = "ready"]
  /\ UNCHANGED <<service, mapping, attempt, reply, ctx>>

Cancel(c) ==
  /\ pc[c] \notin {"idle", "done"} /\ c \notin ctx
  /\ ctx' = ctx \cup {c}
  /\ UNCHANGED <<service, mapping, kind, pc, attempt, target, reply>>

-------------------------------------------------------------------------------
(* The service.                                                             *)

\* The request of call c's current attempt.
Request(c) ==
  [call |-> c, kind |-> kind[c],
   id |-> IF kind[c] = "create" THEN <<c, attempt[c]>> ELSE target[c]]

Serve(q) ==
  /\ cloud' = IF q.kind = "create" THEN cloud \cup {q.id} ELSE cloud \ {q.id}
  /\ created' = IF q.kind = "create" THEN created \cup {q.id} ELSE created

\* A request whose sender gave up arrives.
Late ==
  /\ \E q \in late : Serve(q) /\ late' = late \ {q}
  /\ UNCHANGED <<mapping, kind, pc, attempt, target, reply, ctx>>

-------------------------------------------------------------------------------
(* Client.do.                                                               *)

Return(c, r) ==
  /\ pc' = [pc EXCEPT ![c] = "done"]
  /\ reply' = [reply EXCEPT ![c] = r]

\* The top of the loop, and the backoff of a retry: both watch the context.
Attempt(c) ==
  /\ pc[c] \in {"ready", "backoff"}
  /\ IF c \in ctx THEN Return(c, "error")
     ELSE pc' = [pc EXCEPT ![c] = "wire"] /\ UNCHANGED reply
  /\ UNCHANGED <<service, mapping, kind, attempt, target, ctx>>

\* A retryable error: the next attempt, or the last error.
Retry(c) ==
  IF attempt[c] < MaxRetries
  THEN /\ attempt' = [attempt EXCEPT ![c] = @ + 1]
       /\ pc' = [pc EXCEPT ![c] = "backoff"]
       /\ UNCHANGED reply
  ELSE Return(c, "error") /\ UNCHANGED attempt

\* httpClient.Do fails: the request was lost, is still under way, or was
\* served and its response lost.
NetworkError(c) ==
  /\ pc[c] = "wire"
  /\ \/ UNCHANGED service
     \/ late' = late \cup {Request(c)} /\ UNCHANGED <<cloud, created>>
     \/ Serve(Request(c)) /\ UNCHANGED late
  /\ Retry(c)
  /\ UNCHANGED <<mapping, kind, target, ctx>>

\* 429, or a 5xx from before or after the request was served.
RetryableStatus(c) ==
  /\ pc[c] = "wire"
  /\ UNCHANGED service \/ (Serve(Request(c)) /\ UNCHANGED late)
  /\ Retry(c)
  /\ UNCHANGED <<mapping, kind, target, ctx>>

\* A 4xx, as for a sandbox that does not exist, is final.
Refused(c) ==
  /\ pc[c] = "wire"
  /\ kind[c] = "kill" => target[c] \notin cloud
  /\ Return(c, "error")
  /\ UNCHANGED <<service, mapping, kind, attempt, target, ctx>>

\* A kill that is served also removes the mapping.
Succeed(c) ==
  /\ pc[c] = "wire" /\ (kind[c] = "kill" => target[c] \in cloud)
  /\ Serve(Request(c))
  /\ IF kind[c] = "kill"
     THEN mapping' = mapping \ {target[c]} /\ Return(c, "ok") /\ UNCHANGED target
     ELSE /\ target' = [target EXCEPT ![c] = <<c, attempt[c]>>]
          /\ pc' = [pc EXCEPT ![c] = "get"]
          /\ UNCHANGED <<mapping, reply>>
  /\ UNCHANGED <<late, kind, attempt, ctx>>

\* Mutant: the sandbox is registered only if GetSandbox worked, and it did not.
GetInfoMut(c) ==
  /\ pc[c] = "get"
  /\ Return(c, "ok")
  /\ UNCHANGED <<service, mapping, kind, attempt, target, ctx>>

\* CreateSandbox fetches the full information, registers the sandbox whether
\* or not that worked, and answers.
GetInfo(c) ==
  /\ pc[c] = "get"
  /\ mapping' = mapping \cup {target[c]}
  /\ Return(c, "ok")
  /\ UNCHANGED <<service, kind, attempt, target, ctx>>

Ended == (\A c \in Calls : pc[c] = "done") /\ late = {} /\ UNCHANGED vars

Step(c) ==
  \/ Attempt(c) \/ NetworkError(c) \/ RetryableStatus(c) \/ Refused(c) \/ Succeed(c) \/ GetInfo(c)
Next == Late \/ Ended \/ \E c \in Calls : Create(c) \/ Kill(c) \/ Cancel(c) \/ Step(c)

Spec == Init /\ [][Next]_vars

-------------------------------------------------------------------------------
(* Properties.                                                              *)

(* Types; only created sandboxes run, and only answered ones are mapped.    *)
TypeOK ==
  /\ created \subseteq Ids /\ cloud \subseteq created /\ late \subseteq Messages
  /\ mapping \subseteq created /\ ctx \subseteq Calls
  /\ kind \in [Calls -> {"create", "kill"}] /\ reply \in [Calls -> {"none", "ok", "error"}]
  /\ pc \in [Calls -> {"idle", "ready", "backoff", "wire", "get", "done"}]
  /\ attempt \in [Calls -> 0..MaxRetries] /\ target \in [Calls -> Ids \cup {None}]

(* A kill that was answered with success is done: the sandbox is gone from  *)
(* the service and from the mapping, also when earlier attempts were lost   *)
(* or are still to arrive, and nothing brings it back.                      *)
KillHonest ==
  \A c \in Calls : kind[c] = "kill" /\ reply[c] = "ok" => target[c] \notin cloud \cup mapping

(* A sandbox whose creation was answered stays mapped until a kill removes  *)
(* it from the service, so that later requests find its backend.            *)
AnsweredMapped ==
  \A c \in Calls :
    kind[c] = "create" /\ reply[c] = "ok" /\ target[c] \in cloud => target[c] \in mapping

===============================================================================
