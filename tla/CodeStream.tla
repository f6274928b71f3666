------------------------------ MODULE CodeStream ------------------------------
(* Streaming code execution over one client WebSocket: the handler's read   *)
(* loop and its wsCodeStream bridge (internal/api/v1/ws_handler.go), one    *)
(* goroutine per code/exec frame, and the ExecuteCodeStream of each adapter *)
(* (opensandbox, agentsandbox, mock; e2bcloud with streamer.go and the      *)
(* synchronous fallback).  stdout and stderr are one kind of frame,         *)
(* "output".  The bridge's mutex makes each of its methods one step.  The   *)
(* keepAlive that answers a client's keepAlive changes nothing else and is  *)
(* left out.                                                                *)
EXTENDS Naturals, Sequences, FiniteSets

CONSTANTS
  Execs,       \* code/exec frames a client may send
  Adapters,    \* adapters the connection may be served by
  None,        \* no adapter
  MaxOutput    \* output frames of one execution

ASSUME AdaptersAssumption ==
  Adapters \subseteq {"opensandbox", "agentsandbox", "mock", "e2bcloud"}

VARIABLES
  adapter,    \* the adapter resolveAdapter chose
  handler,    \* "connect", "refused", "reading", "returning" or "gone"
  conn,       \* the client's end: "open" or "lost"
  canceled,   \* wsCodeStream.canceled
  closed,     \* wsCodeStream.closed: a close frame is on the wire
  wire,       \* frames written to the client: [exec, type]
  pc,         \* per execution goroutine
  mode,       \* "stream", or "sync" when the output is sent after the fact
  left,       \* output frames still to come
  fallback,   \* isWebSocketNotAvailable(err)
  envd,       \* the e2bcloud connection: "none", "open" or "closed"
  failed,     \* ExecuteCodeStream returns an error
  aborted     \* ghost: executions under way when a cancel frame was read
vars == <<adapter, handler, conn, canceled, closed, wire, pc, mode, left,
          fallback, envd, failed, aborted>>
bridge == <<canceled, closed, wire>>
client == <<adapter, handler, conn, aborted>>
local  == <<mode, left, fallback, envd, failed>>

Init ==
  /\ adapter = None /\ handler = "connect" /\ conn = "open"
  /\ canceled = FALSE /\ closed = FALSE /\ wire = <<>>
  /\ pc = [e \in Execs |-> "none"] /\ mode = [e \in Execs |-> "stream"]
  /\ left = [e \in Execs |-> 0] /\ fallback = [e \in Execs |-> FALSE]
  /\ envd = [e \in Execs |-> "none"] /\ failed = [e \in Execs |-> FALSE]
  /\ aborted = {}

\* The request's context is canceled when the handler has returned.
ctxDone == handler = "gone"
Goto(e, p) == pc' = [pc EXCEPT ![e] = p]
\* streamer.Stream, streamFromSync and the mock close the stream before returning.
Closes == adapter \in {"mock", "e2bcloud"}
\* These run ExecuteCode and send its output afterwards.
Synchronous == {"agentsandbox", "mock"}

-------------------------------------------------------------------------------
(* The bridge.                                                              *)

Write(e, t) == wire' = IF conn = "open" THEN Append(wire, [exec |-> e, type |-> t]) ELSE wire

\* Send swallows the message once the stream is closed or canceled.
Send(e, t) == IF closed \/ canceled THEN UNCHANGED wire ELSE Write(e, t)
SendFails == ~closed /\ ~canceled /\ conn = "lost"

\* Mutant: they do not look at closed either.
sendFrameMut(e, t) == Write(e, t)
\* sendError and sendKeepAlive are not silenced by a cancel.
sendFrame(e, t) == IF closed THEN UNCHANGED wire ELSE Write(e, t)

-------------------------------------------------------------------------------
(* The handler.                                                             *)

\* resolveAdapter: the mapped adapter, or the router's choice; an invalid
\* token or no backend refuses the upgrade.
Connect ==
  /\ handler = "connect"
  /\ \/ \E a \in Adapters : adapter' = a /\ handler' = "reading"
     \/ handler' = "refused" /\ UNCHANGED adapter
  /\ UNCHANGED <<conn, aborted, bridge, pc, local>>

ReadExec(e) ==
  /\ handler = "reading" /\ conn = "open" /\ pc[e] = "none"
  /\ Goto(e, "reset")
  /\ UNCHANGED <<client, bridge, local>>

ReadCancel ==
  /\ handler = "reading" /\ conn = "open"
  /\ canceled' = TRUE
  /\ aborted' = aborted \cup {e \in Execs : pc[e] \notin {"none", "done"}}
  /\ UNCHANGED <<adapter, handler, conn, closed, wire, pc, local>>

\* The client goes away, or answers the close frame.
ClientGone ==
  /\ handler = "reading" /\ conn = "open"
  /\ conn' = "lost"
  /\ UNCHANGED <<adapter, handler, aborted, bridge, pc, local>>

ReadError ==
  /\ handler = "reading" /\ conn = "lost"
  /\ handler' = "returning"
  /\ UNCHANGED <<adapter, conn, aborted, bridge, pc, local>>

\* The deferred bridge.close() and conn.Close(), then the context ends.
HandlerReturn ==
  /\ handler = "returning"
  /\ handler' = "gone" /\ closed' = TRUE
  /\ UNCHANGED <<adapter, conn, aborted, canceled, wire, pc, local>>

-------------------------------------------------------------------------------
(* handleCodeExec.                                                          *)

\* Mutant: the flag of an earlier cancel is left set.
ResetMut(e) ==
  /\ pc[e] = "reset"
  /\ mode' = [mode EXCEPT ![e] = IF adapter \in Synchronous THEN "sync" ELSE "stream"]
  /\ Goto(e, "start")
  /\ UNCHANGED <<client, bridge, left, fallback, envd, failed>>

Reset(e) ==
  /\ pc[e] = "reset"
  /\ canceled' = FALSE
  /\ mode' = [mode EXCEPT ![e] = IF adapter \in Synchronous THEN "sync" ELSE "stream"]
  /\ Goto(e, "start")
  /\ UNCHANGED <<client, closed, wire, left, fallback, envd, failed>>

\* The execd client is obtained, ExecuteCode returns its output, or connect
\* and sendExecFrame succeed.
Started(e) ==
  /\ pc[e] = "start"
  /\ \E n \in 0..MaxOutput : left' = [left EXCEPT ![e] = n]
  /\ envd' = [envd EXCEPT ![e] = IF adapter = "e2bcloud" /\ mode[e] = "stream" THEN "open" ELSE @]
  /\ Goto(e, "stream")
  /\ UNCHANGED <<client, bridge, mode, fallback, failed>>

\* They fail.  Only a failed dial of a live request leads to the fallback.
StartFails(e) ==
  /\ pc[e] = "start"
  /\ \E unavailable \in BOOLEAN :
       /\ unavailable => adapter = "e2bcloud" /\ mode[e] = "stream" /\ ~ctxDone
       /\ fallback' = [fallback EXCEPT ![e] = unavailable]
  /\ Goto(e, "fail")
  /\ UNCHANGED <<client, bridge, mode, left, envd, failed>>

\* A failed write ends an opensandbox or e2bcloud stream; the synchronous
\* adapters ignore it.
Output(e) ==
  /\ pc[e] = "stream" /\ left[e] > 0 /\ envd[e] # "closed"
  /\ left' = [left EXCEPT ![e] = @ - 1]
  /\ Send(e, "output")
  /\ LET broken == SendFails /\ mode[e] = "stream"
     IN  /\ Goto(e, IF ~broken THEN "stream" ELSE IF adapter = "e2bcloud" THEN "leave" ELSE "fail")
         /\ failed' = [failed EXCEPT ![e] = broken /\ adapter = "e2bcloud"]
  /\ UNCHANGED <<client, canceled, closed, mode, fallback, envd>>

\* The execution is over; the result frame is next.
Finish(e) ==
  /\ pc[e] = "stream" /\ left[e] = 0 /\ envd[e] # "closed"
  /\ Goto(e, "result")
  /\ UNCHANGED <<client, bridge, local>>

\* execClient.RunCommand breaks off, or its context is done.
RunFails(e) ==
  /\ pc[e] = "stream" /\ adapter = "opensandbox"
  /\ Goto(e, "fail")
  /\ UNCHANGED <<client, bridge, local>>

\* ReadMessage fails, an error frame arrives, or readLoop sees the context done.
ReadFails(e) ==
  /\ pc[e] = "stream" /\ envd[e] # "none" /\ mode[e] = "stream"
  /\ Goto(e, "fail")
  /\ UNCHANGED <<client, bridge, local>>

\* Mutant: nothing watches the context while ReadMessage blocks.
CloseConnMut(e) == FALSE

\* Stream's goroutine closes the connection under readLoop's ReadMessage.
CloseConn(e) ==
  /\ envd[e] = "open" /\ ctxDone
  /\ envd' = [envd EXCEPT ![e] = "closed"]
  /\ UNCHANGED <<client, bridge, pc, mode, left, fallback, failed>>

\* envd closes normally without a result: handleReadError returns nil.
NormalClosure(e) ==
  /\ pc[e] = "stream" /\ envd[e] = "open" /\ ~ctxDone
  /\ Goto(e, "leave")
  /\ UNCHANGED <<client, bridge, local>>

SendResult(e) ==
  /\ pc[e] = "result"
  /\ Send(e, "result")
  /\ failed' = [failed EXCEPT ![e] = SendFails /\ (~Closes \/ fallback[e])]
  /\ Goto(e, "leave")
  /\ UNCHANGED <<client, canceled, closed, mode, left, fallback, envd>>

\* opensandbox and agentsandbox return what Send returns, the others the error.
SendFailure(e) ==
  /\ pc[e] = "fail"
  /\ Send(e, "error")
  /\ failed' = [failed EXCEPT ![e] = Closes \/ SendFails]
  /\ Goto(e, "leave")
  /\ UNCHANGED <<client, canceled, closed, mode, left, fallback, envd>>

\* The deferred closes; then streamFromSync when WebSocket is not available.
Leave(e) ==
  /\ pc[e] = "leave"
  /\ closed' = (closed \/ Closes)
  /\ envd' = [envd EXCEPT ![e] = IF @ = "open" THEN "closed" ELSE @]
  /\ IF fallback[e] /\ mode[e] = "stream"
     THEN Goto(e, "start") /\ mode' = [mode EXCEPT ![e] = "sync"]
     ELSE Goto(e, "tail") /\ UNCHANGED mode
  /\ UNCHANGED <<client, canceled, wire, left, fallback, failed>>

\* sendError when ExecuteCodeStream failed, then sendKeepAlive.
SendError(e) ==
  /\ pc[e] = "tail"
  /\ IF failed[e] THEN sendFrame(e, "error") ELSE UNCHANGED wire
  /\ Goto(e, "keepAlive")
  /\ UNCHANGED <<client, canceled, closed, local>>

KeepAlive(e) ==
  /\ pc[e] = "keepAlive"
  /\ sendFrame(e, "keepAlive")
  /\ Goto(e, "done")
  /\ UNCHANGED <<client, canceled, closed, local>>

Ended == handler \in {"refused", "gone"} /\ \A e \in Execs : pc[e] \in {"none", "done"}

Serve == ReadCancel \/ ClientGone \/ ReadError \/ HandlerReturn
Exec(e) ==
  \/ ReadExec(e) \/ Reset(e) \/ Started(e) \/ StartFails(e) \/ Output(e) \/ Finish(e)
  \/ RunFails(e) \/ ReadFails(e) \/ CloseConn(e) \/ NormalClosure(e) \/ SendResult(e) \/ SendFailure(e)
  \/ Leave(e) \/ SendError(e) \/ KeepAlive(e)
Next == Connect \/ Serve \/ (\E e \in Execs : Exec(e)) \/ (Ended /\ UNCHANGED vars)

Spec == Init /\ [][Next]_vars

\* The Go scheduler runs every goroutine that is not waiting for the client
\* or for a backend; calls given the request's context end when it is done.
Woken(e) ==
  \/ Reset(e) \/ (ctxDone /\ StartFails(e)) \/ CloseConn(e)
  \/ (ctxDone /\ RunFails(e)) \/ (envd[e] = "closed" /\ ReadFails(e))
  \/ (mode[e] = "sync" /\ (Output(e) \/ Finish(e)))
  \/ SendResult(e) \/ SendFailure(e) \/ Leave(e) \/ SendError(e) \/ KeepAlive(e)
FairSpec ==
  Spec /\ WF_vars(ReadError) /\ WF_vars(HandlerReturn) /\ \A e \in Execs : WF_vars(Woken(e))
-------------------------------------------------------------------------------
(* Properties.                                                              *)

(* Types, and a bridge is closed only by the handler or a closing adapter.  *)
TypeOK ==
  /\ adapter \in Adapters \cup {None} /\ conn \in {"open", "lost"}
  /\ handler \in {"connect", "refused", "reading", "returning", "gone"}
  /\ canceled \in BOOLEAN /\ closed \in BOOLEAN
  /\ closed => Closes \/ handler = "gone"
  /\ \A i \in DOMAIN wire :
       /\ wire[i].exec \in Execs \cup {None}
       /\ wire[i].type \in {"output", "result", "error", "keepAlive"}
  /\ aborted \subseteq Execs
  /\ pc \in [Execs -> {"none", "reset", "start", "stream", "result", "fail", "leave",
                       "tail", "keepAlive", "done"}]
  /\ mode \in [Execs -> {"stream", "sync"}] /\ left \in [Execs -> 0..MaxOutput]
  /\ fallback \in [Execs -> BOOLEAN] /\ failed \in [Execs -> BOOLEAN]
  /\ envd \in [Execs -> {"none", "open", "closed"}]

Frames(e, types) == {i \in DOMAIN wire : wire[i].exec = e /\ wire[i].type \in types}
Terminal == {"result", "error"}

(* The client sees at most one result or error frame per execution, and no  *)
(* output after it, whatever adapter error, fallback, cancel or concurrent  *)
(* execution comes between (Stream sends its own error frame and returns an *)
(* error that handleCodeExec reports again).                                *)
TerminalLast ==
  \A e \in Execs : \A i \in Frames(e, Terminal) :
    \A j \in Frames(e, Terminal \cup {"output"}) : j <= i

(* An execution that is over and was not under way when a cancel was read   *)
(* has told the client how it ended, as long as the connection is there and *)
(* no adapter closed the stream: the cancel meant for an earlier execution  *)
(* never silences it.                                                       *)
Answered ==
  \A e \in Execs :
    pc[e] = "done" /\ e \notin aborted /\ conn = "open" /\ ~closed
      => Frames(e, Terminal) # {}

(* Once the client is gone every execution goroutine ends: ctx cancellation *)
(* closes the envd connection under a blocked ReadMessage, and ends the     *)
(* calls that were given the request's context.                             *)
ExecEnds == \A e \in Execs : conn = "lost" ~> pc[e] \in {"none", "done"}

(* 2026-09-08-e2bcloud-execute-code-stream-design.md:170 "Automatic         *)
(* fallback to synchronous mode when WS is unavailable": the output of the  *)
(* fallback's execution reaches the client.                                 *)
FallbackDelivers ==
  \A e \in Execs :
    (pc[e] = "done" /\ fallback[e] /\ ~failed[e] /\ e \notin aborted /\ conn = "open")
      => Frames(e, {"result"}) # {}
===============================================================================
