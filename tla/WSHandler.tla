------------------------------ MODULE WSHandler ------------------------------
(***************************************************************************)
(* The WebSocket endpoint of internal/streaming: WSHandler with its read   *)
(* and write pumps and the frame sender over its write channel             *)
(* (ws_handler.go), and the BufferedSender in front of that sender         *)
(* (frame.go).  Goroutines: ServeHTTP, the two pumps, the callers of       *)
(* SendFrame, the BufferedSender's run loop (the sender Runner), its       *)
(* clients, and whoever calls Close.                                       *)
(*                                                                         *)
(* Frames are numbered per sender in the order SendFrame was called.  The  *)
(* marshaling of a frame does not fail; a message of the peer may not      *)
(* parse.                                                                  *)
(***************************************************************************)
EXTENDS Integers, Sequences

CONSTANTS
  Callers,     \* goroutines that call SendFrame
  Runner,      \* the BufferedSender's run loop
  QueueCap,    \* capacity of readCh, writeCh and the BufferedSender's channel
  MaxSent,     \* bound: frames of each caller
  MaxQueued,   \* bound: frames given to the BufferedSender
  MaxMessages  \* bound: messages of the peer

Senders == Callers \cup {Runner}

VARIABLES
  serve,     \* pc of ServeHTTP
  conn,      \* "none", "open", "broken" by the peer or "closed" by the handler
  known,     \* h.conn is set
  closeCh,   \* h.closeCh is closed (and h.closed set)
  timeout,   \* h.writeTimeout > 0
  readPump, messages, readCh,
  writePump, held, writeCh, wire,
  call,      \* per sender: pc of its SendFrame call
  sent,      \* per sender: frames of its calls so far
  late,      \* senders whose call began after closeCh was closed
  lateTaken, \* such a call succeeded
  queue,     \* the BufferedSender's channel, by number of frame
  queued,    \* frames it accepted
  run,       \* pc of its run loop
  done       \* bs.done is closed

serveVars == <<serve, conn, known, closeCh>>
readVars == <<readPump, messages, readCh>>
writeVars == <<writePump, held, writeCh, wire>>
callVars == <<call, sent, late, lateTaken>>
bufferVars == <<queue, queued, run, done>>
wsVars == <<serveVars, timeout, readVars, writeVars, callVars, bufferVars>>

WSInit ==
  /\ serve = "idle" /\ conn = "none" /\ known = FALSE /\ closeCh = FALSE
  /\ timeout \in BOOLEAN
  /\ readPump = "none" /\ messages = 0 /\ readCh = 0
  /\ writePump = "none" /\ held = <<>> /\ writeCh = <<>> /\ wire = <<>>
  /\ call = [x \in Senders |-> "idle"] /\ sent = [x \in Senders |-> 0]
  /\ late = {} /\ lateTaken = FALSE
  /\ queue = 0 /\ queued = 0 /\ run = "select" /\ done = FALSE

-----------------------------------------------------------------------------
(* ServeHTTP and Close.                                                    *)

\* The upgrade succeeds, or fails and ServeHTTP returns.
Upgrade ==
  /\ serve = "idle"
  /\ \/ serve' = "lock" /\ conn' = "open"
     \/ serve' = "returned" /\ UNCHANGED conn
  /\ UNCHANGED <<known, closeCh, timeout, readVars, writeVars, callVars, bufferVars>>

\* Under the lock: a handler that is closed already drops the connection.
ServeLock ==
  /\ serve = "lock"
  /\ IF closeCh
     THEN /\ serve' = "returned" /\ conn' = "closed"
          /\ UNCHANGED <<known, readPump, writePump>>
     ELSE /\ serve' = "wait" /\ known' = TRUE
          /\ readPump' = "read" /\ writePump' = "select"
          /\ UNCHANGED conn
  /\ UNCHANGED <<closeCh, timeout, messages, readCh, held, writeCh, wire, callVars, bufferVars>>

\* A pump has ended: close the handler and the connection.
ServeClose ==
  /\ serve = "wait"
  /\ readPump = "done" \/ writePump = "done"
  /\ serve' = "returned" /\ closeCh' = TRUE /\ conn' = "closed"
  /\ UNCHANGED <<known, timeout, readVars, writeVars, callVars, bufferVars>>

\* The request's context is canceled: the same.
ServeCanceled ==
  /\ serve = "wait"
  /\ serve' = "returned" /\ closeCh' = TRUE /\ conn' = "closed"
  /\ UNCHANGED <<known, timeout, readVars, writeVars, callVars, bufferVars>>

Close ==
  /\ ~closeCh
  /\ closeCh' = TRUE
  /\ conn' = IF known THEN "closed" ELSE conn
  /\ UNCHANGED <<serve, known, timeout, readVars, writeVars, callVars, bufferVars>>

PeerGone ==
  /\ conn = "open"
  /\ conn' = "broken"
  /\ UNCHANGED <<serve, known, closeCh, timeout, readVars, writeVars, callVars, bufferVars>>

-----------------------------------------------------------------------------
(* The pumps.                                                              *)

\* ReadMessage fails once the connection is broken or closed.
ReadFails ==
  /\ readPump = "read" /\ conn # "open"
  /\ readPump' = "done"
  /\ UNCHANGED <<serveVars, timeout, messages, readCh, writeVars, callVars, bufferVars>>

\* A message: skipped when it does not parse or the channel is full, else
\* queued; a closed handler may stop the pump instead.
Read ==
  /\ readPump = "read" /\ conn = "open"
  /\ messages < MaxMessages
  /\ messages' = messages + 1
  /\ \/ UNCHANGED <<readPump, readCh>>
     \/ readCh < QueueCap /\ readCh' = readCh + 1 /\ UNCHANGED readPump
     \/ closeCh /\ readPump' = "done" /\ UNCHANGED readCh
  /\ UNCHANGED <<serveVars, timeout, writeVars, callVars, bufferVars>>

\* The user of ReadCh().
ReceiveFrame ==
  /\ readCh > 0
  /\ readCh' = readCh - 1
  /\ UNCHANGED <<serveVars, timeout, readPump, messages, writeVars, callVars, bufferVars>>

WriteSelect ==
  /\ writePump = "select"
  /\ \/ /\ writeCh # <<>>
        /\ held' = <<Head(writeCh)>> /\ writeCh' = Tail(writeCh) /\ writePump' = "write"
     \/ closeCh /\ writePump' = "drain" /\ UNCHANGED <<held, writeCh>>
  /\ UNCHANGED <<serveVars, timeout, readVars, wire, callVars, bufferVars>>

\* WriteMessage succeeds, or fails on a connection that is not open or at the
\* write deadline.
WriteMessage ==
  /\ writePump = "write" /\ conn = "open"
  /\ held' = <<>>
  /\ \/ wire' = wire \o held /\ writePump' = "select"
     \/ timeout /\ writePump' = "done" /\ UNCHANGED wire
  /\ UNCHANGED <<serveVars, timeout, readVars, writeCh, callVars, bufferVars>>

\* A pump that tries the same write again.
WriteFailsMut ==
  /\ writePump = "write" /\ conn # "open"
  /\ UNCHANGED wsVars

WriteFails ==
  /\ writePump = "write" /\ conn # "open"
  /\ held' = <<>> /\ writePump' = "done"
  /\ UNCHANGED <<serveVars, timeout, readVars, writeCh, wire, callVars, bufferVars>>

\* The frames left after closeCh are written too, with errors ignored; the
\* connection is closed by then.
Drain ==
  /\ writePump = "drain"
  /\ IF writeCh = <<>>
     THEN writePump' = "done" /\ UNCHANGED <<writeCh, wire>>
     ELSE /\ writeCh' = Tail(writeCh) /\ UNCHANGED writePump
          /\ wire' = IF conn = "open" THEN Append(wire, Head(writeCh)) ELSE wire
  /\ UNCHANGED <<serveVars, timeout, readVars, held, callVars, bufferVars>>

-----------------------------------------------------------------------------
(* wsFrameSender.SendFrame.                                                *)

\* The call ends; the run loop stops at the first error unless it drains.
Return(x, ok) ==
  /\ call' = [call EXCEPT ![x] = "idle"]
  /\ late' = late \ {x}
  /\ lateTaken' = (lateTaken \/ (ok /\ x \in late))
  /\ run' = IF x # Runner THEN run
            ELSE IF run = "drainSend" THEN "drain"
            ELSE IF ok THEN "select" ELSE "stopped"

Called(x, next) ==
  /\ call' = [call EXCEPT ![x] = next]
  /\ sent' = [sent EXCEPT ![x] = @ + 1]
  /\ late' = IF closeCh THEN late \cup {x} ELSE late
  /\ UNCHANGED lateTaken

SendFrame(x) ==
  /\ x \in Callers /\ call[x] = "idle" /\ sent[x] < MaxSent
  /\ Called(x, IF timeout THEN "offer" ELSE "check")
  /\ UNCHANGED <<serveVars, timeout, readVars, writeVars, bufferVars>>

\* Without the first look at closeCh.
SendCheckMut(x) ==
  /\ call[x] = "check"
  /\ call' = [call EXCEPT ![x] = "offer"]
  /\ UNCHANGED <<late, lateTaken, run, serveVars, timeout, readVars, writeVars, sent, queue, queued, done>>

\* Without a timeout closeCh is looked at first, on its own.
SendCheck(x) ==
  /\ call[x] = "check"
  /\ IF closeCh THEN Return(x, FALSE)
     ELSE call' = [call EXCEPT ![x] = "offer"] /\ UNCHANGED <<late, lateTaken, run>>
  /\ UNCHANGED <<serveVars, timeout, readVars, writeVars, sent, queue, queued, done>>

SendOffer(x) ==
  /\ call[x] = "offer" /\ Len(writeCh) < QueueCap
  /\ writeCh' = Append(writeCh, <<x, sent[x]>>)
  /\ Return(x, TRUE)
  /\ UNCHANGED <<serveVars, timeout, readVars, writePump, held, wire, sent, queue, queued, done>>

\* Closed, timed out, or full when there is no timeout.
SendRefused(x) ==
  /\ call[x] = "offer"
  /\ closeCh \/ timeout \/ Len(writeCh) = QueueCap
  /\ Return(x, FALSE)
  /\ UNCHANGED <<serveVars, timeout, readVars, writeVars, sent, queue, queued, done>>

-----------------------------------------------------------------------------
(* BufferedSender.                                                         *)

\* Send queues the frame, also after Close when the select picks that branch;
\* a refused Send changes nothing.
Send ==
  /\ queued < MaxQueued /\ queue < QueueCap
  /\ queue' = queue + 1 /\ queued' = queued + 1
  /\ UNCHANGED <<run, done, serveVars, timeout, readVars, writeVars, callVars>>

CloseSender ==
  /\ ~done
  /\ done' = TRUE
  /\ UNCHANGED <<queue, queued, run, serveVars, timeout, readVars, writeVars, callVars>>

RunTake ==
  /\ run \in {"select", "drain"} /\ queue > 0
  /\ queue' = queue - 1
  /\ run' = IF run = "drain" THEN "drainSend" ELSE "send"
  /\ Called(Runner, IF timeout THEN "offer" ELSE "check")
  /\ UNCHANGED <<queued, done, serveVars, timeout, readVars, writeVars>>

RunDone ==
  /\ \/ run = "select" /\ done /\ run' = "drain"
     \/ run = "drain" /\ queue = 0 /\ run' = "stopped"
  /\ UNCHANGED <<queue, queued, done, serveVars, timeout, readVars, writeVars, callVars>>

-----------------------------------------------------------------------------
WSNext ==
  \/ Upgrade \/ ServeLock \/ ServeClose \/ ServeCanceled
  \/ Close \/ PeerGone
  \/ ReadFails \/ Read \/ ReceiveFrame
  \/ WriteSelect \/ WriteMessage \/ WriteFails \/ Drain
  \/ \E x \in Senders : SendFrame(x) \/ SendCheck(x) \/ SendOffer(x) \/ SendRefused(x)
  \/ Send \/ CloseSender \/ RunTake \/ RunDone

\* ServeHTTP and the pumps are scheduled, and an I/O call on a connection that
\* is no longer open returns; a write to a peer that does not read may block.
WSFairness ==
  /\ WF_wsVars(ServeLock \/ ServeClose)
  /\ WF_wsVars(ReadFails)
  /\ WF_wsVars(WriteSelect \/ WriteFails \/ Drain)

WSSpec == WSInit /\ [][WSNext]_wsVars

-----------------------------------------------------------------------------
\* Types of the connection, the pumps and the senders.
WSTypeOK ==
  /\ serve \in {"idle", "lock", "wait", "returned"}
  /\ conn \in {"none", "open", "broken", "closed"}
  /\ readPump \in {"none", "read", "done"}
  /\ writePump \in {"none", "select", "write", "drain", "done"}
  /\ call \in [Senders -> {"idle", "check", "offer"}]
  /\ run \in {"select", "send", "drain", "drainSend", "stopped"}
  /\ Len(writeCh) \in 0..QueueCap /\ readCh \in 0..QueueCap /\ queue \in 0..QueueCap
  /\ held # <<>> <=> writePump = "write"

\* However the senders, the write pump and a close interleave, the frames of
\* each sender reach the wire in the order they were sent, none of them twice.
WireInOrder ==
  \A i, j \in DOMAIN (wire \o held \o writeCh) :
    LET q == wire \o held \o writeCh
    IN i < j /\ q[i][1] = q[j][1] => q[i][2] < q[j][2]

\* "Check closeCh first to avoid a race where both ch and closeCh are ready":
\* without a write timeout no SendFrame that began after the close succeeds.
LateSendRefused == lateTaken => timeout

\* Once the handler is closed, by Close, a pump's error or the request's end,
\* ServeHTTP returns and both pumps end.
ConnectionEnds ==
  closeCh /\ serve # "idle" ~>
    serve = "returned" /\ readPump \in {"none", "done"} /\ writePump \in {"none", "done"}

=============================================================================
