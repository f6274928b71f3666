-------------------------------- MODULE Relay --------------------------------
(***************************************************************************)
(* The bidirectional relay of internal/streaming/relay.go: senders that    *)
(* queue frames on either side, the callers of Start and Stop, and the     *)
(* relayLoop goroutine Start spawns.                                       *)
(*                                                                         *)
(* Frames of a side are numbered in the order the side queued them.  The   *)
(* loop's receive and the SendFrame that follows it are one step: nobody   *)
(* else touches the frame between them.  Keep-alive frames change no state *)
(* of the relay (their errors are ignored) and are left out, as is the     *)
(* branch for a closed side channel, which no code closes.                 *)
(***************************************************************************)
EXTENDS Integers, Sequences

CONSTANTS
  Starters,    \* goroutines that call Start
  Stoppers,    \* goroutines that call Stop
  Cap,         \* capacity of the side channels (256 in the code)
  MaxFrames,   \* bound on the frames each side queues
  SenderFails  \* whether the client and backend senders may return errors

ASSUME RelayAssumption ==
  Cap \in Nat \ {0} /\ MaxFrames \in Nat /\ SenderFails \in BOOLEAN

Sides == {"client", "backend"}
Peer(s) == IF s = "client" THEN "backend" ELSE "client"

VARIABLES
  from,       \* r.fromClient and r.fromBackend: frames queued by each side
  accepted,   \* per side: how many frames SendFrame accepted
  delivered,  \* per side: frames its sender took, in order
  failed,     \* per side: frames its sender refused
  closed,     \* relayLoop's clientClosed and backendClosed
  loop,       \* pc of relayLoop
  started, stopped,
  stopCh,     \* r.stopCh is closed
  ctxDone,    \* Start's context is canceled
  start,      \* pc of each Start call
  stop,       \* pc of each Stop call
  connections,
  atClose     \* what was accepted when stopCh closed under a relaying loop

vars == <<from, accepted, delivered, failed, closed, loop, started, stopped,
          stopCh, ctxDone, start, stop, connections, atClose>>
frameVars == <<from, accepted, delivered, failed, closed>>
callVars == <<started, stopped, stopCh, ctxDone, start, stop, connections, atClose>>

None == [s \in Sides |-> 0]

Init ==
  /\ from = [s \in Sides |-> <<>>]
  /\ accepted = None
  /\ delivered = [s \in Sides |-> <<>>]
  /\ failed = None
  /\ closed = [s \in Sides |-> FALSE]
  /\ loop = "none"
  /\ started = FALSE /\ stopped = FALSE /\ stopCh = FALSE /\ ctxDone = FALSE
  /\ start = [t \in Starters |-> "idle"]
  /\ stop = [t \in Stoppers |-> "idle"]
  /\ connections = 0
  /\ atClose = None

-----------------------------------------------------------------------------
(* relaySideSender.SendFrame of side s; a full channel is an error.        *)
SendFrame(s) ==
  /\ accepted[s] < MaxFrames
  /\ Len(from[s]) < Cap
  /\ accepted' = [accepted EXCEPT ![s] = @ + 1]
  /\ from' = [from EXCEPT ![s] = Append(@, accepted[s] + 1)]
  /\ UNCHANGED <<delivered, failed, closed, loop, callVars>>

(* Start up to the unlock: refused when started, or when stopCh is closed. *)
StartMut(t) ==
  /\ start[t] = "idle"
  /\ start' = [start EXCEPT ![t] = IF stopCh THEN "refused" ELSE "spawn"]
  /\ started' = (started \/ ~stopCh)
  /\ UNCHANGED <<frameVars, loop, stopped, stopCh, ctxDone, stop, connections, atClose>>

Start(t) ==
  /\ start[t] = "idle"
  /\ LET refused == started \/ stopCh
     IN  /\ start' = [start EXCEPT ![t] = IF refused THEN "refused" ELSE "spawn"]
         /\ started' = (started \/ ~refused)
  /\ UNCHANGED <<frameVars, loop, stopped, stopCh, ctxDone, stop, connections, atClose>>

(* connections.Add(1) and wg.Go(relayLoop).                                *)
StartSpawn(t) ==
  /\ start[t] = "spawn"
  /\ connections' = connections + 1
  /\ loop' = "top"
  /\ start' = [start EXCEPT ![t] = "wait"]
  /\ UNCHANGED <<frameVars, started, stopped, stopCh, ctxDone, stop, atClose>>

StartReturn(t) ==
  /\ start[t] = "wait" /\ loop = "done"
  /\ connections' = connections - 1
  /\ start' = [start EXCEPT ![t] = "returned"]
  /\ UNCHANGED <<frameVars, loop, started, stopped, stopCh, ctxDone, stop, atClose>>

CancelCtx ==
  /\ ~ctxDone /\ ctxDone' = TRUE
  /\ UNCHANGED <<frameVars, loop, started, stopped, stopCh, start, stop, connections, atClose>>

(* Stop: the flag under the lock, then close(stopCh), then wg.Wait.  A     *)
(* Stop that finds the flag set returns at once and changes nothing.       *)
StopFlag(t) ==
  /\ stop[t] = "idle" /\ ~stopped
  /\ stopped' = TRUE
  /\ stop' = [stop EXCEPT ![t] = "close"]
  /\ UNCHANGED <<frameVars, loop, started, stopCh, ctxDone, start, connections, atClose>>

LoopAlive == loop \notin {"none", "done"}
Relaying == loop \in {"top", "select"}

StopClose(t) ==
  /\ stop[t] = "close"
  /\ stopCh' = TRUE
  /\ atClose' = IF Relaying THEN accepted ELSE atClose
  /\ stop' = [stop EXCEPT ![t] = "wait"]
  /\ UNCHANGED <<frameVars, loop, started, stopped, ctxDone, start, connections>>

StopWait(t) ==
  /\ stop[t] = "wait" /\ ~LoopAlive
  /\ stop' = [stop EXCEPT ![t] = "returned"]
  /\ UNCHANGED <<frameVars, loop, started, stopped, stopCh, ctxDone, start, connections, atClose>>

-----------------------------------------------------------------------------
(* relayLoop.                                                              *)

(* Take the oldest frame of side s and hand it to the other side's sender; *)
(* onError says what the caller does with an error.                        *)
Forward(s, onError) ==
  /\ from[s] # <<>>
  /\ from' = [from EXCEPT ![s] = Tail(@)]
  /\ \/ /\ delivered' = [delivered EXCEPT ![Peer(s)] = Append(@, Head(from[s]))]
        /\ UNCHANGED <<failed, closed>>
     \/ /\ SenderFails
        /\ failed' = [failed EXCEPT ![Peer(s)] = @ + 1]
        /\ closed' = [closed EXCEPT ![Peer(s)] = @ \/ onError = "close"]
        /\ UNCHANGED delivered
  /\ UNCHANGED accepted

LoopTop ==
  /\ loop = "top"
  /\ loop' = IF \A s \in Sides : closed[s] THEN "done" ELSE "select"
  /\ UNCHANGED <<frameVars, callVars>>

LoopForwardMut(s) ==
  /\ loop = "select"
  /\ from[s] # <<>>
  /\ from' = [from EXCEPT ![s] = Tail(@)]
  /\ loop' = "top"
  /\ delivered' = [delivered EXCEPT ![Peer(s)] = <<Head(from[s])>> \o @]
  /\ UNCHANGED <<accepted, failed, closed, callVars>>

LoopForward(s) ==
  /\ loop = "select"
  /\ Forward(s, "close")
  /\ loop' = "top"
  /\ UNCHANGED callVars

LoopSignal ==
  /\ loop = "select" /\ (stopCh \/ ctxDone)
  /\ loop' = "drainClient"
  /\ UNCHANGED <<frameVars, callVars>>

(* drainChannel, first of the client's frames and then of the backend's.   *)
DrainChannel(s, pc, next) ==
  /\ loop = pc
  /\ \/ Forward(s, "ignore") /\ UNCHANGED loop
     \/ from[s] = <<>> /\ loop' = next /\ UNCHANGED frameVars
  /\ UNCHANGED callVars

LoopDrainMut ==
  \/ DrainChannel("client", "drainClient", "done")

LoopDrain ==
  \/ DrainChannel("client", "drainClient", "drainBackend")
  \/ DrainChannel("backend", "drainBackend", "done")

RelayLoop == LoopTop \/ (\E s \in Sides : LoopForward(s)) \/ LoopSignal \/ LoopDrain

-----------------------------------------------------------------------------
Next ==
  \/ \E s \in Sides : SendFrame(s)
  \/ \E t \in Starters : Start(t) \/ StartSpawn(t) \/ StartReturn(t)
  \/ CancelCtx
  \/ \E t \in Stoppers : StopFlag(t) \/ StopClose(t) \/ StopWait(t)
  \/ RelayLoop

Spec == Init /\ [][Next]_vars

(* The goroutines inside Start, Stop and relayLoop are scheduled; the      *)
(* senders' frames are bounded, so weak fairness of the loop is enough for *)
(* its select to reach every ready branch.                                 *)
Fairness ==
  /\ \A t \in Starters : WF_vars(StartSpawn(t) \/ StartReturn(t))
  /\ \A t \in Stoppers : WF_vars(StopClose(t) \/ StopWait(t))
  /\ WF_vars(RelayLoop)

FairSpec == Spec /\ Fairness

-----------------------------------------------------------------------------
(* Types of the queues, the loop and the callers; ActiveConnections is 0   *)
(* or 1.                                                                   *)
TypeOK ==
  /\ from \in [Sides -> Seq(1..MaxFrames)]
  /\ accepted \in [Sides -> 0..MaxFrames]
  /\ delivered \in [Sides -> Seq(1..MaxFrames)]
  /\ failed \in [Sides -> 0..MaxFrames]
  /\ closed \in [Sides -> BOOLEAN]
  /\ loop \in {"none", "top", "select", "drainClient", "drainBackend", "done"}
  /\ {started, stopped, stopCh, ctxDone} \subseteq BOOLEAN
  /\ start \in [Starters -> {"idle", "refused", "spawn", "wait", "returned"}]
  /\ stop \in [Stoppers -> {"idle", "close", "wait", "returned"}]
  /\ connections \in 0..1
  /\ atClose \in [Sides -> 0..MaxFrames]

Increasing(q) == \A i, j \in DOMAIN q : i < j => q[i] < q[j]

(* In each direction the frames arrive in the order they were queued, none *)
(* twice, and every accepted frame is delivered, refused by the sender, or *)
(* still queued, whatever Start, Stop, cancellation and errors do.         *)
InOrder ==
  \A s \in Sides :
    /\ Increasing(delivered[Peer(s)] \o from[s])
    /\ accepted[s] = Len(from[s]) + Len(delivered[Peer(s)]) + failed[Peer(s)]

(* ActiveConnections counts the relay loop, of which there is never more   *)
(* than one although several goroutines may call Start.                    *)
ConnectionsExact ==
  /\ LoopAlive => connections = 1
  /\ loop = "none" => connections = 0
  /\ \A t, u \in Starters :
       start[t] \in {"spawn", "wait"} /\ start[u] \in {"spawn", "wait"} => t = u

(* When stopCh is closed under a loop that is still relaying, Stop returns *)
(* only after the loop has ended, and every frame queued before that       *)
(* moment has been handed over (unless both sides had already failed).     *)
StopDrainsRunningLoop ==
  \A t \in Stoppers :
    stop[t] = "returned" /\ atClose # None /\ ~(\A s \in Sides : closed[s]) =>
      /\ loop = "done"
      /\ \A s \in Sides : \A i \in DOMAIN from[s] : from[s][i] > atClose[s]

(* Stop and Start both return once the relay is told to stop.              *)
ShutdownCompletes ==
  /\ \A t \in Stoppers : stop[t] = "close" ~> stop[t] = "returned"
  /\ \A t \in Starters : start[t] = "wait" /\ stopCh ~> start[t] = "returned"

=============================================================================
