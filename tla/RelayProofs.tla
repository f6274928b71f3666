----------------------------- MODULE RelayProofs -----------------------------
(***************************************************************************)
(* Proofs about module Relay, for any number of callers of Start and Stop, *)
(* any capacity and any number of frames: each direction implements a      *)
(* LossyChannel, there is one relay loop, and Stop drains it.              *)
(***************************************************************************)
EXTENDS Relay, SequenceTheorems, TLAPS

ToBackend ==
  INSTANCE LossyChannel
    WITH accepted <- accepted["client"], pending <- from["client"],
         delivered <- delivered["backend"]

ToClient ==
  INSTANCE LossyChannel
    WITH accepted <- accepted["backend"], pending <- from["backend"],
         delivered <- delivered["client"]

-----------------------------------------------------------------------------
(* The frames.                                                             *)

FramesOK ==
  /\ from \in [Sides -> Seq(Nat)]
  /\ accepted \in [Sides -> Nat]
  /\ delivered \in [Sides -> Seq(Nat)]
  /\ closed \in [Sides -> BOOLEAN]

\* What a step does to side s: nothing, one more frame queued, or the oldest
\* one taken and either delivered or lost.
Moved(s) ==
  \/ UNCHANGED <<accepted[s], from[s], delivered[Peer(s)]>>
  \/ /\ accepted'[s] = accepted[s] + 1
     /\ from'[s] = Append(from[s], accepted[s] + 1)
     /\ delivered'[Peer(s)] = delivered[Peer(s)]
  \/ /\ from[s] # <<>> /\ from'[s] = Tail(from[s])
     /\ accepted'[s] = accepted[s]
     /\ delivered'[Peer(s)] \in {delivered[Peer(s)], Append(delivered[Peer(s)], Head(from[s]))}

\* A frame taken by the loop or by its drain goes to the other side or is lost.
LEMMA ForwardMoves ==
  ASSUME FramesOK, NEW s \in Sides, NEW e, Forward(s, e)
  PROVE  FramesOK' /\ \A x \in Sides : Moved(x)
<1> USE DEF Sides, Peer, Forward
<1>1. from' \in [Sides -> Seq(Nat)] /\ from'[s] = Tail(from[s]) /\ Head(from[s]) \in Nat
  BY DEF FramesOK
<1>2. delivered' \in [Sides -> Seq(Nat)]
  <2>1. Append(delivered[Peer(s)], Head(from[s])) \in Seq(Nat)
    BY <1>1 DEF FramesOK
  <2> QED BY <2>1 DEF FramesOK
<1>3. closed' \in [Sides -> BOOLEAN]
  BY DEF FramesOK
<1>4. FramesOK'
  BY <1>1, <1>2, <1>3 DEF FramesOK
<1>5. ASSUME NEW x \in Sides PROVE Moved(x)
  <2>1. CASE x = s
    BY <2>1 DEF FramesOK, Moved
  <2>2. CASE x # s
    BY <2>2 DEF FramesOK, Moved
  <2> QED BY <2>1, <2>2
<1> QED BY <1>4, <1>5

\* Every step of the relay moves the frames of each side so.
LEMMA StepMoves ==
  ASSUME FramesOK, [Next]_vars
  PROVE  FramesOK' /\ \A x \in Sides : Moved(x)
<1>1. CASE UNCHANGED frameVars
  BY <1>1 DEF frameVars, FramesOK, Moved
<1>2. ASSUME NEW s \in Sides, SendFrame(s) PROVE FramesOK' /\ \A x \in Sides : Moved(x)
  <2> USE <1>2 DEF SendFrame, Sides, Peer
  <2>1. FramesOK'
    BY DEF FramesOK
  <2>2. ASSUME NEW x \in Sides PROVE Moved(x)
    BY DEF FramesOK, Moved
  <2> QED BY <2>1, <2>2
<1>3. ASSUME NEW s \in Sides, NEW e, Forward(s, e)
      PROVE  FramesOK' /\ \A x \in Sides : Moved(x)
  BY <1>3, ForwardMoves
<1>4. CASE RelayLoop
  BY <1>1, <1>3, <1>4
  DEF RelayLoop, LoopTop, LoopForward, LoopSignal, LoopDrain, DrainChannel, Sides
<1>5. CASE UNCHANGED vars
  BY <1>1, <1>5 DEF vars, frameVars
<1>6. ASSUME NEW t \in Starters, Start(t) \/ StartSpawn(t) \/ StartReturn(t)
      PROVE  UNCHANGED frameVars
  BY <1>6 DEF Start, StartSpawn, StartReturn
<1>7. ASSUME NEW t \in Stoppers, StopFlag(t) \/ StopClose(t) \/ StopWait(t)
      PROVE  UNCHANGED frameVars
  BY <1>7 DEF StopFlag, StopClose, StopWait
<1>8. CASE CancelCtx
  BY <1>1, <1>8 DEF CancelCtx
<1> QED BY <1>1, <1>2, <1>4, <1>5, <1>6, <1>7, <1>8 DEF Next

\* The sequence without its first element is its tail.
LEMMA WithoutFirst ==
  ASSUME NEW q \in Seq(Nat), q # <<>>
  PROVE  Tail(q) = ToBackend!Without(q, 1) /\ Tail(q) = ToClient!Without(q, 1) /\ 1 \in DOMAIN q
<1>1. /\ Len(q) \in Nat \ {0} /\ Tail(q) \in Seq(Nat) /\ Len(Tail(q)) = Len(q) - 1
      /\ DOMAIN q = 1..Len(q) /\ DOMAIN Tail(q) = 1..(Len(q) - 1)
      /\ \A k \in 1..(Len(q) - 1) : Tail(q)[k] = q[k + 1]
  OBVIOUS
<1>2. Tail(q) = [k \in 1..(Len(q) - 1) |-> Tail(q)[k]]
  <2>1. Tail(q) \in [1..(Len(q) - 1) -> Nat]
    BY <1>1, LenProperties
  <2> QED BY <2>1
<1>3. \A k \in 1..(Len(q) - 1) : Tail(q)[k] = IF k < 1 THEN q[k] ELSE q[k + 1]
  BY <1>1
<1>4. Tail(q) = [k \in 1..(Len(q) - 1) |-> IF k < 1 THEN q[k] ELSE q[k + 1]]
  BY <1>2, <1>3
<1> QED BY <1>1, <1>4 DEF ToBackend!Without, ToClient!Without

\* The frames have their types in every state.
THEOREM FramesTyped == Spec => []FramesOK
<1>1. Init => FramesOK
  BY DEF Init, FramesOK, None, Sides
<1> QED BY <1>1, StepMoves, PTL DEF Spec

\* Whatever Start, Stop, cancellation and failing senders do, the frames of
\* the client reach the backend as through a LossyChannel.
THEOREM ToBackendImplemented == Spec => ToBackend!Spec
<1>1. Init => ToBackend!Init
  BY DEF Init, ToBackend!Init, None, Sides
<1>2. FramesOK /\ [Next]_vars => [ToBackend!Next]_(ToBackend!vars)
  <2> SUFFICES ASSUME FramesOK, [Next]_vars PROVE [ToBackend!Next]_(ToBackend!vars)
    OBVIOUS
  <2>1. Moved("client")
    BY StepMoves DEF Sides
  <2>2. from["client"] # <<>> =>
          Tail(from["client"]) = ToBackend!Without(from["client"], 1) /\ 1 \in DOMAIN from["client"]
    BY WithoutFirst DEF FramesOK, Sides
  <2> QED BY <2>1, <2>2
    DEF Moved, Peer, ToBackend!Next, ToBackend!vars, ToBackend!Accept, ToBackend!Deliver,
        ToBackend!Lose
<1> QED BY <1>1, <1>2, FramesTyped, PTL DEF Spec, ToBackend!Spec

\* And so do those of the backend reach the client.
THEOREM ToClientImplemented == Spec => ToClient!Spec
<1>1. Init => ToClient!Init
  BY DEF Init, ToClient!Init, None, Sides
<1>2. FramesOK /\ [Next]_vars => [ToClient!Next]_(ToClient!vars)
  <2> SUFFICES ASSUME FramesOK, [Next]_vars PROVE [ToClient!Next]_(ToClient!vars)
    OBVIOUS
  <2>1. Moved("backend")
    BY StepMoves DEF Sides
  <2>2. from["backend"] # <<>> =>
          Tail(from["backend"]) = ToClient!Without(from["backend"], 1) /\ 1 \in DOMAIN from["backend"]
    BY WithoutFirst DEF FramesOK, Sides
  <2> QED BY <2>1, <2>2
    DEF Moved, Peer, ToClient!Next, ToClient!vars, ToClient!Accept, ToClient!Deliver,
        ToClient!Lose
<1> QED BY <1>1, <1>2, FramesTyped, PTL DEF Spec, ToClient!Spec

-----------------------------------------------------------------------------
(* The callers of Start and Stop, and the loop.                            *)

Entered(t) == start[t] \in {"spawn", "wait", "returned"}

\* At most one Start gets past its check; where it is says where the loop is
\* and how many connections there are.
Callers ==
  /\ start \in [Starters -> {"idle", "refused", "spawn", "wait", "returned"}]
  /\ loop \in {"none", "top", "select", "drainClient", "drainBackend", "done"}
  /\ connections \in Nat
  /\ \A t, u \in Starters : Entered(t) /\ Entered(u) => t = u
  /\ \A t \in Starters : Entered(t) => started
  /\ \A t \in Starters : start[t] = "spawn" => loop = "none"
  /\ \A t \in Starters : start[t] = "wait" => loop # "none" /\ connections = 1
  /\ \A t \in Starters : start[t] = "returned" => loop = "done"
  /\ loop # "none" => started
  /\ loop = "none" => connections = 0
  /\ LoopAlive => connections = 1

\* Every frame of side s that is still queued was accepted after stopCh closed.
After(s) == \A i \in DOMAIN from[s] : from[s][i] > atClose[s]

AllClosed == \A s \in Sides : closed[s]

\* One Stop gets past its check.  Once stopCh has been closed under a relaying
\* loop, what the drain has passed holds only later frames.
Stops ==
  /\ stop \in [Stoppers -> {"idle", "close", "wait", "returned"}]
  /\ atClose \in [Sides -> Nat]
  /\ \A t \in Stoppers : stop[t] # "idle" => stopped
  /\ \A t, u \in Stoppers : stop[t] # "idle" /\ stop[u] # "idle" => t = u
  /\ \A t \in Stoppers : stop[t] = "close" => atClose = None
  /\ atClose # None => stopped /\ loop # "none"
  /\ \A s \in Sides : atClose[s] <= accepted[s]
  /\ atClose # None /\ ~AllClosed =>
       /\ loop \in {"drainBackend", "done"} => After("client")
       /\ loop = "done" => After("backend")

IInv == FramesOK /\ Callers /\ Stops /\ StopDrainsRunningLoop

\* Every step keeps the callers of Start, the loop and the counter in step.
LEMMA CallersStep ==
  ASSUME Callers, [Next]_vars
  PROVE  Callers'
<1> USE DEF LoopAlive, Entered
<1>1. CASE UNCHANGED <<loop, started, start, connections>>
  BY <1>1 DEF Callers
<1>2. ASSUME NEW t \in Starters, Start(t) PROVE Callers'
  <2>1. start' \in [Starters -> {"idle", "refused", "spawn", "wait", "returned"}]
    BY <1>2 DEF Start, Callers
  <2>2. CASE started \/ stopCh
    <3>1. /\ start' = [start EXCEPT ![t] = "refused"] /\ UNCHANGED <<loop, connections>>
          /\ started => started'
      BY <1>2, <2>2 DEF Start
    <3> QED BY <2>1, <3>1 DEF Callers
  <2>3. CASE ~(started \/ stopCh)
    <3>1. /\ start' = [start EXCEPT ![t] = "spawn"] /\ started'
          /\ UNCHANGED <<loop, connections>>
      BY <1>2, <2>3 DEF Start
    <3>2. \A u \in Starters : ~Entered(u)
      BY <2>3 DEF Callers
    <3>3. loop = "none"
      BY <2>3 DEF Callers
    <3> QED BY <2>1, <3>1, <3>2, <3>3 DEF Callers
  <2> QED BY <2>2, <2>3
<1>3. ASSUME NEW t \in Starters, StartSpawn(t) PROVE Callers'
  BY <1>3 DEF StartSpawn, Callers
<1>4. ASSUME NEW t \in Starters, StartReturn(t) PROVE Callers'
  BY <1>4 DEF StartReturn, Callers
<1>5. CASE RelayLoop
  <2>1. /\ loop \notin {"none", "done"} /\ UNCHANGED <<started, start, connections>>
        /\ loop' \in {"top", "select", "drainClient", "drainBackend", "done"}
    BY <1>5 DEF RelayLoop, LoopTop, LoopForward, LoopSignal, LoopDrain, DrainChannel, callVars,
                Callers
  <2> QED BY <2>1 DEF Callers
<1>6. ASSUME NEW s \in Sides, SendFrame(s) PROVE UNCHANGED <<loop, started, start, connections>>
  BY <1>6 DEF SendFrame, callVars
<1>7. ASSUME NEW t \in Stoppers, StopFlag(t) \/ StopClose(t) \/ StopWait(t)
      PROVE  UNCHANGED <<loop, started, start, connections>>
  BY <1>7 DEF StopFlag, StopClose, StopWait
<1>8. CASE CancelCtx \/ UNCHANGED vars
  BY <1>1, <1>8 DEF CancelCtx, vars
<1> QED BY <1>1, <1>2, <1>3, <1>4, <1>5, <1>6, <1>7, <1>8 DEF Next

\* Frames queued or taken after the close leave only later ones behind.
LEMMA AfterKept ==
  ASSUME FramesOK, NEW s \in Sides, Moved(s), atClose \in [Sides -> Nat], UNCHANGED atClose,
         atClose[s] <= accepted[s]
  PROVE  atClose'[s] <= accepted'[s] /\ (After(s) => After(s)')
<1>0. from[s] \in Seq(Nat) /\ accepted[s] \in Nat /\ atClose[s] \in Nat
  BY DEF FramesOK
<1>1. CASE UNCHANGED <<accepted[s], from[s], delivered[Peer(s)]>>
  BY <1>1 DEF After
<1>2. CASE accepted'[s] = accepted[s] + 1 /\ from'[s] = Append(from[s], accepted[s] + 1)
  <2>1. \A i \in DOMAIN from'[s] : \/ i \in DOMAIN from[s] /\ from'[s][i] = from[s][i]
                                   \/ from'[s][i] = accepted[s] + 1
    BY <1>0, <1>2
  <2> QED BY <1>0, <1>2, <2>1 DEF After
<1>3. CASE from[s] # <<>> /\ from'[s] = Tail(from[s]) /\ accepted'[s] = accepted[s]
  <2>1. \A i \in DOMAIN from'[s] : i + 1 \in DOMAIN from[s] /\ from'[s][i] = from[s][i + 1]
    BY <1>0, <1>3
  <2> QED BY <1>0, <1>3, <2>1 DEF After
<1> QED BY <1>1, <1>2, <1>3 DEF Moved

\* The loop's steps: where they lead, and what they leave in the queues.
LEMMA LoopSteps ==
  ASSUME IInv, RelayLoop
  PROVE  /\ AllClosed => AllClosed'
         /\ loop \notin {"none", "done"} /\ loop' # "none"
         /\ ~AllClosed' /\ loop' \in {"drainBackend", "done"} /\ loop' # loop =>
              \/ loop = "drainClient" /\ loop' = "drainBackend" /\ from'["client"] = <<>>
              \/ loop = "drainBackend" /\ loop' = "done" /\ from'["backend"] = <<>>
<1> USE DEF AllClosed, Sides
<1>1. ASSUME NEW s \in Sides, NEW e, Forward(s, e) PROVE AllClosed => AllClosed'
  BY <1>1 DEF Forward, IInv, FramesOK, Peer
<1>2. CASE LoopTop
  BY <1>2 DEF LoopTop, frameVars
<1>3. ASSUME NEW s \in Sides, LoopForward(s) PROVE (AllClosed => AllClosed') /\ loop' = "top" /\ loop = "select"
  BY <1>1, <1>3 DEF LoopForward
<1>4. CASE LoopSignal
  BY <1>4 DEF LoopSignal, frameVars
<1>5. CASE DrainChannel("client", "drainClient", "drainBackend")
  BY <1>1, <1>5 DEF DrainChannel, frameVars
<1>6. CASE DrainChannel("backend", "drainBackend", "done")
  BY <1>1, <1>6 DEF DrainChannel, frameVars
<1> QED BY <1>2, <1>3, <1>4, <1>5, <1>6 DEF RelayLoop, LoopDrain

\* Steps of the loop and of the senders keep what Stop relies on.
LEMMA FrameStepStops ==
  ASSUME IInv, Next, UNCHANGED callVars,
         RelayLoop \/ (UNCHANGED <<loop, closed>>)
  PROVE  Stops' /\ StopDrainsRunningLoop'
<1>0. \A s \in Sides : atClose'[s] <= accepted'[s] /\ (After(s) => After(s)')
  BY StepMoves, AfterKept DEF IInv, Stops, callVars
<1>1. AllClosed => AllClosed'
  BY LoopSteps DEF AllClosed
<1>2. ~AllClosed' /\ atClose' # None =>
        /\ loop' \in {"drainBackend", "done"} => After("client")'
        /\ loop' = "done" => After("backend")'
  <2> SUFFICES ASSUME ~AllClosed', atClose # None
               PROVE  /\ loop' \in {"drainBackend", "done"} => After("client")'
                      /\ loop' = "done" => After("backend")'
    BY DEF callVars, None
  <2>1. /\ loop \in {"drainBackend", "done"} => After("client")
        /\ loop = "done" => After("backend")
    BY <1>1 DEF IInv, Stops
  <2>2. \A s \in Sides : from'[s] = <<>> => After(s)'
    BY DEF After
  <2>3. CASE loop' = loop
    BY <1>0, <2>1, <2>3 DEF Sides
  <2>4. CASE loop' # loop
    BY <1>0, <2>1, <2>2, <2>4, LoopSteps DEF Sides
  <2> QED BY <2>3, <2>4
<1>3. loop # "none" => loop' # "none"
  BY LoopSteps
<1>4. Stops'
  BY <1>0, <1>2, <1>3 DEF IInv, Stops, callVars, None
<1>5. loop = "done" => loop' = "done"
  BY LoopSteps
<1>6. StopDrainsRunningLoop'
  BY <1>0, <1>1, <1>5 DEF IInv, StopDrainsRunningLoop, After, AllClosed, callVars, None
<1> QED BY <1>4, <1>6

\* So do the steps of Start: it spawns the loop only while there is none.
LEMMA StartStops ==
  ASSUME IInv, NEW t \in Starters, Start(t) \/ StartSpawn(t) \/ StartReturn(t)
  PROVE  Stops' /\ StopDrainsRunningLoop'
<1>1. CASE StartSpawn(t)
  <2>1. loop = "none" /\ atClose = None
    BY <1>1 DEF IInv, Callers, Stops, StartSpawn
  <2> QED BY <1>1, <2>1
    DEF StartSpawn, IInv, Stops, StopDrainsRunningLoop, None, After, AllClosed, frameVars
<1>2. CASE Start(t) \/ StartReturn(t)
  <2>1. UNCHANGED <<frameVars, loop, stop, stopped, atClose>>
    BY <1>2 DEF Start, StartReturn
  <2> QED BY <2>1 DEF IInv, Stops, StopDrainsRunningLoop, None, After, AllClosed, frameVars
<1> QED BY <1>1, <1>2

\* And those of Stop: the close remembers what was accepted under a loop that
\* relays, and the wait is over only when that loop has ended.
LEMMA StopStops ==
  ASSUME IInv, NEW t \in Stoppers, StopFlag(t) \/ StopClose(t) \/ StopWait(t)
  PROVE  Stops' /\ StopDrainsRunningLoop'
<1> USE DEF frameVars
<1>1. CASE StopFlag(t)
  <2>1. \A u \in Stoppers : stop[u] = "idle"
    BY <1>1 DEF StopFlag, IInv, Stops
  <2>2. stop' \in [Stoppers -> {"idle", "close", "wait", "returned"}]
    BY <1>1 DEF StopFlag, IInv, Stops
  <2>3. atClose = None
    BY <1>1 DEF StopFlag, IInv, Stops
  <2> QED BY <1>1, <2>1, <2>2, <2>3
    DEF StopFlag, IInv, Stops, StopDrainsRunningLoop, None, After, AllClosed
<1>2. CASE StopClose(t)
  <2>1. \A u \in Stoppers : u # t => stop[u] = "idle"
    BY <1>2 DEF StopClose, IInv, Stops
  <2>2. stop' \in [Stoppers -> {"idle", "close", "wait", "returned"}] /\ stop'[t] = "wait"
    BY <1>2 DEF StopClose, IInv, Stops
  <2>3. \A u \in Stoppers : u # t => stop'[u] = "idle"
    BY <1>2, <2>1 DEF StopClose, IInv, Stops
  <2>4. StopDrainsRunningLoop'
    BY <2>2, <2>3 DEF StopDrainsRunningLoop
  <2>5. atClose = None
    BY <1>2 DEF StopClose, IInv, Stops
  <2>6. CASE Relaying
    <3>1. atClose' = accepted /\ UNCHANGED <<frameVars, loop, stopped>>
      BY <1>2, <2>6 DEF StopClose
    <3>2. loop \in {"top", "select"}
      BY <2>6 DEF Relaying
    <3>3. stopped
      BY <1>2 DEF StopClose, IInv, Stops
    <3>4. /\ atClose' \in [Sides -> Nat] /\ \A s \in Sides : atClose'[s] <= accepted'[s]
          /\ stopped' /\ loop' \in {"top", "select"}
      BY <3>1, <3>2, <3>3 DEF IInv, FramesOK
    <3> QED BY <2>2, <2>3, <2>4, <3>4 DEF Stops
  <2>7. CASE ~Relaying
    <3>1. atClose' = None /\ UNCHANGED <<frameVars, loop, stopped>>
      BY <1>2, <2>5, <2>7 DEF StopClose
    <3>2. stopped
      BY <1>2 DEF StopClose, IInv, Stops
    <3> QED BY <2>2, <2>3, <2>4, <2>5, <3>1, <3>2 DEF IInv, FramesOK, Stops, None
  <2> QED BY <2>6, <2>7
<1>3. CASE StopWait(t)
  <2>1. /\ stop' \in [Stoppers -> {"idle", "close", "wait", "returned"}]
        /\ \A u \in Stoppers : stop'[u] # stop[u] => u = t /\ stop'[u] = "returned"
        /\ stop[t] = "wait" /\ loop \in {"none", "done"}
        /\ UNCHANGED <<frameVars, loop, stopped, atClose>>
    BY <1>3 DEF StopWait, LoopAlive, IInv, Stops
  <2>2. Stops'
    BY <2>1 DEF IInv, Stops, None, After, AllClosed
  <2>3. StopDrainsRunningLoop'
    BY <2>1 DEF IInv, Stops, StopDrainsRunningLoop, None, After, AllClosed, Sides
  <2> QED BY <2>2, <2>3
<1> QED BY <1>1, <1>2, <1>3

\* The inductive invariant of the relay holds.
THEOREM Inductive == Spec => []IInv
<1>1. Init => IInv
  BY DEF Init, IInv, FramesOK, Callers, Entered, LoopAlive, Stops, StopDrainsRunningLoop, None,
         Sides
<1>2. ASSUME IInv, [Next]_vars PROVE IInv'
  <2>1. FramesOK' /\ Callers'
    BY <1>2, StepMoves, CallersStep DEF IInv
  <2>2. Stops' /\ StopDrainsRunningLoop'
    <3>1. CASE UNCHANGED vars \/ CancelCtx
      <4>1. UNCHANGED <<frameVars, loop, stop, stopped, atClose>>
        BY <3>1 DEF vars, frameVars, CancelCtx
      <4> QED BY <1>2, <4>1
        DEF IInv, Stops, StopDrainsRunningLoop, None, After, AllClosed, frameVars
    <3>2. ASSUME NEW s \in Sides, SendFrame(s) PROVE Stops' /\ StopDrainsRunningLoop'
      BY <1>2, <3>2, FrameStepStops DEF SendFrame, Next
    <3>3. CASE RelayLoop
      <4>1. UNCHANGED callVars
        BY <3>3 DEF RelayLoop, LoopTop, LoopForward, LoopSignal, LoopDrain, DrainChannel
      <4> QED BY <1>2, <3>3, <4>1, FrameStepStops DEF Next
    <3> QED BY <1>2, <3>1, <3>2, <3>3, StartStops, StopStops DEF Next
  <2> QED BY <2>1, <2>2 DEF IInv
<1> QED BY <1>1, <1>2, PTL DEF Spec

\* However many goroutines call Start, there is one relay loop, and
\* ActiveConnections is 1 while it runs.
THEOREM OneLoop == Spec => []ConnectionsExact
<1>1. IInv => ConnectionsExact
  BY DEF IInv, Callers, Entered, ConnectionsExact
<1> QED BY <1>1, Inductive, PTL

\* When stopCh is closed under a relaying loop, Stop returns only after the
\* loop has ended and handed over what was queued before, for any number of
\* callers and frames.
THEOREM StopDrains == Spec => []StopDrainsRunningLoop
BY Inductive, PTL DEF IInv

==============================================================================
