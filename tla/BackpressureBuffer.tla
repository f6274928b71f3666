------------------------- MODULE BackpressureBuffer -------------------------
(***************************************************************************)
(* The bounded frame buffer of internal/streaming/buffer.go: callers of    *)
(* Write, Start, Stop and Resize against the drain goroutines and the      *)
(* forwarder goroutines those calls spawn.                                 *)
(*                                                                         *)
(* Frames are numbered by the Write that brought them.  Channel k is the   *)
(* one the k-th Resize allocated (channel 0 is the constructor's), and     *)
(* forwarder k moves frames from channel k-1 to channel k.  b.mu is the    *)
(* variable mu; only Write can block while it holds it (on the channel     *)
(* send), so every other critical section is one step guarded by mu being  *)
(* free.  b.wg counts exactly the drains that are not "idle".              *)
(***************************************************************************)
EXTENDS Integers, Sequences, FiniteSets

CONSTANTS
  Writers,      \* goroutines that call Write
  Stoppers,     \* goroutines that call Stop
  Drains,       \* identities for drain goroutines: the bound on live ones
  Free,         \* b.mu is not held
  MaxFrames,    \* bound on the number of accepted Write calls
  MaxResizes,   \* bound on the number of Resize calls
  InitSizes,    \* arguments <<capacity, highWM, lowWM>> of the constructor
  ResizeSizes,  \* arguments of Resize
  SenderFails   \* whether FrameSender.SendFrame may return an error

ASSUME BufferAssumption ==
  /\ MaxFrames \in Nat /\ MaxResizes \in Nat
  /\ Free \notin Writers
  /\ InitSizes \subseteq Int \X Int \X Int
  /\ ResizeSizes \subseteq Int \X Int \X Int
  /\ SenderFails \in BOOLEAN

VARIABLES
  chans,     \* contents of every channel allocated so far
  caps,      \* their capacities
  cur,       \* the channel b.buffer points to
  high, low, \* the watermarks
  mu,        \* Free, or the writer that holds b.mu in its channel send
  running, stopped,
  stopCh,    \* b.stopCh is closed
  ctxDone,   \* the context given to Start is canceled
  drain,     \* per drain goroutine: pc, captured channel, frame in hand, loop
  fwd,       \* per forwarder goroutine: pc and frame in hand
  stop,      \* per Stop caller: pc
  received,  \* stats.TotalReceived
  dropped,   \* stats.TotalDropped
  sent,      \* frames handed to the sender and counted in stats.TotalSent
  lost       \* frames whose SendFrame failed in a drain loop: in no counter

vars == <<chans, caps, cur, high, low, mu, running, stopped, stopCh, ctxDone,
          drain, fwd, stop, received, dropped, sent, lost>>
sizeVars == <<caps, cur, high, low>>
flagVars == <<running, stopped, stopCh, ctxDone>>
statVars == <<received, dropped, sent, lost>>

Channels == 0..MaxResizes
DrainPCs == {"idle", "top", "lock", "recv", "send", "check",
             "flushLock", "flush", "flushSend", "exit", "done"}
Idle == [pc |-> "idle", buf |-> 0, frame |-> 0, ctx |-> FALSE]

-----------------------------------------------------------------------------
(* Watermark defaults, shared by the constructor and Resize.               *)
NormHigh(cap, h) == IF h <= 0 \/ h > cap THEN cap ELSE h
NormLow(h, l)    == IF l < 0 \/ l > h THEN h \div 2 ELSE l

NewBackpressureBuffer(size) ==
  LET c == IF size[1] <= 0 THEN 1024 ELSE size[1]
      h == NormHigh(c, size[2])
  IN  /\ caps = [k \in Channels |-> IF k = 0 THEN c ELSE 0]
      /\ high = h
      /\ low = NormLow(h, size[3])

Init ==
  /\ \E size \in InitSizes : NewBackpressureBuffer(size)
  /\ chans = [k \in Channels |-> <<>>]
  /\ cur = 0
  /\ mu = Free
  /\ running = FALSE /\ stopped = FALSE /\ stopCh = FALSE /\ ctxDone = FALSE
  /\ drain = [d \in Drains |-> Idle]
  /\ fwd = [k \in 1..MaxResizes |-> [pc |-> "none", item |-> 0]]
  /\ stop = [s \in Stoppers |-> "idle"]
  /\ received = 0 /\ dropped = 0 /\ sent = <<>> /\ lost = 0

-----------------------------------------------------------------------------
(* Write, Start, Stop and Resize.                                          *)

(* Write up to the channel send; after Stop it returns an error at once.   *)
WriteBegin(w) ==
  /\ mu = Free /\ ~stopped /\ received < MaxFrames
  /\ received' = received + 1
  /\ \/ Len(chans[cur]) >= high /\ dropped' = dropped + 1 /\ UNCHANGED mu
     \/ Len(chans[cur]) < high /\ mu' = w /\ UNCHANGED dropped
  /\ UNCHANGED <<chans, sizeVars, flagVars, drain, fwd, stop, sent, lost>>

Spawn(d, ctx) ==
  /\ drain[d].pc = "idle"
  /\ drain' = [drain EXCEPT ![d] = [Idle EXCEPT !.pc = "top", !.ctx = ctx]]

(* The channel send, which blocks while the channel is full, and the rest. *)
WriteSendMut(w) ==
  /\ mu = w
  /\ Len(chans[cur]) < caps[cur]
  /\ chans' = [chans EXCEPT ![cur] = Append(@, received)]
  /\ running' = TRUE
  /\ \E d \in Drains : Spawn(d, FALSE)
  /\ mu' = Free
  /\ UNCHANGED <<sizeVars, stopped, stopCh, ctxDone, fwd, stop, statVars>>

WriteSend(w) ==
  /\ mu = w
  /\ Len(chans[cur]) < caps[cur]
  /\ chans' = [chans EXCEPT ![cur] = Append(@, received)]
  /\ running' = TRUE
  /\ IF running THEN UNCHANGED drain ELSE \E d \in Drains : Spawn(d, FALSE)
  /\ mu' = Free
  /\ UNCHANGED <<sizeVars, stopped, stopCh, ctxDone, fwd, stop, statVars>>

StartMut(d) ==
  /\ mu = Free /\ ~running
  /\ running' = TRUE
  /\ Spawn(d, TRUE)
  /\ UNCHANGED <<chans, sizeVars, mu, stopped, stopCh, ctxDone, fwd, stop, statVars>>

Start(d) ==
  /\ mu = Free /\ ~running /\ ~stopped
  /\ running' = TRUE
  /\ Spawn(d, TRUE)
  /\ UNCHANGED <<chans, sizeVars, mu, stopped, stopCh, ctxDone, fwd, stop, statVars>>

CancelCtx ==
  /\ ~ctxDone /\ ctxDone' = TRUE
  /\ UNCHANGED <<chans, sizeVars, mu, running, stopped, stopCh, drain, fwd, stop, statVars>>

(* Stop: set the flag under the lock, close stopCh, wait for the drains.   *)
StopFlag(s) ==
  /\ stop[s] = "idle" /\ mu = Free
  /\ stopped' = TRUE
  /\ stop' = [stop EXCEPT ![s] = IF stopped THEN "again" ELSE "close"]
  /\ UNCHANGED <<chans, sizeVars, mu, running, stopCh, ctxDone, drain, fwd, statVars>>

StopClose(s) ==
  /\ stop[s] = "close"
  /\ stopCh' = TRUE
  /\ stop' = [stop EXCEPT ![s] = "wait"]
  /\ UNCHANGED <<chans, sizeVars, mu, running, stopped, ctxDone, drain, fwd, statVars>>

StopWait(s) ==
  /\ stop[s] = "wait"
  /\ \A d \in Drains : drain[d].pc = "idle"
  /\ stop' = [stop EXCEPT ![s] = "returned"]
  /\ UNCHANGED <<chans, sizeVars, mu, flagVars, drain, fwd, statVars>>

Resize(size) ==
  /\ mu = Free /\ cur < MaxResizes
  /\ LET c == IF size[1] <= 0 THEN caps[cur] ELSE size[1]
         h == NormHigh(c, size[2])
     IN  /\ caps' = [caps EXCEPT ![cur + 1] = c]
         /\ high' = h
         /\ low' = NormLow(h, size[3])
  /\ cur' = cur + 1
  /\ fwd' = [fwd EXCEPT ![cur + 1].pc = "take"]
  /\ UNCHANGED <<chans, mu, flagVars, drain, stop, statVars>>

-----------------------------------------------------------------------------
(* drainLoop, drainLoopCtx (ctx = TRUE) and flushRemaining.                *)

At(d, pc) == drain[d].pc = pc
Goto(d, pc) == drain' = [drain EXCEPT ![d].pc = pc]
Signalled(d) == stopCh \/ (drain[d].ctx /\ ctxDone)

(* Receive the oldest frame of the captured channel and go on to next.     *)
Take(d, next) ==
  LET b == drain[d].buf
  IN  /\ chans[b] # <<>>
      /\ chans' = [chans EXCEPT ![b] = Tail(@)]
      /\ drain' = [drain EXCEPT ![d].pc = next, ![d].frame = Head(chans[b])]

DrainTop(d) ==
  /\ At(d, "top")
  /\ Goto(d, IF Signalled(d) THEN "flushLock" ELSE "lock")
  /\ UNCHANGED <<chans, sizeVars, mu, flagVars, fwd, stop, statVars>>

(* Read len(b.buffer) and capture the channel under the lock.              *)
DrainLock(d) ==
  /\ At(d, "lock") /\ mu = Free
  /\ drain' = [drain EXCEPT ![d].buf = cur,
                            ![d].pc = IF chans[cur] = <<>> THEN "exit" ELSE "recv"]
  /\ UNCHANGED <<chans, sizeVars, mu, flagVars, fwd, stop, statVars>>

(* The blocking select: a frame, or the stop or cancel signal.             *)
DrainSelectMut(d) ==
  /\ At(d, "recv")
  /\ Take(d, "send")
  /\ UNCHANGED <<sizeVars, mu, flagVars, fwd, stop, statVars>>

DrainSelect(d) ==
  /\ At(d, "recv")
  /\ \/ Take(d, "send")
     \/ Signalled(d) /\ Goto(d, "flushLock") /\ UNCHANGED chans
  /\ UNCHANGED <<sizeVars, mu, flagVars, fwd, stop, statVars>>

(* Mutant: a frame the sender refused is put back behind the others.       *)
DrainSendMut(d) ==
  /\ At(d, "send")
  /\ \/ /\ sent' = Append(sent, drain[d].frame)
        /\ Goto(d, "check")
        /\ UNCHANGED <<chans, lost>>
     \/ /\ SenderFails
        /\ chans' = [chans EXCEPT ![cur] = Append(@, drain[d].frame)]
        /\ Goto(d, "exit")
        /\ UNCHANGED <<sent, lost>>
  /\ UNCHANGED <<sizeVars, mu, flagVars, fwd, stop, received, dropped>>

DrainSend(d) ==
  /\ At(d, "send")
  /\ \/ /\ sent' = Append(sent, drain[d].frame)
        /\ Goto(d, "check")
        /\ UNCHANGED lost
     \/ /\ SenderFails
        /\ lost' = lost + 1
        /\ Goto(d, "exit")
        /\ UNCHANGED sent
  /\ UNCHANGED <<chans, sizeVars, mu, flagVars, fwd, stop, received, dropped>>

DrainCheck(d) ==
  /\ At(d, "check") /\ mu = Free
  /\ Goto(d, IF Len(chans[cur]) <= low THEN "exit" ELSE "top")
  /\ UNCHANGED <<chans, sizeVars, mu, flagVars, fwd, stop, statVars>>

FlushLock(d) ==
  /\ At(d, "flushLock") /\ mu = Free
  /\ drain' = [drain EXCEPT ![d].buf = cur, ![d].pc = "flush"]
  /\ UNCHANGED <<chans, sizeVars, mu, flagVars, fwd, stop, statVars>>

FlushReceive(d) ==
  /\ At(d, "flush")
  /\ \/ Take(d, "flushSend")
     \/ chans[drain[d].buf] = <<>> /\ Goto(d, "exit") /\ UNCHANGED chans
  /\ UNCHANGED <<sizeVars, mu, flagVars, fwd, stop, statVars>>

(* flushRemaining ignores the error and counts the frame as sent.          *)
FlushSend(d) ==
  /\ At(d, "flushSend")
  /\ sent' = Append(sent, drain[d].frame)
  /\ Goto(d, "flush")
  /\ UNCHANGED <<chans, sizeVars, mu, flagVars, fwd, stop, received, dropped, lost>>

(* The deferred functions, last one first: running := false, then Done.    *)
DrainExit(d) ==
  /\ At(d, "exit") /\ mu = Free
  /\ running' = FALSE
  /\ Goto(d, "done")
  /\ UNCHANGED <<chans, sizeVars, mu, stopped, stopCh, ctxDone, fwd, stop, statVars>>

DrainDone(d) ==
  /\ At(d, "done")
  /\ drain' = [drain EXCEPT ![d] = Idle]
  /\ UNCHANGED <<chans, sizeVars, mu, flagVars, fwd, stop, statVars>>

-----------------------------------------------------------------------------
(* forwardItems, started by the k-th Resize.                               *)

ForwardTake(k) ==
  /\ fwd[k].pc = "take"
  /\ \/ /\ chans[k-1] # <<>>
        /\ chans' = [chans EXCEPT ![k-1] = Tail(@)]
        /\ fwd' = [fwd EXCEPT ![k] = [pc |-> "put", item |-> Head(chans[k-1])]]
     \/ /\ chans[k-1] = <<>>
        /\ fwd' = [fwd EXCEPT ![k].pc = "done"]
        /\ UNCHANGED chans
  /\ UNCHANGED <<sizeVars, mu, flagVars, drain, stop, statVars>>

ForwardPutMut(k) ==
  /\ fwd[k].pc = "put"
  /\ fwd' = [fwd EXCEPT ![k].pc = "take"]
  /\ IF Len(chans[k]) < caps[k]
     THEN chans' = [chans EXCEPT ![k] = Append(@, fwd[k].item)]
     ELSE UNCHANGED chans
  /\ UNCHANGED <<sizeVars, mu, flagVars, drain, stop, statVars>>

ForwardPut(k) ==
  /\ fwd[k].pc = "put"
  /\ fwd' = [fwd EXCEPT ![k].pc = "take"]
  /\ \/ /\ Len(chans[k]) < caps[k]
        /\ chans' = [chans EXCEPT ![k] = Append(@, fwd[k].item)]
        /\ UNCHANGED dropped
     \/ /\ Len(chans[k]) >= caps[k]
        /\ dropped' = dropped + 1
        /\ UNCHANGED chans
  /\ UNCHANGED <<sizeVars, mu, flagVars, drain, stop, received, sent, lost>>

-----------------------------------------------------------------------------
Drain(d) ==
  \/ DrainTop(d) \/ DrainLock(d) \/ DrainSelect(d) \/ DrainSend(d) \/ DrainCheck(d)
  \/ FlushLock(d) \/ FlushReceive(d) \/ FlushSend(d) \/ DrainExit(d) \/ DrainDone(d)
Stop(s) == StopFlag(s) \/ StopClose(s) \/ StopWait(s)
Forward(k) == ForwardTake(k) \/ ForwardPut(k)

Next ==
  \/ \E w \in Writers : WriteBegin(w) \/ WriteSend(w)
  \/ \E d \in Drains : Start(d) \/ Drain(d)
  \/ CancelCtx
  \/ \E s \in Stoppers : Stop(s)
  \/ \E size \in ResizeSizes : Resize(size)
  \/ \E k \in 1..MaxResizes : Forward(k)

Spec == Init /\ [][Next]_vars

(* Goroutines that have started are scheduled; callers need not call, but  *)
(* a Write or a Stop that began keeps running.                             *)
Fairness ==
  /\ \A w \in Writers : WF_vars(WriteSend(w))
  /\ \A d \in Drains : WF_vars(Drain(d))
  /\ \A s \in Stoppers : WF_vars(StopClose(s) \/ StopWait(s))
  /\ \A k \in 1..MaxResizes : WF_vars(Forward(k))

FairSpec == Spec /\ Fairness

-----------------------------------------------------------------------------
(* Properties.                                                             *)

Frames == 0..MaxFrames   \* 0: no frame in hand
DrainType == [pc : DrainPCs, buf : Channels, frame : Frames, ctx : BOOLEAN]
ForwardType == [pc : {"none", "take", "put", "done"}, item : Frames]
StopPCs == {"idle", "close", "wait", "returned", "again"}

FramesOK == chans \in [Channels -> Seq(Frames)] /\ sent \in Seq(Frames)
SizesOK  == caps \in [Channels -> Nat] /\ cur \in Channels /\ high \in Nat /\ low \in Nat
FlagsOK  == /\ mu \in Writers \cup {Free}
            /\ {running, stopped, stopCh, ctxDone} \subseteq BOOLEAN
CountsOK == received \in 0..MaxFrames /\ dropped \in Nat /\ lost \in Nat

(* Types of the channels, watermarks, flags, goroutines and counters; the  *)
(* watermarks are natural numbers whatever the caller passed.              *)
TypeOK ==
  /\ FramesOK /\ SizesOK /\ FlagsOK /\ CountsOK
  /\ drain \in [Drains -> DrainType]
  /\ fwd \in [1..MaxResizes -> ForwardType]
  /\ stop \in [Stoppers -> StopPCs]

Active(d) == drain[d].pc \notin {"idle", "done"}
Alive(d) == drain[d].pc # "idle"

(* The running flag that Write and Start consult is exact: it is set       *)
(* exactly while one drain goroutine may still touch the buffer, and there *)
(* are never two of them, whatever Write, Start, Stop and Resize do.       *)
SingleDrain ==
  /\ \A d, e \in Drains : Active(d) /\ Active(e) => d = e
  /\ running <=> \E d \in Drains : Active(d)

(* When the Stop call that set the flag has returned, no drain goroutine   *)
(* is left, and none can be started by a later Write or Start.             *)
StopQuiesces ==
  \A s \in Stoppers : stop[s] = "returned" => \A d \in Drains : ~Alive(d)

Buffered == {p \in Channels \X (1..MaxFrames) : p[2] <= Len(chans[p[1]])}
Holders == {d \in Drains : drain[d].pc \in {"send", "flushSend"}}
Movers == {k \in 1..MaxResizes : fwd[k].pc = "put"}
FramesInside ==
  {chans[p[1]][p[2]] : p \in Buffered}
    \cup {drain[d].frame : d \in Holders} \cup {fwd[k].item : k \in Movers}

(* Every frame counted in TotalReceived is in exactly one place: sent,     *)
(* dropped and counted, lost to a sender error, waiting in a channel (old  *)
(* or new), or in the hand of one goroutine.  Nothing is duplicated by the *)
(* drain of an old channel racing the forwarder of a Resize.               *)
Conservation ==
  LET inside == Cardinality(Buffered) + Cardinality(Holders) + Cardinality(Movers)
      sentIds == {sent[i] : i \in DOMAIN sent}
      pending == IF mu = Free THEN 0 ELSE 1
  IN  /\ received = pending + Len(sent) + dropped + lost + inside
      /\ Cardinality(sentIds \cup FramesInside) = Len(sent) + inside

(* Without Resize, frames reach the sender in the order of their Writes,   *)
(* across the end of one drain goroutine and the start of the next.        *)
FIFO ==
  cur = 0 => \A i, j \in DOMAIN sent : i < j => sent[i] < sent[j]

(* A Stop that set the flag returns: a drain blocked on a channel that a   *)
(* Resize emptied is woken by stopCh, flushes and finishes.                *)
StopReturns ==
  \A s \in Stoppers : stop[s] = "close" ~> stop[s] = "returned"

=============================================================================
