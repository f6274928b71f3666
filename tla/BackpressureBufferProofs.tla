---------------------- MODULE BackpressureBufferProofs ----------------------
(***************************************************************************)
(* Type correctness of BackpressureBuffer, and the two facts its locking   *)
(* is there for: at most one drain goroutine works at a time, and none is  *)
(* left once Stop has returned.                                            *)
(***************************************************************************)
EXTENDS BackpressureBuffer, TLAPS

(* The strengthening: a writer holds b.mu only while the buffer is not     *)
(* stopped, and every Stop call past its first step has set the flag.      *)
StopFlagged ==
  /\ mu \in Writers => ~stopped
  /\ \A s \in Stoppers : stop[s] # "idle" => stopped

IInv == TypeOK /\ SingleDrain /\ StopQuiesces /\ StopFlagged

(* Normalised watermarks are natural numbers.                              *)
LEMMA NormNat ==
  ASSUME NEW c \in Nat, NEW h \in Int, NEW l \in Int
  PROVE  /\ NormHigh(c, h) \in Nat
         /\ NormLow(NormHigh(c, h), l) \in Nat
<1>1. NormHigh(c, h) \in Nat
  BY DEF NormHigh
<1>2. ASSUME NEW n \in Nat PROVE NormLow(n, l) \in Nat
  <2>1. n \div 2 \in Nat
    BY SMT
  <2>2. QED
    BY <2>1 DEF NormLow
<1>3. QED
  BY <1>1, <1>2

(* The constructor's state is well typed: buffer.go:52-72.                 *)
LEMMA InitTypeOK == Init => TypeOK
<1> SUFFICES ASSUME Init PROVE TypeOK
  OBVIOUS
<1>1. PICK size \in InitSizes : NewBackpressureBuffer(size)
  BY DEF Init
<1>2. size[1] \in Int /\ size[2] \in Int /\ size[3] \in Int
  BY BufferAssumption
<1> DEFINE c == IF size[1] <= 0 THEN 1024 ELSE size[1]
<1>3. c \in Nat
  BY <1>2
<1>4. high \in Nat /\ low \in Nat
  <2>1. high = NormHigh(c, size[2]) /\ low = NormLow(NormHigh(c, size[2]), size[3])
    BY <1>1 DEF NewBackpressureBuffer
  <2> HIDE DEF c
  <2>2. QED
    BY <2>1, <1>2, <1>3, NormNat
<1>5. caps \in [Channels -> Nat]
  BY <1>1, <1>3 DEF NewBackpressureBuffer
<1>6. 0 \in Channels
  BY BufferAssumption DEF Channels
<1>7. FramesOK
  BY DEF Init, FramesOK
<1>8. drain \in [Drains -> DrainType]
  BY <1>6, BufferAssumption DEF Init, Idle, DrainType, DrainPCs, Frames
<1>9. fwd \in [1..MaxResizes -> ForwardType]
  BY BufferAssumption DEF Init, ForwardType, Frames
<1>10. stop \in [Stoppers -> StopPCs]
  BY DEF Init, StopPCs
<1>11. FlagsOK
  BY Zenon DEF Init, FlagsOK
<1>12. SizesOK
  BY <1>4, <1>5, <1>6 DEF Init, SizesOK
<1>13. CountsOK
  BY BufferAssumption DEF Init, CountsOK
<1>14. QED
  BY <1>7, <1>8, <1>9, <1>10, <1>11, <1>12, <1>13 DEF TypeOK

(* Replacing one field of one goroutine's record keeps the type.           *)
LEMMA DrainUpdate ==
  ASSUME drain \in [Drains -> DrainType], NEW d \in Drains, NEW pc \in DrainPCs
  PROVE  /\ [drain EXCEPT ![d].pc = pc] \in [Drains -> DrainType]
         /\ \A b \in Channels :
              [drain EXCEPT ![d].buf = b, ![d].pc = pc] \in [Drains -> DrainType]
         /\ \A f \in Frames :
              [drain EXCEPT ![d].pc = pc, ![d].frame = f] \in [Drains -> DrainType]
         /\ \A ctx \in BOOLEAN :
              [drain EXCEPT ![d] = [Idle EXCEPT !.pc = pc, !.ctx = ctx]] \in [Drains -> DrainType]
         /\ [drain EXCEPT ![d] = Idle] \in [Drains -> DrainType]
<1>1. [drain EXCEPT ![d].pc = pc] \in [Drains -> DrainType]
  BY DEF DrainType
<1>2. ASSUME NEW b \in Channels
      PROVE  [drain EXCEPT ![d].buf = b, ![d].pc = pc] \in [Drains -> DrainType]
  BY DEF DrainType
<1>3. ASSUME NEW f \in Frames
      PROVE  [drain EXCEPT ![d].pc = pc, ![d].frame = f] \in [Drains -> DrainType]
  BY DEF DrainType
<1>4. 0 \in Channels /\ 0 \in Frames /\ "idle" \in DrainPCs
  BY BufferAssumption DEF Channels, Frames, DrainPCs
<1>5. Idle \in DrainType
  BY <1>4 DEF Idle, DrainType
<1>6. ASSUME NEW ctx \in BOOLEAN
      PROVE  [Idle EXCEPT !.pc = pc, !.ctx = ctx] \in DrainType
  BY <1>4 DEF Idle, DrainType
<1>7. QED
  BY <1>1, <1>2, <1>3, <1>5, <1>6

(* Receiving from a channel keeps the channels typed, and the frame is one. *)
LEMMA TakeTypes ==
  ASSUME chans \in [Channels -> Seq(Frames)], NEW k \in Channels, chans[k] # <<>>
  PROVE  /\ Head(chans[k]) \in Frames
         /\ [chans EXCEPT ![k] = Tail(@)] \in [Channels -> Seq(Frames)]
  OBVIOUS

(* So does sending a frame.                                                *)
LEMMA PutTypes ==
  ASSUME chans \in [Channels -> Seq(Frames)], NEW k \in Channels, NEW f \in Frames
  PROVE  [chans EXCEPT ![k] = Append(@, f)] \in [Channels -> Seq(Frames)]
  OBVIOUS

(* Every step keeps the types, one lemma per group of variables and one    *)
(* case per action that writes one of them.                                *)
LEMMA FlagsStep == TypeOK /\ [Next]_vars => FlagsOK'
<1> SUFFICES ASSUME TypeOK, [Next]_vars PROVE FlagsOK'
  OBVIOUS
<1>1. {TRUE, FALSE} \subseteq BOOLEAN
  OBVIOUS
<1>2. FlagsOK
  BY DEF TypeOK
<1>3. QED
  BY <1>1, <1>2, Zenon
  DEF FlagsOK, Next, vars, sizeVars, flagVars, statVars, WriteBegin, WriteSend, Start,
      CancelCtx, Stop, StopFlag, StopClose, StopWait, Resize, Drain, DrainTop, DrainLock,
      DrainSelect, DrainSend, DrainCheck, FlushLock, FlushReceive, FlushSend, DrainExit,
      DrainDone, Forward, ForwardTake, ForwardPut

\* The counters of Stats stay natural numbers.
LEMMA CountsStep == TypeOK /\ [Next]_vars => CountsOK'
<1> SUFFICES ASSUME TypeOK, [Next]_vars PROVE CountsOK'
  OBVIOUS
<1>1. CountsOK
  BY DEF TypeOK
<1>2. \/ \E w \in Writers : WriteBegin(w)
      \/ \E d \in Drains : DrainSend(d)
      \/ \E k \in 1..MaxResizes : ForwardPut(k)
      \/ UNCHANGED <<received, dropped, lost>>
  BY ZenonT(30)
  DEF Next, vars, sizeVars, flagVars, statVars, Stop, Drain, Forward, WriteSend,
      Start, CancelCtx, StopFlag, StopClose, StopWait, Resize, DrainTop, DrainLock,
      DrainSelect, DrainCheck, FlushLock, FlushReceive, FlushSend, DrainExit,
      DrainDone, ForwardTake
<1>3. QED
  BY <1>1, <1>2, BufferAssumption DEF CountsOK, WriteBegin, DrainSend, ForwardPut

\* Resize keeps capacities and watermarks natural numbers, whatever it is passed.
LEMMA SizesStep == TypeOK /\ [Next]_vars => SizesOK'
<1> SUFFICES ASSUME TypeOK, [Next]_vars PROVE SizesOK'
  OBVIOUS
<1>1. SizesOK
  BY DEF TypeOK
<1>2. (\E size \in ResizeSizes : Resize(size)) \/ UNCHANGED sizeVars
  BY ZenonT(30)
  DEF Next, vars, sizeVars, flagVars, statVars, Stop, Drain, Forward, WriteBegin,
      WriteSend, Start, CancelCtx, StopFlag, StopClose, StopWait, DrainTop, DrainLock,
      DrainSelect, DrainSend, DrainCheck, FlushLock, FlushReceive, FlushSend,
      DrainExit, DrainDone, ForwardTake, ForwardPut
<1>3. CASE UNCHANGED sizeVars
  BY <1>1, <1>3 DEF SizesOK, sizeVars
<1>4. ASSUME NEW size \in ResizeSizes, Resize(size) PROVE SizesOK'
  <2> DEFINE c == IF size[1] <= 0 THEN caps[cur] ELSE size[1]
  <2>1. size[1] \in Int /\ size[2] \in Int /\ size[3] \in Int
    BY BufferAssumption
  <2>2. c \in Nat
    BY <1>1, <2>1 DEF SizesOK
  <2>3. /\ cur < MaxResizes
        /\ caps' = [caps EXCEPT ![cur + 1] = c]
        /\ high' = NormHigh(c, size[2])
        /\ low' = NormLow(NormHigh(c, size[2]), size[3])
        /\ cur' = cur + 1
    BY <1>4 DEF Resize
  <2> HIDE DEF c
  <2>4. high' \in Nat /\ low' \in Nat
    BY <2>1, <2>2, <2>3, NormNat
  <2>5. cur' \in Channels
    BY <1>1, <2>3, BufferAssumption DEF SizesOK, Channels
  <2>6. caps' \in [Channels -> Nat]
    BY <1>1, <2>2, <2>3 DEF SizesOK
  <2>7. QED
    BY <2>4, <2>5, <2>6 DEF SizesOK
<1>5. QED
  BY <1>2, <1>3, <1>4

\* Each Stop is at one of its steps.
LEMMA StopStep == TypeOK /\ [Next]_vars => (stop \in [Stoppers -> StopPCs])'
<1> SUFFICES ASSUME TypeOK, [Next]_vars PROVE stop' \in [Stoppers -> StopPCs]
  OBVIOUS
<1>1. stop \in [Stoppers -> StopPCs]
  BY DEF TypeOK
<1>2. (\E s \in Stoppers : StopFlag(s) \/ StopClose(s) \/ StopWait(s)) \/ UNCHANGED stop
  BY Zenon
  DEF Next, vars, sizeVars, flagVars, statVars, Stop, Drain, Forward, WriteBegin,
      WriteSend, Start, CancelCtx, Resize, DrainTop, DrainLock, DrainSelect,
      DrainSend, DrainCheck, FlushLock, FlushReceive, FlushSend, DrainExit, DrainDone,
      ForwardTake, ForwardPut
<1>3. QED
  BY <1>1, <1>2 DEF StopPCs, StopFlag, StopClose, StopWait

\* Each forwarder of Resize keeps its type.
LEMMA ForwardStep == TypeOK /\ [Next]_vars => (fwd \in [1..MaxResizes -> ForwardType])'
<1> SUFFICES ASSUME TypeOK, [Next]_vars PROVE fwd' \in [1..MaxResizes -> ForwardType]
  OBVIOUS
<1>1. fwd \in [1..MaxResizes -> ForwardType] /\ chans \in [Channels -> Seq(Frames)]
  BY DEF TypeOK, FramesOK
<1>2. \/ \E size \in ResizeSizes : Resize(size)
      \/ \E k \in 1..MaxResizes : ForwardTake(k) \/ ForwardPut(k)
      \/ UNCHANGED fwd
  BY Zenon
  DEF Next, vars, sizeVars, flagVars, statVars, Stop, Drain, Forward, WriteBegin,
      WriteSend, Start, CancelCtx, StopFlag, StopClose, StopWait, DrainTop, DrainLock,
      DrainSelect, DrainSend, DrainCheck, FlushLock, FlushReceive, FlushSend,
      DrainExit, DrainDone
<1>3. ASSUME NEW size \in ResizeSizes, Resize(size)
      PROVE  fwd' \in [1..MaxResizes -> ForwardType]
  BY <1>1, <1>3 DEF Resize, ForwardType
<1>4. ASSUME NEW k \in 1..MaxResizes, ForwardTake(k)
      PROVE  fwd' \in [1..MaxResizes -> ForwardType]
  <2>1. k - 1 \in Channels
    BY BufferAssumption DEF Channels
  <2>2. chans[k-1] # <<>> => Head(chans[k-1]) \in Frames
    BY <1>1, <2>1, TakeTypes
  <2>3. QED
    BY <1>1, <1>4, <2>2, SMTT(30) DEF ForwardTake, ForwardType
<1>5. ASSUME NEW k \in 1..MaxResizes, ForwardPut(k)
      PROVE  fwd' \in [1..MaxResizes -> ForwardType]
  BY <1>1, <1>5 DEF ForwardPut, ForwardType
<1>6. QED
  BY <1>1, <1>2, <1>3, <1>4, <1>5

\* Channels hold frames that were written.
LEMMA FramesStep == TypeOK /\ [Next]_vars => FramesOK'
<1> SUFFICES ASSUME TypeOK, [Next]_vars PROVE FramesOK'
  OBVIOUS
<1>1. /\ chans \in [Channels -> Seq(Frames)] /\ sent \in Seq(Frames)
      /\ cur \in Channels /\ received \in Frames
      /\ drain \in [Drains -> DrainType] /\ fwd \in [1..MaxResizes -> ForwardType]
  BY DEF TypeOK, FramesOK, SizesOK, CountsOK, Frames
<1>2. \/ \E w \in Writers : WriteSend(w)
      \/ \E d \in Drains : DrainSelect(d) \/ FlushReceive(d) \/ DrainSend(d) \/ FlushSend(d)
      \/ \E k \in 1..MaxResizes : ForwardTake(k) \/ ForwardPut(k)
      \/ UNCHANGED <<chans, sent>>
  BY Zenon
  DEF Next, vars, sizeVars, flagVars, statVars, Stop, Drain, Forward, WriteBegin,
      Start, CancelCtx, StopFlag, StopClose, StopWait, Resize, DrainTop, DrainLock,
      DrainCheck, FlushLock, DrainExit, DrainDone
<1>3. ASSUME NEW w \in Writers, WriteSend(w) PROVE FramesOK'
  <2>1. chans' = [chans EXCEPT ![cur] = Append(@, received)] /\ sent' = sent
    BY <1>3 DEF WriteSend, statVars
  <2>2. QED
    BY <1>1, <2>1, PutTypes DEF FramesOK
<1>4. ASSUME NEW d \in Drains, DrainSelect(d) \/ FlushReceive(d) PROVE FramesOK'
  <2>1. /\ sent' = sent
        /\ \/ UNCHANGED chans
           \/ /\ chans[drain[d].buf] # <<>>
              /\ chans' = [chans EXCEPT ![drain[d].buf] = Tail(@)]
    BY <1>4, Zenon DEF DrainSelect, FlushReceive, Take, statVars
  <2>2. drain[d].buf \in Channels
    BY <1>1 DEF DrainType
  <2>3. QED
    BY <1>1, <2>1, <2>2, TakeTypes DEF FramesOK
<1>5. ASSUME NEW d \in Drains, DrainSend(d) \/ FlushSend(d) PROVE FramesOK'
  <2>1. chans' = chans /\ (sent' = sent \/ sent' = Append(sent, drain[d].frame))
    BY <1>5, Zenon DEF DrainSend, FlushSend
  <2>2. drain[d].frame \in Frames
    BY <1>1 DEF DrainType
  <2>3. \A f \in Frames : Append(sent, f) \in Seq(Frames)
    BY <1>1
  <2>4. QED
    BY <1>1, <2>1, <2>2, <2>3, Zenon DEF FramesOK
<1>6. ASSUME NEW k \in 1..MaxResizes, ForwardTake(k) \/ ForwardPut(k) PROVE FramesOK'
  <2>1. /\ sent' = sent
        /\ \/ UNCHANGED chans
           \/ chans[k-1] # <<>> /\ chans' = [chans EXCEPT ![k-1] = Tail(@)]
           \/ chans' = [chans EXCEPT ![k] = Append(@, fwd[k].item)]
    BY <1>6, Zenon DEF ForwardTake, ForwardPut, statVars
  <2>2. k \in Channels /\ k - 1 \in Channels
    BY BufferAssumption DEF Channels
  <2>3. fwd[k].item \in Frames
    BY <1>1 DEF ForwardType
  <2>4. [chans EXCEPT ![k] = Append(@, fwd[k].item)] \in [Channels -> Seq(Frames)]
    BY <1>1, <2>2, <2>3, PutTypes
  <2>5. chans[k-1] # <<>> => [chans EXCEPT ![k-1] = Tail(@)] \in [Channels -> Seq(Frames)]
    BY <1>1, <2>2, TakeTypes
  <2>6. QED
    BY <1>1, <2>1, <2>4, <2>5, Zenon DEF FramesOK
<1>7. QED
  BY <1>1, <1>2, <1>3, <1>4, <1>5, <1>6 DEF FramesOK

\* Each drain keeps its type.
LEMMA DrainStep == TypeOK /\ [Next]_vars => (drain \in [Drains -> DrainType])'
<1> SUFFICES ASSUME TypeOK, [Next]_vars PROVE drain' \in [Drains -> DrainType]
  OBVIOUS
<1>1. /\ drain \in [Drains -> DrainType] /\ cur \in Channels
      /\ chans \in [Channels -> Seq(Frames)]
  BY DEF TypeOK, FramesOK, SizesOK
<1>2. {"top", "lock", "recv", "send", "check", "flushLock", "flush", "flushSend",
       "exit", "done"} \subseteq DrainPCs
  BY DEF DrainPCs
<1>3. ASSUME NEW d \in Drains, NEW ctx \in BOOLEAN, Spawn(d, ctx)
      PROVE  drain' \in [Drains -> DrainType]
  BY <1>1, <1>2, <1>3, DrainUpdate DEF Spawn
<1>4. ASSUME NEW d \in Drains, NEW pc \in DrainPCs, Goto(d, pc)
      PROVE  drain' \in [Drains -> DrainType]
  BY <1>1, <1>4, DrainUpdate DEF Goto
<1>5. ASSUME NEW d \in Drains, NEW pc \in DrainPCs, Take(d, pc)
      PROVE  drain' \in [Drains -> DrainType]
  <2>1. drain[d].buf \in Channels
    BY <1>1 DEF DrainType
  <2>2. Head(chans[drain[d].buf]) \in Frames
    BY <1>1, <1>5, <2>1, TakeTypes DEF Take
  <2>3. QED
    BY <1>1, <1>5, <2>2, DrainUpdate DEF Take
<1>6. ASSUME NEW d \in Drains, DrainLock(d) \/ FlushLock(d)
      PROVE  drain' \in [Drains -> DrainType]
  <2>1. PICK pc \in DrainPCs : drain' = [drain EXCEPT ![d].buf = cur, ![d].pc = pc]
    BY <1>2, <1>6 DEF DrainLock, FlushLock
  <2>2. [drain EXCEPT ![d].buf = cur, ![d].pc = pc] \in [Drains -> DrainType]
    BY <1>1 DEF DrainType
  <2>3. QED
    BY <2>1, <2>2
<1>7. ASSUME NEW d \in Drains, DrainDone(d) PROVE drain' \in [Drains -> DrainType]
  BY <1>1, <1>2, <1>7, DrainUpdate DEF DrainDone
<1>8. \/ \E d \in Drains, ctx \in BOOLEAN : Spawn(d, ctx)
      \/ \E d \in Drains, pc \in DrainPCs : Goto(d, pc) \/ Take(d, pc)
      \/ \E d \in Drains : DrainLock(d) \/ FlushLock(d) \/ DrainDone(d)
      \/ UNCHANGED drain
  BY <1>2, Zenon
  DEF Next, vars, sizeVars, flagVars, statVars, Stop, Drain, Forward, WriteBegin,
      WriteSend, Start, CancelCtx, StopFlag, StopClose, StopWait, Resize, DrainTop,
      DrainSelect, DrainSend, DrainCheck, FlushReceive, FlushSend, DrainExit,
      ForwardTake, ForwardPut
<1>9. QED
  BY <1>1, <1>3, <1>4, <1>5, <1>6, <1>7, <1>8

(* Every state of the buffer is well typed: frames, capacities, watermarks *)
(* and the program counters of all goroutines, in any interleaving.        *)
THEOREM TypeCorrect == Spec => []TypeOK
<1>1. TypeOK /\ [Next]_vars => TypeOK'
  BY FlagsStep, CountsStep, SizesStep, StopStep, ForwardStep, FramesStep, DrainStep DEF TypeOK
<1>2. QED
  BY InitTypeOK, <1>1, PTL DEF Spec

-----------------------------------------------------------------------------

(* A new buffer satisfies the invariant.                                   *)
LEMMA InitIInv == Init => IInv
<1> SUFFICES ASSUME Init PROVE IInv
  OBVIOUS
<1>1. TypeOK
  BY InitTypeOK
<1>2. SingleDrain
  BY DEF Init, SingleDrain, Active, Idle
<1>3. StopQuiesces
  BY DEF Init, StopQuiesces
<1>4. StopFlagged
  BY BufferAssumption DEF Init, StopFlagged
<1>5. QED
  BY <1>1, <1>2, <1>3, <1>4 DEF IInv


(* What a step does to the drain goroutines and to the running flag: it    *)
(* starts one while none is running, moves one along, ends one, or leaves  *)
(* them alone.                                                             *)
Starts(d)   == /\ ~running /\ running' /\ drain[d].pc = "idle" /\ drain'[d].pc = "top"
               /\ ~stopped /\ UNCHANGED <<stop, stopped>>
Advances(d) == /\ Active(d) /\ drain'[d].pc \notin {"idle", "done"}
               /\ UNCHANGED <<running, stop, stopped>>
Exits(d)    == /\ drain[d].pc = "exit" /\ drain'[d].pc = "done" /\ ~running'
               /\ UNCHANGED <<stop, stopped>>
Ends(d)     == /\ drain[d].pc = "done" /\ drain'[d].pc = "idle"
               /\ UNCHANGED <<running, stop, stopped>>
OnlyMoves(d) == \A e \in Drains \ {d} : drain'[e] = drain[e]

\* A step moves one drain at most, and running changes only when a drain starts or ends.
LEMMA DrainEffects ==
  ASSUME IInv, [Next]_vars
  PROVE  \/ \E d \in Drains : /\ OnlyMoves(d)
                              /\ Starts(d) \/ Advances(d) \/ Exits(d) \/ Ends(d)
         \/ UNCHANGED <<drain, running>>
<1>1. drain \in [Drains -> DrainType]
  BY DEF IInv, TypeOK
<1>2. ASSUME NEW w \in Writers, WriteSend(w), ~running
      PROVE  \E d \in Drains : OnlyMoves(d) /\ Starts(d)
  <2>1. ~stopped
    BY <1>2 DEF IInv, StopFlagged, WriteSend
  <2>2. PICK d \in Drains : Spawn(d, FALSE)
    BY <1>2 DEF WriteSend
  <2>3. UNCHANGED <<stop, stopped>> /\ running'
    BY <1>2 DEF WriteSend
  <2>4. QED
    BY <1>1, <1>2, <2>1, <2>2, <2>3 DEF Spawn, OnlyMoves, Starts, Idle
<1>3. ASSUME NEW d \in Drains, Start(d) PROVE OnlyMoves(d) /\ Starts(d)
  BY <1>1, <1>3 DEF Start, Spawn, OnlyMoves, Starts, Idle
<1>4. ASSUME NEW d \in Drains, Active(d), NEW pc, pc \notin {"idle", "done"},
             Goto(d, pc) \/ Take(d, pc), UNCHANGED <<running, stop, stopped>>
      PROVE  OnlyMoves(d) /\ Advances(d)
  BY <1>1, <1>4 DEF Goto, Take, OnlyMoves, Advances, DrainType
<1>5. ASSUME NEW d \in Drains, DrainLock(d) \/ FlushLock(d) PROVE OnlyMoves(d) /\ Advances(d)
  BY <1>1, <1>5 DEF DrainLock, FlushLock, At, Active, OnlyMoves, Advances, DrainType, flagVars
<1>6. ASSUME NEW d \in Drains, DrainExit(d) PROVE OnlyMoves(d) /\ Exits(d)
  BY <1>1, <1>6 DEF DrainExit, Goto, At, OnlyMoves, Exits, DrainType
<1>7. ASSUME NEW d \in Drains, DrainDone(d) PROVE OnlyMoves(d) /\ Ends(d)
  BY <1>1, <1>7 DEF DrainDone, At, OnlyMoves, Ends, DrainType, Idle, flagVars
<1>8. ASSUME NEW d \in Drains,
             \/ DrainTop(d) \/ DrainSelect(d) \/ DrainSend(d) \/ DrainCheck(d)
             \/ FlushReceive(d) \/ FlushSend(d)
      PROVE  OnlyMoves(d) /\ Advances(d)
  <2>1. Active(d) /\ UNCHANGED <<running, stop, stopped>>
    BY <1>8 DEF DrainTop, DrainSelect, DrainSend, DrainCheck, FlushReceive, FlushSend,
                At, Active, flagVars
  <2>2. \E pc \in DrainPCs \ {"idle", "done"} : Goto(d, pc) \/ Take(d, pc)
    BY <1>8 DEF DrainTop, DrainSelect, DrainSend, DrainCheck, FlushReceive, FlushSend, DrainPCs
  <2>3. QED
    BY <1>4, <2>1, <2>2
<1>9. \/ \E w \in Writers : WriteSend(w) /\ ~running
      \/ \E d \in Drains : Start(d) \/ Drain(d)
      \/ UNCHANGED <<drain, running>>
  BY Zenon
  DEF Next, vars, sizeVars, flagVars, statVars, Stop, Forward, WriteBegin,
      WriteSend, CancelCtx, StopFlag, StopClose, StopWait, Resize, ForwardTake,
      ForwardPut
<1>10. QED
  BY <1>2, <1>3, <1>5, <1>6, <1>7, <1>8, <1>9, Zenon DEF Drain

\* No step starts a second drain.
LEMMA StepSingleDrain == IInv /\ [Next]_vars => SingleDrain'
<1> SUFFICES ASSUME IInv, [Next]_vars PROVE SingleDrain'
  OBVIOUS
<1>1. SingleDrain /\ running \in BOOLEAN /\ running' \in BOOLEAN
  <2>1. TypeOK /\ FlagsOK'
    BY FlagsStep DEF IInv
  <2>2. QED
    BY <2>1 DEF IInv, TypeOK, FlagsOK
<1>2. CASE UNCHANGED <<drain, running>>
  BY <1>1, <1>2 DEF SingleDrain, Active
<1>3. ASSUME NEW d \in Drains, OnlyMoves(d), Starts(d) PROVE SingleDrain'
  BY <1>1, <1>3 DEF SingleDrain, Active, OnlyMoves, Starts
<1>4. ASSUME NEW d \in Drains, OnlyMoves(d), Advances(d) PROVE SingleDrain'
  BY <1>1, <1>4 DEF SingleDrain, Active, OnlyMoves, Advances
<1>5. ASSUME NEW d \in Drains, OnlyMoves(d), Exits(d) PROVE SingleDrain'
  BY <1>1, <1>5 DEF SingleDrain, Active, OnlyMoves, Exits
<1>6. ASSUME NEW d \in Drains, OnlyMoves(d), Ends(d) PROVE SingleDrain'
  BY <1>1, <1>6 DEF SingleDrain, Active, OnlyMoves, Ends
<1>7. QED
  BY <1>2, <1>3, <1>4, <1>5, <1>6, DrainEffects

\* A Stop past its first section has set stopped, and no writer holds the lock then.
LEMMA StepStopFlagged == IInv /\ [Next]_vars => StopFlagged'
<1> SUFFICES ASSUME IInv, [Next]_vars PROVE StopFlagged'
  OBVIOUS
<1>1. StopFlagged /\ stop \in [Stoppers -> StopPCs]
  BY DEF IInv, TypeOK
<1>2. ASSUME NEW s \in Stoppers, StopFlag(s) \/ StopClose(s) \/ StopWait(s)
      PROVE  StopFlagged'
  BY <1>1, <1>2, BufferAssumption DEF StopFlagged, StopFlag, StopClose, StopWait, flagVars
<1>3. ASSUME NEW w \in Writers, WriteBegin(w) PROVE StopFlagged'
  BY <1>1, <1>3 DEF StopFlagged, WriteBegin, flagVars
<1>4. ASSUME UNCHANGED <<stop, stopped>>, mu' = mu \/ mu' = Free PROVE StopFlagged'
  BY <1>1, <1>4, BufferAssumption DEF StopFlagged
<1>5. \/ \E s \in Stoppers : StopFlag(s) \/ StopClose(s) \/ StopWait(s)
      \/ \E w \in Writers : WriteBegin(w)
      \/ UNCHANGED <<stop, stopped>> /\ (mu' = mu \/ mu' = Free)
  BY Zenon
  DEF Next, vars, sizeVars, flagVars, statVars, Stop, Drain, Forward, WriteSend,
      Start, CancelCtx, Resize, DrainTop, DrainLock, DrainSelect, DrainSend,
      DrainCheck, FlushLock, FlushReceive, FlushSend, DrainExit, DrainDone,
      ForwardTake, ForwardPut
<1>6. QED
  BY <1>2, <1>3, <1>4, <1>5

\* No step leaves a drain behind a Stop that has returned.
LEMMA StepStopQuiesces == IInv /\ [Next]_vars => StopQuiesces'
<1> SUFFICES ASSUME IInv, [Next]_vars, NEW s \in Stoppers, stop'[s] = "returned"
             PROVE  \A d \in Drains : ~Alive(d)'
  BY DEF StopQuiesces
<1>1. stop \in [Stoppers -> StopPCs] /\ drain \in [Drains -> DrainType]
  BY DEF IInv, TypeOK
<1>2. CASE stop[s] = "returned"
  <2>1. stopped /\ \A d \in Drains : ~Alive(d)
    BY <1>2 DEF IInv, StopFlagged, StopQuiesces
  <2>2. ASSUME NEW d \in Drains, Starts(d) \/ Advances(d) \/ Exits(d) \/ Ends(d) PROVE FALSE
    BY <2>1, <2>2 DEF Alive, Active, Starts, Advances, Exits, Ends
  <2>3. UNCHANGED drain
    BY <2>2, DrainEffects
  <2>4. QED
    BY <2>1, <2>3 DEF Alive
<1>3. CASE stop[s] # "returned"
  <2>1. (\E t \in Stoppers : StopFlag(t) \/ StopClose(t) \/ StopWait(t)) \/ UNCHANGED stop
    BY Zenon
    DEF Next, vars, sizeVars, flagVars, statVars, Stop, Drain, Forward, WriteBegin,
        WriteSend, Start, CancelCtx, Resize, DrainTop, DrainLock, DrainSelect,
        DrainSend, DrainCheck, FlushLock, FlushReceive, FlushSend, DrainExit, DrainDone,
        ForwardTake, ForwardPut
  <2>2. PICK t \in Stoppers : StopFlag(t) \/ StopClose(t) \/ StopWait(t)
    BY <1>3, <2>1
  <2>3. StopWait(t)
    BY <1>1, <1>3, <2>2 DEF StopFlag, StopClose
  <2>4. QED
    BY <2>3 DEF StopWait, Alive
<1>4. QED
  BY <1>2, <1>3

\* The inductive invariant of the buffer holds.
LEMMA Inductive == Spec => []IInv
<1>1. IInv /\ [Next]_vars => IInv'
  <2>1. TypeOK /\ [Next]_vars => TypeOK'
    BY FlagsStep, CountsStep, SizesStep, StopStep, ForwardStep, FramesStep, DrainStep DEF TypeOK
  <2>2. QED
    BY <2>1, StepSingleDrain, StepStopFlagged, StepStopQuiesces DEF IInv
<1>2. QED
  BY InitIInv, <1>1, PTL DEF Spec

(* Never two drain goroutines at work on the buffer, and the running flag  *)
(* says exactly whether there is one (buffer.go:94-98, 110-113, 189-193).  *)
THEOREM OneDrain == Spec => []SingleDrain
<1>1. IInv => SingleDrain
  BY DEF IInv
<1>2. QED
  BY Inductive, <1>1, PTL

(* Once the Stop that set the flag has returned there is no drain          *)
(* goroutine, for any number of writers, stoppers and resizes              *)
(* (buffer.go:118-130).                                                    *)
THEOREM StopWaits == Spec => []StopQuiesces
<1>1. IInv => StopQuiesces
  BY DEF IInv
<1>2. QED
  BY Inductive, <1>1, PTL

=============================================================================
