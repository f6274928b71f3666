---------------------------- MODULE LossyChannel ----------------------------
(***************************************************************************)
(* What the streaming parts of the gateway promise of one direction of     *)
(* traffic: frames, numbered as they are accepted, come out in that order  *)
(* and none comes out twice.  Any frame under way may be lost, for a       *)
(* sender may fail and a connection may close.  The relay, the WebSocket   *)
(* endpoint and the WebSocket proxy implement it (module Streams).         *)
(***************************************************************************)
EXTENDS Naturals, Sequences

VARIABLES
  accepted,   \* how many frames were taken from the sender
  pending,    \* frames under way, oldest first
  delivered   \* frames handed to the receiver, oldest first

vars == <<accepted, pending, delivered>>

Init == accepted = 0 /\ pending = <<>> /\ delivered = <<>>

Accept ==
  /\ accepted' = accepted + 1
  /\ pending' = Append(pending, accepted + 1)
  /\ UNCHANGED delivered

Deliver ==
  /\ pending # <<>>
  /\ delivered' = Append(delivered, Head(pending))
  /\ pending' = Tail(pending)
  /\ UNCHANGED accepted

\* The sequence q without its i-th element.
Without(q, i) == [k \in 1..(Len(q) - 1) |-> IF k < i THEN q[k] ELSE q[k + 1]]

Lose ==
  /\ \E i \in DOMAIN pending : pending' = Without(pending, i)
  /\ UNCHANGED <<accepted, delivered>>

Next == Accept \/ Deliver \/ Lose

Spec == Init /\ [][Next]_vars

Increasing(q) == \A i, j \in DOMAIN q : i < j => q[i] < q[j]

\* Delivered frames are in the order they were accepted in, without
\* repetition, and so are the ones that may still follow.
InOrder ==
  /\ Increasing(delivered) /\ Increasing(pending)
  /\ \A i \in DOMAIN delivered, j \in DOMAIN pending : delivered[i] < pending[j]

=============================================================================
