------------------------- MODULE LossyChannelProofs -------------------------
(***************************************************************************)
(* The order of frames in a LossyChannel, however many are sent and        *)
(* whichever are lost.                                                     *)
(***************************************************************************)
EXTENDS LossyChannel, TLAPS

\* Frames are numbered from 1 and none under way or delivered is newer than
\* the last one accepted.
Bounded ==
  /\ accepted \in Nat
  /\ pending \in Seq(Nat) /\ delivered \in Seq(Nat)
  /\ \A i \in DOMAIN pending : pending[i] <= accepted
  /\ \A i \in DOMAIN delivered : delivered[i] <= accepted

IInv == Bounded /\ InOrder

\* A new frame is newer than all others.
LEMMA AcceptInOrder == IInv /\ Accept => IInv'
<1> SUFFICES ASSUME IInv, Accept PROVE IInv'
  OBVIOUS
<1> USE DEF IInv, Bounded, InOrder, Increasing, Accept
<1>1. /\ pending' \in Seq(Nat) /\ Len(pending') = Len(pending) + 1
      /\ \A i \in DOMAIN pending : pending'[i] = pending[i]
      /\ pending'[Len(pending) + 1] = accepted + 1
  OBVIOUS
<1>2. DOMAIN pending' = 1..(Len(pending) + 1) /\ DOMAIN pending = 1..Len(pending)
  BY <1>1
<1>3. Bounded'
  BY <1>1, <1>2
<1>4. Increasing(pending)'
  BY <1>1, <1>2
<1>5. \A i \in DOMAIN delivered, j \in DOMAIN pending' : delivered[i] < pending'[j]
  BY <1>1, <1>2
<1> QED BY <1>3, <1>4, <1>5

\* The oldest frame under way is newer than those delivered.
LEMMA DeliverInOrder == IInv /\ Deliver => IInv'
<1> SUFFICES ASSUME IInv, Deliver PROVE IInv'
  OBVIOUS
<1> USE DEF IInv, Bounded, InOrder, Increasing, Deliver
<1>1. /\ pending' \in Seq(Nat) /\ DOMAIN pending' = 1..(Len(pending) - 1)
      /\ \A i \in DOMAIN pending' : pending'[i] = pending[i + 1] /\ i + 1 \in DOMAIN pending
      /\ 1 \in DOMAIN pending /\ Head(pending) = pending[1]
  OBVIOUS
<1>2. /\ delivered' \in Seq(Nat) /\ DOMAIN delivered' = 1..(Len(delivered) + 1)
      /\ \A i \in DOMAIN delivered : delivered'[i] = delivered[i]
      /\ delivered'[Len(delivered) + 1] = pending[1]
  BY <1>1
<1>3. Bounded'
  <2>1. \A i \in DOMAIN pending' : pending'[i] <= accepted
    BY <1>1
  <2>2. \A i \in DOMAIN delivered' : delivered'[i] <= accepted
    BY <1>1, <1>2
  <2> QED BY <1>1, <1>2, <2>1, <2>2
<1>4. Increasing(pending)'
  BY <1>1
<1>5. Increasing(delivered)'
  BY <1>1, <1>2, SMTT(30)
<1>6. ASSUME NEW i \in DOMAIN delivered', NEW j \in DOMAIN pending'
      PROVE  delivered'[i] < pending'[j]
  <2>1. j + 1 \in DOMAIN pending /\ pending'[j] = pending[j + 1]
    BY <1>1
  <2>2. CASE i \in DOMAIN delivered
    BY <1>2, <2>1, <2>2
  <2>3. CASE i = Len(delivered) + 1
    <3>1. 1 < j + 1
      BY <1>1
    <3>2. pending[1] < pending[j + 1]
      BY <1>1, <2>1, <3>1
    <3> QED BY <1>2, <2>1, <2>3, <3>2
  <2> QED BY <1>2, <2>2, <2>3, SMTT(30)
<1> QED BY <1>3, <1>4, <1>5, <1>6

\* A frame that is lost leaves the others in their order.
LEMMA LoseInOrder == IInv /\ Lose => IInv'
<1> SUFFICES ASSUME IInv, NEW n \in DOMAIN pending, pending' = Without(pending, n),
                    UNCHANGED <<accepted, delivered>>
             PROVE  IInv'
  BY DEF Lose
<1> USE DEF IInv, Bounded, InOrder, Increasing
<1>1. /\ pending' \in Seq(Nat) /\ DOMAIN pending' = 1..(Len(pending) - 1)
      /\ \A i \in DOMAIN pending' :
           /\ pending'[i] = IF i < n THEN pending[i] ELSE pending[i + 1]
           /\ i \in DOMAIN pending /\ i + 1 \in DOMAIN pending
  <2> DEFINE m == Len(pending) - 1
  <2>1. m \in Nat /\ n \in 1..(m + 1) /\ DOMAIN pending = 1..(m + 1)
    OBVIOUS
  <2>2. \A i \in 1..m : i \in DOMAIN pending /\ i + 1 \in DOMAIN pending
    BY <2>1
  <2>3. pending' = [i \in 1..m |-> IF i < n THEN pending[i] ELSE pending[i + 1]]
    BY DEF Without
  <2>4. \A i \in DOMAIN pending : pending[i] \in Nat
    OBVIOUS
  <2> HIDE DEF m
  <2>5. pending' \in [1..m -> Nat]
    BY <2>2, <2>3, <2>4
  <2>6. pending' \in Seq(Nat)
    BY <2>1, <2>5
  <2> QED BY <2>2, <2>3, <2>6 DEF m
<1>2. Bounded'
  BY <1>1
<1>3. Increasing(pending)'
  <2> SUFFICES ASSUME NEW i \in DOMAIN pending', NEW j \in DOMAIN pending', i < j
               PROVE  pending'[i] < pending'[j]
    OBVIOUS
  <2> DEFINE m == Len(pending) - 1
             at(k) == IF k < n THEN k ELSE k + 1
  <2>1. m \in Nat /\ n \in 1..(m + 1) /\ DOMAIN pending = 1..(m + 1)
    OBVIOUS
  <2>2. i \in 1..m /\ j \in 1..m
    BY <1>1
  <2> HIDE DEF m
  <2>3. at(i) \in DOMAIN pending /\ at(j) \in DOMAIN pending /\ at(i) < at(j)
    <3> HIDE DEF IInv
    <3> QED BY <2>1, <2>2
  <2>4. pending'[i] = pending[at(i)] /\ pending'[j] = pending[at(j)]
    BY <1>1
  <2> HIDE DEF at
  <2> QED BY <2>3, <2>4
<1>4. \A i \in DOMAIN delivered, j \in DOMAIN pending' : delivered[i] < pending'[j]
  BY <1>1
<1> QED BY <1>2, <1>3, <1>4

\* Whatever is lost, frames are delivered in the order they were accepted in
\* and none is delivered twice: what a streaming part of the gateway that
\* implements a LossyChannel inherits.
THEOREM ChannelInOrder == Spec => []InOrder
<1>1. Init => IInv
  BY DEF Init, IInv, Bounded, InOrder, Increasing
<1>2. IInv /\ [Next]_vars => IInv'
  BY AcceptInOrder, DeliverInOrder, LoseInOrder
  DEF Next, vars, IInv, Bounded, InOrder, Increasing
<1> QED BY <1>1, <1>2, PTL DEF Spec, IInv

=============================================================================
