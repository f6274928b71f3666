----------------------------- MODULE SlidingWindow -----------------------------
(* SlidingWindowLimiter of internal/ratelimit/sliding_window.go: a ring of  *)
(* sub-windows with request counts, rotated to the current time by every    *)
(* call.  The code has 10 sub-windows; here their number is a constant.     *)
(* The mutex makes each method one step.                                    *)
EXTENDS Naturals, Sequences, FiniteSets, FiniteSetsExt

CONSTANTS
  Windows,    \* sub-windows
  Size,       \* ticks in a sub-window
  Limit,
  MaxIdle,    \* longest time between two calls
  MaxTime     \* bound on time

VARIABLES now, counts, timestamps,
  lastCall,   \* ghost: when AllowN or Count ran last
  admitted    \* ghost: times of the admitted requests
vars == <<now, counts, timestamps, lastCall, admitted>>

Ring == 0..(Windows - 1)

\* NewSlidingWindow: every sub-window starts now.
Init ==
  /\ now = 0 /\ lastCall = 0 /\ admitted = <<>>
  /\ counts = [i \in Ring |-> 0] /\ timestamps = [i \in Ring |-> 0]

Tick ==
  /\ now < MaxTime /\ now - lastCall < MaxIdle
  /\ now' = now + 1
  /\ UNCHANGED <<counts, timestamps, lastCall, admitted>>

\* The first index with the latest timestamp.
currentWindow(ts) ==
  Min({i \in Ring : \A j \in Ring : ts[j] <= ts[i]})

steps ==
  LET elapsed == now - timestamps[currentWindow(timestamps)]
  IN  IF elapsed \div Size < Windows THEN elapsed \div Size ELSE Windows

\* How many steps of the rotation it takes to come to sub-window i: 1..Windows.
Ahead(i) == ((i + Windows - currentWindow(timestamps) - 1) % Windows) + 1

\* advance: the sub-windows stepped over are emptied and dated one by one.
advancedCounts == [i \in Ring |-> IF Ahead(i) <= steps THEN 0 ELSE counts[i]]

advancedTimestamps ==
  [i \in Ring |->
     IF Ahead(i) <= steps THEN timestamps[currentWindow(timestamps)] + Ahead(i) * Size
     ELSE timestamps[i]]

\* Mutant: only the current sub-window is counted.
totalCountMut(cs, ts) == cs[currentWindow(ts)]

\* The counts of the sub-windows that started within the span.
totalCount(cs, ts) ==
  LET count(i) == cs[i]
  IN  MapThenSumSet(count, {j \in Ring : ts[j] + Windows * Size > now})

AllowN(n) ==
  /\ timestamps' = advancedTimestamps
  /\ LET allowed == totalCount(advancedCounts, timestamps') + n <= Limit
     IN  /\ counts' = IF allowed
                      THEN [advancedCounts EXCEPT ![currentWindow(timestamps')] = @ + n]
                      ELSE advancedCounts
         /\ admitted' = IF allowed THEN admitted \o [i \in 1..n |-> now] ELSE admitted
  /\ lastCall' = now
  /\ UNCHANGED now

\* Count only rotates.
Count ==
  /\ counts' = advancedCounts /\ timestamps' = advancedTimestamps
  /\ lastCall' = now
  /\ UNCHANGED <<now, admitted>>

Next == Tick \/ Count \/ \E n \in 1..2 : AllowN(n)
Spec == Init /\ [][Next]_vars

-------------------------------------------------------------------------------
(* Properties.                                                              *)

(* Types; no sub-window starts in the future, and the sub-windows behind    *)
(* the current one are one Size apart or still at their first date.         *)
TypeOK ==
  /\ now \in 0..MaxTime /\ lastCall \in 0..now
  /\ \A i \in Ring : counts[i] \in 0..Limit /\ timestamps[i] \in 0..now
  /\ \A i, j \in Ring : timestamps[i] = timestamps[j] /\ i # j => timestamps[i] = 0

AdmittedIn(i, span) == {j \in DOMAIN admitted : j >= i /\ admitted[j] - admitted[i] <= span}

(* While calls come at least once per span, no Windows - 1 sub-windows ever *)
(* admit more than Limit: a request is forgotten at most one sub-window     *)
(* early, whatever the phase of the rotation.                               *)
LimitKept ==
  \A i \in DOMAIN admitted : Cardinality(AdmittedIn(i, (Windows - 1) * Size)) <= Limit
===============================================================================
