----------------------------- MODULE RateLimiter -----------------------------
(* Token-bucket limiters: the per-key limiters of internal/ratelimit/       *)
(* limiter.go, whose requests fetch a limiter and use it in two steps while *)
(* Cleanup may drop it, and the limiter of the gateway's middleware         *)
(* (internal/auth/auth.go), which does both under one lock.                 *)
(*                                                                          *)
(* Time is in ticks.  A token is Cost units, and Rate units are refilled    *)
(* per tick, so a token may take several ticks.                             *)
EXTENDS Naturals, Sequences, FiniteSets

CONSTANTS
  Keys, Requests, None,
  Rate, Burst, Cost,   \* Burst in tokens
  MaxAge,              \* argument of Cleanup
  MaxTime, MaxObjects  \* bounds: ticks, limiters created

ASSUME LimiterAssumption ==
  /\ Rate \in Nat \ {0} /\ Burst \in Nat \ {0} /\ Cost \in Nat \ {0}
  /\ MaxAge \in Nat /\ MaxTime \in Nat /\ MaxObjects \in Nat

VARIABLES
  now,
  limiters,  \* RateLimiter.limiters: key -> limiter number or None
  made,      \* limiters created so far; limiter i is bucket[i]
  bucket,    \* number -> [tokens, last]
  pc, key,   \* per request: "idle", "insert" or "allow", and its key
  held,      \* per request: the limiter getLimiter returned
  buckets,   \* the middleware's map: key -> [tokens, last] or None
  admitted,  \* ghost: who admitted what and when, [by, key, at]
  dropped    \* ghost: limiters deleted by Cleanup
vars == <<now, limiters, made, bucket, pc, key, held, buckets, admitted, dropped>>

Full == [tokens |-> Burst * Cost, last |-> now]

Init ==
  /\ now = 0 /\ made = 0 /\ bucket = <<>> /\ admitted = <<>> /\ dropped = {}
  /\ limiters = [k \in Keys |-> None] /\ buckets = [k \in Keys |-> None]
  /\ pc = [r \in Requests |-> "idle"]
  /\ key \in [Requests -> Keys] /\ held = [r \in Requests |-> 0]

Tick ==
  /\ now < MaxTime
  /\ now' = now + 1
  /\ UNCHANGED <<limiters, made, bucket, pc, key, held, buckets, admitted, dropped>>

-------------------------------------------------------------------------------

refill(b) ==
  LET t == b.tokens + (now - b.last) * Rate
  IN  [tokens |-> IF t > Burst * Cost THEN Burst * Cost ELSE t, last |-> now]

\* The bucket after one Allow, and whether it allows.
Allows(b) == refill(b).tokens >= Cost
Taken(b) == IF Allows(b) THEN [refill(b) EXCEPT !.tokens = @ - Cost] ELSE refill(b)
Admit(by, k) == admitted' = Append(admitted, [by |-> by, key |-> k, at |-> now])

\* getLimiter's fast path, under the read lock.
Lookup(r) ==
  /\ pc[r] = "idle"
  /\ \E k \in Keys :
       /\ key' = [key EXCEPT ![r] = k]
       /\ IF limiters[k] = None
          THEN /\ made < MaxObjects
               /\ pc' = [pc EXCEPT ![r] = "insert"] /\ UNCHANGED held
          ELSE /\ pc' = [pc EXCEPT ![r] = "allow"]
               /\ held' = [held EXCEPT ![r] = limiters[k]]
  /\ UNCHANGED <<now, limiters, made, bucket, buckets, admitted, dropped>>

New(r) ==
  /\ made < MaxObjects
  /\ made' = made + 1
  /\ bucket' = Append(bucket, Full)
  /\ limiters' = [limiters EXCEPT ![key[r]] = made + 1]
  /\ held' = [held EXCEPT ![r] = made + 1]

\* Mutant: the second lookup, under the write lock, is missing.
InsertMut(r) ==
  /\ pc[r] = "insert"
  /\ New(r)
  /\ pc' = [pc EXCEPT ![r] = "allow"]
  /\ UNCHANGED <<now, key, buckets, admitted, dropped>>

\* The slow path looks again under the write lock.
Insert(r) ==
  /\ pc[r] = "insert"
  /\ IF limiters[key[r]] = None
     THEN New(r)
     ELSE held' = [held EXCEPT ![r] = limiters[key[r]]] /\ UNCHANGED <<made, bucket, limiters>>
  /\ pc' = [pc EXCEPT ![r] = "allow"]
  /\ UNCHANGED <<now, key, buckets, admitted, dropped>>

AllowN(r) ==
  /\ pc[r] = "allow"
  /\ bucket' = [bucket EXCEPT ![held[r]] = Taken(@)]
  /\ IF Allows(bucket[held[r]]) THEN Admit(held[r], key[r]) ELSE UNCHANGED admitted
  /\ pc' = [pc EXCEPT ![r] = "idle"]
  /\ UNCHANGED <<now, limiters, made, key, held, buckets, dropped>>

\* Drop the limiters that were not refilled for more than MaxAge.
Stale(k) == limiters[k] # None /\ bucket[limiters[k]].last + MaxAge < now
Cleanup ==
  /\ \E k \in Keys : Stale(k)
  /\ limiters' = [k \in Keys |-> IF Stale(k) THEN None ELSE limiters[k]]
  /\ dropped' = dropped \cup {limiters[k] : k \in {l \in Keys : Stale(l)}}
  /\ UNCHANGED <<now, made, bucket, pc, key, held, buckets, admitted>>

\* The middleware: create the bucket if need be, refill, take, in one step.
Allow(k) ==
  /\ LET b == IF buckets[k] = None THEN Full ELSE buckets[k]
     IN  /\ buckets' = [buckets EXCEPT ![k] = Taken(b)]
         /\ IF Allows(b) THEN Admit(0, k) ELSE UNCHANGED admitted
  /\ UNCHANGED <<now, limiters, made, bucket, pc, key, held, dropped>>

LimiterNext ==
  Tick \/ Cleanup \/ \E r \in Requests : Lookup(r) \/ Insert(r) \/ AllowN(r)
MiddlewareNext == Tick \/ \E k \in Keys : Allow(k)

-------------------------------------------------------------------------------
(* Properties.                                                              *)

BucketOK(b) == b.tokens \in 0..(Burst * Cost) /\ b.last \in 0..now

(* Types; a bucket never holds more than its burst nor less than nothing,   *)
(* and is never refilled from the future.                                   *)
TypeOK ==
  /\ now \in 0..MaxTime /\ made \in 0..MaxObjects /\ Len(bucket) = made
  /\ \A i \in 1..made : BucketOK(bucket[i])
  /\ \A k \in Keys : buckets[k] # None => BucketOK(buckets[k])
  /\ \A k \in Keys : limiters[k] # None => limiters[k] \in 1..made
  /\ \A r \in Requests :
       /\ pc[r] \in {"idle", "insert", "allow"} /\ key[r] \in Keys
       /\ pc[r] = "allow" => held[r] \in 1..made
  /\ \A i \in DOMAIN admitted : admitted[i].by \in 0..made /\ admitted[i].key \in Keys

\* What a limiter may admit between two admissions, and the admissions among
\* them that count: those of the same limiter and of limiters of the same key,
\* unless Cleanup dropped one of the two.
Within(i, j) == Burst * Cost + (admitted[j].at - admitted[i].at) * Rate
Counted(i, j) ==
  {m \in i..j :
     /\ admitted[m].key = admitted[i].key
     /\ admitted[m].by = admitted[i].by \/ {admitted[m].by, admitted[i].by} \intersect dropped = {}}

(* Over any stretch of time a key is admitted at most the burst plus what   *)
(* was refilled, however requests interleave and also when several miss the *)
(* key together, as long as Cleanup drops no limiter of the key; each       *)
(* limiter keeps to that in any case, and so does the middleware.           *)
RateBound ==
  \A i, j \in DOMAIN admitted : i <= j => Cost * Cardinality(Counted(i, j)) <= Within(i, j)
===============================================================================
