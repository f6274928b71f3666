----------------------------- MODULE RedisLimiter -----------------------------
(* The distributed token bucket of internal/ratelimit/redis.go: gateways    *)
(* run a Lua script, atomic in Redis, that is given the caller's clock.  A  *)
(* call reads its clock first and the script runs later; the clocks agree.  *)
(* One key, since the script touches no other.                              *)
(* A token is Cost units; Rate units are refilled per tick.                 *)
EXTENDS Integers, Sequences, FiniteSets

CONSTANTS
  Gateways,
  Rate, Burst, Cost,
  MaxDelay,          \* ticks between reading the clock and the script
  MaxTime            \* bound on time

VARIABLES
  time,
  tokens, last,  \* the hash; tokens = -1 when the key does not exist
  expireAt,      \* when Redis deletes the key
  clock,         \* per gateway: the time its call read, or -1 outside a call
  behind,        \* ghost: scripts run so far with a clock behind last_time
  admitted       \* ghost: per call that returned true, its time and behind
vars == <<time, tokens, last, expireAt, clock, admitted, behind>>

Init ==
  /\ time = 0 /\ tokens = -1 /\ last = 0 /\ expireAt = 0 /\ admitted = <<>> /\ behind = 0
  /\ clock = [g \in Gateways |-> -1]

Exists == tokens >= 0 /\ time < expireAt

Tick ==
  /\ time < MaxTime
  /\ \A g \in Gateways : clock[g] >= 0 => time < clock[g] + MaxDelay
  /\ time' = time + 1
  /\ UNCHANGED <<tokens, last, expireAt, clock, admitted, behind>>

\* AllowN reads time.Now() and sends the script.
AllowN(g) ==
  /\ clock[g] = -1
  /\ clock' = [clock EXCEPT ![g] = time]
  /\ UNCHANGED <<time, tokens, last, expireAt, admitted, behind>>

\* Mutant: the key expires before the bucket is full.
TTLMut == 1
\* EXPIRE key ceil(burst / rate) + 1.
TTL == (Burst * Cost + Rate - 1) \div Rate + 1

\* elapsed is zero when the caller's clock is behind last_time.
Elapsed(now) == IF now < last THEN 0 ELSE now - last

\* The script, and whether its result reaches the caller: a call without it is
\* refused, though the tokens are taken.
tokenBucketScript(g, answered) ==
  /\ clock[g] >= 0
  /\ LET now == clock[g]
         t == IF Exists THEN tokens + Elapsed(now) * Rate ELSE Burst * Cost
         refilled == IF t > Burst * Cost THEN Burst * Cost ELSE t
     IN  /\ tokens' = IF refilled >= Cost THEN refilled - Cost ELSE refilled
         /\ last' = now
         /\ behind' = IF Exists /\ now < last THEN behind + 1 ELSE behind
         /\ admitted' = IF refilled >= Cost /\ answered
                        THEN Append(admitted, [at |-> time, behind |-> behind']) ELSE admitted
  /\ expireAt' = time + TTL
  /\ clock' = [clock EXCEPT ![g] = -1]
  /\ UNCHANGED time

\* Eval fails before it reaches Redis: the request is refused.
EvalFails(g) ==
  /\ clock[g] >= 0
  /\ clock' = [clock EXCEPT ![g] = -1]
  /\ UNCHANGED <<time, tokens, last, expireAt, admitted, behind>>

Next == Tick \/ \E g \in Gateways : 
  AllowN(g) \/ EvalFails(g) \/ \E answered \in BOOLEAN : tokenBucketScript(g, answered)
Spec == Init /\ [][Next]_vars

-------------------------------------------------------------------------------
(* Properties.                                                              *)

(* Types; the stored tokens stay between nothing and the burst.             *)
TypeOK ==
  /\ time \in 0..MaxTime /\ tokens \in -1..(Burst * Cost)
  /\ \A g \in Gateways : clock[g] \in -1..time
  /\ expireAt \in 0..(time + TTL) /\ behind \in Nat
  /\ \A i \in DOMAIN admitted : admitted[i].at \in 0..time

(* redis.go:31 "RedisLimiter is a distributed rate limiter backed by Redis. *)
(* It uses a Lua script for atomic token bucket operations": over any       *)
(* stretch of time all gateways together admit at most the burst plus what  *)
(* is refilled, although Redis forgets idle keys.  The delay of a script    *)
(* adds what is refilled in it, once for the stretch and once more for      *)
(* every script that turned last_time back, since the script stores the     *)
(* older clock and the next one refills that time again.                    *)
DistributedBound ==
  \A i, j \in DOMAIN admitted :
    i <= j => Cost * (j - i + 1) <=
      Burst * Cost + (admitted[j].at - admitted[i].at) * Rate
        + MaxDelay * Rate * (1 + admitted[j].behind - admitted[i].behind)
===============================================================================
