------------------------------ MODULE RateLimits ------------------------------
(* The gateway's rate limiters beside each other: the per-key limiter and   *)
(* the middleware's (RateLimiter), the one in Redis (RedisLimiter) and the  *)
(* sliding window (SlidingWindow).  They share the clock and nothing else,  *)
(* so a behaviour exercises one of them and leaves the others alone.        *)
EXTENDS RateLimiter

CONSTANTS
  Gateways, MaxDelay, RedisTime,               \* of RedisLimiter
  Windows, Size, Limit, MaxIdle, WindowTime    \* of SlidingWindow

VARIABLES
  kind,                                        \* the limiter exercised
  tokens, last, expireAt, clock, redisAdmitted, behind,
  counts, timestamps, lastCall, windowAdmitted

redisVars == <<tokens, last, expireAt, clock, redisAdmitted, behind>>
windowVars == <<counts, timestamps, lastCall, windowAdmitted>>
memoryVars == <<limiters, made, bucket, pc, key, held, buckets, admitted, dropped>>

Redis == INSTANCE RedisLimiter
           WITH time <- now, admitted <- redisAdmitted, MaxTime <- RedisTime
Window == INSTANCE SlidingWindow WITH admitted <- windowAdmitted, MaxTime <- WindowTime

LimitsInit ==
  /\ kind \in {"limiter", "middleware", "redis", "window"}
  /\ Init /\ Redis!Init /\ Window!Init

LimitsNext ==
  /\ \/ kind = "limiter" /\ LimiterNext /\ UNCHANGED <<redisVars, windowVars>>
     \/ kind = "middleware" /\ MiddlewareNext /\ UNCHANGED <<redisVars, windowVars>>
     \/ kind = "redis" /\ Redis!Next /\ UNCHANGED <<memoryVars, windowVars>>
     \/ kind = "window" /\ Window!Next /\ UNCHANGED <<memoryVars, redisVars>>
  /\ UNCHANGED kind

LimitsSpec == LimitsInit /\ [][LimitsNext]_<<kind, vars, redisVars, windowVars>>

(* All gateways together stay within the burst and the rate of the bucket   *)
(* in Redis, plus what the delays of the scripts refill again.              *)
DistributedBound == Redis!DistributedBound

(* The sliding window admits at most its limit over its span, less one      *)
(* sub-window, while calls keep rotating it.                                *)
LimitKept == Window!LimitKept
===============================================================================
