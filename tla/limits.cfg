SPECIFICATION LimitsSpec
CONSTANTS
  Keys = {k1}
  Requests = {r1, r2}
  None = None
  Rate = 1 Burst = 2 Cost = 2
  MaxAge = 1 MaxTime = 5 MaxObjects = 2
  Gateways = {g1, g2}
  MaxDelay = 1 RedisTime = 6
  Windows = 3 Size = 2 Limit = 2 MaxIdle = 6 WindowTime = 14
INVARIANTS
  RateBound
  DistributedBound
  
CHECK_DEADLOCK FALSE
