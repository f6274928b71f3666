SPECIFICATION PartsSpec
CONSTANTS
  Backends = {b1, b2}
  Owner = b1
  Requests = {r1, r2}
  None = None
  TTL = 2
  MaxTime = 3
  MaxTokens = 4
  Keys = {k1, k2, k3}
  Values = {v1, v2}
  MaxSize = 2
  TTLs = {0, 1}
  CacheTime = 2
  Adapters = {"opensandbox", "e2bcloud"}
  Registered = 2
  Sandboxes = {s1}
  Templates = {t1}
  Pools = {p1}
  Handlers = {h1, h2}
  MaxServed = 2
SYMMETRY HandlerSymmetry
INVARIANTS
  
  CacheFaithful
  
  
  
