SPECIFICATION GatewaySpec
CONSTANTS
  Registered = {"a", "b"}
  NoBackend = ""
  Configs <- RoutingConfigs
  Requests <- AnyRequest
  Clients = {c1, c2}
  Callers = {r1, r2}
  Inputs <- Calls
  ProviderConfigs <- Providers
  Burst = 1 Rate = 1
  MaxNow = 1
  None = None
  BackendConfigs <- Setups
  Conns = {n1, n2}
INVARIANTS
  FailoverFindsHealthy
  RoundRobinEven
  
  
  GracefulStop
PROPERTIES
  
  ServeReturns
CHECK_DEADLOCK FALSE
