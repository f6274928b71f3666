SPECIFICATION Spec
CONSTANTS
  Execs = {e1}
  Adapters = {"e2bcloud"}
  None = None
  MaxOutput = 1
INVARIANT FallbackDelivers
