SPECIFICATION FairSpec
CONSTANTS
  Execs = {e1, e2}
  Adapters = {"opensandbox", "agentsandbox", "mock", "e2bcloud"}
  None = None
  MaxOutput = 1
INVARIANTS
  
  Answered
PROPERTY ExecEnds
