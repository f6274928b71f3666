SPECIFICATION AdaptersSpec
CONSTANTS
  Backends = {b1, b2}
  Sandboxes = {s1}
  Requests = {r1, r2, r3}
  NoBackend = NoBackend
  NoClient = NoClient
  NoSandbox = NoSandbox
  MaxRequests = 3
  None = None
  CloudCalls = {c1, c2, c3}
  MaxRetries = 1
  AgentRequests = {r1, r2}
  TTL = 1
  MaxLag = 1
  MaxMoves = 2
  MaxAgentCalls = 3
  MaxRestarts = 1
  Templates = {t1}
  Aliases = {a1, a2}
  Editors = {e1, e2}
  Builds = {u1, u2, u3}
  NoResource = NoResource
  MaxVersion = 4
  Codes = {0, 1}
  MaxOutput = 2
  Callers = {m1, m2}
  Paths = {p1}
  Labels = {l1}
  MaxMockCalls = 4
INVARIANTS
  RoutedToOwner
  
  AnsweredMapped
  NoLostUpdate
  
  MockExact
PROPERTY FreshAddress
