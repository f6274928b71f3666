SPECIFICATION StoresSpec
CONSTANTS
  Templates = {t1, t2}
  Builds = {b1, b2, b3}
  Aliases = {a1}
  Tags = {g1}
  Clients = {c1, c2}
  NoTemplate = NoTemplate
  NoBuild = NoBuild
  NoArg = NoArg
  RedisBuilds = {d1, d2}
  MaxFailures = 1
SYMMETRY IdSymmetry
INVARIANTS
  IndexesAgree
  CleanDelete
  CurrentBuildStored
  RedisBuildsStored
  RedisCleanDelete
