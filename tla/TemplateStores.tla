--------------------------- MODULE TemplateStores ---------------------------
(***************************************************************************)
(* The adapter's template operations over its two stores: in memory, for   *)
(* one gateway (TemplateCatalog), and in Redis, shared by several          *)
(* (RedisCatalog).  The configuration picks the store, so a behaviour uses *)
(* one of them and the other stays empty.                                  *)
(***************************************************************************)
EXTENDS TemplateCatalog, TLC

CONSTANTS RedisBuilds, MaxFailures   \* of RedisCatalog

VARIABLES
  store,                              \* the store that is configured
  rTemplates, rBuilds, rTemplateBuilds, rAliases, rTemplateAliases, rTags,
  rPc, rOn, rArg, rUsed, rRaced,      \* RedisCatalog's variables
  failures, faulty, cleared

redisVars ==
  <<rTemplates, rBuilds, rTemplateBuilds, rAliases, rTemplateAliases, rTags,
    rPc, rOn, rArg, rUsed, rRaced, failures, faulty, cleared>>

R == INSTANCE RedisCatalog WITH
       Builds <- RedisBuilds,
       templates <- rTemplates, builds <- rBuilds,
       templateBuilds <- rTemplateBuilds, aliases <- rAliases,
       templateAliases <- rTemplateAliases, tags <- rTags, pc <- rPc, on <- rOn,
       arg <- rArg, used <- rUsed, raced <- rRaced

StoresInit == store \in {"memory", "redis"} /\ Init /\ R!Init

StoresNext ==
  /\ \/ store = "memory" /\ Next /\ UNCHANGED redisVars
     \/ store = "redis" /\ R!Next /\ UNCHANGED vars
  /\ UNCHANGED store

StoresSpec == StoresInit /\ [][StoresNext]_<<store, vars, redisVars>>

\* The IDs and the clients are interchangeable.
IdSymmetry ==
  Permutations(Templates) \union Permutations(Builds) \union Permutations(RedisBuilds)
    \union Permutations(Aliases) \union Permutations(Clients)

-----------------------------------------------------------------------------
\* In Redis too the builds a template names are stored.
RedisBuildsStored == R!NamedBuildsStored

\* In Redis an undisturbed DeleteTemplate leaves nothing of the template.
RedisCleanDelete == R!CleanDelete

=============================================================================
