----------------------------- MODULE MockAdapter -----------------------------
(***************************************************************************)
(* The in-memory adapter (internal/adapter/mock/adapter.go).  Its methods  *)
(* run under one lock, GetAccessToken under the read lock: two of them may *)
(* overlap.  Sandbox IDs are numbers that are used again; template, build, *)
(* snapshot and pool IDs are random and are numbered here by `fresh`.      *)
(* No method enters a process, so KillProcess and SendStdin always fail.   *)
(***************************************************************************)
EXTENDS Naturals, Sequences, FiniteSets, SequencesExt

CONSTANTS
  Callers,   \* goroutines that ask for access tokens
  Paths,     \* file paths; also names of environment variables
  Labels,    \* aliases and tag names
  None,
  MaxCalls   \* bound: operations in a behaviour

VARIABLES
  sandboxes,  \* id -> [by, status, end]; by is the number of the create call
  mapping,    \* ids registered in SandboxBackend
  files, envStore,   \* id -> paths, id -> names
  snapshots,  \* id -> number of snapshots
  tokenCache, \* id -> token
  reading,    \* caller -> id: in GetAccessToken, after a miss of the cache
  templates,  \* template -> its BuildID
  builds,     \* builds with a status
  aliases, tags,     \* template -> sequence of names
  warmPools,  \* pool -> target size
  fresh,      \* random IDs and tokens drawn so far
  calls,      \* operations so far
  made,       \* history: ids that create calls answered, in order
  killed      \* history: create calls whose sandbox a KillSandbox removed

perSandbox == <<files, envStore, snapshots>>
catalog == <<templates, builds, aliases, tags, warmPools>>
mockVars == <<sandboxes, mapping, perSandbox, tokenCache, reading, catalog, fresh,
              calls, made, killed>>

Put(f, k, v) == [x \in DOMAIN f \cup {k} |-> IF x = k THEN v ELSE f[x]]
Drop(f, k) == [x \in DOMAIN f \ {k} |-> f[x]]
At(f, k, default) == IF k \in DOMAIN f THEN f[k] ELSE default

MockInit ==
  /\ sandboxes = <<>> /\ mapping = {} /\ files = <<>> /\ envStore = <<>>
  /\ snapshots = <<>> /\ tokenCache = <<>> /\ reading = <<>>
  /\ templates = (0 :> None) /\ builds = {} /\ aliases = <<>> /\ tags = <<>>
  /\ warmPools = <<>> /\ fresh = 0 /\ calls = 0 /\ made = <<>> /\ killed = {}

\* A method under the write lock.
Locked == calls < MaxCalls /\ calls' = calls + 1 /\ reading = <<>> /\ UNCHANGED reading

\* What a method that needs sandbox id does, when there is one.
With(id) == Locked /\ id \in DOMAIN sandboxes

-----------------------------------------------------------------------------
(* Sandboxes.                                                              *)

CreateSandboxMut(envs) ==
  LET id == 1 IN
  /\ Locked
  /\ sandboxes' = Put(sandboxes, id,
       [by |-> Len(made) + 1, status |-> "running", end |-> "default"])
  /\ mapping' = mapping \cup {id}
  /\ envStore' = IF envs = {} THEN envStore ELSE Put(envStore, id, envs)
  /\ made' = Append(made, id)
  /\ UNCHANGED <<files, snapshots, tokenCache, catalog, fresh, killed>>

CreateSandbox(envs) ==
  LET id == Cardinality(DOMAIN sandboxes) + 1 IN
  /\ Locked
  /\ sandboxes' = Put(sandboxes, id,
       [by |-> Len(made) + 1, status |-> "running", end |-> "default"])
  /\ mapping' = mapping \cup {id}
  /\ envStore' = IF envs = {} THEN envStore ELSE Put(envStore, id, envs)
  /\ made' = Append(made, id)
  /\ UNCHANGED <<files, snapshots, tokenCache, catalog, fresh, killed>>

\* The sandbox and its mapping go; its files, variables, snapshots and token
\* stay for whoever is given the id next.
KillSandbox(id) ==
  /\ With(id)
  /\ sandboxes' = Drop(sandboxes, id)
  /\ mapping' = mapping \ {id}
  /\ killed' = killed \cup {sandboxes[id].by}
  /\ UNCHANGED <<perSandbox, tokenCache, catalog, fresh, made>>

Update(id, sbx) ==
  /\ With(id) /\ sandboxes' = Put(sandboxes, id, sbx)
  /\ UNCHANGED <<mapping, perSandbox, tokenCache, catalog, fresh, made, killed>>

PauseSandbox(id) == Update(id, [sandboxes[id] EXCEPT !.status = "paused"])
ResumeSandbox(id) == Update(id, [sandboxes[id] EXCEPT !.status = "running"])
SetTimeout(id) == Update(id, [sandboxes[id] EXCEPT !.end = "set"])

\* WriteFile, and UploadFile, whose reader may fail and give nothing.
WriteFile(id, content) ==
  /\ With(id) /\ files' = Put(files, id, At(files, id, {}) \cup content)
  /\ UNCHANGED <<sandboxes, mapping, envStore, snapshots, tokenCache, catalog, fresh, made, killed>>

SetEnvs(id, p) ==
  /\ With(id) /\ envStore' = Put(envStore, id, At(envStore, id, {}) \cup {p})
  /\ UNCHANGED <<sandboxes, mapping, files, snapshots, tokenCache, catalog, fresh, made, killed>>

CreateSnapshot(id) ==
  /\ With(id) /\ snapshots' = Put(snapshots, id, At(snapshots, id, 0) + 1)
  /\ UNCHANGED <<sandboxes, mapping, files, envStore, tokenCache, catalog, fresh, made, killed>>

\* GetAccessToken: the cached token, or a new one that replaces what another
\* reader may have cached since.
TokenLookup(c, id) ==
  /\ calls < MaxCalls /\ calls' = calls + 1
  /\ id \in DOMAIN sandboxes /\ c \notin DOMAIN reading
  /\ reading' = IF id \in DOMAIN tokenCache THEN reading ELSE Put(reading, c, id)
  /\ UNCHANGED <<sandboxes, mapping, perSandbox, tokenCache, catalog, fresh, made, killed>>

TokenSet(c) ==
  /\ c \in DOMAIN reading
  /\ fresh' = fresh + 1
  /\ tokenCache' = Put(tokenCache, reading[c], fresh + 1)
  /\ reading' = Drop(reading, c)
  /\ UNCHANGED <<sandboxes, mapping, perSandbox, catalog, calls, made, killed>>

\* The cache forgets a token after an hour.
TokenExpires(id) ==
  /\ tokenCache' = Drop(tokenCache, id)
  /\ UNCHANGED <<sandboxes, mapping, perSandbox, reading, catalog, fresh, calls, made, killed>>

-----------------------------------------------------------------------------
(* Templates, builds, aliases, tags and warm pools.                        *)

CreateTemplate ==
  /\ Locked /\ fresh' = fresh + 1
  /\ templates' = Put(templates, fresh + 1, fresh + 1)
  /\ builds' = builds \cup {fresh + 1}
  /\ UNCHANGED <<aliases, tags, warmPools>>

\* Builds, aliases and tags of the template stay.
DeleteTemplate(t) ==
  Locked /\ templates' = Drop(templates, t) /\ UNCHANGED <<builds, aliases, tags, warmPools, fresh>>

\* A new build does not become the template's.
TriggerBuild(t) ==
  /\ Locked /\ fresh' = fresh + 1
  /\ builds' = builds \cup {fresh + 1}
  /\ UNCHANGED <<templates, aliases, tags, warmPools>>

\* The first entry with the name goes.
Without(q, l) ==
  IF l \in ToSet(q) THEN RemoveAt(q, CHOOSE i \in DOMAIN q : q[i] = l /\ \A j \in 1..(i - 1) : q[j] # l)
  ELSE q

CreateAlias(t, l) ==
  /\ Locked /\ aliases' = Put(aliases, t, Append(At(aliases, t, <<>>), l))
  /\ UNCHANGED <<templates, builds, tags, warmPools, fresh>>
DeleteAlias(t, l) ==
  /\ Locked /\ t \in DOMAIN aliases /\ aliases' = Put(aliases, t, Without(aliases[t], l))
  /\ UNCHANGED <<templates, builds, tags, warmPools, fresh>>
CreateTag(t, l) ==
  /\ Locked /\ tags' = Put(tags, t, Append(At(tags, t, <<>>), l))
  /\ UNCHANGED <<templates, builds, aliases, warmPools, fresh>>
DeleteTag(t, l) ==
  /\ Locked /\ t \in DOMAIN tags /\ tags' = Put(tags, t, Without(tags[t], l))
  /\ UNCHANGED <<templates, builds, aliases, warmPools, fresh>>

\* The request may name the pool, and one of that name is replaced.
CreateWarmPool(p) ==
  /\ Locked /\ fresh' = fresh + 1 /\ warmPools' = Put(warmPools, p, 1)
  /\ UNCHANGED <<templates, builds, aliases, tags>>
UpdateWarmPoolSize(p) ==
  Locked /\ warmPools' = Put(warmPools, p, 2) /\ UNCHANGED <<templates, builds, aliases, tags, fresh>>
DeleteWarmPool(p) ==
  Locked /\ warmPools' = Drop(warmPools, p) /\ UNCHANGED <<templates, builds, aliases, tags, fresh>>

CatalogNext ==
  /\ \/ CreateTemplate
     \/ \E p \in DOMAIN warmPools \cup {fresh + 1} : CreateWarmPool(p)
     \/ \E t \in DOMAIN templates :
          \/ DeleteTemplate(t) \/ TriggerBuild(t)
          \/ \E l \in Labels : CreateAlias(t, l) \/ CreateTag(t, l) \/ DeleteTag(t, l)
     \/ \E t \in DOMAIN aliases, l \in Labels : DeleteAlias(t, l)
     \/ \E p \in DOMAIN warmPools : UpdateWarmPoolSize(p) \/ DeleteWarmPool(p)
  /\ UNCHANGED <<sandboxes, mapping, perSandbox, tokenCache, made, killed>>

\* No further operation is called.
MockOver == calls = MaxCalls /\ reading = <<>> /\ UNCHANGED mockVars

MockNext ==
  \/ MockOver
  \/ \E envs \in SUBSET Paths : CreateSandbox(envs)
  \/ \E id \in DOMAIN sandboxes :
       \/ KillSandbox(id) \/ PauseSandbox(id) \/ ResumeSandbox(id) \/ SetTimeout(id)
       \/ CreateSnapshot(id)
       \/ \E content \in SUBSET Paths : WriteFile(id, content)
       \/ \E p \in Paths : SetEnvs(id, p)
       \/ \E c \in Callers : TokenLookup(c, id)
  \/ \E c \in Callers : TokenSet(c)
  \/ \E id \in DOMAIN tokenCache : TokenExpires(id)
  \/ CatalogNext

MockSpec == MockInit /\ [][MockNext]_mockVars

-----------------------------------------------------------------------------
(* Properties.                                                             *)

\* A sandbox that a create call answered is the one its id names until it is
\* killed; only a create call after some kill may take the id of a sandbox
\* that still runs.  The mapping holds exactly the ids that are in use, and
\* every template's build has a status.
MockExact ==
  /\ mapping = DOMAIN sandboxes
  /\ \A n \in DOMAIN made \ killed :
       \/ made[n] \in DOMAIN sandboxes /\ sandboxes[made[n]].by = n
       \/ killed # {} /\ \E m \in DOMAIN made : m > n /\ made[m] = made[n]
  /\ \A t \in DOMAIN templates : templates[t] \in builds \cup {None}

=============================================================================
