------------------------- MODULE HandlersAndTokens -------------------------
(***************************************************************************)
(* The handlers that try the adapters in turn (Dispatch), the one of them  *)
(* that hands out access tokens (AccessTokens), and the cache that holds   *)
(* the tokens (Cache), beside each other.  AccessTokens follows one        *)
(* sandbox, whose cache entry it reads and replaces; Cache follows several *)
(* keys and the eviction between them.  A behaviour exercises one of the   *)
(* three.                                                                  *)
(***************************************************************************)
EXTENDS AccessTokens, TLC

CONSTANTS
    Keys, Values, MaxSize, TTLs, CacheTime,             \* of Cache
    Adapters, Registered, Sandboxes, Templates, Pools,  \* of Dispatch
    Handlers, MaxServed

VARIABLES
    part,                                      \* the part exercised
    order, items, entry, reply, latest, since, \* of Cache
    registry, has, used, req, served           \* of Dispatch

tokenVars == <<signed, created, cache, minted, pc, to, todo, issued>>
cacheVars == <<order, items, entry, reply, latest, since>>
dispatchVars == <<registry, has, used, req, served>>

C == INSTANCE Cache WITH MaxTime <- CacheTime
D == INSTANCE Dispatch WITH Backends <- Adapters, Nobody <- None

Quiet == registry = {} /\ has = <<>> /\ used = {} /\ req = <<>> /\ served = 0

PartsInit ==
    /\ Init
    /\ C!Init
    /\ \/ part \in {"tokens", "cache"} /\ Quiet
       \/ part = "dispatch" /\ D!Init
    /\ part # "tokens" => signed = {}

PartsNext ==
    /\ \/ part = "tokens" /\ Next /\ UNCHANGED <<cacheVars, dispatchVars>>
       \/ part = "cache" /\ C!Next /\ UNCHANGED <<tokenVars, dispatchVars>>
       \/ part = "dispatch" /\ D!Next /\ UNCHANGED <<tokenVars, cacheVars, now>>
    /\ UNCHANGED part

PartsSpec == PartsInit /\ [][PartsNext]_<<part, vars, cacheVars, dispatchVars>>

HandlerSymmetry == Permutations(Handlers)

----------------------------------------------------------------------------
\* The cache returns what was stored last, before it expires, and evicts only
\* its least recently used entries.
CacheFaithful == C!CacheFaithful

\* A handler's success comes from a backend that held the id.
AnsweredByHolder == part = "dispatch" => D!AnsweredByHolder

\* A request took effect where its answer came from, and nowhere else.
EffectMatchesAnswer == part = "dispatch" => D!EffectMatchesAnswer

\* A merged list has what was held throughout, and nothing never held.
ListFaithful == part = "dispatch" => D!ListFaithful

\* "UploadFile uploads a file to the sandbox": whole, when it is answered with
\* success.
UploadWhole == part = "dispatch" => D!UploadWhole

=============================================================================
