--------------------------- MODULE AccessTokens ---------------------------
(***************************************************************************)
(* The envd access token of one sandbox: POST /sandboxes and              *)
(* POST /sandboxes/{id}/access-token hand tokens out, the adapters keep    *)
(* the current one in a cache with a time to live, and the envd proxy asks *)
(* the adapter the mapping names whether a presented token is valid.       *)
(* Sandboxes do not interact here, so one stands for all; its mapping      *)
(* (module SandboxLifecycle) names Owner throughout.                       *)
(***************************************************************************)
EXTENDS Naturals

CONSTANTS Backends,   \* the registered adapters
          Owner,      \* the one that made the sandbox
          Requests,   \* goroutines serving token requests
          None,
          TTL,        \* time to live of a cached token (1h)
          MaxTime, MaxTokens   \* bounds

ASSUME TokenAssumption ==
    /\ Owner \in Backends /\ None \notin Backends
    /\ TTL \in Nat \ {0} /\ MaxTime \in Nat /\ MaxTokens \in Nat

VARIABLES
    signed,   \* adapters with useSignedEndpoint: the backend mints their tokens
    now,
    created,  \* POST /sandboxes has obtained the sandbox from its backend
    cache,    \* adapter.tokenCache: backend -> current token, None if never set
    minted,   \* tokens minted so far; a token is its number
    pc, to, todo,  \* per request: step, adapter in use, adapters not yet tried
    issued    \* every answer: token, adapter, time it was minted, expiresAt reported

vars == <<signed, now, created, cache, minted, pc, to, todo, issued>>

Init ==
    /\ signed \in SUBSET Backends
    /\ now = 0
    /\ created = FALSE
    /\ cache = [b \in Backends |-> None]
    /\ minted = 0
    /\ pc = [r \in Requests |-> "idle"]
    /\ to = [r \in Requests |-> None]
    /\ todo = [r \in Requests |-> {}]
    /\ issued = {}

\* tokenCache.Get finds an entry that has not expired.
Cached(b) == cache[b] # None /\ now <= cache[b].expiresAt

\* An answer reports an hour from now, whenever the token was minted.
Reply(r, b, token, mintedAt) ==
    /\ issued' = issued \cup
        {[token |-> token, by |-> b, mintedAt |-> mintedAt, expiresAt |-> now + TTL]}
    /\ pc' = [pc EXCEPT ![r] = "idle"]
    /\ to' = [to EXCEPT ![r] = None]
    /\ todo' = [todo EXCEPT ![r] = {}]

\* CreateSandboxHandler asks the adapter that made the sandbox.
CreateSandboxHandler(r) ==
    /\ pc[r] = "idle" /\ ~created
    /\ created' = TRUE
    /\ pc' = [pc EXCEPT ![r] = "get"]
    /\ todo' = [todo EXCEPT ![r] = {Owner}]
    /\ UNCHANGED <<signed, now, cache, minted, to, issued>>

\* GetAccessTokenHandler, for a sandbox some client has learned of (a backend
\* lists it as soon as it exists), tries the adapters of
\* registry.List(), in any order.
GetAccessTokenHandler(r) ==
    /\ pc[r] = "idle"
    /\ pc' = [pc EXCEPT ![r] = "get"]
    /\ todo' = [todo EXCEPT ![r] = Backends]
    /\ UNCHANGED <<signed, now, created, cache, minted, to, issued>>

\* GetAccessToken of one more adapter: its cached token, else a new one.
GetAccessToken(r) ==
    /\ pc[r] = "get"
    /\ \E b \in todo[r] :
        IF Cached(b)
        THEN Reply(r, b, cache[b].token, cache[b].mintedAt)
        ELSE /\ to' = [to EXCEPT ![r] = b]
             /\ pc' = [pc EXCEPT ![r] = "mint"]
             /\ UNCHANGED <<todo, issued>>
    /\ UNCHANGED <<signed, now, created, cache, minted>>

MintMut(r, b) ==
    /\ minted < MaxTokens
    /\ minted' = minted + 1
    /\ Reply(r, b, minted', now)
    /\ UNCHANGED cache

\* A new token enters the cache of adapter b and answers the request.
Mint(r, b) ==
    /\ minted < MaxTokens
    /\ minted' = minted + 1
    /\ cache' = [cache EXCEPT ![b] =
            [token |-> minted', mintedAt |-> now, expiresAt |-> now + TTL]]
    /\ Reply(r, b, minted', now)

\* generateRandomToken: any adapter mints for any sandbox ID, also for one it
\* does not have; the owner knows nothing of such a token.
generateRandomToken(r) ==
    /\ pc[r] = "mint" /\ to[r] \notin signed
    /\ Mint(r, to[r])
    /\ UNCHANGED <<signed, now, created>>

\* getSignedAccessToken: GetSignedEndpoint mints the token, and fails when
\* the backend does not have the sandbox or cannot be reached.
getSignedAccessToken(r) ==
    /\ pc[r] = "mint" /\ to[r] \in signed
    /\ \/ to[r] = Owner /\ Mint(r, to[r])
       \/ /\ pc' = [pc EXCEPT ![r] = "get"]
          /\ todo' = [todo EXCEPT ![r] = @ \ {to[r]}]
          /\ to' = [to EXCEPT ![r] = None]
          /\ UNCHANGED <<cache, minted, issued>>
    /\ UNCHANGED <<signed, now, created>>

\* No adapter is left: 503, or for POST /sandboxes a token of the handler's
\* own (generateEnvdToken), which is no adapter's.
NoToken(r) ==
    /\ pc[r] = "get" /\ todo[r] = {}
    /\ pc' = [pc EXCEPT ![r] = "idle"]
    /\ UNCHANGED <<signed, now, created, cache, minted, to, todo, issued>>

Tick == now < MaxTime /\ now' = now + 1
        /\ UNCHANGED <<signed, created, cache, minted, pc, to, todo, issued>>

Serve(r) ==
    \/ CreateSandboxHandler(r) \/ GetAccessTokenHandler(r) \/ GetAccessToken(r)
    \/ generateRandomToken(r) \/ getSignedAccessToken(r) \/ NoToken(r)

\* The bounds are used up.
Exhausted == now = MaxTime /\ minted = MaxTokens /\ UNCHANGED vars

Next == (\E r \in Requests : Serve(r)) \/ Tick \/ Exhausted

Spec == Init /\ [][Next]_vars

-----------------------------------------------------------------------------
(* The envd proxy: ValidateAccessToken of the owner.                       *)

ValidateAccessToken(token) ==
    Cached(Owner) /\ cache[Owner].token = token

-----------------------------------------------------------------------------
(* Properties.                                                             *)

Entry == [token : 1..MaxTokens, mintedAt : 0..MaxTime, expiresAt : 0..(MaxTime + TTL)]
Issue == [token : 1..MaxTokens, by : Backends, mintedAt : 0..MaxTime, expiresAt : 0..(MaxTime + TTL)]

\* Types of the token caches, the requests and the answers.
TypeOK ==
    /\ now \in 0..MaxTime /\ created \in BOOLEAN
    /\ cache \in [Backends -> Entry \cup {None}]
    /\ minted \in 0..MaxTokens
    /\ pc \in [Requests -> {"idle", "get", "mint"}]
    /\ to \in [Requests -> Backends \cup {None}]
    /\ todo \in [Requests -> SUBSET Backends]
    /\ \A r \in Requests : pc[r] = "mint" => to[r] \in Backends
    /\ issued \subseteq Issue /\ signed \subseteq Backends

\* The proxy honours the tokens that were handed out.  It accepts one only in
\* the hour after it was minted, and only if the owner's adapter answered it.
\* Concurrent requests may replace a token but never leave the clients without
\* one: a token of the owner that is refused within its hour has given way to
\* one minted later, which some answer carries and the proxy accepts.
TokensHonored ==
    /\ \A t \in 1..minted : ValidateAccessToken(t) =>
         \E i \in issued : i.token = t /\ i.by = Owner /\ now <= i.mintedAt + TTL
    /\ \A i \in issued : i.by = Owner /\ now <= i.mintedAt + TTL =>
         \E j \in issued : j.token >= i.token /\ ValidateAccessToken(j.token)

=============================================================================
