------------------------------ MODULE Admission ------------------------------
(***************************************************************************)
(* The way of a request through the gateway: the middleware chain          *)
(* (internal/server/middleware/middleware.go), the API-key provider and    *)
(* the token buckets (internal/auth/auth.go), the JWT provider             *)
(* (internal/auth/jwt.go), the scope a route asks for (authorized,         *)
(* buildRouter) and, behind the catch-all route, the envd proxy            *)
(* (internal/server/envd_proxy.go).  The keys, the buckets, the clock and  *)
(* the sandbox-to-backend mapping change while a request is under way.     *)
(* The data plane is that of one sandbox.                                  *)
(***************************************************************************)
EXTENDS Naturals, FiniteSets, SequencesExt

CONSTANTS
  Callers,      \* requests, one goroutine each
  Inputs,       \* what they may carry
  ProviderConfigs, \* lists of providers a configuration may name: with static
                \* API keys, or for JWTs with the clock skew to tolerate
  Burst, Rate,  \* DefaultLimit: BurstSize, and tokens per tick of the clock
  MaxNow,       \* bound: ticks of the clock
  None

Scopes == {"sandbox:read", "sandbox:write", "template:read", "template:write",
           "warm-pool:read", "warm-pool:write"}

\* What a path leads to: a health endpoint, an API route with the scope
\* buildRouter wraps it in, or the catch-all; /metrics, which has no route,
\* ends there too.
Routes == {"health", "metrics", "envd"} \cup Scopes

VARIABLES
  providers,  \* m.providers: a sequence of [type, keys, skew]
  added,      \* keys of the first provider that AddKey registered: key -> scopes
  removed,    \* keys RemoveKey deleted from the first provider
  buckets,    \* limiter.buckets: rate key -> [tokens, last]
  now,        \* the clock
  live,       \* the owner still runs the sandbox
  mapped,     \* registry.SandboxBackend() has the sandbox
  pc, in,     \* per request: the step it is at, and what it carries
  tenant,     \* per request: the tenant of its context
  via,        \* per request: the adapter the proxy uses
  status,     \* per request: its answer
  known,      \* history: a provider took the request's key or token
  allowed     \* history: per rate key, the requests Allow let pass

auth == <<providers, added, removed>>
sandbox == <<live, mapped>>
request == <<pc, in, tenant, via, status>>
admissionVars == <<auth, buckets, now, sandbox, request, known, allowed>>

AdmissionInit ==
  /\ providers \in ProviderConfigs /\ added = <<>> /\ removed = {}
  /\ buckets = <<>> /\ now = 0
  /\ live = TRUE /\ mapped \in BOOLEAN
  /\ pc = [c \in Callers |-> "idle"] /\ in = [c \in Callers |-> None]
  /\ tenant = [c \in Callers |-> None] /\ via = [c \in Callers |-> None]
  /\ status = [c \in Callers |-> 0] /\ known = {} /\ allowed = <<>>

Goto(c, p) == pc' = [pc EXCEPT ![c] = p]
Reply(c, code) == Goto(c, "done") /\ status' = [status EXCEPT ![c] = code]

-----------------------------------------------------------------------------
(* The keys.                                                               *)

\* Static keys stand for tenants numbered by their place in the provider's
\* list, and have every scope; a later entry for the same key replaces an
\* earlier one.
StaticTenant(keys, k) ==
  LET places == {i \in DOMAIN keys : keys[i] = k} IN
  [id |-> <<"tenant", CHOOSE i \in places : \A j \in places : j <= i>>, scopes |-> {"*"}]

\* p.keys[k] of provider i.
Lookup(i, k) ==
  IF i = 1 /\ k \in DOMAIN added THEN [id |-> <<"added", k>>, scopes |-> added[k]]
  ELSE IF (i = 1 /\ k \in removed) \/ k \notin ToSet(providers[i].keys) THEN None
  ELSE StaticTenant(providers[i].keys, k)

\* A token is genuine when a configured key signed it for this issuer and
\* audience; the provider also asks for a subject, and that it has not expired.
VerifyJWT(i, token) ==
  IF token.genuine /\ token.sub # <<>> /\ now < token.exp + providers[i].skew
  THEN [id |-> token.sub, scopes |-> token.scopes] ELSE None

\* Manager.Authenticate: the first provider that knows the caller, a tenant
\* without scopes where there is no provider, or nobody.
Authenticate(q) ==
  LET tc(i) == IF providers[i].type = "jwt" THEN VerifyJWT(i, q.bearer)
               ELSE IF q.key = "" THEN None ELSE Lookup(i, q.key)
      hits == {i \in DOMAIN providers : tc(i) # None} IN
  IF providers = <<>> THEN [id |-> <<"anonymous">>, scopes |-> {}]
  ELSE IF hits = {} THEN None
  ELSE tc(CHOOSE i \in hits : \A j \in hits : i <= j)

\* The first provider of the list, where it has keys to change.
HasKeys == providers # <<>> /\ providers[1].type = "apikey"

AddKey(k, scopes) ==
  /\ HasKeys /\ Lookup(1, k) = None
  /\ added' = [x \in DOMAIN added \cup {k} |-> IF x = k THEN scopes ELSE added[x]]
  /\ UNCHANGED <<providers, removed, buckets, now, sandbox, request, known, allowed>>

RemoveKey(k) ==
  /\ HasKeys /\ Lookup(1, k) # None
  /\ added' = [x \in DOMAIN added \ {k} |-> added[x]]
  /\ removed' = removed \cup {k}
  /\ UNCHANGED <<providers, buckets, now, sandbox, request, known, allowed>>

-----------------------------------------------------------------------------
(* The middleware chain.                                                   *)

Unlimited == {"health", "metrics"}

\* A request arrives; CORS answers a preflight request itself.
Receive(c) ==
  /\ pc[c] = "idle"
  /\ \E q \in Inputs :
       /\ in' = [in EXCEPT ![c] = q]
       /\ IF q.method = "OPTIONS" THEN Reply(c, 204) ELSE Goto(c, "auth") /\ UNCHANGED status
  /\ UNCHANGED <<auth, buckets, now, sandbox, tenant, via, known, allowed>>

\* Auth: health endpoints and requests that name a sandbox in their header
\* pass without a tenant.
Auth(c) ==
  /\ pc[c] = "auth"
  /\ IF in[c].route \in Unlimited \/ in[c].header
     THEN Goto(c, "limit") /\ UNCHANGED <<tenant, known, status>>
     ELSE LET tc == Authenticate(in[c]) IN
          IF tc = None THEN Reply(c, 401) /\ UNCHANGED <<tenant, known>>
          ELSE /\ tenant' = [tenant EXCEPT ![c] = tc] /\ known' = known \cup {c}
               /\ Goto(c, "limit") /\ UNCHANGED status
  /\ UNCHANGED <<auth, buckets, now, sandbox, in, via, allowed>>

\* RealIP leaves "address:port" in RemoteAddr; the first X-Forwarded-For entry
\* counts before X-Real-Ip, also when it is blank.
RealIP(q) ==
  LET forwarded(ip) == [ip |-> ip, bracketed |-> FALSE]
      remote == [ip |-> q.remote, bracketed |-> TRUE] IN
  IF q.xff = "blank" THEN remote
  ELSE IF q.xff # "" THEN forwarded(q.xff)
  ELSE IF q.xri # "" THEN forwarded(q.xri)
  ELSE remote

\* net.SplitHostPort finds no host in an IPv6 address without brackets.
SplitHost(addr) == <<"ip", IF addr.ip = "v6" /\ ~addr.bracketed THEN "" ELSE addr.ip>>

RateKey(c) == IF tenant[c] # None THEN tenant[c].id ELSE SplitHost(RealIP(in[c]))

Smaller(a, b) == IF a < b THEN a ELSE b

\* The bucket of a key as Allow finds it, refilled; a new one is full.
Refilled(k) ==
  IF k \notin DOMAIN buckets THEN Burst
  ELSE Smaller(Burst, buckets[k].tokens + Rate * (now - buckets[k].last))

Spend(k, n) ==
  buckets' = [x \in DOMAIN buckets \cup {k} |->
                IF x = k THEN [tokens |-> n, last |-> now] ELSE buckets[x]]

Count(k) ==
  allowed' = [x \in DOMAIN allowed \cup {k} |->
                IF x # k THEN allowed[x] ELSE IF k \in DOMAIN allowed THEN allowed[k] + 1 ELSE 1]

RateLimitMut(c) ==
  /\ pc[c] = "limit"
  /\ LET all == <<"all">> IN
     IF Refilled(all) >= 1
     THEN /\ Spend(all, Refilled(all) - 1) /\ Count(RateKey(c))
          /\ Goto(c, "route") /\ UNCHANGED status
     ELSE Spend(all, Refilled(all)) /\ UNCHANGED allowed /\ Reply(c, 429)
  /\ UNCHANGED <<auth, now, sandbox, in, tenant, via, known>>

\* RateLimit: Allow refills the caller's bucket and takes a token from it.
RateLimit(c) ==
  /\ pc[c] = "limit"
  /\ LET k == RateKey(c) IN
     IF in[c].route \in Unlimited
     THEN Goto(c, "route") /\ UNCHANGED <<buckets, allowed, status>>
     ELSE IF Refilled(k) >= 1
     THEN /\ Spend(k, Refilled(k) - 1) /\ Count(k)
          /\ Goto(c, "route") /\ UNCHANGED status
     ELSE Spend(k, Refilled(k)) /\ UNCHANGED allowed /\ Reply(c, 429)
  /\ UNCHANGED <<auth, now, sandbox, in, tenant, via, known>>

HasScope(tc, scope) == scope \in tc.scopes \/ "*" \in tc.scopes

\* The route's handler, behind authorized; what the API handlers do is the
\* subject of other modules.
Route(c) ==
  LET scope == in[c].route IN
  /\ pc[c] = "route"
  /\ CASE scope = "health" -> Reply(c, 200)
       [] scope \in {"metrics", "envd"} -> Goto(c, "proxy") /\ UNCHANGED status
       [] OTHER ->
            IF providers = <<>> THEN Reply(c, 200)
            ELSE IF tenant[c] = None THEN Reply(c, 401)
            ELSE IF HasScope(tenant[c], scope) THEN Reply(c, 200) ELSE Reply(c, 403)
  /\ UNCHANGED <<auth, buckets, now, sandbox, in, tenant, via, known, allowed>>

-----------------------------------------------------------------------------
(* The envd proxy.                                                         *)

\* The sandbox's id comes from the header or from the Host; its backend from
\* the mapping or, failing that, from the router.
Resolve(c) ==
  /\ pc[c] = "proxy"
  /\ IF ~in[c].header /\ ~in[c].host THEN Reply(c, 400) /\ UNCHANGED via
     ELSE IF mapped
     THEN via' = [via EXCEPT ![c] = "owner"] /\ Goto(c, "validate") /\ UNCHANGED status
     ELSE \/ \E b \in {"owner", "other"} :
               via' = [via EXCEPT ![c] = b] /\ Goto(c, "validate") /\ UNCHANGED status
          \/ Reply(c, 503) /\ UNCHANGED via
  /\ UNCHANGED <<auth, buckets, now, sandbox, in, tenant, known, allowed>>

ValidateMut(c) ==
  /\ pc[c] = "validate"
  /\ IF in[c].token # "" THEN Goto(c, "endpoint") /\ UNCHANGED status ELSE Reply(c, 401)
  /\ UNCHANGED <<auth, buckets, now, sandbox, in, tenant, via, known, allowed>>

\* ValidateAccessToken: only the adapter that issued the sandbox's token
\* accepts it, and it may have expired; AccessTokens has the detail.
Validate(c) ==
  /\ pc[c] = "validate"
  /\ \/ in[c].token = "issued" /\ via[c] = "owner" /\ Goto(c, "endpoint") /\ UNCHANGED status
     \/ Reply(c, 401)
  /\ UNCHANGED <<auth, buckets, now, sandbox, in, tenant, via, known, allowed>>

\* GetEnvdEndpoint knows only a sandbox that runs, and may fail then too.
Endpoint(c) ==
  /\ pc[c] = "endpoint"
  /\ \/ live /\ Goto(c, "forward") /\ UNCHANGED status
     \/ Reply(c, 502)
  /\ UNCHANGED <<auth, buckets, now, sandbox, in, tenant, via, known, allowed>>

\* What NewSingleHostReverseProxy and the assignment of Rewrite leave set.
Proxy == [Director |-> TRUE, Rewrite |-> TRUE]

\* httputil's ReverseProxy takes one of the two; with both or neither it
\* calls its ErrorHandler and forwards nothing.
ServeHTTP(p, answer) == IF p.Director = p.Rewrite THEN 502 ELSE answer

\* envd's answer is the client's, or there is none to be had.
Forward(c) ==
  /\ pc[c] = "forward"
  /\ Goto(c, "forwarded")
  /\ status' = [status EXCEPT ![c] = ServeHTTP(Proxy, IF live THEN 200 ELSE 502)]
  /\ UNCHANGED <<auth, buckets, now, sandbox, in, tenant, via, known, allowed>>

-----------------------------------------------------------------------------
\* The sandbox is killed, and unmapped.
Killed ==
  /\ live /\ live' = FALSE /\ mapped' = FALSE
  /\ UNCHANGED <<auth, buckets, now, request, known, allowed>>

Tick ==
  /\ now < MaxNow /\ now' = now + 1
  /\ UNCHANGED <<auth, buckets, sandbox, request, known, allowed>>

\* Bound: AddKey registers a key again, with one scope, after it was removed.
AdmissionNext ==
  \/ \E c \in Callers :
       \/ Receive(c) \/ Auth(c) \/ RateLimit(c) \/ Route(c)
       \/ Resolve(c) \/ Validate(c) \/ Endpoint(c) \/ Forward(c)
  \/ \E k \in {q.key : q \in Inputs} \ {""} : 
       RemoveKey(k) \/ (k \in removed /\ AddKey(k, {"sandbox:read"}))
  \/ Killed \/ Tick

AdmissionSpec == AdmissionInit /\ [][AdmissionNext]_admissionVars

-----------------------------------------------------------------------------
(* Properties.                                                             *)

\* An API handler runs only for a caller whose key or token a provider took
\* when Auth ran and whose tenant has the route's scope, unless no provider is
\* configured: that Auth lets requests with a sandbox header pass opens no API
\* route.  And the proxy gets as far as the sandbox's endpoint only with the
\* token that the sandbox's own adapter issued.
Entitled ==
  \A c \in Callers :
    /\ status[c] = 200 /\ in[c].route \in Scopes =>
         providers = <<>> \/ (c \in known /\ HasScope(tenant[c], in[c].route))
    /\ pc[c] \in {"endpoint", "forward"} => in[c].token = "issued" /\ via[c] = "owner"

\* Callers are limited apart: Allow lets no key have more than its burst and
\* what time refills, and a request is refused only when its own key has spent
\* its burst, whatever the others do.
LimitedApart ==
  /\ \A k \in DOMAIN allowed : allowed[k] <= Burst + Rate * now
  /\ \A c \in Callers : status[c] = 429 =>
       RateKey(c) \in DOMAIN allowed /\ allowed[RateKey(c)] >= Burst

\* "envdProxyHandler returns an http.Handler that reverse-proxies ConnectRPC
\* requests to the envd daemon inside the target sandbox container": a request
\* handed to the reverse proxy is answered by envd while its sandbox runs.
EnvdReached ==
  \A c \in Callers : pc[c] = "forwarded" /\ live => status[c] = 200

=============================================================================
