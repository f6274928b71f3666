--------------------------- MODULE ServerLifecycle ---------------------------
(***************************************************************************)
(* The gateway process: runServe (internal/cmd/serve.go) with Server.New,  *)
(* Start and Stop (internal/server/http.go).  Goroutines: runServe, the    *)
(* one that runs Start, one per listener, and the requests.  What Shutdown *)
(* does is taken from net/http: it closes the listener at once, returns    *)
(* when the server has no request left or its context is done, and does    *)
(* not track connections a handler has hijacked (WebSockets).              *)
(***************************************************************************)
EXTENDS Naturals, Sequences

CONSTANTS
  BackendConfigs,  \* lists of backends a configuration may name
  Conns            \* connections, of one request each

Servers == {"http", "https"}

VARIABLES
  https,      \* HTTPS is configured
  backends,   \* the configuration's backends
  left,       \* those of them initAdapters has not reached
  registry,   \* names of the registered adapters, in order
  main,       \* pc of runServe
  start,      \* pc of the goroutine that runs Start
  signaled,   \* the signal context is done
  startErrs,  \* errors in Start's errCh
  errCh,      \* runServe's errCh: "empty", "nil" or "error"
  server,     \* per server: "off", "starting", "up", "failed" or "closed"
  expired,    \* the 30 seconds of Stop have passed
  request,    \* per connection: "none", "active", "hijacked", "answered" or "cut"
  at,         \* per connection: the server it came to
  early,      \* history: the signal came before runServe waited for it
  exit        \* how runServe ended: [cause, ok]

setup == <<https, backends, left, registry>>
calls == <<main, start, signaled, startErrs, errCh, early, exit>>
traffic == <<request, at>>
serverVars == <<setup, calls, server, expired, traffic>>

Running == [cause |-> "none", ok |-> TRUE]

ServerInit ==
  /\ https \in BOOLEAN
  /\ backends \in BackendConfigs /\ left = backends /\ registry = <<>>
  /\ main = "init" /\ start = "none"
  /\ signaled = FALSE /\ startErrs = 0 /\ errCh = "empty"
  /\ server = [s \in Servers |-> "off"]
  /\ expired = FALSE /\ early = FALSE /\ exit = Running
  /\ request = [c \in Conns |-> "none"] /\ at = [c \in Conns |-> "http"]

\* runServe returns and the process ends with whatever is still under way.
Exit(cause, ok) ==
  /\ main' = "exited"
  /\ exit' = [cause |-> cause, ok |-> ok]
  /\ request' = [c \in Conns |-> IF request[c] = "active" THEN "cut" ELSE request[c]]

-----------------------------------------------------------------------------
(* New.                                                                    *)

\* The mock adapter has a fixed name, whatever the configuration calls it.
AdapterName(b) == IF b.type = "mock" THEN "mock" ELSE b.name

Names(q) == {q[i] : i \in DOMAIN q}

\* One round of initAdapters: a disabled backend is skipped; an unknown type,
\* a constructor's error and a name already registered end New.
InitAdapter ==
  /\ main = "init" /\ left # <<>>
  /\ LET b == Head(left) IN
       \/ /\ ~b.enabled
          /\ left' = Tail(left) /\ UNCHANGED <<registry, main, exit, request>>
       \/ /\ b.enabled /\ b.type # "unknown" /\ AdapterName(b) \notin Names(registry)
          /\ left' = Tail(left) /\ registry' = Append(registry, AdapterName(b))
          /\ UNCHANGED <<main, exit, request>>
       \/ /\ b.enabled /\ (b.type # "mock" \/ AdapterName(b) \in Names(registry))
          /\ Exit("init", FALSE) /\ UNCHANGED <<left, registry>>
  /\ UNCHANGED <<https, backends, start, signaled, startErrs, errCh, early, server, expired, at>>

\* The authentication providers are configured, or are not; Start is spawned.
SpawnStart ==
  /\ main = "init" /\ left = <<>>
  /\ \/ main' = "select" /\ start' = "begin" /\ UNCHANGED <<exit, request>>
     \/ Exit("init", FALSE) /\ UNCHANGED start
  /\ UNCHANGED <<setup, signaled, startErrs, errCh, early, server, expired, at>>

-----------------------------------------------------------------------------
(* Start and the listeners.                                                *)

StartListeners ==
  /\ start = "begin" /\ main # "exited"
  /\ start' = "select"
  /\ server' = [s \in Servers |->
       IF server[s] = "off" /\ (s = "http" \/ https) THEN "starting" ELSE server[s]]
  /\ UNCHANGED <<setup, main, signaled, startErrs, errCh, early, exit, expired, traffic>>

\* ListenAndServe; a listener may also fail after it has served for a while.
\* That Shutdown has closed the server is no error.
Listen(s) ==
  /\ main # "exited"
  /\ \/ server[s] = "starting" /\ server' = [server EXCEPT ![s] = "up"] /\ UNCHANGED startErrs
     \/ /\ server[s] \in {"starting", "up"} /\ server' = [server EXCEPT ![s] = "failed"]
        /\ startErrs' = startErrs + 1
  /\ UNCHANGED <<setup, main, start, signaled, errCh, early, exit, expired, traffic>>

\* Start returns the first error, or nil once the context is done, and its
\* goroutine passes that on.  A runServe parked in its select is woken by it.
StartReturn ==
  /\ start = "select" /\ main # "exited"
  /\ \E err \in {"error", "nil"} :
       /\ err = "error" => startErrs > 0
       /\ err = "nil" => signaled
       /\ errCh' = err
       /\ IF main = "parked" THEN Exit("start", err = "nil")
          ELSE UNCHANGED <<main, exit, request>>
  /\ start' = "returned"
  /\ UNCHANGED <<setup, signaled, startErrs, early, server, expired, at>>

-----------------------------------------------------------------------------
(* runServe and Stop.                                                      *)

\* Where Stop begins.
StopAt == IF https THEN "closeHTTPS" ELSE "closeHTTP"

\* SIGINT or SIGTERM; a parked runServe is woken by it.
Signal ==
  /\ main \notin {"init", "exited"} /\ ~signaled
  /\ signaled' = TRUE
  /\ early' = (main = "select")
  /\ main' = IF main = "parked" THEN StopAt ELSE main
  /\ UNCHANGED <<setup, start, startErrs, errCh, exit, server, expired, traffic>>

\* The select of runServe: parked, or one of the branches that are ready.
Select ==
  /\ main = "select"
  /\ \/ ~signaled /\ errCh = "empty" /\ main' = "parked" /\ UNCHANGED <<exit, request>>
     \/ signaled /\ main' = StopAt /\ UNCHANGED <<exit, request>>
     \/ errCh # "empty" /\ Exit("start", errCh = "nil")
  /\ UNCHANGED <<setup, start, signaled, startErrs, errCh, early, server, expired, at>>

Active(s) == {c \in Conns : request[c] = "active" /\ at[c] = s}

\* Mutant: Close instead of Shutdown.
ShutdownCloseMut(s, pc, next) ==
  /\ main = pc
  /\ server' = [server EXCEPT ![s] = IF @ = "failed" THEN @ ELSE "closed"]
  /\ request' = [c \in Conns |-> IF c \in Active(s) THEN "cut" ELSE request[c]]
  /\ main' = next
  /\ UNCHANGED <<setup, start, signaled, startErrs, errCh, early, exit, expired, at>>

\* Shutdown of server s closes its listener ...
ShutdownClose(s, pc, next) ==
  /\ main = pc
  /\ server' = [server EXCEPT ![s] = IF @ = "failed" THEN @ ELSE "closed"]
  /\ main' = next
  /\ UNCHANGED <<setup, start, signaled, startErrs, errCh, early, exit, expired, traffic>>

\* ... and waits.  The error of the HTTPS server is dropped.
DrainHTTPS ==
  /\ main = "drainHTTPS" /\ (Active("https") = {} \/ expired)
  /\ main' = "closeHTTP"
  /\ UNCHANGED <<setup, start, signaled, startErrs, errCh, early, exit, server, expired, traffic>>

\* Mutant: the HTTP server is shut down without a deadline.
DrainHTTPMut ==
  /\ main = "drainHTTP" /\ Active("http") = {}
  /\ Exit("stop", TRUE)
  /\ UNCHANGED <<setup, start, signaled, startErrs, errCh, early, server, expired, at>>

DrainHTTP ==
  /\ main = "drainHTTP" /\ (Active("http") = {} \/ expired)
  /\ Exit("stop", Active("http") = {})
  /\ UNCHANGED <<setup, start, signaled, startErrs, errCh, early, server, expired, at>>

Stop ==
  \/ ShutdownClose("https", "closeHTTPS", "drainHTTPS")
  \/ DrainHTTPS
  \/ ShutdownClose("http", "closeHTTP", "drainHTTP")
  \/ DrainHTTP

Stopping == main \in {"closeHTTPS", "drainHTTPS", "closeHTTP", "drainHTTP"}

\* context.WithTimeout(ctx, 30*time.Second).
Expire ==
  /\ Stopping /\ ~expired
  /\ expired' = TRUE
  /\ UNCHANGED <<setup, calls, server, traffic>>

-----------------------------------------------------------------------------
(* Requests.                                                               *)

Accept(c, s) ==
  /\ main # "exited" /\ request[c] = "none" /\ server[s] = "up"
  /\ request' = [request EXCEPT ![c] = "active"]
  /\ at' = [at EXCEPT ![c] = s]
  /\ UNCHANGED <<setup, calls, server, expired>>

\* The handler answers (Recovery turns its panic into an answer), or takes the
\* connection over for a WebSocket.
Handle(c) ==
  /\ main # "exited" /\ request[c] = "active"
  /\ \E how \in {"answered", "hijacked"} : request' = [request EXCEPT ![c] = how]
  /\ UNCHANGED <<setup, calls, server, expired, at>>

-----------------------------------------------------------------------------
ServerNext ==
  \/ InitAdapter \/ SpawnStart \/ StartListeners \/ StartReturn
  \/ Signal \/ Select \/ Stop \/ Expire
  \/ \E s \in Servers : Listen(s) \/ \E c \in Conns : Accept(c, s)
  \/ \E c \in Conns : Handle(c)

\* The goroutines of the process are scheduled and the timer fires; no request
\* need ever end, and no signal need come.
ServerFairness ==
  /\ WF_serverVars(Select \/ Stop)
  /\ WF_serverVars(StartListeners \/ StartReturn)
  /\ WF_serverVars(Expire)

ServerSpec == ServerInit /\ [][ServerNext]_serverVars

-----------------------------------------------------------------------------
\* Types of the process, its servers and their requests.
ServerTypeOK ==
  /\ main \in {"init", "select", "parked", "closeHTTPS", "drainHTTPS", "closeHTTP",
               "drainHTTP", "exited"}
  /\ start \in {"none", "begin", "select", "returned"}
  /\ errCh \in {"empty", "nil", "error"} /\ startErrs \in 0..2
  /\ server \in [Servers -> {"off", "starting", "up", "failed", "closed"}]
  /\ request \in [Conns -> {"none", "active", "hijacked", "answered", "cut"}]
  /\ at \in [Conns -> Servers]

\* A graceful stop cuts no request: one that was accepted before or while the
\* servers are stopped one after the other is answered, unless the 30 seconds
\* are over, and an HTTP request that is cut makes serve report an error.
\* Without a stop the process ends only because a listener failed, or because
\* the signal came before runServe was waiting for it.
GracefulStop ==
  /\ exit.cause = "stop" =>
       \A c \in Conns : request[c] = "cut" => expired /\ (exit.ok => at[c] = "https")
  /\ exit.cause = "start" => startErrs > 0 \/ early

\* After a signal or the failure of a listener the process ends, whatever its
\* requests do.
ServeReturns == signaled \/ (\E s \in Servers : server[s] = "failed") ~> main = "exited"

=============================================================================
