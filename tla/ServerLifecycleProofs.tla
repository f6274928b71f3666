------------------------ MODULE ServerLifecycleProofs ------------------------
(***************************************************************************)
(* A graceful stop of the gateway process cuts no request, for any number  *)
(* of connections and any configuration of backends.                       *)
(***************************************************************************)
EXTENDS ServerLifecycle, TLAPS

Causes == {"none", "init", "start", "stop"}

\* The types the argument needs.
Typed ==
  /\ https \in BOOLEAN /\ expired \in BOOLEAN /\ early \in BOOLEAN /\ signaled \in BOOLEAN
  /\ main \in {"init", "select", "parked", "closeHTTPS", "drainHTTPS", "closeHTTP",
               "drainHTTP", "exited"}
  /\ errCh \in {"empty", "nil", "error"} /\ startErrs \in Nat
  /\ server \in [Servers -> {"off", "starting", "up", "failed", "closed"}]
  /\ request \in [Conns -> {"none", "active", "hijacked", "answered", "cut"}]
  /\ at \in [Conns -> Servers]
  /\ exit \in [cause : Causes, ok : BOOLEAN]

\* runServe ends once, and only that cuts requests.
Ending ==
  /\ exit.cause # "none" => main = "exited"
  /\ \A c \in Conns : request[c] = "cut" => main = "exited"

\* The HTTPS server takes no request once Stop has closed it, or when it is
\* not configured; while the HTTP server is being stopped it has none left,
\* unless time is up.
Closing ==
  /\ ~https => server["https"] = "off" /\ main \notin {"closeHTTPS", "drainHTTPS"}
  /\ main \in {"drainHTTPS", "closeHTTP", "drainHTTP"} => server["https"] \in {"off", "closed", "failed"}
  /\ https /\ main \in {"drainHTTPS", "closeHTTP", "drainHTTP"} => server["https"] # "off"
  /\ \A c \in Conns : request[c] = "active" /\ at[c] = "https" =>
       https /\ (main \in {"closeHTTP", "drainHTTP"} => expired)

\* Start's results: an error only after a listener failed, and nil only after
\* a signal, which runServe misses only if it came before the select.
Results ==
  /\ errCh = "error" => startErrs > 0
  /\ errCh = "nil" => signaled
  /\ main \in {"init", "parked"} => ~signaled
  /\ main = "select" /\ signaled => early

IInv == Typed /\ Ending /\ Closing /\ Results /\ GracefulStop

-----------------------------------------------------------------------------
USE DEF setup, calls, traffic

\* The end of the process leaves no request active.
LEMMA ExitFacts ==
  ASSUME Typed, NEW cause \in Causes, NEW ok \in BOOLEAN, Exit(cause, ok)
  PROVE  /\ main' = "exited" /\ exit' \in [cause : Causes, ok : BOOLEAN]
         /\ request' \in [Conns -> {"none", "active", "hijacked", "answered", "cut"}]
         /\ \A c \in Conns : request'[c] # "active"
BY DEF Typed, Exit

\* New: an error of initAdapters ends runServe before anything is served.
LEMMA InitAdapterIInv ==
  ASSUME IInv, InitAdapter
  PROVE  IInv'
<1> USE DEF InitAdapter, Exit
<1>1. Typed'
  <2>1. CASE Exit("init", FALSE)
    BY <2>1, ExitFacts DEF IInv, Typed, Causes
  <2>2. CASE ~Exit("init", FALSE)
    BY <2>2 DEF IInv, Typed
  <2> QED BY <2>1, <2>2
<1>2. Ending'
  BY DEF IInv, Typed, Ending, Running
<1>3. Closing'
  BY DEF IInv, Typed, Servers, Closing
<1>4. Results'
  BY DEF IInv, Typed, Results
<1>5. GracefulStop'
  BY DEF IInv, Typed, Ending, Closing, Results, GracefulStop, Servers, Running
<1> QED BY <1>1, <1>2, <1>3, <1>4, <1>5 DEF IInv

\* Start is spawned, or New has failed.
LEMMA SpawnStartIInv ==
  ASSUME IInv, SpawnStart
  PROVE  IInv'
<1> USE DEF SpawnStart, Exit
<1>1. Typed'
  <2>1. CASE Exit("init", FALSE)
    BY <2>1, ExitFacts DEF IInv, Typed, Causes
  <2>2. CASE ~Exit("init", FALSE)
    BY <2>2 DEF IInv, Typed
  <2> QED BY <2>1, <2>2
<1>2. Ending'
  BY DEF IInv, Typed, Ending, Running
<1>3. Closing'
  <2>1. CASE Exit("init", FALSE)
    BY <2>1, ExitFacts DEF IInv, Typed, Closing, Causes
  <2>2. CASE ~Exit("init", FALSE)
    <3>1. main' = "select" /\ UNCHANGED <<https, server, request, at>>
      BY <2>2
    <3> QED BY <3>1 DEF IInv, Closing
  <2> QED BY <2>1, <2>2
<1>4. Results'
  BY DEF IInv, Typed, Results
<1>5. GracefulStop'
  BY DEF IInv, Typed, Ending, Closing, Results, GracefulStop, Servers, Running
<1> QED BY <1>1, <1>2, <1>3, <1>4, <1>5 DEF IInv

\* Start: the HTTPS server is started only if it is configured.
LEMMA StartListenersIInv ==
  ASSUME IInv, StartListeners
  PROVE  IInv'
<1> USE DEF StartListeners
<1>1. Typed'
  BY DEF IInv, Typed, Servers, Causes, Running
<1>2. Ending'
  BY DEF IInv, Typed, Ending, Running
<1>3. Closing'
  BY DEF IInv, Typed, Servers, Closing
<1>4. Results'
  BY DEF IInv, Typed, Results
<1>5. GracefulStop'
  BY DEF IInv, Typed, Ending, Closing, Results, GracefulStop, Servers, Running
<1> QED BY <1>1, <1>2, <1>3, <1>4, <1>5 DEF IInv

\* A listener that fails leaves an error.
LEMMA ListenIInv ==
  ASSUME IInv, NEW s \in Servers, Listen(s)
  PROVE  IInv'
<1> USE DEF Listen
<1>1. Typed'
  BY DEF IInv, Typed, Servers, Causes, Running
<1>2. Ending'
  BY DEF IInv, Typed, Ending, Running
<1>3. Closing'
  BY DEF IInv, Typed, Servers, Closing
<1>4. Results'
  BY DEF IInv, Typed, Results
<1>5. GracefulStop'
  BY DEF IInv, Typed, Ending, Closing, Results, GracefulStop, Servers, Running
<1> QED BY <1>1, <1>2, <1>3, <1>4, <1>5 DEF IInv

\* Start returns an error only after a listener failed.
LEMMA StartReturnIInv ==
  ASSUME IInv, StartReturn
  PROVE  IInv'
<1> USE DEF StartReturn, Exit
<1>1. Typed'
  <2>1. CASE main = "parked"
    <3>1. PICK err \in {"error", "nil"} : Exit("start", err = "nil") /\ errCh' = err
      BY <2>1
    <3> QED BY <3>1, ExitFacts DEF IInv, Typed, Causes
  <2>2. CASE main # "parked"
    BY <2>2 DEF IInv, Typed
  <2> QED BY <2>1, <2>2
<1>2. Ending'
  BY DEF IInv, Typed, Ending, Running
<1>3. Closing'
  BY DEF IInv, Typed, Servers, Closing
<1>4. Results'
  BY DEF IInv, Typed, Results
<1>5. GracefulStop'
  BY DEF IInv, Typed, Ending, Closing, Results, GracefulStop, Servers, Running
<1> QED BY <1>1, <1>2, <1>3, <1>4, <1>5 DEF IInv

\* The signal.
LEMMA SignalIInv ==
  ASSUME IInv, Signal
  PROVE  IInv'
<1> USE DEF Signal, StopAt
<1>1. Typed'
  BY DEF IInv, Typed, Servers, Causes, Running
<1>2. Ending'
  BY DEF IInv, Typed, Ending, Running
<1>3. Closing'
  BY DEF IInv, Typed, Servers, Closing
<1>4. Results'
  BY DEF IInv, Typed, Results
<1>5. GracefulStop'
  BY DEF IInv, Typed, Ending, Closing, Results, GracefulStop, Servers, Running
<1> QED BY <1>1, <1>2, <1>3, <1>4, <1>5 DEF IInv

\* The select of runServe.
LEMMA SelectIInv ==
  ASSUME IInv, Select
  PROVE  IInv'
<1> USE DEF Select, StopAt, Exit
<1>1. Typed'
  <2>1. CASE Exit("start", errCh = "nil")
    BY <2>1, ExitFacts DEF IInv, Typed, Causes
  <2>2. CASE ~Exit("start", errCh = "nil")
    BY <2>2 DEF IInv, Typed
  <2> QED BY <2>1, <2>2
<1>2. Ending'
  BY DEF IInv, Typed, Ending, Running
<1>3. Closing'
  BY DEF IInv, Typed, Servers, Closing
<1>4. Results'
  BY DEF IInv, Typed, Results
<1>5. GracefulStop'
  BY DEF IInv, Typed, Ending, Closing, Results, GracefulStop, Servers, Running
<1> QED BY <1>1, <1>2, <1>3, <1>4, <1>5 DEF IInv

\* Stop closes the HTTPS server.
LEMMA CloseHTTPSIInv ==
  ASSUME IInv, ShutdownClose("https", "closeHTTPS", "drainHTTPS")
  PROVE  IInv'
<1> USE DEF ShutdownClose
<1>1. Typed'
  BY DEF IInv, Typed, Servers, Causes, Running
<1>2. Ending'
  BY DEF IInv, Typed, Ending, Running
<1>3. Closing'
  BY DEF IInv, Typed, Servers, Closing
<1>4. Results'
  BY DEF IInv, Typed, Results
<1>5. GracefulStop'
  BY DEF IInv, Typed, Ending, Closing, Results, GracefulStop, Servers, Running
<1> QED BY <1>1, <1>2, <1>3, <1>4, <1>5 DEF IInv

\* Stop goes on when the HTTPS server has no request left, or time is up.
LEMMA DrainHTTPSIInv ==
  ASSUME IInv, DrainHTTPS
  PROVE  IInv'
<1> USE DEF DrainHTTPS, Active
<1>1. Typed'
  BY DEF IInv, Typed, Servers, Causes, Running
<1>2. Ending'
  BY DEF IInv, Typed, Ending, Running
<1>3. Closing'
  BY DEF IInv, Typed, Servers, Closing
<1>4. Results'
  BY DEF IInv, Typed, Results
<1>5. GracefulStop'
  BY DEF IInv, Typed, Ending, Closing, Results, GracefulStop, Servers, Running
<1> QED BY <1>1, <1>2, <1>3, <1>4, <1>5 DEF IInv

\* Stop closes the HTTP server.
LEMMA CloseHTTPIInv ==
  ASSUME IInv, ShutdownClose("http", "closeHTTP", "drainHTTP")
  PROVE  IInv'
<1> USE DEF ShutdownClose
<1>1. Typed'
  BY DEF IInv, Typed, Servers, Causes, Running
<1>2. Ending'
  BY DEF IInv, Typed, Ending, Running
<1>3. Closing'
  BY DEF IInv, Typed, Servers, Closing
<1>4. Results'
  BY DEF IInv, Typed, Results
<1>5. GracefulStop'
  BY DEF IInv, Typed, Ending, Closing, Results, GracefulStop, Servers, Running
<1> QED BY <1>1, <1>2, <1>3, <1>4, <1>5 DEF IInv

\* Stop returns, and with it the process ends.
LEMMA DrainHTTPIInv ==
  ASSUME IInv, DrainHTTP
  PROVE  IInv'
<1> USE DEF DrainHTTP, Active, Exit
<1>1. Typed'
  BY DEF IInv, Typed, Servers, Causes, Running
<1>2. Ending'
  BY DEF IInv, Typed, Ending, Running
<1>3. Closing'
  BY DEF IInv, Typed, Servers, Closing
<1>4. Results'
  BY DEF IInv, Typed, Results
<1>5. GracefulStop'
  BY DEF IInv, Typed, Ending, Closing, Results, GracefulStop, Servers, Running
<1> QED BY <1>1, <1>2, <1>3, <1>4, <1>5 DEF IInv

\* Time is up.
LEMMA ExpireIInv ==
  ASSUME IInv, Expire
  PROVE  IInv'
<1> USE DEF Expire, Stopping
<1>1. Typed'
  BY DEF IInv, Typed, Servers, Causes, Running
<1>2. Ending'
  BY DEF IInv, Typed, Ending, Running
<1>3. Closing'
  BY DEF IInv, Typed, Servers, Closing
<1>4. Results'
  BY DEF IInv, Typed, Results
<1>5. GracefulStop'
  BY DEF IInv, Typed, Ending, Closing, Results, GracefulStop, Servers, Running
<1> QED BY <1>1, <1>2, <1>3, <1>4, <1>5 DEF IInv

\* A server that is up accepts a request.
LEMMA AcceptIInv ==
  ASSUME IInv, NEW c \in Conns, NEW s \in Servers, Accept(c, s)
  PROVE  IInv'
<1> USE DEF Accept
<1>1. Typed'
  BY DEF IInv, Typed, Servers, Causes, Running
<1>2. Ending'
  BY DEF IInv, Typed, Ending, Running
<1>3. Closing'
  BY DEF IInv, Typed, Servers, Closing
<1>4. Results'
  BY DEF IInv, Typed, Results
<1>5. GracefulStop'
  BY DEF IInv, Typed, Ending, Closing, Results, GracefulStop, Servers, Running
<1> QED BY <1>1, <1>2, <1>3, <1>4, <1>5 DEF IInv

\* A request is answered, or its connection taken over.
LEMMA HandleIInv ==
  ASSUME IInv, NEW c \in Conns, Handle(c)
  PROVE  IInv'
<1> USE DEF Handle
<1>1. Typed'
  BY DEF IInv, Typed, Servers, Causes, Running
<1>2. Ending'
  BY DEF IInv, Typed, Ending, Running
<1>3. Closing'
  BY DEF IInv, Typed, Servers, Closing
<1>4. Results'
  BY DEF IInv, Typed, Results
<1>5. GracefulStop'
  BY DEF IInv, Typed, Ending, Closing, Results, GracefulStop, Servers, Running
<1> QED BY <1>1, <1>2, <1>3, <1>4, <1>5 DEF IInv

\* A stutter.
LEMMA StutterIInv ==
  ASSUME IInv, UNCHANGED serverVars
  PROVE  IInv'
BY DEF IInv, serverVars, Typed, Ending, Closing, Results, GracefulStop

\* The inductive invariant of the process holds.
THEOREM Inductive == ServerSpec => []IInv
<1>1. ServerInit => IInv
  <2> SUFFICES ASSUME ServerInit PROVE IInv
    OBVIOUS
  <2> USE DEF ServerInit, Running
  <2>1. Typed
    BY DEF Typed, Causes, Servers
  <2>2. Ending /\ Closing /\ Results /\ GracefulStop
    BY DEF Servers, Ending, Closing, Results, GracefulStop
  <2> QED BY <2>1, <2>2 DEF IInv
<1>2. IInv /\ [ServerNext]_serverVars => IInv'
  <2> SUFFICES ASSUME IInv, [ServerNext]_serverVars PROVE IInv'
    OBVIOUS
  <2>1. CASE Stop
    BY <2>1, CloseHTTPSIInv, DrainHTTPSIInv, CloseHTTPIInv, DrainHTTPIInv DEF Stop
  <2> QED BY <2>1, InitAdapterIInv, SpawnStartIInv, StartListenersIInv, ListenIInv,
             StartReturnIInv, SignalIInv, SelectIInv, ExpireIInv, AcceptIInv, HandleIInv,
             StutterIInv
      DEF ServerNext
<1> QED BY <1>1, <1>2, PTL DEF ServerSpec

\* For any connections and configuration: a request accepted before or during
\* the stop is answered unless the 30 seconds are over, a cut HTTP request
\* makes serve report an error, and without a stop the process ends only for a
\* listener's failure or a signal that came before the select.
THEOREM StopIsGraceful == ServerSpec => []GracefulStop
BY Inductive, PTL DEF IInv

==============================================================================
