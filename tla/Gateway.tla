------------------------------- MODULE Gateway -------------------------------
(***************************************************************************)
(* The gateway in front of its adapters: the selection of a backend        *)
(* (Router), the way of a request to its handler or to the envd proxy      *)
(* (Admission), and the process that serves (ServerLifecycle).  A          *)
(* behaviour exercises one of the three; what they hand to each other (the *)
(* registry, a selected backend, an accepted request) is an input of the   *)
(* one that receives it.                                                   *)
(***************************************************************************)
EXTENDS Router

CONSTANTS
  Callers, Inputs, ProviderConfigs, Burst, Rate, MaxNow, None,  \* of Admission
  BackendConfigs, Conns                                      \* of ServerLifecycle

VARIABLES
  part,
  providers, added, removed, buckets, now, live, mapped, pc, in, tenant, via,
  status, known, allowed,
  https, backends, left, registry, main, start, signaled, startErrs, errCh,
  server, expired, request, at, early, exit

A == INSTANCE Admission
S == INSTANCE ServerLifecycle

admissionVars ==
  <<providers, added, removed, buckets, now, live, mapped, pc, in, tenant, via,
    status, known, allowed>>
serverVars ==
  <<https, backends, left, registry, main, start, signaled, startErrs, errCh,
    server, expired, request, at, early, exit>>
gatewayVars == <<part, vars, admissionVars, serverVars>>

\* The part's own initial states; the others rest in one of theirs.
GatewayInit ==
  /\ part \in {"router", "admission", "server"}
  /\ Init /\ A!AdmissionInit /\ S!ServerInit
  /\ part # "router" => cfg = CHOOSE c \in Configs : TRUE
  /\ part # "admission" => providers = (CHOOSE p \in ProviderConfigs : TRUE) /\ mapped
  /\ part # "server" => https /\ backends = CHOOSE b \in BackendConfigs : TRUE

GatewayNext ==
  /\ \/ part = "router" /\ Next /\ UNCHANGED <<admissionVars, serverVars>>
     \/ part = "admission" /\ A!AdmissionNext /\ UNCHANGED <<vars, serverVars>>
     \/ part = "server" /\ S!ServerNext /\ UNCHANGED <<vars, admissionVars>>
  /\ UNCHANGED part

GatewaySpec == GatewayInit /\ [][GatewayNext]_gatewayVars /\ S!ServerFairness

-----------------------------------------------------------------------------
\* Only callers whom a provider knows, with the route's scope, reach an API
\* handler, and only the sandbox's own token opens its data plane.
Entitled == part = "admission" => A!Entitled

\* A caller is refused for its own use of the limit only, and gets no more
\* than its burst and what time refills.
LimitedApart == part = "admission" => A!LimitedApart

\* The proxy forwards a request it has admitted ("envdProxyHandler returns an
\* http.Handler that reverse-proxies ConnectRPC requests to the envd daemon").
EnvdReached == part = "admission" => A!EnvdReached

\* A stop cuts no request before its deadline, and the process does not end
\* without one unless a listener failed or the signal came too early.
GracefulStop == S!GracefulStop

\* A signal or a failed listener ends the process.
ServeReturns == S!ServeReturns

=============================================================================
