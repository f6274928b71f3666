------------------------------ MODULE MCGateway ------------------------------
(* Routing configurations, requests and backend configurations.            *)
EXTENDS Gateway

Rule(template, backend) == [template |-> template, tenant |-> "", backend |-> backend]

One == {CHOOSE c \in Clients : TRUE}

(* Failover with a rule for an unregistered backend and a chain whose head *)
(* is not registered.                                                      *)
FailoverConfig ==
  [strategies |-> <<[name |-> "template-based",
                     rules |-> <<Rule("py", "gone"), Rule("py", "a")>>]>>,
   strategy |-> "template-based", failover |-> TRUE, chain |-> <<"gone", "a", "b">>,
   defaultBackend |-> "b", unhealthyThreshold |-> 2, healthyThreshold |-> 2,
   clients |-> One]

(* Two weighted backends and one that is not registered.                   *)
WeightedConfig ==
  [strategies |-> <<[name |-> "weighted",
                     rules |-> <<Rule("", "a"), Rule("", "gone"), Rule("", "b")>>]>>,
   strategy |-> "weighted", failover |-> FALSE, chain |-> <<>>,
   defaultBackend |-> "", unhealthyThreshold |-> 1, healthyThreshold |-> 1,
   clients |-> Clients]

(* No rule and a default backend.                                          *)
StaticConfig ==
  [strategies |-> <<>>, strategy |-> "static", failover |-> FALSE, chain |-> <<>>,
   defaultBackend |-> "b", unhealthyThreshold |-> 1, healthyThreshold |-> 2,
   clients |-> One]

RoutingConfigs == {FailoverConfig, WeightedConfig, StaticConfig}
AnyRequest == {[tenant |-> "", template |-> "py"], [tenant |-> "", template |-> ""]}

(* A request's route, key, token and where it names its sandbox; it comes  *)
(* from an IPv4 address, directly.                                         *)
Call(route, key, header, host, token) ==
  [method |-> "POST", route |-> route, key |-> key, header |-> header, host |-> host,
   token |-> token, xff |-> "", xri |-> "", remote |-> "v4",
   bearer |-> [genuine |-> FALSE, sub |-> <<>>, scopes |-> {}, exp |-> 0]]

(* A token that expires at the first tick; its subject is also the tenant  *)
(* of the first key.                                                       *)
Bearer == [genuine |-> TRUE, sub |-> <<"tenant", 1>>, scopes |-> {"sandbox:read"}, exp |-> 1]

Calls ==
  {[Call("health", "", FALSE, FALSE, "") EXCEPT !.method = m] : m \in {"OPTIONS", "GET"}} \cup
  {Call("metrics", "", FALSE, FALSE, ""),
   Call("sandbox:read", "k1", FALSE, FALSE, ""),
   Call("sandbox:write", "k1", FALSE, FALSE, ""),
   [Call("sandbox:read", "", FALSE, FALSE, "") EXCEPT !.bearer = Bearer],
   [Call("sandbox:write", "", FALSE, FALSE, "") EXCEPT !.bearer = Bearer],
   [Call("sandbox:write", "", TRUE, FALSE, "issued") EXCEPT !.xff = "blank"],
   [Call("envd", "", TRUE, FALSE, "issued") EXCEPT !.xff = "v6"],
   [Call("envd", "k2", FALSE, TRUE, "other") EXCEPT !.xri = "v6"]}

APIKeys(keys) == [type |-> "apikey", keys |-> keys, skew |-> 0]
JWT == [type |-> "jwt", keys |-> <<>>, skew |-> 0]

(* No provider; two with a key in common; and keys beside tokens.          *)
Providers ==
  {<<>>, <<APIKeys(<<"k1">>), APIKeys(<<"k2", "k1">>)>>, <<APIKeys(<<"k1">>), JWT>>}

Backend(name, type, enabled) == [name |-> name, type |-> type, enabled |-> enabled]

(* The mock adapter once and twice, and a disabled backend of unknown type. *)
Setups ==
  {<<Backend("a", "e2b-cloud", TRUE), Backend("b", "mock", TRUE)>>,
   <<Backend("a", "mock", TRUE), Backend("b", "mock", TRUE)>>,
   <<Backend("a", "opensandbox", TRUE), Backend("b", "unknown", FALSE)>>}
=============================================================================
