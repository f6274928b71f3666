--------------------------- MODULE AdmissionProofs ---------------------------
(***************************************************************************)
(* Proofs about module Admission, for any callers, inputs, providers of    *)
(* keys and limits: who reaches a handler, and who is refused by the       *)
(* limiter.                                                                *)
(***************************************************************************)
EXTENDS Admission, TLAPS

\* Steps behind the catch-all route.
Proxied == {"proxy", "validate", "endpoint", "forward", "forwarded"}

\* The types the arguments need.
Typed ==
  /\ pc \in [Callers -> {"idle", "auth", "limit", "route", "done"} \cup Proxied]
  /\ DOMAIN in = Callers /\ DOMAIN tenant = Callers /\ DOMAIN via = Callers
  /\ status \in [Callers -> Nat]

\* A tenant comes from Auth only; the proxy serves no API route, and what has
\* not been answered has no status.
Identified ==
  /\ \A c \in Callers : tenant[c] # None => c \in known
  /\ \A c \in Callers : pc[c] \in Proxied => in[c].route \notin Scopes
  /\ \A c \in Callers : pc[c] \notin {"done", "forwarded"} => status[c] = 0

AuthInv == Typed /\ Identified /\ Entitled

USE DEF auth, sandbox, request

\* Every step of a request, of the keys and of the sandbox keeps the types.
LEMMA TypedStep ==
  ASSUME Typed, [AdmissionNext]_admissionVars
  PROVE  Typed'
<1> USE DEF Typed, Proxied, Goto, Reply
<1>1. ASSUME NEW c \in Callers, Receive(c) PROVE Typed'
  BY <1>1 DEF Receive
<1>2. ASSUME NEW c \in Callers, Auth(c) PROVE Typed'
  BY <1>2 DEF Auth
<1>3. ASSUME NEW c \in Callers, RateLimit(c) PROVE Typed'
  BY <1>3 DEF RateLimit
<1>4. ASSUME NEW c \in Callers, Route(c) PROVE Typed'
  BY <1>4 DEF Route
<1>5. ASSUME NEW c \in Callers, Resolve(c) PROVE Typed'
  BY <1>5 DEF Resolve
<1>6. ASSUME NEW c \in Callers, Validate(c) \/ Endpoint(c) PROVE Typed'
  BY <1>6 DEF Validate, Endpoint
<1>7. ASSUME NEW c \in Callers, Forward(c) PROVE Typed'
  BY <1>7 DEF Forward, ServeHTTP
<1>8. ASSUME NEW k, RemoveKey(k) \/ AddKey(k, {"sandbox:read"}) PROVE Typed'
  BY <1>8 DEF RemoveKey, AddKey
<1>9. CASE Killed \/ Tick \/ UNCHANGED admissionVars
  BY <1>9 DEF Killed, Tick, admissionVars
<1> QED BY <1>1, <1>2, <1>3, <1>4, <1>5, <1>6, <1>7, <1>8, <1>9 DEF AdmissionNext

\* Each step keeps who is identified and who is entitled.
LEMMA EntitledStep ==
  ASSUME AuthInv, [AdmissionNext]_admissionVars
  PROVE  Identified' /\ Entitled'
<1> USE DEF AuthInv, Typed, Identified, Entitled, Proxied, Goto, Reply
<1>1. ASSUME NEW c \in Callers, Receive(c) PROVE Identified' /\ Entitled'
  BY <1>1 DEF Receive
<1>2. ASSUME NEW c \in Callers, Auth(c) PROVE Identified' /\ Entitled'
  BY <1>2 DEF Auth
<1>3. ASSUME NEW c \in Callers, RateLimit(c) PROVE Identified' /\ Entitled'
  BY <1>3 DEF RateLimit
<1>4. ASSUME NEW c \in Callers, Route(c) PROVE Identified' /\ Entitled'
  <2>1. CASE in[c].route \in Scopes
    BY <1>4, <2>1 DEF Route, Scopes
  <2>2. CASE in[c].route \notin Scopes
    BY <1>4, <2>2 DEF Route, Scopes
  <2> QED BY <2>1, <2>2
<1>5. ASSUME NEW c \in Callers, Resolve(c) PROVE Identified' /\ Entitled'
  BY <1>5 DEF Resolve
<1>6. ASSUME NEW c \in Callers, Validate(c) \/ Endpoint(c) PROVE Identified' /\ Entitled'
  BY <1>6 DEF Validate, Endpoint
<1>7. ASSUME NEW c \in Callers, Forward(c) PROVE Identified' /\ Entitled'
  BY <1>7 DEF Forward, ServeHTTP
<1>8. ASSUME NEW k, RemoveKey(k) \/ AddKey(k, {"sandbox:read"}) PROVE Identified' /\ Entitled'
  BY <1>8 DEF RemoveKey, AddKey
<1>9. CASE Killed \/ Tick \/ UNCHANGED admissionVars
  BY <1>9 DEF Killed, Tick, admissionVars
<1> QED BY <1>1, <1>2, <1>3, <1>4, <1>5, <1>6, <1>7, <1>8, <1>9 DEF AdmissionNext

\* The inductive invariant of the authentication holds.
THEOREM AuthInductive == AdmissionSpec => []AuthInv
<1>1. AdmissionInit => AuthInv
  BY DEF AdmissionInit, AuthInv, Typed, Identified, Entitled, Proxied
<1>2. AuthInv /\ [AdmissionNext]_admissionVars => AuthInv'
  BY TypedStep, EntitledStep DEF AuthInv
<1> QED BY <1>1, <1>2, PTL DEF AdmissionSpec

\* For any callers, inputs and providers: an API handler runs only for a key
\* known when Auth ran and a tenant with the route's scope, and the proxy goes
\* on only with the token the sandbox's adapter issued.
THEOREM OnlyEntitled == AdmissionSpec => []Entitled
BY AuthInductive, PTL DEF AuthInv

-----------------------------------------------------------------------------
(* The limiter.                                                            *)

\* The limits a configuration may set.
Limits == Burst \in Nat \ {0} /\ Rate \in Nat

\* A bucket and what Allow has let its key have: since the bucket was last
\* touched the two add up to the burst at least, and at most to the burst and
\* what time had refilled by then.
Metered ==
  /\ now \in Nat /\ DOMAIN buckets = DOMAIN allowed
  /\ \A k \in DOMAIN buckets :
       /\ buckets[k].tokens \in Nat /\ buckets[k].last \in Nat /\ allowed[k] \in Nat
       /\ buckets[k].last <= now
       /\ Burst <= allowed[k] + buckets[k].tokens
       /\ allowed[k] + buckets[k].tokens <= Burst + Rate * buckets[k].last

\* A refusal is an answer, to a caller whose key has spent its burst.
Refused ==
  \A c \in Callers : status[c] = 429 =>
    /\ pc[c] = "done"
    /\ RateKey(c) \in DOMAIN allowed /\ allowed[RateKey(c)] >= Burst

LimitInv == AuthInv /\ Metered /\ Refused

\* What time refills up to a later time is what it refills up to an earlier
\* one and in between.
LEMMA Refills ==
  ASSUME NEW r \in Nat, NEW a \in Nat, NEW b \in Nat, a <= b
  PROVE  /\ r * a \in Nat /\ r * b \in Nat /\ r * (b - a) \in Nat
         /\ r * a + r * (b - a) = r * b
<1>1. b - a \in Nat OBVIOUS
<1>2. r * a \in Nat /\ r * b \in Nat /\ r * (b - a) \in Nat
  BY <1>1
<1>3. r * a + r * (b - a) = r * b
  BY <1>1, <1>2
<1> QED BY <1>2, <1>3

\* Refilling a bucket keeps what it and its key have within the two limits,
\* now at the present time.
LEMMA RefilledMetered ==
  ASSUME Limits, Metered, NEW k \in DOMAIN buckets
  PROVE  /\ Refilled(k) \in Nat
         /\ Burst <= allowed[k] + Refilled(k)
         /\ allowed[k] + Refilled(k) <= Burst + Rate * now
<1> DEFINE t == buckets[k].tokens  l == buckets[k].last  a == allowed[k]
           p == Rate * l  q == Rate * (now - l)  n == Rate * now
<1>1. t \in Nat /\ l \in Nat /\ a \in Nat /\ now \in Nat /\ l <= now /\ Burst \in Nat
      /\ Rate \in Nat /\ Burst <= a + t /\ a + t <= Burst + p
  BY DEF Metered, Limits
<1>2. p \in Nat /\ n \in Nat /\ q \in Nat /\ p + q = n
  BY <1>1, Refills
<1>3. Refilled(k) = IF Burst < t + q THEN Burst ELSE t + q
  BY DEF Refilled, Smaller
<1> HIDE DEF t, l, a, p, q, n
<1>4. Refilled(k) \in Nat /\ Burst <= a + Refilled(k) /\ a + Refilled(k) <= Burst + n
  BY <1>1, <1>2, <1>3
<1> QED BY <1>4 DEF a, n

\* Allow, for a key that has a bucket and for one that has none.
LEMMA AllowMetered ==
  ASSUME Limits, Metered, Typed, NEW c \in Callers, RateLimit(c)
  PROVE  /\ Metered'
         /\ status'[c] = 429 /\ status[c] # 429 =>
              RateKey(c) \in DOMAIN allowed' /\ allowed'[RateKey(c)] >= Burst
         /\ \A k \in DOMAIN allowed : k \in DOMAIN allowed' /\ allowed'[k] >= allowed[k]
<1> DEFINE k == RateKey(c)  n == Rate * now
<1>0. now' = now /\ now \in Nat /\ Burst \in Nat \ {0} /\ Rate \in Nat /\ n \in Nat
      /\ DOMAIN buckets = DOMAIN allowed /\ \A x \in DOMAIN allowed : allowed[x] \in Nat
  BY DEF RateLimit, Metered, Limits
<1>1. CASE in[c].route \in Unlimited
  BY <1>0, <1>1 DEF RateLimit, Metered, Goto
<1>2. CASE in[c].route \notin Unlimited /\ k \notin DOMAIN buckets
  <2>1. Refilled(k) = Burst
    BY <1>2 DEF Refilled
  <2>2. Spend(k, Burst - 1) /\ Count(k) /\ UNCHANGED status
    BY <1>0, <1>2, <2>1 DEF RateLimit
  <2> HIDE DEF k
  <2>3. /\ DOMAIN buckets' = DOMAIN buckets \cup {k} /\ DOMAIN allowed' = DOMAIN allowed \cup {k}
        /\ buckets'[k].tokens = Burst - 1 /\ buckets'[k].last = now /\ allowed'[k] = 1
        /\ \A x \in DOMAIN buckets : buckets'[x] = buckets[x] /\ allowed'[x] = allowed[x]
    BY <1>0, <1>2, <2>2 DEF Spend, Count
  <2>4. Metered'
    BY <1>0, <2>3 DEF Metered
  <2> QED BY <1>0, <2>2, <2>3, <2>4
<1>3. CASE in[c].route \notin Unlimited /\ k \in DOMAIN buckets
  <2> DEFINE r == Refilled(k)
  <2>1. r \in Nat /\ Burst <= allowed[k] + r /\ allowed[k] + r <= Burst + n /\ allowed[k] \in Nat
    BY <1>0, <1>3, RefilledMetered
  <2>2. CASE r >= 1
    <3>1. Spend(k, r - 1) /\ Count(k) /\ UNCHANGED status
      BY <1>3, <2>2 DEF RateLimit
    <3> HIDE DEF k, r
    <3>2. /\ DOMAIN buckets' = DOMAIN buckets /\ DOMAIN allowed' = DOMAIN allowed
          /\ buckets'[k].tokens = r - 1 /\ buckets'[k].last = now /\ allowed'[k] = allowed[k] + 1
          /\ \A x \in DOMAIN buckets \ {k} : buckets'[x] = buckets[x] /\ allowed'[x] = allowed[x]
      BY <1>0, <1>3, <3>1 DEF Spend, Count
    <3>3. Metered'
      BY <1>0, <2>1, <2>2, <3>2 DEF Metered
    <3> QED BY <1>0, <2>1, <3>1, <3>2, <3>3
  <2>3. CASE ~(r >= 1)
    <3>1. Spend(k, r) /\ UNCHANGED allowed
      BY <1>3, <2>3 DEF RateLimit
    <3> HIDE DEF k, r
    <3>2. /\ DOMAIN buckets' = DOMAIN buckets
          /\ buckets'[k].tokens = r /\ buckets'[k].last = now
          /\ \A x \in DOMAIN buckets \ {k} : buckets'[x] = buckets[x]
      BY <1>0, <1>3, <3>1 DEF Spend
    <3>3. Metered'
      BY <1>0, <2>1, <2>3, <3>1, <3>2 DEF Metered
    <3>4. allowed[k] >= Burst
      BY <1>0, <2>1, <2>3
    <3> QED BY <1>0, <1>3, <3>1, <3>3, <3>4 DEF k
  <2> QED BY <2>2, <2>3
<1> QED BY <1>1, <1>2, <1>3

\* Whatever else happens, what Allow counts and whom it refused stay.
LEMMA LimitStep ==
  ASSUME Limits, LimitInv, [AdmissionNext]_admissionVars
  PROVE  Metered' /\ Refused'
<1> DEFINE Quiet ==
      /\ UNCHANGED <<buckets, allowed>> /\ now' \in Nat /\ now <= now'
      /\ \A d \in Callers :
           /\ status'[d] = 429 => status[d] = 429
           /\ pc[d] = "done" => pc'[d] = pc[d] /\ in'[d] = in[d] /\ tenant'[d] = tenant[d]
<1>0. ASSUME Quiet PROVE Metered' /\ Refused'
  <2>1. Metered'
    BY <1>0 DEF LimitInv, Metered
  <2>2. Refused'
    BY <1>0 DEF LimitInv, Refused, RateKey
  <2> QED BY <2>1, <2>2
<1>3. ASSUME NEW c \in Callers, RateLimit(c) PROVE Metered' /\ Refused'
  <2>1. Typed /\ Identified /\ Metered /\ Refused
    BY DEF LimitInv, AuthInv
  <2>2. /\ Metered'
        /\ status'[c] = 429 /\ status[c] # 429 =>
             RateKey(c) \in DOMAIN allowed' /\ allowed'[RateKey(c)] >= Burst
        /\ \A k \in DOMAIN allowed : k \in DOMAIN allowed' /\ allowed'[k] >= allowed[k]
    BY <1>3, <2>1, AllowMetered
  <2>3. \A d \in Callers : RateKey(d)' = RateKey(d)
    BY <1>3 DEF RateLimit, RateKey
  <2>4. /\ pc[c] = "limit" /\ status[c] # 429 /\ (status'[c] = 429 => pc'[c] = "done")
        /\ \A d \in Callers \ {c} : status'[d] = status[d] /\ pc'[d] = pc[d]
    BY <1>3, <2>1 DEF RateLimit, Typed, Identified, Goto, Reply
  <2>5. ASSUME NEW d \in Callers, status'[d] = 429
        PROVE  pc'[d] = "done" /\ RateKey(d) \in DOMAIN allowed' /\ allowed'[RateKey(d)] >= Burst
    <3>1. CASE d = c
      BY <2>2, <2>4, <2>5, <3>1
    <3>2. CASE d # c
      <4>1. pc'[d] = "done" /\ RateKey(d) \in DOMAIN allowed /\ allowed[RateKey(d)] >= Burst
        BY <2>1, <2>4, <2>5, <3>2 DEF Refused
      <4>2. allowed[RateKey(d)] \in Nat /\ Burst \in Nat /\ RateKey(d) \in DOMAIN allowed'
            /\ allowed'[RateKey(d)] >= allowed[RateKey(d)] /\ allowed'[RateKey(d)] \in Nat
        BY <2>1, <2>2, <4>1 DEF Metered, Limits
      <4> QED BY <4>1, <4>2
    <3> QED BY <3>1, <3>2
  <2> QED BY <2>2, <2>3, <2>5 DEF Refused
<1> USE DEF LimitInv, AuthInv, Typed, Identified, Metered, Goto, Reply
<1>1. ASSUME NEW c \in Callers, Receive(c) PROVE Quiet
  BY <1>1 DEF Receive
<1>2. ASSUME NEW c \in Callers, Auth(c) PROVE Quiet
  BY <1>2 DEF Auth
<1>4. ASSUME NEW c \in Callers, Route(c) PROVE Quiet
  BY <1>4 DEF Route
<1>5. ASSUME NEW c \in Callers, Resolve(c) PROVE Quiet
  BY <1>5 DEF Resolve
<1>6. ASSUME NEW c \in Callers, Validate(c) \/ Endpoint(c) PROVE Quiet
  BY <1>6 DEF Validate, Endpoint
<1>7. ASSUME NEW c \in Callers, Forward(c) PROVE Quiet
  BY <1>7 DEF Forward, ServeHTTP
<1>8. ASSUME NEW k, RemoveKey(k) \/ AddKey(k, {"sandbox:read"}) PROVE Quiet
  BY <1>8 DEF RemoveKey, AddKey
<1>9. ASSUME Killed \/ Tick \/ UNCHANGED admissionVars PROVE Quiet
  BY <1>9 DEF Killed, Tick, admissionVars
<1> HIDE DEF Quiet, LimitInv, AuthInv, Typed, Identified, Metered, Goto, Reply
<1> QED BY <1>0, <1>1, <1>2, <1>3, <1>4, <1>5, <1>6, <1>7, <1>8, <1>9 DEF AdmissionNext

\* The inductive invariant of the limiter holds.
THEOREM LimitInductive == ASSUME Limits PROVE AdmissionSpec => []LimitInv
<1>1. AdmissionInit => LimitInv
  BY DEF AdmissionInit, LimitInv, AuthInv, Typed, Identified, Entitled, Proxied, Metered, Refused
<1>2. LimitInv /\ [AdmissionNext]_admissionVars => LimitInv'
  BY TypedStep, EntitledStep, LimitStep DEF LimitInv, AuthInv
<1> QED BY <1>1, <1>2, PTL DEF AdmissionSpec

\* For any burst and rate of refill, and any number of callers and of ticks:
\* Allow lets no key have more than its burst and what time refills, and
\* refuses a request only when its own key has spent its burst.
THEOREM KeysLimitedApart == ASSUME Limits PROVE AdmissionSpec => []LimitedApart
<1>1. LimitInv => LimitedApart
  <2> SUFFICES ASSUME LimitInv PROVE LimitedApart
    OBVIOUS
  <2>1. ASSUME NEW k \in DOMAIN allowed PROVE allowed[k] <= Burst + Rate * now
    <3> DEFINE p == Rate * buckets[k].last  n == Rate * now  q == Rate * (now - buckets[k].last)
    <3>1. /\ buckets[k].tokens \in Nat /\ buckets[k].last \in Nat /\ allowed[k] \in Nat
          /\ now \in Nat /\ buckets[k].last <= now /\ Burst \in Nat /\ Rate \in Nat
          /\ allowed[k] + buckets[k].tokens <= Burst + p
      BY <2>1 DEF LimitInv, Metered, Limits
    <3>2. p \in Nat /\ n \in Nat /\ q \in Nat /\ p + q = n
      BY <3>1, Refills
    <3> HIDE DEF p, n, q
    <3>3. allowed[k] <= Burst + n
      BY <3>1, <3>2
    <3> QED BY <3>3 DEF n
  <2> QED BY <2>1 DEF LimitInv, Refused, LimitedApart
<1> QED BY <1>1, LimitInductive, PTL

==============================================================================
