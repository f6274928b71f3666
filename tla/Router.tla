------------------------------- MODULE Router --------------------------------
(***************************************************************************)
(* internal/routing/router.go: the health-check loop and concurrent calls  *)
(* of SelectBackend.  Each isHealthy takes and releases the read lock, so  *)
(* a selection reads the health of the backends one step at a time while   *)
(* the loop changes it.  The registry does not change after start-up;      *)
(* registry.List returns its adapters in any order.                        *)
(***************************************************************************)
EXTENDS Integers, FiniteSets, SequencesExt

CONSTANTS
  Registered,         \* the names in the adapter registry
  NoBackend,          \* "", also the result of a failed selection
  Configs,            \* the routing configurations a gateway may start with,
                      \* each with the clients that use it
  Requests,           \* the [tenant, template] pairs clients send
  Clients             \* goroutines that call SelectBackend, once each

ASSUME RouterAssumption ==
  /\ NoBackend \notin Registered
  /\ \A c \in Configs :
       /\ c.clients \subseteq Clients
       /\ c.failover \in BOOLEAN
       /\ c.unhealthyThreshold \in Nat \ {0} /\ c.healthyThreshold \in Nat \ {0}

VARIABLES
  cfg,         \* the configuration, thresholds after their defaults; never changes
  health,      \* r.healthStatus
  check,       \* the health-check loop: backends left, and the probe's result
  stopHealth,  \* r.stopHealth is closed
  rrCounter,
  taken,       \* history: weighted picks per backend while no health changed
  sel,         \* the selection each client is making
  flipped,     \* history: some backend's health has changed
  history,     \* history: per backend the probe results since its health changed
  always, ever \* history, with failover on: backends healthy all through, and at
               \* some moment of, each client's selection

vars == <<cfg, health, check, stopHealth, rrCounter, taken, sel, flipped, history,
          always, ever>>
selVars == <<rrCounter, taken, sel>>

Selecting(c) == sel[c].pc \notin {"idle", "done"}
Healthy == {b \in Registered : health[b].healthy}

Idle == [pc |-> "idle", list |-> <<>>, i |-> 1, acc |-> <<>>,
         result |-> NoBackend]

Strategies == cfg.strategies   \* a sequence of [name, rules]
Strategy == cfg.strategy
FailoverEnabled == cfg.failover
Chain == cfg.chain
DefaultBackend == cfg.defaultBackend
UnhealthyThreshold == cfg.unhealthyThreshold
HealthyThreshold == cfg.healthyThreshold

Init ==
  /\ cfg \in Configs
  /\ health = [b \in Registered |-> [healthy |-> TRUE, fails |-> 0, oks |-> 0]]
  /\ check = [left |-> {}, at |-> NoBackend, ok |-> TRUE]
  /\ stopHealth = FALSE
  /\ rrCounter = 0
  /\ taken = [b \in Registered |-> 0]
  /\ sel = [c \in Clients |-> Idle]
  /\ flipped = FALSE
  /\ history = [b \in Registered |-> <<>>]
  /\ always = [c \in Clients |-> {}]
  /\ ever = [c \in Clients |-> {}]

-----------------------------------------------------------------------------
(* A tick of the loop: checkAllBackends goes over registry.List().         *)
CheckBegin ==
  /\ ~stopHealth /\ check.left = {} /\ check.at = NoBackend
  /\ check' = [check EXCEPT !.left = Registered]
  /\ UNCHANGED <<health, stopHealth, selVars, flipped, history, always, ever>>

(* a.HealthCheck(ctx): the backend answers or it does not; the result is   *)
(* taken before the lock.                                                  *)
Probe(b) ==
  /\ check.at = NoBackend /\ b \in check.left
  /\ \E ok \in BOOLEAN : check' = [left |-> check.left \ {b}, at |-> b, ok |-> ok]
  /\ UNCHANGED <<health, stopHealth, selVars, flipped, history, always, ever>>

(* The update of one backendHealth.  Counters only matter up to their      *)
(* threshold, so they saturate there.                                      *)
Saturate(n, top) == IF n < top THEN n ELSE top

UpdatedMut(h, ok) ==
  LET fails == IF ok THEN h.fails ELSE Saturate(h.fails + 1, UnhealthyThreshold)
      oks   == IF ok THEN Saturate(h.oks + 1, HealthyThreshold) ELSE 0
  IN  [healthy |-> IF ok THEN h.healthy \/ oks >= HealthyThreshold
                         ELSE h.healthy /\ fails < UnhealthyThreshold,
       fails |-> fails, oks |-> oks]

Updated(h, ok) ==
  LET fails == IF ok THEN 0 ELSE Saturate(h.fails + 1, UnhealthyThreshold)
      oks   == IF ok THEN Saturate(h.oks + 1, HealthyThreshold) ELSE 0
  IN  [healthy |-> IF ok THEN h.healthy \/ oks >= HealthyThreshold
                         ELSE h.healthy /\ fails < UnhealthyThreshold,
       fails |-> fails, oks |-> oks]

(* The last results, as many as decide the health.                         *)
Recent(q) == LET n == Max({UnhealthyThreshold, HealthyThreshold})
             IN  IF Len(q) > n THEN Tail(q) ELSE q

ApplyCheck ==
  /\ check.at # NoBackend
  /\ LET b == check.at
         h == Updated(health[b], check.ok)
     IN  /\ health' = [health EXCEPT ![b] = h]
         /\ history' = [history EXCEPT ![b] = Recent(Append(@, check.ok))]
         /\ flipped' = (flipped \/ h.healthy # health[b].healthy)
         /\ always' = [c \in Clients |-> IF h.healthy \/ ~Selecting(c) THEN always[c] ELSE always[c] \ {b}]
         /\ ever' = [c \in Clients |-> IF h.healthy /\ FailoverEnabled /\ Selecting(c) THEN ever[c] \union {b} ELSE ever[c]]
  /\ check' = [check EXCEPT !.at = NoBackend]
  /\ UNCHANGED <<stopHealth, selVars>>

(* Stop; a second call would panic and no code makes one.                  *)
Stop ==
  /\ ~stopHealth /\ stopHealth' = TRUE
  /\ UNCHANGED <<health, check, selVars, flipped, history, always, ever>>

-----------------------------------------------------------------------------
(* tryStrategies: the first rule of the template and tenant strategies     *)
(* that matches the request and names a registered backend.                *)
RuleMatches(name, rule, req) ==
  /\ rule.backend \in Registered
  /\ \/ /\ name \in {"template-routing", "template-based"}
        /\ req.template # "" /\ rule.template = req.template
     \/ /\ name = "tenant-static"
        /\ req.tenant # "" /\ rule.tenant = req.tenant

Matching(req) ==
  FlattenSeq([s \in DOMAIN Strategies |->
    SelectSeq(Strategies[s].rules, LAMBDA rule : RuleMatches(Strategies[s].name, rule, req))])

(* The backends of the rules of the strategies named "weighted".           *)
WeightedRules ==
  FlattenSeq([s \in DOMAIN Strategies |->
    IF Strategies[s].name = "weighted" THEN Strategies[s].rules ELSE <<>>])

(* Where a selection goes on: a scan of the failover chain, the default    *)
(* backend, or a scan of all adapters.                                     *)
ScanList == IF (Strategy = "priority" \/ FailoverEnabled) /\ Chain # <<>>
            THEN {Chain} ELSE SetToSeqs(Registered)

Done(b) == [Idle EXCEPT !.pc = "done", !.result = b]
Failover == {[Idle EXCEPT !.pc = "scan", !.list = q] : q \in ScanList}
AfterWeighted ==
  IF Strategy # "priority" /\ ~FailoverEnabled /\ DefaultBackend \in Registered
  THEN {Done(DefaultBackend)} ELSE Failover

Begun(req) ==
  LET m == Matching(req)
  IN  IF m # <<>> THEN {[Idle EXCEPT !.pc = "matched", !.list = <<m[1].backend>>]}
      ELSE IF Strategy = "weighted" THEN {[Idle EXCEPT !.pc = "weighted"]}
      ELSE AfterWeighted

SelectBackend(c, req) ==
  /\ c \in cfg.clients /\ sel[c].pc = "idle"
  /\ \E s \in Begun(req) : sel' = [sel EXCEPT ![c] = s]
  /\ always' = [always EXCEPT ![c] = IF FailoverEnabled THEN Healthy ELSE {}]
  /\ ever' = [ever EXCEPT ![c] = IF FailoverEnabled THEN Healthy ELSE {}]
  /\ UNCHANGED <<health, check, stopHealth, rrCounter, taken, flipped, history>>

isHealthyMut(b) == TRUE
isHealthy(b) == b \in Registered => health[b].healthy

(* SelectBackend's test of the backend a rule named.                       *)
CheckMatched(c) ==
  /\ sel[c].pc = "matched"
  /\ LET b == sel[c].list[1]
     IN  \E s \in IF isHealthy(b) \/ ~FailoverEnabled THEN {Done(b)}
                  ELSE Failover :
           sel' = [sel EXCEPT ![c] = s]
  /\ UNCHANGED <<health, check, stopHealth, rrCounter, taken, flipped, history, always, ever>>

(* tryWeightedRoundRobin: collect the healthy backends one by one ...      *)
WeightedCollect(c) ==
  /\ sel[c].pc = "weighted" /\ sel[c].i <= Len(WeightedRules)
  /\ LET b == WeightedRules[sel[c].i].backend
     IN  sel' = [sel EXCEPT ![c].i = @ + 1,
                            ![c].acc = IF b \in Registered /\ isHealthy(b)
                                       THEN Append(@, b) ELSE @]
  /\ UNCHANGED <<health, check, stopHealth, rrCounter, taken, flipped, history, always, ever>>

Take(b) == taken' = IF flipped THEN taken ELSE [taken EXCEPT ![b] = @ + 1]

(* ... then take the next one (every weight is 1), or go on when none is.  *)
WeightedPickMut(c) ==
  /\ sel[c].pc = "weighted" /\ sel[c].i > Len(WeightedRules) /\ sel[c].acc # <<>>
  /\ LET b == sel[c].acc[1]
     IN  sel' = [sel EXCEPT ![c] = Done(b)] /\ Take(b)
  /\ rrCounter' = rrCounter + 1
  /\ UNCHANGED <<health, check, stopHealth, flipped, history, always, ever>>

WeightedPick(c) ==
  /\ sel[c].pc = "weighted" /\ sel[c].i > Len(WeightedRules)
  /\ \/ /\ sel[c].acc # <<>>
        /\ rrCounter' = rrCounter + 1
        /\ LET b == sel[c].acc[(rrCounter' % Len(sel[c].acc)) + 1]
           IN  sel' = [sel EXCEPT ![c] = Done(b)] /\ Take(b)
     \/ /\ sel[c].acc = <<>>
        /\ \E s \in AfterWeighted : sel' = [sel EXCEPT ![c] = s]
        /\ UNCHANGED <<rrCounter, taken>>
  /\ UNCHANGED <<health, check, stopHealth, flipped, history, always, ever>>

(* tryFailover, and SelectBackend's own scan: the first registered and     *)
(* healthy backend, else the first of the list, else an error.             *)
Scan(c) ==
  /\ sel[c].pc = "scan"
  /\ LET s == sel[c]
         next == IF s.i > Len(s.list)
                 THEN Done(IF s.list = <<>> THEN NoBackend ELSE s.list[1])
                 ELSE IF s.list[s.i] \in Registered /\ isHealthy(s.list[s.i])
                 THEN Done(s.list[s.i])
                 ELSE [s EXCEPT !.i = @ + 1]
     IN  sel' = [sel EXCEPT ![c] = next]
  /\ UNCHANGED <<health, check, stopHealth, rrCounter, taken, flipped, history, always, ever>>

-----------------------------------------------------------------------------
CheckLoop ==
  (CheckBegin \/ (\E b \in Registered : Probe(b)) \/ ApplyCheck) /\ UNCHANGED cfg
Select(c) ==
  (CheckMatched(c) \/ WeightedCollect(c) \/ WeightedPick(c) \/ Scan(c)) /\ UNCHANGED cfg

Next ==
  /\ \/ CheckLoop
     \/ Stop
     \/ \E c \in Clients : Select(c) \/ \E req \in Requests : SelectBackend(c, req)
  /\ UNCHANGED cfg

Spec == Init /\ [][Next]_vars

-----------------------------------------------------------------------------
(* Types of the health counters, the check loop and the round-robin        *)
(* counter.                                                                *)
TypeOK ==
  /\ \A b \in Registered :
       /\ health[b].fails \in 0..UnhealthyThreshold
       /\ health[b].oks \in 0..HealthyThreshold
  /\ check.left \subseteq Registered
  /\ rrCounter \in 0..Cardinality(Clients)

(* Health changes only on a full run of equal probe results: a backend     *)
(* that is down was last decided by unhealthyThreshold failures in a row,  *)
(* and no healthyThreshold successes in a row have followed.               *)
EndsWith(q, ok, n) ==
  Len(q) >= n /\ \A i \in (Len(q) - n + 1)..Len(q) : q[i] = ok
HealthFollowsRuns ==
  [][\A b \in Registered :
       /\ health[b].healthy /\ ~health'[b].healthy
            => EndsWith(history'[b], FALSE, UnhealthyThreshold)
       /\ ~health[b].healthy /\ health'[b].healthy
            => EndsWith(history'[b], TRUE, HealthyThreshold)]_vars

(* With failover on, a selection never settles for a backend that was      *)
(* unhealthy all through it when some backend it could fail over to was    *)
(* healthy all through it, whatever the health loop does meanwhile.        *)
FailoverFindsHealthy ==
  \A c \in Clients :
    LET targets == Registered \intersect (IF Chain = <<>> THEN Registered ELSE ToSet(Chain))
    IN  sel[c].pc = "done" /\ FailoverEnabled /\ targets \intersect always[c] # {}
          => sel[c].result \in ever[c]

(* While no backend's health changes, concurrent weighted selections share *)
(* the registered backends of the rules out evenly: none gets two ahead.   *)
RoundRobinEven ==
  \A a, b \in Registered \intersect {WeightedRules[i].backend : i \in DOMAIN WeightedRules} :
    ~flipped => taken[a] <= taken[b] + 1

=============================================================================
