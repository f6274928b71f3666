-------------------------- MODULE CloudClientProofs --------------------------
(***************************************************************************)
(* Proofs about module CloudClient, for any number of calls and retries:   *)
(* however requests and responses are lost, repeated or late, what a kill  *)
(* or a creation was answered stays true.                                  *)
(***************************************************************************)
EXTENDS CloudClient, TLAPS

\* Calls that are over have a reply, and a creation that got through is named
\* by its last attempt.
Settled ==
  \A c \in Calls :
    /\ reply[c] # "none" <=> pc[c] = "done"
    /\ pc[c] = "get" => kind[c] = "create" /\ target[c] \in created
    /\ kind[c] = "create" /\ (pc[c] = "get" \/ reply[c] = "ok") => target[c] = <<c, attempt[c]>>

\* A creation that was answered with sandbox s.
Answered(s) == \E c \in Calls : kind[c] = "create" /\ reply[c] = "ok" /\ s = <<c, attempt[c]>>

\* Only answered sandboxes are mapped, or killed.
OnlyAnswered ==
  /\ \A s \in mapping : Answered(s)
  /\ \A c \in Calls : kind[c] = "kill" => Answered(target[c])

\* A creation still under way is of an attempt its client has given up.
GivenUp ==
  \A q \in late : q.kind = "create" =>
    \E d \in Calls, a \in 0..MaxRetries :
      q.id = <<d, a>> /\ (a < attempt[d] \/ reply[d] = "error")

IInv == TypeOK /\ Settled /\ OnlyAnswered /\ GivenUp /\ KillHonest /\ AnsweredMapped

\* What a step leaves alone: the calls that are over, and attempts only grow.
Forward ==
  \A d \in Calls :
    /\ attempt'[d] >= attempt[d]
    /\ pc[d] = "done" => /\ pc'[d] = pc[d] /\ kind'[d] = kind[d] /\ reply'[d] = reply[d]
                         /\ attempt'[d] = attempt[d] /\ target'[d] = target[d]

USE DEF service

\* Answered sandboxes stay answered, and no creation under way can add one.
LEMMA AnsweredStays ==
  ASSUME MaxRetries \in Nat, IInv, Forward
  PROVE  /\ \A s : Answered(s) => Answered(s)'
         /\ \A q \in late : q.kind = "create" => ~Answered(q.id)
         /\ \A c \in Calls : pc[c] = "wire" /\ kind[c] = "create" => ~Answered(Request(c).id)
<1>1. \A s : Answered(s) => Answered(s)'
  BY DEF Answered, Forward, IInv, Settled, TypeOK
<1>2. \A q \in late : q.kind = "create" => ~Answered(q.id)
  BY DEF Answered, IInv, GivenUp, TypeOK
<1>3. \A c \in Calls : pc[c] = "wire" /\ kind[c] = "create" => ~Answered(Request(c).id)
  BY DEF Answered, Request, IInv, Settled
<1> QED BY <1>1, <1>2, <1>3

\* A creation under way stays one that was given up.
LEMMA GivenUpStays ==
  ASSUME MaxRetries \in Nat, IInv, TypeOK', Settled', Forward,
         NEW q \in late, q.kind = "create"
  PROVE  \E d \in Calls, a \in 0..MaxRetries :
           q.id = <<d, a>> /\ (a < attempt'[d] \/ reply'[d] = "error")
<1>1. PICK d \in Calls, a \in 0..MaxRetries :
        q.id = <<d, a>> /\ (a < attempt[d] \/ reply[d] = "error")
  BY DEF IInv, GivenUp
<1>2. attempt'[d] \in Nat /\ attempt[d] \in Nat /\ a \in Nat /\ attempt'[d] >= attempt[d]
  BY DEF IInv, TypeOK, Forward
<1>3. reply[d] = "error" => reply'[d] = "error"
  BY DEF IInv, Settled, Forward
<1> QED BY <1>1, <1>2, <1>3

\* The request of an attempt names a sandbox the service may create, or one
\* it has created.
LEMMA RequestTyped ==
  ASSUME IInv, NEW c \in Calls
  PROVE  /\ Request(c) \in Messages
         /\ Request(c).call = c /\ Request(c).kind = kind[c]
         /\ Request(c).id = IF kind[c] = "create" THEN <<c, attempt[c]>> ELSE target[c]
<1>1. kind[c] = "kill" => target[c] \in Ids
  BY DEF IInv, OnlyAnswered, Answered, TypeOK, Ids
<1>2. kind[c] \in {"create", "kill"} /\ <<c, attempt[c]>> \in Ids
  BY DEF IInv, TypeOK, Ids
<1> QED BY <1>1, <1>2 DEF Request, Messages

\* What serving a request leaves of the service's types.
LEMMA ServeTyped ==
  ASSUME TypeOK, NEW q \in Messages, Serve(q)
  PROVE  created' \subseteq Ids /\ cloud' \subseteq created' /\ created \subseteq created'
BY DEF TypeOK, Messages, Serve

\* Types, replies and calls that are over, step by step.
LEMMA SettledStep ==
  ASSUME MaxRetries \in Nat, IInv, [Next]_vars
  PROVE  TypeOK' /\ Settled' /\ Forward
<1> DEFINE G == TypeOK' /\ Settled' /\ Forward
<1>0. TypeOK /\ Settled /\ mapping \subseteq Ids
  BY DEF IInv, TypeOK
<1> USE <1>0 DEF TypeOK, Settled, Forward
<1>1. ASSUME NEW c \in Calls, Create(c) \/ Kill(c) \/ Cancel(c) \/ Attempt(c) PROVE G
  BY <1>1 DEF Create, Kill, Cancel, Attempt, Return
<1>2. ASSUME Late PROVE G
  <2>1. PICK q \in late : Serve(q) /\ late' = late \ {q}
    BY <1>2 DEF Late
  <2>2. q \in Messages OBVIOUS
  <2>3. created' \subseteq Ids /\ cloud' \subseteq created' /\ created \subseteq created'
    BY <2>1, <2>2, ServeTyped
  <2> QED BY <1>2, <2>1, <2>3 DEF Late
<1>3. ASSUME NEW c \in Calls, NetworkError(c) \/ RetryableStatus(c) PROVE G
  <2>1. Request(c) \in Messages
    BY RequestTyped
  <2>2. /\ created' \subseteq Ids /\ cloud' \subseteq created' /\ created \subseteq created'
        /\ late' \subseteq Messages
    BY <1>3, <2>1, ServeTyped DEF NetworkError, RetryableStatus
  <2>3. pc[c] = "wire" /\ UNCHANGED <<mapping, kind, target, ctx>> /\ Retry(c)
    BY <1>3 DEF NetworkError, RetryableStatus
  <2> QED BY <2>2, <2>3 DEF Retry, Return
<1>4. ASSUME NEW c \in Calls, Refused(c) \/ GetInfo(c) PROVE G
  BY <1>4 DEF Refused, GetInfo, Return
<1>5. ASSUME NEW c \in Calls, Succeed(c) PROVE G
  <2>1. Request(c) \in Messages /\ Request(c).kind = kind[c]
        /\ (kind[c] = "create" => Request(c).id = <<c, attempt[c]>>)
    BY RequestTyped
  <2>2. created' \subseteq Ids /\ cloud' \subseteq created' /\ created \subseteq created'
    BY <1>5, <2>1, ServeTyped DEF Succeed
  <2>3. kind[c] = "create" => <<c, attempt[c]>> \in created' /\ <<c, attempt[c]>> \in Ids
    BY <1>5, <2>1, <2>2 DEF Succeed, Serve
  <2>4. CASE kind[c] = "create"
    BY <1>5, <2>2, <2>3, <2>4 DEF Succeed
  <2>5. CASE kind[c] = "kill"
    BY <1>5, <2>2, <2>5 DEF Succeed, Return
  <2> QED BY <2>4, <2>5
<1>6. CASE Ended \/ UNCHANGED vars
  BY <1>6 DEF Ended, vars
<1> HIDE DEF G
<1> QED BY <1>1, <1>2, <1>3, <1>4, <1>5, <1>6 DEF Next, Step, G

\* What each step does to the service, the mapping and the calls: it brings up
\* no answered sandbox, maps only one it answers, unmaps only one that does not
\* run, kills only mapped ones, and leaves under way what was given up.
Careful ==
  /\ \A s \in cloud' : s \in cloud \/ ~Answered(s)
  /\ \A s \in mapping' : s \in mapping \/ (~Answered(s) /\ Answered(s)')
  /\ \A s \in mapping : s \in mapping' \/ s \notin cloud'
  /\ \A c \in Calls : reply'[c] = "ok" /\ reply[c] # "ok" =>
       IF kind'[c] = "kill" THEN target'[c] \notin cloud' \cup mapping' ELSE target'[c] \in mapping'
  /\ \A c \in Calls : kind'[c] = "kill" =>
       (kind[c] = "kill" /\ target'[c] = target[c]) \/ target'[c] \in mapping
  /\ \A q \in late' : q \in late \/ q.kind = "kill" \/
       \E d \in Calls, a \in 0..MaxRetries :
         q.id = <<d, a>> /\ (a < attempt'[d] \/ reply'[d] = "error")

\* Such a step keeps the invariant.
LEMMA CarefulIInv ==
  ASSUME MaxRetries \in Nat, IInv, TypeOK', Settled', Forward, Careful
  PROVE  IInv'
<1>1. \A s : Answered(s) => Answered(s)'
  BY AnsweredStays
<1>2. OnlyAnswered'
  <2>1. \A s \in mapping' : Answered(s)'
    BY <1>1 DEF IInv, OnlyAnswered, Careful
  <2>2. ASSUME NEW c \in Calls, kind'[c] = "kill" PROVE (Answered(target[c]))'
    <3>1. Answered(target'[c])
      BY <2>2 DEF IInv, OnlyAnswered, Careful
    <3>2. PICK d \in Calls : kind[d] = "create" /\ reply[d] = "ok" /\ target'[c] = <<d, attempt[d]>>
      BY <3>1 DEF Answered
    <3>3. kind'[d] = "create" /\ reply'[d] = "ok" /\ target'[c] = <<d, attempt'[d]>>
      BY <3>2 DEF IInv, Settled, Forward
    <3> QED BY <3>3 DEF Answered
  <2> QED BY <2>1, <2>2 DEF OnlyAnswered
<1>3. GivenUp'
  BY GivenUpStays DEF Careful, GivenUp
<1>4. KillHonest'
  <2> SUFFICES ASSUME NEW c \in Calls, kind'[c] = "kill", reply'[c] = "ok"
               PROVE  target'[c] \notin cloud' \cup mapping'
    BY DEF KillHonest
  <2>1. CASE reply[c] # "ok"
    BY <2>1 DEF Careful
  <2>2. CASE reply[c] = "ok"
    <3>1. kind[c] = "kill" /\ target'[c] = target[c]
      BY <2>2 DEF IInv, Settled, Forward
    <3>2. Answered(target[c]) /\ target[c] \notin cloud \cup mapping
      BY <2>2, <3>1 DEF IInv, OnlyAnswered, KillHonest
    <3> QED BY <3>1, <3>2 DEF Careful
  <2> QED BY <2>1, <2>2
<1>5. AnsweredMapped'
  <2> SUFFICES ASSUME NEW c \in Calls, kind'[c] = "create", reply'[c] = "ok", target'[c] \in cloud'
               PROVE  target'[c] \in mapping'
    BY DEF AnsweredMapped
  <2>1. CASE reply[c] # "ok"
    BY <2>1 DEF Careful
  <2>2. CASE reply[c] = "ok"
    <3>1. kind[c] = "create" /\ target'[c] = target[c] /\ target[c] = <<c, attempt[c]>>
      BY <2>2 DEF IInv, Settled, Forward
    <3>2. Answered(target[c])
      BY <2>2, <3>1 DEF Answered
    <3>3. target[c] \in cloud
      BY <3>1, <3>2 DEF Careful
    <3>4. target[c] \in mapping
      BY <2>2, <3>1, <3>3 DEF IInv, AnsweredMapped
    <3> QED BY <3>1, <3>4 DEF Careful
  <2> QED BY <2>1, <2>2
<1> QED BY <1>2, <1>3, <1>4, <1>5 DEF IInv

\* Every step is such a step.
LEMMA CarefulStep ==
  ASSUME MaxRetries \in Nat, IInv, [Next]_vars, TypeOK', Settled', Forward
  PROVE  Careful
<1>0. TypeOK /\ Settled
  BY DEF IInv
<1> USE <1>0 DEF TypeOK, Settled
<1>1. ASSUME NEW c \in Calls, Create(c) \/ Kill(c) \/ Cancel(c) \/ Attempt(c) \/ Refused(c)
      PROVE  Careful
  BY <1>1 DEF Create, Kill, Cancel, Attempt, Refused, Return, Careful
<1>2. ASSUME Late PROVE Careful
  <2>1. PICK q \in late : Serve(q) /\ late' = late \ {q}
    BY <1>2 DEF Late
  <2>2. q.kind = "create" => ~Answered(q.id)
    BY AnsweredStays
  <2>3. \A s \in cloud' : s \in cloud \/ ~Answered(s)
    BY <2>1, <2>2 DEF Serve
  <2> QED BY <1>2, <2>1, <2>3 DEF Late, Careful
<1>3. ASSUME NEW c \in Calls, NetworkError(c) \/ RetryableStatus(c) PROVE Careful
  <2> DEFINE r == Request(c)
  <2>1. /\ r.kind = kind[c] /\ kind[c] \in {"create", "kill"}
        /\ (kind[c] = "create" => r.id = <<c, attempt[c]>>)
    BY RequestTyped
  <2>2. pc[c] = "wire" /\ UNCHANGED <<mapping, kind, target, ctx>> /\ Retry(c)
    BY <1>3 DEF NetworkError, RetryableStatus
  <2>3. kind[c] = "create" => ~Answered(r.id)
    BY <2>2, AnsweredStays
  <2>4. (UNCHANGED cloud \/ Serve(r)) /\ \A q \in late' : q \in late \/ q = r
    BY <1>3 DEF NetworkError, RetryableStatus
  <2> HIDE DEF r
  <2>5. \A s \in cloud' : s \in cloud \/ ~Answered(s)
    BY <2>1, <2>3, <2>4 DEF Serve
  <2>6. attempt[c] \in 0..MaxRetries /\ (attempt[c] < attempt'[c] \/ reply'[c] = "error")
    BY <2>2 DEF Retry, Return
  <2>7. \A d \in Calls : reply'[d] = "ok" => reply[d] = "ok"
    BY <2>2 DEF Retry, Return
  <2>8. \A q \in late' : q \in late \/ q.kind = "kill" \/
          \E d \in Calls, a \in 0..MaxRetries :
            q.id = <<d, a>> /\ (a < attempt'[d] \/ reply'[d] = "error")
    BY <2>1, <2>4, <2>6
  <2> QED BY <2>2, <2>5, <2>7, <2>8 DEF Careful
<1>4. ASSUME NEW c \in Calls, GetInfo(c) PROVE Careful
  <2>1. target[c] = <<c, attempt[c]>> /\ kind[c] = "create" /\ reply[c] = "none"
    BY <1>4 DEF GetInfo
  <2>2. ~Answered(target[c]) /\ Answered(target[c])'
    BY <1>4, <2>1 DEF Answered, GetInfo, Return
  <2> QED BY <1>4, <2>1, <2>2 DEF GetInfo, Return, Careful
<1>5. ASSUME NEW c \in Calls, Succeed(c) PROVE Careful
  <2>1. /\ Request(c).kind = kind[c] /\ kind[c] \in {"create", "kill"}
        /\ Request(c).id = IF kind[c] = "create" THEN <<c, attempt[c]>> ELSE target[c]
    BY RequestTyped
  <2>2. CASE kind[c] = "create"
    <3>1. ~Answered(Request(c).id)
      BY <1>5, <2>2, AnsweredStays DEF Succeed
    <3> QED BY <1>5, <2>1, <2>2, <3>1 DEF Succeed, Serve, Careful
  <2>3. CASE kind[c] = "kill"
    BY <1>5, <2>1, <2>3 DEF Succeed, Serve, Return, Careful
  <2> QED BY <2>1, <2>2, <2>3
<1>6. CASE Ended \/ UNCHANGED vars
  BY <1>6 DEF Ended, vars, Careful
<1> QED BY <1>1, <1>2, <1>3, <1>4, <1>5, <1>6 DEF Next, Step

\* The inductive invariant holds of the client, whatever the network does.
THEOREM Inductive == ASSUME MaxRetries \in Nat PROVE Spec => []IInv
<1>1. Init => IInv
  BY DEF Init, IInv, TypeOK, Settled, OnlyAnswered, GivenUp, KillHonest, AnsweredMapped
<1>2. IInv /\ [Next]_vars => IInv'
  BY SettledStep, CarefulStep, CarefulIInv
<1> QED BY <1>1, <1>2, PTL DEF Spec

\* For any number of calls and retries: a kill answered with success is done,
\* and neither a repeated nor a late request brings the sandbox back.
THEOREM KillsStay == ASSUME MaxRetries \in Nat PROVE Spec => []KillHonest
BY Inductive, PTL DEF IInv

\* For any number of calls and retries: a sandbox whose creation was answered
\* stays mapped for as long as the service runs it.
THEOREM CreationsStayMapped == ASSUME MaxRetries \in Nat PROVE Spec => []AnsweredMapped
BY Inductive, PTL DEF IInv

=============================================================================
