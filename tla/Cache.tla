-------------------------------- MODULE Cache --------------------------------
(***************************************************************************)
(* The in-memory TTL/LRU cache of internal/cache/cache.go, which holds the *)
(* adapters' access tokens and endpoint headers.  Every operation runs     *)
(* under one lock and reads the clock inside it, so each is one action.    *)
(*                                                                         *)
(* A list element is represented by its key: the list is the sequence of   *)
(* keys `order`, most recently used first, and `entry` holds the value and *)
(* the expiry of each element.                                             *)
(***************************************************************************)
EXTENDS Integers, FiniteSets, SequencesExt

CONSTANTS
  Keys,
  Values,
  MaxSize,  \* the maxSize New was given
  TTLs,     \* the TTLs callers pass; SetWithTTL takes any, the default included
  MaxTime   \* bound on the clock

VARIABLES
  order,   \* c.order
  items,   \* the keys of c.items
  entry,   \* the contents of the elements in c.items
  now,     \* the clock
  reply,   \* what the last operation returned, when it was a Get that hit
  latest,  \* history: the last entry stored for each key and not deleted
  since    \* history: the keys stored or hit since each key last was

vars == <<order, items, entry, now, reply, latest, since>>

NoReply == [key |-> "none", value |-> "none"]
NoEntry == [expiresAt |-> 0 - 1]
Expired(e) == now > e.expiresAt

Init ==
  /\ order = <<>>
  /\ items = {}
  /\ entry = [k \in Keys |-> NoEntry]
  /\ now = 0
  /\ reply = NoReply
  /\ latest = [k \in Keys |-> NoEntry]
  /\ since = [k \in Keys |-> {}]

-----------------------------------------------------------------------------
(* list.MoveToFront and list.PushFront, the list's Remove, and the loop    *)
(* that removes c.order.Back() while the list is longer than maxSize.      *)
Without(ks) == SelectSeq(order, LAMBDA k : k \notin ks)
ToFront(k) == <<k>> \o Without({k})
EvictMut(q) == SubSeq(q, IF Len(q) > MaxSize THEN 2 ELSE 1, Len(q))
Evict(q) == IF Len(q) > MaxSize THEN SubSeq(q, 1, MaxSize) ELSE q

removeLocked(ks) == order' = Without(ks) /\ items' = items \ ks

Use(k) == since' = [j \in Keys |-> IF j = k THEN {} ELSE since[j] \union {k}]

GetHit(k) ==
  /\ order' = ToFront(k)
  /\ reply' = [key |-> k, value |-> entry[k].value]
  /\ Use(k)
  /\ UNCHANGED <<items, entry>>

Get(k) ==
  /\ \/ /\ k \in items /\ ~Expired(entry[k])
        /\ GetHit(k)
     \/ /\ k \in items /\ Expired(entry[k])
        /\ removeLocked({k})
        /\ reply' = NoReply
        /\ UNCHANGED <<entry, since>>
     \/ /\ k \notin items
        /\ reply' = NoReply
        /\ UNCHANGED <<order, items, entry, since>>
  /\ UNCHANGED <<now, latest>>

(* Set is SetWithTTL with the default TTL.                                 *)
SetWithTTL(k, v, ttl) ==
  LET e == [value |-> v, expiresAt |-> now + ttl]
  IN  /\ entry' = [entry EXCEPT ![k] = e]
      /\ latest' = [latest EXCEPT ![k] = e]
      /\ \/ /\ k \in items
            /\ order' = ToFront(k)
            /\ UNCHANGED items
         \/ /\ k \notin items
            /\ order' = Evict(<<k>> \o order)
            /\ items' = (items \union {k}) \ (ToSet(<<k>> \o order) \ ToSet(order'))
      /\ reply' = NoReply
      /\ Use(k)
      /\ UNCHANGED now

Delete(k) ==
  /\ \/ k \in items /\ removeLocked({k})
     \/ k \notin items /\ UNCHANGED <<order, items>>
  /\ latest' = [latest EXCEPT ![k] = NoEntry]
  /\ reply' = NoReply
  /\ UNCHANGED <<entry, now, since>>

Cleanup ==
  /\ removeLocked({k \in ToSet(order) : Expired(entry[k])})
  /\ reply' = NoReply
  /\ UNCHANGED <<entry, now, latest, since>>

Tick == now < MaxTime /\ now' = now + 1 /\ reply' = NoReply
        /\ UNCHANGED <<order, items, entry, latest, since>>

Next ==
  \/ \E k \in Keys : Get(k) \/ Delete(k)
  \/ \E k \in Keys, v \in Values, ttl \in TTLs : SetWithTTL(k, v, ttl)
  \/ Cleanup
  \/ Tick

Spec == Init /\ [][Next]_vars

-----------------------------------------------------------------------------
(* Types of the map, the list and the clock; an element of the map holds   *)
(* an entry.                                                               *)
TypeOK ==
  /\ \A k \in items : entry[k] # NoEntry
  /\ order \in Seq(Keys)
  /\ items \subseteq Keys
  /\ now \in 0..MaxTime
  /\ since \in [Keys -> SUBSET Keys]

(* The map and the list always hold the same keys, each once, and never    *)
(* more than maxSize of them, whichever path removed or evicted an entry.  *)
IndexConsistent ==
  /\ items = ToSet(order)
  /\ Cardinality(items) = Len(order)
  /\ Len(order) <= MaxSize

(* What a bounded cache with a TTL promises its callers: a hit returns the *)
(* value stored last for the key, not deleted since and not expired; and a *)
(* live entry is cached unless maxSize other keys were stored or hit after *)
(* it, so that only the least recently used entries were evicted.          *)
CacheFaithful ==
  /\ IndexConsistent
  /\ reply # NoReply =>
       /\ latest[reply.key] # NoEntry /\ ~Expired(latest[reply.key])
       /\ reply.value = latest[reply.key].value
  /\ \A k \in Keys :
       latest[k] # NoEntry /\ ~Expired(latest[k]) /\ Cardinality(since[k]) < MaxSize
         => k \in items

=============================================================================
