-------------------------------- MODULE Lru --------------------------------
(***************************************************************************)
(* cache-service/internal/cache/lru.go: a list, most recently used first,  *)
(* and a map to its elements, under one mutex; an expired entry stays in   *)
(* both until it is read or the reaper runs.                               *)
(*                                                                         *)
(* A definition named X_Y is X with the fault Y, to test the properties.   *)
(***************************************************************************)
EXTENDS Naturals, SequencesExt

CONSTANTS CacheKey, CacheValue, Capacity, Missing

ASSUME LruAssumption == Capacity \in Nat \ {0} /\ Missing \notin CacheValue

VARIABLES
  order,      \* the list: entries [key, value, expired]
  items,      \* the keys of the map
  lastUsed,   \* history: every key ever used, most recently used first
  lastSet     \* history: the value last set, Missing once deleted or expired
lruVars == <<order, items, lastUsed, lastSet>>

LruInit == /\ order = <<>> /\ items = {} /\ lastUsed = <<>>
           /\ lastSet = [k \in CacheKey |-> Missing]

Position(k) == CHOOSE i \in DOMAIN order : order[i].key = k
Place(k) == CHOOSE p \in DOMAIN lastUsed : lastUsed[p] = k
Use(k) ==
  lastUsed' = <<k>> \o IF k \in ToSet(lastUsed) THEN RemoveAt(lastUsed, Place(k)) ELSE lastUsed

LruSet(k, v) ==
  /\ LET fresh == [key |-> k, value |-> v, expired |-> FALSE]
         full == Len(order) >= Capacity
     IN IF k \in items
        THEN order' = <<fresh>> \o RemoveAt(order, Position(k)) /\ UNCHANGED items
        ELSE /\ order' = <<fresh>> \o IF full THEN Front(order) ELSE order
             /\ items' = (IF full THEN items \ {Last(order).key} ELSE items) \cup {k}
  /\ Use(k)
  /\ lastSet' = [lastSet EXCEPT ![k] = v]

Drop(k) == /\ order' = RemoveAt(order, Position(k))
           /\ items' = items \ {k}

LruGet_NotMoved(k) ==
  /\ k \in items
  /\ IF order[Position(k)].expired
     THEN Drop(k) /\ UNCHANGED <<lastUsed, lastSet>>
     ELSE Use(k) /\ UNCHANGED <<order, items, lastSet>>

\* A miss changes nothing.
LruGet(k) ==
  /\ k \in items
  /\ IF order[Position(k)].expired
     THEN Drop(k) /\ UNCHANGED <<lastUsed, lastSet>>
     ELSE /\ order' = <<order[Position(k)]>> \o RemoveAt(order, Position(k))
          /\ Use(k)
          /\ UNCHANGED <<items, lastSet>>

LruDelete(k) ==
  /\ k \in items
  /\ Drop(k)
  /\ lastSet' = [lastSet EXCEPT ![k] = Missing]
  /\ UNCHANGED lastUsed

\* The TTL of an entry passes.
Expire(k) ==
  /\ k \in items /\ ~order[Position(k)].expired
  /\ order' = [order EXCEPT ![Position(k)].expired = TRUE]
  /\ lastSet' = [lastSet EXCEPT ![k] = Missing]
  /\ UNCHANGED <<items, lastUsed>>

Alive(entry) == ~entry.expired

\* What is alive stays, in the same order.
Reap ==
  /\ LET kept == {i \in DOMAIN order : Alive(order[i])}
     IN /\ \E f \in [1..Cardinality(kept) -> kept] :
             /\ \A i, j \in DOMAIN f : i < j => f[i] < f[j]
             /\ order' = [i \in DOMAIN f |-> order[f[i]]]
        /\ items' = {order[i].key : i \in kept}
  /\ UNCHANGED <<lastUsed, lastSet>>

LruNext ==
  \/ \E k \in CacheKey : \/ \E v \in CacheValue : LruSet(k, v)
                         \/ LruGet(k)
                         \/ LruDelete(k)
                         \/ Expire(k)
  \/ Reap

LruSpec == LruInit /\ [][LruNext]_lruVars

-----------------------------------------------------------------------------
Answer(k) ==
  IF k \notin items \/ order[Position(k)].expired THEN Missing ELSE order[Position(k)].value

\* Of the Capacity keys used last, each that was not deleted and has not
\* expired is answered with its last value; the cache is never over capacity,
\* and list and map never differ, through eviction, expiry on read and the
\* reaper (lru.go 40-139).
KeepsRecent ==
  /\ \A i \in 1..Min({Capacity, Len(lastUsed)}) : Answer(lastUsed[i]) = lastSet[lastUsed[i]]
  /\ Len(order) <= Capacity
  /\ items = {order[i].key : i \in DOMAIN order} /\ \A i, j \in DOMAIN order :
       order[i].key = order[j].key => i = j
=============================================================================
