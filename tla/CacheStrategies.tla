-------------------------- MODULE CacheStrategies --------------------------
(***************************************************************************)
(* cache-service: one key under cache-aside (behind singleflight, as main  *)
(* builds it) or under write-through, used by concurrent clients.  Every   *)
(* call of the cache or of the store is a step.  Keys do not interact but  *)
(* for eviction, so the entry may vanish at any time.                      *)
(*                                                                         *)
(* A definition named X_Y is X with the fault Y, to test the properties.   *)
(***************************************************************************)
CONSTANTS Client, Content, Nothing

ASSUME StrategiesAssumption == Nothing \notin Content

VARIABLES
  strategy,   \* "aside" or "through"
  stored,     \* the store's value
  cached,     \* the cache's value
  task,       \* what each client does: [op, at, value]
  behind,     \* ghost: calls under way when another call last changed the store
  refilled,   \* ghost: calls under way when another placed the cache's entry
  raced       \* ghost: of the call that last changed the store and the one that
              \* placed the cache's entry, one did so while the other was under way
strategyVars == <<strategy, stored, cached, task, behind, refilled, raced>>

Rest == [op |-> "none", at |-> "rest", value |-> Nothing]

StrategiesInit ==
  /\ strategy \in {"aside", "through"}
  /\ stored = Nothing /\ cached = Nothing
  /\ task = [c \in Client |-> Rest]
  /\ behind = {} /\ refilled = {} /\ raced = FALSE

UnderWay == {c \in Client : task[c] # Rest}

Begin(c, op, at, v) ==
  /\ task[c] = Rest
  /\ task' = [task EXCEPT ![c] = [op |-> op, at |-> at, value |-> v]]
  /\ behind' = behind \ {c} /\ refilled' = refilled \ {c}
  /\ UNCHANGED <<strategy, stored, cached, raced>>

End(c) == task' = [task EXCEPT ![c] = Rest]
GoTo(c, there) == task' = [task EXCEPT ![c].at = there]

\* Call c changes the store, or places the cache's entry.
ChangeStore(c, v) ==
  /\ stored' = v
  /\ behind' = UnderWay \ {c} /\ raced' = (c \in refilled)
  /\ UNCHANGED <<strategy, cached, refilled>>
PlaceInCache(c, v) ==
  /\ cached' = v
  /\ refilled' = UnderWay \ {c} /\ raced' = (c \in behind)
  /\ UNCHANGED <<strategy, stored, behind>>

\* SingleflightCache.Get and WriteThrough.Get; a write-through miss is not
\* looked up in the store and ends in one step, so it is not an action.
BeginGet(c) ==
  /\ strategy = "aside"
  /\ Begin(c, "get", IF \E d \in Client : task[d].op = "get" THEN "join" ELSE "look", Nothing)

BeginSet(c, v) == Begin(c, "set", "store", v)
BeginDelete(c) == Begin(c, "delete", "uncache", Nothing)

\* The clients that joined the flight get its answer.
Land(c) ==
  task' = [d \in Client |-> IF d = c \/ task[d].at = "join" THEN Rest ELSE task[d]]

\* CacheAside.Get: the cache, the store, the cache.
LookUp(c) ==
  /\ task[c].at = "look"
  /\ IF cached # Nothing THEN Land(c) ELSE GoTo(c, "fetch")
  /\ UNCHANGED <<strategy, stored, cached, behind, refilled, raced>>

FetchStored(c) ==
  /\ task[c].at = "fetch"
  /\ IF stored = Nothing THEN Land(c)
     ELSE task' = [task EXCEPT ![c].at = "fill", ![c].value = stored]
  /\ UNCHANGED <<strategy, stored, cached, behind, refilled, raced>>

Fill(c) == task[c].at = "fill" /\ PlaceInCache(c, task[c].value) /\ Land(c)

\* Set: the store, and under write-through then the cache.  The store of main
\* is in memory and does not fail.
StoreValue(c) ==
  /\ task[c].at = "store"
  /\ ChangeStore(c, task[c].value)
  /\ IF strategy = "through" THEN GoTo(c, "cache") ELSE End(c)

CacheValueOf(c) == task[c].at = "cache" /\ PlaceInCache(c, task[c].value) /\ End(c)

Uncache_Skipped(c) ==
  /\ task[c].at = "uncache"
  /\ GoTo(c, "unstore")
  /\ UNCHANGED <<strategy, stored, cached, behind, refilled, raced>>

\* Delete: the cache, then the store.
Uncache(c) ==
  /\ task[c].at = "uncache"
  /\ cached' = Nothing /\ refilled' = {}
  /\ GoTo(c, "unstore")
  /\ UNCHANGED <<strategy, stored, behind, raced>>

Unstore(c) == task[c].at = "unstore" /\ ChangeStore(c, Nothing) /\ End(c)

Vanish ==
  /\ cached # Nothing /\ cached' = Nothing /\ refilled' = {}
  /\ UNCHANGED <<strategy, stored, task, behind, raced>>

StrategiesNext ==
  \/ \E c \in Client : \/ BeginGet(c) \/ LookUp(c) \/ FetchStored(c) \/ Fill(c)
                       \/ \E v \in Content : BeginSet(c, v)
                       \/ StoreValue(c) \/ CacheValueOf(c)
                       \/ BeginDelete(c) \/ Uncache(c) \/ Unstore(c)
  \/ Vanish
StrategiesSpec == StrategiesInit /\ [][StrategiesNext]_strategyVars

-----------------------------------------------------------------------------
\* A disagreement of cache and store is the doing of two calls, the one that
\* placed the cache's entry and the one that last changed the store: one of them
\* did so while the other was under way (a reader fills the cache with what it
\* read before a delete, or two writers update the two in different orders).
\* Whatever raced before, the next call that places or changes alone ends it.
\* But for a set that has not reached the cache yet, and, under cache-aside, for
\* the old value that a set leaves there (aside.go 25-43, writethrough.go 23-41).
AgreeUnlessRaced ==
  \/ cached \in {Nothing, stored}
  \/ strategy = "aside" /\ stored # Nothing
  \/ raced
  \/ \E c \in Client \ behind : task[c].at = "cache"

\* What README.md 55 and docs/deep-dive.md 43-44 promise of write-through: cache and
\* store are written atomically, so that no read is stale.
WriteThroughNeverStale ==
  strategy = "through" /\ UnderWay = {} => cached \in {Nothing, stored}
=============================================================================
