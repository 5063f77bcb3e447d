-------------------------------- MODULE Crdt --------------------------------
(***************************************************************************)
(* from-scratch/14-crdt: a PN-counter, which is two grow-only counters,    *)
(* and a last-writer-wins register, replicated by merging one replica into *)
(* another, in any order and any number of times.                          *)
(*                                                                         *)
(* A definition named X_Y is X with the fault Y, to test the properties.   *)
(***************************************************************************)
EXTENDS Naturals, FiniteSets

CONSTANTS Replica, Payload,
          Empty,            \* the register's zero value
          MaxUpdates, MaxStamp   \* bounds

ASSUME CrdtAssumption == Empty \notin Payload /\ MaxUpdates \in Nat /\ MaxStamp \in Nat

VARIABLES
  pos, neg,    \* the counts of the two G-counters at each replica; an entry
               \* that the map does not hold counts 0
  register,    \* LWWRegister: [value, timestamp]
  seen,        \* history: the updates that reached a replica
  updates
crdtVars == <<pos, neg, register, seen, updates>>

CrdtInit ==
  /\ pos = [n \in Replica |-> [m \in Replica |-> 0]]
  /\ neg = [n \in Replica |-> [m \in Replica |-> 0]]
  /\ register = [n \in Replica |-> [value |-> Empty, timestamp |-> 0]]
  /\ seen = [n \in Replica |-> {}] /\ updates = 0

\* Each update of the history has a number of its own.
Seen(n, kind, what) ==
  /\ updates < MaxUpdates /\ updates' = updates + 1
  /\ seen' = [seen EXCEPT ![n] = @ \cup {[kind |-> kind, at |-> what, number |-> updates]}]

Increment(n) ==
  /\ pos' = [pos EXCEPT ![n][n] = @ + 1]
  /\ Seen(n, "inc", n) /\ UNCHANGED <<neg, register>>

Decrement(n) ==
  /\ neg' = [neg EXCEPT ![n][n] = @ + 1]
  /\ Seen(n, "dec", n) /\ UNCHANGED <<pos, register>>

SetRegister(n, v, ts) ==
  /\ register' = [register EXCEPT ![n] =
       IF ts > @.timestamp THEN [value |-> v, timestamp |-> ts] ELSE @]
  /\ Seen(n, "set", [value |-> v, timestamp |-> ts]) /\ UNCHANGED <<pos, neg>>

MergeCounts_Adds(mine, other) == [m \in Replica |-> mine[m] + other[m]]

MergeCounts(mine, other) ==
  [m \in Replica |-> IF other[m] > mine[m] THEN other[m] ELSE mine[m]]

\* Merge of the counter and of the register at m into those at n.
MergeReplica(n, m) ==
  /\ n # m
  /\ pos' = [pos EXCEPT ![n] = MergeCounts(@, pos[m])]
  /\ neg' = [neg EXCEPT ![n] = MergeCounts(@, neg[m])]
  /\ register' = [register EXCEPT ![n] =
       IF register[m].timestamp > @.timestamp THEN register[m] ELSE @]
  /\ seen' = [seen EXCEPT ![n] = @ \cup seen[m]]
  /\ UNCHANGED updates

CrdtNext ==
  \E n \in Replica : \/ Increment(n) \/ Decrement(n)
                     \/ \E v \in Payload, ts \in 1 .. MaxStamp : SetRegister(n, v, ts)
                     \/ \E m \in Replica : MergeReplica(n, m)
CrdtSpec == CrdtInit /\ [][CrdtNext]_crdtVars

-----------------------------------------------------------------------------
Count(n, kind, m) == Cardinality({u \in seen[n] : u.kind = kind /\ u.at = m})

\* A replica's counter has every update that has reached it once, whatever the
\* order and the number of the merges that brought them, and its register holds
\* a write of the greatest timestamp among them, which one only if one write
\* alone has it (main.go 10-87).
CountsWhatItSaw ==
  \A n \in Replica :
    /\ \A m \in Replica : pos[n][m] = Count(n, "inc", m) /\ neg[n][m] = Count(n, "dec", m)
    /\ LET writes == {u.at : u \in {x \in seen[n] : x.kind = "set" /\ x.at.timestamp > 0}}
       IN IF writes = {} THEN register[n].timestamp = 0
          ELSE register[n] \in writes
               /\ \A w \in writes : w.timestamp <= register[n].timestamp

\* Replicas that the same updates have reached hold the same (README.md:23,
\* deep-dive.md:5): neither takes the other's register when the timestamps of
\* two writes are equal (main.go 83), and each keeps its own for good.
SameUpdatesSameValue ==
  \A n, m \in Replica :
    seen[n] = seen[m] => pos[n] = pos[m] /\ neg[n] = neg[m] /\ register[n] = register[m]
=============================================================================
