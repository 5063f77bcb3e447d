------------------------------ MODULE LsmTree ------------------------------
(***************************************************************************)
(* system-design/database-internals/lsm.go: a memtable, sorted tables that *)
(* it is flushed into, newest first, and a compaction that merges them.    *)
(* Every operation runs under the tree's mutex.                            *)
(*                                                                         *)
(* A table is a function on the keys it has; that its entries are sorted   *)
(* matters to the binary search only.  The empty string is the tombstone,  *)
(* also when it is put as a value.                                         *)
(*                                                                         *)
(* A definition named X_Y is X with the fault Y, to test the properties.   *)
(***************************************************************************)
EXTENDS Naturals, Sequences

CONSTANTS LsmKey, LsmValue,
          Tomb,         \* the empty string
          NotFound,
          MaxMemSize,   \* writes before a flush
          MaxWrites     \* bound

ASSUME LsmAssumption == /\ Tomb \notin LsmValue /\ NotFound \notin LsmValue \cup {Tomb}
                        /\ MaxMemSize \in Nat /\ MaxWrites \in Nat

VARIABLES memtable, memSize, sstables,
          writes,       \* how many there have been
          asked         \* history: the key and the value of the last one
lsmVars == <<memtable, memSize, sstables, writes, asked>>

NoEntries == [k \in {} |-> Tomb]

LsmInit ==
  /\ memtable = NoEntries /\ memSize = 0 /\ sstables = <<>>
  /\ writes = 0 /\ asked = [key |-> NotFound, value |-> NotFound]

Holding(k) == {i \in DOMAIN sstables : k \in DOMAIN sstables[i]}

\* The entry of the newest table that has k.
NewestTable(k) == CHOOSE i \in Holding(k) : \A j \in Holding(k) : i <= j
OldestTable(k) == CHOOSE i \in Holding(k) : \A j \in Holding(k) : i >= j

Found(v) == IF v = Tomb THEN NotFound ELSE v

Get(k) ==
  IF k \in DOMAIN memtable THEN Found(memtable[k])
  ELSE IF Holding(k) = {} THEN NotFound
  ELSE Found(sstables[NewestTable(k)][k])

With(table, k, v) == [x \in DOMAIN table \cup {k} |-> IF x = k THEN v ELSE table[x]]

Flushed(table) == <<table>> \o sstables

\* Put, and Delete with the tombstone.
Store(k, v) ==
  /\ writes < MaxWrites
  /\ writes' = writes + 1 /\ asked' = [key |-> k, value |-> v]
  /\ IF memSize + 1 >= MaxMemSize
     THEN /\ sstables' = Flushed(With(memtable, k, v))
          /\ memtable' = NoEntries /\ memSize' = 0
     ELSE /\ memtable' = With(memtable, k, v) /\ memSize' = memSize + 1
          /\ UNCHANGED sstables

Put(k, v) == Store(k, v)
Delete(k) == Store(k, Tomb)

Merged_OldestWins(k) == sstables[OldestTable(k)][k]

Merged(k) == sstables[NewestTable(k)][k]

\* One table with the newest entry of every key; tombstones are dropped.
Compact ==
  /\ sstables' = <<[k \in {x \in LsmKey : Holding(x) # {} /\ Merged(x) # Tomb} |-> Merged(k)]>>
  /\ UNCHANGED <<memtable, memSize, writes, asked>>

LsmNext ==
  \/ \E k \in LsmKey : Delete(k) \/ \E v \in LsmValue \cup {Tomb} : Put(k, v)
  \/ Compact
LsmSpec == LsmInit /\ [][LsmNext]_lsmVars

-----------------------------------------------------------------------------
Map == INSTANCE KVMap WITH Key <- LsmKey, Value <- LsmValue, Absent <- NotFound,
                           store <- [k \in LsmKey |-> Get(k)],
                           asked <- [asked EXCEPT !.value = Found(@)]

\* The tree is a map: Put and Delete change the answer for the key they name
\* only, and to the value they name, and a flush or a compaction changes no
\* answer, whatever tombstones and older values the tables hold (lsm.go
\* 31-111).
LsmIsAMap == Map!Spec
=============================================================================
