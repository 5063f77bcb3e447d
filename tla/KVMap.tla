------------------------------- MODULE KVMap -------------------------------
(***************************************************************************)
(* What a key-value store promises: a read finds the last write of its     *)
(* key.  `asked` is the last write there was and `writes` their number, so *)
(* that a step that is no write can change no answer, and a write no       *)
(* answer but that of its own key, to its own value.                       *)
(***************************************************************************)
EXTENDS Naturals
CONSTANTS Key, Value, Absent
VARIABLES store, asked, writes
vars == <<store, asked, writes>>

Init == store = [k \in Key |-> Absent] /\ writes = 0

Write(k, v) ==
  /\ store' = [store EXCEPT ![k] = v]
  /\ asked' = [key |-> k, value |-> v] /\ writes' = writes + 1

Next == \E k \in Key, v \in Value \cup {Absent} : Write(k, v)
Spec == Init /\ [][Next]_vars
=============================================================================
