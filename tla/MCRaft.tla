------------------------------- MODULE MCRaft -------------------------------
(***************************************************************************)
(* Three nodes and one command for TLC.  The clusters are started again    *)
(* over the WALs of an earlier life, which is how a few proposals reach    *)
(* logs that conflict; what each node did in that life tells the nodes     *)
(* apart, so there is no symmetry left to use.                             *)
(***************************************************************************)
EXTENDS RaftProps, TLC

CONSTANTS n1, n2, n3, x
ASSUME ThreeNodes == Server = {n1, n2, n3} /\ x \in Command

\* In the earlier life n1 led term 3, after two campaigns nobody voted in, by its
\* own vote and that of n3, and appended an entry which reached nobody.  The terms
\* of this life, which are counted from 0 again, are not won twice then.
LostEntry ==
  LET vote(i, t) == [voter |-> i, term |-> t, for |-> n1] IN
  /\ Start([i \in Server |-> IF i = n1 THEN <<[term |-> 3, index |-> 1, cmd |-> x]>>
                                       ELSE <<>>])
  /\ cast = {vote(n1, t) : t \in 1..3} \cup {vote(n3, 3)}
  /\ wins = {[node |-> n1, term |-> 3, round |-> 0]}
LostEntrySpec == LostEntry /\ [][Next]_vars

\* Bound: elections, proposals, heartbeats, crashes and disk errors, in any mix
\* and order; nothing happens after a fourth.
ThreeEvents ==
  used.elections + Len(proposals) + used.heartbeats + used.crashes
    + used.diskErrors <= 3

Symmetry == Permutations(Server)
=============================================================================
