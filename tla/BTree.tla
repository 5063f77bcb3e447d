------------------------------- MODULE BTree -------------------------------
(***************************************************************************)
(* system-design/database-internals/btree.go: insertion with splits on the *)
(* way down, and search.  A node is a record; node.children is empty in a  *)
(* leaf.  Order is the minimum degree (3 in the code, whose comment calls  *)
(* it the maximum of children): a node is full at 2 * Order - 1 keys.      *)
(*                                                                         *)
(* A definition named X_Y is X with the fault Y, to test the properties.   *)
(***************************************************************************)
EXTENDS Integers, Sequences, FiniteSets, SequencesExt

CONSTANTS Order, Number    \* the keys that are inserted, once each

ASSUME BTreeAssumption == Order \in Nat \ {0, 1} /\ Number \subseteq Int

VARIABLES root, inserted
btreeVars == <<root, inserted>>

BTreeInit == root = [leaf |-> TRUE, keys |-> <<>>, children |-> <<>>] /\ inserted = {}

IsFull(node) == Len(node.keys) = 2 * Order - 1

\* How many keys of the node are below key: the child to go to, from 0.
Below(node, key) == Cardinality({i \in DOMAIN node.keys : node.keys[i] < key})

RECURSIVE SearchIn(_, _)
SearchIn(node, key) ==
  LET i == Below(node, key) + 1
  IN \/ i <= Len(node.keys) /\ node.keys[i] = key
     \/ ~node.leaf /\ SearchIn(node.children[i], key)
Search(key) == SearchIn(root, key)

Left_KeepsMedian(y) ==
  [y EXCEPT !.keys = SubSeq(@, 1, Order),
            !.children = IF y.leaf THEN @ ELSE SubSeq(@, 1, Order)]

\* What splitChild leaves in the full child, and what it moves to the new one.
Left(y) ==
  [y EXCEPT !.keys = SubSeq(@, 1, Order - 1),
            !.children = IF y.leaf THEN @ ELSE SubSeq(@, 1, Order)]
Right(y) ==
  [y EXCEPT !.keys = SubSeq(@, Order + 1, Len(@)),
            !.children = IF y.leaf THEN @ ELSE SubSeq(@, Order + 1, Len(@))]

SplitChild(node, i) ==
  LET y == node.children[i]
  IN [node EXCEPT !.keys = InsertAt(@, i, y.keys[Order]),
                  !.children = InsertAt(ReplaceAt(@, i, Left(y)), i + 1, Right(y))]

RECURSIVE InsertNonFull(_, _)
InsertNonFull(node, key) ==
  LET i == Below(node, key) + 1
  IN IF node.leaf THEN [node EXCEPT !.keys = InsertAt(@, i, key)]
     ELSE LET split == IF IsFull(node.children[i]) THEN SplitChild(node, i) ELSE node
              j == IF IsFull(node.children[i]) /\ key > split.keys[i] THEN i + 1 ELSE i
          IN [split EXCEPT !.children[j] = InsertNonFull(@, key)]

InsertKey(key) ==
  /\ key \in Number \ inserted
  /\ inserted' = inserted \cup {key}
  /\ LET grown == IF IsFull(root)
                  THEN SplitChild([leaf |-> FALSE, keys |-> <<>>, children |-> <<root>>], 1)
                  ELSE root
     IN root' = InsertNonFull(grown, key)

-----------------------------------------------------------------------------
RECURSIVE Height(_), InOrder(_)
Height(node) == IF node.leaf THEN 0 ELSE 1 + Height(node.children[1])
InOrder(node) ==
  IF node.leaf THEN node.keys
  ELSE FlattenSeq([i \in 1..(2 * Len(node.keys) + 1) |->
         IF i % 2 = 1 THEN InOrder(node.children[(i + 1) \div 2])
         ELSE <<node.keys[i \div 2]>>])

RECURSIVE WellFormed(_)
WellFormed(node) ==
  /\ Len(node.keys) <= 2 * Order - 1
  /\ node.leaf \/ /\ Len(node.children) = Len(node.keys) + 1
                  /\ \A i \in DOMAIN node.children :
                       /\ Len(node.children[i].keys) >= Order - 1
                       /\ Height(node.children[i]) = Height(node) - 1
                       /\ WellFormed(node.children[i])

\* After any order of insertions the tree is balanced, every node but the root
\* is at least half full and none overfull, and its keys in order are exactly
\* those inserted; each of them, and nothing else, is found
\* (btree.go 22-114: the split moves the median up and the children along).
TreeIsSound ==
  /\ WellFormed(root)
  /\ LET keys == InOrder(root)
     IN ToSet(keys) = inserted /\ \A i \in 1..Len(keys) - 1 : keys[i] < keys[i + 1]
  /\ \A key \in Number : Search(key) <=> key \in inserted
=============================================================================
