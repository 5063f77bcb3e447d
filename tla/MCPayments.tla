----------------------------- MODULE MCPayments -----------------------------
(* Values for the configurations of Payments.                              *)
EXTENDS PaymentProps

CONSTANTS alice, bob, nobody   \* two accounts, and an id that has no row

MCOpening == [c \in Account |-> IF c = alice THEN 3 ELSE 1]

\* Payments that exclude or block each other, and the ones that are refused.
MCOrder == {[from |-> alice, to |-> bob, amount |-> 2],
            [from |-> bob, to |-> alice, amount |-> 1],
            [from |-> alice, to |-> nobody, amount |-> 1],
            [from |-> alice, to |-> alice, amount |-> 1]}
=============================================================================
