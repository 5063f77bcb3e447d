--------------------------- MODULE AtomicPayments ---------------------------
(***************************************************************************)
(* What projects/idempotent-payments promises its clients: a payment is    *)
(* made at once or not at all, at most once for an idempotency key, and    *)
(* never with money the payer does not have.                               *)
(***************************************************************************)
EXTENDS Integers

CONSTANTS Account,   \* the accounts of the bank
          Key,       \* idempotency keys
          Order,     \* what a payment request may ask for
          None,
          Opening    \* the balance of each account at the start

VARIABLES balance,   \* by account
          paid       \* the order a key has paid, or None

Init ==
  /\ balance = Opening
  /\ paid = [k \in Key |-> None]

Pay(k, o) ==
  /\ paid[k] = None
  /\ o.from \in Account
  /\ o.to \in Account \ {o.from}
  /\ o.amount \in 1..balance[o.from]
  /\ balance' = [balance EXCEPT ![o.from] = @ - o.amount,
                                ![o.to] = @ + o.amount]
  /\ paid' = [paid EXCEPT ![k] = o]

Next == \E k \in Key, o \in Order : Pay(k, o)

Spec == Init /\ [][Next]_<<balance, paid>>
=============================================================================
