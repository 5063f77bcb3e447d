-------------------------------- MODULE Bank --------------------------------
(***************************************************************************)
(* What projects/event-sourced-ledger promises: accounts are never         *)
(* overdrawn, and money sent from one account to another arrives at most   *)
(* once and only after it was taken.  It may stay on its way for ever.     *)
(***************************************************************************)
EXTENDS Integers

CONSTANTS Account, Amount

VARIABLES balance,   \* by account
          transit    \* how often transit[a][b][m] the amount m is on its way

Init ==
  /\ balance = [a \in Account |-> 0]
  /\ transit = [a \in Account |-> [b \in Account |-> [m \in Amount |-> 0]]]

Deposit(a, m) ==
  /\ balance' = [balance EXCEPT ![a] = @ + m]
  /\ UNCHANGED transit

Withdraw(a, m) ==
  /\ balance[a] >= m
  /\ balance' = [balance EXCEPT ![a] = @ - m]
  /\ UNCHANGED transit

Send(a, b, m) ==
  /\ balance[a] >= m
  /\ balance' = [balance EXCEPT ![a] = @ - m]
  /\ transit' = [transit EXCEPT ![a][b][m] = @ + 1]

Receive(a, b, m) ==
  /\ transit[a][b][m] > 0
  /\ balance' = [balance EXCEPT ![b] = @ + m]
  /\ transit' = [transit EXCEPT ![a][b][m] = @ - 1]

Next ==
  \E a, b \in Account, m \in Amount :
    Deposit(a, m) \/ Withdraw(a, m) \/ Send(a, b, m) \/ Receive(a, b, m)

Spec == Init /\ [][Next]_<<balance, transit>>
=============================================================================
