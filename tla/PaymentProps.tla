---------------------------- MODULE PaymentProps ----------------------------
(***************************************************************************)
(* What the payment service of Payments guarantees.                        *)
(***************************************************************************)
EXTENDS Payments

Place   == {"unsent", "arrived", "handler", "locked", "credited", "inserted",
            "answered", "done", "lost"}

\* Rows and requests keep their types; no balance is ever negative.
TypeOK ==
  /\ balance \in [Account -> Nat]
  /\ payments \in [Key -> Payment \cup {None}]
  /\ records \in [Key -> Record \cup {None}]
  /\ pc \in [Request -> Place]
  /\ key \in [Request -> Key \cup {None}]
  /\ order \in [Request -> Order \cup {None}]
  /\ answer \in [Request -> Answer]
  /\ faults \in Nat

\* README, Key Design Decisions: of the requests that have passed the balance
\* check, each still finds its money there when it commits, whatever the others
\* do in between.  The CHECK of the table therefore never fires.
FundsReserved ==
  \A r \in Request :
    pc[r] \in {"locked", "credited", "inserted"} =>
      balance[order[r].from] >= order[r].amount

\* A 201, given now, saved in a record or replayed from one, names the payment
\* that the key has made, through failed commits, crashes and expiries.
CreatedIsPaid ==
  \A r \in Request :
    answer[r].code = 201 =>
      /\ payments[key[r]] # None
      /\ payments[key[r]].id = answer[r].payment

\* The service makes payments as AtomicPayments does: at once, with the payer's
\* own money and at most once for a key.
Paid == [k \in Key |-> IF payments[k] = None THEN None ELSE payments[k].order]
Promise == INSTANCE AtomicPayments WITH paid <- Paid
KeepsPromise == Promise!Spec

\* Requests do not wait for each other for ever, payments in opposite directions
\* included: again and again, all that have arrived are answered (or the server
\* has stopped under them).
Answered == []<>(\A r \in Request : pc[r] \in {"unsent", "done", "lost"})

-----------------------------------------------------------------------------
(* What the repository says and the code does not do.                      *)

SameBody(k) ==
  \A q, r \in Request : key[q] = k /\ key[r] = k => order[q] = order[r]

\* README, Key Design Decisions: retries receive an identical response.  So,
\* while a record is live, it is the 201 that a client has received; clients
\* that send different orders with one key do not count.
RetriesIdentical ==
  \A r \in Request :
    /\ pc[r] = "done"
    /\ answer[r].code = 201
    /\ Live(key[r])
    /\ SameBody(key[r])
    => records[key[r]].answer = answer[r]
=============================================================================
