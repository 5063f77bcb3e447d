------------------------------ MODULE Payments ------------------------------
(***************************************************************************)
(* projects/idempotent-payments: the idempotency middleware, the payment   *)
(* handler and the transfer transaction of the Postgres adapter, run by    *)
(* any number of request goroutines at once.                               *)
(*                                                                         *)
(* One database call is one step.  Postgres (migrations/001_init.sql, READ *)
(* COMMITTED) is modelled by what the code relies on: a row that a         *)
(* transaction has locked or updated, and a unique key that it has         *)
(* inserted, is its own until it commits or rolls back; others wait, and a *)
(* cycle of waiting transactions is broken by failing one of them.  Which  *)
(* rows a transaction holds follows from how far it has come.  The values  *)
(* it wrote to rows it holds are invisible before the commit, so they are  *)
(* written then.                                                           *)
(*                                                                         *)
(* A definition named X_Y is X with the fault Y, kept beside X to confirm  *)
(* that the properties notice it; the specification does not use it.       *)
(***************************************************************************)
EXTENDS Integers, FiniteSets

CONSTANTS Account,   \* rows of accounts
          Key,       \* idempotency keys
          Order,     \* request bodies: [from, to, amount]
          None,
          Opening    \* the balance of each account at the start

\* Bounds on what the environment does in one behaviour.
CONSTANTS MaxRequests,    \* POST /payments calls, retries included
          MaxFaults       \* failed database calls, stops of the server and
                          \* records that reach their TTL

\* Requests in the order they arrive.
Request == 1..MaxRequests

Answer  == [code: {0, 201, 400, 402, 500}, payment: Request \cup {None}]
Payment == [id: Request, order: Order]             \* a row of payments
Record  == [answer: Answer, expired: BOOLEAN]      \* a row of idempotency_keys

ASSUME OrderAssumption   == \A o \in Order : o.amount \in Int
ASSUME OpeningAssumption == Opening \in [Account -> Nat]
ASSUME NoneAssumption    == None \notin Payment \cup Record \cup Order
ASSUME BoundAssumption   == MaxRequests \in Nat /\ MaxFaults \in Nat

VARIABLES
  balance,    \* accounts.balance, committed
  payments,   \* the row of payments with the key, committed, or None
  records,    \* the row of idempotency_keys with the key, or None
  pc,         \* how far a request has come
  key, order, \* what it asks for
  answer,     \* the response written so far
  faults      \* how many there have been

vars == <<balance, payments, records, pc, key, order, answer, faults>>

NoAnswer == [code |-> 0, payment |-> None]
Refused(code) == [code |-> code, payment |-> None]
Created(r)    == [code |-> 201, payment |-> r]

Init ==
  /\ balance = Opening
  /\ payments = [k \in Key |-> None]
  /\ records = [k \in Key |-> None]
  /\ pc = [r \in Request |-> "unsent"]
  /\ key = [r \in Request |-> None]
  /\ order = [r \in Request |-> None]
  /\ answer = [r \in Request |-> NoAnswer]
  /\ faults = 0

-----------------------------------------------------------------------------
(* What the transactions hold and what they wait for.                      *)

Holds_NoForUpdate(r, a) ==
  /\ pc[r] \in {"credited", "inserted"}
  /\ a \in {order[r].from, order[r].to}

Holds_NoRollback(r, a) ==
  \/ pc[r] \in {"locked", "credited", "inserted"} /\ a = order[r].from
  \/ pc[r] \in {"credited", "inserted"} /\ a = order[r].to
  \/ pc[r] \in {"answered", "done"} /\ answer[r].code = 402 /\ a = order[r].from

\* The row of account a is r's: locked by FOR UPDATE, or updated.
Holds(r, a) ==
  \/ pc[r] \in {"locked", "credited", "inserted"} /\ a = order[r].from
  \/ pc[r] \in {"credited", "inserted"} /\ a = order[r].to

Inserting(r, k) == pc[r] = "inserted" /\ key[r] = k

\* Request r cannot go on before the transaction of q ends.
WaitsFor(r, q) ==
  /\ q # r
  /\ \/ pc[r] = "handler" /\ Holds(q, order[r].from)
     \/ pc[r] = "locked" /\ Holds(q, order[r].to)
     \/ pc[r] = "credited" /\ Inserting(q, key[r])
Waits(r) == \E q \in Request : WaitsFor(r, q)

Deadlocked(r) ==
  \E S \in SUBSET Request :
    /\ r \in S
    /\ \A q \in S : /\ \E p \in S : WaitsFor(q, p)
                    /\ \E p \in S : WaitsFor(p, q)

-----------------------------------------------------------------------------
(* One request: Idempotency, Payment, ProcessPayment, TransferTx, Save.    *)

Goto(r, there, a) ==
  /\ pc' = [pc EXCEPT ![r] = there]
  /\ answer' = [answer EXCEPT ![r] = a]
  /\ UNCHANGED <<key, order, faults>>

Arrive(r, k, o) ==
  /\ pc[r] = "unsent"
  /\ \A q \in Request : q < r => pc[q] # "unsent"
  /\ pc' = [pc EXCEPT ![r] = "arrived"]
  /\ key' = [key EXCEPT ![r] = k]
  /\ order' = [order EXCEPT ![r] = o]
  /\ UNCHANGED <<balance, payments, records, answer, faults>>

Live(k) == records[k] # None /\ ~records[k].expired

\* The middleware finds a record and replays it.
Replay(r) ==
  /\ pc[r] = "arrived"
  /\ Live(key[r])
  /\ Goto(r, "done", records[key[r]].answer)
  /\ UNCHANGED <<balance, payments, records>>

\* It finds none and calls the handler.
Miss(r) ==
  /\ pc[r] = "arrived"
  /\ ~Live(key[r])
  /\ Goto(r, "handler", NoAnswer)
  /\ UNCHANGED <<balance, payments, records>>

Fail_AsCreated(r) == Goto(r, "answered", Created(r))

\* TransferTx returns an error, which rolls back, and the handler answers 400.
Fail(r) == Goto(r, "answered", Refused(400))

\* What ProcessPayment accepts.
Valid(o) == o.amount > 0 /\ o.from # o.to

Reject(r) ==
  /\ pc[r] = "handler"
  /\ ~Valid(order[r])
  /\ Fail(r)
  /\ UNCHANGED <<balance, payments, records>>

LockSender_NoCheck(r) ==
  /\ pc[r] = "handler"
  /\ Valid(order[r])
  /\ ~Waits(r)
  /\ IF order[r].from \in Account THEN Goto(r, "locked", NoAnswer) ELSE Fail(r)
  /\ UNCHANGED <<balance, payments, records>>

\* SELECT ... FOR UPDATE of the sender's row, and the check of its balance.
LockSender(r) ==
  LET a == order[r].from IN
  /\ pc[r] = "handler"
  /\ Valid(order[r])
  /\ ~Waits(r)
  /\ IF a \notin Account THEN Fail(r)
     ELSE IF balance[a] < order[r].amount THEN Goto(r, "answered", Refused(402))
     ELSE Goto(r, "locked", NoAnswer)
  /\ UNCHANGED <<balance, payments, records>>

\* The two UPDATEs; the one of an account that is not there changes no row.
Transfer(r) ==
  /\ pc[r] = "locked"
  /\ ~Waits(r)
  /\ Goto(r, "credited", NoAnswer)
  /\ UNCHANGED <<balance, payments, records>>

Insertable_NotUnique(r) == order[r].to \in Account

\* The key is UNIQUE and to_account_id REFERENCES accounts.
Insertable(r) == payments[key[r]] = None /\ order[r].to \in Account

\* INSERT INTO payments.
Insert(r) ==
  /\ pc[r] = "credited"
  /\ ~Waits(r)
  /\ IF Insertable(r) THEN Goto(r, "inserted", NoAnswer) ELSE Fail(r)
  /\ UNCHANGED <<balance, payments, records>>

\* The transaction of r takes effect.
Apply(r) ==
  LET o == order[r] IN
  /\ pc[r] = "inserted"
  /\ balance' = [balance EXCEPT ![o.from] = @ - o.amount,
                                ![o.to] = @ + o.amount]
  /\ payments' = [payments EXCEPT ![key[r]] = [id |-> r, order |-> o]]

Commit(r) ==
  /\ Apply(r)
  /\ Goto(r, "answered", Created(r))
  /\ UNCHANGED records

\* INSERT ... ON CONFLICT DO NOTHING, expired records included, and the answer
\* goes to the client.
Save(r) ==
  /\ pc[r] = "answered"
  /\ Goto(r, "done", answer[r])
  /\ records' = IF records[key[r]] # None THEN records
                ELSE [records EXCEPT ![key[r]] =
                        [answer |-> answer[r], expired |-> FALSE]]
  /\ UNCHANGED <<balance, payments>>

-----------------------------------------------------------------------------
(* What else happens.                                                      *)

InTransaction == {"handler", "locked", "credited", "inserted"}

\* Postgres fails one of the transactions that wait for each other.
BreakDeadlock(r) ==
  /\ Deadlocked(r)
  /\ Fail(r)
  /\ UNCHANGED <<balance, payments, records>>

Fault == faults < MaxFaults /\ faults' = faults + 1

\* A database call fails: Get answers 500 and saves nothing, a call of the
\* transaction rolls it back, the error of Save is ignored.
DbError(r) ==
  /\ Fault
  /\ \/ /\ pc[r] = "arrived"
        /\ pc' = [pc EXCEPT ![r] = "done"]
        /\ answer' = [answer EXCEPT ![r] = Refused(500)]
     \/ /\ pc[r] \in InTransaction
        /\ pc' = [pc EXCEPT ![r] = "answered"]
        /\ answer' = [answer EXCEPT ![r] = Refused(400)]
     \/ /\ pc[r] = "answered"
        /\ pc' = [pc EXCEPT ![r] = "done"]
        /\ UNCHANGED answer
  /\ UNCHANGED <<balance, payments, records, key, order>>

\* The commit succeeds, its confirmation is lost.
LoseCommit(r) ==
  /\ Fault
  /\ Apply(r)
  /\ pc' = [pc EXCEPT ![r] = "answered"]
  /\ answer' = [answer EXCEPT ![r] = Refused(400)]
  /\ UNCHANGED <<records, key, order>>

\* The server stops; Postgres rolls back what was not committed.
Crash ==
  /\ Fault
  /\ pc' = [r \in Request |->
              IF pc[r] \in {"unsent", "done"} THEN pc[r] ELSE "lost"]
  /\ UNCHANGED <<balance, payments, records, key, order, answer>>

\* The TTL of a record passes; the cleanup goroutine deletes it later.
Expire(k) ==
  /\ Live(k)
  /\ Fault
  /\ records' = [records EXCEPT ![k].expired = TRUE]
  /\ UNCHANGED <<balance, payments, pc, key, order, answer>>

Expired == {k \in Key : records[k] # None /\ ~Live(k)}
DeleteExpired ==
  /\ Expired # {}
  /\ records' = [k \in Key |-> IF k \in Expired THEN None ELSE records[k]]
  /\ UNCHANGED <<balance, payments, pc, key, order, answer, faults>>

-----------------------------------------------------------------------------
Serve(r) ==
  \/ Replay(r) \/ Miss(r) \/ Reject(r) \/ LockSender(r) \/ Transfer(r)
  \/ Insert(r) \/ Commit(r) \/ Save(r) \/ BreakDeadlock(r)

Next ==
  \/ \E r \in Request :
       \/ Serve(r) \/ DbError(r) \/ LoseCommit(r)
       \/ \E k \in Key, o \in Order : Arrive(r, k, o)
  \/ \E k \in Key : Expire(k)
  \/ DeleteExpired
  \/ Crash

Spec == Init /\ [][Next]_vars

\* The server and Postgres do not stop while a request can go on: goroutines are
\* scheduled, a free lock is granted and a deadlock is broken.
FairSpec == Spec /\ WF_vars(\E r \in Request : Serve(r))
=============================================================================
