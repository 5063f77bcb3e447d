--------------------------- MODULE PaymentProofs ---------------------------
(***************************************************************************)
(* Payments implements AtomicPayments for any number of requests, accounts *)
(* and keys and any number of failures.                                    *)
(*                                                                         *)
(* The induction needs, beside the properties, what the row locks give: no *)
(* two transactions hold one row or one key, so what a transaction has     *)
(* checked under its locks still holds when it commits.                    *)
(***************************************************************************)
EXTENDS PaymentProps, TLAPS

USE OrderAssumption, OpeningAssumption, NoneAssumption, BoundAssumption

InTx == {"locked", "credited", "inserted"}

\* A request that has come has a key and a body; one that has not, no answer.
Asked ==
  \A r \in Request :
    /\ pc[r] # "unsent" => key[r] \in Key /\ order[r] \in Order
    /\ pc[r] = "unsent" => answer[r] = NoAnswer

\* What a transaction has established by the place it is at.
Checked ==
  \A r \in Request :
    /\ pc[r] \in InTx => Valid(order[r]) /\ order[r].from \in Account
    /\ pc[r] = "inserted" => Insertable(r)

\* A row or a key belongs to one transaction.
Exclusive ==
  \A q, r \in Request :
    q # r =>
      /\ \A c : ~(Holds(q, c) /\ Holds(r, c))
      /\ \A k : ~(Inserting(q, k) /\ Inserting(r, k))

\* An answer names the payment its key has made.
Names(a, k) ==
  a.code = 201 => payments[k] # None /\ payments[k].id = a.payment

Recorded == \A k \in Key : records[k] # None => Names(records[k].answer, k)
Told == \A r \in Request : Names(answer[r], key[r])

PayInv ==
  TypeOK /\ Asked /\ Checked /\ FundsReserved /\ Exclusive /\ Recorded /\ Told

-----------------------------------------------------------------------------
\* The initial state has every part of the invariant.
LEMMA InitInv == Init => PayInv
  BY DEF Init, PayInv, TypeOK, Asked, Checked, FundsReserved, Exclusive,
         Recorded, Told, Names, Holds, Inserting, InTx, Place, Answer, NoAnswer

\* Rows and keys that are only given back leave the rest with its owner.
LEMMA Released ==
  ASSUME Exclusive,
         \A q \in Request : /\ \A c : Holds(q, c)' => Holds(q, c)
                            /\ \A k : Inserting(q, k)' => Inserting(q, k)
  PROVE  Exclusive'
<1> SUFFICES ASSUME NEW q \in Request, NEW r \in Request, q # r
             PROVE  /\ \A c : ~(Holds(q, c) /\ Holds(r, c))'
                    /\ \A k : ~(Inserting(q, k) /\ Inserting(r, k))'
  BY DEF Exclusive
<1>1. /\ \A c : ~(Holds(q, c) /\ Holds(r, c))
      /\ \A k : ~(Inserting(q, k) /\ Inserting(r, k))
  BY DEF Exclusive
<1> QED  BY <1>1

\* What a request that moves on alone keeps: the tables and everyone else.
LEMMA Alone ==
  ASSUME PayInv, NEW r \in Request, NEW p \in Place \ {"unsent"},
         NEW a \in Answer, pc[r] # "unsent",
         pc' = [pc EXCEPT ![r] = p], answer' = [answer EXCEPT ![r] = a],
         UNCHANGED <<key, order, balance, payments, records>>,
         faults' \in Nat,
         Names(a, key[r]),
         p \in InTx => /\ Valid(order[r])
                       /\ order[r].from \in Account
                       /\ balance[order[r].from] >= order[r].amount
                       /\ \A q \in Request \ {r} : ~Holds(q, order[r].from),
         p \in {"credited", "inserted"} =>
                       \A q \in Request \ {r} : ~Holds(q, order[r].to),
         p = "inserted" => /\ Insertable(r)
                           /\ \A q \in Request \ {r} : ~Inserting(q, key[r])
  PROVE  PayInv'
<1> USE DEF PayInv
<1>1. TypeOK'
  BY DEF TypeOK
<1>2. Asked'
  BY DEF Asked, TypeOK
<1>3. Checked' /\ FundsReserved'
  BY DEF Checked, FundsReserved, TypeOK, Valid, Insertable, InTx
<1>4. Exclusive'
  <2> SUFFICES ASSUME NEW q \in Request, NEW s \in Request, q # s
               PROVE  /\ \A c : ~(Holds(q, c) /\ Holds(s, c))'
                      /\ \A k : ~(Inserting(q, k) /\ Inserting(s, k))'
    BY DEF Exclusive
  <2>1. \A u \in Request \ {r} :
          /\ \A c : Holds(u, c)' <=> Holds(u, c)
          /\ \A k : Inserting(u, k)' <=> Inserting(u, k)
    BY DEF Holds, Inserting, TypeOK
  <2>2. \A u \in Request \ {r} : \A c : ~(Holds(u, c) /\ Holds(r, c)')
    BY DEF Holds, TypeOK, InTx
  <2>3. \A u \in Request \ {r} : \A k : ~(Inserting(u, k) /\ Inserting(r, k)')
    BY DEF Inserting, TypeOK
  <2>4. CASE q = r
    BY <2>1, <2>2, <2>3, <2>4
  <2>5. CASE s = r
    BY <2>1, <2>2, <2>3, <2>5
  <2>6. CASE r \notin {q, s}
    BY <2>1, <2>6 DEF Exclusive
  <2> QED  BY <2>4, <2>5, <2>6
<1>5. Recorded' /\ Told'
  BY DEF Recorded, Told, Names, TypeOK
<1> QED  BY <1>1, <1>2, <1>3, <1>4, <1>5

\* A request that ends its transaction, or never starts one, holds nothing.
LEMMA Leave ==
  ASSUME PayInv, NEW r \in Request, NEW p \in {"handler", "answered", "done"},
         NEW a \in Answer, pc[r] # "unsent",
         pc' = [pc EXCEPT ![r] = p], answer' = [answer EXCEPT ![r] = a],
         UNCHANGED <<key, order, balance, payments, records>>,
         faults' \in Nat,
         Names(a, key[r])
  PROVE  PayInv'
  BY Alone DEF InTx, Place

-----------------------------------------------------------------------------
(* The steps of a request.                                                 *)

\* A request arrives with any key and any order.
LEMMA ArriveInv ==
  ASSUME PayInv, NEW r \in Request, NEW k \in Key, NEW o \in Order,
         Arrive(r, k, o)
  PROVE  PayInv'
<1> USE DEF PayInv, Arrive
<1>1. TypeOK'
  BY DEF TypeOK, Place
<1>2. Asked' /\ Checked' /\ FundsReserved'
  BY DEF Asked, Checked, FundsReserved, TypeOK, Insertable, InTx
<1>3. Exclusive'
  BY SMTT(30) DEF Exclusive, Holds, Inserting, TypeOK
<1>4. Recorded' /\ Told'
  BY DEF Recorded, Told, Names, Asked, NoAnswer, TypeOK
<1> QED  BY <1>1, <1>2, <1>3, <1>4

\* The steps that leave the tables alone.
LEMMA ServeInv ==
  ASSUME PayInv, NEW r \in Request,
         \/ Replay(r) \/ Miss(r) \/ Reject(r) \/ LockSender(r)
         \/ Transfer(r) \/ Insert(r) \/ BreakDeadlock(r)
  PROVE  PayInv'
<1>1. NoAnswer \in Answer /\ \A c \in {400, 402, 500} : Refused(c) \in Answer
  BY DEF NoAnswer, Refused, Answer
<1>2. /\ Names(NoAnswer, key[r])
      /\ \A c \in {400, 402, 500} : Names(Refused(c), key[r])
  BY DEF NoAnswer, Refused, Names
<1>3. faults \in Nat
  BY DEF PayInv, TypeOK
<1>4. CASE Replay(r)
  <2>1. key[r] \in Key
    BY <1>4 DEF Replay, PayInv, Asked
  <2>2. records[key[r]].answer \in Answer /\ Names(records[key[r]].answer, key[r])
    BY <1>4, <2>1 DEF Replay, Live, PayInv, TypeOK, Recorded, Record
  <2> QED  BY <1>3, <1>4, <2>2, Leave DEF Replay, Goto
<1>5. CASE Miss(r)
  <2>1. NoAnswer \in Answer /\ Names(NoAnswer, key[r])
    BY <1>1, <1>2
  <2>2. /\ pc[r] # "unsent"
        /\ pc' = [pc EXCEPT ![r] = "handler"]
        /\ answer' = [answer EXCEPT ![r] = NoAnswer]
        /\ UNCHANGED <<key, order, faults, balance, payments, records>>
    BY <1>5 DEF Miss, Goto
  <2> QED  BY <1>3, <2>1, <2>2, Leave
<1>6. CASE Reject(r)
  <2>1. Refused(400) \in Answer /\ Names(Refused(400), key[r])
    BY <1>1, <1>2
  <2>2. /\ pc[r] # "unsent"
        /\ pc' = [pc EXCEPT ![r] = "answered"]
        /\ answer' = [answer EXCEPT ![r] = Refused(400)]
        /\ UNCHANGED <<key, order, faults, balance, payments, records>>
    BY <1>6 DEF Reject, Fail, Goto
  <2> QED  BY <1>3, <2>1, <2>2, Leave
<1>7. CASE LockSender(r)
  <2>1. CASE pc' = [pc EXCEPT ![r] = "locked"] /\ answer' = [answer EXCEPT ![r] = NoAnswer]
    <3>1. pc[r] = "handler" /\ Valid(order[r]) /\ order[r].from \in Account
      BY <1>7, <2>1 DEF LockSender, Fail, Goto, PayInv, TypeOK
    <3>2. balance[order[r].from] >= order[r].amount
      <4>1. balance[order[r].from] \in Int /\ order[r].amount \in Int
        BY <3>1 DEF PayInv, TypeOK, Asked
      <4>2. ~(balance[order[r].from] < order[r].amount)
        BY <1>7, <2>1, <3>1 DEF LockSender, Fail, Goto, PayInv, TypeOK
      <4> QED  BY <4>1, <4>2
    <3>3. \A q \in Request \ {r} : ~Holds(q, order[r].from)
      BY <1>7, <3>1 DEF LockSender, Waits, WaitsFor
    <3>4. UNCHANGED <<key, order, faults, balance, payments, records>>
      BY <1>7 DEF LockSender, Goto, Fail
    <3> QED
      BY ZenonT(40), <1>1, <1>2, <1>3, <2>1, <3>1, <3>2, <3>3, <3>4, Alone DEF Place
  <2>2. CASE \E c \in {400, 402} : Goto(r, "answered", Refused(c))
    <3>1. PICK a \in Answer : Names(a, key[r]) /\ Goto(r, "answered", a)
      BY <1>1, <1>2, <2>2
    <3>2. pc[r] # "unsent"
      BY <1>7 DEF LockSender
    <3>3. UNCHANGED <<balance, payments, records>>
      BY <1>7 DEF LockSender
    <3> QED  BY <1>3, <3>1, <3>2, <3>3, Leave DEF Goto
  <2> QED  BY <1>7, <2>1, <2>2 DEF LockSender, Fail, Goto
<1>8. CASE Transfer(r)
  <2>1. \A q \in Request \ {r} : ~Holds(q, order[r].to) /\ ~Holds(q, order[r].from)
    BY <1>8 DEF Transfer, Waits, WaitsFor, Holds, PayInv, Exclusive
  <2>2. /\ Valid(order[r])
        /\ order[r].from \in Account
        /\ balance[order[r].from] >= order[r].amount
    BY <1>8 DEF Transfer, PayInv, Checked, FundsReserved, InTx
  <2> QED  BY ZenonT(40), <1>1, <1>2, <1>3, <1>8, <2>1, <2>2, Alone DEF Transfer, Goto, Place
<1>9. CASE Insert(r)
  <2>1. CASE Insertable(r)
    <3>1. \A q \in Request \ {r} : ~Holds(q, order[r].to) /\ ~Holds(q, order[r].from)
      BY <1>9 DEF Insert, Holds, PayInv, Exclusive
    <3>2. /\ Valid(order[r])
          /\ order[r].from \in Account
          /\ balance[order[r].from] >= order[r].amount
      BY <1>9 DEF Insert, PayInv, Checked, FundsReserved, InTx
    <3>3. \A q \in Request \ {r} : ~Inserting(q, key[r])
      BY <1>9 DEF Insert, Waits, WaitsFor
    <3> QED
      BY <1>1, <1>2, <1>3, <1>9, <2>1, <3>1, <3>2, <3>3, Alone DEF Insert, Goto, Place
  <2>2. CASE ~Insertable(r)
    <3>1. Refused(400) \in Answer /\ Names(Refused(400), key[r])
      BY <1>1, <1>2
    <3>2. /\ pc[r] # "unsent"
          /\ pc' = [pc EXCEPT ![r] = "answered"]
          /\ answer' = [answer EXCEPT ![r] = Refused(400)]
          /\ UNCHANGED <<key, order, faults, balance, payments, records>>
      BY <1>9, <2>2 DEF Insert, Fail, Goto
    <3> QED  BY <1>3, <3>1, <3>2, Leave
  <2> QED  BY <2>1, <2>2
<1>10. CASE BreakDeadlock(r)
  <2>1. pc[r] # "unsent"
    BY <1>10 DEF BreakDeadlock, Deadlocked, WaitsFor
  <2>2. Refused(400) \in Answer /\ Names(Refused(400), key[r])
    BY <1>1, <1>2
  <2>3. /\ pc' = [pc EXCEPT ![r] = "answered"]
        /\ answer' = [answer EXCEPT ![r] = Refused(400)]
        /\ UNCHANGED <<key, order, faults, balance, payments, records>>
    BY <1>10 DEF BreakDeadlock, Fail, Goto
  <2> QED  BY <1>3, <2>1, <2>2, <2>3, Leave
<1> QED  BY <1>4, <1>5, <1>6, <1>7, <1>8, <1>9, <1>10

\* A transaction that takes effect: the others hold neither of its rows, so the
\* money they have checked is still there, and none inserts its key.
LEMMA ApplyInv ==
  ASSUME PayInv, NEW r \in Request, NEW a \in {Created(r), Refused(400)},
         Apply(r),
         pc' = [pc EXCEPT ![r] = "answered"],
         answer' = [answer EXCEPT ![r] = a],
         UNCHANGED <<records, key, order>>,
         faults' \in Nat
  PROVE  PayInv'
<1> DEFINE o == order[r]
<1>1. /\ pc[r] = "inserted"
      /\ key[r] \in Key /\ o \in Order /\ o.amount \in Int /\ o.amount > 0
      /\ o.from \in Account /\ o.to \in Account /\ o.from # o.to
      /\ balance[o.from] >= o.amount
      /\ payments[key[r]] = None
  BY DEF Apply, PayInv, Asked, Checked, Valid, Insertable, FundsReserved, InTx
<1>2. /\ balance \in [Account -> Nat]
      /\ payments \in [Key -> Payment \cup {None}]
  BY DEF PayInv, TypeOK
<1>3. /\ balance' = [balance EXCEPT ![o.from] = @ - o.amount, ![o.to] = @ + o.amount]
      /\ payments' = [payments EXCEPT ![key[r]] = [id |-> r, order |-> o]]
  BY DEF Apply
<1>4. balance' \in [Account -> Nat]
  BY <1>1, <1>2, <1>3
<1>5. [id |-> r, order |-> o] \in Payment /\ [id |-> r, order |-> o] # None
  BY <1>1 DEF Payment
<1>6. TypeOK'
  <2>1. a \in Answer
    BY DEF Created, Refused, Answer
  <2>2. payments' \in [Key -> Payment \cup {None}]
    BY <1>2, <1>3, <1>5
  <2> QED  BY <1>4, <2>1, <2>2 DEF PayInv, TypeOK, Place
<1>7. Asked'
  BY <1>1 DEF PayInv, Asked, TypeOK
<1>8. \A q \in Request \ {r} : /\ ~Holds(q, o.from) /\ ~Holds(q, o.to)
                              /\ ~Inserting(q, key[r])
  <2> SUFFICES ASSUME NEW q \in Request \ {r}
               PROVE  ~Holds(q, o.from) /\ ~Holds(q, o.to) /\ ~Inserting(q, key[r])
    OBVIOUS
  <2>1. Holds(r, o.from) /\ Holds(r, o.to) /\ Inserting(r, key[r])
    BY <1>1 DEF Holds, Inserting
  <2>2. /\ \A c : ~(Holds(q, c) /\ Holds(r, c))
        /\ \A k : ~(Inserting(q, k) /\ Inserting(r, k))
    BY DEF PayInv, Exclusive
  <2> QED  BY <2>1, <2>2
<1>9. Checked' /\ FundsReserved'
  <2>1. \A q \in Request : pc'[q] \in InTx => q # r /\ pc'[q] = pc[q]
    BY DEF PayInv, TypeOK, InTx
  <2>2. \A q \in Request \ {r} : pc[q] \in InTx => balance'[order[q].from] = balance[order[q].from]
    BY <1>1, <1>2, <1>3, <1>8 DEF PayInv, Checked, Holds, InTx
  <2>3. \A q \in Request \ {r} : pc[q] = "inserted" => payments'[key[q]] = payments[key[q]]
    BY <1>1, <1>2, <1>3, <1>8 DEF Inserting
  <2> QED
    BY <2>1, <2>2, <2>3 DEF PayInv, Checked, FundsReserved, Valid, Insertable, InTx
<1>10. Exclusive'
  <2>1. \A q \in Request : /\ \A c : Holds(q, c)' => Holds(q, c)
                           /\ \A k : Inserting(q, k)' => Inserting(q, k)
    BY DEF PayInv, TypeOK, Holds, Inserting
  <2> QED  BY <2>1, Released DEF PayInv
<1>11. Recorded' /\ Told'
  <2>1. \A k \in Key : payments[k] # None => payments'[k] = payments[k]
    BY <1>1, <1>2, <1>3
  <2>2. Names(a, key[r])'
    BY <1>1, <1>2, <1>3, <1>5 DEF Names, Created, Refused
  <2>3. \A q \in Request \ {r} : Names(answer[q], key[q])'
    <3> SUFFICES ASSUME NEW q \in Request \ {r} PROVE Names(answer[q], key[q])'
      OBVIOUS
    <3>1. answer'[q] = answer[q] /\ key'[q] = key[q] /\ Names(answer[q], key[q])
      BY DEF PayInv, TypeOK, Told
    <3>2. CASE pc[q] = "unsent"
      BY <3>1, <3>2 DEF PayInv, Asked, Names, NoAnswer
    <3>3. CASE pc[q] # "unsent"
      BY <2>1, <3>1, <3>3 DEF PayInv, Asked, Names
    <3> QED  BY <3>2, <3>3
  <2>4. Told'
    BY <2>2, <2>3 DEF PayInv, TypeOK, Told, Names
  <2>5. Recorded'
    BY <2>1 DEF PayInv, Recorded, Names
  <2> QED  BY <2>4, <2>5
<1> QED  BY <1>6, <1>7, <1>9, <1>10, <1>11 DEF PayInv

\* The record of an answer is true because the answer is.
LEMMA SaveInv ==
  ASSUME PayInv, NEW r \in Request, Save(r)
  PROVE  PayInv'
<1> DEFINE rec == [answer |-> answer[r], expired |-> FALSE]
<1>1. key[r] \in Key /\ answer[r] \in Answer /\ Names(answer[r], key[r])
  BY DEF PayInv, TypeOK, Asked, Told, Save
<1>2. rec \in Record
  BY <1>1 DEF Record
<1>3. /\ pc' = [pc EXCEPT ![r] = "done"]
      /\ answer' = [answer EXCEPT ![r] = answer[r]]
      /\ UNCHANGED <<key, order, balance, payments, faults>>
      /\ \A k \in Key : records'[k] \in {records[k], rec}
      /\ \A k \in Key : records'[k] = rec /\ records'[k] # records[k] => k = key[r]
      /\ records' \in [Key -> Record \cup {None}]
  BY <1>1, <1>2 DEF Save, Goto, PayInv, TypeOK
<1>4. TypeOK' /\ Asked'
  BY <1>1, <1>3 DEF PayInv, TypeOK, Asked, Place, Save
<1>5. Checked' /\ FundsReserved'
  BY <1>3 DEF PayInv, TypeOK, Checked, FundsReserved, Valid, Insertable, InTx
<1>8. Exclusive'
  <2>1. \A q \in Request : /\ \A c : Holds(q, c)' => Holds(q, c)
                           /\ \A k : Inserting(q, k)' => Inserting(q, k)
    BY <1>3 DEF PayInv, TypeOK, Holds, Inserting
  <2> QED  BY <2>1, Released DEF PayInv
<1>6. Told'
  BY <1>3 DEF PayInv, TypeOK, Told, Names
<1>7. Recorded'
  BY <1>1, <1>3 DEF PayInv, Recorded, Names
<1> QED  BY <1>4, <1>5, <1>6, <1>7, <1>8 DEF PayInv

-----------------------------------------------------------------------------
(* What else happens.                                                      *)

\* A failed call ends the request's work and changes no table, the commit whose
\* confirmation is lost excepted.
LEMMA FaultInv ==
  ASSUME PayInv, NEW r \in Request, DbError(r) \/ LoseCommit(r)
  PROVE  PayInv'
<1>1. faults' \in Nat
  BY DEF DbError, LoseCommit, Fault, PayInv, TypeOK
<1>2. \A c \in {400, 500} : Refused(c) \in Answer /\ Names(Refused(c), key[r])
  BY DEF Refused, Answer, Names
<1>3. CASE LoseCommit(r)
  BY <1>1, <1>3, ApplyInv DEF LoseCommit
<1>4. CASE DbError(r)
  <2>1. UNCHANGED <<key, order, balance, payments, records>>
    BY <1>4 DEF DbError
  <2>2. CASE /\ pc[r] = "arrived"
             /\ pc' = [pc EXCEPT ![r] = "done"]
             /\ answer' = [answer EXCEPT ![r] = Refused(500)]
    <3>1. pc[r] # "unsent" /\ Refused(500) \in Answer /\ Names(Refused(500), key[r])
      BY <1>2, <2>2
    <3> QED  BY <1>1, <2>1, <2>2, <3>1, Leave
  <2>3. CASE /\ pc[r] \in InTransaction
             /\ pc' = [pc EXCEPT ![r] = "answered"]
             /\ answer' = [answer EXCEPT ![r] = Refused(400)]
    <3>1. pc[r] # "unsent"
      BY <2>3 DEF InTransaction
    <3> QED  BY ZenonT(40), <1>1, <1>2, <2>1, <2>3, <3>1, Leave
  <2>4. CASE /\ pc[r] = "answered"
             /\ pc' = [pc EXCEPT ![r] = "done"]
             /\ UNCHANGED answer
    <3>1. /\ answer[r] \in Answer /\ Names(answer[r], key[r])
          /\ answer' = [answer EXCEPT ![r] = answer[r]]
      BY <2>4 DEF PayInv, TypeOK, Told
    <3> QED  BY <1>1, <2>1, <2>4, <3>1, Leave
  <2> QED  BY <1>4, <2>2, <2>3, <2>4 DEF DbError
<1> QED  BY <1>3, <1>4

\* A stop of the server frees every row and key and takes back no answer.
LEMMA CrashInv ==
  ASSUME PayInv, Crash
  PROVE  PayInv'
<1>1. /\ UNCHANGED <<balance, payments, records, key, order, answer>>
      /\ faults' \in Nat
      /\ pc' \in [Request -> Place]
      /\ \A r \in Request : pc'[r] \in {"unsent", "done", "lost"}
      /\ \A r \in Request : pc'[r] = "unsent" <=> pc[r] = "unsent"
  BY DEF Crash, Fault, PayInv, TypeOK, Place
<1>2. TypeOK' /\ Asked' /\ Checked' /\ FundsReserved'
  BY <1>1 DEF PayInv, TypeOK, Asked, Checked, FundsReserved, InTx
<1>3. Exclusive'
  <2>1. \A q \in Request : /\ \A c : ~Holds(q, c)'
                           /\ \A k : ~Inserting(q, k)'
    BY <1>1 DEF Holds, Inserting
  <2> QED  BY <2>1, Released DEF PayInv
<1>4. Recorded' /\ Told'
  BY <1>1 DEF PayInv, Recorded, Told, Names
<1> QED  BY <1>2, <1>3, <1>4 DEF PayInv

\* A record that expires keeps its answer; one that is deleted has none.
LEMMA CleanupInv ==
  ASSUME PayInv, DeleteExpired \/ \E k \in Key : Expire(k)
  PROVE  PayInv'
<1>1. /\ UNCHANGED <<balance, payments, pc, key, order, answer>>
      /\ faults' \in Nat
  BY DEF DeleteExpired, Expire, Fault, PayInv, TypeOK
<1>2. /\ records' \in [Key -> Record \cup {None}]
      /\ \A k \in Key : records'[k] # None =>
                         records[k] # None /\ records'[k].answer = records[k].answer
  <2>1. CASE DeleteExpired
    BY <2>1 DEF DeleteExpired, PayInv, TypeOK
  <2>2. ASSUME NEW k \in Key, Expire(k)
        PROVE  <1>2!1 /\ <1>2!2
    <3>1. records[k] \in Record
      BY <2>2 DEF Expire, Live, PayInv, TypeOK
    <3>2. /\ [records[k] EXCEPT !.expired = TRUE] \in Record
          /\ [records[k] EXCEPT !.expired = TRUE].answer = records[k].answer
      BY <3>1 DEF Record
    <3>3. records' = [records EXCEPT ![k] = [records[k] EXCEPT !.expired = TRUE]]
      BY <2>2 DEF Expire, PayInv, TypeOK
    <3>4. records[k] # None
      BY <2>2 DEF Expire, Live
    <3> QED  BY <3>2, <3>3, <3>4 DEF PayInv, TypeOK
  <2> QED  BY <2>1, <2>2
<1>3. TypeOK' /\ Asked' /\ Checked' /\ FundsReserved'
  BY <1>1, <1>2 DEF PayInv, TypeOK, Asked, Checked, FundsReserved, Insertable
<1>4. Exclusive'
  BY <1>1, Released DEF PayInv, Holds, Inserting
<1>5. Recorded' /\ Told'
  BY <1>1, <1>2 DEF PayInv, Recorded, Told, Names
<1> QED  BY <1>3, <1>4, <1>5 DEF PayInv

\* Every step keeps the invariant.
LEMMA StepInv == PayInv /\ [Next]_vars => PayInv'
<1> SUFFICES ASSUME PayInv, [Next]_vars PROVE PayInv'
  OBVIOUS
<1>1. ASSUME NEW r \in Request, Serve(r) PROVE PayInv'
  <2>1. CASE Commit(r)
    <3>1. faults' \in Nat
      BY <2>1 DEF Commit, Goto, PayInv, TypeOK
    <3> QED  BY <2>1, <3>1, ApplyInv DEF Commit, Goto
  <2> QED  BY <1>1, <2>1, ServeInv, SaveInv DEF Serve
<1>2. ASSUME NEW r \in Request, NEW k \in Key, NEW o \in Order, Arrive(r, k, o)
      PROVE  PayInv'
  BY <1>2, ArriveInv
<1>3. ASSUME NEW r \in Request, DbError(r) \/ LoseCommit(r) PROVE PayInv'
  BY <1>3, FaultInv
<1>4. CASE UNCHANGED vars
  <2>1. Exclusive'
    BY <1>4, Released DEF PayInv, Holds, Inserting, vars
  <2> QED
    BY <1>4, <2>1
    DEF vars, PayInv, TypeOK, Asked, Checked, FundsReserved, Insertable, Recorded,
        Told, Names
<1> QED  BY <1>1, <1>2, <1>3, <1>4, CrashInv, CleanupInv DEF Next

-----------------------------------------------------------------------------
(* The theorems.                                                           *)

LEMMA Invariant == Spec => []PayInv
  BY InitInv, StepInv, PTL DEF Spec

\* Every row and every request keeps its type whatever fails; the balance CHECK
\* of migrations/001_init.sql never fires.
THEOREM TypeCorrect == Spec => []TypeOK
<1>1. PayInv => TypeOK
  BY DEF PayInv
<1> QED  BY <1>1, Invariant, PTL

\* The balance check of TransferTx is still true at its commit.
THEOREM FundsStayReserved == Spec => []FundsReserved
<1>1. PayInv => FundsReserved
  BY DEF PayInv
<1> QED  BY <1>1, Invariant, PTL

\* Nobody is told of a payment that his key has not made.
THEOREM CreatedIsAlwaysPaid == Spec => []CreatedIsPaid
<1>1. PayInv => CreatedIsPaid
  BY DEF PayInv, CreatedIsPaid, Told, Names
<1> QED  BY <1>1, Invariant, PTL

\* The service implements AtomicPayments: a commit is a payment, with the
\* payer's money and a new key, and nothing else moves money or makes one.
THEOREM Implements == Spec => KeepsPromise
<1>1. Init => Promise!Init
  BY DEF Init, Promise!Init, Paid
<1>2. PayInv /\ [Next]_vars => [Promise!Next]_<<balance, Paid>>
  <2> SUFFICES ASSUME PayInv, [Next]_vars
               PROVE  [Promise!Next]_<<balance, Paid>>
    OBVIOUS
  <2>1. ASSUME NEW r \in Request, Apply(r)
        PROVE  Promise!Next
    <3> DEFINE o == order[r]
    <3>1. /\ key[r] \in Key /\ o \in Order /\ o.amount \in Int /\ o.amount > 0
          /\ o.from \in Account /\ o.to \in Account \ {o.from}
          /\ balance[o.from] >= o.amount
          /\ balance[o.from] \in Nat
          /\ payments[key[r]] = None
          /\ payments \in [Key -> Payment \cup {None}]
      BY <2>1 DEF Apply, PayInv, TypeOK, Asked, Checked, Valid, Insertable,
                  FundsReserved, InTx
    <3>2. [id |-> r, order |-> o] # None
      BY <3>1 DEF Payment
    <3>3. Paid[key[r]] = None /\ Paid' = [Paid EXCEPT ![key[r]] = o]
      BY <2>1, <3>1, <3>2 DEF Apply, Paid
    <3>4. Promise!Pay(key[r], o)
      BY <2>1, <3>1, <3>3 DEF Apply, Promise!Pay
    <3> QED  BY <3>1, <3>4 DEF Promise!Next
  <2>2. CASE UNCHANGED <<balance, payments>>
    BY <2>2 DEF Paid
  <2>3. ASSUME NEW r \in Request, Serve(r), ~Apply(r)
        PROVE  UNCHANGED <<balance, payments>>
    BY <2>3 DEF Serve, Replay, Miss, Reject, LockSender, Transfer, Insert, Commit,
                Save, BreakDeadlock
  <2>4. ASSUME NEW r \in Request, DbError(r)
        PROVE  UNCHANGED <<balance, payments>>
    BY <2>4 DEF DbError
  <2>5. ASSUME NEW r \in Request, NEW k \in Key, NEW u \in Order, Arrive(r, k, u)
        PROVE  UNCHANGED <<balance, payments>>
    BY <2>5 DEF Arrive
  <2>6. ASSUME Crash \/ DeleteExpired \/ \E k \in Key : Expire(k)
        PROVE  UNCHANGED <<balance, payments>>
    BY <2>6 DEF Crash, DeleteExpired, Expire
  <2> QED
    BY <2>1, <2>2, <2>3, <2>4, <2>5, <2>6 DEF Next, LoseCommit, vars
<1> QED
  BY <1>1, <1>2, Invariant, PTL DEF Spec, KeepsPromise, Promise!Spec
=============================================================================
