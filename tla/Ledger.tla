------------------------------- MODULE Ledger -------------------------------
(***************************************************************************)
(* projects/event-sourced-ledger: the event store and the accounts over    *)
(* it, used by goroutines that give one command after another.             *)
(*                                                                         *)
(* The store's mutex makes Load and Append one step each; between them a   *)
(* command works on its Account object, which has no lock and belongs to   *)
(* one goroutine.  A goroutine makes a new Account for each command or, if *)
(* Reuse, may go on with the one it has, as cmd/main.go does.              *)
(*                                                                         *)
(* A definition named X_Y is X with the fault Y, kept beside X to confirm  *)
(* that the properties notice it; the specification does not use it.       *)
(***************************************************************************)
EXTENDS Integers, Sequences, FiniteSets

CONSTANTS Account,   \* aggregate ids
          Caller,    \* goroutines
          Amount,    \* what commands ask for
          None,
          Reuse

\* Bound: commands given in one behaviour.
CONSTANT MaxCommands

ASSUME AmountAssumption == Amount \subseteq Nat
ASSUME NoneAssumption   == None \notin Account
ASSUME CallerAssumption == IsFiniteSet(Caller)
ASSUME ReuseAssumption  == Reuse \in BOOLEAN
ASSUME BoundAssumption  == MaxCommands \in Nat

Kind  == {"opened", "deposited", "withdrawn", "transferred"}

\* `with` is the other account of a transfer; the id is the place in `events`.
Event == [account: Account, kind: Kind, amount: Nat, with: Account \cup {None},
          version: Nat]

VARIABLES
  events, streams,   \* the two fields of Store
  pc,                \* where the command of a goroutine is
  handle,            \* its Account: [id, balance, version]
  command,           \* [kind, amount, to]
  credit,            \* to.Version of a transfer
  used               \* commands given

vars == <<events, streams, pc, handle, command, credit, used>>

NewAccount(a) == [id |-> a, balance |-> 0, version |-> 0]
NoCommand == [kind |-> "opened", amount |-> 0, to |-> None]

Init ==
  /\ events = <<>>
  /\ streams = [a \in Account |-> <<>>]
  /\ pc = [c \in Caller |-> "idle"]
  /\ handle \in [Caller -> {NewAccount(a) : a \in Account}]
  /\ command = [c \in Caller |-> NoCommand]
  /\ credit = [c \in Caller |-> 0]
  /\ used = 0

-----------------------------------------------------------------------------
(* Replaying events.                                                       *)

\* apply
Effect(e) ==
  CASE e.kind = "opened"    -> 0
    [] e.kind = "deposited" -> e.amount
    [] OTHER                -> 0 - e.amount

\* The balance after a stream.
Replay(s) ==
  LET sum[n \in 0..Len(s)] == IF n = 0 THEN 0 ELSE sum[n-1] + Effect(s[n])
  IN sum[Len(s)]

\* Hydrate adds the whole stream to what the object has already.
Hydrated(h) ==
  LET s == streams[h.id] IN
  [id |-> h.id, balance |-> h.balance + Replay(s),
   version |-> IF s = <<>> THEN h.version ELSE s[Len(s)].version]

\* BalanceProjection.Rebuild: the balance of a after the events es.
Rebuilt(es, a) ==
  LET bal[n \in 0..Len(es)] ==
        IF n = 0 THEN 0
        ELSE IF es[n].account # a THEN bal[n-1]
        ELSE IF es[n].kind = "opened" THEN 0
        ELSE bal[n-1] + Effect(es[n])
  IN bal[Len(es)]

-----------------------------------------------------------------------------
(* The store.                                                              *)

Current_NoCheck(a, expected) == TRUE

\* The version check of Append.
Current(a, expected) == Len(streams[a]) = expected

\* Append of one event.
Add(a, kind, amount, with) ==
  LET e == [account |-> a, kind |-> kind, amount |-> amount, with |-> with,
            version |-> Len(streams[a]) + 1]
  IN /\ events' = Append(events, e)
     /\ streams' = [streams EXCEPT ![a] = Append(@, e)]

-----------------------------------------------------------------------------
(* Commands.                                                               *)

\* The object that the next command of c is given to.
Objects(c) == {NewAccount(a) : a \in Account} \cup (IF Reuse THEN {handle[c]} ELSE {})

Give(c) ==
  /\ pc[c] = "idle"
  /\ used < MaxCommands
  /\ used' = used + 1

Opening_Hydrated(h) == Hydrated(h)

\* Open does not hydrate: it appends at the version the object has.
Opening(h) == h

Open(c) ==
  /\ Give(c)
  /\ \E h \in Objects(c) :
       IF Current(h.id, Opening(h).version)
       THEN /\ Add(h.id, "opened", 0, None)
            /\ handle' = [handle EXCEPT ![c] = [Opening(h) EXCEPT !.version = @ + 1]]
       ELSE /\ handle' = [handle EXCEPT ![c] = Opening(h)]
            /\ UNCHANGED <<events, streams>>
  /\ UNCHANGED <<pc, command, credit>>

\* Deposit, Withdraw or Transfer begins: the amount, Hydrate, the balance.
Decide(c, kind, m, to) ==
  /\ Give(c)
  /\ \E h \in Objects(c) :
       IF m <= 0
       THEN /\ handle' = [handle EXCEPT ![c] = h]
            /\ UNCHANGED <<pc, command>>
       ELSE /\ handle' = [handle EXCEPT ![c] = Hydrated(h)]
            /\ IF kind # "deposited" /\ Hydrated(h).balance < m
               THEN UNCHANGED <<pc, command>>
               ELSE /\ pc' = [pc EXCEPT ![c] = "decided"]
                    /\ command' = [command EXCEPT ![c] =
                                     [kind |-> kind, amount |-> m, to |-> to]]
  /\ UNCHANGED <<events, streams, credit>>

AfterConflict_Credit(c) == IF command[c].kind = "transferred" THEN "debited" ELSE "idle"

\* A conflict is returned to the caller.
AfterConflict(c) == "idle"

\* The command's event is appended; a transfer goes on with the credit.
Record(c) ==
  LET h == handle[c]
      k == command[c]
  IN
  /\ pc[c] = "decided"
  /\ IF Current(h.id, h.version)
     THEN /\ Add(h.id, k.kind, k.amount, k.to)
          /\ pc' = [pc EXCEPT ![c] = IF k.kind = "transferred" THEN "debited" ELSE "idle"]
          \* Only Deposit keeps the object up to date.
          /\ handle' = IF k.kind # "deposited" THEN handle
                       ELSE [handle EXCEPT ![c].balance = @ + k.amount,
                                           ![c].version = @ + 1]
     ELSE /\ pc' = [pc EXCEPT ![c] = AfterConflict(c)]
          /\ UNCHANGED <<events, streams, handle>>
  /\ UNCHANGED <<command, credit, used>>

\* Transfer hydrates a new Account for the receiver.
LoadReceiver(c) ==
  /\ pc[c] = "debited"
  /\ pc' = [pc EXCEPT ![c] = "crediting"]
  /\ credit' = [credit EXCEPT ![c] = Hydrated(NewAccount(command[c].to)).version]
  /\ UNCHANGED <<events, streams, handle, command, used>>

\* The credit; if it conflicts the money stays on its way.
Credit(c) ==
  LET k == command[c] IN
  /\ pc[c] = "crediting"
  /\ pc' = [pc EXCEPT ![c] = "idle"]
  /\ IF Current(k.to, credit[c])
     THEN Add(k.to, "deposited", k.amount, handle[c].id)
     ELSE UNCHANGED <<events, streams>>
  /\ UNCHANGED <<handle, command, credit, used>>

Next ==
  \E c \in Caller :
    \/ Open(c) \/ Record(c) \/ LoadReceiver(c) \/ Credit(c)
    \/ \E m \in Amount :
         \/ Decide(c, "deposited", m, None) \/ Decide(c, "withdrawn", m, None)
         \/ \E to \in Account : Decide(c, "transferred", m, to)

Spec == Init /\ [][Next]_vars
=============================================================================
