---------------------------- MODULE LedgerProps ----------------------------
(***************************************************************************)
(* What the accounts and the event store of Ledger guarantee.              *)
(***************************************************************************)
EXTENDS Ledger

Handle  == [id: Account, balance: Nat, version: Nat]
Command == [kind: Kind, amount: Amount \cup {0}, to: Account \cup {None}]

\* Events, objects and commands keep their types; versions in a stream are its
\* positions, and no object is ever hydrated to a negative balance.
TypeOK ==
  /\ events \in Seq(Event)
  /\ streams \in [Account -> Seq(Event)]
  /\ \A a \in Account : \A n \in DOMAIN streams[a] : streams[a][n].version = n
  /\ pc \in [Caller -> {"idle", "decided", "debited", "crediting"}]
  /\ handle \in [Caller -> Handle]
  /\ command \in [Caller -> Command]
  /\ credit \in [Caller -> Nat]
  /\ used \in Nat

\* docs/architecture.md, Projections: the read model that Rebuild makes from all
\* events is, for each account, the balance that Hydrate makes from its stream,
\* although Rebuild sets it to 0 at an AccountOpened and Hydrate does not.
ProjectionAgrees == \A a \in Account : Rebuilt(events, a) = Replay(streams[a])

\* The store is a Bank: whatever two commands have read before either appends,
\* no account is overdrawn, and a transfer credits at most once what it debited.
Worth == [a \in Account |-> Replay(streams[a])]
Sent(a, b, m) ==
  {n \in DOMAIN events : /\ events[n].kind = "transferred"
                         /\ events[n].account = a
                         /\ events[n].with = b
                         /\ events[n].amount = m}
Received(a, b, m) ==
  {n \in DOMAIN events : /\ events[n].kind = "deposited"
                         /\ events[n].account = b
                         /\ events[n].with = a
                         /\ events[n].amount = m}
Transit ==
  [a \in Account |-> [b \in Account |-> [m \in Amount |->
     Cardinality(Sent(a, b, m)) - Cardinality(Received(a, b, m))]]]
Books == INSTANCE Bank WITH balance <- Worth, transit <- Transit
KeepsBooks == Books!Spec

-----------------------------------------------------------------------------
(* What the repository says and the code does not do.                      *)

\* docs/architecture.md, Event Flow: an aggregate is hydrated to the current
\* state and validated before it appends, so no account is overdrawn.
NoOverdraft == \A a \in Account : Replay(streams[a]) >= 0
=============================================================================
