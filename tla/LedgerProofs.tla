---------------------------- MODULE LedgerProofs ----------------------------
(***************************************************************************)
(* Ledger implements Bank, and the projection agrees with the accounts,    *)
(* for any accounts, amounts, goroutines and number of commands, as long   *)
(* as every command is given to an Account of its own.                     *)
(***************************************************************************)
EXTENDS LedgerProps, TLAPS, SequenceTheorems, FiniteSetTheorems,
        WellFoundedInduction

USE AmountAssumption, NoneAssumption, ReuseAssumption, BoundAssumption

-----------------------------------------------------------------------------
(* Folds over a sequence exist, and each step adds one element's effect.   *)

LEMMA Least ==
  ASSUME NEW T \in SUBSET Nat, T # {}
  PROVE  \E k \in T : \A n \in T : k <= n
<1>1. \E k \in T : \A n \in T : <<n, k>> \notin OpToRel(<, Nat)
  BY NatLessThanWellFounded, WFMin
<1>2. \A n, k \in T : <<n, k>> \notin OpToRel(<, Nat) => k <= n
  BY DEF OpToRel
<1> QED  BY <1>1, <1>2

\* A step function G, given as a table, can be iterated N times from 0.
Iterates(f, N, G) ==
  /\ f \in [0..N -> Int]
  /\ f[0] = 0
  /\ \A n \in 1..N : f[n] = G[n][f[n-1]]

LEMMA IterateExists ==
  ASSUME NEW N \in Nat, NEW G \in [1..N -> [Int -> Int]]
  PROVE  \E f : Iterates(f, N, G)
<1> DEFINE Bad == {k \in 0..N : ~ \E f : Iterates(f, k, G)}
<1>1. ASSUME Bad # {} PROVE FALSE
  <2>0. Bad \in SUBSET Nat
    OBVIOUS
  <2> HIDE DEF Bad
  <2>1. PICK k \in Bad : \A n \in Bad : k <= n
    BY <1>1, <2>0, Least
  <2>2. CASE k = 0
    <3>1. Iterates([n \in 0..0 |-> 0], 0, G)
      BY DEF Iterates
    <3> QED  BY <2>1, <2>2, <3>1 DEF Bad
  <2>3. CASE k # 0
    <3>1. k \in 1..N /\ k-1 \in 0..N /\ ~(k <= k-1)
      BY <2>1, <2>3 DEF Bad
    <3>2. PICK f : Iterates(f, k-1, G)
      BY <2>1, <3>1 DEF Bad
    <3> DEFINE g == [n \in 0..k |-> IF n = k THEN G[k][f[k-1]] ELSE f[n]]
    <3>3. G[k][f[k-1]] \in Int
      BY <3>1, <3>2 DEF Iterates
    <3>4. g \in [0..k -> Int] /\ g[0] = 0
      <4>1. f \in [0..(k-1) -> Int] /\ f[0] = 0
        BY <3>2 DEF Iterates
      <4>2. ASSUME NEW n \in 0..k PROVE g[n] \in Int
        <5>1. n = k \/ n \in 0..(k-1)
          BY <3>1
        <5> QED  BY <3>3, <4>1, <5>1
      <4>3. 0 \in 0..k /\ 0 # k
        BY <3>1
      <4> QED  BY <4>1, <4>2, <4>3
    <3>5. ASSUME NEW n \in 1..k PROVE g[n] = G[n][g[n-1]]
      <4>1. CASE n = k
        BY <3>1, <4>1
      <4>2. CASE n # k
        BY <3>1, <3>2, <4>2 DEF Iterates
      <4> QED  BY <4>1, <4>2
    <3> HIDE DEF g
    <3>6. Iterates(g, k, G)
      BY <3>4, <3>5 DEF Iterates
    <3> QED  BY <2>1, <3>6 DEF Bad
  <2> QED  BY <2>2, <2>3
<1>2. N \in 0..N
  OBVIOUS
<1>3. N \notin Bad
  <2> HIDE DEF Bad
  <2> QED  BY <1>1
<1> QED  BY <1>2, <1>3

\* Whatever starts and goes on in the same way, as far as it is known to be a
\* number, is the same iteration.
LEMMA IterateUnique ==
  ASSUME NEW N \in Nat, NEW G, NEW f, Iterates(f, N, G),
         NEW g, g[0] = 0,
         \A n \in 1..N : g[n-1] \in Int => g[n] = G[n][g[n-1]]
  PROVE  \A n \in 0..N : f[n] = g[n]
<1> DEFINE Bad == {n \in 0..N : f[n] # g[n]}
<1>1. ASSUME Bad # {} PROVE FALSE
  <2>0. Bad \in SUBSET Nat
    OBVIOUS
  <2>1. PICK k \in Bad : \A n \in Bad : k <= n
    <3> HIDE DEF Bad
    <3> QED  BY <1>1, <2>0, Least
  <2>2. k # 0
    BY <2>1 DEF Iterates
  <2>3. k \in 1..N /\ k-1 \in 0..N /\ k-1 \notin Bad
    BY <2>1, <2>2
  <2>4. f[k-1] = g[k-1] /\ f[k-1] \in Int
    BY <2>3 DEF Iterates
  <2>5. f[k] = G[k][f[k-1]] /\ g[k] = G[k][g[k-1]]
    BY <2>3, <2>4 DEF Iterates
  <2> QED  BY <2>1, <2>4, <2>5
<1> QED  BY <1>1

-----------------------------------------------------------------------------
(* Replay and Rebuilt.                                                     *)

LEMMA EffectType == \A e \in Event : Effect(e) \in Int
  BY DEF Event, Effect

Sums(s) == [n \in 1..Len(s) |-> [x \in Int |-> x + Effect(s[n])]]

LEMMA ReplayIterates ==
  ASSUME NEW s \in Seq(Event)
  PROVE  \E f : Iterates(f, Len(s), Sums(s)) /\ Replay(s) = f[Len(s)]
<1> DEFINE F(f) == [n \in 0..Len(s) |-> IF n = 0 THEN 0 ELSE f[n-1] + Effect(s[n])]
           sum == CHOOSE f : f = F(f)
<1>1. Len(s) \in Nat /\ \A n \in 1..Len(s) : Effect(s[n]) \in Int
  BY LenProperties, ElementOfSeq, EffectType
<1>2. Sums(s) \in [1..Len(s) -> [Int -> Int]]
  BY <1>1 DEF Sums
<1>3. PICK f : Iterates(f, Len(s), Sums(s))
  BY <1>1, <1>2, IterateExists
<1>4. f = F(f)
  <2>1. f \in [0..Len(s) -> Int]
    BY <1>3 DEF Iterates
  <2>2. ASSUME NEW n \in 0..Len(s), n # 0
        PROVE  f[n] = f[n-1] + Effect(s[n])
    <3>1. n \in 1..Len(s) /\ f[n-1] \in Int
      BY <1>1, <2>1, <2>2
    <3> QED  BY <1>3, <3>1 DEF Iterates, Sums
  <2>3. f[0] = 0
    BY <1>3 DEF Iterates
  <2> QED  BY <2>1, <2>2, <2>3
<1>5. sum = F(sum)
  BY <1>4
<1> HIDE DEF sum
<1>6. sum[0] = 0 /\ \A n \in 1..Len(s) : sum[n] = sum[n-1] + Effect(s[n])
  BY <1>1, <1>5
<1>7. \A n \in 1..Len(s) : sum[n-1] \in Int => sum[n] = Sums(s)[n][sum[n-1]]
  BY <1>6 DEF Sums
<1>8. f[Len(s)] = sum[Len(s)]
  BY <1>1, <1>3, <1>6, <1>7, IterateUnique
<1>9. Replay(s) = sum[Len(s)]
  BY DEF Replay, sum
<1> QED  BY <1>3, <1>8, <1>9

\* An iteration with one more step.
LEMMA IterateAppend ==
  ASSUME NEW N \in Nat, NEW G, NEW H, NEW f, NEW g,
         Iterates(f, N, G), Iterates(g, N+1, H),
         \A n \in 1..N : H[n] = G[n]
  PROVE  f[N] \in Int /\ g[N+1] = H[N+1][f[N]]
<1>1. g[0] = 0 /\ \A n \in 1..N : g[n] = G[n][g[n-1]]
  <2>1. g[0] = 0 /\ \A n \in 1..(N+1) : g[n] = H[n][g[n-1]]
    BY DEF Iterates
  <2>2. \A n \in 1..N : n \in 1..(N+1)
    OBVIOUS
  <2> QED  BY <2>1, <2>2
<1>2. f[N] = g[N]
  BY <1>1, IterateUnique
<1>3. f[N] \in Int
  BY DEF Iterates
<1>4. g[N+1] = H[N+1][g[N]]
  BY DEF Iterates
<1> QED  BY <1>2, <1>3, <1>4

LEMMA ReplayEmpty == Replay(<<>>) = 0
<1>1. PICK f : Iterates(f, Len(<<>>), Sums(<<>>)) /\ Replay(<<>>) = f[Len(<<>>)]
  BY EmptySeq, ReplayIterates
<1> QED  BY <1>1, EmptySeq DEF Iterates

\* One more event has its effect on the balance.
LEMMA ReplayAppend ==
  ASSUME NEW s \in Seq(Event), NEW e \in Event
  PROVE  /\ Replay(s) \in Int
         /\ Replay(Append(s, e)) = Replay(s) + Effect(e)
<1> DEFINE t == Append(s, e)
<1>1. t \in Seq(Event) /\ Len(t) = Len(s) + 1 /\ Len(s) \in Nat
      /\ t[Len(s)+1] = e /\ \A n \in 1..Len(s) : t[n] = s[n]
  BY LenProperties, AppendProperties
<1> HIDE DEF t
<1>2. PICK f : Iterates(f, Len(s), Sums(s)) /\ Replay(s) = f[Len(s)]
  BY ReplayIterates
<1>3. PICK g : Iterates(g, Len(t), Sums(t)) /\ Replay(t) = g[Len(t)]
  BY <1>1, ReplayIterates
<1>4. \A n \in 1..Len(s) : Sums(t)[n] = Sums(s)[n]
  BY <1>1 DEF Sums
<1>5. f[Len(s)] \in Int /\ g[Len(t)] = Sums(t)[Len(t)][f[Len(s)]]
  BY <1>1, <1>2, <1>3, <1>4, IterateAppend
<1>6. Sums(t)[Len(t)][f[Len(s)]] = f[Len(s)] + Effect(e)
  BY <1>1, <1>5 DEF Sums
<1> QED  BY <1>2, <1>3, <1>5, <1>6 DEF t

Sets(es, a) ==
  [n \in 1..Len(es) |-> [x \in Int |->
     IF es[n].account # a THEN x
     ELSE IF es[n].kind = "opened" THEN 0
     ELSE x + Effect(es[n])]]

LEMMA RebuiltIterates ==
  ASSUME NEW es \in Seq(Event), NEW a
  PROVE  \E f : Iterates(f, Len(es), Sets(es, a)) /\ Rebuilt(es, a) = f[Len(es)]
<1> DEFINE F(f) == [n \in 0..Len(es) |->
                      IF n = 0 THEN 0
                      ELSE IF es[n].account # a THEN f[n-1]
                      ELSE IF es[n].kind = "opened" THEN 0
                      ELSE f[n-1] + Effect(es[n])]
           bal == CHOOSE f : f = F(f)
<1>1. Len(es) \in Nat /\ \A n \in 1..Len(es) : Effect(es[n]) \in Int
  BY LenProperties, ElementOfSeq, EffectType
<1>2. Sets(es, a) \in [1..Len(es) -> [Int -> Int]]
  BY <1>1 DEF Sets
<1>3. PICK f : Iterates(f, Len(es), Sets(es, a))
  BY <1>1, <1>2, IterateExists
<1>4. f = F(f)
  <2>1. f \in [0..Len(es) -> Int]
    BY <1>3 DEF Iterates
  <2>2. ASSUME NEW n \in 0..Len(es), n # 0
        PROVE  f[n] = F(f)[n]
    <3>1. n \in 1..Len(es) /\ f[n-1] \in Int
      BY <1>1, <2>1, <2>2
    <3> QED  BY <1>3, <2>2, <3>1 DEF Iterates, Sets
  <2>3. f[0] = 0
    BY <1>3 DEF Iterates
  <2> QED  BY <2>1, <2>2, <2>3
<1>5. bal = F(bal)
  BY <1>4
<1> HIDE DEF bal
<1>6. bal[0] = 0
      /\ \A n \in 1..Len(es) :
           bal[n] = IF es[n].account # a THEN bal[n-1]
                    ELSE IF es[n].kind = "opened" THEN 0
                    ELSE bal[n-1] + Effect(es[n])
  <2>1. 0 \in 0..Len(es) /\ \A n \in 1..Len(es) : n \in 0..Len(es) /\ n # 0
    BY <1>1
  <2>2. \A n \in 0..Len(es) : bal[n] = F(bal)[n]
    BY <1>5
  <2> QED  BY <2>1, <2>2
<1>7. \A n \in 1..Len(es) : bal[n-1] \in Int => bal[n] = Sets(es, a)[n][bal[n-1]]
  BY <1>6 DEF Sets
<1>8. f[Len(es)] = bal[Len(es)]
  BY <1>1, <1>3, <1>6, <1>7, IterateUnique
<1>9. Rebuilt(es, a) = bal[Len(es)]
  BY DEF Rebuilt, bal
<1> QED  BY <1>3, <1>8, <1>9

LEMMA RebuiltEmpty == \A a : Rebuilt(<<>>, a) = 0
<1> TAKE a
<1>1. PICK f : Iterates(f, Len(<<>>), Sets(<<>>, a)) /\ Rebuilt(<<>>, a) = f[Len(<<>>)]
  BY EmptySeq, RebuiltIterates
<1> QED  BY <1>1, EmptySeq DEF Iterates

\* One more event changes what is rebuilt for its account only.
LEMMA RebuiltAppend ==
  ASSUME NEW es \in Seq(Event), NEW e \in Event, NEW a
  PROVE  Rebuilt(Append(es, e), a) =
           IF e.account # a THEN Rebuilt(es, a)
           ELSE IF e.kind = "opened" THEN 0
           ELSE Rebuilt(es, a) + Effect(e)
<1> DEFINE t == Append(es, e)
<1>1. t \in Seq(Event) /\ Len(t) = Len(es) + 1 /\ Len(es) \in Nat
      /\ t[Len(es)+1] = e /\ \A n \in 1..Len(es) : t[n] = es[n]
  BY LenProperties, AppendProperties
<1> HIDE DEF t
<1>2. PICK f : Iterates(f, Len(es), Sets(es, a)) /\ Rebuilt(es, a) = f[Len(es)]
  BY RebuiltIterates
<1>3. PICK g : Iterates(g, Len(t), Sets(t, a)) /\ Rebuilt(t, a) = g[Len(t)]
  BY <1>1, RebuiltIterates
<1>4. ASSUME NEW n \in 1..Len(es) PROVE Sets(t, a)[n] = Sets(es, a)[n]
  <2>1. n \in 1..Len(t) /\ t[n] = es[n]
    BY <1>1
  <2> QED  BY <2>1 DEF Sets
<1>5. f[Len(es)] \in Int /\ g[Len(t)] = Sets(t, a)[Len(t)][f[Len(es)]]
  BY <1>1, <1>2, <1>3, <1>4, IterateAppend
<1>6. Sets(t, a)[Len(t)][f[Len(es)]] =
        IF e.account # a THEN f[Len(es)]
        ELSE IF e.kind = "opened" THEN 0
        ELSE f[Len(es)] + Effect(e)
  BY <1>1, <1>5 DEF Sets
<1> QED  BY <1>2, <1>3, <1>5, <1>6 DEF t

-----------------------------------------------------------------------------
(* The inductive invariant, when no Account is used twice.                 *)

\* No account is overdrawn.
Solvent == \A a \in Account : Replay(streams[a]) >= 0

\* What a decision rests on: the object is not ahead of its stream and, unless
\* another event has been appended since, its balance is the account's.
Valid(c) ==
  LET h == handle[c]
      k == command[c]
  IN /\ k.amount \in Amount /\ k.amount > 0
     /\ k.kind # "opened"
     /\ k.to \in Account <=> k.kind = "transferred"
     /\ h.version <= Len(streams[h.id])
     /\ h.version = Len(streams[h.id]) => h.balance = Replay(streams[h.id])
     /\ k.kind # "deposited" => h.balance >= k.amount

Decided == \A c \in Caller : pc[c] = "decided" => Valid(c)

\* A goroutine between the debit and the credit of a transfer.
Halfway(c) == pc[c] \in {"debited", "crediting"}

OnTheWay ==
  \A c \in Caller : Halfway(c) => command[c].amount \in Amount /\ command[c].to \in Account

\* Every transfer that will still be credited has been debited.
Owers(a, b, m) ==
  {c \in Caller : Halfway(c) /\ handle[c].id = a
                  /\ command[c].to = b /\ command[c].amount = m}

Owed ==
  \A a, b \in Account, m \in Amount :
    Cardinality(Sent(a, b, m)) >= Cardinality(Received(a, b, m)) + Cardinality(Owers(a, b, m))

LedgerInv == TypeOK /\ Solvent /\ Decided /\ OnTheWay /\ Owed /\ ProjectionAgrees

USE CallerAssumption

-----------------------------------------------------------------------------
(* What the append of one event does.                                      *)

LEMMA SentFinite ==
  ASSUME TypeOK, NEW x, NEW y, NEW m
  PROVE  /\ IsFiniteSet(Sent(x, y, m)) /\ Cardinality(Sent(x, y, m)) \in Nat
         /\ IsFiniteSet(Received(x, y, m)) /\ Cardinality(Received(x, y, m)) \in Nat
<1>1. IsFiniteSet(DOMAIN events)
  <2>1. DOMAIN events = 1..Len(events) /\ Len(events) \in Int
    BY LenProperties DEF TypeOK
  <2>2. IsFiniteSet(1..Len(events))
    BY <2>1, FS_Interval
  <2> QED  BY <2>1, <2>2
<1>2. Sent(x, y, m) \subseteq DOMAIN events /\ Received(x, y, m) \subseteq DOMAIN events
  BY DEF Sent, Received
<1> QED  BY <1>1, <1>2, FS_Subset, FS_CardinalityType

LEMMA OwersFinite ==
  ASSUME NEW x, NEW y, NEW m
  PROVE  IsFiniteSet(Owers(x, y, m)) /\ Cardinality(Owers(x, y, m)) \in Nat
<1>1. Owers(x, y, m) \subseteq Caller
  BY DEF Owers
<1> QED  BY <1>1, FS_Subset, FS_CardinalityType

\* The part of TypeOK that is about the store.
StoreOK ==
  /\ events \in Seq(Event)
  /\ streams \in [Account -> Seq(Event)]
  /\ \A a \in Account : \A n \in DOMAIN streams[a] : streams[a][n].version = n

\* The streams: types, versions and balances.
LEMMA AddStreams ==
  ASSUME TypeOK, NEW a \in Account, NEW kind \in Kind, NEW amount \in Nat,
         NEW with \in Account \cup {None}, Add(a, kind, amount, with)
  PROVE  /\ StoreOK'
         /\ \A x \in Account : Len(streams[x]) \in Nat /\ Replay(streams[x]) \in Int
         /\ \A x \in Account : x # a => streams'[x] = streams[x]
         /\ Len(streams'[a]) = Len(streams[a]) + 1
         /\ Replay(streams'[a]) =
              Replay(streams[a]) +
              (IF kind = "opened" THEN 0 ELSE IF kind = "deposited" THEN amount ELSE 0 - amount)
<1> DEFINE s == streams[a]
           e == [account |-> a, kind |-> kind, amount |-> amount, with |-> with,
                 version |-> Len(streams[a]) + 1]
<1>1. \A x \in Account : streams[x] \in Seq(Event) /\ Len(streams[x]) \in Nat
  BY LenProperties DEF TypeOK
<1>2. e \in Event
  BY <1>1 DEF Event
<1>3. events' = Append(events, e) /\ streams' = [streams EXCEPT ![a] = Append(s, e)]
  BY DEF Add
<1>4. e.version = Len(s) + 1
  OBVIOUS
<1>5. Effect(e) = CASE kind = "opened"    -> 0
                    [] kind = "deposited" -> amount
                    [] OTHER              -> 0 - amount
  BY DEF Effect
<1> HIDE DEF e
<1>6. /\ Append(s, e) \in Seq(Event) /\ Len(Append(s, e)) = Len(s) + 1
      /\ DOMAIN Append(s, e) = 1..(Len(s)+1) /\ DOMAIN s = 1..Len(s)
      /\ Append(s, e)[Len(s)+1] = e /\ \A n \in 1..Len(s) : Append(s, e)[n] = s[n]
  BY <1>1, <1>2, AppendProperties, LenProperties
<1>7. events' \in Seq(Event)
  BY <1>2, <1>3, AppendProperties DEF TypeOK
<1>8. streams' \in [Account -> Seq(Event)] /\ streams'[a] = Append(s, e)
      /\ \A x \in Account : x # a => streams'[x] = streams[x]
  BY <1>3, <1>6 DEF TypeOK
<1>9. ASSUME NEW n \in DOMAIN Append(s, e) PROVE Append(s, e)[n].version = n
  <2>1. CASE n = Len(s) + 1
    BY <1>4, <1>6, <2>1
  <2>2. CASE n # Len(s) + 1
    <3>1. n \in 1..Len(s)
      BY <1>1, <1>6, <2>2
    <3> QED  BY <1>6, <3>1 DEF TypeOK
  <2> QED  BY <2>1, <2>2
<1>10. \A x \in Account : Replay(streams[x]) \in Int
  BY <1>1, <1>2, ReplayAppend
<1>11. Replay(Append(s, e)) = Replay(s) + Effect(e)
  BY <1>1, <1>2, ReplayAppend
<1>12. Replay(streams'[a]) =
         Replay(streams[a]) +
         (IF kind = "opened" THEN 0 ELSE IF kind = "deposited" THEN amount ELSE 0 - amount)
  BY <1>5, <1>8, <1>10, <1>11
<1>13. \A x \in Account : \A n \in DOMAIN streams'[x] : streams'[x][n].version = n
  BY <1>8, <1>9 DEF TypeOK
<1>14. StoreOK'
  BY <1>7, <1>8, <1>13 DEF StoreOK
<1> HIDE DEF s
<1> QED  BY <1>1, <1>6, <1>8, <1>10, <1>12, <1>14 DEF s

\* The projection: Rebuild and Hydrate agree about an event unless an account
\* with money is opened.
LEMMA AddProjection ==
  ASSUME TypeOK, ProjectionAgrees, NEW a \in Account, NEW kind \in Kind,
         NEW amount \in Nat, NEW with \in Account \cup {None},
         Add(a, kind, amount, with), kind = "opened" => Replay(streams[a]) = 0
  PROVE  ProjectionAgrees'
<1> DEFINE e == [account |-> a, kind |-> kind, amount |-> amount, with |-> with,
                 version |-> Len(streams[a]) + 1]
<1>1. e \in Event
  BY LenProperties DEF TypeOK, Event
<1>2. events' = Append(events, e) /\ streams' = [streams EXCEPT ![a] = Append(@, e)]
  BY DEF Add
<1>3. e.account = a /\ e.kind = kind
  OBVIOUS
<1>4. kind = "opened" => Effect(e) = 0
  BY DEF Effect
<1> HIDE DEF e
<1>5. ASSUME NEW x \in Account PROVE Rebuilt(events', x) = Replay(streams'[x])
  <2>1. Rebuilt(events', x) = IF a # x THEN Rebuilt(events, x)
                              ELSE IF kind = "opened" THEN 0
                              ELSE Rebuilt(events, x) + Effect(e)
    BY <1>1, <1>2, <1>3, RebuiltAppend DEF TypeOK
  <2>2. CASE x # a
    BY <1>2, <2>1, <2>2 DEF ProjectionAgrees, TypeOK
  <2>3. CASE x = a
    <3>1. Replay(streams'[a]) = Replay(streams[a]) + Effect(e)
      BY <1>1, <1>2, ReplayAppend DEF TypeOK
    <3>2. Rebuilt(events, a) = Replay(streams[a])
      BY DEF ProjectionAgrees
    <3> QED  BY <1>4, <2>1, <2>3, <3>1, <3>2
  <2> QED  BY <2>2, <2>3
<1> QED  BY <1>5 DEF ProjectionAgrees

\* One event is at most one debit or credit of a transfer.
LEMMA AddTransit ==
  ASSUME TypeOK, NEW a \in Account, NEW kind \in Kind, NEW amount \in Nat,
         NEW with \in Account \cup {None}, Add(a, kind, amount, with),
         NEW x, NEW y, NEW m
  PROVE  /\ Cardinality(Sent(x, y, m)') =
              Cardinality(Sent(x, y, m)) +
              (IF kind = "transferred" /\ a = x /\ with = y /\ amount = m THEN 1 ELSE 0)
         /\ Cardinality(Received(x, y, m)') =
              Cardinality(Received(x, y, m)) +
              (IF kind = "deposited" /\ a = y /\ with = x /\ amount = m THEN 1 ELSE 0)
<1> DEFINE N == Len(events)
           e == [account |-> a, kind |-> kind, amount |-> amount, with |-> with,
                 version |-> Len(streams[a]) + 1]
<1>1. e \in Event
  BY LenProperties DEF TypeOK, Event
<1>2. e.account = a /\ e.kind = kind /\ e.amount = amount /\ e.with = with
  OBVIOUS
<1>3. events' = Append(events, e)
  BY DEF Add
<1> HIDE DEF e
<1>4. /\ N \in Nat /\ DOMAIN events = 1..N /\ DOMAIN events' = 1..(N+1)
      /\ events'[N+1] = e /\ \A n \in 1..N : events'[n] = events[n]
  BY <1>1, <1>3, AppendProperties, LenProperties DEF TypeOK
<1>5. DOMAIN events' = DOMAIN events \cup {N+1} /\ N+1 \notin DOMAIN events
  BY <1>4
<1> HIDE DEF N
<1>6. Sent(x, y, m)' =
        IF kind = "transferred" /\ a = x /\ with = y /\ amount = m
        THEN Sent(x, y, m) \cup {N+1} ELSE Sent(x, y, m)
  BY <1>2, <1>4, <1>5 DEF Sent
<1>7. Received(x, y, m)' =
        IF kind = "deposited" /\ a = y /\ with = x /\ amount = m
        THEN Received(x, y, m) \cup {N+1} ELSE Received(x, y, m)
  BY <1>2, <1>4, <1>5 DEF Received
<1>8. N+1 \notin Sent(x, y, m) /\ N+1 \notin Received(x, y, m)
  BY <1>5 DEF Sent, Received
<1>9. /\ Cardinality(Sent(x, y, m) \cup {N+1}) = Cardinality(Sent(x, y, m)) + 1
      /\ Cardinality(Received(x, y, m) \cup {N+1}) = Cardinality(Received(x, y, m)) + 1
  BY <1>8, SentFinite, FS_AddElement
<1> QED  BY <1>6, <1>7, <1>9, SentFinite

-----------------------------------------------------------------------------
(* What a new Account hydrates to.                                         *)

LEMMA HydrateNew ==
  ASSUME LedgerInv, NEW a \in Account
  PROVE  /\ Hydrated(NewAccount(a)) \in Handle
         /\ Hydrated(NewAccount(a)).id = a
         /\ Hydrated(NewAccount(a)).balance = Replay(streams[a])
         /\ Hydrated(NewAccount(a)).version = Len(streams[a])
<1> DEFINE s == streams[a]
<1>1. s \in Seq(Event) /\ Len(s) \in Nat /\ DOMAIN s = 1..Len(s)
      /\ \A n \in DOMAIN s : s[n].version = n
  BY LenProperties DEF LedgerInv, TypeOK
<1>2. Replay(s) \in Nat
  <2>1. Replay(s) >= 0
    BY DEF LedgerInv, Solvent
  <2>2. PICK f : Iterates(f, Len(s), Sums(s)) /\ Replay(s) = f[Len(s)]
    BY <1>1, ReplayIterates
  <2>3. Replay(s) \in Int
    BY <1>1, <2>2 DEF Iterates
  <2> QED  BY <2>1, <2>3
<1>3. (IF s = <<>> THEN 0 ELSE s[Len(s)].version) = Len(s)
  <2>1. CASE s = <<>>
    BY <2>1, EmptySeq
  <2>2. CASE s # <<>>
    <3>1. Len(s) # 0
      BY <1>1, <2>2, EmptySeq
    <3>2. Len(s) \in DOMAIN s
      BY <1>1, <3>1
    <3> QED  BY <1>1, <2>2, <3>2
  <2> QED  BY <2>1, <2>2
<1>4. Hydrated(NewAccount(a)) =
        [id |-> a, balance |-> 0 + Replay(s),
         version |-> IF s = <<>> THEN 0 ELSE s[Len(s)].version]
  BY DEF Hydrated, NewAccount
<1> HIDE DEF s
<1>5. Hydrated(NewAccount(a)) = [id |-> a, balance |-> Replay(s), version |-> Len(s)]
  BY <1>2, <1>3, <1>4
<1> QED  BY <1>1, <1>2, <1>5 DEF Handle, s

LEMMA InitInv == Init => LedgerInv
<1> SUFFICES ASSUME Init PROVE LedgerInv
  OBVIOUS
<1>1. <<>> \in Seq(Event) /\ DOMAIN <<>> = {}
  BY EmptySeq, LenProperties
<1>2. handle \in [Caller -> Handle]
  <2>1. \A a \in Account : NewAccount(a) \in Handle
    BY DEF NewAccount, Handle
  <2> QED  BY <2>1 DEF Init
<1>3. \A c \in Caller : NoCommand \in Command
  BY DEF NoCommand, Command, Kind
<1>4. TypeOK
  BY <1>1, <1>2, <1>3 DEF TypeOK, Init
<1>5. Solvent /\ ProjectionAgrees
  BY ReplayEmpty, RebuiltEmpty DEF Solvent, ProjectionAgrees, Init
<1>6. Decided /\ OnTheWay
  BY DEF Decided, OnTheWay, Halfway, Init
<1>7. Owed
  <2>1. ASSUME NEW a, NEW b, NEW m
        PROVE  Sent(a, b, m) = {} /\ Received(a, b, m) = {} /\ Owers(a, b, m) = {}
    BY <1>1 DEF Sent, Received, Owers, Halfway, Init
  <2> QED  BY <2>1, FS_EmptySet DEF Owed
<1> QED  BY <1>4, <1>5, <1>6, <1>7 DEF LedgerInv

-----------------------------------------------------------------------------
(* What a step of one goroutine leaves to the others.                      *)

OthersKept(c) ==
  \A d \in Caller \ {c} :
    pc'[d] = pc[d] /\ handle'[d] = handle[d] /\ command'[d] = command[d]

StreamsGrow ==
  \A x \in Account : streams'[x] = streams[x] \/ Len(streams'[x]) = Len(streams[x]) + 1

LEMMA OthersValid ==
  ASSUME LedgerInv, NEW c \in Caller, OthersKept(c), StreamsGrow
  PROVE  /\ \A d \in Caller \ {c} : pc'[d] = "decided" => Valid(d)'
         /\ \A d \in Caller \ {c} : Halfway(d)' =>
              command'[d].amount \in Amount /\ command'[d].to \in Account
<1>1. ASSUME NEW d \in Caller \ {c}, pc'[d] = "decided"
      PROVE  Valid(d)'
  <2>1. pc[d] = "decided" /\ handle'[d] = handle[d] /\ command'[d] = command[d]
    BY <1>1 DEF OthersKept
  <2>2. Valid(d)
    BY <2>1 DEF LedgerInv, Decided
  <2> DEFINE a == handle[d].id
  <2>3. a \in Account /\ handle[d].version \in Nat /\ Len(streams[a]) \in Nat
    BY LenProperties DEF LedgerInv, TypeOK, Handle
  <2>4. \/ streams'[a] = streams[a]
        \/ Len(streams'[a]) = Len(streams[a]) + 1
    BY <2>3 DEF StreamsGrow
  <2> QED  BY <2>1, <2>2, <2>3, <2>4 DEF Valid
<1>2. ASSUME NEW d \in Caller \ {c}, Halfway(d)'
      PROVE  command'[d].amount \in Amount /\ command'[d].to \in Account
  BY <1>2 DEF OthersKept, Halfway, LedgerInv, OnTheWay
<1> QED  BY <1>1, <1>2

LEMMA OwersKept ==
  ASSUME NEW c \in Caller, OthersKept(c), ~ Halfway(c), ~ Halfway(c)',
         NEW x, NEW y, NEW m
  PROVE  Owers(x, y, m)' = Owers(x, y, m)
<1>1. \A d \in Caller \ {c} : Halfway(d)' = Halfway(d)
  BY DEF OthersKept, Halfway
<1> QED  BY <1>1 DEF OthersKept, Owers

-----------------------------------------------------------------------------
(* Steps that append nothing.                                              *)

LEMMA NothingAdded ==
  ASSUME UNCHANGED <<events, streams>>
  PROVE  /\ Solvent => Solvent'
         /\ ProjectionAgrees => ProjectionAgrees'
         /\ StreamsGrow
         /\ \A x, y, m : Sent(x, y, m)' = Sent(x, y, m) /\ Received(x, y, m)' = Received(x, y, m)
         /\ UNCHANGED <<Worth, Transit>>
<1>1. \A x, y, m : Sent(x, y, m)' = Sent(x, y, m) /\ Received(x, y, m)' = Received(x, y, m)
  BY DEF Sent, Received
<1> QED  BY <1>1 DEF Solvent, ProjectionAgrees, StreamsGrow, Worth, Transit

LEMMA ObjectsNew ==
  ASSUME Reuse = FALSE, NEW c
  PROVE  Objects(c) = {NewAccount(a) : a \in Account}
BY DEF Objects

\* A command that does not get as far as an append.
LEMMA DecideInv ==
  ASSUME Reuse = FALSE, LedgerInv, NEW c \in Caller,
         NEW kind \in {"deposited", "withdrawn", "transferred"},
         NEW m \in Amount, NEW to \in Account \cup {None},
         to \in Account <=> kind = "transferred", Decide(c, kind, m, to)
  PROVE  LedgerInv' /\ UNCHANGED <<Worth, Transit>>
<1>1. PICK g \in Objects(c) :
        IF m <= 0
        THEN /\ handle' = [handle EXCEPT ![c] = g]
             /\ UNCHANGED <<pc, command>>
        ELSE /\ handle' = [handle EXCEPT ![c] = Hydrated(g)]
             /\ IF kind # "deposited" /\ Hydrated(g).balance < m
                THEN UNCHANGED <<pc, command>>
                ELSE /\ pc' = [pc EXCEPT ![c] = "decided"]
                     /\ command' = [command EXCEPT ![c] =
                                      [kind |-> kind, amount |-> m, to |-> to]]
  BY DEF Decide
<1>0. PICK a \in Account : g = NewAccount(a)
  BY ObjectsNew
<1>2. /\ pc[c] = "idle" /\ used' = used + 1
      /\ UNCHANGED <<events, streams, credit>>
  BY DEF Decide, Give
<1> DEFINE h == Hydrated(NewAccount(a))
<1>3. h \in Handle /\ h.id = a /\ h.balance = Replay(streams[a])
      /\ h.version = Len(streams[a]) /\ NewAccount(a) \in Handle
      /\ Len(streams[a]) \in Nat
  <2>1. NewAccount(a) \in Handle
    BY DEF NewAccount, Handle
  <2>2. Len(streams[a]) \in Nat
    BY LenProperties DEF LedgerInv, TypeOK
  <2> QED  BY <2>1, <2>2, HydrateNew
<1> HIDE DEF h
<1>4. m \in Nat
  OBVIOUS
<1>5. \/ handle' = [handle EXCEPT ![c] = NewAccount(a)] /\ UNCHANGED <<pc, command>>
      \/ handle' = [handle EXCEPT ![c] = h] /\ UNCHANGED <<pc, command>>
      \/ /\ m > 0 /\ (kind # "deposited" => h.balance >= m)
         /\ handle' = [handle EXCEPT ![c] = h]
         /\ pc' = [pc EXCEPT ![c] = "decided"]
         /\ command' = [command EXCEPT ![c] = [kind |-> kind, amount |-> m, to |-> to]]
  <2>1. h.balance \in Int
    BY <1>3 DEF Handle
  <2> QED  BY <1>0, <1>1, <1>4, <2>1 DEF h
<1>6. [kind |-> kind, amount |-> m, to |-> to] \in Command
  BY DEF Command, Kind
<1>7. TypeOK'
  <2>1. handle' \in [Caller -> Handle] /\ command' \in [Caller -> Command]
        /\ pc' \in [Caller -> {"idle", "decided", "debited", "crediting"}]
    BY ZenonT(40), <1>3, <1>5, <1>6 DEF LedgerInv, TypeOK
  <2> QED  BY <1>2, <2>1 DEF LedgerInv, TypeOK
<1>8. OthersKept(c) /\ ~ Halfway(c) /\ ~ Halfway(c)'
  BY <1>2, <1>5 DEF OthersKept, Halfway, LedgerInv, TypeOK
<1>9. pc'[c] = "decided" => Valid(c)'
  <2> SUFFICES ASSUME pc'[c] = "decided" PROVE Valid(c)'
    OBVIOUS
  <2>1. m > 0 /\ (kind # "deposited" => h.balance >= m)
    BY <1>2, <1>5
  <2>2. handle'[c] = h /\ command'[c] = [kind |-> kind, amount |-> m, to |-> to]
    BY <1>2, <1>5 DEF LedgerInv, TypeOK
  <2> QED  BY <1>2, <1>3, <2>1, <2>2 DEF Valid
<1>10. Decided' /\ OnTheWay'
  BY <1>2, <1>8, <1>9, NothingAdded, OthersValid DEF Decided, OnTheWay
<1>11. Owed'
  BY <1>2, <1>8, NothingAdded, OwersKept DEF LedgerInv, Owed
<1> QED  BY <1>2, <1>7, <1>10, <1>11, NothingAdded DEF LedgerInv

LEMMA LoadReceiverInv ==
  ASSUME LedgerInv, NEW c \in Caller, LoadReceiver(c)
  PROVE  LedgerInv' /\ UNCHANGED <<Worth, Transit>>
<1>1. /\ pc[c] = "debited" /\ pc' = [pc EXCEPT ![c] = "crediting"]
      /\ credit' = [credit EXCEPT ![c] = Hydrated(NewAccount(command[c].to)).version]
      /\ UNCHANGED <<events, streams, handle, command, used>>
  BY DEF LoadReceiver
<1>2. command[c].amount \in Amount /\ command[c].to \in Account
  BY <1>1 DEF LedgerInv, OnTheWay, Halfway
<1>3. Hydrated(NewAccount(command[c].to)).version \in Nat
  BY <1>2, HydrateNew DEF Handle
<1>4. TypeOK'
  BY <1>1, <1>3 DEF LedgerInv, TypeOK
<1>5. \A d \in Caller : Halfway(d)' = Halfway(d) /\ (pc'[d] = "decided" => pc[d] = "decided")
  BY <1>1 DEF Halfway, LedgerInv, TypeOK
<1>6. Decided' /\ OnTheWay'
  BY <1>1, <1>5 DEF LedgerInv, Decided, Valid, OnTheWay
<1>7. \A x, y, m : Owers(x, y, m)' = Owers(x, y, m)
  BY <1>1, <1>5 DEF Owers
<1>8. Owed'
  BY <1>1, <1>7, NothingAdded DEF LedgerInv, Owed
<1> QED  BY <1>1, <1>4, <1>6, <1>8, NothingAdded DEF LedgerInv

-----------------------------------------------------------------------------
(* Steps that append.                                                      *)

\* An account is opened only at version 0, where a new Account is.
LEMMA OpenInv ==
  ASSUME Reuse = FALSE, LedgerInv, NEW c \in Caller, Open(c)
  PROVE  LedgerInv' /\ UNCHANGED <<Worth, Transit>>
<1>1. PICK h \in Objects(c) :
        IF Current(h.id, Opening(h).version)
        THEN /\ Add(h.id, "opened", 0, None)
             /\ handle' = [handle EXCEPT ![c] = [Opening(h) EXCEPT !.version = @ + 1]]
        ELSE /\ handle' = [handle EXCEPT ![c] = Opening(h)]
             /\ UNCHANGED <<events, streams>>
  BY DEF Open
<1>2. /\ pc[c] = "idle" /\ used' = used + 1
      /\ UNCHANGED <<pc, command, credit>>
  BY DEF Open, Give
<1>3. PICK a \in Account : h = NewAccount(a)
  BY ObjectsNew
<1>4. /\ h \in Handle /\ h.id = a /\ h.version = 0
      /\ [h EXCEPT !.version = @ + 1] \in Handle
  BY <1>3 DEF NewAccount, Handle
<1>5. /\ handle' \in [Caller -> Handle] /\ OthersKept(c)
      /\ ~ Halfway(c) /\ ~ Halfway(c)' /\ pc'[c] # "decided"
  BY <1>1, <1>2, <1>4 DEF Opening, OthersKept, Halfway, LedgerInv, TypeOK
<1>6. CASE UNCHANGED <<events, streams>>
  <2>1. TypeOK'
    BY <1>2, <1>5, <1>6 DEF LedgerInv, TypeOK
  <2>2. Decided' /\ OnTheWay'
    BY <1>5, <1>6, NothingAdded, OthersValid DEF Decided, OnTheWay
  <2>3. Owed'
    BY <1>5, <1>6, NothingAdded, OwersKept DEF LedgerInv, Owed
  <2> QED  BY <1>6, <2>1, <2>2, <2>3, NothingAdded DEF LedgerInv
<1>7. CASE ~ UNCHANGED <<events, streams>>
  <2>0. Len(streams[a]) = 0
    BY <1>1, <1>4, <1>7 DEF Current, Opening
  <2>1. Add(a, "opened", 0, None)
    BY <1>1, <1>4, <1>7
  <2>2. Replay(streams[a]) = 0
    <3>1. streams[a] = <<>>
      BY <2>0, EmptySeq DEF LedgerInv, TypeOK
    <3> QED  BY <3>1, ReplayEmpty
  <2>3. TypeOK /\ ProjectionAgrees /\ "opened" \in Kind /\ None \in Account \cup {None}
    BY DEF LedgerInv, Kind
  <2>4. /\ StoreOK'
        /\ \A x \in Account : x # a => streams'[x] = streams[x]
        /\ Len(streams'[a]) = Len(streams[a]) + 1
        /\ Replay(streams'[a]) = Replay(streams[a]) + 0
    BY <2>1, <2>3, AddStreams
  <2>5. ProjectionAgrees'
    BY <2>1, <2>2, <2>3, AddProjection
  <2>6. \A x, y, m :
          /\ Cardinality(Sent(x, y, m)') = Cardinality(Sent(x, y, m))
          /\ Cardinality(Received(x, y, m)') = Cardinality(Received(x, y, m))
    BY <2>1, <2>3, AddTransit, SentFinite
  <2>7. TypeOK'
    BY <1>2, <1>5, <2>4 DEF LedgerInv, TypeOK, StoreOK
  <2>8. StreamsGrow /\ \A x \in Account : Replay(streams'[x]) = Replay(streams[x])
    BY <2>2, <2>4 DEF StreamsGrow
  <2>9. Decided' /\ OnTheWay'
    BY <1>5, <2>8, OthersValid DEF Decided, OnTheWay
  <2>10. Owed'
    BY <1>5, <2>6, OwersKept DEF LedgerInv, Owed
  <2>11. Solvent' /\ UNCHANGED <<Worth, Transit>>
    BY <2>6, <2>8 DEF LedgerInv, Solvent, Worth, Transit
  <2> QED  BY <2>5, <2>7, <2>9, <2>10, <2>11 DEF LedgerInv
<1> QED  BY <1>6, <1>7

\* What Bank sees of an append.
LEMMA AddWorth ==
  ASSUME TypeOK, NEW a \in Account, NEW kind \in {"deposited", "withdrawn", "transferred"},
         NEW amount \in Nat, NEW with \in Account \cup {None}, Add(a, kind, amount, with)
  PROVE  Worth' = [Worth EXCEPT ![a] =
                     IF kind = "deposited" THEN @ + amount ELSE @ - amount]
<1>1. kind \in Kind
  BY DEF Kind
<1>2. /\ \A x \in Account : x # a => streams'[x] = streams[x]
      /\ Replay(streams[a]) \in Int
      /\ Replay(streams'[a]) =
           Replay(streams[a]) +
           (IF kind = "opened" THEN 0 ELSE IF kind = "deposited" THEN amount ELSE 0 - amount)
  BY <1>1, AddStreams
<1> DEFINE v == IF kind = "deposited" THEN Worth[a] + amount ELSE Worth[a] - amount
<1>3. Replay(streams'[a]) = v
  BY <1>2 DEF Worth
<1> HIDE DEF v
<1>4. Worth' = [Worth EXCEPT ![a] = v]
  BY <1>2, <1>3 DEF Worth
<1> QED  BY <1>4 DEF v

LEMMA FunctionsEqual ==
  ASSUME NEW S, NEW f, NEW g, f = [x \in S |-> f[x]], g = [x \in S |-> g[x]],
         \A x \in S : f[x] = g[x]
  PROVE  f = g
<1>1. [x \in S |-> f[x]] = [x \in S |-> g[x]]
  OBVIOUS
<1> QED  BY <1>1

LEMMA OneChanged ==
  ASSUME NEW S, NEW f, NEW g, f = [x \in S |-> f[x]], g = [x \in S |-> g[x]],
         NEW a \in S, NEW v, g[a] = v, \A x \in S : x # a => g[x] = f[x]
  PROVE  g = [f EXCEPT ![a] = v]
<1> DEFINE h == [f EXCEPT ![a] = v]
<1>1. h = [x \in S |-> h[x]] /\ \A x \in S : h[x] = g[x]
  OBVIOUS
<1> HIDE DEF h
<1>2. h = g
  BY <1>1, FunctionsEqual
<1> QED  BY <1>2 DEF h

\* One entry of a table like Transit is changed.
Changed(T, a, b, m, n) == [T EXCEPT ![a][b][m] = @ + n]
IsChanged(T, U, a, b, m, n) ==
  /\ T \in [Account -> [Account -> [Amount -> Int]]]
  /\ U \in [Account -> [Account -> [Amount -> Int]]]
  /\ \A x, y \in Account, z \in Amount :
       U[x][y][z] = T[x][y][z] + (IF a = x /\ b = y /\ m = z THEN n ELSE 0)

LEMMA TableUpdate ==
  ASSUME NEW T, NEW U, NEW a \in Account, NEW b \in Account, NEW m \in Amount, NEW n \in Int,
         IsChanged(T, U, a, b, m, n)
  PROVE  U = Changed(T, a, b, m, n)
<1>0. /\ T \in [Account -> [Account -> [Amount -> Int]]]
      /\ U \in [Account -> [Account -> [Amount -> Int]]]
      /\ \A x, y \in Account, z \in Amount :
           U[x][y][z] = T[x][y][z] + (IF a = x /\ b = y /\ m = z THEN n ELSE 0)
  BY DEF IsChanged
<1>1. /\ U = [x \in Account |-> U[x]] /\ T = [x \in Account |-> T[x]]
      /\ \A x \in Account : /\ U[x] = [y \in Account |-> U[x][y]]
                            /\ T[x] = [y \in Account |-> T[x][y]]
      /\ \A x, y \in Account : /\ U[x][y] = [z \in Amount |-> U[x][y][z]]
                               /\ T[x][y] = [z \in Amount |-> T[x][y][z]]
  <2>1. U = [x \in Account |-> U[x]] /\ T = [x \in Account |-> T[x]]
    BY <1>0
  <2>2. ASSUME NEW x \in Account
        PROVE  /\ U[x] = [y \in Account |-> U[x][y]]
               /\ T[x] = [y \in Account |-> T[x][y]]
    BY <1>0
  <2>3. ASSUME NEW x \in Account, NEW y \in Account
        PROVE  /\ U[x][y] = [z \in Amount |-> U[x][y][z]]
               /\ T[x][y] = [z \in Amount |-> T[x][y][z]]
    <3>1. U[x][y] \in [Amount -> Int] /\ T[x][y] \in [Amount -> Int]
      BY <1>0
    <3> QED  BY <3>1
  <2> QED  BY <2>1, <2>2, <2>3
<1>2. \A x, y \in Account, z \in Amount :
        (x = a /\ y = b /\ z = m) \/ U[x][y][z] = T[x][y][z]
  BY <1>0
<1>3. U[a][b] = [T[a][b] EXCEPT ![m] = T[a][b][m] + n]
  <2>1. U[a][b][m] = T[a][b][m] + n
    BY <1>0
  <2>2. \A z \in Amount : z # m => U[a][b][z] = T[a][b][z]
    BY <1>2
  <2>3. /\ U[a][b] = [z \in Amount |-> U[a][b][z]]
        /\ T[a][b] = [z \in Amount |-> T[a][b][z]]
    BY <1>1
  <2> DEFINE f == T[a][b]
             g == U[a][b]
  <2> HIDE DEF f, g
  <2>4. g = [f EXCEPT ![m] = f[m] + n]
    BY <2>1, <2>2, <2>3, OneChanged DEF f, g
  <2> QED  BY <2>4 DEF f, g
<1>4. \A x, y \in Account : x # a \/ y # b => U[x][y] = T[x][y]
  <2> SUFFICES ASSUME NEW x \in Account, NEW y \in Account, x # a \/ y # b
               PROVE  U[x][y] = T[x][y]
    OBVIOUS
  <2>1. \A z \in Amount : U[x][y][z] = T[x][y][z]
    BY <1>2
  <2> DEFINE f == T[x][y]
             g == U[x][y]
  <2>2. f = [z \in Amount |-> f[z]] /\ g = [z \in Amount |-> g[z]]
    BY <1>1
  <2>3. \A z \in Amount : g[z] = f[z]
    BY <2>1
  <2> HIDE DEF f, g
  <2>4. g = f
    BY <2>2, <2>3, FunctionsEqual
  <2> QED  BY <2>4 DEF f, g
<1>5. U[a] = [T[a] EXCEPT ![b] = [T[a][b] EXCEPT ![m] = T[a][b][m] + n]]
  BY <1>1, <1>3, <1>4, OneChanged
<1>6. \A x \in Account : x # a => U[x] = T[x]
  <2> SUFFICES ASSUME NEW x \in Account, x # a PROVE U[x] = T[x]
    OBVIOUS
  <2>1. \A y \in Account : U[x][y] = T[x][y]
    BY <1>4
  <2> QED  BY <1>1, <2>1, FunctionsEqual
<1>7. U = [T EXCEPT ![a] = [T[a] EXCEPT ![b] = [T[a][b] EXCEPT ![m] = T[a][b][m] + n]]]
  BY <1>1, <1>5, <1>6, OneChanged
<1> QED  BY <1>7 DEF Changed

LEMMA TransitType ==
  ASSUME TypeOK PROVE Transit \in [Account -> [Account -> [Amount -> Int]]]
BY SentFinite DEF Transit

\* The event of Deposit or Withdraw, or the debit of Transfer.
LEMMA RecordInv ==
  ASSUME LedgerInv, NEW c \in Caller, Record(c)
  PROVE  LedgerInv' /\ (UNCHANGED <<Worth, Transit>> \/ Books!Next)
<1> DEFINE h == handle[c]
           k == command[c]
           a == h.id
           m == k.amount
<1>1. pc[c] = "decided" /\ UNCHANGED <<command, credit, used>>
  BY DEF Record
<1>2. Valid(c)
  BY <1>1 DEF LedgerInv, Decided
<1>3. TypeOK /\ ProjectionAgrees /\ a \in Account /\ k \in Command /\ h \in Handle
  BY DEF LedgerInv, TypeOK, Handle
<1>4. /\ m \in Amount /\ m \in Nat /\ m > 0
      /\ k.kind \in {"deposited", "withdrawn", "transferred"} /\ k.kind \in Kind
      /\ k.to \in Account \cup {None}
  BY <1>2, <1>3 DEF Valid, Command, Kind
<1>5. \/ /\ Len(streams[a]) = h.version
         /\ Add(a, k.kind, m, k.to)
         /\ pc' = [pc EXCEPT ![c] = IF k.kind = "transferred" THEN "debited" ELSE "idle"]
         /\ handle' = IF k.kind # "deposited" THEN handle
                      ELSE [handle EXCEPT ![c].balance = @ + k.amount,
                                          ![c].version = @ + 1]
      \/ /\ pc' = [pc EXCEPT ![c] = "idle"]
         /\ UNCHANGED <<events, streams, handle>>
  BY DEF Record, Current, AfterConflict
<1> HIDE DEF h, k, a, m
<1>6. CASE pc' = [pc EXCEPT ![c] = "idle"] /\ UNCHANGED <<events, streams, handle>>
  <2>1. TypeOK'
    BY <1>1, <1>3, <1>6 DEF TypeOK
  <2>2. /\ OthersKept(c) /\ ~ Halfway(c) /\ ~ Halfway(c)' /\ pc'[c] # "decided"
    BY <1>1, <1>3, <1>6 DEF OthersKept, Halfway, TypeOK
  <2>3. Decided' /\ OnTheWay'
    BY <2>2, <1>6, NothingAdded, OthersValid DEF Decided, OnTheWay
  <2>4. Owed'
    BY <2>2, <1>6, NothingAdded, OwersKept DEF LedgerInv, Owed
  <2> QED  BY <1>6, <2>1, <2>3, <2>4, NothingAdded DEF LedgerInv
<1>7. ASSUME Len(streams[a]) = h.version,
             Add(a, k.kind, m, k.to),
             pc' = [pc EXCEPT ![c] = IF k.kind = "transferred" THEN "debited" ELSE "idle"],
             handle' = IF k.kind # "deposited" THEN handle
                       ELSE [handle EXCEPT ![c].balance = @ + k.amount,
                                           ![c].version = @ + 1]
      PROVE  LedgerInv' /\ Books!Next
  <2>1. k.kind # "deposited" => Replay(streams[a]) >= m
    BY <1>2, <1>7 DEF Valid, h, k, a, m
  <2>2. Add(a, k.kind, m, k.to)
    BY <1>7
  <2>3. /\ StoreOK'
        /\ \A x \in Account : x # a => streams'[x] = streams[x]
        /\ Len(streams'[a]) = Len(streams[a]) + 1
        /\ Replay(streams[a]) \in Int
        /\ Replay(streams'[a]) =
             Replay(streams[a]) +
             (IF k.kind = "opened" THEN 0 ELSE IF k.kind = "deposited" THEN m ELSE 0 - m)
    BY <1>3, <1>4, <2>2, AddStreams
  <2>4. ProjectionAgrees'
    BY <1>3, <1>4, <2>2, AddProjection
  <2>5. StreamsGrow
    BY <2>3 DEF StreamsGrow
  <2>6. Solvent'
    <3>1. Replay(streams[a]) >= 0 /\ \A x \in Account : Replay(streams[x]) >= 0
      BY <1>3 DEF LedgerInv, Solvent
    <3>2. Replay(streams'[a]) >= 0
      BY <1>4, <2>1, <2>3, <3>1
    <3> QED  BY <2>3, <3>1, <3>2 DEF Solvent
  <2>7. TypeOK'
    <3>1. handle' \in [Caller -> Handle]
      <4>1. CASE k.kind # "deposited"
        BY <1>3, <1>7, <4>1 DEF TypeOK
      <4>2. CASE k.kind = "deposited"
        <5> DEFINE g == [h EXCEPT !.balance = @ + m, !.version = @ + 1]
        <5>1. handle' = [handle EXCEPT ![c] = g]
          BY <1>3, <1>7, <4>2 DEF TypeOK, h, m
        <5>2. g \in Handle
          <6>1. h = [id |-> h.id, balance |-> h.balance, version |-> h.version]
            BY <1>3 DEF Handle
          <6>2. h.id \in Account /\ h.balance + m \in Nat /\ h.version + 1 \in Nat
            BY <1>3, <1>4 DEF Handle
          <6> QED  BY <6>1, <6>2 DEF Handle
        <5> HIDE DEF g
        <5> QED  BY <1>3, <5>1, <5>2 DEF TypeOK
      <4> QED  BY <4>1, <4>2
    <3>2. pc' \in [Caller -> {"idle", "decided", "debited", "crediting"}]
      BY <1>3, <1>7 DEF TypeOK
    <3> QED  BY <1>1, <1>3, <2>3, <3>1, <3>2 DEF TypeOK, StoreOK
  <2>8. /\ OthersKept(c) /\ ~ Halfway(c) /\ pc'[c] # "decided"
        /\ Halfway(c)' <=> k.kind = "transferred"
        /\ handle'[c].id = a /\ command'[c] = k
    BY <1>1, <1>3, <1>7 DEF OthersKept, Halfway, TypeOK, Handle, h, k, a
  <2>9. k.kind = "transferred" <=> k.to \in Account
    BY <1>2 DEF Valid, k
  <2>10. Decided' /\ OnTheWay'
    BY <1>4, <2>5, <2>8, <2>9, OthersValid DEF Decided, OnTheWay, m
  <2>11. \A x, y, z :
          /\ Cardinality(Sent(x, y, z)') =
               Cardinality(Sent(x, y, z)) +
               (IF k.kind = "transferred" /\ a = x /\ k.to = y /\ m = z THEN 1 ELSE 0)
          /\ Cardinality(Received(x, y, z)') =
               Cardinality(Received(x, y, z)) +
               (IF k.kind = "deposited" /\ a = y /\ k.to = x /\ m = z THEN 1 ELSE 0)
    BY <1>3, <1>4, <2>2, AddTransit
  <2>12. \A x, y, z :
          /\ Cardinality(Sent(x, y, z)) \in Nat
          /\ Cardinality(Received(x, y, z)) \in Nat
          /\ Cardinality(Owers(x, y, z)) \in Nat
    BY <1>3, SentFinite, OwersFinite
  <2>13. CASE k.kind # "transferred"
    <3>1. ~ Halfway(c)' /\ k.to = None /\ k.to \notin Account
      BY <1>4, <2>8, <2>9, <2>13
    <3>2. \A x, y \in Account, z \in Amount :
            /\ Cardinality(Sent(x, y, z)') = Cardinality(Sent(x, y, z))
            /\ Cardinality(Received(x, y, z)') = Cardinality(Received(x, y, z))
            /\ Owers(x, y, z)' = Owers(x, y, z)
      BY <2>8, <2>11, <2>12, <2>13, <3>1, OwersKept
    <3>3. Owed'
      BY <3>2 DEF LedgerInv, Owed
    <3>4. UNCHANGED Transit
      BY <3>2 DEF Transit
    <3>5. Worth' = [Worth EXCEPT ![a] = IF k.kind = "deposited" THEN @ + m ELSE @ - m]
      BY <1>3, <1>4, <2>2, AddWorth
    <3>6. Worth[a] = Replay(streams[a])
      BY <1>3 DEF Worth
    <3>7. CASE k.kind = "deposited"
      <4> Books!Deposit(a, m)
        BY <3>4, <3>5, <3>7 DEF Books!Deposit
      <4> QED  BY <1>3, <1>4, <2>4, <2>6, <2>7, <2>10, <3>3 DEF LedgerInv, Books!Next
    <3>8. CASE k.kind # "deposited"
      <4> Books!Withdraw(a, m)
        BY <2>1, <3>4, <3>5, <3>6, <3>8 DEF Books!Withdraw
      <4> QED  BY <1>3, <1>4, <2>4, <2>6, <2>7, <2>10, <3>3 DEF LedgerInv, Books!Next
    <3> QED  BY <3>7, <3>8
  <2>14. CASE k.kind = "transferred"
    <3> DEFINE b == k.to
    <3>1. b \in Account /\ Halfway(c)'
      BY <2>8, <2>9, <2>14
    <3>2. \A x, y \in Account, z \in Amount :
            /\ Cardinality(Received(x, y, z)') = Cardinality(Received(x, y, z))
            /\ Cardinality(Sent(x, y, z)') =
                 Cardinality(Sent(x, y, z)) +
                 (IF a = x /\ b = y /\ m = z THEN 1 ELSE 0)
      BY <2>11, <2>12, <2>14
    <3>3. \A x, y \in Account, z \in Amount :
            /\ Cardinality(Owers(x, y, z)') \in Nat
            /\ Cardinality(Owers(x, y, z)') =
                 Cardinality(Owers(x, y, z)) +
                 (IF a = x /\ b = y /\ m = z THEN 1 ELSE 0)
      <4> SUFFICES ASSUME NEW x \in Account, NEW y \in Account, NEW z \in Amount
                   PROVE  Cardinality(Owers(x, y, z)') =
                            Cardinality(Owers(x, y, z)) +
                            (IF a = x /\ b = y /\ m = z THEN 1 ELSE 0)
        BY <2>12
      <4>1. \A d \in Caller \ {c} :
              d \in Owers(x, y, z)' <=> d \in Owers(x, y, z)
        BY <2>8 DEF Owers, Halfway, OthersKept
      <4>2. c \notin Owers(x, y, z)
        BY <2>8 DEF Owers
      <4>3. c \in Owers(x, y, z)' <=> a = x /\ b = y /\ m = z
        BY <2>8, <3>1 DEF Owers, m
      <4>4. Owers(x, y, z) \subseteq Caller /\ Owers(x, y, z)' \subseteq Caller
        BY DEF Owers
      <4>5. Owers(x, y, z)' = IF a = x /\ b = y /\ m = z
                              THEN Owers(x, y, z) \cup {c} ELSE Owers(x, y, z)
        BY <4>1, <4>2, <4>3, <4>4
      <4>6. Cardinality(Owers(x, y, z) \cup {c}) = Cardinality(Owers(x, y, z)) + 1
        BY <4>2, OwersFinite, FS_AddElement
      <4> QED  BY <2>12, <4>5, <4>6
    <3>4. Owed'
      <4> SUFFICES ASSUME NEW x \in Account, NEW y \in Account, NEW z \in Amount
                   PROVE  Cardinality(Sent(x, y, z)') >=
                            Cardinality(Received(x, y, z)') + Cardinality(Owers(x, y, z)')
        BY DEF Owed
      <4>1. Cardinality(Sent(x, y, z)) >=
              Cardinality(Received(x, y, z)) + Cardinality(Owers(x, y, z))
        BY DEF LedgerInv, Owed
      <4> QED  BY <2>12, <3>2, <3>3, <4>1
    <3>5. Transit' = [Transit EXCEPT ![a][b][m] = @ + 1]
      <4>1. \A x, y \in Account, z \in Amount :
              Transit'[x][y][z] =
                Transit[x][y][z] + (IF a = x /\ b = y /\ m = z THEN 1 ELSE 0)
        BY <2>12, <3>2 DEF Transit
      <4>2. Transit \in [Account -> [Account -> [Amount -> Int]]]
        BY <1>3, TransitType
      <4>3. Transit' \in [Account -> [Account -> [Amount -> Int]]]
        BY <2>12, <3>2 DEF Transit
      <4> DEFINE T == Transit
                 U == Transit'
      <4>4. IsChanged(T, U, a, b, m, 1)
        BY <4>1, <4>2, <4>3 DEF IsChanged
      <4> HIDE DEF T, U, b
      <4>5. U = Changed(T, a, b, m, 1)
        BY <1>3, <1>4, <3>1, <4>4, TableUpdate
      <4> QED  BY <4>5 DEF Changed, T, U
    <3>6. Worth' = [Worth EXCEPT ![a] = @ - m]
      BY <1>3, <1>4, <2>2, <2>14, AddWorth
    <3>7. Worth[a] >= m
      BY <1>3, <2>1, <2>14 DEF Worth
    <3>8. Books!Send(a, b, m)
      BY <3>5, <3>6, <3>7 DEF Books!Send
    <3> QED  BY <1>3, <1>4, <2>4, <2>6, <2>7, <2>10, <3>1, <3>4, <3>8
             DEF LedgerInv, Books!Next
  <2> QED  BY <2>13, <2>14
<1> QED  BY <1>5, <1>6, <1>7

\* The credit of a transfer: what is credited has been debited and is owed.
LEMMA CreditInv ==
  ASSUME LedgerInv, NEW c \in Caller, Credit(c)
  PROVE  LedgerInv' /\ (UNCHANGED <<Worth, Transit>> \/ Books!Next)
<1> DEFINE a == handle[c].id
           b == command[c].to
           m == command[c].amount
<1>1. /\ pc[c] = "crediting" /\ pc' = [pc EXCEPT ![c] = "idle"]
      /\ UNCHANGED <<handle, command, credit, used>>
      /\ Add(b, "deposited", m, a) \/ UNCHANGED <<events, streams>>
  BY DEF Credit
<1>2. /\ TypeOK /\ ProjectionAgrees /\ a \in Account /\ b \in Account
      /\ m \in Amount /\ m \in Nat /\ "deposited" \in Kind
      /\ a \in Account \cup {None} /\ "deposited" \in {"deposited", "withdrawn", "transferred"}
  BY <1>1 DEF LedgerInv, TypeOK, Handle, OnTheWay, Halfway, Kind
<1>3. /\ OthersKept(c) /\ Halfway(c) /\ ~ Halfway(c)' /\ pc'[c] # "decided"
      /\ pc' \in [Caller -> {"idle", "decided", "debited", "crediting"}]
  BY <1>1, <1>2 DEF OthersKept, Halfway, TypeOK
<1>4. \A x, y, z :
        /\ Cardinality(Sent(x, y, z)) \in Nat
        /\ Cardinality(Received(x, y, z)) \in Nat
        /\ Cardinality(Owers(x, y, z)) \in Nat
  BY <1>2, SentFinite, OwersFinite
<1>5. ASSUME NEW x, NEW y, NEW z
      PROVE  /\ Cardinality(Owers(x, y, z)') \in Nat
             /\ Cardinality(Owers(x, y, z)) =
                  Cardinality(Owers(x, y, z)') +
                  (IF a = x /\ b = y /\ m = z THEN 1 ELSE 0)
  <2>1. \A d \in Caller \ {c} : d \in Owers(x, y, z)' <=> d \in Owers(x, y, z)
    BY <1>3 DEF Owers, Halfway, OthersKept
  <2>2. c \notin Owers(x, y, z)'
    BY <1>3 DEF Owers
  <2>3. c \in Owers(x, y, z) <=> a = x /\ b = y /\ m = z
    BY <1>3 DEF Owers
  <2>4. Owers(x, y, z) \subseteq Caller /\ Owers(x, y, z)' \subseteq Caller
    BY DEF Owers
  <2>5. Owers(x, y, z) = IF a = x /\ b = y /\ m = z
                         THEN Owers(x, y, z)' \cup {c} ELSE Owers(x, y, z)'
    BY <2>1, <2>2, <2>3, <2>4
  <2>6. IsFiniteSet(Owers(x, y, z)')
    BY <2>4, FS_Subset
  <2>7. /\ Cardinality(Owers(x, y, z)') \in Nat
        /\ Cardinality(Owers(x, y, z)' \cup {c}) = Cardinality(Owers(x, y, z)') + 1
    BY <2>2, <2>6, FS_AddElement, FS_CardinalityType
  <2> QED  BY <2>5, <2>7
<1>6. \A x, y \in Account, z \in Amount :
        Cardinality(Sent(x, y, z)) >=
          Cardinality(Received(x, y, z)) + Cardinality(Owers(x, y, z))
  BY DEF LedgerInv, Owed
<1> HIDE DEF a, b, m
<1>7. CASE UNCHANGED <<events, streams>>
  <2>1. TypeOK'
    BY <1>1, <1>2, <1>3, <1>7 DEF TypeOK
  <2>2. Decided' /\ OnTheWay'
    BY <1>3, <1>7, NothingAdded, OthersValid DEF Decided, OnTheWay
  <2>3. Owed'
    <3> SUFFICES ASSUME NEW x \in Account, NEW y \in Account, NEW z \in Amount
                 PROVE  Cardinality(Sent(x, y, z)') >=
                          Cardinality(Received(x, y, z)') + Cardinality(Owers(x, y, z)')
      BY DEF Owed
    <3>1. Sent(x, y, z)' = Sent(x, y, z) /\ Received(x, y, z)' = Received(x, y, z)
      BY <1>7, NothingAdded
    <3> QED  BY <1>4, <1>5, <1>6, <3>1
  <2> QED  BY <1>7, <2>1, <2>2, <2>3, NothingAdded DEF LedgerInv
<1>8. CASE Add(b, "deposited", m, a)
  <2>1. /\ StoreOK'
        /\ \A x \in Account : x # b => streams'[x] = streams[x]
        /\ Len(streams'[b]) = Len(streams[b]) + 1
        /\ Replay(streams[b]) \in Int
        /\ Replay(streams'[b]) = Replay(streams[b]) + m
    BY <1>2, <1>8, AddStreams
  <2>2. ProjectionAgrees'
    BY <1>2, <1>8, AddProjection
  <2>3. TypeOK'
    BY <1>1, <1>2, <1>3, <2>1 DEF TypeOK, StoreOK
  <2>4. Solvent'
    <3>1. Replay(streams[b]) >= 0 /\ \A x \in Account : Replay(streams[x]) >= 0
      BY <1>2 DEF LedgerInv, Solvent
    <3>2. Replay(streams'[b]) >= 0
      BY <1>2, <2>1, <3>1
    <3> QED  BY <2>1, <3>1, <3>2 DEF Solvent
  <2>5. StreamsGrow
    BY <2>1 DEF StreamsGrow
  <2>6. Decided' /\ OnTheWay'
    BY <1>3, <2>5, OthersValid DEF Decided, OnTheWay
  <2>7. \A x, y \in Account, z \in Amount :
          /\ Cardinality(Sent(x, y, z)') = Cardinality(Sent(x, y, z))
          /\ Cardinality(Received(x, y, z)') =
               Cardinality(Received(x, y, z)) +
               (IF a = x /\ b = y /\ m = z THEN 1 ELSE 0)
    <3> SUFFICES ASSUME NEW x \in Account, NEW y \in Account, NEW z \in Amount
                 PROVE  /\ Cardinality(Sent(x, y, z)') = Cardinality(Sent(x, y, z)) + 0
                        /\ Cardinality(Received(x, y, z)') =
                             Cardinality(Received(x, y, z)) +
                             (IF a = x /\ b = y /\ m = z THEN 1 ELSE 0)
      BY <1>4
    <3> QED  BY <1>2, <1>8, AddTransit
  <2>8. Owed'
    <3> SUFFICES ASSUME NEW x \in Account, NEW y \in Account, NEW z \in Amount
                 PROVE  Cardinality(Sent(x, y, z)') >=
                          Cardinality(Received(x, y, z)') + Cardinality(Owers(x, y, z)')
      BY DEF Owed
    <3> QED  BY <1>4, <1>5, <1>6, <2>7
  <2>9. Transit[a][b][m] > 0
    <3>1. Cardinality(Owers(a, b, m)) > 0
      BY <1>5
    <3> QED  BY <1>2, <1>4, <1>6, <3>1 DEF Transit
  <2>10. Transit' = [Transit EXCEPT ![a][b][m] = @ - 1]
    <3>1. \A x, y \in Account, z \in Amount :
            Transit'[x][y][z] =
              Transit[x][y][z] + (IF a = x /\ b = y /\ m = z THEN -1 ELSE 0)
      BY <1>4, <2>7 DEF Transit
    <3>2. Transit \in [Account -> [Account -> [Amount -> Int]]]
      BY <1>2, TransitType
    <3>3. Transit' \in [Account -> [Account -> [Amount -> Int]]]
      BY <1>4, <2>7 DEF Transit
    <3> DEFINE T == Transit
               U == Transit'
    <3>4. IsChanged(T, U, a, b, m, -1)
      BY <3>1, <3>2, <3>3 DEF IsChanged
    <3> HIDE DEF T, U
    <3>5. U = Changed(T, a, b, m, -1)
      BY <1>2, <3>4, TableUpdate
    <3>6. T[a][b][m] \in Int
      BY <1>2, <1>4 DEF T, Transit
    <3>7. T[a][b][m] + (-1) = T[a][b][m] - 1
      BY <3>6
    <3> QED  BY <3>5, <3>7 DEF Changed, T, U
  <2>11. Worth' = [Worth EXCEPT ![b] = @ + m]
    BY <1>2, <1>8, AddWorth
  <2>12. Books!Receive(a, b, m)
    BY <2>9, <2>10, <2>11 DEF Books!Receive
  <2> QED  BY <1>2, <2>2, <2>3, <2>4, <2>6, <2>8, <2>12 DEF LedgerInv, Books!Next
<1> QED  BY <1>1, <1>7, <1>8 DEF a, b, m

-----------------------------------------------------------------------------
(* The theorems.                                                           *)

LEMMA StepInv ==
  ASSUME Reuse = FALSE, LedgerInv, [Next]_vars
  PROVE  LedgerInv' /\ [Books!Next]_<<Worth, Transit>>
<1>1. CASE UNCHANGED vars
  <2>1. UNCHANGED <<events, streams>> /\ UNCHANGED <<pc, handle, command, credit, used>>
    BY <1>1 DEF vars
  <2>2. TypeOK' /\ Decided' /\ OnTheWay'
    BY <2>1 DEF LedgerInv, TypeOK, Decided, Valid, OnTheWay, Halfway
  <2>3. \A x, y, z : Owers(x, y, z)' = Owers(x, y, z)
    BY <2>1 DEF Owers, Halfway
  <2>4. Owed'
    BY <2>1, <2>3, NothingAdded DEF LedgerInv, Owed
  <2> QED  BY <2>1, <2>2, <2>4, NothingAdded DEF LedgerInv
<1>2. ASSUME NEW c \in Caller, Open(c)
      PROVE  LedgerInv' /\ [Books!Next]_<<Worth, Transit>>
  BY <1>2, OpenInv
<1>3. ASSUME NEW c \in Caller, Record(c)
      PROVE  LedgerInv' /\ [Books!Next]_<<Worth, Transit>>
  BY <1>3, RecordInv
<1>4. ASSUME NEW c \in Caller, LoadReceiver(c)
      PROVE  LedgerInv' /\ [Books!Next]_<<Worth, Transit>>
  BY <1>4, LoadReceiverInv
<1>5. ASSUME NEW c \in Caller, Credit(c)
      PROVE  LedgerInv' /\ [Books!Next]_<<Worth, Transit>>
  BY <1>5, CreditInv
<1>6. ASSUME NEW c \in Caller, NEW m \in Amount,
             Decide(c, "deposited", m, None) \/ Decide(c, "withdrawn", m, None)
      PROVE  LedgerInv' /\ [Books!Next]_<<Worth, Transit>>
  BY <1>6, DecideInv
<1>7. ASSUME NEW c \in Caller, NEW m \in Amount, NEW to \in Account,
             Decide(c, "transferred", m, to)
      PROVE  LedgerInv' /\ [Books!Next]_<<Worth, Transit>>
  BY <1>7, DecideInv
<1> QED  BY <1>1, <1>2, <1>3, <1>4, <1>5, <1>6, <1>7 DEF Next

\* Events, objects and commands keep their types, and no new Account is ever
\* hydrated to a negative balance.
THEOREM TypeCorrect ==
  ASSUME Reuse = FALSE PROVE Spec => []TypeOK
<1>1. LedgerInv => TypeOK
  BY DEF LedgerInv
<1> QED  BY <1>1, InitInv, StepInv, PTL DEF Spec

\* The read model agrees with the accounts.
THEOREM ProjectionAlwaysAgrees ==
  ASSUME Reuse = FALSE PROVE Spec => []ProjectionAgrees
<1>1. LedgerInv => ProjectionAgrees
  BY DEF LedgerInv
<1> QED  BY <1>1, InitInv, StepInv, PTL DEF Spec

\* No account is overdrawn, if no Account is given a second command.
THEOREM NeverOverdrawn ==
  ASSUME Reuse = FALSE PROVE Spec => []NoOverdraft
<1>1. LedgerInv => NoOverdraft
  BY DEF LedgerInv, Solvent, NoOverdraft
<1> QED  BY <1>1, InitInv, StepInv, PTL DEF Spec

\* The accounts and the store implement Bank.
THEOREM Implements ==
  ASSUME Reuse = FALSE PROVE Spec => KeepsBooks
<1>1. Init => Books!Init
  <2> SUFFICES ASSUME Init PROVE Books!Init
    OBVIOUS
  <2>1. ASSUME NEW a, NEW b, NEW m
        PROVE  Sent(a, b, m) = {} /\ Received(a, b, m) = {}
    BY EmptySeq, LenProperties DEF Sent, Received, Init
  <2>2. \A a, b, m : Cardinality(Sent(a, b, m)) - Cardinality(Received(a, b, m)) = 0
    BY <2>1, FS_EmptySet
  <2>3. Worth = [a \in Account |-> 0]
    BY ReplayEmpty DEF Worth, Init
  <2>4. Transit = [a \in Account |-> [b \in Account |-> [m \in Amount |-> 0]]]
    BY <2>2 DEF Transit
  <2> QED  BY <2>3, <2>4 DEF Books!Init
<1> QED  BY <1>1, InitInv, StepInv, PTL DEF Spec, KeepsBooks, Books!Spec
=============================================================================
