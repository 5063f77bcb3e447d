-------------------------- MODULE StructureProofs --------------------------
(***************************************************************************)
(* What the limiters, the LRU cache and the LSM tree guarantee, for any    *)
(* limits, windows, capacities, keys, values, table sizes and times.  Each *)
(* section has the inductive invariant, the lemmas on the structure and    *)
(* the theorem.                                                            *)
(***************************************************************************)
EXTENDS Limiters, Lru, LsmTree, TLAPS, SequenceTheorems, FiniteSetTheorems,
        FunctionTheorems, WellFoundedInduction

-----------------------------------------------------------------------------
(* Numbers and lists.                                                      *)

\* A set of numbers has a least one.
LEMMA LeastOf ==
  ASSUME NEW T \in SUBSET Nat, T # {}
  PROVE  \E k \in T : \A n \in T : k <= n
<1>1. \E k \in T : \A n \in T : <<n, k>> \notin OpToRel(<, Nat)
  BY NatLessThanWellFounded, WFMin
<1>2. \A n, k \in T : <<n, k>> \notin OpToRel(<, Nat) => k <= n
  BY DEF OpToRel
<1> QED  BY <1>1, <1>2

\* What is left of a list without its i-th element.
LEMMA RemoveAtProperties ==
  ASSUME NEW S, NEW list \in Seq(S), NEW i \in DOMAIN list
  PROVE  /\ RemoveAt(list, i) \in Seq(S)
         /\ Len(RemoveAt(list, i)) = Len(list) - 1
         /\ \A j \in 1 .. Len(list) - 1 :
              RemoveAt(list, i)[j] = IF j < i THEN list[j] ELSE list[j + 1]
<1> DEFINE n == Len(list)
           front == SubSeq(list, 1, i - 1)
           back == SubSeq(list, i + 1, n)
<1>1. n \in Nat /\ i \in 1 .. n /\ DOMAIN list = 1 .. n
  OBVIOUS
<1>2. /\ front \in Seq(S) /\ Len(front) = i - 1
      /\ \A j \in 1 .. i - 1 : front[j] = list[j]
  BY <1>1
<1>3. /\ back \in Seq(S) /\ Len(back) = n - i
      /\ \A j \in 1 .. n - i : back[j] = list[i + j]
  BY <1>1
<1> HIDE DEF front, back
<1>4. /\ front \o back \in Seq(S) /\ Len(front \o back) = n - 1
      /\ \A j \in 1 .. n - 1 : (front \o back)[j] = IF j <= i - 1 THEN front[j] ELSE back[j - (i - 1)]
  <2>1. front \in Seq(S) /\ back \in Seq(S) /\ Len(front) = i - 1 /\ Len(back) = n - i
    BY <1>2, <1>3
  <2>2. /\ front \o back \in Seq(S) /\ Len(front \o back) = Len(front) + Len(back)
        /\ \A j \in 1 .. Len(front) + Len(back) :
             (front \o back)[j] = IF j <= Len(front) THEN front[j] ELSE back[j - Len(front)]
    BY <2>1, ConcatProperties
  <2>3. Len(front) + Len(back) = n - 1
    BY <1>1, <2>1
  <2>4. QED
    BY <2>1, <2>2, <2>3
<1>5. ASSUME NEW j \in 1 .. n - 1
      PROVE  (front \o back)[j] = IF j < i THEN list[j] ELSE list[j + 1]
  <2>1. CASE j < i
    BY <1>1, <1>2, <1>4, <2>1
  <2>2. CASE ~(j < i)
    <3>1. j - (i - 1) \in 1 .. n - i /\ i + (j - (i - 1)) = j + 1
      BY <1>1, <2>2
    <3>2. (front \o back)[j] = back[j - (i - 1)]
      BY <1>1, <1>4, <2>2
    <3>3. QED
      BY <2>2, <3>1, <3>2, <1>3
  <2>3. QED
    BY <2>1, <2>2
<1>6. QED
  BY <1>1, <1>4, <1>5 DEF RemoveAt, front, back

\* A list without repetitions.
Distinct(list) == \A i, j \in DOMAIN list : list[i] = list[j] => i = j

-----------------------------------------------------------------------------
(* Whole divisions.                                                        *)

LEMMA Division ==
  ASSUME NEW x \in Nat, NEW d \in Nat \ {0}
  PROVE  x \div d \in Nat /\ d * (x \div d) <= x /\ x < d * (x \div d) + d
OBVIOUS

LEMMA Multiples ==
  ASSUME NEW d \in Nat \ {0}, NEW a \in Int, NEW b \in Int
  PROVE  /\ d * a \in Int /\ d * (a + b) = d * a + d * b /\ d * (a - b) = d * a - d * b
         /\ d * (a + 1) = d * a + d
         /\ d * a < d * b + d => a <= b
         /\ d * a < d * b => a < b
         /\ a <= b => d * a <= d * b
OBVIOUS

\* As many whole parts as fit.
LEMMA AtMostTheQuotient ==
  ASSUME NEW d \in Nat \ {0}, NEW x \in Nat, NEW m \in Int, d * m <= x
  PROVE  m <= x \div d
<1>1. x \div d \in Nat /\ x < d * (x \div d) + d
  BY Division
<1>2. d * m \in Int /\ d * (x \div d) \in Int
  BY <1>1, Multiples
<1>3. d * m < d * (x \div d) + d
  BY <1>1, <1>2
<1> QED  BY <1>1, <1>3, Multiples

LEMMA DivisionGrows ==
  ASSUME NEW d \in Nat \ {0}, NEW x \in Nat, NEW y \in Nat, x <= y
  PROVE  x \div d <= y \div d
<1>1. x \div d \in Nat /\ d * (x \div d) <= x /\ d * (x \div d) \in Int
  BY Division, Multiples
<1>2. d * (x \div d) <= y
  BY <1>1
<1> QED  BY <1>1, <1>2, AtMostTheQuotient

\* Whole parts that end between x and y: one more than fit, at most.
LEMMA DivisionGap ==
  ASSUME NEW d \in Nat \ {0}, NEW x \in Nat, NEW y \in Nat, x <= y
  PROVE  y \div d - x \div d <= (y - x) \div d + 1
<1>1. /\ x \div d \in Nat /\ x < d * (x \div d) + d
      /\ y \div d \in Nat /\ d * (y \div d) <= y
  BY Division
<1>2. PICK a \in Nat, b \in Nat : a = x \div d /\ b = y \div d
  BY <1>1
<1>3. d * (b - (a + 1)) = d * b - d * (a + 1) /\ d * (a + 1) = d * a + d
  BY Multiples
<1>4. d * a \in Int /\ d * b \in Int /\ d * (a + 1) \in Int
  BY Multiples
<1>5. d * (b - (a + 1)) <= y - x
  BY <1>1, <1>2, <1>3, <1>4
<1>6. y - x \in Nat /\ b - (a + 1) \in Int
  OBVIOUS
<1>7. b - (a + 1) <= (y - x) \div d
  BY <1>5, <1>6, AtMostTheQuotient
<1>8. (y - x) \div d \in Nat
  BY <1>6, Division
<1> QED  BY <1>2, <1>7, <1>8

\* A whole part later there is one more.
LEMMA DivisionStep ==
  ASSUME NEW d \in Nat \ {0}, NEW x \in Nat, NEW y \in Nat, x + d <= y
  PROVE  x \div d + 1 <= y \div d
<1>1. x \div d \in Nat /\ d * (x \div d) <= x /\ d * (x \div d) \in Int
  BY Division, Multiples
<1>2. d * (x \div d + 1) = d * (x \div d) + d
  BY <1>1, Multiples
<1>3. d * (x \div d + 1) <= y
  BY <1>1, <1>2
<1>4. x \div d + 1 \in Int
  BY <1>1
<1> QED  BY <1>3, <1>4, AtMostTheQuotient

\* A tick later there is at most one more, and one more only at a multiple.
LEMMA DivisionTick ==
  ASSUME NEW d \in Nat \ {0}, NEW x \in Nat
  PROVE  /\ (x + 1) \div d <= x \div d + 1
         /\ x \div d <= (x + 1) \div d
         /\ (x + 1) % d # 0 => (x + 1) \div d = x \div d
         /\ (x + 1) % d = 0 => (x + 1) \div d = x \div d + 1
<1>1. PICK a \in Nat, b \in Nat : a = x \div d /\ b = (x + 1) \div d
  BY Division
<1>2. /\ d * a <= x /\ x < d * a + d
      /\ d * b <= x + 1 /\ x + 1 < d * b + d
  BY <1>1, Division
<1>3. /\ (x + 1) % d \in 0 .. d - 1 /\ x + 1 = d * b + ((x + 1) % d)
  BY <1>1
<1>4. a <= b
  BY <1>1, DivisionGrows
<1>5. d * a \in Int /\ d * b \in Int /\ d * (a + 1) = d * a + d /\ d * (b - 1) = d * b - d
  BY Multiples
<1>6. b <= a + 1
  <2>1. d * b < d * (a + 1) + d
    BY <1>2, <1>5
  <2> QED  BY <2>1, Multiples
<1>7. ASSUME (x + 1) % d # 0 PROVE b = a
  <2>1. d * b <= x
    BY <1>3, <1>5, <1>7
  <2>2. d * b < d * a + d
    BY <1>2, <1>5, <2>1
  <2>3. b <= a
    BY <2>2, Multiples
  <2> QED  BY <1>4, <2>3
<1>8. ASSUME (x + 1) % d = 0 PROVE b = a + 1
  <2>1. d * a < d * b
    BY <1>2, <1>3, <1>5, <1>8
  <2>2. a < b
    BY <2>1, Multiples
  <2> QED  BY <1>6, <2>2
<1> QED  BY <1>1, <1>4, <1>6, <1>7, <1>8

-----------------------------------------------------------------------------
(* The limiters.                                                           *)

LimitersType ==
  /\ algo \in {"token", "leaky", "fixed", "sliding"}
  /\ now \in 0 .. MaxTime
  /\ bucket \in [tokens: Nat, lastRefill: Nat]
  /\ leaky \in [queue: Nat, due: BOOLEAN]
  /\ counts \in [0 .. (MaxTime \div Window) -> Nat]
  /\ logs \in Seq(Nat) /\ admitted \in Seq(Nat)
  /\ \A i, j \in DOMAIN admitted : i <= j => admitted[i] <= admitted[j]
  /\ \A i \in DOMAIN admitted : admitted[i] <= now

\* How many were let through from the i-th on.
Since(i) == Len(admitted) - i + 1

\* What was let through and what is in the bucket came with the refills.
TokenInv ==
  algo = "token" =>
    /\ bucket.tokens <= Full /\ bucket.lastRefill <= now
    /\ \A i \in DOMAIN admitted :
         /\ admitted[i] <= bucket.lastRefill
         /\ RefillTicks * Since(i) + bucket.tokens <= Full + (bucket.lastRefill - admitted[i])

\* What was let through is in the queue or went with a tick.
LeakyInv ==
  algo = "leaky" =>
    /\ leaky.queue <= Limit
    /\ \A i \in DOMAIN admitted :
         Since(i) + (IF leaky.due THEN 1 ELSE 0) <=
           leaky.queue + 1 + (now \div DrainTicks - admitted[i] \div DrainTicks)

\* What was let through was counted in this window or an earlier one.
FixedInv ==
  algo = "fixed" =>
    /\ \A w \in DOMAIN counts : counts[w] <= Limit
    /\ \A i \in DOMAIN admitted :
         Since(i) <= counts[now \div Window] + Limit * (now \div Window - admitted[i] \div Window)

\* The log has the last requests let through, those of the last window at
\* least, and nobody got through within a window of the Limit-th before him.
SlidingInv ==
  algo = "sliding" =>
    /\ Len(logs) <= Limit /\ Len(logs) <= Len(admitted)
    /\ \A p \in DOMAIN logs : logs[p] = admitted[Len(admitted) - Len(logs) + p]
    /\ Len(logs) < Len(admitted) => admitted[Len(admitted) - Len(logs)] + Window <= now
    /\ \A j \in DOMAIN admitted : j > Limit => admitted[j - Limit] + Window <= admitted[j]

LimitersInv ==
  /\ LimitersType
  /\ TokenInv /\ LeakyInv /\ FixedInv /\ SlidingInv
  /\ RateKept

LEMMA LimitersStart == LimitersInit => LimitersInv
<1> SUFFICES ASSUME LimitersInit PROVE LimitersInv
  OBVIOUS
<1>1. /\ now = 0 /\ admitted = <<>> /\ logs = <<>>
      /\ bucket = [tokens |-> Full, lastRefill |-> 0]
      /\ leaky = [queue |-> 0, due |-> FALSE]
      /\ counts = [w \in 0 .. (MaxTime \div Window) |-> 0]
      /\ algo \in {"token", "leaky", "fixed", "sliding"}
  BY DEF LimitersInit
<1>2. DOMAIN admitted = {} /\ DOMAIN logs = {} /\ Len(logs) = 0 /\ Len(admitted) = 0
  BY <1>1
<1>3. Full \in Nat
  BY LimitersAssumption DEF Full
<1>4. LimitersType
  BY <1>1, <1>2, <1>3, LimitersAssumption DEF LimitersType
<1>5. TokenInv
  BY <1>1, <1>2, <1>3 DEF TokenInv
<1>6. LeakyInv
  BY <1>1, <1>2, LimitersAssumption DEF LeakyInv
<1>7. FixedInv
  BY <1>1, <1>2, LimitersAssumption DEF FixedInv
<1>8. SlidingInv
  BY <1>1, <1>2, LimitersAssumption DEF SlidingInv
<1>9. RateKept
  BY <1>2 DEF RateKept
<1> QED
  BY <1>4, <1>5, <1>6, <1>7, <1>8, <1>9 DEF LimitersInv

-----------------------------------------------------------------------------
(* One more let through.                                                   *)

LEMMA AdmitStep ==
  ASSUME LimitersType, Admit
  PROVE  /\ admitted' \in Seq(Nat) /\ Len(admitted') = Len(admitted) + 1
         /\ Len(admitted) \in Nat
         /\ DOMAIN admitted = 1 .. Len(admitted)
         /\ DOMAIN admitted' = 1 .. Len(admitted) + 1
         /\ \A i \in DOMAIN admitted : i \in DOMAIN admitted' /\ admitted'[i] = admitted[i]
         /\ admitted'[Len(admitted) + 1] = now
         /\ \A i \in DOMAIN admitted' : i \in DOMAIN admitted \/ i = Len(admitted) + 1
         /\ \A i \in DOMAIN admitted' : admitted'[i] <= now /\ admitted'[i] \in Nat
         /\ \A i, j \in DOMAIN admitted' : i <= j => admitted'[i] <= admitted'[j]
         /\ \A i \in DOMAIN admitted : Since(i)' = Since(i) + 1 /\ Since(i) \in Nat
         /\ \A i \in DOMAIN admitted' : Since(i)' = Len(admitted) - i + 2
<1>1. /\ admitted \in Seq(Nat) /\ now \in Nat /\ Len(admitted) \in Nat
      /\ DOMAIN admitted = 1 .. Len(admitted)
      /\ admitted' = Append(admitted, now)
      /\ \A i, j \in DOMAIN admitted : i <= j => admitted[i] <= admitted[j]
      /\ \A i \in DOMAIN admitted : admitted[i] <= now /\ admitted[i] \in Nat
  BY LimitersAssumption DEF LimitersType, Admit
<1>2. PICK new : new = admitted'
  OBVIOUS
<1>3. PICK n \in Nat : n = Len(admitted)
  BY <1>1
<1>4. /\ new \in Seq(Nat) /\ Len(new) = n + 1
      /\ \A i \in 1 .. n : new[i] = admitted[i]
      /\ new[n + 1] = now
  BY <1>1, <1>2, <1>3, AppendProperties
<1>5. /\ DOMAIN new = 1 .. n + 1 /\ DOMAIN admitted = 1 .. n
  BY <1>1, <1>3, <1>4
<1>6. \A i \in DOMAIN new : (i \in DOMAIN admitted /\ new[i] = admitted[i]) \/ i = n + 1
  BY <1>4, <1>5
<1>7. \A i \in DOMAIN new : new[i] <= now /\ new[i] \in Nat
  BY <1>1, <1>4, <1>6
<1>8. ASSUME NEW i \in DOMAIN new, NEW j \in DOMAIN new, i <= j PROVE new[i] <= new[j]
  <2>1. CASE j = n + 1
    BY <1>4, <1>7, <2>1
  <2>2. CASE j # n + 1
    <3>1. i \in DOMAIN admitted /\ j \in DOMAIN admitted
      BY <1>5, <1>8, <2>2
    <3> QED  BY <1>1, <1>4, <1>5, <1>8, <3>1
  <2> QED  BY <2>1, <2>2
<1>9. \A i : Since(i)' = Len(new) - i + 1 /\ Since(i) = n - i + 1
  BY <1>2, <1>3 DEF Since
<1>10. /\ \A i \in DOMAIN admitted : Since(i)' = Since(i) + 1 /\ Since(i) \in Nat
       /\ \A i \in DOMAIN new : Since(i)' = n - i + 2
  <2>1. ASSUME NEW i \in 1 .. n + 1 PROVE Since(i)' = n - i + 2
    <3>1. Since(i)' = (n + 1) - i + 1
      BY <1>4, <1>9
    <3> QED  BY <3>1
  <2>2. ASSUME NEW i \in 1 .. n PROVE Since(i)' = Since(i) + 1 /\ Since(i) \in Nat
    <3>1. Since(i) = n - i + 1 /\ Since(i)' = n - i + 2
      BY <1>9, <2>1
    <3> QED  BY <3>1
  <2> QED  BY <1>5, <2>1, <2>2
<1> QED
  BY <1>2, <1>3, <1>4, <1>5, <1>6, <1>7, <1>8, <1>10

\* The rate is kept if the one let through now keeps it.
LEMMA AdmitKeepsRate ==
  ASSUME LimitersType, RateKept, Admit, algo' = algo,
         \A i \in DOMAIN admitted' : Since(i)' <= Allowance(now - admitted'[i])
  PROVE  RateKept'
<1>1. SUFFICES ASSUME NEW i \in DOMAIN admitted', NEW j \in DOMAIN admitted', i <= j
               PROVE  j - i + 1 <= Allowance(admitted'[j] - admitted'[i])
  BY DEF RateKept, Allowance
<1>2. /\ Len(admitted) \in Nat
      /\ DOMAIN admitted = 1 .. Len(admitted)
      /\ DOMAIN admitted' = 1 .. Len(admitted) + 1
      /\ \A h \in DOMAIN admitted : admitted'[h] = admitted[h]
      /\ admitted'[Len(admitted) + 1] = now
      /\ \A h \in DOMAIN admitted' : h \in DOMAIN admitted \/ h = Len(admitted) + 1
      /\ \A h \in DOMAIN admitted' : Since(h)' = Len(admitted) - h + 2
  BY AdmitStep
<1>3. CASE j = Len(admitted) + 1
  <2>1. j - i + 1 = Since(i)'
    BY <1>2, <1>3
  <2> QED  BY <1>2, <1>3, <2>1
<1>4. CASE j # Len(admitted) + 1
  <2>1. i \in DOMAIN admitted /\ j \in DOMAIN admitted
    BY <1>1, <1>2, <1>4
  <2>2. j - i + 1 <= Allowance(admitted[j] - admitted[i])
    BY <1>1, <2>1 DEF RateKept
  <2> QED  BY <1>2, <2>1, <2>2
<1> QED
  BY <1>3, <1>4

\* Who is not let through changes nothing.
LEMMA RefuseKeepsRate ==
  ASSUME RateKept, admitted' = admitted, algo' = algo
  PROVE  RateKept'
BY DEF RateKept, Allowance

\* What an action leaves of the types when it lets nobody through or one.
LEMMA TypesStay ==
  ASSUME LimitersType, algo' = algo, now' = now,
         bucket' \in [tokens: Nat, lastRefill: Nat],
         leaky' \in [queue: Nat, due: BOOLEAN],
         counts' \in [0 .. (MaxTime \div Window) -> Nat],
         logs' \in Seq(Nat),
         Admit \/ UNCHANGED admitted
  PROVE  LimitersType'
<1>1. CASE Admit
  BY <1>1, AdmitStep DEF LimitersType
<1>2. CASE UNCHANGED admitted
  BY <1>2 DEF LimitersType
<1> QED
  BY <1>1, <1>2

\* An action of one limiter, if its own invariant is kept.
LEMMA OneLimiter ==
  ASSUME LimitersInv, LimitersType', algo' = algo, RateKept',
         algo = "token" => TokenInv', algo = "leaky" => LeakyInv',
         algo = "fixed" => FixedInv', algo = "sliding" => SlidingInv'
  PROVE  LimitersInv'
<1>1. algo \in {"token", "leaky", "fixed", "sliding"}
  BY DEF LimitersInv, LimitersType
<1>2. CASE algo = "token"
  BY <1>2 DEF LimitersInv, LeakyInv, FixedInv, SlidingInv
<1>3. CASE algo = "leaky"
  BY <1>3 DEF LimitersInv, TokenInv, FixedInv, SlidingInv
<1>4. CASE algo = "fixed"
  BY <1>4 DEF LimitersInv, TokenInv, LeakyInv, SlidingInv
<1>5. CASE algo = "sliding"
  BY <1>5 DEF LimitersInv, TokenInv, LeakyInv, FixedInv
<1> QED
  BY <1>1, <1>2, <1>3, <1>4, <1>5

-----------------------------------------------------------------------------
LEMMA TokenAllowStep ==
  ASSUME LimitersInv, TokenAllow
  PROVE  LimitersInv'
<1>1. /\ algo = "token" /\ algo' = algo /\ now' = now
      /\ leaky' = leaky /\ counts' = counts /\ logs' = logs
  BY DEF TokenAllow
<1>2. LimitersType /\ RateKept
  BY DEF LimitersInv
<1>3. /\ now \in Nat /\ bucket \in [tokens: Nat, lastRefill: Nat]
      /\ bucket.tokens \in Nat /\ bucket.lastRefill \in Nat
      /\ admitted \in Seq(Nat)
  BY <1>2, LimitersAssumption DEF LimitersType
<1>4. /\ bucket.tokens <= Full /\ bucket.lastRefill <= now
      /\ \A i \in DOMAIN admitted :
           /\ admitted[i] <= bucket.lastRefill
           /\ RefillTicks * Since(i) + bucket.tokens <= Full + (bucket.lastRefill - admitted[i])
  BY <1>1 DEF LimitersInv, TokenInv
<1>5. RefillTicks \in Nat \ {0} /\ Limit \in Nat \ {0} /\ Full \in Nat /\ Full = RefillTicks * Limit
  BY LimitersAssumption DEF Full
<1>6. PICK r \in Nat : /\ r = Refilled /\ r <= Full
                       /\ r <= bucket.tokens + (now - bucket.lastRefill)
  BY <1>3, <1>4, <1>5 DEF Refilled, Least
<1>7. \A i \in DOMAIN admitted : admitted[i] \in Nat /\ admitted[i] <= now /\ Since(i) \in Int
  BY <1>2, <1>3 DEF LimitersType, Since
<1>8. CASE r >= RefillTicks
  <2>1. bucket' = [tokens |-> r - RefillTicks, lastRefill |-> now] /\ Admit
    BY <1>6, <1>8 DEF TokenAllow
  <2>2. r - RefillTicks \in Nat
    BY <1>5, <1>8
  <2>3. /\ bucket'.tokens = r - RefillTicks /\ bucket'.lastRefill = now
        /\ bucket' \in [tokens: Nat, lastRefill: Nat]
    BY <1>3, <2>1, <2>2
  <2>4. LimitersType'
    BY <1>1, <1>2, <2>1, <2>3, TypesStay DEF LimitersType
  <2>5. ASSUME NEW i \in DOMAIN admitted'
        PROVE  /\ admitted'[i] <= now /\ admitted'[i] \in Nat /\ Since(i)' \in Int
               /\ RefillTicks * Since(i)' + (r - RefillTicks) <= Full + (now - admitted'[i])
    <3>1. admitted'[i] <= now /\ admitted'[i] \in Nat /\ Since(i)' \in Int
      BY <1>2, <2>1, AdmitStep
    <3>2. CASE i \in DOMAIN admitted
      <4>1. Since(i)' = Since(i) + 1 /\ admitted'[i] = admitted[i]
        BY <1>2, <2>1, <3>2, AdmitStep
      <4>2. PICK m \in Int, x \in Nat : m = Since(i) /\ x = admitted[i] /\ x <= bucket.lastRefill
        BY <1>4, <1>7, <3>2
      <4>3. RefillTicks * m + bucket.tokens <= Full + (bucket.lastRefill - x)
        BY <1>4, <3>2, <4>2
      <4>4. RefillTicks * (m + 1) = RefillTicks * m + RefillTicks /\ RefillTicks * m \in Int
        BY <1>5, Multiples
      <4>5. RefillTicks * (m + 1) + (r - RefillTicks) <= Full + (now - x)
        BY <1>3, <1>5, <1>6, <4>3, <4>4
      <4> QED  BY <3>1, <4>1, <4>2, <4>5
    <3>3. CASE i = Len(admitted) + 1
      <4>1. Since(i)' = 1 /\ admitted'[i] = now
        BY SMTT(30), <1>2, <2>1, <3>3, AdmitStep
      <4>2. RefillTicks * 1 + (r - RefillTicks) <= Full + (now - now)
        BY <1>3, <1>5, <1>6
      <4> QED  BY <3>1, <4>1, <4>2
    <3> QED  BY <1>2, <2>1, <3>2, <3>3, AdmitStep
  <2>6. TokenInv'
    <3>1. bucket'.tokens <= Full /\ bucket'.lastRefill <= now
      BY <1>3, <1>5, <1>6, <2>3
    <3>2. Full' = Full
      BY DEF Full
    <3> QED  BY <1>1, <2>3, <2>5, <3>1, <3>2 DEF TokenInv
  <2>7. ASSUME NEW i \in DOMAIN admitted'
        PROVE  Since(i)' <= Allowance(now - admitted'[i])
    <3>1. PICK m \in Int, x \in Nat : m = Since(i)' /\ x = admitted'[i] /\ x <= now
      BY <2>5
    <3>2. RefillTicks * m + (r - RefillTicks) <= Full + (now - x)
      BY <2>5, <3>1
    <3>3. RefillTicks * (m - Limit) = RefillTicks * m - RefillTicks * Limit
          /\ RefillTicks * m \in Int
      BY <1>5, Multiples
    <3>4. RefillTicks * (m - Limit) <= now - x /\ now - x \in Nat /\ m - Limit \in Int
      <4>1. PICK u \in Int : u = RefillTicks * m /\ u + (r - RefillTicks) <= Full + (now - x)
        BY <3>2, <3>3
      <4>2. u - Full <= now - x
        <5>1. \A a, b, c, d, e \in Int : a + (b - c) <= d + e /\ b >= c => a - d <= e
          OBVIOUS
        <5>2. r \in Int /\ RefillTicks \in Int /\ Full \in Int /\ now - x \in Int
          BY <1>3, <1>5
        <5> QED  BY <1>8, <4>1, <5>1, <5>2
      <4>3. now - x \in Nat /\ m - Limit \in Int
        BY <1>3, <1>5, <3>1
      <4> QED  BY <1>5, <3>3, <4>1, <4>2, <4>3
    <3>5. m - Limit <= (now - x) \div RefillTicks
      BY <1>5, <3>4, AtMostTheQuotient
    <3>6. (now - x) \div RefillTicks \in Nat
      BY <1>5, <3>4, Division
    <3>7. m <= Limit + (now - x) \div RefillTicks
      BY <1>5, <3>5, <3>6
    <3> QED  BY <1>1, <3>1, <3>7 DEF Allowance
  <2>8. RateKept'
    BY <1>1, <1>2, <2>1, <2>7, AdmitKeepsRate
  <2> QED  BY <1>1, <2>4, <2>6, <2>8, OneLimiter
<1>9. CASE ~(r >= RefillTicks)
  <2>1. bucket' = [tokens |-> r, lastRefill |-> now] /\ admitted' = admitted
    BY <1>6, <1>9 DEF TokenAllow
  <2>2. /\ bucket'.tokens = r /\ bucket'.lastRefill = now
        /\ bucket' \in [tokens: Nat, lastRefill: Nat]
    BY <1>3, <2>1
  <2>3. LimitersType'
    BY <1>1, <1>2, <2>1, <2>2, TypesStay DEF LimitersType
  <2>4. ASSUME NEW i \in DOMAIN admitted
        PROVE  RefillTicks * Since(i) + r <= Full + (now - admitted[i])
    <3>1. PICK m \in Int, x \in Nat : m = Since(i) /\ x = admitted[i]
      BY <1>7
    <3>2. RefillTicks * m + bucket.tokens <= Full + (bucket.lastRefill - x) /\ RefillTicks * m \in Int
      BY <1>4, <1>5, <3>1, Multiples
    <3>3. RefillTicks * m + r <= Full + (now - x)
      BY <1>3, <1>5, <1>6, <3>2
    <3> QED  BY <3>1, <3>3
  <2>5. TokenInv'
    <3>1. Full' = Full /\ \A i : Since(i)' = Since(i)
      BY <2>1 DEF Full, Since
    <3> QED  BY <1>1, <1>3, <1>6, <1>7, <2>1, <2>2, <2>4, <3>1 DEF TokenInv
  <2>6. RateKept'
    BY <1>1, <1>2, <2>1, RefuseKeepsRate
  <2> QED  BY <1>1, <2>3, <2>5, <2>6, OneLimiter
<1> QED
  BY <1>8, <1>9

-----------------------------------------------------------------------------
LEMMA LeakyAllowStep ==
  ASSUME LimitersInv, LeakyAllow
  PROVE  LimitersInv'
<1>1. /\ algo = "leaky" /\ algo' = algo /\ now' = now /\ leaky.queue < Limit
      /\ bucket' = bucket /\ counts' = counts /\ logs' = logs /\ Admit
      /\ leaky' = [leaky EXCEPT !.queue = @ + 1]
  BY DEF LeakyAllow
<1>2. LimitersType /\ RateKept
  BY DEF LimitersInv
<1>3. /\ now \in Nat /\ leaky \in [queue: Nat, due: BOOLEAN] /\ leaky.queue \in Nat
      /\ admitted \in Seq(Nat) /\ DrainTicks \in Nat \ {0} /\ Limit \in Nat
  BY <1>2, LimitersAssumption DEF LimitersType
<1>4. /\ leaky' \in [queue: Nat, due: BOOLEAN]
      /\ leaky'.queue = leaky.queue + 1 /\ leaky'.due = leaky.due
  BY <1>1, <1>3
<1>5. LimitersType'
  BY <1>1, <1>2, <1>4, TypesStay DEF LimitersType
<1>6. PICK late \in {0, 1} : late = IF leaky.due THEN 1 ELSE 0
  OBVIOUS
<1>7. ASSUME NEW i \in DOMAIN admitted'
      PROVE  /\ admitted'[i] \in Nat /\ admitted'[i] <= now /\ Since(i)' \in Int
             /\ Since(i)' + late <= leaky'.queue + 1 + (now \div DrainTicks - admitted'[i] \div DrainTicks)
  <2>1. admitted'[i] <= now /\ admitted'[i] \in Nat /\ Since(i)' \in Int
    BY <1>1, <1>2, AdmitStep
  <2>2. CASE i \in DOMAIN admitted
    <3>1. Since(i)' = Since(i) + 1 /\ admitted'[i] = admitted[i] /\ Since(i) \in Nat
      BY <1>1, <1>2, <2>2, AdmitStep
    <3>2. PICK m \in Nat, a \in Nat, b \in Nat :
            m = Since(i) /\ a = admitted[i] \div DrainTicks /\ b = now \div DrainTicks
      BY <1>3, <2>1, <3>1, Division
    <3>3. m + late <= leaky.queue + 1 + (b - a)
      BY <1>1, <1>6, <2>2, <3>2 DEF LimitersInv, LeakyInv
    <3>4. (m + 1) + late <= (leaky.queue + 1) + 1 + (b - a)
      BY <1>3, <1>6, <3>3
    <3> QED  BY <1>4, <2>1, <3>1, <3>2, <3>4
  <2>3. CASE i = Len(admitted) + 1
    <3>1. Since(i)' = 1 /\ admitted'[i] = now
      BY SMTT(30), <1>1, <1>2, <2>3, AdmitStep
    <3>2. now \div DrainTicks \in Nat
      BY <1>3, Division
    <3>3. 1 + late <= (leaky.queue + 1) + 1 + (now \div DrainTicks - now \div DrainTicks)
      BY <1>3, <1>6, <3>2
    <3> QED  BY <1>4, <2>1, <3>1, <3>3
  <2> QED  BY <1>1, <1>2, <2>2, <2>3, AdmitStep
<1>8. leaky'.queue <= Limit
  BY <1>1, <1>3, <1>4
<1>9. LeakyInv'
  BY <1>1, <1>4, <1>6, <1>7, <1>8 DEF LeakyInv
<1>10. ASSUME NEW i \in DOMAIN admitted'
       PROVE  Since(i)' <= Allowance(now - admitted'[i])
  <2>1. PICK m \in Int, x \in Nat : m = Since(i)' /\ x = admitted'[i] /\ x <= now
    BY <1>7
  <2>2. PICK a \in Nat, b \in Nat, c \in Nat :
          a = x \div DrainTicks /\ b = now \div DrainTicks /\ c = (now - x) \div DrainTicks
    <3>1. now - x \in Nat
      BY <1>3, <2>1
    <3> QED  BY <1>3, <3>1, Division
  <2>3. m + late <= leaky'.queue + 1 + (b - a)
    BY <1>7, <2>1, <2>2
  <2>4. b - a <= c + 1
    BY <1>3, <2>1, <2>2, DivisionGap
  <2>5. m <= Limit + c + 2
    BY <1>3, <1>4, <1>6, <1>8, <2>3, <2>4
  <2> QED  BY <1>1, <2>1, <2>2, <2>5 DEF Allowance
<1>11. RateKept'
  BY <1>1, <1>2, <1>10, AdmitKeepsRate
<1> QED
  BY <1>1, <1>5, <1>9, <1>11, OneLimiter

LEMMA LeakyDrainStep ==
  ASSUME LimitersInv, LeakyDrain
  PROVE  LimitersInv'
<1>1. /\ algo = "leaky" /\ algo' = algo /\ now' = now /\ leaky.due
      /\ bucket' = bucket /\ counts' = counts /\ logs' = logs /\ admitted' = admitted
      /\ leaky' = [queue |-> IF leaky.queue > 0 THEN leaky.queue - 1 ELSE 0, due |-> FALSE]
  BY DEF LeakyDrain
<1>2. LimitersType /\ RateKept
  BY DEF LimitersInv
<1>3. /\ now \in Nat /\ leaky.queue \in Nat /\ leaky.queue <= Limit
      /\ admitted \in Seq(Nat) /\ DrainTicks \in Nat \ {0} /\ Limit \in Nat
  BY <1>1, <1>2, LimitersAssumption DEF LimitersType, LimitersInv, LeakyInv
<1>4. PICK q \in Nat : /\ q = IF leaky.queue > 0 THEN leaky.queue - 1 ELSE 0
                       /\ q <= Limit /\ leaky.queue <= q + 1
  BY <1>3
<1>5. leaky' \in [queue: Nat, due: BOOLEAN] /\ leaky'.queue = q /\ leaky'.due = FALSE
  BY <1>1, <1>4
<1>6. LimitersType'
  BY <1>1, <1>2, <1>5, TypesStay DEF LimitersType
<1>7. ASSUME NEW i \in DOMAIN admitted
      PROVE  Since(i) + 0 <= q + 1 + (now \div DrainTicks - admitted[i] \div DrainTicks)
  <2>1. admitted[i] \in Nat /\ i \in Nat /\ Len(admitted) \in Nat
    BY <1>3
  <2>2. PICK m \in Int, a \in Nat, b \in Nat :
          m = Since(i) /\ a = admitted[i] \div DrainTicks /\ b = now \div DrainTicks
    <3>1. Since(i) \in Int
      BY <2>1 DEF Since
    <3> QED  BY <1>3, <2>1, <3>1, Division
  <2>3. m + 1 <= leaky.queue + 1 + (b - a)
    BY <1>1, <2>2 DEF LimitersInv, LeakyInv
  <2>4. m + 0 <= q + 1 + (b - a)
    <3>1. PICK p \in Nat : p = leaky.queue /\ p <= q + 1
      BY <1>3, <1>4
    <3>2. m + 1 <= p + 1 + (b - a)
      BY <2>3, <3>1
    <3> QED  BY <3>1, <3>2
  <2> QED  BY <2>2, <2>4
<1>8. LeakyInv'
  <2>1. \A i : Since(i)' = Since(i)
    BY <1>1 DEF Since
  <2> QED  BY <1>1, <1>4, <1>5, <1>7, <2>1 DEF LeakyInv
<1>9. RateKept'
  BY <1>1, <1>2, RefuseKeepsRate
<1> QED
  BY <1>1, <1>6, <1>8, <1>9, OneLimiter

-----------------------------------------------------------------------------
LEMMA FixedAllowStep ==
  ASSUME LimitersInv, FixedAllow
  PROVE  LimitersInv'
<1>1. /\ algo = "fixed" /\ algo' = algo /\ now' = now
      /\ bucket' = bucket /\ leaky' = leaky /\ logs' = logs /\ Admit
      /\ counts[now \div Window] < Limit
      /\ counts' = [counts EXCEPT ![now \div Window] = @ + 1]
  BY DEF FixedAllow
<1>2. LimitersType /\ RateKept
  BY DEF LimitersInv
<1>3. /\ now \in Nat /\ now <= MaxTime /\ MaxTime \in Nat
      /\ counts \in [0 .. (MaxTime \div Window) -> Nat]
      /\ Window \in Nat \ {0} /\ Limit \in Nat /\ Limit \in Nat \ {0}
  BY <1>2, LimitersAssumption DEF LimitersType
<1>4. PICK w \in 0 .. (MaxTime \div Window) : w = now \div Window /\ w \in Nat
  <2>1. /\ now \div Window \in Nat /\ MaxTime \div Window \in Nat
        /\ now \div Window <= MaxTime \div Window
    BY <1>3, Division, DivisionGrows
  <2> QED  BY <2>1
<1>5. PICK c \in Nat : c = counts[w] /\ c < Limit
  BY <1>1, <1>3, <1>4
<1>6. /\ counts' \in [0 .. (MaxTime \div Window) -> Nat]
      /\ counts'[w] = c + 1
      /\ \A v \in DOMAIN counts' : v \in DOMAIN counts /\ (v # w => counts'[v] = counts[v])
  BY <1>1, <1>3, <1>4, <1>5
<1>7. LimitersType'
  BY <1>1, <1>2, <1>6, TypesStay DEF LimitersType
<1>8. ASSUME NEW i \in DOMAIN admitted'
      PROVE  /\ admitted'[i] \in Nat /\ admitted'[i] <= now /\ Since(i)' \in Int
             /\ Since(i)' <= (c + 1) + Limit * (w - admitted'[i] \div Window)
  <2>1. admitted'[i] <= now /\ admitted'[i] \in Nat /\ Since(i)' \in Int
    BY <1>1, <1>2, AdmitStep
  <2>2. CASE i \in DOMAIN admitted
    <3>1. Since(i)' = Since(i) + 1 /\ admitted'[i] = admitted[i] /\ Since(i) \in Nat
      BY <1>1, <1>2, <2>2, AdmitStep
    <3>2. PICK m \in Nat, a \in Nat : m = Since(i) /\ a = admitted[i] \div Window
      BY <1>3, <2>1, <3>1, Division
    <3>3. m <= c + Limit * (w - a)
      BY <1>1, <1>4, <1>5, <2>2, <3>2 DEF LimitersInv, FixedInv
    <3>4. Limit * (w - a) \in Int
      BY <1>3, <1>4
    <3>5. m + 1 <= (c + 1) + Limit * (w - a)
      BY <3>3, <3>4
    <3> QED  BY <2>1, <3>1, <3>2, <3>5
  <2>3. CASE i = Len(admitted) + 1
    <3>1. Since(i)' = 1 /\ admitted'[i] = now
      BY <1>1, <1>2, <2>3, AdmitStep
    <3>2. Limit * (w - w) = 0
      BY <1>3, <1>4
    <3> QED  BY <1>4, <2>1, <3>1, <3>2
  <2> QED  BY <1>1, <1>2, <2>2, <2>3, AdmitStep
<1>9. FixedInv'
  <2>1. \A v \in DOMAIN counts' : counts'[v] <= Limit
    <3>1. SUFFICES ASSUME NEW v \in DOMAIN counts' PROVE counts'[v] <= Limit
      OBVIOUS
    <3>2. counts[v] <= Limit
      BY <1>1, <1>6 DEF LimitersInv, FixedInv
    <3>3. CASE v = w
      BY <1>3, <1>5, <1>6, <3>3
    <3>4. CASE v # w
      BY <1>6, <3>2, <3>4
    <3> QED  BY <3>3, <3>4
  <2> QED  BY <1>1, <1>4, <1>6, <1>8, <2>1 DEF FixedInv
<1>10. ASSUME NEW i \in DOMAIN admitted'
       PROVE  Since(i)' <= Allowance(now - admitted'[i])
  <2>1. PICK m \in Int, x \in Nat : m = Since(i)' /\ x = admitted'[i] /\ x <= now
    BY <1>8
  <2>2. now - x \in Nat
    BY <1>3, <2>1
  <2>3. PICK a \in Nat, d \in Nat : a = x \div Window /\ d = (now - x) \div Window
    BY <1>3, <2>2, Division
  <2>4. m <= (c + 1) + Limit * (w - a)
    BY <1>8, <2>1, <2>3
  <2>5. w - a <= d + 1
    BY <1>3, <1>4, <2>1, <2>3, DivisionGap
  <2>6. Limit * (w - a) <= Limit * (d + 1) /\ Limit * (d + 2) = Limit * (d + 1) + Limit
    <3>1. w - a \in Int /\ d + 1 \in Int /\ (d + 1) + 1 = d + 2
      BY <1>4
    <3>2. Limit * ((d + 1) + 1) = Limit * (d + 1) + Limit
      BY <1>3, <3>1, Multiples
    <3> QED  BY <1>3, <2>5, <3>1, <3>2, Multiples
  <2>7. PICK u \in Int, v \in Int : u = Limit * (w - a) /\ v = Limit * (d + 1)
    <3>1. w - a \in Int /\ d + 1 \in Int
      BY <1>4
    <3> QED  BY <1>3, <3>1, Multiples
  <2>8. m <= (c + 1) + u /\ u <= v /\ Limit * (d + 2) = v + Limit /\ c + 1 <= Limit
    BY <1>3, <1>5, <2>4, <2>6, <2>7
  <2>9. m <= v + Limit
    BY <1>3, <2>8
  <2>10. m <= Limit * (d + 2)
    BY <2>8, <2>9
  <2> QED  BY <1>1, <2>1, <2>3, <2>10 DEF Allowance
<1>11. RateKept'
  BY <1>1, <1>2, <1>10, AdmitKeepsRate
<1> QED
  BY <1>1, <1>7, <1>9, <1>11, OneLimiter

-----------------------------------------------------------------------------
LEMMA TickStep ==
  ASSUME LimitersInv, Tick
  PROVE  LimitersInv'
<1>1. /\ now < MaxTime /\ now' = now + 1
      /\ algo' = algo /\ bucket' = bucket /\ counts' = counts /\ logs' = logs /\ admitted' = admitted
      /\ leaky' = [leaky EXCEPT !.due = @ \/ (algo = "leaky" /\ now' % DrainTicks = 0)]
  BY DEF Tick
<1>2. LimitersType /\ RateKept
  BY DEF LimitersInv
<1>3. /\ now \in Nat /\ MaxTime \in Nat /\ now + 1 <= MaxTime /\ now + 1 \in Nat
      /\ admitted \in Seq(Nat) /\ \A i \in DOMAIN admitted : admitted[i] \in Nat /\ admitted[i] <= now
      /\ leaky \in [queue: Nat, due: BOOLEAN]
      /\ bucket \in [tokens: Nat, lastRefill: Nat]
      /\ DrainTicks \in Nat \ {0} /\ Window \in Nat \ {0} /\ Limit \in Nat \ {0}
  BY <1>1, <1>2, LimitersAssumption DEF LimitersType
<1>4. /\ leaky' \in [queue: Nat, due: BOOLEAN] /\ leaky'.queue = leaky.queue
      /\ leaky.due => leaky'.due
      /\ algo = "leaky" => (leaky'.due <=> leaky.due \/ (now + 1) % DrainTicks = 0)
  BY <1>1, <1>3
<1>5. LimitersType'
  <2>1. now' \in 0 .. MaxTime
    BY <1>1, <1>3
  <2>2. \A i \in DOMAIN admitted : admitted[i] <= now'
    BY <1>1, <1>3
  <2> QED  BY <1>1, <1>2, <1>4, <2>1, <2>2 DEF LimitersType
<1>6. \A i : Since(i)' = Since(i)
  BY <1>1 DEF Since
<1>7. \A i \in DOMAIN admitted : Since(i) \in Int
  BY <1>3 DEF Since
<1>8. RateKept'
  BY <1>1, <1>2, RefuseKeepsRate
<1>9. ASSUME algo = "token" PROVE TokenInv'
  <2>1. bucket.lastRefill \in Nat
    BY <1>3
  <2>2. bucket.lastRefill <= now /\ bucket.lastRefill <= now + 1
    BY <1>3, <1>9, <2>1 DEF LimitersInv, TokenInv
  <2>3. Full' = Full
    BY DEF Full
  <2> QED  BY <1>1, <1>6, <1>9, <2>2, <2>3 DEF LimitersInv, TokenInv
<1>10. ASSUME algo = "leaky" PROVE LeakyInv'
  <2>1. ASSUME NEW i \in DOMAIN admitted
        PROVE  Since(i) + (IF leaky'.due THEN 1 ELSE 0) <=
                 leaky.queue + 1 + ((now + 1) \div DrainTicks - admitted[i] \div DrainTicks)
    <3>1. PICK m \in Int, q \in Nat, a \in Nat, b \in Nat, b1 \in Nat :
            /\ m = Since(i) /\ q = leaky.queue /\ a = admitted[i] \div DrainTicks
            /\ b = now \div DrainTicks /\ b1 = (now + 1) \div DrainTicks
      BY <1>3, <1>7, Division
    <3>2. m + (IF leaky.due THEN 1 ELSE 0) <= q + 1 + (b - a)
      BY <1>10, <3>1 DEF LimitersInv, LeakyInv
    <3>3. /\ b <= b1 /\ ((now + 1) % DrainTicks = 0 => b1 = b + 1)
      BY <1>3, <3>1, DivisionTick
    <3>4. m + (IF leaky'.due THEN 1 ELSE 0) <= q + 1 + (b1 - a)
      <4>1. CASE leaky.due
        BY <1>4, <3>2, <3>3, <4>1
      <4>2. CASE ~leaky.due /\ (now + 1) % DrainTicks = 0
        BY <3>2, <3>3, <4>2
      <4>3. CASE ~leaky.due /\ ~((now + 1) % DrainTicks = 0)
        <5>1. ~leaky'.due
          BY <1>4, <1>10, <4>3
        <5> QED  BY <3>2, <3>3, <4>3, <5>1
      <4> QED  BY <4>1, <4>2, <4>3
    <3> QED  BY <3>1, <3>4
  <2>2. leaky.queue <= Limit
    BY <1>10 DEF LimitersInv, LeakyInv
  <2> QED  BY <1>1, <1>4, <1>6, <2>1, <2>2 DEF LeakyInv
<1>11. ASSUME algo = "fixed" PROVE FixedInv'
  <2>1. PICK w \in Nat, v \in Nat : w = now \div Window /\ v = (now + 1) \div Window
    BY <1>3, Division
  <2>2. v = w \/ v = w + 1
    BY <1>3, <2>1, DivisionTick
  <2>3. w \in DOMAIN counts /\ v \in DOMAIN counts /\ counts \in [DOMAIN counts -> Nat]
    <3>1. MaxTime \div Window \in Nat /\ w <= MaxTime \div Window /\ v <= MaxTime \div Window
      <4>1. now <= MaxTime
        BY <1>3
      <4> QED  BY <1>3, <2>1, <4>1, Division, DivisionGrows
    <3>2. counts \in [0 .. (MaxTime \div Window) -> Nat]
      BY <1>2 DEF LimitersType
    <3> QED  BY <3>1, <3>2
  <2>4. \A u \in DOMAIN counts : counts[u] <= Limit
    BY <1>11 DEF LimitersInv, FixedInv
  <2>5. ASSUME NEW i \in DOMAIN admitted
        PROVE  Since(i) <= counts[v] + Limit * (v - admitted[i] \div Window)
    <3>1. PICK m \in Int, a \in Nat, c \in Nat, c1 \in Nat :
            m = Since(i) /\ a = admitted[i] \div Window /\ c = counts[w] /\ c1 = counts[v]
      BY <1>3, <1>7, <2>3, Division
    <3>2. m <= c + Limit * (w - a) /\ c <= Limit
      BY <1>11, <2>1, <2>3, <2>4, <3>1 DEF LimitersInv, FixedInv
    <3>3. m <= c1 + Limit * (v - a)
      <4>1. CASE v = w
        BY <3>1, <3>2, <4>1
      <4>2. CASE v = w + 1
        <5>1. v - a = (w - a) + 1 /\ w - a \in Int
          BY <4>2
        <5>2. Limit * (v - a) = Limit * (w - a) + Limit /\ Limit * (w - a) \in Int
          BY <1>3, <5>1, Multiples
        <5>3. PICK u \in Int : u = Limit * (w - a) /\ m <= c + u /\ Limit * (v - a) = u + Limit
          BY <3>2, <5>2
        <5>4. m <= c1 + (u + Limit)
          BY <1>3, <3>2, <5>3
        <5> QED  BY <5>3, <5>4
      <4> QED  BY <2>2, <4>1, <4>2
    <3> QED  BY <3>1, <3>3
  <2> QED  BY <1>1, <1>6, <2>1, <2>4, <2>5 DEF FixedInv
<1>12. ASSUME algo = "sliding" PROVE SlidingInv'
  <2>1. /\ Len(logs) <= Limit /\ Len(logs) <= Len(admitted)
        /\ \A p \in DOMAIN logs : logs[p] = admitted[Len(admitted) - Len(logs) + p]
        /\ \A j \in DOMAIN admitted : j > Limit => admitted[j - Limit] + Window <= admitted[j]
    BY <1>12 DEF LimitersInv, SlidingInv
  <2>2. ASSUME Len(logs) < Len(admitted) PROVE admitted[Len(admitted) - Len(logs)] + Window <= now + 1
    <3>1. admitted[Len(admitted) - Len(logs)] + Window <= now
      BY <1>12, <2>2 DEF LimitersInv, SlidingInv
    <3>2. admitted[Len(admitted) - Len(logs)] \in Nat
      <4>1. Len(logs) \in Nat /\ Len(admitted) \in Nat /\ DOMAIN admitted = 1 .. Len(admitted)
        BY <1>2, <1>3 DEF LimitersType
      <4>2. Len(admitted) - Len(logs) \in DOMAIN admitted
        BY <2>2, <4>1
      <4> QED  BY <1>3, <4>2
    <3> QED  BY <1>3, <3>1, <3>2
  <2> QED  BY <1>1, <2>1, <2>2 DEF SlidingInv
<1> QED
  BY <1>1, <1>5, <1>8, <1>9, <1>10, <1>11, <1>12, OneLimiter

-----------------------------------------------------------------------------
(* What the sliding window keeps.                                          *)

\* Numbers that grow, as many as lie between two bounds, are those between.
LEMMA GrowingFills ==
  ASSUME NEW c \in Nat, NEW m \in Nat, NEW f \in [1 .. m -> (c + 1) .. (c + m)],
         \A p, q \in 1 .. m : p < q => f[p] < f[q]
  PROVE  \A p \in 1 .. m : f[p] = c + p
<1>1. \A p \in 1 .. m : f[p] \in Int /\ c + 1 <= f[p] /\ f[p] <= c + m
  <2>1. \A p \in 1 .. m : f[p] \in (c + 1) .. (c + m)
    OBVIOUS
  <2> QED  BY <2>1
<1>2. \A p \in 1 .. m : f[p] >= c + p
  <2> DEFINE T == {p \in 1 .. m : f[p] < c + p}
  <2>1. ASSUME T # {} PROVE FALSE
    <3>1. PICK p \in T : \A q \in T : p <= q
      <4>1. T \in SUBSET Nat
        OBVIOUS
      <4> HIDE DEF T
      <4> QED  BY <2>1, <4>1, LeastOf
    <3>2. p \in 1 .. m /\ f[p] < c + p
      OBVIOUS
    <3>3. p # 1
      BY <1>1, <3>2
    <3>4. p - 1 \in 1 .. m /\ p - 1 < p /\ p - 1 \in Nat
      BY <3>2, <3>3
    <3>5. p - 1 \notin T
      <4>1. p \in Nat /\ ~(p <= p - 1)
        BY <3>2
      <4> HIDE DEF T
      <4> QED  BY <3>1, <4>1
    <3>6. f[p - 1] >= c + (p - 1)
      BY <1>1, <3>4, <3>5
    <3>7. f[p - 1] < f[p]
      BY <3>2, <3>4
    <3> QED  BY <1>1, <3>2, <3>4, <3>6, <3>7
  <2> QED  BY <1>1, <2>1
<1>3. \A p \in 1 .. m : f[p] <= c + p
  <2> DEFINE T == {p \in 0 .. m - 1 : f[m - p] > c + (m - p)}
  <2>1. ASSUME T # {} PROVE FALSE
    <3>1. PICK p \in T : \A q \in T : p <= q
      <4>1. T \in SUBSET Nat
        OBVIOUS
      <4> HIDE DEF T
      <4> QED  BY <2>1, <4>1, LeastOf
    <3>2. p \in 0 .. m - 1 /\ f[m - p] > c + (m - p) /\ m - p \in 1 .. m
      OBVIOUS
    <3>3. p # 0
      BY <1>1, <3>2
    <3>4. p - 1 \in 0 .. m - 1 /\ p - 1 < p /\ m - (p - 1) \in 1 .. m /\ m - (p - 1) = (m - p) + 1
      BY <3>2, <3>3
    <3>5. p - 1 \notin T
      <4>1. p \in Nat /\ ~(p <= p - 1)
        BY <3>2
      <4> HIDE DEF T
      <4> QED  BY <3>1, <4>1
    <3>6. f[m - (p - 1)] <= c + (m - (p - 1))
      BY <1>1, <3>4, <3>5
    <3>7. f[m - p] < f[m - (p - 1)]
      BY <3>2, <3>4
    <3> QED  BY <1>1, <3>2, <3>4, <3>6, <3>7
  <2>2. ASSUME NEW p \in 1 .. m PROVE f[p] <= c + p
    <3>1. m - p \in 0 .. m - 1 /\ m - (m - p) = p
      OBVIOUS
    <3>2. m - p \notin T
      BY <2>1
    <3>3. ~(f[m - (m - p)] > c + (m - (m - p)))
      BY <3>1, <3>2
    <3> QED  BY <1>1, <3>1, <3>3
  <2> QED  BY <2>2
<1> QED
  BY <1>1, <1>2, <1>3

\* Of times in order those after t are the last ones.
LEMMA LateAreLast ==
  ASSUME NEW list \in Seq(Nat), NEW t \in Int,
         \A p, q \in DOMAIN list : p <= q => list[p] <= list[q]
  PROVE  \E c \in 0 .. Len(list) :
           /\ {p \in DOMAIN list : list[p] > t} = (c + 1) .. Len(list)
           /\ c > 0 => list[c] <= t
<1> DEFINE late == {p \in DOMAIN list : list[p] > t}
<1>1. /\ Len(list) \in Nat /\ DOMAIN list = 1 .. Len(list)
      /\ \A p \in DOMAIN list : list[p] \in Nat
  OBVIOUS
<1>2. CASE late = {}
  <2>1. (Len(list) + 1) .. Len(list) = {} /\ Len(list) \in 0 .. Len(list)
    BY <1>1
  <2>2. Len(list) > 0 => list[Len(list)] <= t
    <3>1. ASSUME Len(list) > 0 PROVE list[Len(list)] <= t
      <4>1. Len(list) \in DOMAIN list
        BY <1>1, <3>1
      <4>2. ~(list[Len(list)] > t)
        BY <1>2, <4>1
      <4> QED  BY <1>1, <4>1, <4>2
    <3> QED  BY <3>1
  <2> QED  BY <1>2, <2>1, <2>2
<1>3. CASE late # {}
  <2>1. PICK l \in late : \A p \in late : l <= p
    <3>1. late \in SUBSET Nat
      BY <1>1
    <3> HIDE DEF late
    <3> QED  BY <1>3, <3>1, LeastOf
  <2>2. l \in 1 .. Len(list) /\ list[l] > t
    BY <1>1
  <2>3. PICK c \in 0 .. Len(list) : c = l - 1 /\ c + 1 = l
    BY <1>1, <2>2
  <2>4. ASSUME NEW p \in l .. Len(list) PROVE p \in late
    <3>1. p \in DOMAIN list /\ l \in DOMAIN list /\ l <= p
      BY <1>1, <2>2
    <3>2. list[l] <= list[p]
      BY <3>1
    <3>3. list[p] > t
      BY <1>1, <2>2, <3>1, <3>2
    <3> QED  BY <3>1, <3>3
  <2>5. ASSUME NEW p \in late PROVE p \in l .. Len(list)
    <3>1. p \in 1 .. Len(list) /\ l <= p
      BY <1>1, <2>1
    <3> QED  BY <2>2, <3>1
  <2>6. late = (c + 1) .. Len(list)
    BY <2>3, <2>4, <2>5
  <2>7. ASSUME c > 0 PROVE list[c] <= t
    <3>1. c \in DOMAIN list /\ c < l
      BY <1>1, <2>2, <2>3, <2>7
    <3>2. c \notin late
      <4>1. c \in Nat /\ l \in Nat
        BY <1>1, <2>2, <3>1
      <4> QED  BY <2>1, <3>1, <4>1
    <3> QED  BY <1>1, <3>1, <3>2
  <2> QED  BY <2>6, <2>7
<1> QED
  BY <1>2, <1>3

\* How what is kept of the log lies in what was let through.
LEMMA KeptOfTheLog ==
  ASSUME LimitersType, SlidingInv, algo = "sliding",
         NEW late, late = {p \in DOMAIN logs : logs[p] > now - Window},
         NEW f \in [1 .. Cardinality(late) -> late],
         \A p, q \in DOMAIN f : p < q => f[p] < f[q],
         NEW kept \in [DOMAIN f -> Nat], \A p \in DOMAIN f : kept[p] = logs[f[p]]
  PROVE  /\ kept \in Seq(Nat)
         /\ Len(kept) <= Limit /\ Len(kept) <= Len(admitted)
         /\ \A p \in DOMAIN kept : kept[p] = admitted[Len(admitted) - Len(kept) + p]
         /\ Len(kept) < Len(admitted) => admitted[Len(admitted) - Len(kept)] + Window <= now
<1>1. /\ logs \in Seq(Nat) /\ admitted \in Seq(Nat) /\ now \in Nat
      /\ Window \in Nat \ {0} /\ Limit \in Nat \ {0}
      /\ \A i, j \in DOMAIN admitted : i <= j => admitted[i] <= admitted[j]
      /\ \A i \in DOMAIN admitted : admitted[i] \in Nat
  BY LimitersAssumption DEF LimitersType
<1>2. PICK l \in Nat, n \in Nat : l = Len(logs) /\ n = Len(admitted)
  BY <1>1
<1>3. DOMAIN logs = 1 .. l /\ DOMAIN admitted = 1 .. n
  BY <1>1, <1>2
<1>4. /\ l <= Limit /\ l <= n
      /\ \A p \in 1 .. l : logs[p] = admitted[n - l + p]
      /\ l < n => admitted[n - l] + Window <= now
  BY <1>2, <1>3 DEF SlidingInv
<1>5. \A p, q \in DOMAIN logs : p <= q => logs[p] <= logs[q]
  <2>1. SUFFICES ASSUME NEW p \in 1 .. l, NEW q \in 1 .. l, p <= q PROVE logs[p] <= logs[q]
    BY <1>3
  <2>2. n - l + p \in 1 .. n /\ n - l + q \in 1 .. n /\ n - l + p <= n - l + q
    BY <1>4, <2>1
  <2>3. admitted[n - l + p] <= admitted[n - l + q]
    BY <1>1, <1>3, <2>2
  <2> QED  BY <1>4, <2>3
<1>6. now - Window \in Int
  BY <1>1
<1>7. PICK c \in 0 .. l : late = (c + 1) .. l /\ (c > 0 => logs[c] <= now - Window)
  <2>1. PICK t \in Int : t = now - Window
    BY <1>6
  <2>2. \E c \in 0 .. Len(logs) :
          /\ {p \in DOMAIN logs : logs[p] > t} = (c + 1) .. Len(logs)
          /\ c > 0 => logs[c] <= t
    BY <1>1, <1>5, LateAreLast
  <2> QED  BY <1>2, <2>1, <2>2
<1>8. PICK k \in Nat : k = l - c /\ c + k = l /\ c \in Nat /\ k = Cardinality(late)
  <2>1. c + 1 \in Int /\ l \in Int
    BY <1>2
  <2>2. Cardinality((c + 1) .. l) = (IF c + 1 > l THEN 0 ELSE l - (c + 1) + 1)
    BY <2>1, FS_Interval
  <2>3. Cardinality(late) = Cardinality((c + 1) .. l)
    BY <1>7
  <2>4. /\ l - c \in Nat /\ c + (l - c) = l /\ c \in Nat
        /\ l - c = IF c + 1 > l THEN 0 ELSE l - (c + 1) + 1
    BY <1>2
  <2> QED  BY <2>2, <2>3, <2>4
<1>9. /\ c \in 0 .. l /\ k = l - c /\ k <= l
      /\ kept \in Seq(Nat) /\ k = Len(kept) /\ DOMAIN kept = 1 .. k
      /\ \A p \in 1 .. k : kept[p] = logs[c + p]
  <2>1. k <= l
    BY <1>2, <1>8
  <2>2. DOMAIN f = 1 .. k /\ f \in [1 .. k -> (c + 1) .. (c + k)]
    BY <1>7, <1>8
  <2>3. \A p \in 1 .. k : f[p] = c + p
    BY <1>8, <2>2, GrowingFills
  <2>4. kept \in [1 .. k -> Nat] /\ \A p \in 1 .. k : kept[p] = logs[f[p]]
    BY <2>2
  <2>5. kept \in UNION {[1 .. m -> Nat] : m \in Nat}
    BY <2>4
  <2>6. kept \in Seq(Nat) /\ DOMAIN kept = 1 .. k
    BY <2>4, <2>5, SeqDef
  <2>7. Len(kept) = k
    BY <2>6, LenProperties
  <2> QED  BY <1>8, <2>1, <2>3, <2>4, <2>6, <2>7
<1>10. \A p \in 1 .. k : kept[p] = admitted[n - k + p]
  <2>1. SUFFICES ASSUME NEW p \in 1 .. k PROVE kept[p] = admitted[n - k + p]
    OBVIOUS
  <2>2. c + p \in 1 .. l /\ n - l + (c + p) = n - k + p
    BY <1>9
  <2>3. logs[c + p] = admitted[n - l + (c + p)]
    BY <1>4, <2>2
  <2> QED  BY <1>9, <2>2, <2>3
<1>11. ASSUME k < n PROVE admitted[n - k] + Window <= now
  <2>1. CASE c = 0
    BY <1>4, <1>9, <1>11, <2>1
  <2>2. CASE c > 0
    <3>1. c \in 1 .. l /\ n - l + c = n - k /\ n - k \in 1 .. n
      BY <1>4, <1>9, <1>11, <2>2
    <3>2. logs[c] = admitted[n - k] /\ admitted[n - k] \in Nat
      BY <1>1, <1>3, <1>4, <3>1
    <3>3. logs[c] <= now - Window
      BY <1>7, <2>2
    <3> QED  BY <1>1, <3>2, <3>3
  <2> QED  BY <1>9, <2>1, <2>2
<1>12. k <= Limit /\ k <= n
  BY <1>1, <1>4, <1>9
<1> QED
  BY <1>2, <1>9, <1>10, <1>11, <1>12

LEMMA SlidingAllowStep ==
  ASSUME LimitersInv, SlidingAllow
  PROVE  LimitersInv'
<1>1. /\ algo = "sliding" /\ algo' = algo /\ now' = now
      /\ bucket' = bucket /\ leaky' = leaky /\ counts' = counts
  BY DEF SlidingAllow
<1>2. LimitersType /\ RateKept /\ SlidingInv
  BY DEF LimitersInv
<1>3. /\ now \in Nat /\ admitted \in Seq(Nat)
      /\ Window \in Nat \ {0} /\ Limit \in Nat \ {0} /\ Limit \in Nat
      /\ \A i, j \in DOMAIN admitted : i <= j => admitted[i] <= admitted[j]
      /\ \A i \in DOMAIN admitted : admitted[i] \in Nat
  BY <1>2, LimitersAssumption DEF LimitersType
<1>4. PICK late : late = {p \in DOMAIN logs : logs[p] > now - Window}
  OBVIOUS
<1>5. PICK f \in [1 .. Cardinality(late) -> late] :
        /\ \A p, q \in DOMAIN f : p < q => f[p] < f[q]
        /\ IF Len([p \in DOMAIN f |-> logs[f[p]]]) >= Limit
           THEN logs' = [p \in DOMAIN f |-> logs[f[p]]] /\ UNCHANGED admitted
           ELSE logs' = Append([p \in DOMAIN f |-> logs[f[p]]], now) /\ Admit
  BY <1>4 DEF SlidingAllow
<1>6. PICK kept \in Seq(Nat) :
        /\ kept = [p \in DOMAIN f |-> logs[f[p]]]
        /\ Len(kept) <= Limit /\ Len(kept) <= Len(admitted)
        /\ \A p \in DOMAIN kept : kept[p] = admitted[Len(admitted) - Len(kept) + p]
        /\ Len(kept) < Len(admitted) => admitted[Len(admitted) - Len(kept)] + Window <= now
  <2>1. PICK kept \in [DOMAIN f -> Nat] :
          kept = [p \in DOMAIN f |-> logs[f[p]]] /\ \A p \in DOMAIN f : kept[p] = logs[f[p]]
    <3>1. \A p \in DOMAIN f : f[p] \in DOMAIN logs
      BY <1>4
    <3>2. logs \in Seq(Nat)
      BY <1>2 DEF LimitersType
    <3>3. \A p \in DOMAIN f : logs[f[p]] \in Nat
      BY <3>1, <3>2
    <3>4. [p \in DOMAIN f |-> logs[f[p]]] \in [DOMAIN f -> Nat]
      BY <3>3
    <3> QED  BY <3>4
  <2>2. /\ kept \in Seq(Nat)
        /\ Len(kept) <= Limit /\ Len(kept) <= Len(admitted)
        /\ \A p \in DOMAIN kept : kept[p] = admitted[Len(admitted) - Len(kept) + p]
        /\ Len(kept) < Len(admitted) => admitted[Len(admitted) - Len(kept)] + Window <= now
    BY <1>1, <1>2, <1>4, <1>5, <2>1, KeptOfTheLog
  <2> QED  BY <2>1, <2>2
<1>7. PICK k \in Nat, n \in Nat : k = Len(kept) /\ n = Len(admitted)
  BY <1>3, LenProperties
<1>8. /\ DOMAIN kept = 1 .. k /\ DOMAIN admitted = 1 .. n /\ k <= Limit /\ k <= n
      /\ \A p \in 1 .. k : kept[p] = admitted[n - k + p]
      /\ k < n => admitted[n - k] + Window <= now
  <2>1. DOMAIN kept = 1 .. k /\ DOMAIN admitted = 1 .. n
    BY <1>3, <1>7, LenProperties
  <2>2. k <= Limit /\ k <= n /\ (k < n => admitted[n - k] + Window <= now)
    BY <1>6, <1>7
  <2>3. \A p \in 1 .. k : kept[p] = admitted[n - k + p]
    BY <1>6, <1>7, <2>1
  <2> QED  BY <2>1, <2>2, <2>3
<1>9. \A j \in DOMAIN admitted : j > Limit => admitted[j - Limit] + Window <= admitted[j]
  BY <1>1, <1>2 DEF SlidingInv
<1>10. CASE k >= Limit
  <2>1. logs' = kept /\ admitted' = admitted
    BY <1>5, <1>6, <1>7, <1>10
  <2>2. LimitersType'
    BY <1>1, <1>2, <2>1, TypesStay DEF LimitersType
  <2>3. SlidingInv'
    BY <1>1, <1>6, <1>9, <2>1 DEF SlidingInv
  <2>4. RateKept'
    BY <1>1, <1>2, <2>1, RefuseKeepsRate
  <2> QED  BY <1>1, <2>2, <2>3, <2>4, OneLimiter
<1>11. CASE k < Limit
  <2>1. logs' = Append(kept, now) /\ Admit
    <3>1. IF k >= Limit THEN logs' = kept /\ UNCHANGED admitted
                        ELSE logs' = Append(kept, now) /\ Admit
      BY <1>5, <1>6, <1>7, Zenon
    <3>2. ~(k >= Limit)
      BY <1>3, <1>11
    <3> QED  BY <3>1, <3>2
  <2>2. /\ logs' \in Seq(Nat) /\ Len(logs') = k + 1 /\ DOMAIN logs' = 1 .. k + 1
        /\ \A p \in 1 .. k : logs'[p] = kept[p]
        /\ logs'[k + 1] = now
    <3>1. PICK new : new = Append(kept, now)
      OBVIOUS
    <3>2. /\ new \in Seq(Nat) /\ Len(new) = k + 1
          /\ \A p \in 1 .. k : new[p] = kept[p]
          /\ new[k + 1] = now
      BY <1>3, <1>7, <3>1, AppendProperties
    <3>3. DOMAIN new = 1 .. k + 1
      BY <3>2
    <3> QED  BY <2>1, <3>1, <3>2, <3>3
  <2>3. LimitersType'
    BY <1>1, <1>2, <2>1, <2>2, TypesStay DEF LimitersType
  <2>4. /\ admitted' \in Seq(Nat) /\ Len(admitted') = n + 1
        /\ DOMAIN admitted' = 1 .. n + 1
        /\ \A i \in 1 .. n : admitted'[i] = admitted[i] /\ admitted[i] \in Nat
        /\ admitted'[n + 1] = now
        /\ \A i \in DOMAIN admitted' : admitted'[i] <= now /\ admitted'[i] \in Nat
        /\ \A i, j \in DOMAIN admitted' : i <= j => admitted'[i] <= admitted'[j]
        /\ \A i \in DOMAIN admitted' : Since(i)' = n - i + 2
    BY <1>2, <1>3, <1>7, <1>8, <2>1, AdmitStep
  <2>5. ASSUME k < n
        PROVE  admitted'[n - k] + Window <= now /\ admitted'[n - k] \in Nat /\ n - k \in 1 .. n
    <3>1. n - k \in 1 .. n
      BY <2>5
    <3> QED  BY <1>8, <2>4, <2>5, <3>1
  <2>6. ASSUME n + 1 > Limit
        PROVE  /\ (n + 1) - Limit \in 1 .. n
               /\ admitted'[(n + 1) - Limit] + Window <= now
    <3>1. k < n /\ (n + 1) - Limit \in 1 .. n /\ (n + 1) - Limit <= n - k
      BY <1>3, <1>11, <2>6
    <3>2. admitted'[(n + 1) - Limit] <= admitted'[n - k] /\ admitted'[(n + 1) - Limit] \in Nat
      <4>1. (n + 1) - Limit \in DOMAIN admitted' /\ n - k \in DOMAIN admitted'
        BY <2>4, <2>5, <3>1
      <4> QED  BY <2>4, <3>1, <4>1
    <3>3. admitted'[n - k] + Window <= now /\ admitted'[n - k] \in Nat
      BY <2>5, <3>1
    <3> QED  BY <1>3, <3>1, <3>2, <3>3
  <2>7. SlidingInv'
    <3>1. \A p \in DOMAIN logs' : logs'[p] = admitted'[(n + 1) - (k + 1) + p]
      <4>1. SUFFICES ASSUME NEW p \in 1 .. k + 1 PROVE logs'[p] = admitted'[(n + 1) - (k + 1) + p]
        BY <2>2
      <4>2. CASE p = k + 1
        <5>1. (n + 1) - (k + 1) + p = n + 1
          BY <4>2
        <5> QED  BY <2>2, <2>4, <4>2, <5>1
      <4>3. CASE p # k + 1
        <5>1. p \in 1 .. k /\ (n + 1) - (k + 1) + p = n - k + p /\ n - k + p \in 1 .. n
          BY <1>8, <4>3
        <5> QED  BY <1>8, <2>2, <2>4, <5>1
      <4> QED  BY <4>2, <4>3
    <3>2. k + 1 <= Limit /\ k + 1 <= n + 1
      BY <1>3, <1>8, <1>11
    <3>3. ASSUME k + 1 < n + 1 PROVE admitted'[(n + 1) - (k + 1)] + Window <= now
      <4>1. k < n /\ (n + 1) - (k + 1) = n - k
        BY <3>3
      <4> QED  BY <2>5, <4>1
    <3>4. ASSUME NEW j \in DOMAIN admitted', j > Limit
          PROVE  admitted'[j - Limit] + Window <= admitted'[j]
      <4>1. CASE j = n + 1
        BY <2>4, <2>6, <3>4, <4>1
      <4>2. CASE j # n + 1
        <5>1. j \in 1 .. n /\ j - Limit \in 1 .. n
          <6>1. j \in 1 .. n + 1
            BY <2>4
          <6> QED  BY <1>3, <3>4, <4>2, <6>1
        <5>2. admitted[j - Limit] + Window <= admitted[j]
          BY <1>8, <1>9, <3>4, <5>1
        <5> QED  BY <2>4, <5>1, <5>2
      <4> QED  BY <4>1, <4>2
    <3> QED  BY <1>1, <2>2, <2>4, <3>1, <3>2, <3>3, <3>4 DEF SlidingInv
  <2>8. ASSUME NEW i \in DOMAIN admitted'
        PROVE  Since(i)' <= Allowance(now - admitted'[i])
    <3>1. PICK m \in Nat, x \in Nat : m = n - i + 2 /\ m = Since(i)' /\ x = admitted'[i] /\ x <= now
      BY <2>4
    <3>2. PICK y \in Nat : y = now - x
      BY <1>3, <3>1
    <3>3. PICK d \in Nat : d = y \div Window
      BY <1>3, Division
    <3>4. Limit * (d + 1) = Limit * d + Limit /\ Limit * d \in Nat
      BY <1>3
    <3>5. CASE m <= Limit
      <4>1. m <= Limit * (d + 1)
        BY SMTT(30), <1>3, <3>4, <3>5
      <4> QED  BY <1>1, <3>1, <3>2, <3>3, <4>1 DEF Allowance
    <3>6. CASE ~(m <= Limit)
      <4>1. PICK h \in 1 .. n : /\ h = (n + 1) - Limit /\ i \in 1 .. n /\ i <= h
                                /\ admitted[h] + Window <= now
        <5>1. i \in 1 .. n + 1 /\ n + 1 > Limit /\ i <= (n + 1) - Limit
          BY SMTT(30), <1>3, <2>4, <3>1, <3>6
        <5>2. (n + 1) - Limit \in 1 .. n /\ admitted'[(n + 1) - Limit] + Window <= now
          BY <2>6, <5>1
        <5>3. i \in 1 .. n
          BY <5>1, <5>2
        <5> QED  BY <2>4, <5>1, <5>2, <5>3
      <4>2. h - i + 1 <= Allowance(admitted[h] - admitted[i])
        BY <1>2, <1>8, <4>1 DEF RateKept
      <4>3. PICK z \in Nat : z = admitted[h] - admitted[i] /\ z + Window <= y
        <5>1. admitted[i] <= admitted[h] /\ admitted[i] \in Nat /\ admitted[h] \in Nat /\ x = admitted[i]
          BY <1>3, <1>8, <2>4, <3>1, <4>1
        <5>2. admitted[h] - admitted[i] \in Nat /\ (admitted[h] - admitted[i]) + Window <= y
          <6>1. \A a, b, w \in Nat : a <= b /\ b + w <= now => b - a \in Nat /\ (b - a) + w <= now - a
            BY <1>3
          <6> QED  BY <1>3, <3>2, <4>1, <5>1, <6>1
        <5> QED  BY <5>2
      <4>4. PICK e \in Nat : e = z \div Window
        BY <1>3, Division
      <4>5. h - i + 1 <= Limit * (e + 1)
        BY <1>1, <4>2, <4>3, <4>4 DEF Allowance
      <4>6. e + 1 <= d
        BY <1>3, <3>3, <4>3, <4>4, DivisionStep
      <4>7. Limit * (e + 1) <= Limit * d
        <5>1. e + 1 \in Int /\ d \in Int
          OBVIOUS
        <5> QED  BY <1>3, <4>6, <5>1, Multiples
      <4>8. m = (h - i + 1) + Limit
        BY <1>3, <3>1, <4>1
      <4>9. m <= Limit * (d + 1)
        <5>1. PICK u \in Int, v \in Nat : u = Limit * (e + 1) /\ v = Limit * d
          BY <1>3, <3>4
        <5>2. h - i + 1 <= v
          <6>1. h - i + 1 \in Int /\ h - i + 1 <= u /\ u <= v
            BY <4>1, <4>5, <4>7, <5>1
          <6> QED  BY <6>1
        <5>3. m <= v + Limit
          BY <1>3, <4>1, <4>8, <5>2
        <5> QED  BY <3>4, <5>1, <5>3
      <4> QED  BY <1>1, <3>1, <3>2, <3>3, <4>9 DEF Allowance
    <3> QED  BY <3>5, <3>6
  <2>9. RateKept'
    BY <1>1, <1>2, <2>1, <2>8, AdmitKeepsRate
  <2> QED  BY <1>1, <2>3, <2>7, <2>9, OneLimiter
<1> QED
  BY <1>3, <1>10, <1>11

LEMMA LimitersStep == LimitersInv /\ [LimitersNext]_limiterVars => LimitersInv'
<1> SUFFICES ASSUME LimitersInv, [LimitersNext]_limiterVars PROVE LimitersInv'
  OBVIOUS
<1>1. ASSUME UNCHANGED limiterVars PROVE LimitersInv'
  BY <1>1 DEF limiterVars, LimitersInv, LimitersType, TokenInv, LeakyInv, FixedInv, SlidingInv,
              RateKept, Allowance, Since, Full
<1> QED
  BY <1>1, TokenAllowStep, LeakyAllowStep, LeakyDrainStep, FixedAllowStep, SlidingAllowStep,
     TickStep DEF LimitersNext

(* No sequence of requests, however timed, gets more through a limiter in  *)
(* any period than its algorithm allows: a token bucket, a leaky bucket, a *)
(* fixed and a sliding window of any size and rate.                        *)
THEOREM LimitersKeepRates == LimitersSpec => []RateKept
<1>1. LimitersInv => RateKept
  BY DEF LimitersInv
<1> QED
  BY LimitersStart, LimitersStep, <1>1, PTL DEF LimitersSpec

-----------------------------------------------------------------------------
(* The LRU cache.  The list has what was used last in the order it was     *)
(* used; what it has not was dropped, or Capacity other keys were used     *)
(* after it, which is counted where a key is evicted.                      *)

CachedEntry == [key: CacheKey, value: CacheValue, expired: BOOLEAN]
KeysIn(list) == {list[i].key : i \in DOMAIN list}

\* a stands before b in a list.
Before(list, a, b) == \E p, q \in DOMAIN list : p < q /\ list[p] = a /\ list[q] = b

LruType ==
  /\ order \in Seq(CachedEntry) /\ Len(order) <= Capacity
  /\ items = KeysIn(order)
  /\ lastUsed \in Seq(CacheKey)
  /\ lastSet \in [CacheKey -> CacheValue \cup {Missing}]
  /\ \A i, j \in DOMAIN order : order[i].key = order[j].key => i = j
  /\ Distinct(lastUsed)

\* The list has what was used in the order it was used, with what was last
\* set; of what it has not, nothing is left or Capacity keys were used since.
LruInv ==
  /\ LruType
  /\ items \subseteq ToSet(lastUsed)
  /\ \A i, j \in DOMAIN order : i < j => Before(lastUsed, order[i].key, order[j].key)
  /\ \A i \in DOMAIN order :
       lastSet[order[i].key] = IF order[i].expired THEN Missing ELSE order[i].value
  /\ \A p \in DOMAIN lastUsed :
       lastUsed[p] \notin items => lastSet[lastUsed[p]] = Missing \/ p > Capacity

LEMMA LruStart == LruInit => LruInv
<1> SUFFICES ASSUME LruInit PROVE LruInv  OBVIOUS
<1>1. order = <<>> /\ lastUsed = <<>> /\ items = {} /\ lastSet = [k \in CacheKey |-> Missing]
  BY DEF LruInit
<1>2. DOMAIN order = {} /\ DOMAIN lastUsed = {} /\ Len(order) = 0
  BY <1>1
<1>3. order \in Seq(CachedEntry) /\ lastUsed \in Seq(CacheKey)
  BY <1>1
<1>4. Len(order) <= Capacity
  BY <1>2, LruAssumption
<1>5. KeysIn(order) = {}
  BY <1>2 DEF KeysIn
<1> QED
  BY <1>1, <1>2, <1>3, <1>4, <1>5 DEF LruInv, LruType, Distinct

-----------------------------------------------------------------------------
\* new is list with x put in front and what was at i, if anything, taken out.
Fronted(new, x, list, i) ==
  /\ i \in 1 .. Len(list) + 1
  /\ DOMAIN new = 1 .. (IF i > Len(list) THEN Len(list) + 1 ELSE Len(list))
  /\ \A j \in DOMAIN new : new[j] = IF j = 1 THEN x ELSE IF j <= i THEN list[j - 1] ELSE list[j]

LEMMA PushFront ==
  ASSUME NEW S, NEW list \in Seq(S), NEW x \in S
  PROVE  /\ <<x>> \o list \in Seq(S)
         /\ Fronted(<<x>> \o list, x, list, Len(list) + 1)
<1>1. Len(list) \in Nat /\ <<x>> \in Seq(S) /\ Len(<<x>>) = 1 /\ <<x>>[1] = x
  OBVIOUS
<1>2. /\ <<x>> \o list \in Seq(S) /\ Len(<<x>> \o list) = 1 + Len(list)
      /\ \A j \in 1 .. 1 + Len(list) :
           (<<x>> \o list)[j] = IF j <= 1 THEN <<x>>[j] ELSE list[j - 1]
  BY <1>1, ConcatProperties
<1>3. DOMAIN (<<x>> \o list) = 1 .. Len(list) + 1
  BY <1>1, <1>2
<1>4. ASSUME NEW j \in 1 .. Len(list) + 1
      PROVE  (<<x>> \o list)[j] = IF j = 1 THEN x ELSE IF j <= Len(list) + 1 THEN list[j - 1] ELSE list[j]
  BY <1>1, <1>2
<1> QED
  BY <1>1, <1>2, <1>3, <1>4 DEF Fronted

LEMMA MoveToFront ==
  ASSUME NEW S, NEW list \in Seq(S), NEW x \in S, NEW i \in DOMAIN list,
         NEW rest \in Seq(S), Len(rest) = Len(list) - 1,
         \A j \in 1 .. Len(list) - 1 : rest[j] = IF j < i THEN list[j] ELSE list[j + 1]
  PROVE  /\ <<x>> \o rest \in Seq(S)
         /\ Fronted(<<x>> \o rest, x, list, i)
<1>1. /\ Len(list) \in Nat /\ i \in 1 .. Len(list)
      /\ <<x>> \in Seq(S) /\ Len(<<x>>) = 1 /\ <<x>>[1] = x
  OBVIOUS
<1>2. /\ <<x>> \o rest \in Seq(S) /\ Len(<<x>> \o rest) = 1 + Len(rest)
      /\ \A j \in 1 .. 1 + Len(rest) :
           (<<x>> \o rest)[j] = IF j <= 1 THEN <<x>>[j] ELSE rest[j - 1]
  BY <1>1, ConcatProperties
<1>3. DOMAIN (<<x>> \o rest) = 1 .. Len(list)
  BY <1>1, <1>2
<1>4. ASSUME NEW j \in 1 .. Len(list)
      PROVE  (<<x>> \o rest)[j] = IF j = 1 THEN x ELSE IF j <= i THEN list[j - 1] ELSE list[j]
  <2>1. CASE j = 1
    BY <1>1, <1>2, <2>1
  <2>2. CASE j # 1
    <3>1. j - 1 \in 1 .. Len(list) - 1 /\ (j - 1) + 1 = j /\ (j - 1 < i <=> j <= i)
      BY <1>1, <2>2
    <3>2. rest[j - 1] = IF j - 1 < i THEN list[j - 1] ELSE list[(j - 1) + 1]
      BY <3>1
    <3>3. (<<x>> \o rest)[j] = rest[j - 1]
      BY <1>1, <1>2, <2>2
    <3> QED  BY <2>2, <3>1, <3>2, <3>3
  <2> QED  BY <2>1, <2>2
<1>5. /\ i \in 1 .. Len(list) + 1 /\ ~(i > Len(list))
  BY <1>1
<1> QED
  BY <1>2, <1>3, <1>4, <1>5 DEF Fronted

\* What is put in front stands before all others, and those stand as before.
LEMMA FrontedOrder ==
  ASSUME NEW S, NEW list \in Seq(S), NEW i, NEW x, NEW new \in Seq(S),
         Fronted(new, x, list, i), Distinct(list),
         i \in DOMAIN list => list[i] = x,
         i \notin DOMAIN list => x \notin ToSet(list)
  PROVE  /\ Distinct(new) /\ 1 \in DOMAIN new /\ new[1] = x
         /\ ToSet(new) = ToSet(list) \cup {x}
         /\ \A a \in ToSet(list) : a # x => Before(new, x, a)
         /\ \A a, b : Before(list, a, b) /\ a # x /\ b # x => Before(new, a, b)
         /\ \A q \in DOMAIN new : q # 1 => new[q] # x /\ \E p \in DOMAIN list : p <= q /\ list[p] = new[q]
<1> DEFINE n == Len(list)
<1>1. /\ n \in Nat /\ DOMAIN list = 1 .. n /\ i \in 1 .. n + 1
      /\ DOMAIN new = 1 .. (IF i > n THEN n + 1 ELSE n)
      /\ \A j \in DOMAIN new : new[j] = IF j = 1 THEN x ELSE IF j <= i THEN list[j - 1] ELSE list[j]
  BY DEF Fronted
<1>2. \A p \in 1 .. n : p # i => list[p] # x
  BY <1>1 DEF Distinct, ToSet
<1> HIDE DEF n
<1>3. 1 \in DOMAIN new /\ new[1] = x
  BY <1>1
<1>4. ASSUME NEW q \in DOMAIN new, q # 1
      PROVE  \E p \in DOMAIN list : /\ p <= q /\ p # i /\ list[p] = new[q]
                                    /\ p = IF q <= i THEN q - 1 ELSE q
  <2>1. CASE q <= i
    <3>1. q - 1 \in DOMAIN list /\ q - 1 <= q /\ q - 1 # i /\ new[q] = list[q - 1]
      BY <1>1, <1>4, <2>1
    <3> QED  BY <2>1, <3>1
  <2>2. CASE ~(q <= i)
    <3>1. q \in DOMAIN list /\ q <= q /\ q # i /\ new[q] = list[q]
      BY <1>1, <1>4, <2>2
    <3> QED  BY <2>2, <3>1
  <2> QED  BY <2>1, <2>2
<1>5. ASSUME NEW p \in DOMAIN list, p # i
      PROVE  \E q \in DOMAIN new : /\ q # 1 /\ new[q] = list[p]
                                   /\ q = IF p < i THEN p + 1 ELSE p
  <2>1. CASE p < i
    <3>1. p + 1 \in DOMAIN new /\ p + 1 # 1 /\ p + 1 <= i /\ (p + 1) - 1 = p
      BY <1>1, <2>1
    <3>2. new[p + 1] = list[p]
      BY <1>1, <3>1
    <3> QED  BY <2>1, <3>1, <3>2
  <2>2. CASE ~(p < i)
    <3>1. p \in DOMAIN new /\ p # 1 /\ new[p] = list[p]
      BY <1>1, <1>5, <2>2
    <3> QED  BY <2>2, <3>1
  <2> QED  BY <2>1, <2>2
<1>6. \A q \in DOMAIN new : q # 1 => new[q] # x /\ \E p \in DOMAIN list : p <= q /\ list[p] = new[q]
  BY <1>1, <1>2, <1>4
<1>7. ASSUME NEW q \in DOMAIN new, NEW r \in DOMAIN new, new[q] = new[r]
      PROVE  q = r
  <2>1. CASE q = 1 \/ r = 1
    BY <1>3, <1>6, <1>7, <2>1
  <2>2. CASE q # 1 /\ r # 1
    <3>1. PICK p \in DOMAIN list : p # i /\ list[p] = new[q] /\ p = IF q <= i THEN q - 1 ELSE q
      BY <1>4, <2>2
    <3>2. PICK s \in DOMAIN list : s # i /\ list[s] = new[r] /\ s = IF r <= i THEN r - 1 ELSE r
      BY <1>4, <2>2
    <3>3. p = s
      BY <1>7, <3>1, <3>2 DEF Distinct
    <3>4. q \in Nat /\ r \in Nat /\ i \in Nat
      BY <1>1
    <3> QED  BY <3>1, <3>2, <3>3, <3>4
  <2> QED  BY <2>1, <2>2
<1>8. \A a \in ToSet(list) : a # x => \E p \in DOMAIN list : p # i /\ list[p] = a
  BY <1>1 DEF ToSet
<1>9. ToSet(new) = ToSet(list) \cup {x}
  <2>1. ToSet(new) \subseteq ToSet(list) \cup {x}
    BY <1>3, <1>6 DEF ToSet
  <2>2. x \in ToSet(new)
    BY <1>3 DEF ToSet
  <2>3. \A a \in ToSet(list) : a # x => a \in ToSet(new)
    BY <1>5, <1>8 DEF ToSet
  <2> QED  BY <2>1, <2>2, <2>3
<1>10. ASSUME NEW a \in ToSet(list), a # x PROVE Before(new, x, a)
  <2>1. PICK p \in DOMAIN list : p # i /\ list[p] = a
    BY <1>8, <1>10
  <2>2. PICK q \in DOMAIN new : q # 1 /\ new[q] = list[p]
    BY <1>5, <2>1
  <2>3. 1 < q
    BY <1>1, <2>2
  <2> QED  BY <1>3, <2>1, <2>2, <2>3 DEF Before
<1>11. ASSUME NEW a, NEW b, Before(list, a, b), a # x, b # x PROVE Before(new, a, b)
  <2>1. PICK p \in DOMAIN list, r \in DOMAIN list : p < r /\ list[p] = a /\ list[r] = b
    BY <1>11 DEF Before
  <2>2. p # i /\ r # i
    BY <1>11, <2>1
  <2>3. PICK q \in DOMAIN new : new[q] = list[p] /\ q = IF p < i THEN p + 1 ELSE p
    BY <1>5, <2>2
  <2>4. PICK s \in DOMAIN new : new[s] = list[r] /\ s = IF r < i THEN r + 1 ELSE r
    BY <1>5, <2>2
  <2>5. q < s
    BY <1>1, <2>1, <2>2, <2>3, <2>4
  <2> QED  BY <2>1, <2>3, <2>4, <2>5 DEF Before
<1> QED
  BY <1>3, <1>6, <1>7, <1>9, <1>10, <1>11 DEF Distinct

\* What stands behind n others, all different, stands beyond place n.
LEMMA Crowd ==
  ASSUME NEW S, NEW list \in Seq(S), Distinct(list), NEW p \in DOMAIN list,
         NEW n \in Nat, NEW others \in [1 .. n -> S],
         \A i, j \in 1 .. n : others[i] = others[j] => i = j,
         \A i \in 1 .. n : Before(list, others[i], list[p])
  PROVE  p > n
<1>1. DOMAIN list = 1 .. Len(list) /\ Len(list) \in Nat /\ p \in 1 .. Len(list)
  OBVIOUS
<1>2. \A i \in 1 .. n : \E q \in 1 .. p - 1 : list[q] = others[i]
  <2>1. SUFFICES ASSUME NEW i \in 1 .. n PROVE \E q \in 1 .. p - 1 : list[q] = others[i]
    OBVIOUS
  <2>2. PICK q \in DOMAIN list, r \in DOMAIN list : q < r /\ list[q] = others[i] /\ list[r] = list[p]
    BY DEF Before
  <2>3. r = p
    BY <2>2 DEF Distinct
  <2> QED  BY <1>1, <2>2, <2>3
<1> DEFINE f == [i \in 1 .. n |-> CHOOSE q \in 1 .. p - 1 : list[q] = others[i]]
<1>3. \A i \in 1 .. n : f[i] \in 1 .. p - 1 /\ list[f[i]] = others[i]
  BY <1>2
<1>4. f \in [1 .. n -> 1 .. p - 1]
  BY <1>3
<1> HIDE DEF f
<1>5. \A i, j \in 1 .. n : f[i] = f[j] => i = j
  BY <1>3
<1>6. f \in Injection(1 .. n, 1 .. p - 1)
  BY <1>4, <1>5, Fun_IsInj
<1>7. /\ IsFiniteSet(1 .. p - 1) /\ Cardinality(1 .. p - 1) = p - 1
      /\ Cardinality(1 .. n) = n
  <2>1. p - 1 \in Int /\ 1 \in Int /\ n \in Int
    BY <1>1
  <2>2. Cardinality(1 .. p - 1) = (IF 1 > p - 1 THEN 0 ELSE (p - 1) - 1 + 1)
    BY <2>1, FS_Interval
  <2>3. Cardinality(1 .. n) = (IF 1 > n THEN 0 ELSE n - 1 + 1)
    BY <2>1, FS_Interval
  <2>4. IsFiniteSet(1 .. p - 1)
    BY <2>1, FS_Interval
  <2> QED  BY <1>1, <2>2, <2>3, <2>4
<1>8. Cardinality(1 .. n) <= Cardinality(1 .. p - 1)
  BY <1>6, <1>7, FS_Injection
<1> QED  BY <1>1, <1>7, <1>8

\* A use puts the key in front of the recently used.
LEMMA UsePutsInFront ==
  ASSUME LruType, NEW k \in CacheKey, Use(k)
  PROVE  /\ lastUsed' \in Seq(CacheKey) /\ Distinct(lastUsed')
         /\ 1 \in DOMAIN lastUsed' /\ lastUsed'[1] = k
         /\ ToSet(lastUsed') = ToSet(lastUsed) \cup {k}
         /\ \A a \in ToSet(lastUsed) : a # k => Before(lastUsed', k, a)
         /\ \A a, b : Before(lastUsed, a, b) /\ a # k /\ b # k => Before(lastUsed', a, b)
         /\ \A q \in DOMAIN lastUsed' : q # 1 =>
              lastUsed'[q] # k /\ \E p \in DOMAIN lastUsed : p <= q /\ lastUsed[p] = lastUsed'[q]
<1>1. lastUsed \in Seq(CacheKey) /\ Distinct(lastUsed)
  BY DEF LruType
<1>2. CASE k \in ToSet(lastUsed)
  <2>1. Place(k) \in DOMAIN lastUsed /\ lastUsed[Place(k)] = k
    BY <1>2 DEF ToSet, Place
  <2>2. lastUsed' = <<k>> \o RemoveAt(lastUsed, Place(k))
    BY <1>2 DEF Use
  <2>3. lastUsed' \in Seq(CacheKey) /\ Fronted(lastUsed', k, lastUsed, Place(k))
    <3>1. /\ RemoveAt(lastUsed, Place(k)) \in Seq(CacheKey)
          /\ Len(RemoveAt(lastUsed, Place(k))) = Len(lastUsed) - 1
          /\ \A j \in 1 .. Len(lastUsed) - 1 :
              RemoveAt(lastUsed, Place(k))[j] = IF j < Place(k) THEN lastUsed[j] ELSE lastUsed[j + 1]
      BY <1>1, <2>1, RemoveAtProperties
    <3>2. \A i \in DOMAIN lastUsed, rest \in Seq(CacheKey) :
            /\ Len(rest) = Len(lastUsed) - 1
            /\ \A j \in 1 .. Len(lastUsed) - 1 : rest[j] = IF j < i THEN lastUsed[j] ELSE lastUsed[j + 1]
            => <<k>> \o rest \in Seq(CacheKey) /\ Fronted(<<k>> \o rest, k, lastUsed, i)
      BY <1>1, MoveToFront
    <3> QED  BY <2>1, <2>2, <3>1, <3>2
  <2> QED  BY <1>1, <2>1, <2>3, FrontedOrder
<1>3. CASE k \notin ToSet(lastUsed)
  <2>1. lastUsed' = <<k>> \o lastUsed
    BY <1>3 DEF Use
  <2>2. lastUsed' \in Seq(CacheKey) /\ Fronted(lastUsed', k, lastUsed, Len(lastUsed) + 1)
    BY <1>1, <2>1, PushFront
  <2>3. Len(lastUsed) + 1 \notin DOMAIN lastUsed
    BY <1>1
  <2> QED  BY <1>1, <1>3, <2>2, <2>3, FrontedOrder
<1> QED  BY <1>2, <1>3

-----------------------------------------------------------------------------
\* An entry put in front, in the place of its key's or of the last one.
LEMMA FrontStep ==
  ASSUME LruInv, NEW k \in CacheKey, Use(k), NEW e \in CachedEntry, e.key = k,
         NEW i, order' \in Seq(CachedEntry), Len(order') <= Capacity,
         Fronted(order', e, order, i), items' = KeysIn(order'),
         \A j \in DOMAIN order : j # i => order[j].key # k,
         i \in DOMAIN order /\ order[i].key # k => i = Capacity,
         lastSet' \in [CacheKey -> CacheValue \cup {Missing}],
         \A c \in CacheKey : c # k => lastSet'[c] = lastSet[c],
         lastSet'[k] = IF e.expired THEN Missing ELSE e.value
  PROVE  LruInv'
<1>1. LruType
  BY DEF LruInv
<1>2. /\ lastUsed' \in Seq(CacheKey) /\ Distinct(lastUsed')
      /\ 1 \in DOMAIN lastUsed' /\ lastUsed'[1] = k
      /\ ToSet(lastUsed') = ToSet(lastUsed) \cup {k}
      /\ \A a \in ToSet(lastUsed) : a # k => Before(lastUsed', k, a)
      /\ \A a, b : Before(lastUsed, a, b) /\ a # k /\ b # k => Before(lastUsed', a, b)
      /\ \A q \in DOMAIN lastUsed' : q # 1 =>
           lastUsed'[q] # k /\ \E p \in DOMAIN lastUsed : p <= q /\ lastUsed[p] = lastUsed'[q]
  BY <1>1, UsePutsInFront
<1>3. /\ order \in Seq(CachedEntry) /\ Len(order) \in Nat /\ DOMAIN order = 1 .. Len(order)
      /\ i \in 1 .. Len(order) + 1
      /\ DOMAIN order' = 1 .. (IF i > Len(order) THEN Len(order) + 1 ELSE Len(order))
      /\ \A j \in DOMAIN order' : order'[j] = IF j = 1 THEN e ELSE IF j <= i THEN order[j - 1] ELSE order[j]
  BY <1>1 DEF LruType, Fronted
<1>4. 1 \in DOMAIN order' /\ order'[1] = e
  BY <1>3
<1>5. ASSUME NEW j \in DOMAIN order', j # 1
      PROVE  \E r \in DOMAIN order : /\ r # i /\ order'[j] = order[r] /\ order[r].key # k
                                     /\ r = IF j <= i THEN j - 1 ELSE j
  <2>1. CASE j <= i
    <3>1. j - 1 \in DOMAIN order /\ j - 1 # i /\ order'[j] = order[j - 1]
      BY <1>3, <1>5, <2>1
    <3> QED  BY <2>1, <3>1
  <2>2. CASE ~(j <= i)
    <3>1. j \in DOMAIN order /\ j # i /\ order'[j] = order[j]
      BY <1>3, <1>5, <2>2
    <3> QED  BY <2>2, <3>1
  <2> QED  BY <2>1, <2>2
<1>6. ASSUME NEW r \in DOMAIN order, r # i
      PROVE  \E j \in DOMAIN order' : order'[j] = order[r]
  <2>1. CASE r < i
    <3>1. r + 1 \in DOMAIN order' /\ r + 1 # 1 /\ r + 1 <= i /\ (r + 1) - 1 = r
      BY <1>3, <2>1
    <3>2. order'[r + 1] = order[r]
      BY <1>3, <3>1
    <3> QED  BY <3>1, <3>2
  <2>2. CASE ~(r < i)
    <3>1. r \in DOMAIN order' /\ r # 1 /\ order'[r] = order[r]
      BY <1>3, <1>6, <2>2
    <3> QED  BY <3>1
  <2> QED  BY <2>1, <2>2
<1>7. ASSUME NEW j \in DOMAIN order', NEW h \in DOMAIN order', j < h
      PROVE  /\ order'[h].key # k
             /\ Before(lastUsed', order'[j].key, order'[h].key)
  <2>1. h # 1
    BY <1>3, <1>7
  <2>2. PICK r \in DOMAIN order : /\ r # i /\ order'[h] = order[r] /\ order[r].key # k
                                  /\ r = IF h <= i THEN h - 1 ELSE h
    BY <1>5, <2>1
  <2>3. order[r].key \in items /\ items \subseteq ToSet(lastUsed)
    BY <1>1 DEF LruInv, LruType, KeysIn
  <2>4. CASE j = 1
    BY <1>2, <1>4, <2>2, <2>3, <2>4
  <2>5. CASE j # 1
    <3>1. PICK s \in DOMAIN order : /\ s # i /\ order'[j] = order[s] /\ order[s].key # k
                                    /\ s = IF j <= i THEN j - 1 ELSE j
      BY <1>5, <2>5
    <3>2. s < r
      BY <1>3, <1>7, <2>2, <3>1
    <3>3. Before(lastUsed, order[s].key, order[r].key)
      BY <3>2 DEF LruInv
    <3> QED  BY <1>2, <2>2, <3>1, <3>3
  <2> QED  BY <2>2, <2>4, <2>5
<1>8. ASSUME NEW j \in DOMAIN order', NEW h \in DOMAIN order', order'[j].key = order'[h].key
      PROVE  j = h
  <2>1. ASSUME NEW a \in DOMAIN order', NEW b \in DOMAIN order', a < b, order'[a].key = order'[b].key
        PROVE  FALSE
    <3>1. Before(lastUsed', order'[a].key, order'[a].key)
      BY <1>7, <2>1
    <3>2. PICK p \in DOMAIN lastUsed', q \in DOMAIN lastUsed' :
            p < q /\ lastUsed'[p] = order'[a].key /\ lastUsed'[q] = order'[a].key
      BY <3>1 DEF Before
    <3>3. p = q /\ p \in Nat
      BY <1>2, <3>2 DEF Distinct
    <3> QED  BY <3>2, <3>3
  <2> QED  BY SMTT(30), <1>3, <1>8, <2>1
<1>9. LruType'
  BY <1>2, <1>8 DEF LruType
<1>10. items' \subseteq ToSet(lastUsed')
  <2>1. ASSUME NEW j \in DOMAIN order' PROVE order'[j].key \in ToSet(lastUsed')
    <3>1. CASE j = 1
      BY <1>2, <1>4, <3>1
    <3>2. CASE j # 1
      <4>1. PICK r \in DOMAIN order : order'[j] = order[r]
        BY <1>5, <3>2
      <4>2. order[r].key \in items
        BY <1>1 DEF LruType, KeysIn
      <4> QED  BY <1>2, <4>1, <4>2 DEF LruInv
    <3> QED  BY <3>1, <3>2
  <2> QED  BY <2>1 DEF KeysIn
<1>11. ASSUME NEW j \in DOMAIN order'
       PROVE  lastSet'[order'[j].key] = IF order'[j].expired THEN Missing ELSE order'[j].value
  <2>1. CASE j = 1
    BY <1>4, <2>1
  <2>2. CASE j # 1
    <3>1. PICK r \in DOMAIN order : order'[j] = order[r] /\ order[r].key # k
      BY <1>5, <2>2
    <3>2. order[r].key \in CacheKey
      <4>1. order[r] \in CachedEntry
        BY <1>3, ElementOfSeq
      <4> QED  BY <4>1 DEF CachedEntry
    <3>3. lastSet[order[r].key] = IF order[r].expired THEN Missing ELSE order[r].value
      BY DEF LruInv
    <3> QED  BY <3>1, <3>2, <3>3
  <2> QED  BY <2>1, <2>2
<1>12. ASSUME NEW q \in DOMAIN lastUsed', lastUsed'[q] \notin items'
       PROVE  lastSet'[lastUsed'[q]] = Missing \/ q > Capacity
  <2>1. q # 1
    <3>1. k \in items'
      BY <1>4 DEF KeysIn
    <3> QED  BY <1>2, <1>12, <3>1
  <2>2. PICK p \in DOMAIN lastUsed : p <= q /\ lastUsed[p] = lastUsed'[q] /\ lastUsed'[q] # k
    BY <1>2, <2>1
  <2>3. p \in Nat /\ q \in Nat /\ Capacity \in Nat /\ lastUsed[p] \in CacheKey
    <3>1. lastUsed \in Seq(CacheKey)
      BY <1>1 DEF LruType
    <3> QED  BY <1>2, <3>1, LruAssumption
  <2>4. CASE lastUsed[p] \notin items
    <3>1. lastSet[lastUsed[p]] = Missing \/ p > Capacity
      BY <2>4 DEF LruInv
    <3> QED  BY <2>2, <2>3, <3>1
  <2>5. CASE lastUsed[p] \in items
    <3>1. PICK r \in DOMAIN order : order[r].key = lastUsed[p]
      BY <1>1, <2>5 DEF LruType, KeysIn
    <3>2. r = i
      <4>1. ASSUME r # i PROVE FALSE
        <5>1. PICK j \in DOMAIN order' : order'[j] = order[r]
          BY <1>6, <4>1
        <5>2. order'[j].key \in items'
          BY DEF KeysIn
        <5> QED  BY <1>12, <2>2, <3>1, <5>1, <5>2
      <4> QED  BY <4>1
    <3>3. i = Capacity /\ i <= Len(order) /\ Len(order) <= Capacity /\ Len(order) = Capacity
      <4>1. i \in DOMAIN order /\ order[i].key # k
        BY <2>2, <3>1, <3>2
      <4>2. i = Capacity
        BY <4>1
      <4>3. i \in 1 .. Len(order) /\ Len(order) \in Nat /\ Len(order) <= Capacity
        BY <1>1, <1>3, <4>1 DEF LruType
      <4>4. \A a \in Nat : Capacity \in 1 .. a /\ a <= Capacity => Capacity <= a /\ a = Capacity
        BY <2>3
      <4> QED  BY <4>2, <4>3, <4>4
    <3>4. DOMAIN order' = 1 .. Capacity
      BY <1>3, <2>3, <3>3
    <3>5. \A j \in 1 .. Capacity : Before(lastUsed', order'[j].key, lastUsed'[q])
      <4>1. SUFFICES ASSUME NEW j \in 1 .. Capacity
                     PROVE  Before(lastUsed', order'[j].key, lastUsed'[q])
        OBVIOUS
      <4>2. lastUsed[p] \in ToSet(lastUsed)
        BY <2>2 DEF ToSet
      <4>3. CASE j = 1
        BY <1>2, <1>4, <2>2, <4>2, <4>3
      <4>4. CASE j # 1
        <5>1. PICK s \in DOMAIN order : /\ s # i /\ order'[j] = order[s] /\ order[s].key # k
          BY <1>5, <3>4, <4>4
        <5>2. s < i
          BY <1>3, <3>3, <5>1
        <5>3. Before(lastUsed, order[s].key, order[r].key)
          BY <3>2, <5>2 DEF LruInv
        <5> QED  BY <1>2, <2>2, <3>1, <5>1, <5>3
      <4> QED  BY <4>3, <4>4
    <3> DEFINE others == [j \in 1 .. Capacity |-> order'[j].key]
    <3>6. others \in [1 .. Capacity -> CacheKey]
      <4>1. \A j \in 1 .. Capacity : order'[j] \in CachedEntry
        <5>1. \A s \in Seq(CachedEntry) : \A j \in DOMAIN s : s[j] \in CachedEntry
          BY ElementOfSeq
        <5> QED  BY <3>4, <5>1
      <4> QED  BY <4>1 DEF CachedEntry
    <3>7. \A a, b \in 1 .. Capacity : others[a] = others[b] => a = b
      BY <1>8, <3>4
    <3>8. \A j \in 1 .. Capacity : Before(lastUsed', others[j], lastUsed'[q])
      BY <3>5
    <3> HIDE DEF others
    <3>9. q > Capacity
      BY <1>2, <2>3, <3>6, <3>7, <3>8, Crowd
    <3> QED  BY <3>9
  <2> QED  BY <2>4, <2>5
<1> QED
  BY <1>7, <1>9, <1>10, <1>11, <1>12 DEF LruInv

\* Some entries go, each with nothing left to answer; the rest stay in order.
LEMMA ThinStep ==
  ASSUME LruInv, NEW n \in Nat, n <= Len(order), NEW f \in [1 .. n -> DOMAIN order],
         \A i, j \in 1 .. n : i < j => f[i] < f[j],
         order' = [i \in 1 .. n |-> order[f[i]]], items' = KeysIn(order'),
         lastUsed' = lastUsed,
         lastSet' \in [CacheKey -> CacheValue \cup {Missing}],
         \A i \in DOMAIN order : order[i].key \in items' => lastSet'[order[i].key] = lastSet[order[i].key],
         \A i \in DOMAIN order : order[i].key \notin items' => lastSet'[order[i].key] = Missing,
         \A c \in CacheKey : c \notin items => lastSet'[c] = lastSet[c]
  PROVE  LruInv'
<1>1. LruType
  BY DEF LruInv
<1>2. /\ order \in Seq(CachedEntry) /\ Len(order) \in Nat /\ DOMAIN order = 1 .. Len(order)
      /\ Len(order) <= Capacity /\ Capacity \in Nat
  BY <1>1, LruAssumption DEF LruType
<1>3. /\ order' \in Seq(CachedEntry) /\ Len(order') = n /\ DOMAIN order' = 1 .. n
      /\ \A i \in 1 .. n : order'[i] = order[f[i]] /\ f[i] \in DOMAIN order
  <2>1. \A i \in 1 .. n : f[i] \in DOMAIN order /\ order[f[i]] \in CachedEntry
    BY <1>2, ElementOfSeq
  <2>2. order' \in [1 .. n -> CachedEntry]
    BY <2>1
  <2>3. order' \in Seq(CachedEntry)
    BY <2>2, SeqDef
  <2> QED  BY <2>1, <2>2, <2>3, LenProperties
<1>4. \A i, j \in DOMAIN order' : order'[i].key = order'[j].key => i = j
  <2>1. SUFFICES ASSUME NEW i \in 1 .. n, NEW j \in 1 .. n, order'[i].key = order'[j].key
                 PROVE  i = j
    BY <1>3
  <2>2. f[i] = f[j] /\ f[i] \in Nat
    BY <1>1, <1>2, <1>3, <2>1 DEF LruType
  <2>3. ~(f[i] < f[j]) /\ ~(f[j] < f[i])
    BY <2>2
  <2> QED  BY <2>3
<1>5. LruType'
  BY <1>1, <1>2, <1>3, <1>4 DEF LruType
<1>6. items' \subseteq items
  BY <1>1, <1>3 DEF KeysIn, LruType
<1>7. items' \subseteq ToSet(lastUsed')
  BY <1>6 DEF LruInv
<1>8. ASSUME NEW i \in DOMAIN order', NEW j \in DOMAIN order', i < j
      PROVE  Before(lastUsed', order'[i].key, order'[j].key)
  <2>1. f[i] \in DOMAIN order /\ f[j] \in DOMAIN order /\ f[i] < f[j]
    BY <1>3, <1>8
  <2>2. Before(lastUsed, order[f[i]].key, order[f[j]].key)
    BY <2>1 DEF LruInv
  <2> QED  BY <1>3, <2>2
<1>9. ASSUME NEW i \in DOMAIN order'
      PROVE  lastSet'[order'[i].key] = IF order'[i].expired THEN Missing ELSE order'[i].value
  <2>1. order'[i] = order[f[i]] /\ f[i] \in DOMAIN order
    BY <1>3
  <2>2. order[f[i]].key \in items'
    BY <2>1 DEF KeysIn
  <2>3. lastSet[order[f[i]].key] = IF order[f[i]].expired THEN Missing ELSE order[f[i]].value
    BY <2>1 DEF LruInv
  <2> QED  BY <2>1, <2>2, <2>3
<1>10. ASSUME NEW p \in DOMAIN lastUsed', lastUsed'[p] \notin items'
       PROVE  lastSet'[lastUsed'[p]] = Missing \/ p > Capacity
  <2>1. p \in DOMAIN lastUsed /\ lastUsed'[p] = lastUsed[p] /\ lastUsed[p] \in CacheKey
    BY <1>1 DEF LruType
  <2>2. CASE lastUsed[p] \in items
    <3>1. PICK i \in DOMAIN order : order[i].key = lastUsed[p]
      BY <1>1, <2>2 DEF LruType, KeysIn
    <3> QED  BY <1>10, <2>1, <3>1
  <2>3. CASE lastUsed[p] \notin items
    <3>1. lastSet[lastUsed[p]] = Missing \/ p > Capacity
      BY <2>1, <2>3 DEF LruInv
    <3> QED  BY <2>1, <2>3, <3>1
  <2> QED  BY <2>2, <2>3
<1> QED
  BY <1>5, <1>7, <1>8, <1>9, <1>10 DEF LruInv

-----------------------------------------------------------------------------
\* A key of the map is at one place of the list.
LEMMA PositionOf ==
  ASSUME LruInv, NEW k \in items
  PROVE  /\ k \in CacheKey /\ Position(k) \in DOMAIN order /\ order[Position(k)].key = k
         /\ order[Position(k)] \in CachedEntry
         /\ \A j \in DOMAIN order : j # Position(k) => order[j].key # k
<1>1. LruType
  BY DEF LruInv
<1>2. \E i \in DOMAIN order : order[i].key = k
  BY <1>1 DEF LruType, KeysIn
<1>3. Position(k) \in DOMAIN order /\ order[Position(k)].key = k
  BY <1>2 DEF Position
<1>4. order[Position(k)] \in CachedEntry
  BY <1>1, <1>3, ElementOfSeq DEF LruType
<1>5. k \in CacheKey
  BY <1>3, <1>4 DEF CachedEntry
<1>6. \A j \in DOMAIN order : j # Position(k) => order[j].key # k
  BY <1>1, <1>3 DEF LruType
<1> QED
  BY <1>3, <1>4, <1>5, <1>6

\* An entry moved or put to the front of the list.
LEMMA FrontedKeys ==
  ASSUME NEW list \in Seq(CachedEntry), NEW e \in CachedEntry, NEW i \in DOMAIN list,
         NEW new, Fronted(new, e, list, i)
  PROVE  KeysIn(new) = {e.key} \cup {list[j].key : j \in DOMAIN list \ {i}}
<1>1. /\ Len(list) \in Nat /\ DOMAIN list = 1 .. Len(list) /\ i \in 1 .. Len(list)
      /\ DOMAIN new = 1 .. Len(list)
      /\ \A j \in DOMAIN new : new[j] = IF j = 1 THEN e ELSE IF j <= i THEN list[j - 1] ELSE list[j]
  BY DEF Fronted
<1>2. ASSUME NEW j \in DOMAIN new PROVE new[j].key \in {e.key} \cup {list[h].key : h \in DOMAIN list \ {i}}
  <2>1. CASE j = 1
    BY <1>1, <2>1
  <2>2. CASE j # 1 /\ j <= i
    <3>1. j - 1 \in DOMAIN list \ {i} /\ new[j] = list[j - 1]
      BY <1>1, <2>2
    <3> QED  BY <3>1
  <2>3. CASE j # 1 /\ ~(j <= i)
    <3>1. j \in DOMAIN list \ {i} /\ new[j] = list[j]
      BY <1>1, <2>3
    <3> QED  BY <3>1
  <2> QED  BY <2>1, <2>2, <2>3
<1>3. 1 \in DOMAIN new /\ new[1] = e
  BY <1>1
<1>4. ASSUME NEW h \in DOMAIN list \ {i} PROVE \E j \in DOMAIN new : new[j] = list[h]
  <2>1. CASE h < i
    <3>1. h + 1 \in DOMAIN new /\ h + 1 # 1 /\ h + 1 <= i /\ (h + 1) - 1 = h
      BY <1>1, <2>1
    <3>2. new[h + 1] = list[h]
      BY <1>1, <3>1
    <3> QED  BY <3>1, <3>2
  <2>2. CASE ~(h < i)
    <3>1. h \in DOMAIN new /\ h # 1 /\ new[h] = list[h]
      BY <1>1, <2>2
    <3> QED  BY <3>1
  <2> QED  BY <2>1, <2>2
<1>5. KeysIn(new) \subseteq {e.key} \cup {list[h].key : h \in DOMAIN list \ {i}}
  BY <1>2 DEF KeysIn
<1>6. e.key \in KeysIn(new)
  BY <1>3 DEF KeysIn
<1>7. \A h \in DOMAIN list \ {i} : list[h].key \in KeysIn(new)
  BY <1>4 DEF KeysIn
<1> QED
  BY <1>5, <1>6, <1>7

LEMMA MoveEntry ==
  ASSUME LruInv, NEW k \in items, NEW e \in CachedEntry, e.key = k,
         order' = <<e>> \o RemoveAt(order, Position(k))
  PROVE  /\ order' \in Seq(CachedEntry) /\ Len(order') = Len(order)
         /\ Fronted(order', e, order, Position(k))
         /\ KeysIn(order') = items
<1>1. /\ order \in Seq(CachedEntry) /\ items = KeysIn(order)
      /\ Position(k) \in DOMAIN order /\ order[Position(k)].key = k
      /\ \A j \in DOMAIN order : j # Position(k) => order[j].key # k
  BY PositionOf DEF LruInv, LruType
<1>2. PICK i \in DOMAIN order : i = Position(k)
  BY <1>1
<1>3. PICK rest \in Seq(CachedEntry) :
        /\ rest = RemoveAt(order, i)
        /\ Len(rest) = Len(order) - 1
        /\ \A j \in 1 .. Len(order) - 1 : rest[j] = IF j < i THEN order[j] ELSE order[j + 1]
  BY <1>1, RemoveAtProperties
<1>4. PICK new : new = order'
  OBVIOUS
<1>5. new = <<e>> \o rest
  BY <1>2, <1>3, <1>4
<1>6. new \in Seq(CachedEntry) /\ Fronted(new, e, order, i)
  BY <1>1, <1>3, <1>5, MoveToFront
<1>7. Len(new) = Len(order)
  <2>1. Len(order) \in Nat /\ i \in 1 .. Len(order)
    BY <1>1
  <2>2. DOMAIN new = 1 .. Len(order)
    BY <1>6, <2>1 DEF Fronted
  <2> QED  BY <1>6, <2>1, <2>2, LenProperties
<1>8. KeysIn(new) = {k} \cup {order[j].key : j \in DOMAIN order \ {i}}
  BY <1>1, <1>6, FrontedKeys
<1>9. KeysIn(order) = {k} \cup {order[j].key : j \in DOMAIN order \ {i}}
  BY <1>1, <1>2 DEF KeysIn
<1> QED
  BY <1>1, <1>2, <1>4, <1>6, <1>7, <1>8, <1>9

-----------------------------------------------------------------------------
\* A key set anew, in the place of its entry or of the one used least recently.
LEMMA LruSetStep ==
  ASSUME LruInv, NEW k \in CacheKey, NEW v \in CacheValue, LruSet(k, v)
  PROVE  LruInv'
<1>1. PICK e : e = [key |-> k, value |-> v, expired |-> FALSE]
  OBVIOUS
<1>2. e \in CachedEntry /\ e.key = k /\ e.value = v /\ e.expired = FALSE
  BY <1>1 DEF CachedEntry
<1>3. /\ order \in Seq(CachedEntry) /\ items = KeysIn(order)
      /\ Len(order) \in Nat /\ DOMAIN order = 1 .. Len(order) /\ Len(order) <= Capacity
      /\ Capacity \in Nat /\ Capacity > 0
      /\ lastSet \in [CacheKey -> CacheValue \cup {Missing}]
      /\ \A i, j \in DOMAIN order : order[i].key = order[j].key => i = j
  BY LruAssumption DEF LruInv, LruType
<1>4. /\ Use(k)
      /\ lastSet' \in [CacheKey -> CacheValue \cup {Missing}]
      /\ \A c \in CacheKey : c # k => lastSet'[c] = lastSet[c]
      /\ lastSet'[k] = IF e.expired THEN Missing ELSE e.value
  BY <1>2, <1>3 DEF LruSet
<1>5. CASE k \in items
  <2>1. order' = <<e>> \o RemoveAt(order, Position(k)) /\ items' = items
    BY <1>1, <1>5 DEF LruSet
  <2>2. /\ Position(k) \in DOMAIN order /\ order[Position(k)].key = k
        /\ \A j \in DOMAIN order : j # Position(k) => order[j].key # k
    BY <1>5, PositionOf
  <2>3. /\ order' \in Seq(CachedEntry) /\ Len(order') = Len(order)
        /\ Fronted(order', e, order, Position(k))
        /\ KeysIn(order') = items
    BY <1>2, <1>5, <2>1, MoveEntry
  <2>4. Len(order') <= Capacity
    BY <1>3, <2>3
  <2> QED  BY ZenonT(40), <1>2, <1>4, <2>1, <2>2, <2>3, <2>4, FrontStep
<1>6. CASE k \notin items /\ Len(order) < Capacity
  <2>1. order' = <<e>> \o order /\ items' = items \cup {k}
    <3>1. ~(Len(order) >= Capacity)
      BY <1>3, <1>6
    <3> QED  BY ONLY LruSet(k, v), <1>1, <1>6, <3>1, Zenon DEF LruSet
  <2>2. order' \in Seq(CachedEntry) /\ Fronted(order', e, order, Len(order) + 1)
    BY <1>2, <1>3, <2>1, PushFront
  <2>3. /\ DOMAIN order' = 1 .. Len(order) + 1
        /\ \A j \in DOMAIN order' : order'[j] = IF j = 1 THEN e ELSE order[j - 1]
    BY <1>3, <2>2 DEF Fronted
  <2>4. Len(order') <= Capacity
    <3>1. PICK n : n = Len(order) + 1
      OBVIOUS
    <3>2. n \in Nat /\ n <= Capacity
      BY <1>3, <1>6, <3>1
    <3>3. \A s \in Seq(CachedEntry) : DOMAIN s = 1 .. n => Len(s) = n
      BY <3>2, LenProperties
    <3> QED  BY <2>2, <2>3, <3>1, <3>2, <3>3
  <2>5. KeysIn(order') = items \cup {k}
    <3>1. 1 \in DOMAIN order' /\ order'[1].key = k
      BY <1>2, <1>3, <2>3
    <3>2. \A j \in DOMAIN order' : j = 1 \/ (j - 1 \in DOMAIN order /\ order'[j] = order[j - 1])
      BY <1>3, <2>3
    <3>3. ASSUME NEW i \in DOMAIN order PROVE \E j \in DOMAIN order' : order'[j] = order[i]
      <4>1. i + 1 \in DOMAIN order' /\ i + 1 # 1 /\ (i + 1) - 1 = i
        BY <1>3, <2>3
      <4>2. order'[i + 1] = order[i]
        BY <2>3, <4>1
      <4> QED  BY <4>1, <4>2
    <3>4. \A j \in DOMAIN order' : order'[j].key = k \/ order'[j].key \in items
      BY <1>3, <3>1, <3>2 DEF KeysIn
    <3>5. \A i \in DOMAIN order : order[i].key \in KeysIn(order')
      BY <3>3 DEF KeysIn
    <3>6. KeysIn(order') \subseteq items \cup {k}
      BY <3>4 DEF KeysIn
    <3>7. k \in KeysIn(order')
      BY <3>1 DEF KeysIn
    <3>8. items \subseteq KeysIn(order')
      BY <1>3, <3>5 DEF KeysIn
    <3> QED  BY <3>6, <3>7, <3>8
  <2>6. /\ \A j \in DOMAIN order : j # Len(order) + 1 => order[j].key # k
        /\ Len(order) + 1 \notin DOMAIN order
    BY <1>3, <1>6 DEF KeysIn
  <2> QED  BY <1>2, <1>4, <2>1, <2>2, <2>4, <2>5, <2>6, FrontStep
<1>7. CASE k \notin items /\ ~(Len(order) < Capacity)
  <2>1. /\ order' = <<e>> \o Front(order)
        /\ items' = (items \ {Last(order).key}) \cup {k}
        /\ Len(order) = Capacity /\ Len(order) \in DOMAIN order
    <3>1. Len(order) >= Capacity /\ Len(order) = Capacity /\ Len(order) \in DOMAIN order
      <4>1. Len(order) \in Nat /\ Capacity \in Nat /\ Capacity > 0 /\ Len(order) <= Capacity
        BY <1>3
      <4>2. Len(order) >= Capacity /\ Len(order) = Capacity /\ Len(order) \in 1 .. Len(order)
        BY <1>7, <4>1
      <4> QED  BY <1>3, <4>2
    <3>2. /\ order' = <<e>> \o Front(order)
          /\ items' = (items \ {Last(order).key}) \cup {k}
      BY ONLY LruSet(k, v), <1>1, <1>7, <3>1, Zenon DEF LruSet
    <3> QED  BY <3>1, <3>2
  <2>2. PICK n \in DOMAIN order : n = Len(order)
    BY <2>1
  <2>3. PICK rest \in Seq(CachedEntry) :
          /\ rest = Front(order)
          /\ Len(rest) = Len(order) - 1
          /\ \A j \in 1 .. Len(order) - 1 : rest[j] = order[j]
    <3>1. PICK m \in Nat : m = Len(order) - 1
      BY <1>3, <2>1
    <3>2. /\ SubSeq(order, 1, m) \in Seq(CachedEntry)
          /\ Len(SubSeq(order, 1, m)) = m
          /\ \A j \in 1 .. m : SubSeq(order, 1, m)[j] = order[j]
      BY <1>3, <3>1
    <3>3. Front(order) = SubSeq(order, 1, m)
      BY <3>1 DEF Front
    <3> QED  BY <3>1, <3>2, <3>3
  <2>4. \A j \in 1 .. Len(order) - 1 : rest[j] = IF j < n THEN order[j] ELSE order[j + 1]
    BY <1>3, <2>2, <2>3
  <2>5. PICK new : new = order'
    OBVIOUS
  <2>6. new = <<e>> \o rest
    BY <2>1, <2>3, <2>5
  <2>7. new \in Seq(CachedEntry) /\ Fronted(new, e, order, n)
    BY <1>2, <1>3, <2>3, <2>4, <2>6, MoveToFront
  <2>8. Len(new) <= Capacity
    <3>1. DOMAIN new = 1 .. Len(order)
      <4>1. ~(n > Len(order))
        BY <1>3, <2>2
      <4> QED  BY <2>7, <4>1 DEF Fronted
    <3> QED  BY <1>3, <2>7, <3>1, LenProperties
  <2>9. KeysIn(new) = {k} \cup {order[j].key : j \in DOMAIN order \ {n}}
    <3>1. KeysIn(new) = {e.key} \cup {order[j].key : j \in DOMAIN order \ {n}}
      BY <1>2, <1>3, <2>7, FrontedKeys
    <3> QED  BY <1>2, <3>1
  <2>10. items \ {Last(order).key} = {order[j].key : j \in DOMAIN order \ {n}}
    <3>1. Last(order) = order[n]
      BY <2>2 DEF Last
    <3>2. \A j \in DOMAIN order : j # n => order[j].key # order[n].key
      BY <1>3
    <3> QED  BY <1>3, <3>1, <3>2 DEF KeysIn
  <2>11. items' = KeysIn(order')
    BY <2>1, <2>5, <2>9, <2>10
  <2>12. /\ \A j \in DOMAIN order : j # n => order[j].key # k
         /\ n = Capacity
    BY <1>3, <1>7, <2>1, <2>2 DEF KeysIn
  <2>13. order' \in Seq(CachedEntry) /\ Len(order') <= Capacity /\ Fronted(order', e, order, n)
    BY <2>5, <2>7, <2>8
  <2> QED  BY <1>2, <1>4, <2>11, <2>12, <2>13, FrontStep
<1> QED
  BY <1>5, <1>6, <1>7

\* One entry taken out, with nothing left of its key to answer.
LEMMA DropStep ==
  ASSUME LruInv, NEW k \in items, Drop(k), lastUsed' = lastUsed,
         lastSet' \in [CacheKey -> CacheValue \cup {Missing}], lastSet'[k] = Missing,
         \A c \in CacheKey : c # k => lastSet'[c] = lastSet[c]
  PROVE  LruInv'
<1>1. /\ order \in Seq(CachedEntry) /\ items = KeysIn(order)
      /\ Len(order) \in Nat /\ DOMAIN order = 1 .. Len(order)
      /\ k \in CacheKey /\ Position(k) \in DOMAIN order /\ order[Position(k)].key = k
      /\ \A j \in DOMAIN order : j # Position(k) => order[j].key # k
  BY PositionOf DEF LruInv, LruType
<1>2. PICK i \in DOMAIN order : i = Position(k)
  BY <1>1
<1>3. PICK rest \in Seq(CachedEntry) :
        /\ rest = RemoveAt(order, i)
        /\ Len(rest) = Len(order) - 1
        /\ \A j \in 1 .. Len(order) - 1 : rest[j] = IF j < i THEN order[j] ELSE order[j + 1]
  <2>1. order \in Seq(CachedEntry) /\ i \in DOMAIN order
    BY <1>1
  <2>2. /\ RemoveAt(order, i) \in Seq(CachedEntry)
        /\ Len(RemoveAt(order, i)) = Len(order) - 1
        /\ \A j \in 1 .. Len(order) - 1 :
             RemoveAt(order, i)[j] = IF j < i THEN order[j] ELSE order[j + 1]
    BY <2>1, RemoveAtProperties
  <2> QED  BY <2>2
<1>4. PICK n \in Nat : n = Len(order) - 1 /\ n <= Len(order)
  <2>1. i \in 1 .. Len(order) /\ Len(order) \in Nat
    BY <1>1
  <2>2. Len(order) - 1 \in Nat /\ Len(order) - 1 <= Len(order)
    BY <2>1
  <2> QED  BY <2>2
<1>5. PICK f \in [1 .. n -> DOMAIN order] : \A j \in 1 .. n : f[j] = IF j < i THEN j ELSE j + 1
  <2> DEFINE g == [j \in 1 .. n |-> IF j < i THEN j ELSE j + 1]
  <2>1. \A j \in 1 .. n : g[j] \in DOMAIN order
    BY <1>1, <1>2, <1>4
  <2>2. g \in [1 .. n -> DOMAIN order]
    BY <2>1
  <2> QED  BY <2>2
<1>6. \A j, h \in 1 .. n : j < h => f[j] < f[h]
  BY <1>1, <1>4, <1>5
<1>7. rest = [j \in 1 .. n |-> order[f[j]]]
  <2>1. DOMAIN rest = 1 .. n
    BY <1>3, <1>4
  <2>2. \A j \in 1 .. n : rest[j] = order[f[j]]
    BY <1>3, <1>4, <1>5
  <2>3. rest = [j \in 1 .. n |-> rest[j]]
    BY <1>3, <2>1
  <2> QED  BY <2>2, <2>3
<1>8. order' = rest /\ items' = items \ {k}
  BY <1>2, <1>3 DEF Drop
<1>9. ASSUME NEW h \in DOMAIN order, h # i PROVE \E j \in 1 .. n : f[j] = h
  <2>1. CASE h < i
    <3>1. h \in 1 .. n /\ f[h] = h
      BY <1>1, <1>2, <1>4, <1>5, <2>1
    <3> QED  BY <3>1
  <2>2. CASE i < h
    <3>1. h - 1 \in 1 .. n /\ ~(h - 1 < i) /\ (h - 1) + 1 = h
      BY <1>1, <1>2, <1>4, <2>2
    <3>2. f[h - 1] = h
      BY <1>5, <3>1
    <3> QED  BY <3>1, <3>2
  <2> QED  BY <1>1, <1>2, <1>9, <2>1, <2>2
<1>10. KeysIn(rest) = items \ {k}
  <2>1. \A j \in 1 .. n : f[j] # i /\ f[j] \in DOMAIN order
    BY <1>1, <1>2, <1>5
  <2>2. DOMAIN rest = 1 .. n /\ \A j \in 1 .. n : rest[j] = order[f[j]]
    BY <1>7
  <2>3. \A j \in DOMAIN rest : rest[j].key \in items \ {k}
    BY <1>1, <1>2, <2>1, <2>2 DEF KeysIn
  <2>4. \A h \in DOMAIN order : h # i => \E j \in DOMAIN rest : rest[j] = order[h]
    BY <1>9, <2>2
  <2>5. \A c \in items \ {k} : \E j \in DOMAIN rest : rest[j].key = c
    <3>1. SUFFICES ASSUME NEW c \in items \ {k} PROVE \E j \in DOMAIN rest : rest[j].key = c
      OBVIOUS
    <3>2. PICK h \in DOMAIN order : order[h].key = c
      BY <1>1 DEF KeysIn
    <3>3. h # i
      BY <1>1, <1>2, <3>2
    <3> QED  BY <2>4, <3>2, <3>3
  <2> QED  BY <2>3, <2>5 DEF KeysIn
<1>11. \A h \in DOMAIN order : order[h].key \in CacheKey
  <2>1. \A h \in DOMAIN order : order[h] \in CachedEntry
    BY <1>1, ElementOfSeq
  <2> QED  BY <2>1 DEF CachedEntry
<1>12. /\ \A h \in DOMAIN order : order[h].key \in items' => lastSet'[order[h].key] = lastSet[order[h].key]
       /\ \A h \in DOMAIN order : order[h].key \notin items' => lastSet'[order[h].key] = Missing
       /\ \A c \in CacheKey : c \notin items => lastSet'[c] = lastSet[c]
  BY <1>1, <1>8, <1>11 DEF KeysIn
<1>13. order' = [j \in 1 .. n |-> order[f[j]]] /\ items' = KeysIn(order')
  BY <1>7, <1>8, <1>10
<1> QED
  BY <1>4, <1>6, <1>12, <1>13, ThinStep

LEMMA LruGetStep ==
  ASSUME LruInv, NEW k \in CacheKey, LruGet(k)
  PROVE  LruInv'
<1>1. k \in items
  BY DEF LruGet
<1>2. /\ Position(k) \in DOMAIN order /\ order[Position(k)].key = k
      /\ order[Position(k)] \in CachedEntry
      /\ \A j \in DOMAIN order : j # Position(k) => order[j].key # k
  BY <1>1, PositionOf
<1>3. lastSet[k] = IF order[Position(k)].expired THEN Missing ELSE order[Position(k)].value
  BY <1>2 DEF LruInv
<1>4. lastSet \in [CacheKey -> CacheValue \cup {Missing}] /\ Len(order) <= Capacity
  BY DEF LruInv, LruType
<1>5. CASE order[Position(k)].expired
  <2>1. Drop(k) /\ lastUsed' = lastUsed /\ lastSet' = lastSet /\ lastSet'[k] = Missing
    BY <1>3, <1>5 DEF LruGet
  <2> QED  BY <1>1, <1>4, <2>1, DropStep
<1>6. CASE ~order[Position(k)].expired
  <2>1. PICK e \in CachedEntry : e = order[Position(k)] /\ e.key = k
    BY <1>2
  <2>2. /\ order' = <<e>> \o RemoveAt(order, Position(k))
        /\ Use(k) /\ items' = items /\ lastSet' = lastSet
    BY <1>6, <2>1 DEF LruGet
  <2>3. /\ order' \in Seq(CachedEntry) /\ Len(order') = Len(order)
        /\ Fronted(order', e, order, Position(k))
        /\ KeysIn(order') = items
    BY <1>1, <2>1, <2>2, MoveEntry
  <2>4. lastSet'[k] = IF e.expired THEN Missing ELSE e.value
    BY <1>3, <2>1, <2>2
  <2>5. /\ Len(order') <= Capacity /\ items' = KeysIn(order')
        /\ lastSet' \in [CacheKey -> CacheValue \cup {Missing}]
        /\ \A c \in CacheKey : c # k => lastSet'[c] = lastSet[c]
    BY <1>4, <2>2, <2>3
  <2>6. Use(k)
    BY <2>2
  <2> QED  BY <1>2, <2>1, <2>3, <2>4, <2>5, <2>6, FrontStep
<1> QED
  BY <1>5, <1>6

LEMMA LruDeleteStep ==
  ASSUME LruInv, NEW k \in CacheKey, LruDelete(k)
  PROVE  LruInv'
<1>1. lastSet \in [CacheKey -> CacheValue \cup {Missing}]
  BY DEF LruInv, LruType
<1>2. k \in items /\ Drop(k) /\ lastUsed' = lastUsed /\ lastSet' = [lastSet EXCEPT ![k] = Missing]
  BY DEF LruDelete
<1>3. /\ lastSet' \in [CacheKey -> CacheValue \cup {Missing}] /\ lastSet'[k] = Missing
      /\ \A c \in CacheKey : c # k => lastSet'[c] = lastSet[c]
  BY <1>1, <1>2
<1> QED
  BY <1>2, <1>3, DropStep

LEMMA ExpireStep ==
  ASSUME LruInv, NEW k \in CacheKey, Expire(k)
  PROVE  LruInv'
<1>1. PICK i \in DOMAIN order :
        /\ order[i].key = k /\ order[i] \in CachedEntry
        /\ order' = [order EXCEPT ![i].expired = TRUE]
        /\ \A j \in DOMAIN order : j # i => order[j].key # k
  BY PositionOf DEF Expire
<1>2. LruType
  BY DEF LruInv
<1>3. PICK e \in CachedEntry : e = [order[i] EXCEPT !.expired = TRUE] /\ e.key = k /\ e.expired = TRUE
  <2> DEFINE e == [order[i] EXCEPT !.expired = TRUE]
  <2>1. order[i] \in [key: CacheKey, value: CacheValue, expired: BOOLEAN] /\ order[i].key = k
    BY <1>1 DEF CachedEntry
  <2>2. e \in [key: CacheKey, value: CacheValue, expired: BOOLEAN]
    BY <2>1
  <2>3. e.key = k /\ e.expired = TRUE
    BY <2>1
  <2> QED  BY <2>2, <2>3 DEF CachedEntry
<1>4. /\ order \in Seq(CachedEntry) /\ Len(order) \in Nat /\ DOMAIN order = 1 .. Len(order)
      /\ order' = [order EXCEPT ![i] = e]
  BY <1>1, <1>2, <1>3 DEF LruType
<1>5. /\ order' \in Seq(CachedEntry) /\ Len(order') = Len(order) /\ DOMAIN order' = DOMAIN order
      /\ \A j \in DOMAIN order : order'[j] = IF j = i THEN e ELSE order[j]
  <2>1. i \in 1 .. Len(order)
    BY <1>4
  <2>2. /\ [order EXCEPT ![i] = e] \in Seq(CachedEntry)
        /\ Len([order EXCEPT ![i] = e]) = Len(order)
        /\ \A j \in 1 .. Len(order) : [order EXCEPT ![i] = e][j] = IF j = i THEN e ELSE order[j]
    BY <1>4, <2>1, ExceptSeq
  <2>3. DOMAIN [order EXCEPT ![i] = e] = DOMAIN order
    OBVIOUS
  <2> QED  BY <1>4, <2>2, <2>3
<1>6. \A j \in DOMAIN order : order'[j].key = order[j].key /\ (j # i => order'[j] = order[j])
  BY <1>1, <1>3, <1>5
<1>7. /\ lastUsed' = lastUsed /\ items' = items /\ lastSet \in [CacheKey -> CacheValue \cup {Missing}]
      /\ lastSet' = [lastSet EXCEPT ![k] = Missing]
  BY <1>2 DEF Expire, LruType
<1>8. KeysIn(order') = items
  BY SMTT(30), <1>2, <1>5, <1>6 DEF KeysIn, LruType
<1>9. \A a, b \in DOMAIN order' : order'[a].key = order'[b].key => a = b
  BY <1>2, <1>5, <1>6 DEF LruType
<1>10. LruType'
  BY <1>2, <1>5, <1>7, <1>8, <1>9 DEF LruType
<1>11. \A a, b \in DOMAIN order' : a < b => Before(lastUsed', order'[a].key, order'[b].key)
  BY <1>5, <1>6, <1>7 DEF LruInv
<1>12. ASSUME NEW j \in DOMAIN order'
       PROVE  lastSet'[order'[j].key] = IF order'[j].expired THEN Missing ELSE order'[j].value
  <2>1. CASE j = i
    BY <1>1, <1>3, <1>5, <1>7, <2>1
  <2>2. CASE j # i
    <3>1. order'[j] = order[j] /\ order[j].key # k /\ j \in DOMAIN order
      BY <1>1, <1>5, <1>6, <2>2
    <3>2. lastSet[order[j].key] = IF order[j].expired THEN Missing ELSE order[j].value
      BY <3>1 DEF LruInv
    <3>3. order[j].key \in CacheKey
      <4>1. order[j] \in CachedEntry
        BY <1>4, <3>1, ElementOfSeq
      <4> QED  BY <4>1 DEF CachedEntry
    <3> QED  BY <1>7, <3>1, <3>2, <3>3
  <2> QED  BY <2>1, <2>2
<1>13. ASSUME NEW p \in DOMAIN lastUsed', lastUsed'[p] \notin items'
       PROVE  lastSet'[lastUsed'[p]] = Missing \/ p > Capacity
  <2>1. p \in DOMAIN lastUsed /\ lastUsed'[p] = lastUsed[p] /\ lastUsed[p] \notin items
    BY <1>7, <1>13
  <2>2. lastSet[lastUsed[p]] = Missing \/ p > Capacity
    BY <2>1 DEF LruInv
  <2>3. lastUsed[p] \in CacheKey
    BY <1>2, <2>1 DEF LruType
  <2> QED  BY <1>7, <2>1, <2>2, <2>3
<1>14. items' \subseteq ToSet(lastUsed')
  BY <1>7 DEF LruInv
<1> QED
  BY <1>10, <1>11, <1>12, <1>13, <1>14 DEF LruInv

\* The reaper leaves every entry that is alive.
LEMMA ReapStep ==
  ASSUME LruInv, Reap
  PROVE  LruInv'
<1>1. PICK kept : kept = {i \in DOMAIN order : Alive(order[i])}
  OBVIOUS
<1>2. /\ order \in Seq(CachedEntry) /\ items = KeysIn(order)
      /\ Len(order) \in Nat /\ DOMAIN order = 1 .. Len(order)
      /\ lastSet \in [CacheKey -> CacheValue \cup {Missing}]
      /\ \A i, j \in DOMAIN order : order[i].key = order[j].key => i = j
  BY DEF LruInv, LruType
<1>3. /\ items' = {order[i].key : i \in kept}
      /\ lastUsed' = lastUsed /\ lastSet' = lastSet
  BY <1>1 DEF Reap
<1>4. PICK f \in [1 .. Cardinality(kept) -> kept] :
        /\ \A i, j \in DOMAIN f : i < j => f[i] < f[j]
        /\ order' = [i \in DOMAIN f |-> order[f[i]]]
  BY <1>1 DEF Reap
<1>5. /\ IsFiniteSet(kept) /\ Cardinality(kept) \in Nat /\ Cardinality(kept) <= Len(order)
  <2>1. IsFiniteSet(1 .. Len(order)) /\ Cardinality(1 .. Len(order)) = Len(order)
    <3>1. Cardinality(1 .. Len(order)) = (IF 1 > Len(order) THEN 0 ELSE Len(order) - 1 + 1)
      BY <1>2, FS_Interval
    <3>2. IsFiniteSet(1 .. Len(order))
      BY <1>2, FS_Interval
    <3> QED  BY <1>2, <3>1, <3>2
  <2>2. kept \in SUBSET (1 .. Len(order))
    BY <1>1, <1>2
  <2>3. /\ IsFiniteSet(kept)
        /\ Cardinality(kept) <= Cardinality(1 .. Len(order))
    BY <2>1, <2>2, FS_Subset
  <2>4. Cardinality(kept) \in Nat
    BY <2>3, FS_CardinalityType
  <2> QED  BY <2>1, <2>3, <2>4
<1>6. PICK n \in Nat : n = Cardinality(kept) /\ n <= Len(order)
  BY <1>5
<1>7. /\ f \in [1 .. n -> DOMAIN order]
      /\ \A i, j \in 1 .. n : i < j => f[i] < f[j]
      /\ order' = [i \in 1 .. n |-> order[f[i]]]
  BY <1>1, <1>4, <1>6
<1>8. f \in Surjection(1 .. n, kept)
  <2>1. \A i, j \in 1 .. n : f[i] = f[j] => i = j
    <3>1. SUFFICES ASSUME NEW i \in 1 .. n, NEW j \in 1 .. n, f[i] = f[j] PROVE i = j
      OBVIOUS
    <3>2. f[i] \in Nat
      <4>1. f[i] \in DOMAIN order
        BY <1>7
      <4> QED  BY <1>2, <4>1
    <3>3. ~(i < j) /\ ~(j < i)
      BY <1>7, <3>1, <3>2
    <3> QED  BY <3>3
  <2>2. f \in Injection(1 .. n, kept)
    BY <1>4, <1>6, <2>1, Fun_IsInj
  <2>3. Cardinality(1 .. n) = Cardinality(kept)
    <3>1. Cardinality(1 .. n) = (IF 1 > n THEN 0 ELSE n - 1 + 1)
      BY FS_Interval
    <3> QED  BY <1>6, <3>1
  <2> QED  BY <1>5, <2>2, <2>3, FS_Injection
<1>9. \A i \in kept : \E j \in 1 .. n : f[j] = i
  BY <1>8 DEF Surjection
<1>10. items' = KeysIn(order')
  <2>1. DOMAIN order' = 1 .. n /\ \A j \in 1 .. n : order'[j] = order[f[j]] /\ f[j] \in kept
    BY <1>4, <1>6, <1>7
  <2>2. \A i \in kept : \E j \in DOMAIN order' : order'[j] = order[i]
    BY <1>9, <2>1
  <2>3. \A j \in DOMAIN order' : order'[j].key \in items'
    BY <1>3, <2>1
  <2>4. \A i \in kept : order[i].key \in KeysIn(order')
    BY <2>2 DEF KeysIn
  <2> QED  BY <1>3, <2>3, <2>4 DEF KeysIn
<1>11. ASSUME NEW i \in DOMAIN order, order[i].key \notin items' PROVE lastSet'[order[i].key] = Missing
  <2>1. i \notin kept
    BY <1>3, <1>11
  <2>2. order[i].expired
    BY <1>1, <2>1 DEF Alive
  <2>3. lastSet[order[i].key] = IF order[i].expired THEN Missing ELSE order[i].value
    BY DEF LruInv
  <2> QED  BY <1>3, <2>2, <2>3
<1> QED
  BY <1>2, <1>3, <1>6, <1>7, <1>10, <1>11, ThinStep

LEMMA LruStep == LruInv /\ [LruNext]_lruVars => LruInv'
<1> SUFFICES ASSUME LruInv, [LruNext]_lruVars PROVE LruInv'
  OBVIOUS
<1>1. ASSUME NEW k \in CacheKey, NEW v \in CacheValue, LruSet(k, v) PROVE LruInv'
  BY <1>1, LruSetStep
<1>2. ASSUME NEW k \in CacheKey, LruGet(k) PROVE LruInv'
  BY <1>2, LruGetStep
<1>3. ASSUME NEW k \in CacheKey, LruDelete(k) PROVE LruInv'
  BY <1>3, LruDeleteStep
<1>4. ASSUME NEW k \in CacheKey, Expire(k) PROVE LruInv'
  BY <1>4, ExpireStep
<1>5. ASSUME Reap PROVE LruInv'
  BY <1>5, ReapStep
<1>6. ASSUME UNCHANGED lruVars PROVE LruInv'
  BY <1>6 DEF lruVars, LruInv, LruType
<1> QED
  BY <1>1, <1>2, <1>3, <1>4, <1>5, <1>6 DEF LruNext

LEMMA LruInvImplies == LruInv => KeepsRecent
<1> SUFFICES ASSUME LruInv PROVE KeepsRecent
  OBVIOUS
<1>1. LruType
  BY DEF LruInv
<1>2. Len(lastUsed) \in Nat /\ DOMAIN lastUsed = 1 .. Len(lastUsed) /\ Capacity \in Nat
  BY <1>1, LruAssumption DEF LruType
<1>3. /\ Min({Capacity, Len(lastUsed)}) <= Capacity
      /\ Min({Capacity, Len(lastUsed)}) <= Len(lastUsed)
      /\ Min({Capacity, Len(lastUsed)}) \in Nat
  <2>1. \E x \in {Capacity, Len(lastUsed)} : \A y \in {Capacity, Len(lastUsed)} : x <= y
    BY <1>2
  <2> QED  BY <1>2, <2>1 DEF Min
<1>4. ASSUME NEW p \in 1 .. Min({Capacity, Len(lastUsed)})
      PROVE  Answer(lastUsed[p]) = lastSet[lastUsed[p]]
  <2>1. p \in DOMAIN lastUsed /\ ~(p > Capacity)
    BY <1>2, <1>3
  <2>2. CASE lastUsed[p] \notin items
    BY <2>1, <2>2 DEF LruInv, Answer
  <2>3. CASE lastUsed[p] \in items
    <3>1. PICK k \in items : k = lastUsed[p]
      BY <2>3
    <3>2. Position(k) \in DOMAIN order /\ order[Position(k)].key = k
      BY PositionOf
    <3>3. lastSet[k] = IF order[Position(k)].expired THEN Missing ELSE order[Position(k)].value
      BY <3>2 DEF LruInv
    <3> QED  BY <3>1, <3>3 DEF Answer
  <2> QED  BY <2>2, <2>3
<1> QED
  BY <1>1, <1>4 DEF KeepsRecent, LruType, KeysIn

(* Of the Capacity keys used last, each that was not deleted and has not   *)
(* expired is answered with its last value, through eviction, expiry on    *)
(* read and the reaper; list and map agree and stay within Capacity.       *)
THEOREM CacheKeepsRecent == LruSpec => []KeepsRecent
BY LruStart, LruStep, LruInvImplies, PTL DEF LruSpec

-----------------------------------------------------------------------------
(* The LSM tree is a map.  A read depends on the memtable and on the       *)
(* newest table that has the key; the lemmas say that neither a flush nor  *)
(* a compaction changes what it finds there.                               *)

USE LsmAssumption

Entry == LsmValue \cup {Tomb}
Table == UNION {[D -> Entry] : D \in SUBSET LsmKey}

\* Holding, NewestTable and Get of any list of tables.
In(S, k) == {i \in DOMAIN S : k \in DOMAIN S[i]}
First(S, k) == CHOOSE i \in In(S, k) : \A j \in In(S, k) : i <= j
Read(t, S, k) ==
  IF k \in DOMAIN t THEN Found(t[k])
  ELSE IF In(S, k) = {} THEN NotFound
  ELSE Found(S[First(S, k)][k])

\* The memtable and the tables hold entries of the given keys.
LsmInv == memtable \in Table /\ sstables \in Seq(Table)

-----------------------------------------------------------------------------
(* The newest table.                                                       *)

\* The newest table that has k exists, and no other is as new.
LEMMA FirstExists ==
  ASSUME NEW S \in Seq(Table), NEW k, In(S, k) # {}
  PROVE  /\ First(S, k) \in In(S, k)
         /\ \A j \in In(S, k) : First(S, k) <= j
<1>1. In(S, k) \subseteq Nat  BY DEF In
<1>2. \E i \in In(S, k) : \A j \in In(S, k) : i <= j  BY <1>1, LeastOf
<1> QED  BY <1>2 DEF First

\* What is least among the tables with k is the newest.
LEMMA FirstIs ==
  ASSUME NEW S \in Seq(Table), NEW k, NEW i \in In(S, k),
         \A j \in In(S, k) : i <= j
  PROVE  First(S, k) = i
<1>1. First(S, k) \in In(S, k) /\ First(S, k) <= i  BY FirstExists
<1>2. i <= First(S, k)  BY <1>1
<1>3. i \in Nat /\ First(S, k) \in Nat  BY <1>1 DEF In
<1> QED  BY <1>1, <1>2, <1>3

-----------------------------------------------------------------------------
(* What the operations do to a read.                                       *)

\* An empty memtable over a list that begins with t is t over the rest.
LEMMA FlushReads ==
  ASSUME NEW t \in Table, NEW S \in Seq(Table), NEW k
  PROVE  Read(NoEntries, <<t>> \o S, k) = Read(t, S, k)
<1> DEFINE F == <<t>> \o S
<1>1. /\ F \in Seq(Table) /\ DOMAIN F = 1..Len(S) + 1
      /\ F[1] = t /\ \A i \in 1..Len(S) : F[i + 1] = S[i]
  OBVIOUS
<1>2. DOMAIN NoEntries = {}  BY DEF NoEntries
<1> HIDE DEF F
<1>3. CASE k \in DOMAIN t
  <2>1. 1 \in In(F, k)  BY <1>1, <1>3 DEF In
  <2>2. \A j \in In(F, k) : 1 <= j  BY <1>1 DEF In
  <2>3. First(F, k) = 1  BY <1>1, <2>1, <2>2, FirstIs
  <2> QED  BY <1>1, <1>2, <1>3, <2>1, <2>3 DEF Read, F
<1>4. CASE k \notin DOMAIN t
  <2>1. \A i \in In(F, k) : i - 1 \in In(S, k)
    <3> TAKE i \in In(F, k)
    <3>1. i \in 1..Len(S) + 1 /\ i # 1 /\ k \in DOMAIN F[i]  BY <1>1, <1>4 DEF In
    <3>2. i - 1 \in 1..Len(S)  BY <3>1
    <3>3. F[i] = S[i - 1]  BY <1>1, <3>1, <3>2
    <3> QED  BY <3>1, <3>2, <3>3 DEF In
  <2>2. \A i \in In(S, k) : i \in Nat /\ i + 1 \in In(F, k) /\ F[i + 1] = S[i]
    BY <1>1 DEF In
  <2>3. CASE In(S, k) = {}
    <3>1. In(F, k) = {}  BY <2>1, <2>3
    <3> QED  BY <1>2, <1>4, <2>3, <3>1 DEF Read, F
  <2>4. CASE In(S, k) # {}
    <3> DEFINE i == First(S, k)
    <3>1. i \in In(S, k) /\ \A j \in In(S, k) : i <= j  BY <2>4, FirstExists
    <3> HIDE DEF i
    <3>2. i + 1 \in In(F, k) /\ F[i + 1] = S[i] /\ i \in Nat  BY <2>2, <3>1
    <3>3. \A j \in In(F, k) : i + 1 <= j
      <4> TAKE j \in In(F, k)
      <4>1. j - 1 \in In(S, k) /\ j \in Nat  BY <1>1, <2>1 DEF In
      <4>2. i <= j - 1  BY <3>1, <4>1
      <4> QED  BY <3>2, <4>1, <4>2
    <3>4. First(F, k) = i + 1  BY <1>1, <3>2, <3>3, FirstIs
    <3>5. In(F, k) # {}  BY <3>2
    <3>6. Read(NoEntries, F, k) = Found(F[i + 1][k])  BY <1>2, <3>4, <3>5 DEF Read
    <3>7. Read(t, S, k) = Found(S[i][k])  BY <1>4, <2>4 DEF Read, i
    <3> QED  BY <3>2, <3>6, <3>7 DEF F
  <2> QED  BY <2>3, <2>4
<1> QED  BY <1>3, <1>4

\* An entry in the memtable is the answer for its key and for no other.
LEMMA WithReads ==
  ASSUME NEW t, NEW S, NEW k, NEW v, NEW x
  PROVE  Read(With(t, k, v), S, x) = IF x = k THEN Found(v) ELSE Read(t, S, x)
<1>1. DOMAIN With(t, k, v) = DOMAIN t \cup {k}  BY DEF With
<1>2. \A y \in DOMAIN t \cup {k} : With(t, k, v)[y] = IF y = k THEN v ELSE t[y]
  BY DEF With
<1> HIDE DEF With
<1>3. CASE x = k  BY <1>1, <1>2, <1>3 DEF Read
<1>4. CASE x # k /\ x \in DOMAIN t  BY <1>1, <1>2, <1>4 DEF Read
<1>5. CASE x # k /\ x \notin DOMAIN t  BY <1>1, <1>5 DEF Read
<1> QED  BY <1>3, <1>4, <1>5

\* Compact's table.
Kept(S) == {x \in LsmKey : In(S, x) # {} /\ S[First(S, x)][x] # Tomb}
Compacted(S) == [x \in Kept(S) |-> S[First(S, x)][x]]

\* A tombstone and no entry read alike, so one table with the rest is enough.
LEMMA CompactReads ==
  ASSUME NEW t, NEW S \in Seq(Table), NEW k \in LsmKey
  PROVE  Read(t, <<Compacted(S)>>, k) = Read(t, S, k)
<1> DEFINE C == <<Compacted(S)>>
<1>1. DOMAIN C = {1} /\ C[1] = Compacted(S)  OBVIOUS
<1>2. DOMAIN Compacted(S) = Kept(S) /\ \A x \in Kept(S) : Compacted(S)[x] = S[First(S, x)][x]
  BY DEF Compacted
<1> HIDE DEF C
<1>3. In(C, k) = IF k \in Kept(S) THEN {1} ELSE {}  BY <1>1, <1>2 DEF In
<1>4. CASE k \in Kept(S)
  <2>1. First(C, k) = 1  BY <1>3, <1>4 DEF First
  <2>2. In(S, k) # {}  BY <1>4 DEF Kept
  <2>3. C[First(C, k)][k] = S[First(S, k)][k]  BY <1>1, <1>2, <1>4, <2>1
  <2> QED  BY <1>3, <1>4, <2>2, <2>3 DEF Read, C
<1>5. CASE k \notin Kept(S)
  <2>1. In(S, k) = {} \/ S[First(S, k)][k] = Tomb  BY <1>5 DEF Kept
  <2> QED  BY <1>3, <1>5, <2>1 DEF Read, C, Found
<1> QED  BY <1>4, <1>5

-----------------------------------------------------------------------------
(* Types.                                                                  *)

\* A table is a function on some keys.
LEMMA TableType ==
  ASSUME NEW t
  PROVE  t \in Table <=> /\ t = [x \in DOMAIN t |-> t[x]]
                         /\ DOMAIN t \subseteq LsmKey
                         /\ \A x \in DOMAIN t : t[x] \in Entry
<1>1. ASSUME t \in Table
      PROVE  t = [x \in DOMAIN t |-> t[x]] /\ DOMAIN t \subseteq LsmKey
             /\ \A x \in DOMAIN t : t[x] \in Entry
  <2>1. PICK D \in SUBSET LsmKey : t \in [D -> Entry]  BY <1>1 DEF Table
  <2> QED  BY <2>1
<1>2. ASSUME t = [x \in DOMAIN t |-> t[x]], DOMAIN t \subseteq LsmKey,
             \A x \in DOMAIN t : t[x] \in Entry
      PROVE  t \in Table
  <2>1. t \in [DOMAIN t -> Entry]  BY <1>2
  <2> QED  BY <1>2, <2>1 DEF Table
<1> QED  BY <1>1, <1>2

\* The empty memtable is a table,
LEMMA NoEntriesType == NoEntries \in Table
<1>1. DOMAIN NoEntries = {} /\ NoEntries = [x \in DOMAIN NoEntries |-> NoEntries[x]]
  BY DEF NoEntries
<1> QED  BY <1>1, TableType

\* so is a table with one entry more,
LEMMA WithType ==
  ASSUME NEW t \in Table, NEW k \in LsmKey, NEW v \in Entry
  PROVE  With(t, k, v) \in Table
<1>1. /\ DOMAIN With(t, k, v) = DOMAIN t \cup {k}
      /\ \A x \in DOMAIN t \cup {k} : With(t, k, v)[x] = IF x = k THEN v ELSE t[x]
      /\ With(t, k, v) = [x \in DOMAIN With(t, k, v) |-> With(t, k, v)[x]]
  BY DEF With
<1>2. DOMAIN t \subseteq LsmKey /\ \A x \in DOMAIN t : t[x] \in Entry  BY TableType
<1> HIDE DEF With, Entry
<1> QED  BY <1>1, <1>2, TableType

\* and what a compaction makes of many.
LEMMA CompactedType ==
  ASSUME NEW S \in Seq(Table)
  PROVE  Compacted(S) \in Table
<1>1. /\ DOMAIN Compacted(S) = Kept(S)
      /\ \A x \in Kept(S) : Compacted(S)[x] = S[First(S, x)][x]
      /\ Compacted(S) = [x \in DOMAIN Compacted(S) |-> Compacted(S)[x]]
  BY DEF Compacted
<1>2. ASSUME NEW x \in Kept(S)
      PROVE  x \in LsmKey /\ S[First(S, x)][x] \in Entry
  <2>1. x \in LsmKey /\ First(S, x) \in In(S, x)  BY FirstExists DEF Kept
  <2>2. S[First(S, x)] \in Table /\ x \in DOMAIN S[First(S, x)]  BY <2>1 DEF In
  <2> QED  BY <2>1, <2>2, TableType
<1> QED  BY <1>1, <1>2, TableType

-----------------------------------------------------------------------------
(* The steps.                                                              *)

\* Get and Compact in terms of the operators above.
LEMMA GetReads == \A k : Get(k) = Read(memtable, sstables, k)
<1>1. \A k : Holding(k) = In(sstables, k)  BY DEF Holding, In
<1>2. \A k : NewestTable(k) = First(sstables, k)  BY <1>1 DEF NewestTable, First
<1> QED  BY <1>1, <1>2 DEF Get, Read

\* The same for the next state.
LEMMA NextGetReads == \A k : Get(k)' = Read(memtable', sstables', k)
<1>1. \A k : Holding(k)' = In(sstables', k)  BY DEF Holding, In
<1>2. \A k : NewestTable(k)' = First(sstables', k)  BY <1>1 DEF NewestTable, First
<1> QED  BY <1>1, <1>2 DEF Get, Read

\* A write puts the entry in front of everything else, flushed or not.
LEMMA StoreStep ==
  ASSUME LsmInv, NEW k \in LsmKey, NEW v \in Entry, Store(k, v)
  PROVE  /\ LsmInv'
         /\ \A x : Read(memtable', sstables', x)
                     = IF x = k THEN Found(v) ELSE Read(memtable, sstables, x)
<1> DEFINE t == With(memtable, k, v)
<1>1. memtable \in Table /\ sstables \in Seq(Table) /\ t \in Table
  BY WithType DEF LsmInv
<1>2. \A x : Read(t, sstables, x) = IF x = k THEN Found(v) ELSE Read(memtable, sstables, x)
  BY WithReads
<1>3. CASE memSize + 1 >= MaxMemSize
  <2>1. sstables' = <<t>> \o sstables /\ memtable' = NoEntries
    BY <1>3 DEF Store, Flushed
  <2> HIDE DEF t
  <2>2. <<t>> \o sstables \in Seq(Table)  BY <1>1
  <2>3. \A x : Read(NoEntries, <<t>> \o sstables, x) = Read(t, sstables, x)
    BY <1>1, FlushReads
  <2> QED  BY <1>2, <2>1, <2>2, <2>3, NoEntriesType DEF LsmInv
<1>4. CASE ~(memSize + 1 >= MaxMemSize)
  <2>1. sstables' = sstables /\ memtable' = t  BY <1>4 DEF Store
  <2> QED  BY <1>1, <1>2, <2>1 DEF LsmInv
<1> QED  BY <1>3, <1>4

\* A compaction changes no read.
LEMMA CompactStep ==
  ASSUME LsmInv, Compact
  PROVE  /\ LsmInv'
         /\ \A x \in LsmKey : Read(memtable', sstables', x) = Read(memtable, sstables, x)
<1>1. memtable \in Table /\ sstables \in Seq(Table)  BY DEF LsmInv
<1>2. \A x : Holding(x) = In(sstables, x)  BY DEF Holding, In
<1>3. \A x : NewestTable(x) = First(sstables, x)  BY <1>2 DEF NewestTable, First
<1>4. sstables' = <<Compacted(sstables)>> /\ memtable' = memtable
  BY <1>2, <1>3 DEF Compact, Merged, Compacted, Kept
<1>5. Compacted(sstables) \in Table  BY <1>1, CompactedType
<1>6. <<Compacted(sstables)>> \in Seq(Table)  BY <1>5
<1> QED  BY <1>1, <1>4, <1>6, CompactReads DEF LsmInv

\* The empty tree satisfies the invariant, and every operation keeps it.
LEMMA LsmInit_Inv == LsmInit => LsmInv
<1> SUFFICES ASSUME LsmInit PROVE LsmInv  OBVIOUS
<1> QED  BY NoEntriesType DEF LsmInit, LsmInv

LEMMA LsmNext_Inv == LsmInv /\ [LsmNext]_lsmVars => LsmInv'
<1> SUFFICES ASSUME LsmInv, [LsmNext]_lsmVars PROVE LsmInv'  OBVIOUS
<1>1. ASSUME NEW k \in LsmKey, Delete(k) PROVE LsmInv'
  BY <1>1, StoreStep DEF Delete, Entry
<1>2. ASSUME NEW k \in LsmKey, NEW v \in Entry, Put(k, v) PROVE LsmInv'
  BY <1>2, StoreStep DEF Put
<1>3. CASE Compact  BY <1>3, CompactStep
<1>4. CASE UNCHANGED lsmVars  BY <1>4 DEF lsmVars, LsmInv
<1> QED  BY <1>1, <1>2, <1>3, <1>4 DEF LsmNext, Entry

-----------------------------------------------------------------------------
(* Refinement.                                                             *)

\* The empty tree is the empty map.
LEMMA InitialMap == LsmInit => Map!Init
<1> SUFFICES ASSUME LsmInit PROVE Map!Init  OBVIOUS
<1>1. DOMAIN memtable = {} /\ DOMAIN sstables = {}  BY DEF LsmInit, NoEntries
<1>2. \A k \in LsmKey : Get(k) = NotFound  BY <1>1 DEF Get, Holding
<1>3. writes = 0  BY DEF LsmInit
<1> HIDE DEF Get
<1> QED  BY <1>2, <1>3 DEF Map!Init

\* A write of the tree is the write of the map.
LEMMA StoreMaps ==
  ASSUME LsmInv, NEW k \in LsmKey, NEW v \in Entry, Store(k, v)
  PROVE  Map!Next
<1>0. /\ asked' = [key |-> k, value |-> v] /\ writes' = writes + 1
      /\ [asked' EXCEPT !.value = Found(v)] = [key |-> k, value |-> Found(v)]
  BY DEF Store
<1>1. \A x : Read(memtable', sstables', x)
                = IF x = k THEN Found(v) ELSE Read(memtable, sstables, x)
  BY StoreStep
<1>2. \A x : Get(x)' = IF x = k THEN Found(v) ELSE Get(x)
  BY <1>1, GetReads, NextGetReads
<1>3. Found(v) \in LsmValue \cup {NotFound}  BY DEF Found, Entry
<1> DEFINE old == [x \in LsmKey |-> Get(x)]
           new == [x \in LsmKey |-> Get(x)']
<1>4. new = [old EXCEPT ![k] = Found(v)]  BY <1>2
<1>5. [asked EXCEPT !.value = Found(@)]' = [key |-> k, value |-> Found(v)]
  BY <1>0
<1> QED  BY <1>0, <1>3, <1>4, <1>5 DEF Map!Next, Map!Write

\* What the map sees of the tree.
Answers == <<[k \in LsmKey |-> Get(k)], [asked EXCEPT !.value = Found(@)], writes>>

\* A compaction is a stutter.
LEMMA CompactMaps ==
  ASSUME LsmInv, Compact
  PROVE  UNCHANGED Answers
<1>1. \A x \in LsmKey : Read(memtable', sstables', x) = Read(memtable, sstables, x)
  BY CompactStep
<1>2. \A x \in LsmKey : Get(x)' = Get(x)  BY <1>1, GetReads, NextGetReads
<1>3. asked' = asked /\ writes' = writes  BY DEF Compact
<1> QED  BY <1>2, <1>3 DEF Answers

\* The answers are a function of the variables.
LEMMA IdleMaps ==
  ASSUME UNCHANGED lsmVars
  PROVE  UNCHANGED Answers
<1>1. memtable' = memtable /\ sstables' = sstables  BY DEF lsmVars
<1>2. \A x \in LsmKey : Get(x)' = Get(x)  BY <1>1, GetReads, NextGetReads
<1>3. asked' = asked /\ writes' = writes  BY DEF lsmVars
<1> QED  BY <1>2, <1>3 DEF Answers

\* Every step is one of the map.
LEMMA NextMaps == LsmInv /\ [LsmNext]_lsmVars => [Map!Next]_Answers
<1> SUFFICES ASSUME LsmInv, [LsmNext]_lsmVars
             PROVE  Map!Next \/ UNCHANGED Answers
  OBVIOUS
<1>1. ASSUME NEW k \in LsmKey, Delete(k) PROVE Map!Next
  BY <1>1, StoreMaps DEF Delete, Entry
<1>2. ASSUME NEW k \in LsmKey, NEW v \in Entry, Put(k, v) PROVE Map!Next
  BY <1>2, StoreMaps DEF Put
<1>3. CASE Compact  BY <1>3, CompactMaps
<1>4. CASE UNCHANGED lsmVars  BY <1>4, IdleMaps
<1> QED  BY <1>1, <1>2, <1>3, <1>4 DEF LsmNext, Entry

\* Whatever is put, deleted, flushed and compacted, a read finds the last
\* write of its key (lsm.go 31-111).
THEOREM ImplementsMap == LsmSpec => LsmIsAMap
<1>1. LsmSpec => []LsmInv
  BY LsmInit_Inv, LsmNext_Inv, PTL DEF LsmSpec
<1>2. LsmSpec => Map!Init  BY InitialMap DEF LsmSpec
<1>3. LsmSpec => [][Map!Next]_Answers
  BY <1>1, NextMaps, PTL DEF LsmSpec
<1>4. Map!vars = Answers  BY DEF Map!vars, Answers
<1> QED  BY <1>2, <1>3, <1>4, PTL DEF LsmIsAMap, Map!Spec, Map!vars, Answers
=============================================================================
