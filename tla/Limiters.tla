------------------------------ MODULE Limiters ------------------------------
(***************************************************************************)
(* from-scratch/04-rate-limiter: the server runs one of four limiters,     *)
(* asked by any number of goroutines (each call of Allow runs under the    *)
(* limiter's mutex, or is one send on its channel).  The TokenBucket of    *)
(* service-mesh-sidecar is the same, with a bucket for each client.        *)
(*                                                                         *)
(* Time advances in ticks; a token is RefillTicks ticks of refill, so that *)
(* fractions of a token are whole numbers.  Limit is burst, capacity or    *)
(* limit.  The leaky bucket's ticker holds one tick back for a goroutine   *)
(* that is late and drops the others.                                      *)
(*                                                                         *)
(* A definition named X_Y is X with the fault Y, to test the properties.   *)
(***************************************************************************)
EXTENDS Integers, Sequences, FiniteSets

CONSTANTS Limit,
          Window,        \* ticks of a fixed or sliding window
          RefillTicks,   \* ticks it takes to refill one token
          DrainTicks,    \* ticks between two ticks of the leaky bucket
          MaxTime        \* bound

ASSUME LimitersAssumption == /\ Limit \in Nat \ {0} /\ Window \in Nat \ {0}
                             /\ RefillTicks \in Nat \ {0} /\ DrainTicks \in Nat \ {0}
                             /\ MaxTime \in Nat

VARIABLES
  algo,       \* ALGO: token, leaky, fixed or sliding
  now,
  bucket,     \* TokenBucket: [tokens, lastRefill], in ticks of refill
  leaky,      \* LeakyBucket: [queue, due]: entries, a tick to be served
  counts,     \* FixedWindow.counts
  logs,       \* SlidingWindow.logs
  admitted    \* history: when requests were let through
limiterVars == <<algo, now, bucket, leaky, counts, logs, admitted>>

Full == Limit * RefillTicks
Least(a, b) == IF a < b THEN a ELSE b

LimitersInit ==
  /\ algo \in {"token", "leaky", "fixed", "sliding"}
  /\ now = 0
  /\ bucket = [tokens |-> Full, lastRefill |-> 0]
  /\ leaky = [queue |-> 0, due |-> FALSE]
  /\ counts = [w \in 0..(MaxTime \div Window) |-> 0]
  /\ logs = <<>>
  /\ admitted = <<>>

Admit == admitted' = Append(admitted, now)

Refilled == Least(Full, bucket.tokens + (now - bucket.lastRefill))

TokenAllow_StaleRefill ==
  /\ algo = "token" /\ Refilled >= RefillTicks
  /\ bucket' = [bucket EXCEPT !.tokens = Refilled - RefillTicks]
  /\ Admit
  /\ UNCHANGED <<algo, now, leaky, counts, logs>>

TokenAllow ==
  /\ algo = "token"
  /\ IF Refilled >= RefillTicks
     THEN bucket' = [tokens |-> Refilled - RefillTicks, lastRefill |-> now] /\ Admit
     ELSE bucket' = [tokens |-> Refilled, lastRefill |-> now] /\ UNCHANGED admitted
  /\ UNCHANGED <<algo, now, leaky, counts, logs>>

LeakyAllow ==
  /\ algo = "leaky" /\ leaky.queue < Limit
  /\ leaky' = [leaky EXCEPT !.queue = @ + 1]
  /\ Admit
  /\ UNCHANGED <<algo, now, bucket, counts, logs>>

LeakyDrain ==
  /\ algo = "leaky" /\ leaky.due
  /\ leaky' = [queue |-> IF leaky.queue > 0 THEN leaky.queue - 1 ELSE 0, due |-> FALSE]
  /\ UNCHANGED <<algo, now, bucket, counts, logs, admitted>>

FixedAllow ==
  /\ algo = "fixed" /\ counts[now \div Window] < Limit
  /\ counts' = [counts EXCEPT ![now \div Window] = @ + 1]
  /\ Admit
  /\ UNCHANGED <<algo, now, bucket, leaky, logs>>

\* What is newer than a window stays, in the same order.
SlidingAllow ==
  /\ algo = "sliding"
  /\ LET late == {p \in DOMAIN logs : logs[p] > now - Window}
     IN \E f \in [1..Cardinality(late) -> late] :
          /\ \A p, q \in DOMAIN f : p < q => f[p] < f[q]
          /\ LET kept == [p \in DOMAIN f |-> logs[f[p]]]
             IN IF Len(kept) >= Limit
                THEN logs' = kept /\ UNCHANGED admitted
                ELSE logs' = Append(kept, now) /\ Admit
  /\ UNCHANGED <<algo, now, bucket, leaky, counts>>

Tick ==
  /\ now < MaxTime
  /\ now' = now + 1
  /\ leaky' = [leaky EXCEPT !.due = @ \/ (algo = "leaky" /\ now' % DrainTicks = 0)]
  /\ UNCHANGED <<algo, bucket, counts, logs, admitted>>

LimitersNext ==
  \/ TokenAllow
  \/ LeakyAllow
  \/ LeakyDrain
  \/ FixedAllow
  \/ SlidingAllow
  \/ Tick

LimitersSpec == LimitersInit /\ [][LimitersNext]_limiterVars

-----------------------------------------------------------------------------
\* What each limiter lets through in a period of d ticks, ends included.
Allowance(d) ==
  CASE algo = "token"   -> Limit + d \div RefillTicks
    [] algo = "leaky"   -> Limit + d \div DrainTicks + 2
    [] algo = "fixed"   -> Limit * (d \div Window + 2)
    [] algo = "sliding" -> Limit * (d \div Window + 1)

\* No sequence of requests, however timed, gets more through a limiter in any
\* period than its algorithm allows: a fixed window lets twice its limit
\* through around a boundary, a sliding one never (limiter.go 29-131).
RateKept ==
  \A i, j \in DOMAIN admitted :
    i <= j => j - i + 1 <= Allowance(admitted[j] - admitted[i])

\* README.md 23, "Exact rate", no burst, and docs/deep-dive.md 40 and 84: the leaky
\* bucket lets requests through at the rate at which it drains.  Allow answers
\* when the request is in the queue, not when it is drained.
LeakyRateIsExact ==
  algo = "leaky" =>
    \A i, j \in DOMAIN admitted :
      j - i <= (admitted[j] - admitted[i]) \div DrainTicks \/ j < i
=============================================================================
