------------------------------ MODULE Balancer ------------------------------
(***************************************************************************)
(* from-scratch/05-load-balancer: round robin and least connections over   *)
(* backends whose health a checker stores meanwhile.  Round robin takes a  *)
(* step of a shared index for each backend it looks at; least connections  *)
(* looks at all of them under a mutex that the checker does not take.      *)
(*                                                                         *)
(* A definition named X_Y is X with the fault Y, to test the properties.   *)
(***************************************************************************)
EXTENDS Naturals, FiniteSets

CONSTANTS Caller, Backends,   \* requests; the number of backends
          NoBackend, MaxFlips  \* a bound

ASSUME BalancerAssumption == /\ Backends \in Nat \ {0} /\ NoBackend \notin 0 .. Backends
                             /\ MaxFlips \in Nat /\ IsFiniteSet(Caller)

Backend == 0 .. Backends - 1

VARIABLES
  balancing,   \* rr or lc
  alive,       \* external: what /health would answer
  healthy, activeConns, idx,
  call,     \* [at, i, best]: new, next, picked, proxied, refused or over;
               \* i backends looked at
  lcHolder,    \* LeastConn.mu
  steady,      \* history: backends healthy since the call's Next began
  disturbed,  \* history: requests whose Next another's step of idx fell into
  flips
balancerVars == <<balancing, alive, healthy, activeConns, idx, call, lcHolder, steady,
                  disturbed, flips>>

BalancerInit ==
  /\ balancing \in {"rr", "lc"}
  /\ alive = Backend /\ healthy = Backend
  /\ activeConns = [b \in Backend |-> 0] /\ idx = 0
  /\ call = [c \in Caller |-> [at |-> "new", i |-> 0, best |-> NoBackend]]
  /\ lcHolder = NoBackend
  /\ steady = [c \in Caller |-> {}] /\ disturbed = {} /\ flips = 0

Flip(b) ==
  /\ flips < MaxFlips /\ flips' = flips + 1
  /\ alive' = (alive \ {b}) \cup ({b} \ alive)
  /\ UNCHANGED <<balancing, healthy, activeConns, idx, call, lcHolder, steady, disturbed>>

\* One backend of a round of the checker.
CheckHealth(b) ==
  /\ (b \in alive) # (b \in healthy)
  /\ healthy' = (healthy \ {b}) \cup ({b} \cap alive)
  /\ steady' = [c \in Caller |-> steady[c] \cap healthy']
  /\ UNCHANGED <<balancing, alive, activeConns, idx, call, lcHolder, disturbed, flips>>

\* The balancer's Next, entered.
CallNext(c) ==
  /\ call[c].at = "new"
  /\ balancing = "lc" => lcHolder = NoBackend
  /\ lcHolder' = IF balancing = "lc" THEN c ELSE lcHolder
  /\ call' = [call EXCEPT ![c] = [at |-> "next", i |-> 0, best |-> NoBackend]]
  /\ steady' = [steady EXCEPT ![c] = healthy]
  /\ UNCHANGED <<balancing, alive, healthy, activeConns, idx, disturbed, flips>>

\* The end of Next, with a backend or nil, which is answered with a 503.
Chosen(c, b) == call' = [call EXCEPT ![c] =
                  [at |-> IF b = NoBackend THEN "refused" ELSE "picked", i |-> 0, best |-> b]]

RoundRobinNext_SkipsOne(c) ==
  /\ balancing = "rr" /\ call[c].at = "next"
  /\ idx' = (idx + 1) % Backends
  /\ IF idx' \in healthy THEN Chosen(c, idx')
     ELSE IF call[c].i + 1 >= Backends - 1 THEN Chosen(c, NoBackend)
     ELSE call' = [call EXCEPT ![c].i = @ + 1]
  /\ disturbed' = disturbed \cup {d \in Caller \ {c} : call[d].at = "next"}
  /\ UNCHANGED <<balancing, alive, healthy, activeConns, lcHolder, steady, flips>>

RoundRobinNext(c) ==
  /\ balancing = "rr" /\ call[c].at = "next"
  /\ idx' = (idx + 1) % Backends
  /\ IF idx' \in healthy THEN Chosen(c, idx')
     ELSE IF call[c].i + 1 = Backends THEN Chosen(c, NoBackend)
     ELSE call' = [call EXCEPT ![c].i = @ + 1]
  /\ disturbed' = disturbed \cup {d \in Caller \ {c} : call[d].at = "next"}
  /\ UNCHANGED <<balancing, alive, healthy, activeConns, lcHolder, steady, flips>>

\* One backend of the loop, with lc.mu held; the last one ends it.
LeastConnNext(c) ==
  /\ balancing = "lc" /\ call[c].at = "next"
  /\ LET b == call[c].i
         best == call[c].best
         better == b \in healthy /\ (best = NoBackend \/ activeConns[b] < activeConns[best])
         now == IF better THEN b ELSE best
     IN IF b + 1 = Backends THEN Chosen(c, now) /\ lcHolder' = NoBackend
        ELSE /\ call' = [call EXCEPT ![c] = [at |-> "next", i |-> b + 1, best |-> now]]
             /\ UNCHANGED lcHolder
  /\ UNCHANGED <<balancing, alive, healthy, activeConns, idx, steady, disturbed, flips>>

\* ActiveConns.Add(1) after Next has returned, and the deferred Add(-1).
Proxy(c) ==
  /\ call[c].at = "picked"
  /\ call' = [call EXCEPT ![c].at = "proxied"]
  /\ activeConns' = [activeConns EXCEPT ![call[c].best] = @ + 1]
  /\ UNCHANGED <<balancing, alive, healthy, idx, lcHolder, steady, disturbed, flips>>

EndRequest(c) ==
  /\ call[c].at = "proxied"
  /\ call' = [call EXCEPT ![c].at = "over"]
  /\ activeConns' = [activeConns EXCEPT ![call[c].best] = @ - 1]
  /\ UNCHANGED <<balancing, alive, healthy, idx, lcHolder, steady, disturbed, flips>>

BalancerNext ==
  \/ \E b \in Backend : Flip(b) \/ CheckHealth(b)
  \/ \E c \in Caller : \/ CallNext(c) \/ RoundRobinNext(c) \/ LeastConnNext(c)
                       \/ Proxy(c) \/ EndRequest(c)
BalancerSpec == BalancerInit /\ [][BalancerNext]_balancerVars

-----------------------------------------------------------------------------
\* "no healthy backends" is answered although a backend was healthy all along
\* only by round robin, and only when the calls of others moved the index past
\* that backend; and the connections that least connections compares are those
\* of the requests being proxied (balancer.go 46-79, proxy.go 13-35).
NoFalse503 ==
  /\ \A c \in Caller :
       call[c].at = "refused" => steady[c] = {} \/ (balancing = "rr" /\ c \in disturbed)
  /\ \A b \in Backend :
       activeConns[b] = Cardinality({c \in Caller : call[c].at = "proxied" /\ call[c].best = b})
=============================================================================
