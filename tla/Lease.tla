------------------------------- MODULE Lease -------------------------------
(***************************************************************************)
(* distributed-scheduler: the Redis lease that admits one instance.  An    *)
(* instance starts only if it sets the key when absent; then a goroutine   *)
(* sets it again every RefreshInterval, whoever holds it.  A stop on       *)
(* SIGTERM ends that goroutine and deletes the key if it is its own.  An   *)
(* instance that fails, when starting or later, just ends.                 *)
(*                                                                         *)
(* Time is in ticks.  An instance may be held up for any time (a pause of  *)
(* the process or of the network), and a refresh may fail.  Redis         *)
(* (external) drops the key when its TTL is over.                          *)
(*                                                                         *)
(* A definition named X_Y is X with the fault Y, to test the properties.   *)
(***************************************************************************)
EXTENDS Naturals

CONSTANTS Instance, NoHolder,
          LeaseTTL, RefreshInterval,   \* 2 and 1 minutes
          MaxTicks                     \* bound

ASSUME LeaseAssumption == /\ NoHolder \notin Instance
                          /\ LeaseTTL \in Nat /\ MaxTicks \in Nat
                          /\ RefreshInterval \in 1..LeaseTTL - 1

VARIABLES
  lease,      \* the key: [holder, left], left being ticks to live
  instance,   \* at: off, working or stopping; due: ticks to the next refresh;
              \* silent: ticks since Redis last heard of it
  overslept,  \* history: instances that were silent for the whole TTL
  ticks
leaseVars == <<lease, instance, overslept, ticks>>

Off == [at |-> "off", due |-> 0, silent |-> 0]
NoLease == [holder |-> NoHolder, left |-> 0]

LeaseInit ==
  /\ lease = NoLease /\ instance = [i \in Instance |-> Off]
  /\ overslept = {} /\ ticks = 0

Fresh == [at |-> "working", due |-> RefreshInterval, silent |-> 0]
Held(i) == [holder |-> i, left |-> LeaseTTL]
Working(i) == instance[i].at = "working"
Running(i) == instance[i].at # "off"

Acquire_Overwrites(i) ==
  /\ instance[i].at = "off"
  /\ lease' = Held(i)
  /\ instance' = [instance EXCEPT ![i] = Fresh]
  /\ UNCHANGED <<overslept, ticks>>

\* Run: SET NX; an instance that finds the key ends.
Acquire(i) ==
  /\ instance[i].at = "off" /\ lease.holder = NoHolder
  /\ lease' = Held(i)
  /\ instance' = [instance EXCEPT ![i] = Fresh]
  /\ UNCHANGED <<overslept, ticks>>

RefreshLease(i) ==
  /\ Working(i) /\ instance[i].due = 0
  /\ lease' = Held(i)
  /\ instance' = [instance EXCEPT ![i] = Fresh]
  /\ UNCHANGED <<overslept, ticks>>

\* The error is logged.
RefreshLeaseFails(i) ==
  /\ Working(i) /\ instance[i].due = 0
  /\ instance' = [instance EXCEPT ![i].due = RefreshInterval]
  /\ UNCHANGED <<lease, overslept, ticks>>

\* SIGTERM: the context of the goroutines is cancelled and requests drain.
Cancel(i) ==
  /\ Working(i)
  /\ instance' = [instance EXCEPT ![i].at = "stopping"]
  /\ UNCHANGED <<lease, overslept, ticks>>

ReleaseLease(i) ==
  /\ instance[i].at = "stopping"
  /\ lease' = IF lease.holder = i THEN NoLease ELSE lease
  /\ instance' = [instance EXCEPT ![i] = Off]
  /\ UNCHANGED <<overslept, ticks>>

\* A failure of the start, a crash, or a Release that does not reach Redis.
Die(i) ==
  /\ instance[i].at # "off"
  /\ instance' = [instance EXCEPT ![i] = Off]
  /\ UNCHANGED <<lease, overslept, ticks>>

Less(n) == IF n = 0 THEN 0 ELSE n - 1
More(n) == IF n < LeaseTTL THEN n + 1 ELSE n
Later(r) == [at |-> r.at, due |-> Less(r.due), silent |-> More(r.silent)]

\* An instance whose refresh is due may be late.
TickLease ==
  /\ ticks < MaxTicks /\ ticks' = ticks + 1
  /\ lease' = IF lease.left <= 1 THEN NoLease ELSE [lease EXCEPT !.left = @ - 1]
  /\ instance' = [i \in Instance |-> IF Running(i) THEN Later(instance[i]) ELSE Off]
  /\ overslept' = overslept \cup {i \in Instance : instance'[i].silent = LeaseTTL}

LeaseNext ==
  \/ \E i \in Instance : \/ Acquire(i) \/ RefreshLease(i) \/ RefreshLeaseFails(i)
                         \/ Cancel(i) \/ ReleaseLease(i) \/ Die(i)
  \/ TickLease
LeaseSpec == LeaseInit /\ [][LeaseNext]_leaseVars

-----------------------------------------------------------------------------
\* Two instances run at once only after some instance was alive for a whole
\* TTL without reaching Redis: the key goes only by its holder's release, by
\* expiry, or by an instance that lost it.  One lapse is enough for every later
\* pair: the one that wakes takes the key back, and its release admits a third
\* (lease.go 36-73, manager.go 80-150).
ExclusiveUnlessOverslept ==
  overslept = {} => \A i, j \in Instance : Running(i) /\ Running(j) => i = j
=============================================================================
