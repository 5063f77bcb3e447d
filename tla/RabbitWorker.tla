---------------------------- MODULE RabbitWorker ----------------------------
(***************************************************************************)
(* rabbitmq-worker: the pool of a consumer with manual acknowledgement and *)
(* prefetch.  RabbitMQ (external) hands a message to one consumer at a     *)
(* time, takes it back when the channel closes before its acknowledgement, *)
(* dead-letters it on a nack without requeue and counts that, and only     *)
(* that, in its x-death header.  Nothing consumes the dead letter queue.   *)
(*                                                                         *)
(* A definition named X_Y is X with the fault Y, to test the properties.   *)
(***************************************************************************)
EXTENDS Naturals, FiniteSets

CONSTANTS Task, Malformed,   \* the tasks whose body does not parse
          PoolWorker, NoTask,
          Prefetch, DeathLimit,   \* prefetch and maxRetries
          MaxClosings, MaxFailures  \* bounds; MaxFailures: of one task

ASSUME RabbitAssumption == /\ Malformed \subseteq Task /\ NoTask \notin Task
                           /\ Prefetch \in Nat \ {0} /\ DeathLimit \in Nat \ {0}
                           /\ MaxClosings \in Nat /\ MaxFailures \in Nat
                           /\ IsFiniteSet(PoolWorker)

VARIABLES
  ready,       \* tasks.queue
  unacked,     \* delivered and not acknowledged
  deliveries,  \* the channel the workers range over
  hands,       \* what each worker does: [at, task, closed]; closed once the
               \* channel of its delivery is
  deaths,      \* x-death counts
  settled,     \* acknowledged tasks
  dead,        \* tasks.dlq
  successes,   \* history: how often process succeeded, by task
  closings,
  failures     \* history: how often process failed, by task
rabbitVars == <<ready, unacked, deliveries, hands, deaths, settled, dead,
                successes, closings, failures>>

EmptyHands == [at |-> "idle", task |-> NoTask, closed |-> FALSE]

RabbitInit ==
  /\ ready = Task /\ unacked = {} /\ deliveries = {}
  /\ hands = [w \in PoolWorker |-> EmptyHands]
  /\ deaths = [t \in Task |-> 0]
  /\ settled = {} /\ dead = {}
  /\ successes = [t \in Task |-> 0]
  /\ closings = 0 /\ failures = [t \in Task |-> 0]

Deliver(t) ==
  /\ t \in ready /\ Cardinality(unacked) < Prefetch
  /\ ready' = ready \ {t} /\ unacked' = unacked \cup {t}
  /\ deliveries' = deliveries \cup {t}
  /\ UNCHANGED <<hands, deaths, settled, dead, successes, closings, failures>>

TakeDelivery(w, t) ==
  /\ hands[w].at = "idle" /\ t \in deliveries
  /\ deliveries' = deliveries \ {t}
  /\ hands' = [hands EXCEPT ![w] = [at |-> "handle", task |-> t, closed |-> FALSE]]
  /\ UNCHANGED <<ready, unacked, deaths, settled, dead, successes, closings, failures>>

\* process(task), for a body that parses.
ProcessTask(w) ==
  /\ hands[w].at = "handle" /\ hands[w].task \notin Malformed
  /\ \/ /\ hands' = [hands EXCEPT ![w].at = "ack"]
        /\ successes' = [successes EXCEPT ![hands[w].task] = @ + 1]
        /\ UNCHANGED failures
     \/ /\ failures[hands[w].task] < MaxFailures
        /\ failures' = [failures EXCEPT ![hands[w].task] = @ + 1]
        /\ hands' = [hands EXCEPT ![w].at = "fail"]
        /\ UNCHANGED successes
  /\ UNCHANGED <<ready, unacked, deliveries, deaths, settled, dead, closings>>

Ack_Multiple(w) ==
  /\ hands[w].at = "ack"
  /\ IF hands[w].closed THEN UNCHANGED <<unacked, settled>>
     ELSE unacked' = {} /\ settled' = settled \cup unacked
  /\ hands' = [hands EXCEPT ![w] = EmptyHands]
  /\ UNCHANGED <<ready, deliveries, deaths, dead, successes, closings, failures>>

\* An acknowledgement on a closed channel is an error, which is ignored.
Ack(w) ==
  /\ hands[w].at = "ack"
  /\ IF hands[w].closed THEN UNCHANGED <<unacked, settled>>
     ELSE unacked' = unacked \ {hands[w].task} /\ settled' = settled \cup {hands[w].task}
  /\ hands' = [hands EXCEPT ![w] = EmptyHands]
  /\ UNCHANGED <<ready, deliveries, deaths, dead, successes, closings, failures>>

Nack_NoRequeue(w) ==
  /\ hands[w].at = "fail" \/ (hands[w].at = "handle" /\ hands[w].task \in Malformed)
  /\ LET t == hands[w].task
     IN IF hands[w].closed THEN UNCHANGED <<unacked, deaths, dead>>
        ELSE /\ unacked' = unacked \ {t} /\ dead' = dead \cup {t}
             /\ deaths' = [deaths EXCEPT ![t] = @ + 1]
  /\ hands' = [hands EXCEPT ![w] = EmptyHands]
  /\ UNCHANGED <<ready, deliveries, settled, successes, closings, failures>>

Nack(w) ==
  /\ hands[w].at = "fail" \/ (hands[w].at = "handle" /\ hands[w].task \in Malformed)
  /\ LET t == hands[w].task
     IN IF hands[w].closed THEN UNCHANGED <<ready, unacked, deaths, dead>>
        ELSE /\ unacked' = unacked \ {t}
             /\ IF t \in Malformed \/ deaths[t] >= DeathLimit
                THEN /\ dead' = dead \cup {t}
                     /\ deaths' = [deaths EXCEPT ![t] = @ + 1]
                     /\ UNCHANGED ready
                ELSE ready' = ready \cup {t} /\ UNCHANGED <<dead, deaths>>
  /\ hands' = [hands EXCEPT ![w] = EmptyHands]
  /\ UNCHANGED <<deliveries, settled, successes, closings, failures>>

\* Shutdown closes the channel before it waits for the pool: undelivered
\* messages are dropped, the workers finish with a closed channel.  Another
\* consumer follows.  A lost connection does the same.
CloseChannel ==
  /\ closings < MaxClosings /\ closings' = closings + 1
  /\ ready' = ready \cup unacked /\ unacked' = {} /\ deliveries' = {}
  /\ hands' = [w \in PoolWorker |-> [hands[w] EXCEPT !.closed = @ \/ hands[w].at # "idle"]]
  /\ UNCHANGED <<deaths, settled, dead, successes, failures>>

RabbitRuns ==
  \/ \E t \in Task : Deliver(t) \/ \E w \in PoolWorker : TakeDelivery(w, t)
  \/ \E w \in PoolWorker : ProcessTask(w) \/ Ack(w) \/ Nack(w)

RabbitNext == RabbitRuns \/ CloseChannel
RabbitSpec == RabbitInit /\ [][RabbitNext]_rabbitVars

-----------------------------------------------------------------------------
\* A task leaves the queue only once it has been processed, or cannot be
\* parsed, and never because its retries are used up, which they never are (see
\* ExhaustedAreDeadLettered); it is processed again only because a channel was
\* closed, even when that was a shutdown that waits for the pool (pool.go 41-64;
\* consumer 48-49).
DoneOncePerChannel ==
  /\ \A t \in settled : successes[t] > 0
  /\ \A t \in Task : successes[t] <= 1 + closings
  /\ dead \subseteq Malformed

\* README.md 18: a task that has failed too often goes to the dead letter queue;
\* it does not wait for another try.  A closed channel may give it one.
ExhaustedAreDeadLettered ==
  \A t \in Task : failures[t] > DeathLimit + closings => t \notin ready

\* A task that parses is acknowledged in the end, if processing it fails and
\* channels close only so often, while the broker delivers and the workers run
\* (pool.go 26-72): a requeued task is not forgotten.
GoodTasksFinish == \A t \in Task \ Malformed : <>(t \in settled)
=============================================================================
