------------------------------ MODULE Pipeline ------------------------------
(***************************************************************************)
(* projects/event-driven-pipeline: the consumer acknowledges a message as  *)
(* soon as it is in the processor's buffer; workers take events from the   *)
(* buffer, ask Redis whether the key is known, call the handler through    *)
(* the circuit breaker, retry, and give up into the dead letter queue.     *)
(*                                                                         *)
(* The breaker's fields are separate atomics: each access is a step.  The  *)
(* event and its idempotency key are one.  Stop is a crash, or, with the   *)
(* workers idle, the shutdown of main; another process follows.  JetStream *)
(* (external) keeps a message until it is acknowledged.                    *)
(*                                                                         *)
(* A definition named X_Y is X with the fault Y, to test the properties.   *)
(***************************************************************************)
EXTENDS Integers, FiniteSets, Sequences

CONSTANTS Event, Worker,
          BufferSize,      \* 100 in main
          Retries,         \* maxRetries
          Threshold,       \* failures that open the breaker
          Nobody,          \* no event
          MaxMishaps       \* bound: stops, lost acks, failures of the DLQ

ASSUME PipelineAssumption == /\ BufferSize \in Nat /\ Retries \in Nat
                             /\ Threshold \in Nat \ {0} /\ MaxMishaps \in Nat
                             /\ IsFiniteSet(Event) /\ IsFiniteSet(Worker)
                             /\ Nobody \notin Event

VARIABLES
  stream,     \* messages JetStream will deliver (again)
  acked,      \* events whose message has been acknowledged
  buffer,     \* Processor.buffer
  worker,     \* what each worker does
  processed,  \* keys in Redis
  handled,    \* events the handler has succeeded with
  repeated,   \* ... and those it has succeeded with again (ghost)
  dlq,        \* events in the dead letter queue
  breaker,    \* state, failures, and whether retryAfter has passed since
              \* lastFailure (it has at the start: lastFailure is 0)
  stops, refused, lost, \* how often the process has stopped, the DLQ failed
              \* and an ack got lost
  abandoned   \* events that a stop or a failure of the DLQ found in hand (ghost)
pipelineVars == <<stream, acked, buffer, worker, processed, handled, repeated, dlq,
                  breaker, stops, refused, lost, abandoned>>
arrived == <<stream, acked, buffer>>
outcome == <<processed, handled, repeated, dlq>>
mishaps == <<stops, refused, lost, abandoned>>

Free == [at |-> "free", event |-> Nobody, attempt |-> 0]
NewCircuitBreaker == [state |-> "closed", failures |-> 0, cooled |-> TRUE]

PipelineInit ==
  /\ stream = Event /\ acked = {} /\ buffer = <<>>
  /\ worker = [w \in Worker |-> Free]
  /\ processed = {} /\ handled = {} /\ repeated = {} /\ dlq = {}
  /\ breaker = NewCircuitBreaker
  /\ stops = 0 /\ refused = 0 /\ lost = 0 /\ abandoned = {}

Mishap == stops + refused + lost < MaxMishaps

Submit_Drops(e) == buffer' = IF Len(buffer) < BufferSize THEN Append(buffer, e) ELSE buffer

Submit(e) == Len(buffer) < BufferSize /\ buffer' = Append(buffer, e)

\* Consumer.Start for one message: submitted and acknowledged; when the
\* buffer is full it is nacked and nothing changes.  The ack may get lost.
Fetch(e) ==
  /\ e \in stream
  /\ Submit(e)
  /\ \/ stream' = stream \ {e} /\ acked' = acked \cup {e} /\ UNCHANGED lost
     \/ Mishap /\ lost' = lost + 1 /\ UNCHANGED <<stream, acked>>
  /\ UNCHANGED <<worker, outcome, breaker, stops, refused, abandoned>>

Step(w, there) == worker' = [worker EXCEPT ![w].at = there]
Release(w) == worker' = [worker EXCEPT ![w] = Free]

Take(w) ==
  /\ worker[w].at = "free" /\ buffer # <<>>
  /\ worker' = [worker EXCEPT ![w] = [at |-> "check", event |-> Head(buffer), attempt |-> 0]]
  /\ buffer' = Tail(buffer)
  /\ UNCHANGED <<stream, acked, outcome, breaker, mishaps>>

\* IsProcessed; when Redis fails the event counts as not processed.
Check(w) ==
  /\ worker[w].at = "check"
  /\ \/ worker[w].event \in processed /\ Release(w)
     \/ Step(w, "enter")
  /\ UNCHANGED <<arrived, outcome, breaker, mishaps>>

\* Execute before the call, one atomic at a time: an open breaker refuses
\* until retryAfter has passed, then everyone is let in.
LoadCircuit(w) ==
  /\ worker[w].at = "enter"
  /\ Step(w, IF breaker.state = "open" THEN "look" ELSE "call")
  /\ UNCHANGED <<arrived, outcome, breaker, mishaps>>

LoadLastFailure(w) ==
  /\ worker[w].at = "look"
  /\ Step(w, IF breaker.cooled THEN "swap" ELSE "dlq")
  /\ UNCHANGED <<arrived, outcome, breaker, mishaps>>

SwapToHalfOpen(w) ==
  /\ worker[w].at = "swap"
  /\ breaker' = [breaker EXCEPT !.state = IF @ = "open" THEN "half" ELSE @]
  /\ Step(w, "call")
  /\ UNCHANGED <<arrived, outcome, mishaps>>

Handle(w) ==
  /\ worker[w].at = "call"
  /\ \/ /\ handled' = handled \cup {worker[w].event}
        /\ repeated' = repeated \cup ({worker[w].event} \cap handled)
        /\ Step(w, "reset")
        /\ UNCHANGED breaker
     \/ /\ breaker' = [breaker EXCEPT !.failures = IF @ < Threshold THEN @ + 1 ELSE @]
        /\ Step(w, "stamp")
        /\ UNCHANGED <<handled, repeated>>
  /\ UNCHANGED <<arrived, processed, dlq, mishaps>>

StoreLastFailure(w) ==
  /\ worker[w].at = "stamp"
  /\ breaker' = [breaker EXCEPT !.cooled = FALSE]
  /\ Step(w, "judge")
  /\ UNCHANGED <<arrived, outcome, mishaps>>

LoadFailures_FromClosed(w) ==
  /\ worker[w].at = "judge"
  /\ Step(w, IF breaker.failures >= Threshold /\ breaker.state = "closed" THEN "open" ELSE "again")
  /\ UNCHANGED <<arrived, outcome, breaker, mishaps>>

LoadFailures(w) ==
  /\ worker[w].at = "judge"
  /\ Step(w, IF breaker.failures >= Threshold THEN "open" ELSE "again")
  /\ UNCHANGED <<arrived, outcome, breaker, mishaps>>

StoreOpen(w) ==
  /\ worker[w].at = "open"
  /\ breaker' = [breaker EXCEPT !.state = "open"]
  /\ Step(w, "again")
  /\ UNCHANGED <<arrived, outcome, mishaps>>

\* After an error that is not ErrCircuitOpen: next attempt, or the DLQ.
Again(w) ==
  /\ worker[w].at = "again"
  /\ IF worker[w].attempt < Retries
     THEN worker' = [worker EXCEPT ![w].at = "enter", ![w].attempt = @ + 1]
     ELSE Step(w, "dlq")
  /\ UNCHANGED <<arrived, outcome, breaker, mishaps>>

StoreNoFailures(w) ==
  /\ worker[w].at = "reset"
  /\ breaker' = [breaker EXCEPT !.failures = 0]
  /\ Step(w, "close")
  /\ UNCHANGED <<arrived, outcome, mishaps>>

StoreClosed(w) ==
  /\ worker[w].at = "close"
  /\ breaker' = [breaker EXCEPT !.state = "closed"]
  /\ Step(w, "mark")
  /\ UNCHANGED <<arrived, outcome, mishaps>>

\* MarkProcessed; its error is ignored.
MarkProcessed(w) ==
  /\ worker[w].at = "mark"
  /\ processed' \in {processed, processed \cup {worker[w].event}}
  /\ Release(w)
  /\ UNCHANGED <<arrived, handled, repeated, dlq, breaker, mishaps>>

\* The DLQ publisher; its error is only logged.
PublishDLQ(w) ==
  /\ worker[w].at = "dlq"
  /\ \/ /\ dlq' = dlq \cup {worker[w].event}
        /\ UNCHANGED <<refused, abandoned>>
     \/ /\ Mishap /\ refused' = refused + 1
        /\ abandoned' = abandoned \cup {worker[w].event}
        /\ UNCHANGED dlq
  /\ Release(w)
  /\ UNCHANGED <<arrived, processed, handled, repeated, breaker, stops, lost>>

\* retryAfter passes.
Cool ==
  /\ breaker' = [breaker EXCEPT !.cooled = TRUE]
  /\ UNCHANGED <<arrived, worker, outcome, mishaps>>

InHand == {buffer[i] : i \in DOMAIN buffer}
          \cup {worker[w].event : w \in {v \in Worker : worker[v].at # "free"}}

Stop ==
  /\ Mishap
  /\ buffer' = <<>> /\ worker' = [w \in Worker |-> Free]
  /\ breaker' = NewCircuitBreaker
  /\ stops' = stops + 1 /\ abandoned' = abandoned \cup InHand
  /\ UNCHANGED <<stream, acked, outcome, refused, lost>>

WorkerRuns(w) ==
  \/ Take(w) \/ Check(w) \/ LoadCircuit(w) \/ LoadLastFailure(w) \/ SwapToHalfOpen(w) \/ Handle(w)
  \/ StoreLastFailure(w) \/ LoadFailures(w) \/ StoreOpen(w) \/ Again(w)
  \/ StoreNoFailures(w) \/ StoreClosed(w) \/ MarkProcessed(w) \/ PublishDLQ(w)

PipelineNext ==
  \/ \E e \in Event : Fetch(e)
  \/ \E w \in Worker : WorkerRuns(w)
  \/ Cool
  \/ Stop
PipelineSpec == PipelineInit /\ [][PipelineNext]_pipelineVars

-----------------------------------------------------------------------------
\* Acknowledged events that are nowhere: not in hand, not handled, not in the
\* dead letter queue.
Vanished == acked \ (InHand \cup handled \cup processed \cup dlq)

\* The handler is given up on or succeeds with every acknowledged event, but
\* for those that were in the buffer or with a worker when the process stopped
\* and those that the dead letter queue refused: at most a buffer and one per
\* worker for each stop, and one for each refusal (consumer.go 54-59 acks before
\* the event is processed; pipeline.go 156-203).
BoundedLoss ==
  /\ Vanished \subseteq abandoned
  /\ Cardinality(Vanished) <= stops * (BufferSize + Cardinality(Worker)) + refused

\* With the failures at the threshold the breaker is not left half open: some
\* worker is still on trial, and its failure opens the breaker again or its
\* success clears the failures, whatever the others do to the three atomics
\* in between (pipeline.go 71-94).
OnTrial == {w \in Worker : worker[w].at \in {"call", "stamp", "judge", "open", "reset"}}
HalfOpenIsOnTrial ==
  breaker.state = "half" /\ breaker.failures >= Threshold => OnTrial # {}

\* What README.md 44-47 and docs/deep-dive.md 42 promise: an event is handled, or
\* given to the dead letter queue, before its message is acknowledged, so that
\* a crash loses none.
NoAckedEventIsLost == Vanished = {}

\* README.md 54: the idempotency key prevents that an event is processed twice,
\* even if NATS redelivers it.
ProcessedOnce == repeated = {}

\* docs/deep-dive.md 54: a failure takes the half-open breaker back to open, so
\* it is half open only while a worker is on trial or has just succeeded.
FailedTrialReopens ==
  breaker.state = "half" =>
    OnTrial # {} \/ \E w \in Worker : worker[w].at = "close"
=============================================================================
