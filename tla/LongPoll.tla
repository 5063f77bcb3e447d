------------------------------ MODULE LongPoll ------------------------------
(***************************************************************************)
(* realtime-communication: the broker of the long-poll endpoint.  A        *)
(* handler registers a channel of capacity one and waits for a message or  *)
(* for its context, which ends after 30 seconds or when the client leaves. *)
(* publish gives the message to every registered channel and forgets them. *)
(*                                                                         *)
(* A definition named X_Y is X with the fault Y, to test the properties.   *)
(***************************************************************************)
EXTENDS Naturals, SequencesExt

CONSTANTS Poller, MaxPublished   \* clients, each of which polls again; a bound

ASSUME LongPollAssumption == MaxPublished \in Nat

VARIABLES
  waiters,   \* pollBroker.waiters, the pollers whose channels they are
  box,       \* what each poller's channel holds: how many messages
  poller,    \* away, select, remove (after select chose the context)
  expired,   \* the pollers whose context is done
  late,      \* history: the polls in progress that were given a message only
             \* after their context was done
  dropped,      \* history: polls that ended without the message they were given
  sentCount
pollVars == <<waiters, box, poller, expired, late, dropped, sentCount>>

LongPollInit ==
  /\ waiters = <<>> /\ box = [c \in Poller |-> 0] /\ poller = [c \in Poller |-> "away"]
  /\ expired = {} /\ late = {} /\ dropped = {} /\ sentCount = 0

Registered == {waiters[i] : i \in DOMAIN waiters}

Wait(c) ==
  /\ poller[c] = "away"
  /\ poller' = [poller EXCEPT ![c] = "select"]
  /\ box' = [box EXCEPT ![c] = 0]
  /\ waiters' = Append(waiters, c)
  /\ expired' = expired \ {c} /\ late' = late \ {c} /\ dropped' = dropped \ {c}
  /\ UNCHANGED sentCount

\* Time, or the client.
Elapse(c) ==
  /\ poller[c] = "select" /\ c \notin expired
  /\ expired' = expired \cup {c}
  /\ UNCHANGED <<waiters, box, poller, late, dropped, sentCount>>

PublishMessage ==
  /\ sentCount < MaxPublished /\ sentCount' = sentCount + 1
  /\ box' = [c \in Poller |-> IF c \in Registered /\ box[c] = 0 THEN 1 ELSE box[c]]
  /\ waiters' = <<>>
  /\ late' = late \cup (Registered \cap expired)
  /\ UNCHANGED <<poller, expired, dropped>>

\* select, with a message in the channel.
Answered(c) ==
  /\ poller[c] = "select" /\ box[c] = 1
  /\ box' = [box EXCEPT ![c] = 0]
  /\ poller' = [poller EXCEPT ![c] = "away"]
  /\ UNCHANGED <<waiters, expired, late, dropped, sentCount>>

\* select, with the context done, even if there is a message as well.
GivesUp(c) ==
  /\ poller[c] = "select" /\ c \in expired
  /\ poller' = [poller EXCEPT ![c] = "remove"]
  /\ UNCHANGED <<waiters, box, expired, late, dropped, sentCount>>

RemoveWaiter_Newest(c) ==
  /\ poller[c] = "remove"
  /\ waiters' = IF c \in Registered THEN SubSeq(waiters, 1, Len(waiters) - 1) ELSE waiters
  /\ dropped' = dropped \cup {x \in {c} : box[x] = 1}
  /\ poller' = [poller EXCEPT ![c] = "away"]
  /\ UNCHANGED <<box, expired, late, sentCount>>

\* The channel, which publish may have filled since, is dropped.
RemoveWaiter(c) ==
  /\ poller[c] = "remove"
  /\ \/ c \notin Registered /\ UNCHANGED waiters
     \/ \E i \in DOMAIN waiters : /\ waiters[i] = c /\ \A j \in 1 .. i - 1 : waiters[j] # c
                                 /\ waiters' = RemoveAt(waiters, i)
  /\ dropped' = dropped \cup {x \in {c} : box[x] = 1}
  /\ poller' = [poller EXCEPT ![c] = "away"]
  /\ UNCHANGED <<box, expired, late, sentCount>>

LongPollNext ==
  \/ \E c \in Poller : Wait(c) \/ Elapse(c) \/ Answered(c) \/ GivesUp(c) \/ RemoveWaiter(c)
  \/ PublishMessage
LongPollSpec == LongPollInit /\ [][LongPollNext]_pollVars

-----------------------------------------------------------------------------
\* A poll that may still block can be woken: its channel is registered, once,
\* or holds a message; no channel stays registered when its poll is over; and
\* a message given to a poll is lost only when the poll's time had passed
\* (ws_sse.go 336-403).
PollsCanWake ==
  /\ \A c \in Poller : poller[c] = "select" => (c \in Registered <=> box[c] = 0)
  /\ \A i, j \in DOMAIN waiters : waiters[i] = waiters[j] => i = j
  /\ \A c \in Registered : poller[c] # "away" /\ box[c] = 0
  /\ dropped \cup late \subseteq expired
=============================================================================
