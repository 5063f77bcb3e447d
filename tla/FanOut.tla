------------------------------- MODULE FanOut -------------------------------
(***************************************************************************)
(* Two in-memory brokers: from-scratch/06-message-queue, whose publishers  *)
(* are many and whose Unsubscribe closes the channel under the lock, and   *)
(* platform-console's Watcher, which has one goroutine that broadcasts and *)
(* an Unsubscribe that closes the channel after the lock.  Both send to    *)
(* every subscriber under the read lock and drop what does not fit.        *)
(*                                                                         *)
(* A definition named X_Y is X with the fault Y, to test the properties.   *)
(***************************************************************************)
EXTENDS Naturals, SequencesExt

CONSTANTS Subscriber, Publisher,
          ChannelSize,   \* 64, and 16
          MaxMessages    \* bound

ASSUME FanOutAssumption == ChannelSize \in Nat \ {0} /\ MaxMessages \in Nat

VARIABLES
  broker,      \* "queue" or "watcher"
  subs,        \* the subscribers, in order (the watcher's map has none)
  channel,     \* the channel of each: [is, buffer]; is: none, open or closed
  publishing,  \* publishing[p]: subscribers p has yet to send to; the read
               \* lock is held while it publishes: [locked, message, rest]
  published
fanOutVars == <<broker, subs, channel, publishing, published>>

Unlocked == [locked |-> FALSE, message |-> 0, rest |-> <<>>]

FanOutInit ==
  /\ broker \in {"queue", "watcher"}
  /\ subs = <<>>
  /\ channel = [s \in Subscriber |-> [is |-> "none", buffer |-> <<>>]]
  /\ publishing = [p \in Publisher |-> Unlocked]
  /\ published = 0

NoReader == \A p \in Publisher : ~publishing[p].locked

Subscribe(s) ==
  /\ channel[s].is = "none" /\ NoReader
  /\ subs' = Append(subs, s)
  /\ channel' = [channel EXCEPT ![s].is = "open"]
  /\ UNCHANGED <<broker, publishing, published>>

Unsubscribe_ClosesFirst(s) ==
  /\ channel[s].is = "open" /\ s \in ToSet(subs)
  /\ IF broker = "queue" THEN NoReader /\ subs' = RemoveFirst(subs, s) ELSE UNCHANGED subs
  /\ channel' = [channel EXCEPT ![s].is = "closed"]
  /\ UNCHANGED <<broker, publishing, published>>

\* Out of the list, where it is found first, under the lock; the queue closes
\* the channel there too.
Unsubscribe(s) ==
  /\ NoReader
  /\ \E i \in DOMAIN subs : /\ subs[i] = s /\ \A j \in 1 .. i - 1 : subs[j] # s
                           /\ subs' = RemoveAt(subs, i)
  /\ channel' = IF broker = "queue" THEN [channel EXCEPT ![s].is = "closed"] ELSE channel
  /\ UNCHANGED <<broker, publishing, published>>

CloseAfter(s) ==
  /\ broker = "watcher" /\ channel[s].is = "open" /\ s \notin ToSet(subs)
  /\ channel' = [channel EXCEPT ![s].is = "closed"]
  /\ UNCHANGED <<broker, subs, publishing, published>>

Publish(p) ==
  /\ ~publishing[p].locked /\ published < MaxMessages
  /\ broker = "watcher" => NoReader
  /\ published' = published + 1
  /\ publishing' = [publishing EXCEPT ![p] =
       [locked |-> TRUE, message |-> published + 1, rest |-> subs]]
  /\ UNCHANGED <<broker, subs, channel>>

\* The send that does not wait.
SendTo(p, i) ==
  /\ i \in DOMAIN publishing[p].rest
  /\ broker = "queue" => i = 1
  /\ LET s == publishing[p].rest[i]
     IN channel' = IF Len(channel[s].buffer) < ChannelSize
                   THEN [channel EXCEPT ![s].buffer = Append(@, publishing[p].message)]
                   ELSE channel
  /\ publishing' = [publishing EXCEPT ![p].rest = RemoveAt(@, i)]
  /\ UNCHANGED <<broker, subs, published>>

Unlock(p) ==
  /\ publishing[p].locked /\ publishing[p].rest = <<>>
  /\ publishing' = [publishing EXCEPT ![p] = Unlocked]
  /\ UNCHANGED <<broker, subs, channel, published>>

\* A closed channel gives what is in its buffer first.
ReceiveFrom(s) ==
  /\ channel[s].buffer # <<>>
  /\ channel' = [channel EXCEPT ![s].buffer = Tail(@)]
  /\ UNCHANGED <<broker, subs, publishing, published>>

FanOutNext ==
  \/ \E s \in Subscriber : Subscribe(s) \/ Unsubscribe(s) \/ CloseAfter(s) \/ ReceiveFrom(s)
  \/ \E p \in Publisher : \/ Publish(p) \/ Unlock(p)
                          \/ \E i \in DOMAIN publishing[p].rest : SendTo(p, i)
FanOutSpec == FanOutInit /\ [][FanOutNext]_fanOutVars

-----------------------------------------------------------------------------
\* A channel is never closed while a publisher is about to send to it, which
\* would panic (broker.go 34-56, watcher.go 49-96).
NeverSendsOnClosed ==
  \A p \in Publisher : \A s \in ToSet(publishing[p].rest) : channel[s].is = "open"
=============================================================================
