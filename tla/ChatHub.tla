------------------------------ MODULE ChatHub ------------------------------
(***************************************************************************)
(* from-scratch/03-websocket-chat: the hub's goroutine takes joins, leaves *)
(* and messages from three bounded channels, whichever is ready; a client  *)
(* calls Join, publishes, and calls Leave when its connection ends.  Send  *)
(* drops what the client's channel has no room for.                        *)
(*                                                                         *)
(* A definition named X_Y is X with the fault Y, to test the properties.   *)
(***************************************************************************)
EXTENDS Naturals, Sequences

CONSTANTS Peer, Room,
          QueueSize,    \* 16 joins and leaves, 64 messages
          SendSize,     \* 32
          MaxChats      \* bound

ASSUME ChatAssumption == QueueSize \in Nat \ {0} /\ SendSize \in Nat \ {0} /\ MaxChats \in Nat

VARIABLES
  rooms,       \* Hub.rooms
  joins, leaves, messages,  \* the channels; a message is its number
  peer,        \* new, here (Join called) or gone (Leave called)
  roomOf,
  outbox,      \* how much each client's send channel holds
  chats,       \* messages published
  heard,       \* history: what went into each client's send channel
  skipped,     \* history: what its channel had no room for
  said,        \* history: the room of each message
  audience     \* history: who was in the room when a message was published, and
               \* has not called Leave before it was broadcast
chatVars == <<rooms, joins, leaves, messages, peer, roomOf, outbox, chats,
              heard, skipped, said, audience>>
chatHistory == <<heard, skipped, said, audience>>

ChatInit ==
  /\ rooms = [r \in Room |-> {}]
  /\ joins = <<>> /\ leaves = <<>> /\ messages = <<>>
  /\ peer = [c \in Peer |-> "new"] /\ roomOf \in [Peer -> Room]
  /\ outbox = [c \in Peer |-> 0]
  /\ chats = 0 /\ said = <<>> /\ audience = <<>>
  /\ heard = [c \in Peer |-> <<>>] /\ skipped = [c \in Peer |-> {}]

Join(c) ==
  /\ peer[c] = "new" /\ Len(joins) < QueueSize
  /\ joins' = Append(joins, c)
  /\ peer' = [peer EXCEPT ![c] = "here"]
  /\ UNCHANGED <<rooms, leaves, messages, roomOf, outbox, chats, chatHistory>>

Say(c) ==
  /\ peer[c] = "here" /\ Len(messages) < QueueSize /\ chats < MaxChats
  /\ chats' = chats + 1
  /\ messages' = Append(messages, chats + 1)
  /\ said' = Append(said, roomOf[c])
  /\ audience' = Append(audience, {d \in rooms[roomOf[c]] : peer[d] = "here"})
  /\ UNCHANGED <<rooms, joins, leaves, peer, roomOf, outbox, heard, skipped>>

Leave(c) ==
  /\ peer[c] = "here" /\ Len(leaves) < QueueSize
  /\ leaves' = Append(leaves, c)
  /\ peer' = [peer EXCEPT ![c] = "gone"]
  /\ audience' = [n \in DOMAIN audience |->
                    IF \E i \in DOMAIN messages : messages[i] = n THEN audience[n] \ {c} ELSE audience[n]]
  /\ UNCHANGED <<rooms, joins, messages, roomOf, outbox, chats, heard, skipped, said>>

TakeJoin ==
  /\ joins # <<>>
  /\ joins' = Tail(joins)
  /\ rooms' = [rooms EXCEPT ![roomOf[Head(joins)]] = @ \cup {Head(joins)}]
  /\ UNCHANGED <<leaves, messages, peer, roomOf, outbox, chats, chatHistory>>

TakeLeave_DeletesRoom ==
  /\ leaves # <<>>
  /\ leaves' = Tail(leaves)
  /\ rooms' = [r \in Room |-> IF Head(leaves) \in rooms[r] THEN {} ELSE rooms[r]]
  /\ UNCHANGED <<joins, messages, peer, roomOf, outbox, chats, chatHistory>>

\* Out of every room; a room left empty is forgotten.
TakeLeave ==
  /\ leaves # <<>>
  /\ leaves' = Tail(leaves)
  /\ rooms' = [r \in Room |-> rooms[r] \ {Head(leaves)}]
  /\ UNCHANGED <<joins, messages, peer, roomOf, outbox, chats, chatHistory>>

Broadcast ==
  /\ messages # <<>>
  /\ messages' = Tail(messages)
  /\ LET n == Head(messages)
         sent == {c \in rooms[said[n]] : outbox[c] < SendSize}
     IN /\ outbox' = [c \in Peer |-> IF c \in sent THEN outbox[c] + 1 ELSE outbox[c]]
        /\ heard' = [c \in Peer |-> IF c \in sent THEN Append(heard[c], n) ELSE heard[c]]
        /\ skipped' = [c \in Peer |-> IF c \in rooms[said[n]] \ sent THEN skipped[c] \cup {n} ELSE skipped[c]]
  /\ UNCHANGED <<rooms, joins, leaves, peer, roomOf, chats, said, audience>>

\* The writer goroutine; it ends at the first error on a closed connection.
WriteMessage(c) ==
  /\ outbox[c] > 0 /\ peer[c] = "here"
  /\ outbox' = [outbox EXCEPT ![c] = @ - 1]
  /\ UNCHANGED <<rooms, joins, leaves, messages, peer, roomOf, chats, chatHistory>>

ChatNext ==
  \/ \E c \in Peer : Join(c) \/ Say(c) \/ Leave(c) \/ WriteMessage(c)
  \/ TakeJoin \/ TakeLeave \/ Broadcast
ChatSpec == ChatInit /\ [][ChatNext]_chatVars

-----------------------------------------------------------------------------
Queued(n) == \E i \in DOMAIN messages : messages[i] = n

\* Whoever was in the room when a message was published and had not called Leave
\* when it was broadcast got it, or had a full channel; nobody gets a message of
\* another room, or two of them in another order than they were published in:
\* whatever joins and leaves of others the hub takes in between (hub.go 43-77,
\* handler.go 21-26).
MembersHearTheRoom ==
  /\ \A n \in 1..chats : ~Queued(n) =>
       \A c \in audience[n] : n \in skipped[c] \/ \E i \in DOMAIN heard[c] : heard[c][i] = n
  /\ \A c \in Peer : \A i \in DOMAIN heard[c] : said[heard[c][i]] = roomOf[c]
  /\ \A c \in Peer : \A i, j \in DOMAIN heard[c] : i < j => heard[c][i] < heard[c][j]

\* deep-dive.md 60-73: a client whose connection has ended is deleted from its
\* room (hub.go 47-63: select takes a leave before the join that waits as well).
LeaversAreDeleted ==
  \A c \in Peer, r \in Room :
    c \in rooms[r] => peer[c] = "here" \/ \E i \in DOMAIN leaves : leaves[i] = c
=============================================================================
