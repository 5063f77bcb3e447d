----------------------------- MODULE RaftProps -----------------------------
(***************************************************************************)
(* What the Raft node of RaftKV guarantees, and what its documents say it  *)
(* guarantees.                                                             *)
(***************************************************************************)
EXTENDS RaftKV

Quorum(S) == Cardinality(S) >= Majority
Contents(l) == {l[k] : k \in DOMAIN l}

Ids   == Server \cup {Nil}
Entry == [term: Nat, index: Nat, cmd: Command]
VoteCall == [kind: {"vote"}, src: Server, dst: Server, round: Nat, term: Nat,
             lastIndex: Nat, lastTerm: Nat, live: BOOLEAN]
VoteAnswer == [kind: {"voteReply"}, src: Server, dst: Server, round: Nat,
               granted: BOOLEAN, term: Nat]
AppendCall == [kind: {"append"}, src: Server, dst: Server, proposal: Nat,
               term: Nat, prevIndex: Nat, prevTerm: Nat, entries: Seq(Entry),
               commit: Nat, live: BOOLEAN]
AppendAnswer == [kind: {"appendReply"}, src: Server, dst: Server,
                 proposal: Nat, sent: Nat, term: Nat, success: BOOLEAN,
                 last: Nat, conflict: Nat]
Call == VoteCall \cup VoteAnswer \cup AppendCall \cup AppendAnswer
Proposal == [node: Server, entry: Entry, acks: Nat, todo: SUBSET Server,
             waiting: BOOLEAN]

Budget == [elections: Nat, heartbeats: Nat, crashes: Nat, diskErrors: Nat]

\* Every variable keeps the type of the field or channel it stands for; the
\* unsigned nextIndex - 1 of a replication never wraps below zero.
TypeOK ==
  /\ role \in [Server -> {"Follower", "Candidate", "Leader"}]
  /\ currentTerm \in [Server -> Nat]
  /\ votedFor \in [Server -> Ids]
  /\ stepDown \in [Server -> BOOLEAN]
  /\ log \in [Server -> Seq(Entry)]
  /\ wal \in [Server -> Seq(Entry)]
  /\ applied \in [Server -> Seq(Entry)]
  /\ commitIndex \in [Server -> Nat]
  /\ lastApplied \in [Server -> Nat]
  /\ leaderID \in [Server -> Ids]
  /\ nextIndex \in [Server -> [Server -> Nat]]
  /\ matchIndex \in [Server -> [Server -> Nat]]
  /\ loop \in [Server -> {"run", "campaign", "Follower", "Candidate", "Leader"}]
  /\ campaign \in [Server -> [round: Nat, term: Nat, voters: SUBSET Server]]
  /\ calls \in SUBSET Call
  /\ proposals \in Seq(Proposal)
  /\ used \in Budget
  /\ cast \in SUBSET [voter: Server, term: Nat, for: Server]
  /\ wins \in SUBSET [node: Server, term: Nat, round: Nat]

-----------------------------------------------------------------------------
(* What holds.                                                             *)

Contiguous(l) == \A k \in DOMAIN l : l[k].index = k

\* No node has read back a WAL in which a write had failed: the errors of
\* HandleAppendEntries' writes are ignored, and what such a WAL holds is not a log.
Unharmed == used.diskErrors = 0 \/ used.crashes = 0

\* However requests are delayed, refused, reordered or cut short by a crash, a
\* log has no gap and no duplicate index: the prevLogIndex check of
\* HandleAppendEntries, its truncation and the leader's nextIndex together keep
\* every entry at the position of its index.
LogContiguous == Unharmed => \A i \in Server : Contiguous(log[i])

\* The WAL of a running node holds exactly its in-memory log, truncations and
\* recoveries included (docs/design-decisions.md, 3), as long as no write fails.
WalMirrorsLog == used.diskErrors = 0 => \A i \in Server : wal[i] = log[i]

\* The store has been given the command of every index up to lastApplied once
\* and in order, although applyCommitted skips an index the log does not hold.
AppliedInOrder ==
  Unharmed => \A i \in Server :
    Contiguous(applied[i]) /\ Len(applied[i]) = lastApplied[i]

\* Nobody becomes leader in a term without the votes of a majority of the nodes
\* in that term: no late reply, stepdown or second campaign is counted wrongly.
WonByMajority ==
  \A w \in wins :
    Quorum({v \in Server : [voter |-> v, term |-> w.term, for |-> w.node] \in cast})

OneWinPerTerm == \A v, w \in wins : v.term = w.term => v = w

\* As long as no term has been won twice, two logs that hold the same term at an
\* index hold the same entries up to it, whoever sent them and however late.
LogMatching ==
  Unharmed /\ OneWinPerTerm =>
    \A i, j \in Server : \A n \in DOMAIN log[i] \cap DOMAIN log[j] :
      log[i][n].term = log[j][n].term =>
        SubSeq(log[i], 1, n) = SubSeq(log[j], 1, n)

-----------------------------------------------------------------------------
(* What the repository says and the code does not do.                      *)

\* state.go:38, "Persistent state (must survive restarts)": a vote is a promise
\* for a term, so nobody votes for two candidates in one term.
VotesOncePerTerm ==
  \A v, w \in cast : v.voter = w.voter /\ v.term = w.term => v = w

\* design-decisions.md, 7: Propose answers only after the write is committed to
\* a majority, so the entry it answers for is in the WAL of a majority.
AnswerIsDurable ==
  \A p \in DOMAIN proposals :
    Answers(p) =>
      Quorum({i \in Server : proposals[p].entry \in Contents(wal[i])})

\* scenarios.md, 2: the value is consistent across all nodes, so no two nodes
\* apply different commands at one index.
AppliedAgree ==
  \A i, j \in Server : \A n \in DOMAIN applied[i] \cap DOMAIN applied[j] :
    applied[i][n] = applied[j][n]
=============================================================================
