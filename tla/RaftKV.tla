------------------------------- MODULE RaftKV -------------------------------
(***************************************************************************)
(* The Raft node of projects/raft-kv-store: internal/raft, its write-ahead *)
(* log internal/wal and the key-value store internal/kv it applies to.     *)
(*                                                                         *)
(* A node is the goroutine of Run (its position is `loop`), the RPC        *)
(* handlers and the goroutines that wait for RPC answers.  Every critical  *)
(* section of the node's mutex is one step.  A request is in `calls` from  *)
(* the moment its arguments are captured to the moment the peer's handler  *)
(* runs, then its reply until the calling goroutine handles it; a call     *)
(* that fails is one nobody ever handles, and calls are handled in any     *)
(* order.  Timers may fire at any time, so heartbeatCh, which only resets  *)
(* them, and commitCh, which only shortens a poll, have no variable.       *)
(*                                                                         *)
(* A definition named X_Y is X with the fault Y, kept beside X to confirm  *)
(* that the properties notice it; the specification does not use it.       *)
(***************************************************************************)
EXTENDS Integers, Sequences, FiniteSets

CONSTANTS Server,   \* node ids
          Command,  \* client commands
          Nil       \* the empty id ""

\* Bounds on what the environment does in one behaviour.
CONSTANTS MaxElections, MaxProposals, MaxHeartbeats, MaxCrashes, MaxDiskErrors,
          MaxInFlight   \* calls that are neither handled nor failed

ASSUME ServerAssumption == IsFiniteSet(Server) /\ Nil \notin Server
ASSUME BoundAssumption  == {MaxElections, MaxProposals, MaxHeartbeats,
                            MaxCrashes, MaxDiskErrors, MaxInFlight} \subseteq Nat

VARIABLES
  role, currentTerm, votedFor,     \* the fields of Node, by node
  log,                             \* log[1:]; the sentinel is index 0, term 0
  commitIndex, lastApplied, leaderID, nextIndex, matchIndex,
  stepDown,     \* whether stepDownCh holds its token
  loop,         \* where Run is
  campaign,     \* the runCandidate call in progress: number, term and voters
  wal,          \* the entries of wal.log
  applied,      \* the entries Apply has been called with, in order
  calls,        \* RPC requests and replies in flight
  proposals,    \* the Propose calls made so far
  used,         \* how much of each bound is spent
  cast, wins    \* history: votes cast and elections won

nodeVars  == <<role, currentTerm, votedFor, stepDown>>
logVars   == <<log, wal, commitIndex, lastApplied, applied>>
leadVars  == <<nextIndex, matchIndex>>
ghostVars == <<cast, wins>>
vars == <<nodeVars, logVars, leadVars, leaderID, loop, campaign, calls,
          proposals, used, ghostVars>>

Peers(i) == Server \ {i}
Majority == Cardinality(Server) \div 2 + 1

\* The code scans a log for an index; entries are in the order of their indices,
\* so those below n are the first Before(l, n).
Before(l, n) == Cardinality({k \in DOMAIN l : l[k].index < n})
Below(l, n)  == SubSeq(l, 1, Before(l, n))
From(l, n)   == SubSeq(l, Before(l, n) + 1, Len(l))
LastIndex(l) == IF l = <<>> THEN 0 ELSE l[Len(l)].index
LastTerm(l)  == IF l = <<>> THEN 0 ELSE l[Len(l)].term
TermOf(l, n) == LET k == Before(l, n) + 1 IN
                IF k \in DOMAIN l /\ l[k].index = n THEN l[k].term ELSE 0
Smaller(a, b) == IF a < b THEN a ELSE b
Larger(a, b)  == IF a > b THEN a ELSE b

Idle == [round |-> 0, term |-> 0, voters |-> {}]

-----------------------------------------------------------------------------
\* NewNode on every node, over the WALs w.
Start(w) ==
  /\ role = [i \in Server |-> "Follower"]
  /\ currentTerm = [i \in Server |-> 0]
  /\ votedFor = [i \in Server |-> Nil]
  /\ log = w
  /\ wal = w
  /\ commitIndex = [i \in Server |-> LastIndex(w[i])]
  /\ lastApplied = [i \in Server |-> LastIndex(w[i])]
  /\ applied = w
  /\ leaderID = [i \in Server |-> Nil]
  /\ nextIndex = [i \in Server |-> [j \in Server |-> 0]]
  /\ matchIndex = [i \in Server |-> [j \in Server |-> 0]]
  /\ stepDown = [i \in Server |-> FALSE]
  /\ loop = [i \in Server |-> "Follower"]
  /\ campaign = [i \in Server |-> Idle]
  /\ calls = {}
  /\ proposals = <<>>
  /\ used = [elections |-> 0, heartbeats |-> 0, crashes |-> 0, diskErrors |-> 0]

\* A new cluster.
Init ==
  /\ Start([i \in Server |-> <<>>])
  /\ cast = {}
  /\ wins = {}

\* becomeFollower(t) on node i.
BecomeFollower(i, t) ==
  /\ role' = [role EXCEPT ![i] = "Follower"]
  /\ currentTerm' = [currentTerm EXCEPT ![i] = t]
  /\ votedFor' = [votedFor EXCEPT ![i] = Nil]
  /\ stepDown' = [stepDown EXCEPT ![i] = TRUE]

\* Node i applies what is committed: c is its new commit index over log l.
Commit(i, l, c) ==
  /\ commitIndex' = [commitIndex EXCEPT ![i] = c]
  /\ lastApplied' = [lastApplied EXCEPT ![i] = Larger(@, c)]
  /\ applied' = [applied EXCEPT
                   ![i] = @ \o From(Below(l, c + 1), lastApplied[i] + 1)]

\* Any of the calls ms may fail before it is handled.
Send(ms) ==
  \E sent \in SUBSET ms : /\ calls' = calls \cup sent
                          /\ Cardinality(calls \cup sent) <= MaxInFlight

-----------------------------------------------------------------------------
(* Run, runFollower, runCandidate, runLeader.                              *)

\* A loop returns to Run, which will read the role.  Only runFollower ends a
\* Follower role, so reading it is taken together with the return.
Return(i) ==
  loop' = [loop EXCEPT ![i] = IF role[i] = "Follower" THEN "Follower" ELSE "run"]

\* Run reads the role and calls the loop for it.
Dispatch(i) ==
  /\ loop[i] = "run"
  /\ loop' = [loop EXCEPT ![i] = role[i]]
  /\ UNCHANGED <<nodeVars, logVars, leadVars, leaderID, campaign, calls,
                 proposals, used, ghostVars>>

\* runFollower's election timer fires; the election it leads to is bounded.
Standing == {i \in Server : loop[i] \in {"run", "Candidate"} /\ role[i] # "Leader"}
ElectionTimeout(i) ==
  /\ loop[i] = "Follower"
  /\ used.elections + Cardinality(Standing) < MaxElections
  /\ role' = [role EXCEPT ![i] = "Candidate"]
  /\ loop' = [loop EXCEPT ![i] = "run"]
  /\ UNCHANGED <<currentTerm, votedFor, stepDown, logVars, leadVars, leaderID,
                 campaign, calls, proposals, used, ghostVars>>

VoteRequest(i, j, n) ==
  [kind |-> "vote", src |-> i, dst |-> j, round |-> n,
   term |-> currentTerm[i] + 1, lastIndex |-> LastIndex(log[i]),
   lastTerm |-> LastTerm(log[i]), live |-> TRUE]

\* runCandidate starts: new term, a vote for itself, a goroutine per peer.
StartElection(i) ==
  LET n == used.elections + 1 IN
  /\ loop[i] = "Candidate"
  /\ used.elections < MaxElections
  /\ currentTerm' = [currentTerm EXCEPT ![i] = @ + 1]
  /\ votedFor' = [votedFor EXCEPT ![i] = i]
  /\ Send({VoteRequest(i, j, n) : j \in Peers(i)})
  /\ campaign' = [campaign EXCEPT ![i] =
                    [round |-> n, term |-> currentTerm[i] + 1, voters |-> {}]]
  /\ loop' = [loop EXCEPT ![i] = "campaign"]
  /\ used' = [used EXCEPT !.elections = n]
  /\ cast' = cast \cup {[voter |-> i, term |-> currentTerm[i] + 1, for |-> i]}
  /\ UNCHANGED <<role, stepDown, logVars, leadVars, leaderID, proposals, wins>>

\* runCandidate returns to Run; the goroutines' later votes go nowhere.
EndCampaign(i) ==
  /\ loop[i] = "campaign"
  /\ Return(i)
  /\ campaign' = [campaign EXCEPT ![i] = Idle]

\* A vote goroutine has signalled wonElection.
WonElection(i) ==
  /\ campaign[i].voters # {}
  /\ Cardinality(campaign[i].voters) + 1 >= Majority

StillCandidate_NoRecheck(i) == TRUE

\* The win counts only if the node is still the candidate that it was.
StillCandidate(i) == role[i] = "Candidate" /\ currentTerm[i] = campaign[i].term

FirstNext_OffByOne(i) == LastIndex(log[i])
FirstNext(i) == LastIndex(log[i]) + 1

\* The wonElection case of runCandidate, with becomeLeader.
Win(i) ==
  /\ EndCampaign(i)
  /\ WonElection(i)
  /\ IF StillCandidate(i)
     THEN /\ role' = [role EXCEPT ![i] = "Leader"]
          /\ leaderID' = [leaderID EXCEPT ![i] = i]
          /\ nextIndex' = [nextIndex EXCEPT ![i] =
                 [j \in Server |-> IF j = i THEN 0 ELSE FirstNext(i)]]
          /\ matchIndex' = [matchIndex EXCEPT ![i] = [j \in Server |-> 0]]
          /\ wins' = wins \cup {[node |-> i, term |-> currentTerm[i],
                                 round |-> campaign[i].round]}
     ELSE UNCHANGED <<role, leaderID, leadVars, wins>>
  /\ UNCHANGED <<currentTerm, votedFor, stepDown, logVars, calls, proposals,
                 used, cast>>

\* The timer case: a split vote, the role stays Candidate.
CampaignTimeout(i) ==
  /\ used.elections < MaxElections
  /\ EndCampaign(i)
  /\ UNCHANGED <<nodeVars, logVars, leadVars, leaderID, calls, proposals,
                 used, ghostVars>>

\* The stepDownCh case of runCandidate and of runLeader.
StepDown(i) ==
  /\ stepDown[i]
  /\ stepDown' = [stepDown EXCEPT ![i] = FALSE]
  /\ \/ EndCampaign(i)
     \/ /\ loop[i] = "Leader"
        /\ Return(i)
        /\ UNCHANGED campaign
  /\ UNCHANGED <<role, currentTerm, votedFor, logVars, leadVars, leaderID,
                 calls, proposals, used, ghostVars>>

AppendRequest(i, j, p, t, prev, entries) ==
  [kind |-> "append", src |-> i, dst |-> j, proposal |-> p, term |-> t,
   prevIndex |-> prev, prevTerm |-> TermOf(log[i], prev), entries |-> entries,
   commit |-> commitIndex[i], live |-> TRUE]

\* sendHeartbeats: the current term and commit index, whatever the role.
SendHeartbeats(i) ==
  /\ loop[i] = "Leader"
  /\ used.heartbeats < MaxHeartbeats
  /\ Send({AppendRequest(i, j, 0, currentTerm[i], 0, <<>>) : j \in Peers(i)})
  /\ used' = [used EXCEPT !.heartbeats = @ + 1]
  /\ UNCHANGED <<nodeVars, logVars, leadVars, leaderID, loop, campaign,
                 proposals, ghostVars>>

-----------------------------------------------------------------------------
(* HandleRequestVote and the goroutine that awaits its reply.              *)

Reply(m, r) == (calls \ {m}) \cup (IF m.live THEN {r} ELSE {})

UpToDate(m, l) ==
  \/ m.lastTerm > LastTerm(l)
  \/ m.lastTerm = LastTerm(l) /\ m.lastIndex >= LastIndex(l)

HandleRequestVote(m) ==
  LET i     == m.dst
      newer == m.term > currentTerm[i]
      free  == newer \/ votedFor[i] \in {Nil, m.src}
      grant == m.term >= currentTerm[i] /\ free /\ UpToDate(m, log[i])
      t     == IF newer THEN m.term ELSE currentTerm[i]
  IN
  /\ m.kind = "vote"
  /\ currentTerm' = [currentTerm EXCEPT ![i] = t]
  /\ role' = [role EXCEPT ![i] = IF newer THEN "Follower" ELSE @]
  /\ stepDown' = [stepDown EXCEPT ![i] = @ \/ newer]
  /\ votedFor' = [votedFor EXCEPT ![i] = IF grant THEN m.src
                                         ELSE IF newer THEN Nil ELSE @]
  \* A refusal carries the term from before the request was looked at.
  /\ calls' = Reply(m, [kind |-> "voteReply", src |-> m.src, dst |-> i,
                        round |-> m.round, granted |-> grant,
                        term |-> IF grant THEN t ELSE currentTerm[i]])
  /\ cast' = IF grant THEN cast \cup {[voter |-> i, term |-> t, for |-> m.src]}
                      ELSE cast
  /\ UNCHANGED <<logVars, leadVars, leaderID, loop, campaign, proposals, used,
                 wins>>

HandleVoteReply(m) ==
  LET i == m.src IN
  /\ m.kind = "voteReply"
  /\ calls' = calls \ {m}
  /\ IF m.term > currentTerm[i]
     THEN BecomeFollower(i, m.term) /\ UNCHANGED campaign
     ELSE /\ campaign' = IF m.granted /\ m.round = campaign[i].round
                         THEN [campaign EXCEPT ![i].voters = @ \cup {m.dst}]
                         ELSE campaign
          /\ UNCHANGED nodeVars
  /\ UNCHANGED <<logVars, leadVars, leaderID, loop, proposals, used, ghostVars>>

-----------------------------------------------------------------------------
(* HandleAppendEntries and the goroutines that await its reply.            *)

Has_AnyTerm(l, e) == e.index <= LastIndex(l)

\* Entry e of a request is in log l already.
Has(l, e) == e.index <= LastIndex(l) /\ TermOf(l, e.index) = e.term

\* The loop over args.Entries: entries the log has are skipped; at the first
\* one it lacks, a conflicting suffix is cut and the rest is appended.
Missing(l, es) == {k \in DOMAIN es : ~Has(l, es[k])}
FirstMissing(l, es) ==
  CHOOSE k \in Missing(l, es) : \A n \in Missing(l, es) : k <= n
Cuts(l, es) == es[FirstMissing(l, es)].index <= LastIndex(l)
\* The same steps are done to the in-memory log and to the WAL: x is either.
Rewrite(x, l, es) ==
  LET k == FirstMissing(l, es)
      kept == IF Cuts(l, es) THEN Below(x, es[k].index) ELSE x
  IN IF Missing(l, es) = {} THEN x ELSE kept \o SubSeq(es, k, Len(es))

\* What wal.log may hold if the process stops part of the way through: Truncate
\* empties the file and appends the kept entries again.
PartialWal(w, l, es) ==
  LET new == Rewrite(w, l, es) IN
  {SubSeq(new, 1, n) : n \in {n \in 0..Len(new) : Cuts(l, es) \/ n >= Len(w)}}

\* What it may hold if the disk fails for a while.  Truncate stops where it
\* fails, which may be before it empties the file, and the old entries stay; of
\* the Appends those from the (a+1)-th to the one before the b-th write nothing.
FailedTruncate(w, kept) == {w} \cup {SubSeq(kept, 1, n) : n \in 0..Len(kept)}
FailedAppends(new) ==
  UNION {{SubSeq(new, 1, a) \o SubSeq(new, b, Len(new)) : b \in 1..Len(new)+1} :
           a \in 0..Len(new)}
FailedWal(w, l, es) ==
  LET k == FirstMissing(l, es)
      old == IF Cuts(l, es) THEN FailedTruncate(w, Below(w, es[k].index)) ELSE {w}
  IN UNION {{o \o n : n \in FailedAppends(SubSeq(es, k, Len(es)))} : o \in old}

Consistent_Unchecked(l, m) == TRUE
Consistent(l, m) ==
  \/ m.prevIndex = 0
  \/ m.prevIndex <= LastIndex(l) /\ TermOf(l, m.prevIndex) = m.prevTerm

AppendReply(m, t, ok, conflict) ==
  [kind |-> "appendReply", src |-> m.src, dst |-> m.dst,
   proposal |-> m.proposal, sent |-> m.term, term |-> t, success |-> ok,
   last |-> LastIndex(m.entries), conflict |-> conflict]

\* A request from an older term is refused and changes nothing.
RefuseAppend(m) ==
  /\ m.kind = "append"
  /\ m.term < currentTerm[m.dst]
  /\ calls' = Reply(m, AppendReply(m, currentTerm[m.dst], FALSE, 0))
  /\ UNCHANGED <<nodeVars, logVars, leadVars, leaderID, loop, campaign,
                 proposals, used, ghostVars>>

\* Any other makes the sender the leader; a same-term one sends no token.
FollowLeader(m) ==
  /\ m.term >= currentTerm[m.dst]
  /\ leaderID' = [leaderID EXCEPT ![m.dst] = m.src]
  /\ IF m.term > currentTerm[m.dst]
     THEN BecomeFollower(m.dst, m.term)
     ELSE /\ role' = [role EXCEPT ![m.dst] = "Follower"]
          /\ UNCHANGED <<currentTerm, votedFor, stepDown>>

FollowerCommit_NoMin(i, m, l) ==
  IF m.commit > commitIndex[i] THEN m.commit ELSE commitIndex[i]

\* What the leader knows to be committed, as far as this log goes.
FollowerCommit(i, m, l) ==
  IF m.commit > commitIndex[i] THEN Smaller(m.commit, LastIndex(l))
                               ELSE commitIndex[i]

\* The request is handled and leaves w in the WAL.
AppendTo(m, w) ==
  LET i == m.dst
      l == Rewrite(log[i], log[i], m.entries)
  IN
  /\ FollowLeader(m)
  /\ Consistent(log[i], m)
  /\ log' = [log EXCEPT ![i] = l]
  /\ wal' = [wal EXCEPT ![i] = w]
  /\ Commit(i, l, FollowerCommit(i, m, l))
  /\ calls' = Reply(m, AppendReply(m, m.term, TRUE, 0))
  /\ UNCHANGED <<leadVars, loop, campaign, proposals, ghostVars>>

AppendConflict(m) ==
  LET i == m.dst IN
  /\ m.kind = "append"
  /\ FollowLeader(m)
  /\ ~Consistent(log[i], m)
  /\ calls' = Reply(m, AppendReply(m, currentTerm[i], FALSE, LastIndex(log[i])))
  /\ UNCHANGED <<logVars, leadVars, loop, campaign, proposals, used, ghostVars>>

HandleAppendEntries_NoTruncate(m) ==
  LET es == m.entries
  IN
  /\ m.kind = "append"
  /\ AppendTo(m, wal[m.dst] \o SelectSeq(es, LAMBDA e : ~Has(log[m.dst], e)))
  /\ UNCHANGED used

HandleAppendEntries(m) ==
  /\ m.kind = "append"
  /\ AppendTo(m, Rewrite(wal[m.dst], log[m.dst], m.entries))
  /\ UNCHANGED used

\* Some of the WAL calls fail; their errors are ignored.
AppendDiskError(m) ==
  /\ m.kind = "append"
  /\ used.diskErrors < MaxDiskErrors
  /\ Missing(log[m.dst], m.entries) # {}
  /\ \E w \in FailedWal(wal[m.dst], log[m.dst], m.entries) : AppendTo(m, w)
  /\ used' = [used EXCEPT !.diskErrors = @ + 1]

\* A heartbeat goroutine compares the reply with the term it sent.
HandleHeartbeatReply(m) ==
  /\ m.kind = "appendReply"
  /\ m.proposal = 0
  /\ calls' = calls \ {m}
  /\ IF m.term > m.sent THEN BecomeFollower(m.src, m.term)
                        ELSE UNCHANGED nodeVars
  /\ UNCHANGED <<logVars, leadVars, leaderID, loop, campaign, proposals, used,
                 ghostVars>>

\* Indices above the commit index, of the current term, on a majority.
Committable(i, match) ==
  {n \in commitIndex[i]+1 .. LastIndex(log[i]) :
     /\ TermOf(log[i], n) = currentTerm[i]
     /\ 1 + Cardinality({j \in Peers(i) : match[j] >= n}) >= Majority}

\* advanceCommitIndex
Advance(i, match) ==
  IF Committable(i, match) = {} THEN UNCHANGED <<commitIndex, lastApplied, applied>>
  ELSE Commit(i, log[i], CHOOSE n \in Committable(i, match) :
                           \A o \in Committable(i, match) : o <= n)

\* A replication goroutine records the success; the one that completes a
\* majority for its proposal advances the commit index.
HandleAppendReply(m) ==
  LET i == m.src
      p == m.proposal
      acks  == proposals[p].acks + 1
      match == [matchIndex[i] EXCEPT ![m.dst] = m.last]
      next  == CASE m.success     -> m.last + 1
                 [] m.conflict > 0 -> m.conflict
                 [] OTHER         -> Larger(nextIndex[i][m.dst] - 1, 1)
  IN
  /\ m.kind = "appendReply"
  /\ p # 0
  /\ calls' = calls \ {m}
  /\ IF m.term > currentTerm[i]
     THEN BecomeFollower(i, m.term) /\ UNCHANGED <<logVars, leadVars, proposals>>
     ELSE /\ UNCHANGED <<nodeVars, log, wal>>
          /\ IF m.success /\ m.last = 0 THEN UNCHANGED nextIndex
             ELSE nextIndex' = [nextIndex EXCEPT ![i][m.dst] = next]
          /\ IF m.success /\ m.last > 0
             THEN /\ matchIndex' = [matchIndex EXCEPT ![i] = match]
                  /\ proposals' = [proposals EXCEPT ![p].acks = acks]
                  /\ IF acks = Majority THEN Advance(i, match)
                     ELSE UNCHANGED <<commitIndex, lastApplied, applied>>
             ELSE UNCHANGED <<matchIndex, proposals, commitIndex, lastApplied,
                              applied>>
  /\ UNCHANGED <<leaderID, loop, campaign, used, ghostVars>>

-----------------------------------------------------------------------------
(* Propose.                                                                *)

NewEntry(i, c) ==
  [term |-> currentTerm[i], index |-> LastIndex(log[i]) + 1, cmd |-> c]

Propose(i, c) ==
  LET e == NewEntry(i, c) IN
  /\ role[i] = "Leader"
  /\ Len(proposals) < MaxProposals
  /\ log' = [log EXCEPT ![i] = Append(@, e)]
  /\ wal' = [wal EXCEPT ![i] = Append(@, e)]
  /\ proposals' = Append(proposals, [node |-> i, entry |-> e, acks |-> 1,
                                     todo |-> Peers(i), waiting |-> TRUE])
  /\ UNCHANGED <<nodeVars, commitIndex, lastApplied, applied, leadVars,
                 leaderID, loop, campaign, calls, used, ghostVars>>

\* The WAL append fails, in the write or in the fsync after it: the client gets
\* the error, the entry stays in memory, and on the disk if it was written.
ProposeDiskError(i, c) ==
  /\ role[i] = "Leader"
  /\ used.diskErrors < MaxDiskErrors
  /\ log' = [log EXCEPT ![i] = Append(@, NewEntry(i, c))]
  /\ wal' \in {wal, [wal EXCEPT ![i] = Append(@, NewEntry(i, c))]}
  /\ used' = [used EXCEPT !.diskErrors = @ + 1]
  /\ UNCHANGED <<nodeVars, commitIndex, lastApplied, applied, leadVars,
                 leaderID, loop, campaign, calls, proposals, ghostVars>>

\* The goroutine for peer j reads nextIndex and the log, under a new lock, and
\* sends them with the term of the proposal; a call that fails is one not made.
Replicate(p, j) ==
  LET i    == proposals[p].node
      next == nextIndex[i][j]
  IN
  /\ j \in proposals[p].todo
  /\ proposals' = [proposals EXCEPT ![p].todo = @ \ {j}]
  /\ calls' = calls \cup {AppendRequest(i, j, p, proposals[p].entry.term,
                                        next - 1, From(log[i], next))}
  /\ Cardinality(calls) < MaxInFlight
  /\ UNCHANGED <<nodeVars, logVars, leadVars, leaderID, loop, campaign, used,
                 ghostVars>>

\* Propose's poll sees the commit index at its target and answers the client.
\* Nothing but the client changes then, so this is a condition, not a step.
Answers(p) ==
  /\ proposals[p].waiting
  /\ commitIndex[proposals[p].node] >= proposals[p].entry.index

-----------------------------------------------------------------------------
(* A crash, and NewNode with recoverFromWAL over the entries w it left.    *)

\* Bound: no node starts again over a WAL that a failed Truncate left with old
\* entries before the new ones, for Before reads a log in the order of its
\* indices.
InOrderOfIndex(w) == \A a, b \in DOMAIN w : a < b => w[a].index < w[b].index

Restart(i, w) ==
  /\ used.crashes < MaxCrashes
  /\ InOrderOfIndex(w)
  /\ used' = [used EXCEPT !.crashes = @ + 1]
  /\ role' = [role EXCEPT ![i] = "Follower"]
  /\ currentTerm' = [currentTerm EXCEPT ![i] = 0]
  /\ votedFor' = [votedFor EXCEPT ![i] = Nil]
  /\ stepDown' = [stepDown EXCEPT ![i] = FALSE]
  /\ log' = [log EXCEPT ![i] = w]
  /\ wal' = [wal EXCEPT ![i] = w]
  /\ commitIndex' = [commitIndex EXCEPT ![i] = LastIndex(w)]
  /\ lastApplied' = [lastApplied EXCEPT ![i] = LastIndex(w)]
  /\ applied' = [applied EXCEPT ![i] = w]
  /\ leaderID' = [leaderID EXCEPT ![i] = Nil]
  /\ nextIndex' = [nextIndex EXCEPT ![i] = [j \in Server |-> 0]]
  /\ matchIndex' = [matchIndex EXCEPT ![i] = [j \in Server |-> 0]]
  /\ loop' = [loop EXCEPT ![i] = "Follower"]
  /\ campaign' = [campaign EXCEPT ![i] = Idle]
  /\ proposals' = [p \in DOMAIN proposals |->
                     IF proposals[p].node # i THEN proposals[p]
                     ELSE [proposals[p] EXCEPT !.todo = {}, !.waiting = FALSE]]
  /\ UNCHANGED ghostVars

\* The requests i has sent may still arrive; nobody awaits their replies.
Orphaned(i, cs) ==
  {IF m.kind \in {"vote", "append"} /\ m.src = i
   THEN [m EXCEPT !.live = FALSE] ELSE m :
     m \in {c \in cs : c.kind \in {"vote", "append"} \/ c.src # i}}

Crash(i) == Restart(i, wal[i]) /\ calls' = Orphaned(i, calls)

CrashInAppend(m) ==
  /\ m.kind = "append"
  /\ m.term >= currentTerm[m.dst]
  /\ Consistent(log[m.dst], m)
  /\ Missing(log[m.dst], m.entries) # {}
  /\ \E w \in PartialWal(wal[m.dst], log[m.dst], m.entries) : Restart(m.dst, w)
  /\ calls' = Orphaned(m.dst, calls \ {m})

-----------------------------------------------------------------------------
Receive(m) ==
  \/ HandleRequestVote(m) \/ HandleVoteReply(m)
  \/ RefuseAppend(m) \/ AppendConflict(m) \/ HandleAppendEntries(m)
  \/ AppendDiskError(m)
  \/ HandleHeartbeatReply(m) \/ HandleAppendReply(m)

Next ==
  \/ \E i \in Server :
       \/ Dispatch(i) \/ ElectionTimeout(i) \/ StartElection(i) \/ Win(i)
       \/ CampaignTimeout(i) \/ StepDown(i) \/ SendHeartbeats(i)
       \/ Crash(i)
       \/ \E c \in Command : Propose(i, c) \/ ProposeDiskError(i, c)
  \/ \E m \in calls : Receive(m) \/ CrashInAppend(m)
  \/ \E p \in DOMAIN proposals : \E j \in Server : Replicate(p, j)

Spec == Init /\ [][Next]_vars
=============================================================================
