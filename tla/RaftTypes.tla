----------------------------- MODULE RaftTypes -----------------------------
(***************************************************************************)
(* The type invariant of RaftKV, for every set of nodes and commands and   *)
(* every bound, and before it the facts about the log operators it rests   *)
(* on: what Before, Below, From and Rewrite return, for every log.         *)
(***************************************************************************)
EXTENDS RaftProps, TLAPS, SequenceTheorems, FiniteSetTheorems,
        WellFoundedInduction

-----------------------------------------------------------------------------
(* Logs.                                                                   *)

\* The number of entries below an index is a natural, at most the length.
LEMMA BeforeType ==
  ASSUME NEW l \in Seq(Entry), NEW n \in Int
  PROVE  Before(l, n) \in 0 .. Len(l)
<1> DEFINE B == {k \in DOMAIN l : l[k].index < n}
<1>0. Len(l) \in Nat /\ DOMAIN l = 1 .. Len(l)
  BY LenProperties
<1>1. IsFiniteSet(1 .. Len(l)) /\ Cardinality(1 .. Len(l)) = Len(l)
  BY SMTT(30), <1>0, FS_Interval
<1>2. B \in SUBSET (1 .. Len(l))
  BY LenProperties
<1>3. IsFiniteSet(B) /\ Cardinality(B) <= Len(l)
  BY <1>1, <1>2, FS_Subset
<1>4. Cardinality(B) \in Nat
  BY <1>3, FS_CardinalityType
<1>5. QED
  BY <1>3, <1>4, LenProperties DEF Before

\* A stretch of a log is a log.
LEMMA StretchType ==
  ASSUME NEW l \in Seq(Entry), NEW a \in Nat \ {0}, NEW b \in Nat, b <= Len(l)
  PROVE  /\ SubSeq(l, a, b) \in Seq(Entry)
         /\ Len(SubSeq(l, a, b)) = IF a <= b THEN b - a + 1 ELSE 0
         /\ \A k \in 1 .. Len(SubSeq(l, a, b)) : SubSeq(l, a, b)[k] = l[a + k - 1]
<1>1. \A k \in a .. b : l[k] \in Entry
  BY LenProperties, ElementOfSeq
<1>2. QED
  BY <1>1, SubSeqProperties

LEMMA BelowType ==
  ASSUME NEW l \in Seq(Entry), NEW n \in Int
  PROVE  Below(l, n) \in Seq(Entry)
BY SMTT(30), BeforeType, StretchType DEF Below

LEMMA FromType ==
  ASSUME NEW l \in Seq(Entry), NEW n \in Int
  PROVE  From(l, n) \in Seq(Entry)
<1>1. Len(l) \in Nat /\ Before(l, n) + 1 \in Nat \ {0}
  BY SMTT(30), LenProperties, BeforeType
<1>2. QED
  BY <1>1, StretchType DEF From

LEMMA LastType ==
  ASSUME NEW l \in Seq(Entry)
  PROVE  LastIndex(l) \in Nat /\ LastTerm(l) \in Nat
<1>1. CASE l = <<>>
  BY <1>1 DEF LastIndex, LastTerm
<1>2. CASE l # <<>>
  <2>1. l[Len(l)] \in Entry
    BY <1>2, EmptySeq, LenProperties, ElementOfSeq
  <2>2. QED
    BY <1>2, <2>1 DEF LastIndex, LastTerm, Entry
<1>3. QED
  BY <1>1, <1>2

LEMMA TermOfType ==
  ASSUME NEW l \in Seq(Entry), NEW n \in Int
  PROVE  TermOf(l, n) \in Nat
<1>1. SUFFICES ASSUME Before(l, n) + 1 \in DOMAIN l
               PROVE  l[Before(l, n) + 1].term \in Nat
  BY DEF TermOf
<1>2. l[Before(l, n) + 1] \in Entry
  BY <1>1, LenProperties, ElementOfSeq
<1>3. QED
  BY <1>2 DEF Entry

-----------------------------------------------------------------------------
(* The least and the greatest member of a set of numbers.                  *)

LEMMA LeastExists ==
  ASSUME NEW T \in SUBSET Nat, T # {}
  PROVE  \E k \in T : \A n \in T : k <= n
<1>1. \E k \in T : \A n \in T : <<n, k>> \notin OpToRel(<, Nat)
  BY NatLessThanWellFounded, WFMin
<1>2. \A n, k \in T : <<n, k>> \notin OpToRel(<, Nat) => k <= n
  BY DEF OpToRel
<1>3. QED
  BY <1>1, <1>2

LEMMA GreatestExists ==
  ASSUME NEW T \in SUBSET Nat, T # {}, NEW b \in Nat, \A n \in T : n <= b
  PROVE  \E k \in T : \A n \in T : n <= k
<1> DEFINE U == {b - n : n \in T}
<1>0. \A n \in T : b - n \in Nat
  OBVIOUS
<1>1. U \in SUBSET Nat /\ U # {}
  BY <1>0
<1>2. PICK d \in U : \A e \in U : d <= e
  BY <1>1, LeastExists
<1>3. PICK k \in T : d = b - k
  BY <1>2
<1>4. \A n \in T : b - k <= b - n
  BY <1>2, <1>3
<1>5. QED
  BY <1>4

LEMMA FirstMissingLeast ==
  ASSUME NEW l \in Seq(Entry), NEW es \in Seq(Entry), Missing(l, es) # {}
  PROVE  /\ FirstMissing(l, es) \in Missing(l, es)
         /\ \A n \in Missing(l, es) : FirstMissing(l, es) <= n
<1>1. Missing(l, es) \in SUBSET Nat
  BY LenProperties DEF Missing
<1>2. \E k \in Missing(l, es) : \A n \in Missing(l, es) : k <= n
  BY <1>1, LeastExists
<1>3. QED
  BY <1>2 DEF FirstMissing

\* Cutting and extending a log gives a log, in memory and in the WAL.
LEMMA RewriteType ==
  ASSUME NEW x \in Seq(Entry), NEW l \in Seq(Entry), NEW es \in Seq(Entry)
  PROVE  Rewrite(x, l, es) \in Seq(Entry)
<1> DEFINE k == FirstMissing(l, es)
<1>1. CASE Missing(l, es) = {}
  BY <1>1 DEF Rewrite
<1>2. CASE Missing(l, es) # {}
  <2>1. k \in 1 .. Len(es) /\ Len(es) \in Nat
    BY <1>2, FirstMissingLeast, LenProperties DEF Missing
  <2>a. es[k] \in Entry
    BY <2>1, ElementOfSeq
  <2>2. es[k].index \in Int
    BY <2>a DEF Entry
  <2>3. Below(x, es[k].index) \in Seq(Entry)
    BY <2>2, BelowType
  <2>4. SubSeq(es, k, Len(es)) \in Seq(Entry)
    BY <2>1, StretchType
  <2> DEFINE kept == IF Cuts(l, es) THEN Below(x, es[k].index) ELSE x
  <2>5. kept \in Seq(Entry)
    BY <2>3
  <2>6. kept \o SubSeq(es, k, Len(es)) \in Seq(Entry)
    BY <2>4, <2>5, ConcatProperties
  <2>7. QED
    BY <1>2, <2>6 DEF Rewrite
<1>3. QED
  BY <1>1, <1>2

\* So is what a crash or a disk error leaves of the WAL.
LEMMA PartialWalType ==
  ASSUME NEW w \in Seq(Entry), NEW l \in Seq(Entry), NEW es \in Seq(Entry),
         NEW v \in PartialWal(w, l, es)
  PROVE  v \in Seq(Entry)
<1> DEFINE new == Rewrite(w, l, es)
<1>1. new \in Seq(Entry)
  BY RewriteType
<1>2. PICK n \in 0 .. Len(new) : v = SubSeq(new, 1, n)
  BY DEF PartialWal
<1>3. n \in Nat /\ n <= Len(new)
  BY <1>1, <1>2, LenProperties
<1>4. QED
  BY <1>1, <1>2, <1>3, StretchType

\* What a failing disk leaves of it are entries too.
LEMMA FailedWalType ==
  ASSUME NEW w \in Seq(Entry), NEW l \in Seq(Entry), NEW es \in Seq(Entry),
         Missing(l, es) # {}, NEW v \in FailedWal(w, l, es)
  PROVE  v \in Seq(Entry)
<1> DEFINE k == FirstMissing(l, es)
           new == SubSeq(es, k, Len(es))
           kept == Below(w, es[k].index)
<1>1. k \in Nat \ {0} /\ k <= Len(es) /\ Len(es) \in Nat /\ es[k] \in Entry
  <2>1. k \in DOMAIN es
    BY FirstMissingLeast DEF Missing
  <2>2. DOMAIN es = 1 .. Len(es) /\ Len(es) \in Nat
    BY LenProperties
  <2>3. es[k] \in Entry
    BY <2>1, <2>2, ElementOfSeq
  <2> HIDE DEF k
  <2>4. QED
    BY <2>1, <2>2, <2>3
<1>2. new \in Seq(Entry) /\ Len(new) \in Nat
  BY <1>1, StretchType, LenProperties
<1>3. kept \in Seq(Entry) /\ Len(kept) \in Nat
  <2>1. es[k].index \in Int
    BY <1>1 DEF Entry
  <2>2. QED
    BY <2>1, BelowType, LenProperties
<1> DEFINE old == IF Cuts(l, es) THEN FailedTruncate(w, kept) ELSE {w}
<1>4. PICK o \in old : \E n \in FailedAppends(new) : v = o \o n
  BY DEF FailedWal
<1>5. PICK n \in FailedAppends(new) : v = o \o n
  BY <1>4
<1> HIDE DEF new, kept
<1>6. o \in Seq(Entry)
  <2>1. FailedTruncate(w, kept) \subseteq Seq(Entry)
    BY <1>3, StretchType DEF FailedTruncate
  <2>2. QED
    BY <1>4, <2>1
<1>7. n \in Seq(Entry)
  <2>1. PICK a \in 0 .. Len(new) : \E b \in 1 .. Len(new)+1 :
          n = SubSeq(new, 1, a) \o SubSeq(new, b, Len(new))
    BY <1>5 DEF FailedAppends
  <2>2. PICK b \in 1 .. Len(new)+1 :
          n = SubSeq(new, 1, a) \o SubSeq(new, b, Len(new))
    BY <2>1
  <2>3. SubSeq(new, 1, a) \in Seq(Entry) /\ SubSeq(new, b, Len(new)) \in Seq(Entry)
    BY <1>2, <2>1, <2>2, StretchType
  <2>4. QED
    BY <2>2, <2>3, ConcatProperties
<1>8. QED
  BY <1>5, <1>6, <1>7, ConcatProperties

-----------------------------------------------------------------------------
(* The type invariant.                                                     *)

\* TypeOK is not inductive: prevIndex of a replication is nextIndex - 1.  It is
\* a natural because a leader starts with nextIndex at 1 or more for its peers,
\* only a leader makes proposals, and a restart ends those it had.
Routable ==
  /\ \A i \in Server :
       role[i] = "Leader" => \A j \in Peers(i) : nextIndex[i][j] >= 1
  /\ \A p \in DOMAIN proposals :
       LET i == proposals[p].node IN
       proposals[p].todo \subseteq Peers(i) /\ \A j \in proposals[p].todo : nextIndex[i][j] >= 1

TypeInv == TypeOK /\ Routable

LEMMA TypeInit == Init => TypeInv
<1> SUFFICES ASSUME Init PROVE TypeInv
  OBVIOUS
<1>1. TypeOK
  BY EmptySeq, ServerAssumption
  DEF Init, Start, TypeOK, Ids, LastIndex, Idle, Budget
<1>2. Routable
  BY DEF Init, Start, Routable
<1>3. QED
  BY <1>1, <1>2 DEF TypeInv

-----------------------------------------------------------------------------
(* What the actions are built from.                                        *)

\* Spending from a bound.
LEMMA SpendType ==
  ASSUME NEW u \in Budget
  PROVE  /\ [u EXCEPT !.crashes = @ + 1] \in Budget
         /\ [u EXCEPT !.heartbeats = @ + 1] \in Budget
         /\ [u EXCEPT !.diskErrors = @ + 1] \in Budget
         /\ [u EXCEPT !.elections = u.elections + 1] \in Budget
<1>1. /\ u.crashes + 1 \in Nat /\ u.heartbeats + 1 \in Nat
      /\ u.diskErrors + 1 \in Nat /\ u.elections + 1 \in Nat
  BY DEF Budget
<1>2. QED
  BY <1>1, Zenon DEF Budget

LEMMA ProposalType ==
  ASSUME TypeOK, NEW p \in DOMAIN proposals
  PROVE  /\ p \in Nat
         /\ proposals[p] \in Proposal
         /\ proposals[p].node \in Server
         /\ proposals[p].entry \in Entry
         /\ proposals[p].acks \in Nat
         /\ proposals[p].todo \subseteq Server
<1>1. proposals \in Seq(Proposal)
  BY DEF TypeOK
<1>2. p \in 1 .. Len(proposals) /\ Len(proposals) \in Nat
  BY <1>1, LenProperties
<1>3. proposals[p] \in Proposal
  BY <1>1, <1>2, ElementOfSeq
<1>4. QED
  BY <1>2, <1>3 DEF Proposal

LEMMA SendType ==
  ASSUME calls \in SUBSET Call, NEW ms \in SUBSET Call, Send(ms)
  PROVE  calls' \in SUBSET Call
BY DEF Send

LEMMA ReplyType ==
  ASSUME calls \in SUBSET Call, NEW m, NEW r \in Call
  PROVE  Reply(m, r) \in SUBSET Call
BY DEF Reply

LEMMA VoteRequestType ==
  ASSUME TypeOK, NEW i \in Server, NEW j \in Server, NEW n \in Nat
  PROVE  VoteRequest(i, j, n) \in Call
<1>1. log[i] \in Seq(Entry) /\ currentTerm[i] \in Nat
  BY DEF TypeOK
<1>2. LastIndex(log[i]) \in Nat /\ LastTerm(log[i]) \in Nat
  BY <1>1, LastType
<1>3. VoteRequest(i, j, n) \in VoteCall
  BY <1>1, <1>2 DEF VoteRequest, VoteCall
<1>4. QED
  BY <1>3 DEF Call

LEMMA AppendRequestType ==
  ASSUME TypeOK, NEW i \in Server, NEW j \in Server, NEW p \in Nat, NEW t \in Nat,
         NEW prev \in Nat, NEW entries \in Seq(Entry)
  PROVE  AppendRequest(i, j, p, t, prev, entries) \in Call
<1>1. log[i] \in Seq(Entry) /\ commitIndex[i] \in Nat
  BY DEF TypeOK
<1>2. TermOf(log[i], prev) \in Nat
  <2>1. prev \in Int
    OBVIOUS
  <2>2. QED
    BY <1>1, <2>1, TermOfType
<1>3. AppendRequest(i, j, p, t, prev, entries) \in AppendCall
  BY <1>1, <1>2 DEF AppendRequest, AppendCall
<1>4. QED
  BY <1>3 DEF Call

\* A call of a kind has the fields of that kind.
LEMMA KindType ==
  ASSUME NEW m \in Call
  PROVE  /\ m.kind = "vote" => m \in VoteCall
         /\ m.kind = "voteReply" => m \in VoteAnswer
         /\ m.kind = "append" => m \in AppendCall
         /\ m.kind = "appendReply" => m \in AppendAnswer
BY DEF Call, VoteCall, VoteAnswer, AppendCall, AppendAnswer

LEMMA AppendReplyType ==
  ASSUME NEW m \in AppendCall, NEW t \in Nat, NEW ok \in BOOLEAN, NEW c \in Nat
  PROVE  AppendReply(m, t, ok, c) \in Call
<1>1. LastIndex(m.entries) \in Nat
  BY LastType DEF AppendCall
<1>2. AppendReply(m, t, ok, c) \in AppendAnswer
  BY <1>1 DEF AppendReply, AppendCall, AppendAnswer
<1>3. QED
  BY <1>2 DEF Call

LEMMA BecomeFollowerType ==
  ASSUME TypeOK, NEW i \in Server, NEW t \in Nat, BecomeFollower(i, t)
  PROVE  /\ role' \in [Server -> {"Follower", "Candidate", "Leader"}]
         /\ currentTerm' \in [Server -> Nat]
         /\ votedFor' \in [Server -> Ids]
         /\ stepDown' \in [Server -> BOOLEAN]
         /\ \A j \in Server : role'[j] = "Leader" => role[j] = "Leader"
BY DEF TypeOK, BecomeFollower, Ids

LEMMA CommitType ==
  ASSUME TypeOK, NEW i \in Server, NEW l \in Seq(Entry), NEW c \in Nat,
         Commit(i, l, c)
  PROVE  /\ commitIndex' \in [Server -> Nat]
         /\ lastApplied' \in [Server -> Nat]
         /\ applied' \in [Server -> Seq(Entry)]
<1>1. Larger(lastApplied[i], c) \in Nat /\ lastApplied[i] + 1 \in Int
  BY DEF TypeOK, Larger
<1>2. From(Below(l, c + 1), lastApplied[i] + 1) \in Seq(Entry)
  <2>1. Below(l, c + 1) \in Seq(Entry)
    BY BelowType
  <2>2. QED
    BY <1>1, <2>1, FromType
<1>3. applied[i] \o From(Below(l, c + 1), lastApplied[i] + 1) \in Seq(Entry)
  BY <1>2, ConcatProperties DEF TypeOK
<1>4. QED
  BY <1>1, <1>3 DEF TypeOK, Commit

LEMMA AdvanceType ==
  ASSUME TypeOK, NEW i \in Server, NEW match, Advance(i, match)
  PROVE  /\ commitIndex' \in [Server -> Nat]
         /\ lastApplied' \in [Server -> Nat]
         /\ applied' \in [Server -> Seq(Entry)]
<1>1. CASE Committable(i, match) = {}
  BY <1>1 DEF TypeOK, Advance
<1>2. CASE Committable(i, match) # {}
  <2>1. commitIndex[i] \in Nat /\ log[i] \in Seq(Entry)
    BY DEF TypeOK
  <2>2. LastIndex(log[i]) \in Nat
    BY <2>1, LastType
  <2>3. /\ Committable(i, match) \in SUBSET Nat
        /\ \A n \in Committable(i, match) : n <= LastIndex(log[i])
    BY <2>1, <2>2 DEF Committable
  <2>4. \E n \in Committable(i, match) : \A o \in Committable(i, match) : o <= n
    BY <1>2, <2>2, <2>3, GreatestExists
  <2> DEFINE c == CHOOSE n \in Committable(i, match) :
                    \A o \in Committable(i, match) : o <= n
  <2>5. c \in Nat
    BY <2>3, <2>4
  <2>6. Commit(i, log[i], c)
    BY <1>2 DEF Advance
  <2>7. QED
    BY <2>1, <2>5, <2>6, CommitType
<1>3. QED
  BY <1>1, <1>2

\* Node i takes over as a request tells it to; the request is typed.
LEMMA FollowLeaderType ==
  ASSUME TypeOK, NEW m \in AppendCall, FollowLeader(m)
  PROVE  /\ role' \in [Server -> {"Follower", "Candidate", "Leader"}]
         /\ currentTerm' \in [Server -> Nat]
         /\ votedFor' \in [Server -> Ids]
         /\ stepDown' \in [Server -> BOOLEAN]
         /\ leaderID' \in [Server -> Ids]
         /\ \A j \in Server : role'[j] = "Leader" => role[j] = "Leader"
<1>1. m.dst \in Server /\ m.src \in Server /\ m.term \in Nat
  BY DEF AppendCall
<1>2. leaderID' \in [Server -> Ids]
  BY <1>1 DEF TypeOK, FollowLeader, Ids
<1>3. CASE m.term > currentTerm[m.dst]
  BY <1>1, <1>2, <1>3, BecomeFollowerType DEF FollowLeader
<1>4. CASE ~(m.term > currentTerm[m.dst])
  BY <1>1, <1>2, <1>4 DEF TypeOK, FollowLeader
<1>5. QED
  BY <1>3, <1>4

\* What a handled request leaves, whatever it leaves in the WAL.
LEMMA AppendToType ==
  ASSUME TypeInv, NEW m \in AppendCall, NEW w \in Seq(Entry), AppendTo(m, w),
         used' \in Budget
  PROVE  TypeInv'
<1> DEFINE i == m.dst
           l == Rewrite(log[i], log[i], m.entries)
<1> USE DEF TypeInv
<1>1. /\ i \in Server /\ m.entries \in Seq(Entry) /\ m.commit \in Nat
      /\ m.term \in Nat /\ log[i] \in Seq(Entry) /\ commitIndex[i] \in Nat
  BY DEF AppendCall, TypeOK
<1>2. l \in Seq(Entry)
  BY <1>1, RewriteType
<1>3. FollowerCommit(i, m, l) \in Nat
  BY <1>1, <1>2, LastType DEF FollowerCommit, Smaller
<1>4. /\ commitIndex' \in [Server -> Nat]
      /\ lastApplied' \in [Server -> Nat]
      /\ applied' \in [Server -> Seq(Entry)]
  BY <1>1, <1>2, <1>3, CommitType DEF AppendTo
<1>5. log' \in [Server -> Seq(Entry)] /\ wal' \in [Server -> Seq(Entry)]
  BY <1>1, <1>2 DEF AppendTo, TypeOK
<1>6. calls' \in SUBSET Call
  <2>1. AppendReply(m, m.term, TRUE, 0) \in Call
    BY <1>1, AppendReplyType
  <2>2. QED
    BY <2>1, ReplyType DEF AppendTo, TypeOK
<1>7. /\ role' \in [Server -> {"Follower", "Candidate", "Leader"}]
      /\ currentTerm' \in [Server -> Nat]
      /\ votedFor' \in [Server -> Ids]
      /\ stepDown' \in [Server -> BOOLEAN]
      /\ leaderID' \in [Server -> Ids]
      /\ \A j \in Server : role'[j] = "Leader" => role[j] = "Leader"
  BY FollowLeaderType DEF AppendTo
<1>8. TypeOK'
  BY <1>4, <1>5, <1>6, <1>7 DEF TypeOK, AppendTo, leadVars, ghostVars
<1>9. Routable'
  <2>1. nextIndex' = nextIndex /\ proposals' = proposals
    BY DEF AppendTo, leadVars
  <2>2. QED
    BY <1>7, <2>1 DEF Routable
<1>10. QED
  BY <1>8, <1>9

\* What a crash leaves, whatever is in the WAL and in flight.
LEMMA RestartType ==
  ASSUME TypeInv, NEW i \in Server, NEW w \in Seq(Entry), Restart(i, w),
         calls' \in SUBSET Call
  PROVE  TypeInv'
<1> USE DEF TypeInv
<1>1. LastIndex(w) \in Nat
  BY LastType
<1>2. proposals \in [1 .. Len(proposals) -> Proposal] /\ Len(proposals) \in Nat
  BY LenProperties DEF TypeOK
<1>3. DOMAIN proposals' = DOMAIN proposals
  BY DEF Restart
<1>4. ASSUME NEW p \in DOMAIN proposals
      PROVE  /\ proposals'[p] \in Proposal
             /\ proposals'[p].node = proposals[p].node
             /\ proposals'[p].todo = IF proposals[p].node = i THEN {}
                                     ELSE proposals[p].todo
  BY <1>2, <1>4 DEF Restart, Proposal
<1>5. proposals' \in Seq(Proposal)
  <2>1. proposals' \in [1 .. Len(proposals) -> Proposal]
    BY <1>2, <1>3, <1>4 DEF Restart
  <2>2. QED
    BY <1>2, <2>1, SeqDef
<1>6. /\ role' \in [Server -> {"Follower", "Candidate", "Leader"}]
      /\ currentTerm' \in [Server -> Nat]
      /\ votedFor' \in [Server -> Ids]
      /\ stepDown' \in [Server -> BOOLEAN]
      /\ leaderID' \in [Server -> Ids]
  BY DEF TypeOK, Restart, Ids
<1>7. /\ log' \in [Server -> Seq(Entry)]
      /\ wal' \in [Server -> Seq(Entry)]
      /\ applied' \in [Server -> Seq(Entry)]
      /\ commitIndex' \in [Server -> Nat]
      /\ lastApplied' \in [Server -> Nat]
  BY <1>1 DEF TypeOK, Restart
<1>8. /\ nextIndex' \in [Server -> [Server -> Nat]]
      /\ matchIndex' \in [Server -> [Server -> Nat]]
      /\ loop' \in [Server -> {"run", "campaign", "Follower", "Candidate", "Leader"}]
      /\ campaign' \in [Server -> [round: Nat, term: Nat, voters: SUBSET Server]]
  BY DEF TypeOK, Restart, Idle
<1>9. /\ used' \in Budget
      /\ cast' \in SUBSET [voter: Server, term: Nat, for: Server]
      /\ wins' \in SUBSET [node: Server, term: Nat, round: Nat]
  <2>1. used \in Budget
    BY DEF TypeOK
  <2>2. used' = [used EXCEPT !.crashes = @ + 1] /\ cast' = cast /\ wins' = wins
    BY DEF Restart, ghostVars
  <2>3. QED
    BY <2>1, <2>2, SpendType DEF TypeOK
<1>10. TypeOK'
  BY <1>5, <1>6, <1>7, <1>8, <1>9 DEF TypeOK
<1>11. Routable'
  <2>1. ASSUME NEW j \in Server, role'[j] = "Leader", NEW k \in Peers(j)
        PROVE  nextIndex'[j][k] >= 1
    <3>1. j # i /\ role[j] = "Leader" /\ nextIndex'[j] = nextIndex[j]
      BY <2>1 DEF TypeOK, Restart
    <3>2. QED
      BY <2>1, <3>1 DEF Routable
  <2>2. ASSUME NEW p \in DOMAIN proposals'
        PROVE  LET n == proposals'[p].node IN
               /\ proposals'[p].todo \subseteq Peers(n)
               /\ \A j \in proposals'[p].todo : nextIndex'[n][j] >= 1
    <3>1. proposals[p].node \in Server
      BY <1>2, <1>3, <2>2 DEF Proposal
    <3>2. CASE proposals[p].node = i
      BY <1>3, <1>4, <2>2, <3>2
    <3>3. CASE proposals[p].node # i
      <4>1. nextIndex'[proposals[p].node] = nextIndex[proposals[p].node]
        BY <3>1, <3>3 DEF TypeOK, Restart
      <4>2. QED
        BY <1>3, <1>4, <2>2, <3>3, <4>1 DEF Routable
    <3>4. QED
      BY <3>2, <3>3
  <2>3. QED
    BY <2>1, <2>2 DEF Routable
<1>12. QED
  BY <1>10, <1>11

LEMMA OrphanedType ==
  ASSUME NEW i, NEW cs \in SUBSET Call
  PROVE  Orphaned(i, cs) \in SUBSET Call
<1>1. ASSUME NEW m \in Call, m.kind = "vote" \/ m.kind = "append"
      PROVE  [m EXCEPT !.live = FALSE] \in Call
  <2>1. CASE m \in VoteCall
    BY <2>1 DEF VoteCall, Call
  <2>2. CASE m \in AppendCall
    BY <2>2 DEF AppendCall, Call
  <2>3. QED
    BY <1>1, <2>1, <2>2, KindType
<1>2. QED
  BY <1>1 DEF Orphaned

-----------------------------------------------------------------------------
(* One lemma per action, or per group of actions of one shape.             *)

LEMMA RunType ==
  ASSUME TypeInv, NEW i \in Server,
         Dispatch(i) \/ ElectionTimeout(i) \/ CampaignTimeout(i) \/ StepDown(i)
  PROVE  TypeInv'
<1> USE DEF TypeInv
<1>1. CASE Dispatch(i)
  BY <1>1 DEF TypeOK, Routable, Dispatch, nodeVars, logVars, leadVars, ghostVars
<1>2. CASE ElectionTimeout(i)
  <2>1. TypeOK'
    BY <1>2 DEF TypeOK, ElectionTimeout, logVars, leadVars, ghostVars
  <2>2. \A j \in Server : role'[j] = "Leader" => role[j] = "Leader"
    BY <1>2 DEF TypeOK, ElectionTimeout
  <2>3. QED
    BY <1>2, <2>1, <2>2 DEF Routable, ElectionTimeout, leadVars
<1>3. CASE CampaignTimeout(i)
  BY <1>3 DEF TypeOK, Routable, CampaignTimeout, EndCampaign, Return, Idle,
              nodeVars, logVars, leadVars, ghostVars
<1>4. CASE StepDown(i)
  <2>1. /\ loop' \in [Server -> {"run", "campaign", "Follower", "Candidate", "Leader"}]
        /\ stepDown' \in [Server -> BOOLEAN]
    BY <1>4 DEF TypeOK, StepDown, EndCampaign, Return
  <2>2. campaign' \in [Server -> [round: Nat, term: Nat, voters: SUBSET Server]]
    <3>1. Idle \in [round: Nat, term: Nat, voters: SUBSET Server]
      BY DEF Idle
    <3>2. campaign' = [campaign EXCEPT ![i] = Idle] \/ campaign' = campaign
      BY <1>4 DEF StepDown, EndCampaign
    <3>3. QED
      BY <3>1, <3>2 DEF TypeOK
  <2>3. TypeOK'
    BY <1>4, <2>1, <2>2 DEF TypeOK, StepDown, logVars, leadVars, ghostVars
  <2>4. Routable'
    BY <1>4 DEF Routable, StepDown, leadVars
  <2>5. QED
    BY <2>3, <2>4
<1>5. QED
  BY <1>1, <1>2, <1>3, <1>4

LEMMA StartElectionType ==
  ASSUME TypeInv, NEW i \in Server, StartElection(i)
  PROVE  TypeInv'
<1> USE DEF TypeInv
<1>1. used.elections + 1 \in Nat /\ currentTerm[i] + 1 \in Nat
  BY SMTT(30) DEF TypeOK, Budget
<1>2. calls' \in SUBSET Call
  <2>1. \A j \in Peers(i) : VoteRequest(i, j, used.elections + 1) \in Call
    BY <1>1, VoteRequestType DEF Peers
  <2>2. QED
    BY <2>1, SendType DEF StartElection, TypeOK
<1>3. used' \in Budget
  BY SpendType DEF StartElection, TypeOK
<1>4. /\ currentTerm' \in [Server -> Nat]
      /\ votedFor' \in [Server -> Ids]
      /\ cast' \in SUBSET [voter: Server, term: Nat, for: Server]
  BY <1>1 DEF StartElection, TypeOK, Ids
<1>5. /\ campaign' \in [Server -> [round: Nat, term: Nat, voters: SUBSET Server]]
      /\ loop' \in [Server -> {"run", "campaign", "Follower", "Candidate", "Leader"}]
  BY <1>1 DEF StartElection, TypeOK
<1>6. TypeOK'
  BY <1>2, <1>3, <1>4, <1>5 DEF StartElection, TypeOK, logVars, leadVars
<1>7. Routable'
  BY DEF StartElection, Routable, leadVars
<1>8. QED
  BY <1>6, <1>7

LEMMA WinType ==
  ASSUME TypeInv, NEW i \in Server, Win(i)
  PROVE  TypeInv'
<1> USE DEF TypeInv
<1>1. /\ campaign' \in [Server -> [round: Nat, term: Nat, voters: SUBSET Server]]
      /\ loop' \in [Server -> {"run", "campaign", "Follower", "Candidate", "Leader"}]
  BY DEF TypeOK, Win, EndCampaign, Return, Idle
<1>2. FirstNext(i) \in Nat /\ FirstNext(i) >= 1
  <2>1. log[i] \in Seq(Entry)
    BY DEF TypeOK
  <2>2. QED
    BY <2>1, LastType DEF FirstNext
<1>3. CASE StillCandidate(i)
  <2>1. /\ role' \in [Server -> {"Follower", "Candidate", "Leader"}]
        /\ leaderID' \in [Server -> Ids]
        /\ matchIndex' \in [Server -> [Server -> Nat]]
        /\ wins' \in SUBSET [node: Server, term: Nat, round: Nat]
    <3>1. currentTerm[i] \in Nat /\ campaign[i].round \in Nat
      BY DEF TypeOK
    <3>2. wins' \in SUBSET [node: Server, term: Nat, round: Nat]
      BY <1>3, <3>1 DEF TypeOK, Win
    <3>3. role' \in [Server -> {"Follower", "Candidate", "Leader"}]
      BY <1>3 DEF TypeOK, Win
    <3>4. leaderID' \in [Server -> Ids]
      <4>1. leaderID \in [Server -> Ids] /\ i \in Ids
        BY DEF TypeOK, Ids
      <4>2. leaderID' = [leaderID EXCEPT ![i] = i]
        BY <1>3 DEF Win
      <4>3. QED
        BY <4>1, <4>2
    <3>5. matchIndex' \in [Server -> [Server -> Nat]]
      <4>1. [j \in Server |-> 0] \in [Server -> Nat]
        OBVIOUS
      <4>2. QED
        BY <1>3, <4>1 DEF TypeOK, Win
    <3>6. QED
      BY <3>2, <3>3, <3>4, <3>5
  <2>2. nextIndex' \in [Server -> [Server -> Nat]]
    <3>1. [j \in Server |-> IF j = i THEN 0 ELSE FirstNext(i)] \in [Server -> Nat]
      BY <1>2
    <3>2. QED
      BY <1>3, <3>1 DEF TypeOK, Win
  <2>3. TypeOK'
    BY <1>1, <2>1, <2>2 DEF TypeOK, Win, logVars
  <2>4. ASSUME NEW j \in Server, NEW k \in Peers(j),
               role[j] = "Leader" \/ j = i \/ nextIndex[j][k] >= 1
        PROVE  (role'[j] = "Leader" \/ nextIndex[j][k] >= 1) => nextIndex'[j][k] >= 1
    <3>1. CASE j = i
      BY <1>2, <1>3, <2>4, <3>1 DEF TypeOK, Win, Peers
    <3>2. CASE j # i
      BY <1>3, <2>4, <3>2 DEF TypeOK, Routable, Win
    <3>3. QED
      BY <3>1, <3>2
  <2>5. \A j \in Server : role'[j] = "Leader" => role[j] = "Leader" \/ j = i
    BY <1>3 DEF TypeOK, Win
  <2>6. \A p \in DOMAIN proposals : proposals[p].node \in Server
    BY ProposalType
  <2>7. Routable'
    BY <1>3, <2>4, <2>5, <2>6 DEF Win, Routable
  <2>8. QED
    BY <2>3, <2>7
<1>4. CASE ~StillCandidate(i)
  BY <1>1, <1>4 DEF TypeOK, Routable, Win, leadVars, logVars
<1>5. QED
  BY <1>3, <1>4

LEMMA SendHeartbeatsType ==
  ASSUME TypeInv, NEW i \in Server, SendHeartbeats(i)
  PROVE  TypeInv'
<1> USE DEF TypeInv
<1>1. <<>> \in Seq(Entry) /\ currentTerm[i] \in Nat
  BY EmptySeq DEF TypeOK
<1>2. \A j \in Peers(i) : AppendRequest(i, j, 0, currentTerm[i], 0, <<>>) \in Call
  BY <1>1, AppendRequestType DEF Peers
<1>3. calls' \in SUBSET Call
  <2>1. calls \in SUBSET Call
    BY DEF TypeOK
  <2>2. {AppendRequest(i, j, 0, currentTerm[i], 0, <<>>) : j \in Peers(i)} \in SUBSET Call
    BY <1>2
  <2>3. QED
    BY <2>1, <2>2, SendType DEF SendHeartbeats
<1>4. used' \in Budget
  BY SpendType DEF SendHeartbeats, TypeOK
<1>5. QED
  BY <1>3, <1>4 DEF TypeOK, Routable, SendHeartbeats, nodeVars, logVars,
                    leadVars, ghostVars

LEMMA HandleRequestVoteType ==
  ASSUME TypeInv, NEW m \in calls, HandleRequestVote(m)
  PROVE  TypeInv'
<1> USE DEF TypeInv
<1>1. m \in VoteCall
  BY KindType DEF TypeOK, HandleRequestVote
<1>2. /\ m.dst \in Server /\ m.src \in Server /\ m.term \in Nat /\ m.round \in Nat
      /\ currentTerm[m.dst] \in Nat
  BY <1>1 DEF VoteCall, TypeOK
<1>3. PICK t \in Nat, granted \in BOOLEAN :
        /\ currentTerm' = [currentTerm EXCEPT ![m.dst] = t]
        /\ calls' = Reply(m, [kind |-> "voteReply", src |-> m.src, dst |-> m.dst,
                              round |-> m.round, granted |-> granted,
                              term |-> IF granted THEN t ELSE currentTerm[m.dst]])
        /\ cast' = IF granted
                   THEN cast \cup {[voter |-> m.dst, term |-> t, for |-> m.src]}
                   ELSE cast
  BY <1>2 DEF HandleRequestVote
<1>4. calls' \in SUBSET Call
  <2>1. [kind |-> "voteReply", src |-> m.src, dst |-> m.dst, round |-> m.round,
         granted |-> granted,
         term |-> IF granted THEN t ELSE currentTerm[m.dst]] \in VoteAnswer
    BY <1>2 DEF VoteAnswer
  <2>2. QED
    BY <1>3, <2>1, ReplyType DEF TypeOK, Call
<1>5. /\ currentTerm' \in [Server -> Nat]
      /\ cast' \in SUBSET [voter: Server, term: Nat, for: Server]
  <2>1. [voter |-> m.dst, term |-> t, for |-> m.src]
          \in [voter: Server, term: Nat, for: Server]
    BY <1>2
  <2>2. cast' \in SUBSET [voter: Server, term: Nat, for: Server]
    BY <1>3, <2>1 DEF TypeOK
  <2>3. QED
    BY <1>3, <2>2 DEF TypeOK
<1>6. /\ role' \in [Server -> {"Follower", "Candidate", "Leader"}]
      /\ stepDown' \in [Server -> BOOLEAN]
      /\ votedFor' \in [Server -> Ids]
      /\ \A j \in Server : role'[j] = "Leader" => role[j] = "Leader"
  BY <1>2 DEF TypeOK, HandleRequestVote, Ids
<1>7. TypeOK'
  BY <1>4, <1>5, <1>6 DEF TypeOK, HandleRequestVote, logVars, leadVars
<1>8. Routable'
  BY <1>6 DEF Routable, HandleRequestVote, leadVars
<1>9. QED
  BY <1>7, <1>8

LEMMA HandleVoteReplyType ==
  ASSUME TypeInv, NEW m \in calls, HandleVoteReply(m)
  PROVE  TypeInv'
<1> USE DEF TypeInv
<1>1. m \in VoteAnswer
  BY KindType DEF TypeOK, HandleVoteReply
<1>2. m.src \in Server /\ m.dst \in Server /\ m.term \in Nat
  BY <1>1 DEF VoteAnswer
<1>3. calls' \in SUBSET Call
  BY DEF TypeOK, HandleVoteReply
<1>4. CASE m.term > currentTerm[m.src]
  <2>1. BecomeFollower(m.src, m.term) /\ campaign' = campaign
    BY <1>4 DEF HandleVoteReply
  <2>2. TypeOK'
    BY <1>2, <1>3, <2>1, BecomeFollowerType
    DEF TypeOK, HandleVoteReply, logVars, leadVars, ghostVars
  <2>3. Routable'
    BY <1>2, <2>1, BecomeFollowerType DEF Routable, HandleVoteReply, leadVars
  <2>4. QED
    BY <2>2, <2>3
<1>5. CASE ~(m.term > currentTerm[m.src])
  <2>1. campaign' \in [Server -> [round: Nat, term: Nat, voters: SUBSET Server]]
    <3>1. CASE campaign' = campaign
      BY <3>1 DEF TypeOK
    <3>2. CASE campaign' = [campaign EXCEPT ![m.src].voters = @ \cup {m.dst}]
      <4>1. campaign[m.src] \in [round: Nat, term: Nat, voters: SUBSET Server]
        BY <1>2 DEF TypeOK
      <4>2. [campaign[m.src] EXCEPT !.voters = @ \cup {m.dst}]
              \in [round: Nat, term: Nat, voters: SUBSET Server]
        BY <1>2, <4>1
      <4>3. QED
        BY <3>2, <4>2 DEF TypeOK
    <3>3. QED
      BY <1>5, <3>1, <3>2 DEF HandleVoteReply
  <2>2. QED
    BY <1>3, <1>5, <2>1
    DEF TypeOK, Routable, HandleVoteReply, nodeVars, logVars, leadVars, ghostVars
<1>6. QED
  BY <1>4, <1>5

LEMMA RefuseAppendType ==
  ASSUME TypeInv, NEW m \in calls, RefuseAppend(m)
  PROVE  TypeInv'
<1> USE DEF TypeInv
<1>1. m \in AppendCall
  BY KindType DEF TypeOK, RefuseAppend
<1>2. currentTerm[m.dst] \in Nat
  BY <1>1 DEF AppendCall, TypeOK
<1>3. AppendReply(m, currentTerm[m.dst], FALSE, 0) \in Call
  BY <1>1, <1>2, AppendReplyType
<1>4. calls' \in SUBSET Call
  BY <1>3, ReplyType DEF RefuseAppend, TypeOK
<1>5. QED
  BY <1>4 DEF TypeOK, Routable, RefuseAppend, nodeVars, logVars, leadVars, ghostVars

LEMMA AppendConflictType ==
  ASSUME TypeInv, NEW m \in calls, AppendConflict(m)
  PROVE  TypeInv'
<1> USE DEF TypeInv
<1>1. m \in AppendCall
  BY KindType DEF TypeOK, AppendConflict
<1>2. currentTerm[m.dst] \in Nat /\ log[m.dst] \in Seq(Entry)
  BY <1>1 DEF AppendCall, TypeOK
<1>3. AppendReply(m, currentTerm[m.dst], FALSE, LastIndex(log[m.dst])) \in Call
  BY <1>1, <1>2, LastType, AppendReplyType
<1>4. calls' \in SUBSET Call
  BY <1>3, ReplyType DEF AppendConflict, TypeOK
<1>5. /\ role' \in [Server -> {"Follower", "Candidate", "Leader"}]
      /\ currentTerm' \in [Server -> Nat]
      /\ votedFor' \in [Server -> Ids]
      /\ stepDown' \in [Server -> BOOLEAN]
      /\ leaderID' \in [Server -> Ids]
      /\ \A j \in Server : role'[j] = "Leader" => role[j] = "Leader"
  BY <1>1, FollowLeaderType DEF AppendConflict
<1>6. TypeOK'
  BY <1>4, <1>5 DEF TypeOK, AppendConflict, logVars, leadVars, ghostVars
<1>7. Routable'
  BY <1>5 DEF Routable, AppendConflict, leadVars
<1>8. QED
  BY <1>6, <1>7

LEMMA HandleAppendEntriesType ==
  ASSUME TypeInv, NEW m \in calls, HandleAppendEntries(m) \/ AppendDiskError(m)
  PROVE  TypeInv'
<1>1. m \in AppendCall
  BY KindType DEF TypeInv, TypeOK, HandleAppendEntries, AppendDiskError
<1>2. /\ m.dst \in Server /\ m.entries \in Seq(Entry)
      /\ log[m.dst] \in Seq(Entry) /\ wal[m.dst] \in Seq(Entry)
  BY <1>1 DEF AppendCall, TypeInv, TypeOK
<1>3. CASE HandleAppendEntries(m)
  <2>1. used' \in Budget
    BY <1>3 DEF HandleAppendEntries, TypeInv, TypeOK
  <2>2. Rewrite(wal[m.dst], log[m.dst], m.entries) \in Seq(Entry)
    BY <1>2, RewriteType
  <2>3. QED
    BY <1>1, <1>3, <2>1, <2>2, AppendToType DEF HandleAppendEntries
<1>4. CASE AppendDiskError(m)
  <2>1. used' \in Budget
    BY <1>4, SpendType DEF AppendDiskError, TypeInv, TypeOK
  <2>2. PICK w \in FailedWal(wal[m.dst], log[m.dst], m.entries) : AppendTo(m, w)
    BY <1>4 DEF AppendDiskError
  <2>3. w \in Seq(Entry)
    BY <1>2, <1>4, FailedWalType DEF AppendDiskError
  <2>4. QED
    BY <1>1, <2>1, <2>2, <2>3, AppendToType
<1>5. QED
  BY <1>3, <1>4

LEMMA HandleHeartbeatReplyType ==
  ASSUME TypeInv, NEW m \in calls, HandleHeartbeatReply(m)
  PROVE  TypeInv'
<1> USE DEF TypeInv
<1>1. m \in AppendAnswer
  BY KindType DEF TypeOK, HandleHeartbeatReply
<1>2. m.src \in Server /\ m.term \in Nat
  BY <1>1 DEF AppendAnswer
<1>3. calls' \in SUBSET Call
  BY DEF TypeOK, HandleHeartbeatReply
<1>4. CASE m.term > m.sent
  <2>1. BecomeFollower(m.src, m.term)
    BY <1>4 DEF HandleHeartbeatReply
  <2>2. TypeOK'
    BY <1>2, <1>3, <2>1, BecomeFollowerType
    DEF TypeOK, HandleHeartbeatReply, logVars, leadVars, ghostVars
  <2>3. Routable'
    BY <1>2, <2>1, BecomeFollowerType DEF Routable, HandleHeartbeatReply, leadVars
  <2>4. QED
    BY <2>2, <2>3
<1>5. CASE ~(m.term > m.sent)
  BY <1>3, <1>5
  DEF TypeOK, Routable, HandleHeartbeatReply, nodeVars, logVars, leadVars, ghostVars
<1>6. QED
  BY <1>4, <1>5

LEMMA HandleAppendReplyType ==
  ASSUME TypeInv, NEW m \in calls, HandleAppendReply(m)
  PROVE  TypeInv'
<1> DEFINE i == m.src
           p == m.proposal
           acks == proposals[p].acks + 1
           match == [matchIndex[i] EXCEPT ![m.dst] = m.last]
           next == CASE m.success -> m.last + 1
                     [] m.conflict > 0 -> m.conflict
                     [] OTHER -> Larger(nextIndex[i][m.dst] - 1, 1)
<1> USE DEF TypeInv
<1>1. m \in AppendAnswer
  BY KindType DEF TypeOK, HandleAppendReply
<1>2. /\ i \in Server /\ m.dst \in Server /\ m.term \in Nat /\ p \in Nat
      /\ m.last \in Nat /\ m.conflict \in Nat /\ m.success \in BOOLEAN
  BY <1>1 DEF AppendAnswer
<1>3. calls' \in SUBSET Call
  BY DEF TypeOK, HandleAppendReply
<1>4. CASE m.term > currentTerm[i]
  <2>1. /\ BecomeFollower(i, m.term)
        /\ UNCHANGED <<log, wal, commitIndex, lastApplied, applied>>
        /\ UNCHANGED <<nextIndex, matchIndex, proposals>>
    BY <1>4 DEF HandleAppendReply, logVars, leadVars
  <2>2. TypeOK'
    BY <1>2, <1>3, <2>1, BecomeFollowerType DEF TypeOK, HandleAppendReply, ghostVars
  <2>3. Routable'
    BY <1>2, <2>1, BecomeFollowerType DEF Routable
  <2>4. QED
    BY <2>2, <2>3
<1>5. CASE ~(m.term > currentTerm[i])
  <2>1. next \in Nat /\ next >= 1
    <3>1. nextIndex[i][m.dst] \in Nat
      <4>1. nextIndex \in [Server -> [Server -> Nat]]
        BY DEF TypeOK
      <4>2. QED
        BY <1>2, <4>1
    <3>2. QED
      BY <1>2, <3>1 DEF Larger
  <2>2. /\ nextIndex' \in [Server -> [Server -> Nat]]
        /\ \A a, b \in Server : nextIndex[a][b] >= 1 => nextIndex'[a][b] >= 1
    <3>1. nextIndex' = nextIndex \/ nextIndex' = [nextIndex EXCEPT ![i][m.dst] = next]
      BY <1>5 DEF HandleAppendReply
    <3>2. CASE nextIndex' = nextIndex
      BY <3>2 DEF TypeOK
    <3>3. CASE nextIndex' = [nextIndex EXCEPT ![i][m.dst] = next]
      <4>1. nextIndex \in [Server -> [Server -> Nat]]
        BY DEF TypeOK
      <4> HIDE DEF next
      <4>2. QED
        BY <1>2, <2>1, <3>3, <4>1
    <3>4. QED
      BY <3>1, <3>2, <3>3
  <2>3. matchIndex' \in [Server -> [Server -> Nat]]
    <3>1. matchIndex' = matchIndex \/ matchIndex' = [matchIndex EXCEPT ![i] = match]
      BY <1>5 DEF HandleAppendReply
    <3>2. matchIndex \in [Server -> [Server -> Nat]]
      BY DEF TypeOK
    <3>3. match \in [Server -> Nat]
      BY <1>2, <3>2
    <3> HIDE DEF match
    <3>4. QED
      BY <1>2, <3>1, <3>2, <3>3
  <2>4. /\ proposals' \in Seq(Proposal)
        /\ DOMAIN proposals' = DOMAIN proposals
        /\ \A q \in DOMAIN proposals : /\ proposals'[q].node = proposals[q].node
                                       /\ proposals'[q].todo = proposals[q].todo
    <3>1. \/ proposals' = proposals
          \/ proposals' = [proposals EXCEPT ![p].acks = acks]
      BY <1>5 DEF HandleAppendReply
    <3>2. CASE proposals' = proposals \/ p \notin DOMAIN proposals
      BY <3>1, <3>2 DEF TypeOK
    <3>3. CASE proposals' = [proposals EXCEPT ![p].acks = acks] /\ p \in DOMAIN proposals
      <4>1. proposals[p] \in Proposal /\ acks \in Nat
        BY <3>3, ProposalType
      <4> DEFINE new == [proposals[p] EXCEPT !.acks = acks]
      <4>2. new \in Proposal /\ new.node = proposals[p].node /\ new.todo = proposals[p].todo
        BY <4>1 DEF Proposal
      <4>3. p \in 1 .. Len(proposals) /\ proposals \in Seq(Proposal)
        BY <3>3, LenProperties DEF TypeOK
      <4>4. proposals' = [proposals EXCEPT ![p] = new]
        BY <3>3
      <4> HIDE DEF new
      <4>5. proposals' \in Seq(Proposal)
        BY <4>2, <4>3, <4>4, ExceptSeq
      <4>6. QED
        BY <4>2, <4>4, <4>5
    <3>4. QED
      BY <3>1, <3>2, <3>3
  <2>5. /\ commitIndex' \in [Server -> Nat]
        /\ lastApplied' \in [Server -> Nat]
        /\ applied' \in [Server -> Seq(Entry)]
    <3>1. \/ Advance(i, match)
          \/ UNCHANGED <<commitIndex, lastApplied, applied>>
      BY <1>5 DEF HandleAppendReply
    <3>2. QED
      BY <1>2, <3>1, AdvanceType DEF TypeOK
  <2>6. TypeOK'
    BY <1>3, <1>5, <2>2, <2>3, <2>4, <2>5
    DEF TypeOK, HandleAppendReply, nodeVars, ghostVars
  <2>7. role' = role
    BY <1>5 DEF HandleAppendReply, nodeVars
  <2>8. Routable'
    <3>1. ASSUME NEW q \in DOMAIN proposals
          PROVE  proposals[q].node \in Server /\ proposals[q].todo \subseteq Server
      BY <3>1, ProposalType
    <3>2. QED
      BY <2>2, <2>4, <2>7, <3>1 DEF Routable, Peers
  <2>9. QED
    BY <2>6, <2>8
<1>6. QED
  BY <1>4, <1>5

LEMMA ProposeType ==
  ASSUME TypeInv, NEW i \in Server, NEW c \in Command,
         Propose(i, c) \/ ProposeDiskError(i, c)
  PROVE  TypeInv'
<1> DEFINE e == NewEntry(i, c)
<1> USE DEF TypeInv
<1>1. log[i] \in Seq(Entry) /\ wal[i] \in Seq(Entry) /\ currentTerm[i] \in Nat
  BY DEF TypeOK
<1>2. e \in Entry
  <2>1. LastIndex(log[i]) + 1 \in Nat
    BY <1>1, LastType
  <2>2. QED
    BY <1>1, <2>1 DEF NewEntry, Entry
<1>3. Append(log[i], e) \in Seq(Entry) /\ Append(wal[i], e) \in Seq(Entry)
  BY <1>1, <1>2, AppendProperties
<1> HIDE DEF e
<1>4. CASE Propose(i, c)
  <2> DEFINE new == [node |-> i, entry |-> e, acks |-> 1, todo |-> Peers(i),
                     waiting |-> TRUE]
  <2>1. log' \in [Server -> Seq(Entry)] /\ wal' \in [Server -> Seq(Entry)]
    BY <1>3, <1>4 DEF Propose, TypeOK, e
  <2>2. new \in Proposal
    BY <1>2 DEF Proposal, Peers
  <2>3. proposals' = Append(proposals, new) /\ proposals \in Seq(Proposal)
    BY <1>4 DEF Propose, e, TypeOK
  <2> HIDE DEF new
  <2>4. /\ proposals' \in Seq(Proposal)
        /\ DOMAIN proposals' = 1 .. Len(proposals) + 1
        /\ DOMAIN proposals = 1 .. Len(proposals)
        /\ Len(proposals) \in Nat
        /\ \A p \in DOMAIN proposals : proposals'[p] = proposals[p]
        /\ proposals'[Len(proposals) + 1] = new
    BY <2>2, <2>3, AppendProperties, LenProperties
  <2>5. TypeOK'
    BY <1>4, <2>1, <2>4 DEF TypeOK, Propose, nodeVars, leadVars, ghostVars
  <2>6. role' = role /\ nextIndex' = nextIndex /\ role[i] = "Leader"
    BY <1>4 DEF Propose, nodeVars, leadVars
  <2>7. new.node = i /\ new.todo = Peers(i)
    BY DEF new
  <2>8. ASSUME NEW p \in DOMAIN proposals'
        PROVE  LET n == proposals'[p].node IN
               /\ proposals'[p].todo \subseteq Peers(n)
               /\ \A j \in proposals'[p].todo : nextIndex'[n][j] >= 1
    <3>1. CASE p \in DOMAIN proposals
      BY <2>4, <2>6, <3>1 DEF Routable
    <3>2. CASE p = Len(proposals) + 1
      BY <2>4, <2>6, <2>7, <3>2 DEF Routable
    <3>3. QED
      BY <2>4, <2>8, <3>1, <3>2
  <2>9. Routable'
    BY <2>6, <2>8 DEF Routable
  <2>10. QED
    BY <2>5, <2>9
<1>5. CASE ProposeDiskError(i, c)
  <2>1. log' \in [Server -> Seq(Entry)] /\ used' \in Budget
    BY <1>3, <1>5, SpendType DEF ProposeDiskError, TypeOK, e
  <2>2. wal' \in [Server -> Seq(Entry)]
    BY <1>3, <1>5 DEF ProposeDiskError, TypeOK, e
  <2>3. QED
    BY <1>5, <2>1, <2>2
    DEF TypeOK, Routable, ProposeDiskError, nodeVars, leadVars, ghostVars
<1>6. QED
  BY <1>4, <1>5

LEMMA ReplicateType ==
  ASSUME TypeInv, NEW p \in DOMAIN proposals, NEW j \in Server, Replicate(p, j)
  PROVE  TypeInv'
<1> DEFINE i == proposals[p].node
           next == nextIndex[i][j]
           term == proposals[p].entry.term
           new == [proposals[p] EXCEPT !.todo = @ \ {j}]
<1> USE DEF TypeInv
<1>1. /\ i \in Server /\ term \in Nat /\ p \in Nat /\ proposals[p] \in Proposal
      /\ j \in proposals[p].todo
  BY ProposalType DEF Entry, Replicate
<1>2. next \in Nat /\ next >= 1
  <2>1. nextIndex \in [Server -> [Server -> Nat]] /\ next >= 1
    BY <1>1 DEF TypeOK, Routable
  <2>2. QED
    BY <1>1, <2>1
<1>3. next - 1 \in Nat
  BY <1>2
<1>4. From(log[i], next) \in Seq(Entry)
  <2>1. log[i] \in Seq(Entry) /\ next \in Int
    BY <1>1, <1>2 DEF TypeOK
  <2>2. QED
    BY <2>1, FromType
<1>5. AppendRequest(i, j, p, term, next - 1, From(log[i], next)) \in Call
  BY <1>1, <1>3, <1>4, AppendRequestType
<1>6. calls' \in SUBSET Call
  BY <1>5 DEF Replicate, TypeOK
<1>7. new \in Proposal /\ new.node = i /\ new.todo = proposals[p].todo \ {j}
  BY <1>1 DEF Proposal
<1>8. proposals' = [proposals EXCEPT ![p] = new]
  BY DEF Replicate
<1>9. proposals \in Seq(Proposal) /\ p \in 1 .. Len(proposals)
  BY LenProperties DEF TypeOK
<1> HIDE DEF new
<1>10. proposals' \in Seq(Proposal)
  BY <1>7, <1>8, <1>9, ExceptSeq
<1>11. /\ DOMAIN proposals' = DOMAIN proposals
       /\ \A q \in DOMAIN proposals : /\ proposals'[q].node = proposals[q].node
                                      /\ proposals'[q].todo \subseteq proposals[q].todo
  BY <1>7, <1>8
<1>12. TypeOK'
  BY <1>6, <1>10 DEF TypeOK, Replicate, nodeVars, logVars, leadVars, ghostVars
<1>13. Routable'
  BY <1>11 DEF Routable, Replicate, nodeVars, leadVars
<1>14. QED
  BY <1>12, <1>13

LEMMA CrashType ==
  ASSUME TypeInv, NEW i \in Server, Crash(i)
  PROVE  TypeInv'
<1>1. wal[i] \in Seq(Entry) /\ calls \in SUBSET Call
  BY DEF TypeInv, TypeOK
<1>2. calls' \in SUBSET Call
  BY <1>1, OrphanedType DEF Crash
<1>3. QED
  BY <1>1, <1>2, RestartType DEF Crash

LEMMA CrashInAppendType ==
  ASSUME TypeInv, NEW m \in calls, CrashInAppend(m)
  PROVE  TypeInv'
<1>1. m \in AppendCall
  BY KindType DEF TypeInv, TypeOK, CrashInAppend
<1>2. /\ m.dst \in Server /\ m.entries \in Seq(Entry)
      /\ log[m.dst] \in Seq(Entry) /\ wal[m.dst] \in Seq(Entry)
  BY <1>1 DEF AppendCall, TypeInv, TypeOK
<1>3. PICK w \in PartialWal(wal[m.dst], log[m.dst], m.entries) : Restart(m.dst, w)
  BY DEF CrashInAppend
<1>4. w \in Seq(Entry)
  BY <1>2, PartialWalType
<1>5. calls \ {m} \in SUBSET Call
  BY DEF TypeInv, TypeOK
<1>6. calls' \in SUBSET Call
  BY <1>5, OrphanedType DEF CrashInAppend
<1>7. QED
  BY <1>2, <1>3, <1>4, <1>6, RestartType

-----------------------------------------------------------------------------
\* Every step keeps the types of the variables.
LEMMA TypeStep == TypeInv /\ [Next]_vars => TypeInv'
<1> SUFFICES ASSUME TypeInv, [Next]_vars PROVE TypeInv'
  OBVIOUS
<1>1. ASSUME NEW i \in Server,
             \/ Dispatch(i) \/ ElectionTimeout(i) \/ StartElection(i) \/ Win(i)
             \/ CampaignTimeout(i) \/ StepDown(i) \/ SendHeartbeats(i) \/ Crash(i)
      PROVE  TypeInv'
  BY <1>1, RunType, StartElectionType, WinType, SendHeartbeatsType, CrashType
<1>2. ASSUME NEW i \in Server, NEW c \in Command,
             Propose(i, c) \/ ProposeDiskError(i, c)
      PROVE  TypeInv'
  BY <1>2, ProposeType
<1>3. ASSUME NEW m \in calls, Receive(m) \/ CrashInAppend(m)
      PROVE  TypeInv'
  BY <1>3, HandleRequestVoteType, HandleVoteReplyType, RefuseAppendType,
     AppendConflictType, HandleAppendEntriesType, HandleHeartbeatReplyType,
     HandleAppendReplyType, CrashInAppendType DEF Receive
<1>4. ASSUME NEW p \in DOMAIN proposals, NEW j \in Server, Replicate(p, j)
      PROVE  TypeInv'
  BY <1>4, ReplicateType
<1>5. CASE UNCHANGED vars
  BY <1>5 DEF TypeInv, TypeOK, Routable, vars, nodeVars, logVars, leadVars, ghostVars
<1>6. QED
  BY <1>1, <1>2, <1>3, <1>4, <1>5 DEF Next

\* Whatever the number of nodes and whatever the environment does, every field
\* of Node and every message in flight has its type, and the prevLogIndex of a
\* replication, nextIndex - 1 on an unsigned number, never wraps below zero.
THEOREM TypeCorrect == Spec => []TypeOK
<1>1. TypeInv => TypeOK
  BY DEF TypeInv
<1>2. QED
  BY TypeInit, TypeStep, <1>1, PTL DEF Spec
=============================================================================
