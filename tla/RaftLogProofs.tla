--------------------------- MODULE RaftLogProofs ---------------------------
(***************************************************************************)
(* Logs, the write-ahead log and the applied commands of RaftKV, for every *)
(* set of nodes, every number of elections, proposals and crashes, and     *)
(* every order and loss of calls.                                          *)
(***************************************************************************)
EXTENDS RaftTypes

\* The entries of a request continue the log after its prevIndex.
Follows(es, prev) == \A k \in DOMAIN es : es[k].index = prev + k

-----------------------------------------------------------------------------
(* The log operators on contiguous logs.                                   *)

LEMMA ContiguousBefore ==
  ASSUME NEW l \in Seq(Entry), Contiguous(l), NEW n \in Nat \ {0}
  PROVE  Before(l, n) = Smaller(n - 1, Len(l))
<1> DEFINE b == Smaller(n - 1, Len(l))
<1>1. Len(l) \in Nat /\ DOMAIN l = 1 .. Len(l)
  BY LenProperties
<1>2. b \in Nat /\ b \in Int
  BY <1>1 DEF Smaller
<1>3. {k \in DOMAIN l : l[k].index < n} = 1 .. b
  BY <1>1 DEF Contiguous, Smaller
<1>4. Cardinality(1 .. b) = b
  BY <1>2, FS_Interval
<1>5. QED
  BY <1>3, <1>4 DEF Before

LEMMA ContiguousLast ==
  ASSUME NEW l \in Seq(Entry), Contiguous(l)
  PROVE  LastIndex(l) = Len(l) /\ Len(l) \in Nat
<1>1. Len(l) \in Nat /\ DOMAIN l = 1 .. Len(l)
  BY LenProperties
<1>2. CASE l = <<>>
  BY <1>2, EmptySeq DEF LastIndex
<1>3. CASE l # <<>>
  <2>1. Len(l) \in DOMAIN l
    BY <1>1, <1>3, EmptySeq
  <2>2. QED
    BY <1>1, <1>3, <2>1 DEF LastIndex, Contiguous
<1>4. QED
  BY <1>2, <1>3

LEMMA ContiguousBelow ==
  ASSUME NEW l \in Seq(Entry), Contiguous(l), NEW n \in Nat \ {0}
  PROVE  /\ Below(l, n) \in Seq(Entry)
         /\ Len(Below(l, n)) = Smaller(n - 1, Len(l))
         /\ Contiguous(Below(l, n))
<1> DEFINE b == Smaller(n - 1, Len(l))
<1>1. Len(l) \in Nat /\ DOMAIN l = 1 .. Len(l)
  BY LenProperties
<1>2. b \in Nat /\ b <= Len(l)
  BY <1>1 DEF Smaller
<1>3. Below(l, n) = SubSeq(l, 1, b)
  BY ContiguousBefore DEF Below
<1> HIDE DEF b
<1>4. /\ SubSeq(l, 1, b) \in Seq(Entry)
      /\ Len(SubSeq(l, 1, b)) = b
      /\ \A k \in 1 .. b : SubSeq(l, 1, b)[k] = l[k]
  BY <1>2, StretchType
<1>5. Contiguous(SubSeq(l, 1, b))
  <2>1. DOMAIN SubSeq(l, 1, b) = 1 .. b
    BY <1>4, LenProperties
  <2>2. QED
    BY <1>1, <1>2, <1>4, <2>1 DEF Contiguous
<1>6. QED
  BY <1>3, <1>4, <1>5 DEF b

LEMMA ContiguousFrom ==
  ASSUME NEW l \in Seq(Entry), Contiguous(l), NEW n \in Nat \ {0}
  PROVE  /\ From(l, n) \in Seq(Entry)
         /\ Len(From(l, n)) = Len(l) - Smaller(n - 1, Len(l))
         /\ Follows(From(l, n), n - 1)
<1>1. Len(l) \in Nat /\ DOMAIN l = 1 .. Len(l)
  BY LenProperties
<1>2. PICK b \in Nat : /\ b = Smaller(n - 1, Len(l))
                       /\ b <= Len(l)
                       /\ b < Len(l) => b = n - 1
  <2>1. n - 1 \in Nat
    OBVIOUS
  <2>2. \A x, y \in Nat : /\ Smaller(x, y) \in Nat
                          /\ Smaller(x, y) <= y
                          /\ Smaller(x, y) < y => Smaller(x, y) = x
    BY DEF Smaller
  <2>3. QED
    BY <1>1, <2>1, <2>2
<1>3. From(l, n) = SubSeq(l, b + 1, Len(l))
  BY <1>2, ContiguousBefore DEF From
<1>4. /\ SubSeq(l, b + 1, Len(l)) \in Seq(Entry)
      /\ Len(SubSeq(l, b + 1, Len(l))) = Len(l) - b
      /\ \A k \in 1 .. Len(l) - b : SubSeq(l, b + 1, Len(l))[k] = l[b + k]
  <2>1. b + 1 \in Nat \ {0}
    BY <1>2
  <2> DEFINE s == SubSeq(l, b + 1, Len(l))
  <2>2. /\ s \in Seq(Entry)
        /\ Len(s) = IF b + 1 <= Len(l) THEN Len(l) - (b + 1) + 1 ELSE 0
        /\ \A k \in 1 .. Len(s) : s[k] = l[b + 1 + k - 1]
    BY <1>1, <2>1, StretchType
  <2> HIDE DEF s
  <2>3. Len(s) = Len(l) - b
    <3>1. CASE b + 1 <= Len(l)
      BY <1>1, <1>2, <2>2, <3>1
    <3>2. CASE b = Len(l)
      BY <1>1, <1>2, <2>2, <3>2
    <3>3. b + 1 <= Len(l) \/ b = Len(l)
      BY <1>1, <1>2
    <3>4. QED
      BY <3>1, <3>2, <3>3
  <2>4. \A k \in 1 .. Len(l) - b : s[k] = l[b + k]
    <3>1. ASSUME NEW k \in 1 .. Len(l) - b PROVE s[k] = l[b + k]
      <4>1. b + 1 + k - 1 = b + k
        BY <1>1, <1>2
      <4>2. QED
        BY <2>2, <2>3, <4>1
    <3>2. QED
      BY <3>1
  <2>5. QED
    BY <2>2, <2>3, <2>4 DEF s
<1>5. Follows(SubSeq(l, b + 1, Len(l)), n - 1)
  <2>1. DOMAIN SubSeq(l, b + 1, Len(l)) = 1 .. Len(l) - b
    BY <1>4, LenProperties
  <2>2. ASSUME NEW k \in 1 .. Len(l) - b
        PROVE  l[b + k].index = n - 1 + k
    <3>1. b + k \in DOMAIN l /\ b = n - 1
      BY <1>1, <1>2
    <3>2. QED
      BY <3>1 DEF Contiguous
  <2>3. QED
    BY <1>4, <2>1, <2>2 DEF Follows
<1>6. QED
  BY <1>2, <1>3, <1>4, <1>5

\* Joining a contiguous log and entries that follow it gives a contiguous log.
LEMMA ContiguousJoin ==
  ASSUME NEW l \in Seq(Entry), Contiguous(l), NEW es \in Seq(Entry),
         Follows(es, Len(l))
  PROVE  l \o es \in Seq(Entry) /\ Contiguous(l \o es)
<1>1. Len(l) \in Nat /\ DOMAIN l = 1 .. Len(l) /\ Len(es) \in Nat /\ DOMAIN es = 1 .. Len(es)
  BY LenProperties
<1>2. /\ l \o es \in Seq(Entry)
      /\ Len(l \o es) = Len(l) + Len(es)
      /\ \A k \in 1 .. Len(l) + Len(es) :
           (l \o es)[k] = IF k <= Len(l) THEN l[k] ELSE es[k - Len(l)]
  BY ConcatProperties
<1>3. DOMAIN (l \o es) = 1 .. Len(l) + Len(es)
  BY <1>2, LenProperties
<1>4. ASSUME NEW k \in 1 .. Len(l) + Len(es)
      PROVE  (l \o es)[k].index = k
  <2>1. CASE k <= Len(l)
    BY <1>1, <1>2, <2>1 DEF Contiguous
  <2>2. CASE ~(k <= Len(l))
    <3>1. k - Len(l) \in DOMAIN es
      BY <1>1, <2>2
    <3>2. es[k - Len(l)].index = Len(l) + (k - Len(l))
      BY <3>1 DEF Follows
    <3>3. QED
      BY <1>1, <1>2, <2>2, <3>2
  <2>3. QED
    BY <2>1, <2>2
<1>5. QED
  BY <1>2, <1>3, <1>4 DEF Contiguous

\* A prefix of a contiguous log is contiguous.
LEMMA ContiguousPrefix ==
  ASSUME NEW l \in Seq(Entry), Contiguous(l), NEW n \in 0 .. Len(l)
  PROVE  SubSeq(l, 1, n) \in Seq(Entry) /\ Contiguous(SubSeq(l, 1, n))
<1>1. Len(l) \in Nat /\ DOMAIN l = 1 .. Len(l)
  BY LenProperties
<1>2. /\ SubSeq(l, 1, n) \in Seq(Entry)
      /\ Len(SubSeq(l, 1, n)) = n
      /\ \A k \in 1 .. n : SubSeq(l, 1, n)[k] = l[k]
  BY <1>1, StretchType
<1>3. DOMAIN SubSeq(l, 1, n) = 1 .. n
  BY <1>2, LenProperties
<1>4. QED
  BY <1>1, <1>2, <1>3 DEF Contiguous

\* The loop of HandleAppendEntries leaves a contiguous log: the entry that it
\* appends first follows either the ones it has found in the log or the cut.
LEMMA RewriteContiguous ==
  ASSUME NEW l \in Seq(Entry), Contiguous(l), NEW es \in Seq(Entry),
         NEW prev \in Nat, Follows(es, prev), prev <= Len(l)
  PROVE  Contiguous(Rewrite(l, l, es))
<1> DEFINE k == FirstMissing(l, es)
           rest == SubSeq(es, k, Len(es))
<1>1. CASE Missing(l, es) = {}
  BY <1>1 DEF Rewrite
<1>2. CASE Missing(l, es) # {}
  <2>1. /\ Len(l) \in Nat /\ Len(es) \in Nat /\ DOMAIN es = 1 .. Len(es)
        /\ LastIndex(l) = Len(l)
    BY LenProperties, ContiguousLast
  <2>2. /\ k \in 1 .. Len(es)
        /\ \A n \in 1 .. Len(es) : n < k => Has(l, es[n])
    <3>1. k \in Missing(l, es) /\ \A n \in Missing(l, es) : k <= n
      BY <1>2, FirstMissingLeast
    <3>2. QED
      BY <2>1, <3>1 DEF Missing
  <2> HIDE DEF k
  <2>3. es[k].index = prev + k
    BY <2>1, <2>2 DEF Follows
  <2>4. rest \in Seq(Entry) /\ Follows(rest, prev + k - 1)
    <3>1. k \in Nat \ {0}
      BY <2>1, <2>2
    <3>2. /\ rest \in Seq(Entry)
          /\ Len(rest) = Len(es) - k + 1
          /\ \A n \in 1 .. Len(rest) : rest[n] = es[k + n - 1]
      BY <2>1, <2>2, <3>1, StretchType
    <3>3. DOMAIN rest = 1 .. Len(es) - k + 1
      BY <3>2, LenProperties
    <3> HIDE DEF rest
    <3>4. ASSUME NEW n \in DOMAIN rest
          PROVE  rest[n].index = prev + k - 1 + n
      <4>1. k + n - 1 \in DOMAIN es
        BY <2>1, <2>2, <3>3
      <4>2. es[k + n - 1].index = prev + (k + n - 1)
        BY <4>1 DEF Follows
      <4>3. rest[n] = es[k + n - 1]
        <5>1. n \in 1 .. Len(rest)
          BY <3>2, <3>3
        <5>2. QED
          BY <3>2, <5>1
      <4>4. QED
        BY <2>1, <2>2, <3>3, <4>2, <4>3
    <3>5. QED
      BY <3>2, <3>4 DEF Follows
  <2> HIDE DEF rest
  <2>5. CASE Cuts(l, es)
    <3>1. prev + k <= Len(l) /\ prev + k \in Nat \ {0}
      BY <2>1, <2>2, <2>3, <2>5 DEF Cuts, k
    <3>2. /\ Below(l, prev + k) \in Seq(Entry)
          /\ Len(Below(l, prev + k)) = prev + k - 1
          /\ Contiguous(Below(l, prev + k))
      <4>1. PICK at \in Nat \ {0} : at = prev + k
        BY <3>1
      <4>2. at - 1 < Len(l) /\ at - 1 \in Nat /\ at - 1 = prev + k - 1
        BY <2>1, <2>2, <3>1, <4>1
      <4>3. /\ Below(l, at) \in Seq(Entry)
            /\ Len(Below(l, at)) = Smaller(at - 1, Len(l))
            /\ Contiguous(Below(l, at))
        BY ContiguousBelow
      <4>4. Smaller(at - 1, Len(l)) = at - 1
        BY <4>2 DEF Smaller
      <4>5. QED
        BY <4>1, <4>2, <4>3, <4>4
    <3>3. Contiguous(Below(l, prev + k) \o rest)
      BY <2>4, <3>2, ContiguousJoin
    <3>4. QED
      BY <1>2, <2>3, <2>5, <3>3 DEF Rewrite, k, rest
  <2>6. CASE ~Cuts(l, es)
    <3>1. prev + k > Len(l)
      BY <2>1, <2>2, <2>3, <2>6 DEF Cuts, k
    <3>2. prev + k - 1 <= Len(l)
      <4>1. CASE k = 1
        BY <2>1, <4>1
      <4>2. CASE k # 1
        <5>1. k - 1 \in 1 .. Len(es) /\ k - 1 < k
          BY <2>1, <2>2, <4>2
        <5>2. es[k - 1].index <= Len(l) /\ es[k - 1].index = prev + (k - 1)
          BY <2>1, <2>2, <5>1 DEF Has, Follows
        <5>3. QED
          BY <2>1, <2>2, <5>2
      <4>3. QED
        BY <4>1, <4>2
    <3>3. prev + k - 1 = Len(l)
      BY <2>1, <2>2, <3>1, <3>2
    <3>4. Contiguous(l \o rest)
      BY <2>4, <3>3, ContiguousJoin
    <3>5. QED
      BY <1>2, <2>6, <3>4 DEF Rewrite, k, rest
  <2>7. QED
    BY <2>5, <2>6
<1>3. QED
  BY <1>1, <1>2

\* Nothing is skipped or applied twice: what is committed of a contiguous log
\* continues what has been applied.
LEMMA CommitContiguous ==
  ASSUME NEW l \in Seq(Entry), Contiguous(l), NEW a \in Seq(Entry), Contiguous(a),
         NEW c \in Nat, c <= Len(l) \/ c <= Len(a)
  PROVE  LET new == a \o From(Below(l, c + 1), Len(a) + 1) IN
         Contiguous(new) /\ Len(new) = Larger(Len(a), c)
<1> DEFINE below == Below(l, c + 1)
           from == From(below, Len(a) + 1)
<1>1. Len(l) \in Nat /\ Len(a) \in Nat
  BY LenProperties
<1>2. /\ below \in Seq(Entry) /\ Contiguous(below)
      /\ Len(below) = Smaller(c, Len(l))
  <2>1. c + 1 \in Nat \ {0} /\ c + 1 - 1 = c
    OBVIOUS
  <2>2. QED
    BY <2>1, ContiguousBelow
<1> HIDE DEF below
<1>3. /\ from \in Seq(Entry) /\ Follows(from, Len(a))
      /\ Len(from) = Len(below) - Smaller(Len(a), Len(below))
  <2>1. Len(a) + 1 \in Nat \ {0} /\ Len(a) + 1 - 1 = Len(a)
    BY <1>1
  <2>2. QED
    BY <1>2, <2>1, ContiguousFrom
<1> HIDE DEF from
<1>4. Contiguous(a \o from)
  BY <1>3, ContiguousJoin
<1>5. Len(a \o from) = Len(a) + Len(from)
  BY <1>3, ConcatProperties
<1>6. Len(a) + (Smaller(c, Len(l)) - Smaller(Len(a), Smaller(c, Len(l))))
        = Larger(Len(a), c)
  <2>1. \A x, y \in Nat : c <= x \/ c <= y =>
          y + (Smaller(c, x) - Smaller(y, Smaller(c, x))) = Larger(y, c)
    BY DEF Smaller, Larger
  <2>2. QED
    BY <1>1, <2>1
<1>7. QED
  BY <1>2, <1>3, <1>4, <1>5, <1>6 DEF below, from

-----------------------------------------------------------------------------
(* The inductive invariant.  A log stays gap-free because the requests     *)
(* that extend it continue it; applied commands stay in order because a    *)
(* log stays gap-free and the commit index never passes what is applied.   *)

Gapless     == \A i \in Server : Contiguous(log[i])
InOrder     == \A i \in Server : /\ Contiguous(applied[i])
                                 /\ Len(applied[i]) = lastApplied[i]
                                 /\ commitIndex[i] <= lastApplied[i]
CallsFollow == \A m \in calls :
                 m.kind = "append" => Follows(m.entries, m.prevIndex)

LogInv == Gapless /\ InOrder /\ CallsFollow

\* The WAL is the log as long as no write failed: an invariant of its own.
InStep == used.diskErrors = 0 => wal = log

LEMMA EmptyFacts ==
  /\ <<>> \in Seq(Entry) /\ Len(<<>>) = 0 /\ Contiguous(<<>>)
  /\ \A n : Follows(<<>>, n)
<1>1. <<>> \in Seq(Entry) /\ Len(<<>>) = 0
  BY EmptySeq
<1>2. DOMAIN <<>> = {}
  BY <1>1, LenProperties
<1>3. QED
  BY <1>1, <1>2 DEF Contiguous, Follows

LEMMA LogInit == Init => LogInv
BY EmptyFacts DEF Init, Start, LogInv, Gapless, InOrder, CallsFollow, LastIndex

\* A commit of an index of a contiguous log, or of one already applied.
LEMMA CommitInOrder ==
  ASSUME TypeInv, InOrder, NEW i \in Server, NEW l \in Seq(Entry), Contiguous(l),
         NEW c \in Nat, c <= Len(l) \/ c <= lastApplied[i], Commit(i, l, c)
  PROVE  InOrder'
<1>1. /\ applied[i] \in Seq(Entry) /\ Contiguous(applied[i])
      /\ Len(applied[i]) = lastApplied[i] /\ lastApplied[i] \in Nat
  BY DEF TypeInv, TypeOK, InOrder
<1> DEFINE new == applied[i] \o From(Below(l, c + 1), lastApplied[i] + 1)
<1>2. Contiguous(new) /\ Len(new) = Larger(lastApplied[i], c)
  BY <1>1, CommitContiguous
<1>3. /\ commitIndex' = [commitIndex EXCEPT ![i] = c]
      /\ lastApplied' = [lastApplied EXCEPT ![i] = Larger(lastApplied[i], c)]
      /\ applied' = [applied EXCEPT ![i] = new]
  BY DEF Commit
<1> HIDE DEF new
<1>4. c <= Larger(lastApplied[i], c)
  BY <1>1 DEF Larger
<1>5. /\ commitIndex \in [Server -> Nat] /\ lastApplied \in [Server -> Nat]
      /\ applied \in [Server -> Seq(Entry)]
  BY DEF TypeInv, TypeOK
<1>6. ASSUME NEW j \in Server
      PROVE  /\ Contiguous(applied'[j]) /\ Len(applied'[j]) = lastApplied'[j]
             /\ commitIndex'[j] <= lastApplied'[j]
  <2>1. CASE j = i
    BY <1>2, <1>3, <1>4, <1>5, <2>1
  <2>2. CASE j # i
    BY <1>3, <1>5, <2>2 DEF InOrder
  <2>3. QED
    BY <2>1, <2>2
<1>7. QED
  BY <1>6 DEF InOrder

\* What a follower is told to commit is in its log or already applied.
LEMMA FollowerCommitBound ==
  ASSUME TypeInv, InOrder, NEW m \in AppendCall, NEW l \in Seq(Entry), Contiguous(l)
  PROVE  LET c == FollowerCommit(m.dst, m, l) IN
         c \in Nat /\ (c <= Len(l) \/ c <= lastApplied[m.dst])
<1>1. m.dst \in Server /\ m.commit \in Nat
  BY DEF AppendCall
<1>2. commitIndex[m.dst] \in Nat /\ commitIndex[m.dst] <= lastApplied[m.dst]
  BY <1>1 DEF TypeInv, TypeOK, InOrder
<1>3. LastIndex(l) = Len(l) /\ Len(l) \in Nat
  BY ContiguousLast
<1>4. QED
  BY <1>1, <1>2, <1>3 DEF FollowerCommit, Smaller

\* So is what a leader commits.
LEMMA AdvanceInOrder ==
  ASSUME TypeInv, Gapless, InOrder, NEW i \in Server, NEW match, Advance(i, match)
  PROVE  InOrder'
<1>1. CASE Committable(i, match) = {}
  BY <1>1 DEF Advance, InOrder
<1>2. CASE Committable(i, match) # {}
  <2>1. commitIndex[i] \in Nat /\ log[i] \in Seq(Entry) /\ Contiguous(log[i])
    BY DEF TypeInv, TypeOK, Gapless
  <2>2. LastIndex(log[i]) = Len(log[i]) /\ Len(log[i]) \in Nat
    BY <2>1, ContiguousLast
  <2>3. /\ Committable(i, match) \in SUBSET Nat
        /\ \A n \in Committable(i, match) : n <= Len(log[i])
    BY <2>1, <2>2 DEF Committable
  <2>4. \E n \in Committable(i, match) : \A o \in Committable(i, match) : o <= n
    BY <1>2, <2>2, <2>3, GreatestExists
  <2> DEFINE c == CHOOSE n \in Committable(i, match) :
                    \A o \in Committable(i, match) : o <= n
  <2>5. c \in Nat /\ c <= Len(log[i])
    BY <2>3, <2>4
  <2>6. Commit(i, log[i], c)
    BY <1>2 DEF Advance
  <2> HIDE DEF c
  <2>7. QED
    BY <2>1, <2>5, <2>6, CommitInOrder
<1>3. QED
  BY <1>1, <1>2

\* A reply, an orphaned request and a request that a node sends keep CallsFollow.
LEMMA ReplyFollows ==
  ASSUME CallsFollow, NEW m, NEW r, r.kind # "append", calls' = Reply(m, r)
  PROVE  CallsFollow'
BY DEF CallsFollow, Reply

LEMMA OrphanedFollows ==
  ASSUME TypeInv, CallsFollow, NEW i, NEW cs \in SUBSET calls,
         calls' = Orphaned(i, cs)
  PROVE  CallsFollow'
<1>1. ASSUME NEW m \in calls, m.kind \in {"vote", "append"}
      PROVE  LET o == [m EXCEPT !.live = FALSE] IN
             /\ o.kind = m.kind
             /\ m.kind = "append" => /\ o.entries = m.entries
                                     /\ o.prevIndex = m.prevIndex
  <2>1. m \in VoteCall \/ m \in AppendCall
    BY <1>1, KindType DEF TypeInv, TypeOK
  <2>2. CASE m \in VoteCall
    BY <2>2 DEF VoteCall
  <2>3. CASE m \in AppendCall
    BY <2>3 DEF AppendCall
  <2>4. QED
    BY <2>1, <2>2, <2>3
<1>2. ASSUME NEW o \in calls', o.kind = "append"
      PROVE  Follows(o.entries, o.prevIndex)
  <2>1. PICK m \in cs :
          o = IF m.kind \in {"vote", "append"} /\ m.src = i
              THEN [m EXCEPT !.live = FALSE] ELSE m
    BY <1>2 DEF Orphaned
  <2>2. o.entries = m.entries /\ o.prevIndex = m.prevIndex /\ m.kind = "append"
    BY <1>1, <1>2, <2>1
  <2>3. QED
    BY <2>2 DEF CallsFollow
<1>3. QED
  BY <1>2 DEF CallsFollow

-----------------------------------------------------------------------------
(* One lemma per action that changes a log, a call or the commit index.    *)

\* Steps that leave the logs alone and add no append request.
LEMMA QuietLog ==
  ASSUME LogInv, UNCHANGED logVars,
         \A m \in calls' : m.kind = "append" => m \in calls
  PROVE  LogInv'
BY DEF LogInv, Gapless, InOrder, CallsFollow, logVars

LEMMA RunLog ==
  ASSUME LogInv, NEW i \in Server,
         \/ Dispatch(i) \/ ElectionTimeout(i) \/ StartElection(i) \/ Win(i)
         \/ CampaignTimeout(i) \/ StepDown(i)
  PROVE  LogInv'
<1>1. CASE \/ Dispatch(i) \/ ElectionTimeout(i) \/ Win(i)
           \/ CampaignTimeout(i) \/ StepDown(i)
  <2>1. UNCHANGED <<logVars, calls>>
    BY <1>1 DEF Dispatch, ElectionTimeout, Win, CampaignTimeout, StepDown
  <2>2. QED
    BY <2>1, QuietLog
<1>2. CASE StartElection(i)
  <2>1. \A j : VoteRequest(i, j, used.elections + 1).kind = "vote"
    BY DEF VoteRequest
  <2>2. QED
    BY <1>2, <2>1, QuietLog DEF StartElection, Send
<1>3. QED
  BY <1>1, <1>2

LEMMA SendHeartbeatsLog ==
  ASSUME LogInv, NEW i \in Server, SendHeartbeats(i)
  PROVE  LogInv'
<1>1. \A j : Follows(AppendRequest(i, j, 0, currentTerm[i], 0, <<>>).entries,
                     AppendRequest(i, j, 0, currentTerm[i], 0, <<>>).prevIndex)
  BY EmptyFacts DEF AppendRequest
<1>2. CallsFollow'
  BY <1>1 DEF SendHeartbeats, Send, LogInv, CallsFollow
<1>3. QED
  BY <1>2 DEF SendHeartbeats, LogInv, Gapless, InOrder, InStep, logVars

LEMMA VoteLog ==
  ASSUME LogInv, NEW m \in calls, HandleRequestVote(m) \/ HandleVoteReply(m)
  PROVE  LogInv'
<1>1. CASE HandleRequestVote(m)
  <2>1. PICK r : r.kind # "append" /\ calls' = Reply(m, r)
    BY <1>1 DEF HandleRequestVote
  <2>2. QED
    BY <1>1, <2>1, QuietLog DEF HandleRequestVote, Reply
<1>2. CASE HandleVoteReply(m)
  BY <1>2, QuietLog DEF HandleVoteReply
<1>3. QED
  BY <1>1, <1>2

LEMMA AnswerLog ==
  ASSUME LogInv, NEW m \in calls,
         RefuseAppend(m) \/ AppendConflict(m) \/ HandleHeartbeatReply(m)
  PROVE  LogInv'
<1>1. \A t, ok, c : AppendReply(m, t, ok, c).kind # "append"
  BY DEF AppendReply
<1>2. CASE RefuseAppend(m)
  BY <1>1, <1>2, QuietLog DEF RefuseAppend, Reply
<1>3. CASE AppendConflict(m)
  BY <1>1, <1>3, QuietLog DEF AppendConflict, Reply
<1>4. CASE HandleHeartbeatReply(m)
  BY <1>4, QuietLog DEF HandleHeartbeatReply
<1>5. QED
  BY <1>2, <1>3, <1>4

\* What HandleAppendEntries makes of a contiguous log it is consistent with.
LEMMA AppendedLog ==
  ASSUME TypeInv, LogInv, NEW m \in calls, m.kind = "append",
         Consistent(log[m.dst], m)
  PROVE  LET l == Rewrite(log[m.dst], log[m.dst], m.entries) IN
         /\ m \in AppendCall
         /\ l \in Seq(Entry) /\ Contiguous(l)
<1>1. m \in AppendCall
  BY KindType DEF TypeInv, TypeOK
<1>2. /\ m.dst \in Server /\ m.entries \in Seq(Entry) /\ m.prevIndex \in Nat
      /\ log[m.dst] \in Seq(Entry) /\ Contiguous(log[m.dst])
  BY <1>1 DEF AppendCall, TypeInv, TypeOK, LogInv, Gapless
<1>3. m.prevIndex <= Len(log[m.dst])
  <2>1. LastIndex(log[m.dst]) = Len(log[m.dst]) /\ Len(log[m.dst]) \in Nat
    BY <1>2, ContiguousLast
  <2>2. QED
    BY <1>2, <2>1 DEF Consistent
<1>4. Follows(m.entries, m.prevIndex)
  BY DEF LogInv, CallsFollow
<1>5. Rewrite(log[m.dst], log[m.dst], m.entries) \in Seq(Entry)
  BY <1>2, RewriteType
<1>6. Contiguous(Rewrite(log[m.dst], log[m.dst], m.entries))
  BY <1>2, <1>3, <1>4, RewriteContiguous
<1>7. QED
  BY <1>1, <1>5, <1>6

LEMMA AppendToLog ==
  ASSUME TypeInv, LogInv, NEW m \in calls, m.kind = "append", NEW w,
         AppendTo(m, w)
  PROVE  LogInv'
<1> DEFINE i == m.dst
           l == Rewrite(log[i], log[i], m.entries)
<1>1. /\ m \in AppendCall /\ i \in Server
      /\ l \in Seq(Entry) /\ Contiguous(l)
  BY AppendedLog DEF AppendTo, AppendCall
<1>2. log' = [log EXCEPT ![i] = l]
  BY DEF AppendTo
<1>3. Commit(i, l, FollowerCommit(i, m, l))
  BY DEF AppendTo
<1>4. log \in [Server -> Seq(Entry)]
  BY DEF TypeInv, TypeOK
<1> HIDE DEF l
<1>6. Gapless'
  BY <1>1, <1>2, <1>4 DEF LogInv, Gapless
<1>7. InOrder'
  <2>1. /\ FollowerCommit(i, m, l) \in Nat
        /\ FollowerCommit(i, m, l) <= Len(l) \/ FollowerCommit(i, m, l) <= lastApplied[i]
    BY <1>1, FollowerCommitBound DEF LogInv
  <2>2. QED
    BY <1>1, <1>3, <2>1, CommitInOrder DEF LogInv
<1>8. CallsFollow'
  <2>1. AppendReply(m, m.term, TRUE, 0).kind # "append"
    BY DEF AppendReply
  <2>2. QED
    BY <2>1, ReplyFollows DEF AppendTo, LogInv
<1>9. QED
  BY <1>6, <1>7, <1>8 DEF LogInv

LEMMA HandleAppendEntriesLog ==
  ASSUME TypeInv, LogInv, NEW m \in calls, HandleAppendEntries(m) \/ AppendDiskError(m)
  PROVE  LogInv'
<1>1. CASE HandleAppendEntries(m)
  BY <1>1, AppendToLog DEF HandleAppendEntries
<1>2. CASE AppendDiskError(m)
  BY <1>2, AppendToLog DEF AppendDiskError
<1>3. QED
  BY <1>1, <1>2

LEMMA HandleAppendReplyLog ==
  ASSUME TypeInv, LogInv, NEW m \in calls, HandleAppendReply(m)
  PROVE  LogInv'
<1>1. m \in AppendAnswer /\ m.src \in Server
  BY KindType DEF TypeInv, TypeOK, HandleAppendReply, AppendAnswer
<1>2. calls' = calls \ {m} /\ log' = log
  BY DEF HandleAppendReply, logVars
<1>3. Gapless' /\ CallsFollow'
  BY <1>2 DEF LogInv, Gapless, CallsFollow
<1>4. \/ UNCHANGED <<commitIndex, lastApplied, applied>>
      \/ \E match : Advance(m.src, match)
  BY DEF HandleAppendReply, logVars
<1>5. InOrder'
  BY <1>1, <1>4, AdvanceInOrder DEF LogInv, InOrder
<1>6. QED
  BY <1>3, <1>5 DEF LogInv

LEMMA ProposeLog ==
  ASSUME TypeInv, LogInv, NEW i \in Server, NEW c \in Command,
         Propose(i, c) \/ ProposeDiskError(i, c)
  PROVE  LogInv'
<1> DEFINE e == NewEntry(i, c)
           l == Append(log[i], e)
<1>1. log[i] \in Seq(Entry) /\ Contiguous(log[i]) /\ currentTerm[i] \in Nat
  BY DEF TypeInv, TypeOK, LogInv, Gapless
<1>2. LastIndex(log[i]) = Len(log[i]) /\ Len(log[i]) \in Nat
  BY <1>1, ContiguousLast
<1>3. e \in Entry /\ e.index = Len(log[i]) + 1
  BY <1>1, <1>2 DEF NewEntry, Entry
<1> HIDE DEF e
<1>4. Contiguous(l)
  <2>1. /\ l \in Seq(Entry) /\ Len(l) = Len(log[i]) + 1
        /\ \A k \in 1 .. Len(log[i]) : l[k] = log[i][k]
        /\ l[Len(log[i]) + 1] = e
    BY <1>1, <1>3, AppendProperties
  <2>2. DOMAIN l = 1 .. Len(log[i]) + 1 /\ DOMAIN log[i] = 1 .. Len(log[i])
    BY <1>1, <2>1, LenProperties
  <2> HIDE DEF l
  <2>3. ASSUME NEW k \in 1 .. Len(log[i]) + 1 PROVE l[k].index = k
    <3>1. CASE k = Len(log[i]) + 1
      BY <1>3, <2>1, <3>1
    <3>2. CASE k # Len(log[i]) + 1
      <4>1. k \in 1 .. Len(log[i])
        BY <1>2, <3>2
      <4>2. QED
        BY <1>1, <2>1, <2>2, <4>1 DEF Contiguous
    <3>3. QED
      BY <3>1, <3>2
  <2>4. QED
    BY <2>2, <2>3 DEF Contiguous
<1>5. log' = [log EXCEPT ![i] = l]
  BY DEF Propose, ProposeDiskError, e
<1>6. log \in [Server -> Seq(Entry)]
  BY DEF TypeInv, TypeOK
<1> HIDE DEF l
<1>8. Gapless'
  BY <1>4, <1>5, <1>6 DEF LogInv, Gapless
<1>9. UNCHANGED <<calls, commitIndex, lastApplied, applied>>
  BY DEF Propose, ProposeDiskError
<1>10. CallsFollow' /\ InOrder'
  BY <1>9 DEF LogInv, CallsFollow, InOrder
<1>11. QED
  BY <1>8, <1>10 DEF LogInv

LEMMA ReplicateLog ==
  ASSUME TypeInv, LogInv, NEW p \in DOMAIN proposals, NEW j \in Server, Replicate(p, j)
  PROVE  LogInv'
<1> DEFINE i == proposals[p].node
           next == nextIndex[i][j]
           req == AppendRequest(i, j, p, proposals[p].entry.term, next - 1,
                                From(log[i], next))
<1>1. i \in Server
  BY ProposalType DEF TypeInv
<1>2. next \in Nat \ {0}
  <2>1. nextIndex[i][j] \in Nat
    BY <1>1 DEF TypeInv, TypeOK
  <2>2. nextIndex[i][j] >= 1
    BY DEF TypeInv, Routable, Replicate
  <2>3. QED
    BY <2>1, <2>2
<1>3. log[i] \in Seq(Entry) /\ Contiguous(log[i])
  BY <1>1 DEF TypeInv, TypeOK, LogInv, Gapless
<1> HIDE DEF next
<1>4. Follows(From(log[i], next), next - 1)
  BY <1>2, <1>3, ContiguousFrom
<1>5. req.entries = From(log[i], next) /\ req.prevIndex = next - 1
  BY DEF AppendRequest
<1>6. calls' = calls \cup {req}
  BY DEF Replicate, next
<1> HIDE DEF req
<1>7. CallsFollow'
  BY <1>4, <1>5, <1>6 DEF LogInv, CallsFollow
<1>8. QED
  BY <1>7 DEF Replicate, logVars, LogInv, Gapless, InOrder

\* A node restarts over what is in its WAL, or over a prefix of what it was
\* writing there.
LEMMA RestartLog ==
  ASSUME TypeInv, LogInv, NEW i \in Server, NEW w \in Seq(Entry), Contiguous(w),
         Restart(i, w), NEW cs \in SUBSET calls, calls' = Orphaned(i, cs)
  PROVE  LogInv'
<1>1. LastIndex(w) = Len(w) /\ Len(w) \in Nat
  BY ContiguousLast
<1>2. /\ log \in [Server -> Seq(Entry)]
      /\ applied \in [Server -> Seq(Entry)]
      /\ commitIndex \in [Server -> Nat] /\ lastApplied \in [Server -> Nat]
  BY DEF TypeInv, TypeOK
<1>3. /\ log' = [log EXCEPT ![i] = w]
      /\ applied' = [applied EXCEPT ![i] = w]
      /\ commitIndex' = [commitIndex EXCEPT ![i] = LastIndex(w)]
      /\ lastApplied' = [lastApplied EXCEPT ![i] = LastIndex(w)]
  BY DEF Restart
<1>4. Gapless'
  BY <1>2, <1>3 DEF LogInv, Gapless
<1>6. ASSUME NEW j \in Server
      PROVE  /\ Contiguous(applied'[j]) /\ Len(applied'[j]) = lastApplied'[j]
             /\ commitIndex'[j] <= lastApplied'[j]
  <2>1. CASE j = i
    BY <1>1, <1>2, <1>3, <2>1
  <2>2. CASE j # i
    BY <1>2, <1>3, <2>2 DEF LogInv, InOrder
  <2>3. QED
    BY <2>1, <2>2
<1>7. InOrder'
  BY <1>6 DEF InOrder
<1>8. CallsFollow'
  BY OrphanedFollows DEF LogInv
<1>9. QED
  BY <1>4, <1>7, <1>8 DEF LogInv

LEMMA CrashLog ==
  ASSUME TypeInv, LogInv, wal = log
  PROVE  /\ \A i \in Server : Crash(i) => LogInv'
         /\ \A m \in calls : CrashInAppend(m) => LogInv'
<1>2. wal = log
  OBVIOUS
<1>3. ASSUME NEW i \in Server, Crash(i) PROVE LogInv'
  <2>1. wal[i] \in Seq(Entry) /\ Contiguous(wal[i])
    BY <1>2 DEF TypeInv, TypeOK, LogInv, Gapless
  <2>2. QED
    BY <1>3, <2>1, RestartLog DEF Crash
<1>4. ASSUME NEW m \in calls, CrashInAppend(m) PROVE LogInv'
  <2> DEFINE new == Rewrite(log[m.dst], log[m.dst], m.entries)
  <2>1. m \in AppendCall /\ m.dst \in Server /\ new \in Seq(Entry) /\ Contiguous(new)
    BY <1>4, AppendedLog DEF CrashInAppend, AppendCall
  <2>2. PICK w \in PartialWal(log[m.dst], log[m.dst], m.entries) : Restart(m.dst, w)
    BY <1>2, <1>4 DEF CrashInAppend
  <2>3. PICK n \in 0 .. Len(new) : w = SubSeq(new, 1, n)
    BY <2>2 DEF PartialWal
  <2>4. w \in Seq(Entry) /\ Contiguous(w)
    <3> HIDE DEF new
    <3>1. QED
      BY <2>1, <2>3, ContiguousPrefix
  <2>5. calls \ {m} \in SUBSET calls /\ calls' = Orphaned(m.dst, calls \ {m})
    BY <1>4 DEF CrashInAppend
  <2>6. QED
    BY <2>1, <2>2, <2>4, <2>5, RestartLog
<1>5. QED
  BY <1>3, <1>4

-----------------------------------------------------------------------------
(* Disk errors and crashes.                                                *)

\* A step that is not a crash spends nothing of a bound or one unit of it.
Spends(f) == used' = [used EXCEPT ![f] = @ + 1]

LEMMA UsedGrows ==
  ASSUME TypeInv, [Next]_vars
  PROVE  /\ used'.diskErrors \in Nat /\ used'.diskErrors >= used.diskErrors
         /\ used'.crashes \in Nat /\ used'.crashes >= used.crashes
<1>1. \/ used' = used
      \/ used' = [used EXCEPT !.elections = used.elections + 1]
      \/ \E f \in {"heartbeats", "crashes", "diskErrors"} : Spends(f)
  <2>1. ASSUME NEW i \in Server,
               \/ Dispatch(i) \/ ElectionTimeout(i) \/ StartElection(i) \/ Win(i)
               \/ CampaignTimeout(i) \/ StepDown(i) \/ SendHeartbeats(i)
        PROVE  \/ used' = used
               \/ used' = [used EXCEPT !.elections = used.elections + 1]
               \/ Spends("heartbeats")
    BY <2>1 DEF Dispatch, ElectionTimeout, StartElection, Win, CampaignTimeout,
                StepDown, SendHeartbeats, Spends
  <2>2. ASSUME NEW i \in Server, NEW c \in Command,
               Propose(i, c) \/ ProposeDiskError(i, c)
        PROVE  used' = used \/ Spends("diskErrors")
    BY <2>2 DEF Propose, ProposeDiskError, Spends
  <2>3. ASSUME NEW m \in calls, Receive(m)
        PROVE  used' = used \/ Spends("diskErrors")
    BY <2>3 DEF Receive, HandleRequestVote, HandleVoteReply, RefuseAppend,
                AppendConflict, HandleAppendEntries, AppendDiskError,
                HandleHeartbeatReply, HandleAppendReply, Spends
  <2>4. ASSUME NEW i, NEW w, Restart(i, w)
        PROVE  Spends("crashes")
    BY <2>4 DEF Restart, Spends
  <2>5. ASSUME NEW p \in DOMAIN proposals, NEW j \in Server, Replicate(p, j)
        PROVE  used' = used
    BY <2>5 DEF Replicate
  <2>6. CASE UNCHANGED vars
    BY <2>6 DEF vars
  <2>7. ASSUME NEW i \in Server, Crash(i)
        PROVE  Spends("crashes")
    BY <2>4, <2>7 DEF Crash
  <2>8. ASSUME NEW m \in calls, CrashInAppend(m)
        PROVE  Spends("crashes")
    BY <2>4, <2>8 DEF CrashInAppend
  <2>9. QED
    BY <2>1, <2>2, <2>3, <2>5, <2>6, <2>7, <2>8 DEF Next
<1>2. used \in Budget
  BY DEF TypeInv, TypeOK
<1>3. QED
  BY <1>1, <1>2 DEF Spends, Budget

\* The WAL and the log change together unless a write fails.
LEMMA StepInStep ==
  ASSUME TypeInv, InStep, [Next]_vars
  PROVE  InStep'
<1>1. SUFFICES ASSUME used'.diskErrors = 0 PROVE wal' = log'
  BY DEF InStep
<1>2. used.diskErrors = 0 /\ used \in Budget /\ used.diskErrors \in Nat
  <2>1. used \in Budget
    BY DEF TypeInv, TypeOK
  <2>2. used.diskErrors \in Nat
    BY <2>1 DEF Budget
  <2>3. used'.diskErrors >= used.diskErrors
    BY UsedGrows
  <2>4. QED
    BY <1>1, <2>1, <2>2, <2>3
<1>3. wal = log
  BY <1>2 DEF InStep
<1>4. ASSUME NEW i \in Server,
             \/ Dispatch(i) \/ ElectionTimeout(i) \/ StartElection(i) \/ Win(i)
             \/ CampaignTimeout(i) \/ StepDown(i) \/ SendHeartbeats(i)
      PROVE  wal' = log'
  BY <1>3, <1>4 DEF Dispatch, ElectionTimeout, StartElection, Win,
     CampaignTimeout, StepDown, SendHeartbeats, logVars
<1>5. ASSUME NEW i \in Server, NEW c \in Command, Propose(i, c)
      PROVE  wal' = log'
  BY <1>3, <1>5 DEF Propose
<1>6. ASSUME used' = [used EXCEPT !.diskErrors = @ + 1]
      PROVE  FALSE
  BY <1>1, <1>2, <1>6 DEF Budget
<1>7. ASSUME NEW m \in calls, Receive(m)
      PROVE  wal' = log'
  <2>1. ~AppendDiskError(m)
    BY <1>6 DEF AppendDiskError
  <2>2. CASE HandleAppendEntries(m)
    BY <1>3, <2>2 DEF HandleAppendEntries, AppendTo
  <2>3. CASE HandleAppendReply(m)
    BY <1>3, <2>3 DEF HandleAppendReply, logVars
  <2>4. CASE \/ HandleRequestVote(m) \/ HandleVoteReply(m) \/ RefuseAppend(m)
             \/ AppendConflict(m) \/ HandleHeartbeatReply(m)
    BY <1>3, <2>4 DEF HandleRequestVote, HandleVoteReply, RefuseAppend,
       AppendConflict, HandleHeartbeatReply, logVars
  <2>5. QED
    BY <1>7, <2>1, <2>2, <2>3, <2>4 DEF Receive
<1>8. ASSUME NEW i, NEW w, Restart(i, w)
      PROVE  wal' = log'
  BY <1>3, <1>8 DEF Restart
<1>9. CASE UNCHANGED vars
  BY <1>3, <1>9 DEF vars, logVars
<1>10. ASSUME NEW p \in DOMAIN proposals, NEW j \in Server, Replicate(p, j)
       PROVE  wal' = log'
  BY <1>3, <1>10 DEF Replicate, logVars
<1>11. ASSUME NEW i \in Server, NEW c \in Command, ProposeDiskError(i, c)
       PROVE  wal' = log'
  BY <1>6, <1>11 DEF ProposeDiskError
<1>12. ASSUME NEW i \in Server, Crash(i)
       PROVE  wal' = log'
  BY <1>8, <1>12 DEF Crash
<1>13. ASSUME NEW m \in calls, CrashInAppend(m)
       PROVE  wal' = log'
  BY <1>8, <1>13 DEF CrashInAppend
<1>14. QED
  BY <1>4, <1>5, <1>7, <1>9, <1>10, <1>11, <1>12, <1>13 DEF Next

\* A node that restarts unharmed finds its log in its WAL.
LEMMA RestartsInStep ==
  ASSUME TypeInv, InStep, Unharmed'
  PROVE  /\ \A i \in Server : Crash(i) => wal = log
         /\ \A m \in calls : CrashInAppend(m) => wal = log
<1>1. ASSUME NEW i, NEW w, Restart(i, w)
      PROVE  wal = log
  <2>1. used \in Budget /\ used' = [used EXCEPT !.crashes = @ + 1]
    BY <1>1 DEF Restart, TypeInv, TypeOK
  <2>2. used'.crashes # 0 /\ used'.diskErrors = used.diskErrors
    BY <2>1 DEF Budget
  <2>3. QED
    BY <2>2 DEF Unharmed, InStep
<1>2. QED
  BY <1>1 DEF Crash, CrashInAppend

\* A harm is never undone.
LEMMA StaysUnharmed ==
  ASSUME TypeInv, [Next]_vars, Unharmed'
  PROVE  Unharmed
<1>1. used \in Budget
  BY DEF TypeInv, TypeOK
<1>2. used.diskErrors \in Nat /\ used.crashes \in Nat
  BY <1>1 DEF Budget
<1>3. used'.diskErrors >= used.diskErrors /\ used'.crashes >= used.crashes
  BY UsedGrows
<1>4. QED
  BY <1>2, <1>3 DEF Unharmed

LEMMA LogStep ==
  ASSUME TypeInv, InStep, Unharmed => LogInv, [Next]_vars
  PROVE  Unharmed' => LogInv'
<1>1. SUFFICES ASSUME Unharmed' PROVE LogInv'
  OBVIOUS
<1>2. Unharmed
  BY <1>1, StaysUnharmed
<1>3. LogInv
  BY <1>2
<1>4. ASSUME NEW i \in Server,
             \/ Dispatch(i) \/ ElectionTimeout(i) \/ StartElection(i) \/ Win(i)
             \/ CampaignTimeout(i) \/ StepDown(i) \/ SendHeartbeats(i) \/ Crash(i)
      PROVE  LogInv'
  BY <1>1, <1>3, <1>4, RunLog, SendHeartbeatsLog, RestartsInStep, CrashLog
<1>5. ASSUME NEW i \in Server, NEW c \in Command,
             Propose(i, c) \/ ProposeDiskError(i, c)
      PROVE  LogInv'
  BY <1>3, <1>5, ProposeLog
<1>6. ASSUME NEW m \in calls, Receive(m) \/ CrashInAppend(m)
      PROVE  LogInv'
  BY <1>1, <1>3, <1>6, VoteLog, AnswerLog, HandleAppendEntriesLog,
     HandleAppendReplyLog, RestartsInStep, CrashLog DEF Receive
<1>7. ASSUME NEW p \in DOMAIN proposals, NEW j \in Server, Replicate(p, j)
      PROVE  LogInv'
  BY <1>3, <1>7, ReplicateLog
<1>8. CASE UNCHANGED vars
  BY <1>3, <1>8, QuietLog DEF vars
<1>9. QED
  BY <1>4, <1>5, <1>6, <1>7, <1>8 DEF Next

-----------------------------------------------------------------------------
LogsInv == InStep /\ (Unharmed => LogInv)

LEMMA LogsInit == Init => LogsInv
BY LogInit DEF Init, Start, LogsInv, InStep

LEMMA LogsStep == TypeInv /\ LogsInv /\ [Next]_vars => LogsInv'
BY StepInStep, LogStep DEF LogsInv

\* As long as no node reads back a WAL in which a write failed, no log ever has
\* a gap or a duplicate index: for any number of nodes, and any loss, delay and
\* reordering of calls.
THEOREM LogsGapless == Spec => []LogContiguous
<1>1. LogsInv => LogContiguous
  BY DEF LogsInv, LogInv, Gapless, LogContiguous
<1>2. QED
  BY TypeInit, TypeStep, LogsInit, LogsStep, <1>1, PTL DEF Spec

\* In the same case the store is given the command of every index up to
\* lastApplied exactly once and in order, whatever a follower is sent, and
\* although a restart applies its whole log again to a new store.
THEOREM AppliesInOrder == Spec => []AppliedInOrder
<1>1. LogsInv => AppliedInOrder
  BY DEF LogsInv, LogInv, InOrder, AppliedInOrder
<1>2. QED
  BY TypeInit, TypeStep, LogsInit, LogsStep, <1>1, PTL DEF Spec

\* Until a write fails, the WAL of every running node is its log, through
\* truncations, crashes part of the way through them, and recoveries.
THEOREM WalInStep == Spec => []WalMirrorsLog
<1>1. LogsInv => WalMirrorsLog
  BY DEF LogsInv, InStep, WalMirrorsLog
<1>2. QED
  BY TypeInit, TypeStep, LogsInit, LogsStep, <1>1, PTL DEF Spec
=============================================================================
