----------------------------- MODULE RaftSafety -----------------------------
(***************************************************************************)
(* Elections and log matching of RaftKV, for every set of nodes, every     *)
(* number of elections, proposals and crashes, and every order and loss of *)
(* calls.                                                                  *)
(***************************************************************************)
EXTENDS RaftLogProofs

Voted(v, t, i) == [voter |-> v, term |-> t, for |-> i] \in cast

-----------------------------------------------------------------------------
(* Elections.  A vote is counted by the number of the campaign it was      *)
(* asked for in, so what has to be known is that a vote of that number was *)
(* cast in the campaign's term.                                            *)

\* A campaign counts votes of its own term only, from other nodes, and its node
\* has voted for itself.
CampaignSound(i) ==
  LET c == campaign[i] IN
  /\ c.round <= used.elections
  /\ c.round = 0 => c.voters = {}
  /\ c.round # 0 => Voted(i, c.term, i)
  /\ c.voters \subseteq Peers(i)
  /\ \A v \in c.voters : Voted(v, c.term, i)

\* A vote that the campaign in progress would count is, or will be, cast in the
\* term of that campaign.
VoteSound(m) ==
  /\ m.round \in 1 .. used.elections /\ m.dst # m.src
  /\ m.round = campaign[m.src].round =>
       LET t == campaign[m.src].term IN
       /\ m.kind = "vote" => m.term = t
       /\ m.kind = "voteReply" /\ m.granted => Voted(m.dst, t, m.src)

IsVote(m) == m.kind \in {"vote", "voteReply"}

VoteInv ==
  /\ \A i \in Server : CampaignSound(i)
  /\ \A m \in calls : IsVote(m) => VoteSound(m)
  /\ WonByMajority

\* Call m says of a vote what call o said of it.
SameVote(m, o) ==
  /\ o.kind = m.kind /\ o.src = m.src /\ o.dst = m.dst /\ o.round = m.round
  /\ m.kind = "vote" => o.term = m.term
  /\ m.kind = "voteReply" => o.granted = m.granted

LEMMA VoteCallType ==
  ASSUME TypeInv, NEW m \in calls, IsVote(m)
  PROVE  m.src \in Server /\ m.dst \in Server /\ m.round \in Nat
<1>1. m \in VoteCall \cup VoteAnswer
  BY KindType DEF TypeInv, TypeOK, IsVote
<1>2. QED
  BY <1>1 DEF VoteCall, VoteAnswer

LEMMA VoteInit == Init => VoteInv
BY DEF Init, Start, VoteInv, CampaignSound, WonByMajority, Idle

\* More votes make no majority smaller.
LEMMA QuorumGrows ==
  ASSUME NEW S \in SUBSET Server, NEW T \in SUBSET Server, S \subseteq T, Quorum(S)
  PROVE  Quorum(T)
<1>1. IsFiniteSet(T)
  BY ServerAssumption, FS_Subset
<1>2. Cardinality(S) <= Cardinality(T) /\ IsFiniteSet(S)
  BY <1>1, FS_Subset
<1>3. Cardinality(S) \in Nat /\ Cardinality(T) \in Nat /\ Cardinality(Server) \in Nat
  BY <1>1, <1>2, ServerAssumption, FS_CardinalityType
<1>4. Majority \in Int
  BY <1>3 DEF Majority
<1>5. QED
  BY <1>2, <1>3, <1>4 DEF Quorum

\* Elections already won stay won by a majority.
LEMMA WonStays ==
  ASSUME VoteInv, cast \subseteq cast', NEW w \in wins
  PROVE  Quorum({v \in Server : [voter |-> v, term |-> w.term, for |-> w.node] \in cast'})
BY QuorumGrows DEF VoteInv, WonByMajority

\* Steps that count no vote, win no election and send no new word about a vote.
LEMMA VotesStand ==
  ASSUME TypeInv, VoteInv, cast \subseteq cast', wins' = wins,
         used'.elections = used.elections,
         \A i \in Server : campaign'[i] = campaign[i] \/ campaign'[i] = Idle,
         \A m \in calls' : IsVote(m) => \E o \in calls : IsVote(o) /\ SameVote(m, o)
  PROVE  VoteInv'
<1>0. used.elections \in Nat
  BY DEF TypeInv, TypeOK, Budget
<1>1. ASSUME NEW i \in Server PROVE CampaignSound(i)'
  BY <1>0 DEF VoteInv, CampaignSound, Idle, Voted, Peers
<1>2. ASSUME NEW m \in calls', IsVote(m) PROVE VoteSound(m)'
  <2>1. PICK o \in calls : IsVote(o) /\ SameVote(m, o)
    BY <1>2
  <2>2. VoteSound(o) /\ o.src \in Server
    BY <2>1, VoteCallType DEF VoteInv
  <2>3. m.round \in 1 .. used'.elections /\ m.dst # m.src
    BY <2>1, <2>2 DEF VoteSound, SameVote
  <2>4. CASE campaign'[m.src] = campaign[m.src]
    BY <2>1, <2>2, <2>3, <2>4 DEF VoteSound, SameVote, Voted, IsVote
  <2>5. CASE campaign'[m.src] = Idle
    BY <2>3, <2>5 DEF VoteSound, Idle
  <2>6. QED
    BY <2>1, <2>2, <2>4, <2>5 DEF SameVote
<1>3. WonByMajority'
  BY WonStays DEF WonByMajority
<1>4. QED
  BY <1>1, <1>2, <1>3 DEF VoteInv

\* Requests of a node that stopped say of its votes what they said before.
LEMMA OrphanedVotes ==
  ASSUME TypeInv, NEW i, NEW cs \in SUBSET calls, NEW m \in Orphaned(i, cs), IsVote(m)
  PROVE  \E o \in calls : IsVote(o) /\ SameVote(m, o)
<1>1. PICK o \in cs : m = IF o.kind \in {"vote", "append"} /\ o.src = i
                          THEN [o EXCEPT !.live = FALSE] ELSE o
  BY DEF Orphaned
<1>2. CASE m = o
  BY <1>2 DEF SameVote
<1>3. CASE m # o
  <2>1. m = [o EXCEPT !.live = FALSE] /\ o.kind \in {"vote", "append"}
    BY <1>1, <1>3
  <2>2. o \in VoteCall \/ o \in AppendCall
    BY <2>1, KindType DEF TypeInv, TypeOK
  <2>3. CASE o \in VoteCall
    BY <2>1, <2>3 DEF VoteCall, SameVote, IsVote
  <2>4. CASE o \in AppendCall
    BY <2>1, <2>4 DEF AppendCall, IsVote
  <2>5. QED
    BY <2>2, <2>3, <2>4
<1>4. QED
  BY <1>2, <1>3

\* Steps that do nothing to a campaign or give it up.
LEMMA RunVotes ==
  ASSUME TypeInv, VoteInv, NEW i \in Server,
         Dispatch(i) \/ ElectionTimeout(i) \/ CampaignTimeout(i) \/ StepDown(i)
  PROVE  VoteInv'
<1>1. UNCHANGED <<cast, wins, used, calls>>
  BY DEF Dispatch, ElectionTimeout, CampaignTimeout, StepDown, ghostVars
<1>2. campaign' = campaign \/ campaign' = [campaign EXCEPT ![i] = Idle]
  BY DEF Dispatch, ElectionTimeout, CampaignTimeout, StepDown, EndCampaign
<1>3. \A j \in Server : campaign'[j] = campaign[j] \/ campaign'[j] = Idle
  BY <1>2 DEF TypeInv, TypeOK
<1>4. QED
  BY <1>1, <1>3, VotesStand DEF SameVote

LEMMA LeaderVotes ==
  ASSUME TypeInv, VoteInv,
         \/ \E i \in Server : SendHeartbeats(i)
         \/ \E i \in Server, c \in Command : Propose(i, c) \/ ProposeDiskError(i, c)
         \/ \E p \in DOMAIN proposals : \E j \in Server : Replicate(p, j)
         \/ UNCHANGED vars
  PROVE  VoteInv'
<1>1. UNCHANGED <<campaign, cast, wins>>
  BY DEF SendHeartbeats, Propose, ProposeDiskError, Replicate, vars, ghostVars
<1>2. used'.elections = used.elections
  <2>1. \/ used' = used
        \/ used' = [used EXCEPT !.heartbeats = @ + 1]
        \/ used' = [used EXCEPT !.diskErrors = @ + 1]
    BY DEF SendHeartbeats, Propose, ProposeDiskError, Replicate, vars
  <2>2. QED
    BY <2>1 DEF TypeInv, TypeOK, Budget
<1>3. \A m \in calls' : IsVote(m) => m \in calls
  <2>1. \A i, j, p, t, prev, es : ~IsVote(AppendRequest(i, j, p, t, prev, es))
    BY DEF AppendRequest, IsVote
  <2>2. ASSUME NEW i \in Server, SendHeartbeats(i)
        PROVE  \A m \in calls' : IsVote(m) => m \in calls
    BY <2>1, <2>2 DEF SendHeartbeats, Send
  <2>3. ASSUME NEW p \in DOMAIN proposals, NEW j \in Server, Replicate(p, j)
        PROVE  \A m \in calls' : IsVote(m) => m \in calls
    BY <2>1, <2>3 DEF Replicate
  <2>4. CASE calls' = calls
    BY <2>4
  <2>5. QED
    BY <2>2, <2>3, <2>4 DEF Propose, ProposeDiskError, vars
<1>4. QED
  BY <1>1, <1>2, <1>3, VotesStand DEF SameVote

\* Nor does what becomes of an append request or its answer.
LEMMA AppendVotes ==
  ASSUME TypeInv, VoteInv, NEW m \in calls,
         \/ RefuseAppend(m) \/ AppendConflict(m) \/ HandleAppendEntries(m)
         \/ AppendDiskError(m) \/ HandleHeartbeatReply(m) \/ HandleAppendReply(m)
  PROVE  VoteInv'
<1>1. UNCHANGED <<campaign, cast, wins>>
  BY DEF RefuseAppend, AppendConflict, HandleAppendEntries, AppendDiskError,
     AppendTo, HandleHeartbeatReply, HandleAppendReply, ghostVars
<1>2. used'.elections = used.elections
  <2>1. used' = used \/ used' = [used EXCEPT !.diskErrors = @ + 1]
    BY DEF RefuseAppend, AppendConflict, HandleAppendEntries, AppendDiskError,
       HandleHeartbeatReply, HandleAppendReply
  <2>2. QED
    BY <2>1 DEF TypeInv, TypeOK, Budget
<1>3. \A o \in calls' : IsVote(o) => o \in calls
  <2>1. \A t, ok, c : ~IsVote(AppendReply(m, t, ok, c))
    BY DEF AppendReply, IsVote
  <2>2. CASE calls' = calls \ {m}
    BY <2>2
  <2>3. ASSUME NEW t, NEW ok, NEW c, calls' = Reply(m, AppendReply(m, t, ok, c))
        PROVE  \A o \in calls' : IsVote(o) => o \in calls
    BY <2>1, <2>3 DEF Reply
  <2>4. CASE RefuseAppend(m)
    BY <2>3, <2>4 DEF RefuseAppend
  <2>5. CASE AppendConflict(m)
    BY <2>3, <2>5 DEF AppendConflict
  <2>6. CASE HandleAppendEntries(m) \/ AppendDiskError(m)
    BY <2>3, <2>6 DEF HandleAppendEntries, AppendDiskError, AppendTo
  <2>7. CASE HandleHeartbeatReply(m) \/ HandleAppendReply(m)
    BY <2>2, <2>7 DEF HandleHeartbeatReply, HandleAppendReply
  <2>8. QED
    BY <2>4, <2>5, <2>6, <2>7
<1>4. QED
  BY <1>1, <1>2, <1>3, VotesStand DEF SameVote

LEMMA RestartVotes ==
  ASSUME TypeInv, VoteInv, NEW i, NEW w, Restart(i, w),
         NEW cs \in SUBSET calls, calls' = Orphaned(i, cs)
  PROVE  VoteInv'
<1>1. /\ campaign \in [Server -> [round: Nat, term: Nat, voters: SUBSET Server]]
      /\ used \in Budget
  BY DEF TypeInv, TypeOK
<1>2. /\ UNCHANGED <<cast, wins>>
      /\ \A j \in Server : campaign'[j] = campaign[j] \/ campaign'[j] = Idle
  BY <1>1 DEF Restart, ghostVars
<1>3. used'.elections = used.elections
  BY <1>1 DEF Restart, Budget
<1>4. QED
  BY <1>2, <1>3, OrphanedVotes, VotesStand

LEMMA CrashVotes ==
  ASSUME TypeInv, VoteInv
  PROVE  /\ \A i \in Server : Crash(i) => VoteInv'
         /\ \A m \in calls : CrashInAppend(m) => VoteInv'
<1>1. ASSUME NEW i \in Server, Crash(i) PROVE VoteInv'
  BY <1>1, RestartVotes DEF Crash
<1>2. ASSUME NEW m \in calls, CrashInAppend(m) PROVE VoteInv'
  <2>1. calls \ {m} \in SUBSET calls
    OBVIOUS
  <2>2. QED
    BY <1>2, <2>1, RestartVotes DEF CrashInAppend
<1>3. QED
  BY <1>1, <1>2

\* A new campaign has a number that no vote bears yet.
LEMMA StartElectionVotes ==
  ASSUME TypeInv, VoteInv, NEW i \in Server, StartElection(i)
  PROVE  VoteInv'
<1> DEFINE n == used.elections + 1
           t == currentTerm[i] + 1
           own == [voter |-> i, term |-> t, for |-> i]
<1>1. /\ used.elections \in Nat /\ used'.elections = n /\ n \in Nat \ {0}
      /\ campaign' = [campaign EXCEPT ![i] = [round |-> n, term |-> t, voters |-> {}]]
      /\ campaign \in [Server -> [round: Nat, term: Nat, voters: SUBSET Server]]
      /\ cast' = cast \cup {own}
      /\ wins' = wins
      /\ \A m \in calls' : m \in calls \/ \E j \in Peers(i) : m = VoteRequest(i, j, n)
  <2>1. used.elections \in Nat /\ n \in Nat \ {0}
    BY SMTT(30) DEF TypeInv, TypeOK, Budget
  <2>2. used'.elections = n
    BY DEF StartElection, TypeInv, TypeOK, Budget
  <2>3. campaign \in [Server -> [round: Nat, term: Nat, voters: SUBSET Server]]
    BY DEF TypeInv, TypeOK
  <2>4. PICK sent \in SUBSET {VoteRequest(i, j, n) : j \in Peers(i)} : calls' = calls \cup sent
    BY DEF StartElection, Send
  <2>5. \A m \in calls' : m \in calls \/ \E j \in Peers(i) : m = VoteRequest(i, j, n)
    BY <2>4
  <2>6. QED
    BY <2>1, <2>2, <2>3, <2>5 DEF StartElection
<1>2. ASSUME NEW j \in Server PROVE CampaignSound(j)'
  <2>1. CASE j = i
    <3>1. campaign'[j] = [round |-> n, term |-> t, voters |-> {}] /\ own \in cast'
      BY <1>1, <2>1
    <3>2. QED
      BY <1>1, <2>1, <3>1 DEF CampaignSound, Voted
  <2>2. CASE j # i
    <3>1. campaign'[j] = campaign[j] /\ campaign[j].round \in Nat
      BY <1>1, <2>2
    <3>2. QED
      BY <1>1, <3>1 DEF VoteInv, CampaignSound, Voted, Peers
  <2>3. QED
    BY <2>1, <2>2
<1>3. ASSUME NEW m \in calls', IsVote(m) PROVE VoteSound(m)'
  <2>1. CASE m \in calls
    <3>1. VoteSound(m) /\ m.src \in Server /\ m.round \in 1 .. n /\ m.round # n
      BY <1>1, <1>3, <2>1, VoteCallType DEF VoteInv, VoteSound
    <3>2. CASE m.src = i
      BY <1>1, <3>1, <3>2 DEF VoteSound
    <3>3. CASE m.src # i
      <4>1. campaign'[m.src] = campaign[m.src]
        BY <1>1, <3>1, <3>3
      <4>2. QED
        BY <1>1, <3>1, <4>1 DEF VoteSound, Voted
    <3>4. QED
      BY <3>2, <3>3
  <2>2. ASSUME NEW j \in Peers(i), m = VoteRequest(i, j, n) PROVE VoteSound(m)'
    <3>1. /\ m.kind = "vote" /\ m.src = i /\ m.dst = j /\ m.round = n /\ m.term = t
          /\ j # i /\ campaign'[i].term = t
      BY <1>1, <2>2 DEF VoteRequest, Peers
    <3>2. QED
      BY <1>1, <3>1 DEF VoteSound
  <2>3. QED
    BY <1>1, <2>1, <2>2
<1>4. WonByMajority'
  BY <1>1, WonStays DEF WonByMajority
<1>5. QED
  BY <1>2, <1>3, <1>4 DEF VoteInv

\* A vote is given in the term it is asked for, whatever the voter's term was.
LEMMA HandleRequestVoteVotes ==
  ASSUME TypeInv, VoteInv, NEW m \in calls, HandleRequestVote(m)
  PROVE  VoteInv'
<1>1. m \in VoteCall /\ m.kind = "vote"
  BY KindType DEF TypeInv, TypeOK, HandleRequestVote
<1>2. /\ m.dst \in Server /\ m.src \in Server /\ m.term \in Nat /\ m.round \in Nat
      /\ currentTerm[m.dst] \in Nat
  BY <1>1 DEF VoteCall, TypeInv, TypeOK
<1>3. PICK granted, t :
        /\ calls' = Reply(m, [kind |-> "voteReply", src |-> m.src, dst |-> m.dst,
                              round |-> m.round, granted |-> granted, term |-> t])
        /\ cast \subseteq cast'
        /\ granted => [voter |-> m.dst, term |-> m.term, for |-> m.src] \in cast'
  <2> DEFINE newer == m.term > currentTerm[m.dst]
             grant == /\ m.term >= currentTerm[m.dst]
                      /\ newer \/ votedFor[m.dst] \in {Nil, m.src}
                      /\ UpToDate(m, log[m.dst])
             now == IF newer THEN m.term ELSE currentTerm[m.dst]
  <2>1. /\ calls' = Reply(m, [kind |-> "voteReply", src |-> m.src, dst |-> m.dst,
                              round |-> m.round, granted |-> grant,
                              term |-> IF grant THEN now ELSE currentTerm[m.dst]])
        /\ cast' = IF grant
                   THEN cast \cup {[voter |-> m.dst, term |-> now, for |-> m.src]}
                   ELSE cast
    BY DEF HandleRequestVote
  <2>2. grant \in BOOLEAN /\ (grant => now = m.term)
    BY <1>2
  <2> HIDE DEF grant, now
  <2>3. QED
    BY <2>1, <2>2
<1> DEFINE r == [kind |-> "voteReply", src |-> m.src, dst |-> m.dst,
                 round |-> m.round, granted |-> granted, term |-> t]
<1>4. UNCHANGED <<campaign, used, wins>>
  BY DEF HandleRequestVote
<1>5. ASSUME NEW j \in Server PROVE CampaignSound(j)'
  BY <1>3, <1>4 DEF VoteInv, CampaignSound, Voted, Peers
<1>6. ASSUME NEW o \in calls', IsVote(o) PROVE VoteSound(o)'
  <2>1. o \in calls \/ o = r
    BY <1>3 DEF Reply
  <2>2. CASE o \in calls
    BY <1>3, <1>4, <1>6, <2>2 DEF VoteInv, VoteSound, Voted
  <2>3. CASE o = r
    <3>1. VoteSound(m)
      BY <1>1 DEF VoteInv, IsVote
    <3>2. /\ o.kind = "voteReply" /\ o.src = m.src /\ o.dst = m.dst
          /\ o.round = m.round /\ o.granted = granted
      BY <2>3
    <3>3. QED
      BY <1>1, <1>3, <1>4, <3>1, <3>2 DEF VoteSound, Voted
  <2>4. QED
    BY <2>1, <2>2, <2>3
<1>7. WonByMajority'
  BY <1>3, <1>4, WonStays DEF WonByMajority
<1>8. QED
  BY <1>5, <1>6, <1>7 DEF VoteInv

\* A vote is counted in the campaign it was asked for in.
LEMMA HandleVoteReplyVotes ==
  ASSUME TypeInv, VoteInv, NEW m \in calls, HandleVoteReply(m)
  PROVE  VoteInv'
<1>1. m \in VoteAnswer /\ m.kind = "voteReply" /\ m.src \in Server /\ m.dst \in Server
  BY KindType DEF TypeInv, TypeOK, HandleVoteReply, VoteAnswer
<1>2. UNCHANGED <<used, cast, wins>> /\ calls' = calls \ {m}
  BY DEF HandleVoteReply, ghostVars
<1>3. CASE campaign' = campaign
  BY <1>2, <1>3, VotesStand DEF SameVote
<1>4. CASE campaign' # campaign
  <2> DEFINE i == m.src
  <2>1. /\ m.granted /\ m.round = campaign[i].round
        /\ campaign' = [campaign EXCEPT ![i].voters = @ \cup {m.dst}]
    BY <1>4 DEF HandleVoteReply
  <2>2. campaign \in [Server -> [round: Nat, term: Nat, voters: SUBSET Server]]
    BY DEF TypeInv, TypeOK
  <2>3. /\ campaign'[i].round = campaign[i].round
        /\ campaign'[i].term = campaign[i].term
        /\ campaign'[i].voters = campaign[i].voters \cup {m.dst}
        /\ \A j \in Server \ {i} : campaign'[j] = campaign[j]
    BY <1>1, <2>1, <2>2
  <2>4. /\ m.round # 0 /\ m.dst # i
        /\ Voted(m.dst, campaign[i].term, i)
    <3>1. VoteSound(m)
      BY <1>1 DEF VoteInv, IsVote
    <3>2. used.elections \in Nat
      BY DEF TypeInv, TypeOK, Budget
    <3>3. QED
      BY <1>1, <2>1, <3>1, <3>2 DEF VoteSound
  <2>5. CampaignSound(i)'
    <3>1. CampaignSound(i)
      BY <1>1 DEF VoteInv
    <3>2. QED
      BY <1>1, <1>2, <2>1, <2>3, <2>4, <3>1 DEF CampaignSound, Voted, Peers
  <2>6. ASSUME NEW j \in Server \ {i} PROVE CampaignSound(j)'
    BY <1>2, <2>3 DEF VoteInv, CampaignSound, Voted, Peers
  <2>7. ASSUME NEW o \in calls', IsVote(o) PROVE VoteSound(o)'
    <3>1. VoteSound(o) /\ o.src \in Server
      BY <1>2, <2>7, VoteCallType DEF VoteInv
    <3>2. /\ campaign'[o.src].round = campaign[o.src].round
          /\ campaign'[o.src].term = campaign[o.src].term
      BY <2>3, <3>1
    <3>3. QED
      BY <1>2, <3>1, <3>2 DEF VoteSound, Voted
  <2>8. WonByMajority'
    BY <1>2, WonStays DEF WonByMajority
  <2>9. QED
    BY <2>5, <2>6, <2>7, <2>8 DEF VoteInv
<1>5. QED
  BY <1>3, <1>4

\* The votes that win an election are cast for its winner in its term.
LEMMA WinVotes ==
  ASSUME TypeInv, VoteInv, NEW i \in Server, Win(i)
  PROVE  VoteInv'
<1> DEFINE c == campaign[i]
           w == [node |-> i, term |-> currentTerm[i], round |-> c.round]
           S == {v \in Server : Voted(v, c.term, i)}
<1>1. /\ UNCHANGED <<cast, calls, used>>
      /\ campaign' = [campaign EXCEPT ![i] = Idle]
      /\ wins' = wins \/ (wins' = wins \cup {w} /\ currentTerm[i] = c.term)
      /\ WonElection(i)
  BY DEF Win, EndCampaign, StillCandidate
<1>2. Quorum(S)
  <2>1. CampaignSound(i) /\ c.voters # {} /\ c.voters \subseteq Server
    BY <1>1 DEF VoteInv, WonElection, TypeInv, TypeOK
  <2>2. c.voters \cup {i} \subseteq S /\ i \notin c.voters
    BY <2>1 DEF CampaignSound, Peers
  <2>3. IsFiniteSet(c.voters)
    BY <2>1, ServerAssumption, FS_Subset
  <2>4. Cardinality(c.voters \cup {i}) = Cardinality(c.voters) + 1
    BY <2>2, <2>3, FS_AddElement
  <2>5. Quorum(c.voters \cup {i})
    BY <1>1, <2>4 DEF Quorum, WonElection
  <2>6. c.voters \cup {i} \in SUBSET Server /\ S \in SUBSET Server
    BY <2>1
  <2> HIDE DEF c, S
  <2>7. QED
    BY <2>2, <2>5, <2>6, QuorumGrows
<1>3. WonByMajority'
  <2>1. ASSUME NEW v \in wins'
        PROVE  Quorum({u \in Server : [voter |-> u, term |-> v.term, for |-> v.node] \in cast'})
    <3>1. CASE v \in wins
      BY <1>1, <3>1 DEF VoteInv, WonByMajority
    <3>2. CASE v \notin wins
      <4>1. v.term = c.term /\ v.node = i
        BY <1>1, <3>2
      <4>2. S = {u \in Server : [voter |-> u, term |-> v.term, for |-> v.node] \in cast'}
        BY <1>1, <4>1 DEF Voted
      <4>3. QED
        BY <1>2, <4>2
    <3>3. QED
      BY <3>1, <3>2
  <2>2. QED
    BY <2>1 DEF WonByMajority
<1>4. ASSUME NEW j \in Server
      PROVE  campaign'[j] = campaign[j] \/ campaign'[j] = Idle
  BY <1>1 DEF TypeInv, TypeOK
<1>5. ASSUME NEW j \in Server PROVE CampaignSound(j)'
  <2>1. used.elections \in Nat
    BY DEF TypeInv, TypeOK, Budget
  <2>2. QED
    BY <1>1, <1>4, <2>1 DEF VoteInv, CampaignSound, Idle, Voted, Peers
<1>6. ASSUME NEW m \in calls', IsVote(m) PROVE VoteSound(m)'
  <2>1. VoteSound(m) /\ m.src \in Server /\ m.round # 0
    <3>1. VoteSound(m) /\ m.src \in Server /\ m.round \in Nat
      BY <1>1, <1>6, VoteCallType DEF VoteInv
    <3>2. used.elections \in Nat
      BY DEF TypeInv, TypeOK, Budget
    <3>3. QED
      BY <3>1, <3>2 DEF VoteSound
  <2>2. QED
    BY <1>1, <1>4, <2>1 DEF VoteSound, Voted, Idle
<1>7. QED
  BY <1>3, <1>5, <1>6 DEF VoteInv

LEMMA VoteStep == TypeInv /\ VoteInv /\ [Next]_vars => VoteInv'
<1> SUFFICES ASSUME TypeInv, VoteInv, [Next]_vars PROVE VoteInv'
  OBVIOUS
<1>1. ASSUME NEW i \in Server,
             \/ Dispatch(i) \/ ElectionTimeout(i) \/ StartElection(i) \/ Win(i)
             \/ CampaignTimeout(i) \/ StepDown(i) \/ SendHeartbeats(i) \/ Crash(i)
      PROVE  VoteInv'
  BY <1>1, RunVotes, StartElectionVotes, WinVotes, LeaderVotes, CrashVotes
<1>2. ASSUME NEW i \in Server, NEW c \in Command,
             Propose(i, c) \/ ProposeDiskError(i, c)
      PROVE  VoteInv'
  BY <1>2, LeaderVotes
<1>3. ASSUME NEW m \in calls, Receive(m) \/ CrashInAppend(m)
      PROVE  VoteInv'
  BY <1>3, HandleRequestVoteVotes, HandleVoteReplyVotes, AppendVotes, CrashVotes
     DEF Receive
<1>4. ASSUME NEW p \in DOMAIN proposals, NEW j \in Server, Replicate(p, j)
      PROVE  VoteInv'
  BY <1>4, LeaderVotes
<1>5. CASE UNCHANGED vars
  BY <1>5, LeaderVotes
<1>6. QED
  BY <1>1, <1>2, <1>3, <1>4, <1>5 DEF Next

\* Nobody becomes leader in a term without the votes, in that term, of a
\* majority of the nodes, however late the answers of earlier campaigns arrive,
\* and although a node forgets its term and its vote in a crash.
THEOREM MajorityElects == Spec => []WonByMajority
<1>1. VoteInv => WonByMajority
  BY DEF VoteInv
<1>2. QED
  BY TypeInit, TypeStep, VoteInit, VoteStep, <1>1, PTL DEF Spec

-----------------------------------------------------------------------------
(* Log matching.  A link is an entry with the term of the one before it.   *)
(* Logs and requests are made of links, and handling a request adds none;  *)
(* so logs match if an index and a term tell the link.                     *)

Link(t, es, k)  == [prev |-> IF k = 1 THEN t ELSE es[k - 1].term, entry |-> es[k]]
LinksOf(t, es)  == {Link(t, es, k) : k \in DOMAIN es}
TermBefore(m)   == IF m.prevIndex = 0 THEN 0 ELSE m.prevTerm
TermAt(l, n)    == IF n = 0 THEN 0 ELSE l[n].term

CallLinks(m)    == IF m.kind = "append" THEN LinksOf(TermBefore(m), m.entries) ELSE {}

Links == (UNION {LinksOf(0, log[i]) : i \in Server}) \cup
         (UNION {CallLinks(m) : m \in calls})

\* No two campaigns and no two elections won have the same number.
Rounds ==
  /\ \A w \in wins : w.round <= used.elections
  /\ \A i \in Server : campaign[i].round # 0 =>
       /\ \A w \in wins : w.round # campaign[i].round
       /\ \A j \in Server \ {i} : campaign[j].round # campaign[i].round

\* A leader has won its term, and is not about to stand again.
Leaders ==
  \A i \in Server :
    /\ loop[i] \in {"Candidate", "campaign"} => role[i] # "Leader"
    /\ role[i] = "Leader" => \E w \in wins : w.node = i /\ w.term = currentTerm[i]

\* An index and a term tell the link; entries are of terms that have been won;
\* and a leader's log reaches at least as far as any entry of its term.
Matched ==
  /\ \A a, b \in Links :
       a.entry.index = b.entry.index /\ a.entry.term = b.entry.term => a = b
  /\ \A a \in Links : \E w \in wins : w.term = a.entry.term
  /\ \A i \in Server : role[i] = "Leader" =>
       \A a \in Links : a.entry.term = currentTerm[i] =>
                          a.entry.index <= LastIndex(log[i])

MatchInv == Rounds /\ Leaders /\ (OneWinPerTerm => Matched)

\* In a contiguous log the term of an index is the term at that position.
LEMMA ContiguousTermOf ==
  ASSUME NEW l \in Seq(Entry), Contiguous(l), NEW n \in Nat, n <= Len(l)
  PROVE  TermOf(l, n) = TermAt(l, n)
<1>1. Len(l) \in Nat /\ DOMAIN l = 1 .. Len(l)
  BY LenProperties
<1>2. CASE n = 0
  <2>1. {k \in DOMAIN l : l[k].index < 0} = {}
    BY <1>1 DEF Contiguous
  <2>2. Before(l, n) = 0
    BY <1>2, <2>1, FS_EmptySet DEF Before
  <2>3. 1 \in DOMAIN l => l[1].index = 1
    BY DEF Contiguous
  <2>4. QED
    BY <1>2, <2>2, <2>3 DEF TermOf, TermAt
<1>3. CASE n # 0
  <2>1. Before(l, n) = n - 1
    BY <1>1, <1>3, ContiguousBefore DEF Smaller
  <2>2. n \in DOMAIN l /\ l[n].index = n
    BY <1>1, <1>3 DEF Contiguous
  <2>3. Before(l, n) + 1 = n
    BY <1>1, <2>1
  <2>4. QED
    BY <1>3, <2>2, <2>3 DEF TermOf, TermAt
<1>4. QED
  BY <1>2, <1>3

\* The links of a prefix are links of the log.
LEMMA PrefixLinks ==
  ASSUME NEW l \in Seq(Entry), NEW n \in 0 .. Len(l)
  PROVE  LinksOf(0, SubSeq(l, 1, n)) \subseteq LinksOf(0, l)
<1>1. Len(l) \in Nat /\ DOMAIN l = 1 .. Len(l)
  BY LenProperties
<1> DEFINE w == SubSeq(l, 1, n)
<1>2. w \in Seq(Entry) /\ Len(w) = n /\ \A k \in 1 .. n : w[k] = l[k]
  BY <1>1, StretchType
<1>3. DOMAIN w = 1 .. n
  BY <1>2, LenProperties
<1> HIDE DEF w
<1>4. ASSUME NEW k \in 1 .. n PROVE Link(0, w, k) = Link(0, l, k) /\ k \in DOMAIN l
  <2>1. k # 1 => k - 1 \in 1 .. n
    BY <1>1
  <2>2. QED
    BY <1>1, <1>2, <2>1 DEF Link
<1>5. LinksOf(0, w) \subseteq LinksOf(0, l)
  BY <1>3, <1>4 DEF LinksOf
<1>6. QED
  BY <1>5 DEF w

\* The links of what a leader sends are links of its log.
LEMMA FromLinks ==
  ASSUME NEW l \in Seq(Entry), Contiguous(l), NEW n \in Nat \ {0}
  PROVE  LinksOf(IF n - 1 = 0 THEN 0 ELSE TermOf(l, n - 1), From(l, n)) \subseteq LinksOf(0, l)
<1> DEFINE es == From(l, n)
           t == IF n - 1 = 0 THEN 0 ELSE TermOf(l, n - 1)
<1>1. Len(l) \in Nat /\ DOMAIN l = 1 .. Len(l)
  BY LenProperties
<1>2. es \in Seq(Entry) /\ Len(es) = Len(l) - Smaller(n - 1, Len(l))
  BY ContiguousFrom
<1>3. CASE n > Len(l)
  <2>1. Len(es) = 0
    <3>1. Smaller(n - 1, Len(l)) = Len(l)
      BY <1>1, <1>3 DEF Smaller
    <3>2. QED
      BY <1>1, <1>2, <3>1
  <2>2. DOMAIN es = {}
    BY <1>2, <2>1, LenProperties
  <2> HIDE DEF es, t
  <2>3. LinksOf(t, es) \subseteq LinksOf(0, l)
    BY <2>2 DEF LinksOf
  <2>4. QED
    BY <2>3 DEF es, t
<1>4. CASE n <= Len(l)
  <2>1. Before(l, n) + 1 = n
    BY <1>1, <1>4, ContiguousBefore DEF Smaller
  <2>2. /\ Len(es) = Len(l) - n + 1
        /\ \A k \in 1 .. Len(es) : es[k] = l[n + k - 1]
    <3>1. es = SubSeq(l, n, Len(l))
      BY <2>1 DEF From
    <3>2. QED
      BY <1>1, <1>4, <3>1, StretchType
  <2>3. DOMAIN es = 1 .. Len(l) - n + 1
    BY <1>2, <2>2, LenProperties
  <2>4. t = TermAt(l, n - 1)
    <3>1. n - 1 \in Nat /\ n - 1 <= Len(l)
      BY <1>1, <1>4
    <3>2. QED
      BY <3>1, ContiguousTermOf DEF TermAt
  <2> HIDE DEF es, t
  <2>5. ASSUME NEW k \in DOMAIN es
        PROVE  n + k - 1 \in DOMAIN l /\ Link(t, es, k) = Link(0, l, n + k - 1)
    <3>1. n + k - 1 \in DOMAIN l /\ es[k] = l[n + k - 1]
      BY <1>1, <1>4, <2>2, <2>3
    <3>2. CASE k = 1
      <4>1. n + k - 1 = n /\ (n = 1 <=> n - 1 = 0)
        BY <3>2
      <4>2. QED
        BY <2>4, <3>1, <3>2, <4>1 DEF Link, TermAt
    <3>3. CASE k # 1
      <4>1. k - 1 \in 1 .. Len(es) /\ n + (k - 1) - 1 = (n + k - 1) - 1 /\ n + k - 1 # 1
        BY <1>1, <1>4, <2>2, <2>3, <3>3
      <4>2. es[k - 1] = l[(n + k - 1) - 1]
        BY <2>2, <4>1
      <4>3. QED
        BY <3>1, <3>3, <4>1, <4>2 DEF Link
    <3>4. QED
      BY <3>2, <3>3
  <2>6. LinksOf(t, es) \subseteq LinksOf(0, l)
    BY <2>5 DEF LinksOf
  <2>7. QED
    BY <2>6 DEF es, t
<1>5. QED
  BY <1>1, <1>3, <1>4

\* A proposal adds one link: its entry, after the last term.
LEMMA AppendLinks ==
  ASSUME NEW l \in Seq(Entry), NEW e \in Entry
  PROVE  LinksOf(0, Append(l, e)) \subseteq
           LinksOf(0, l) \cup {[prev |-> LastTerm(l), entry |-> e]}
<1> DEFINE new == Append(l, e)
<1>1. Len(l) \in Nat /\ DOMAIN l = 1 .. Len(l)
  BY LenProperties
<1>2. /\ new \in Seq(Entry) /\ Len(new) = Len(l) + 1
      /\ \A k \in 1 .. Len(l) : new[k] = l[k]
      /\ new[Len(l) + 1] = e
  BY AppendProperties
<1>3. DOMAIN new = 1 .. Len(l) + 1
  BY <1>2, LenProperties
<1> HIDE DEF new
<1>4. ASSUME NEW k \in 1 .. Len(l) + 1
      PROVE  Link(0, new, k) \in LinksOf(0, l) \cup {[prev |-> LastTerm(l), entry |-> e]}
  <2>1. CASE k <= Len(l)
    <3>1. k \in DOMAIN l /\ (k # 1 => k - 1 \in 1 .. Len(l))
      BY <1>1, <2>1
    <3>2. Link(0, new, k) = Link(0, l, k)
      BY <1>1, <1>2, <3>1 DEF Link
    <3>3. QED
      BY <3>1, <3>2 DEF LinksOf
  <2>2. CASE k > Len(l)
    <3>1. k = Len(l) + 1
      BY <1>1, <2>2
    <3>2. CASE Len(l) = 0
      <4>1. l = <<>>
        BY <3>2, EmptySeq
      <4>2. LastTerm(l) = 0 /\ k = 1
        BY <3>1, <3>2, <4>1 DEF LastTerm
      <4>3. QED
        BY <1>2, <3>1, <4>2 DEF Link
    <3>3. CASE Len(l) # 0
      <4>1. l # <<>> /\ k # 1 /\ k - 1 = Len(l) /\ k - 1 \in 1 .. Len(l)
        BY <1>1, <3>1, <3>3, EmptySeq
      <4>2. LastTerm(l) = l[Len(l)].term /\ new[k - 1] = l[Len(l)]
        BY <1>2, <4>1 DEF LastTerm
      <4>3. QED
        BY <1>2, <3>1, <4>1, <4>2 DEF Link
    <3>4. QED
      BY <3>2, <3>3
  <2>3. QED
    BY <1>1, <2>1, <2>2
<1>5. LinksOf(0, new) \subseteq LinksOf(0, l) \cup {[prev |-> LastTerm(l), entry |-> e]}
  BY <1>3, <1>4 DEF LinksOf
<1>6. QED
  BY <1>5 DEF new

\* What the loop of HandleAppendEntries makes of a contiguous log: a part of it
\* that reaches the first missing entry, and the entries from there on.
LEMMA RewriteShape ==
  ASSUME NEW l \in Seq(Entry), Contiguous(l), NEW es \in Seq(Entry),
         NEW prev \in Nat, Follows(es, prev), prev <= Len(l), Missing(l, es) # {}
  PROVE  LET k == FirstMissing(l, es)
             new == Rewrite(l, l, es)
         IN /\ k \in 1 .. Len(es) /\ prev + k - 1 <= Len(l)
            /\ \A q \in 1 .. Len(es) : q < k => Has(l, es[q])
            /\ Len(new) = prev + Len(es)
            /\ \A n \in 1 .. prev + k - 1 : new[n] = l[n]
            /\ \A n \in prev + k .. prev + Len(es) : new[n] = es[n - prev]
<1> DEFINE k == FirstMissing(l, es)
           new == Rewrite(l, l, es)
           rest == SubSeq(es, k, Len(es))
           kept == IF Cuts(l, es) THEN Below(l, es[k].index) ELSE l
<1>1. /\ Len(l) \in Nat /\ Len(es) \in Nat /\ DOMAIN es = 1 .. Len(es)
      /\ LastIndex(l) = Len(l)
  BY LenProperties, ContiguousLast
<1>2. /\ k \in 1 .. Len(es)
      /\ \A q \in 1 .. Len(es) : q < k => Has(l, es[q])
  <2>1. k \in Missing(l, es) /\ \A n \in Missing(l, es) : k <= n
    BY FirstMissingLeast
  <2>2. QED
    BY <1>1, <2>1 DEF Missing
<1>3. Cuts(l, es) <=> es[k].index <= Len(l)
  BY <1>1 DEF Cuts
<1>4. new = kept \o rest
  BY DEF Rewrite
<1> HIDE DEF k
<1>5. es[k].index = prev + k
  BY <1>1, <1>2 DEF Follows
<1>6. prev + k - 1 <= Len(l)
  <2>1. CASE k = 1
    BY <1>1, <2>1
  <2>2. CASE k # 1
    <3>1. k - 1 \in 1 .. Len(es) /\ k - 1 < k
      BY <1>1, <1>2, <2>2
    <3>2. es[k - 1].index <= Len(l) /\ es[k - 1].index = prev + (k - 1)
      BY <1>1, <1>2, <3>1 DEF Has, Follows
    <3>3. QED
      BY <1>1, <1>2, <3>2
  <2>3. QED
    BY <2>1, <2>2
<1>7. /\ rest \in Seq(Entry) /\ Len(rest) = Len(es) - k + 1
      /\ \A n \in 1 .. Len(rest) : rest[n] = es[k + n - 1]
  <2>1. k \in Nat \ {0}
    BY <1>1, <1>2
  <2>2. QED
    BY <1>1, <1>2, <2>1, StretchType
<1>8. /\ kept \in Seq(Entry) /\ Len(kept) = prev + k - 1
      /\ \A n \in 1 .. prev + k - 1 : kept[n] = l[n]
  <2>1. CASE Cuts(l, es)
    <3>1. PICK at \in Nat \ {0} : at = prev + k
      BY <1>1, <1>2
    <3>2. Before(l, at) = at - 1
      <4>1. at - 1 < Len(l)
        BY <1>1, <1>2, <1>3, <1>5, <2>1, <3>1
      <4>2. QED
        BY <4>1, ContiguousBefore DEF Smaller
    <3>3. kept = SubSeq(l, 1, at - 1)
      BY <1>5, <2>1, <3>1, <3>2 DEF Below
    <3>4. at - 1 \in Nat /\ at - 1 <= Len(l) /\ at - 1 = prev + k - 1
      BY <1>1, <1>2, <1>6, <3>1
    <3> HIDE DEF kept
    <3>5. /\ kept \in Seq(Entry) /\ Len(kept) = at - 1
          /\ \A n \in 1 .. at - 1 : kept[n] = l[n]
      <4>1. /\ kept \in Seq(Entry)
            /\ Len(kept) = IF 1 <= at - 1 THEN at - 1 - 1 + 1 ELSE 0
            /\ \A n \in 1 .. Len(kept) : kept[n] = l[1 + n - 1]
        BY <3>3, <3>4, StretchType
      <4>2. Len(kept) = at - 1
        BY <3>4, <4>1
      <4>3. QED
        BY <4>1, <4>2
    <3>6. QED
      BY <3>4, <3>5
  <2>2. CASE ~Cuts(l, es)
    <3>1. kept = l /\ Len(l) = prev + k - 1
      BY <1>1, <1>2, <1>3, <1>5, <1>6, <2>2
    <3>2. QED
      BY <3>1
  <2>3. QED
    BY <2>1, <2>2
<1> HIDE DEF kept, rest
<1>9. /\ Len(new) = Len(kept) + Len(rest)
      /\ \A n \in 1 .. Len(kept) + Len(rest) :
           new[n] = IF n <= Len(kept) THEN kept[n] ELSE rest[n - Len(kept)]
  BY <1>4, <1>7, <1>8, ConcatProperties
<1> HIDE DEF new
<1>10. Len(new) = prev + Len(es)
  BY <1>1, <1>2, <1>7, <1>8, <1>9
<1>11. ASSUME NEW n \in 1 .. prev + k - 1 PROVE new[n] = l[n]
  BY <1>1, <1>2, <1>7, <1>8, <1>9
<1>12. ASSUME NEW n \in prev + k .. prev + Len(es) PROVE new[n] = es[n - prev]
  <2>1. /\ n \in 1 .. Len(kept) + Len(rest) /\ ~(n <= Len(kept))
        /\ n - Len(kept) \in 1 .. Len(rest)
        /\ k + (n - Len(kept)) - 1 = n - prev
    BY <1>1, <1>2, <1>7, <1>8
  <2>2. QED
    BY <1>7, <1>9, <2>1
<1>13. QED
  BY <1>2, <1>6, <1>10, <1>11, <1>12 DEF k, new

\* Handling a request makes no new link: the entry before the first missing one
\* has the term the request says, found in the log or checked as prevLogTerm.
LEMMA RewriteLinks ==
  ASSUME NEW l \in Seq(Entry), Contiguous(l), NEW es \in Seq(Entry),
         NEW prev \in Nat, Follows(es, prev), prev <= Len(l)
  PROVE  LinksOf(0, Rewrite(l, l, es)) \subseteq
           LinksOf(0, l) \cup LinksOf(TermAt(l, prev), es)
<1> DEFINE f == FirstMissing(l, es)
           new == Rewrite(l, l, es)
           t == TermAt(l, prev)
<1>1. CASE Missing(l, es) = {}
  BY <1>1 DEF Rewrite
<1>2. CASE Missing(l, es) # {}
  <2>1. /\ Len(l) \in Nat /\ Len(es) \in Nat
        /\ DOMAIN l = 1 .. Len(l) /\ DOMAIN es = 1 .. Len(es)
        /\ LastIndex(l) = Len(l)
    BY LenProperties, ContiguousLast
  <2>2. /\ f \in 1 .. Len(es) /\ prev + f - 1 <= Len(l)
        /\ \A q \in 1 .. Len(es) : q < f => Has(l, es[q])
        /\ Len(new) = prev + Len(es)
        /\ \A n \in 1 .. prev + f - 1 : new[n] = l[n]
        /\ \A n \in prev + f .. prev + Len(es) : new[n] = es[n - prev]
    BY <1>2, RewriteShape
  <2>3. DOMAIN new = 1 .. prev + Len(es)
    <3>1. new \in Seq(Entry)
      BY RewriteType
    <3>2. QED
      BY <2>2, <3>1, LenProperties
  <2> HIDE DEF f, new
  <2>4. ASSUME NEW n \in 1 .. prev + f - 1 PROVE Link(0, new, n) \in LinksOf(0, l)
    <3>1. n \in DOMAIN l /\ (n # 1 => n - 1 \in 1 .. prev + f - 1)
      BY <2>1, <2>2
    <3>2. Link(0, new, n) = Link(0, l, n)
      BY <2>2, <3>1 DEF Link
    <3>3. QED
      BY <3>1, <3>2 DEF LinksOf
  <2>5. ASSUME NEW n, n = prev + f PROVE Link(0, new, n) = Link(t, es, f)
    <3>1. new[n] = es[f]
      <4>1. n \in prev + f .. prev + Len(es) /\ n - prev = f
        BY <2>1, <2>2, <2>5
      <4>2. QED
        BY <2>2, <4>1
    <3>2. CASE f = 1 /\ prev = 0
      <4>1. n = 1 /\ t = 0
        BY <2>5, <3>2 DEF TermAt
      <4>2. QED
        BY <3>1, <3>2, <4>1 DEF Link
    <3>3. CASE f = 1 /\ prev # 0
      <4>1. n # 1 /\ n - 1 = prev /\ prev \in 1 .. prev + f - 1
        BY <2>5, <3>3
      <4>2. new[n - 1].term = t
        BY <2>2, <3>3, <4>1 DEF TermAt
      <4>3. QED
        BY <3>1, <3>3, <4>1, <4>2 DEF Link
    <3>4. CASE f # 1
      <4>1. /\ n # 1 /\ n - 1 \in 1 .. prev + f - 1 /\ n - 1 <= Len(l)
            /\ f - 1 \in 1 .. Len(es) /\ f - 1 < f /\ prev + (f - 1) = n - 1
        BY <2>1, <2>2, <2>5, <3>4
      <4>2. Has(l, es[f - 1]) /\ es[f - 1].index = n - 1
        BY <2>1, <2>2, <4>1 DEF Follows
      <4>3. TermOf(l, n - 1) = TermAt(l, n - 1) /\ n - 1 # 0
        BY <4>1, ContiguousTermOf
      <4>4. l[n - 1].term = es[f - 1].term
        BY <4>2, <4>3 DEF Has, TermAt
      <4>5. new[n - 1] = l[n - 1]
        BY <2>2, <4>1
      <4>6. QED
        BY <3>1, <3>4, <4>1, <4>4, <4>5 DEF Link
    <3>5. QED
      BY <3>2, <3>3, <3>4
  <2>6. ASSUME NEW n \in prev + f + 1 .. prev + Len(es)
        PROVE  Link(0, new, n) = Link(t, es, n - prev)
    <3>1. /\ n \in prev + f .. prev + Len(es) /\ n - 1 \in prev + f .. prev + Len(es)
          /\ n # 1 /\ n - prev # 1 /\ (n - 1) - prev = (n - prev) - 1
      BY <2>1, <2>2
    <3>2. new[n] = es[n - prev] /\ new[n - 1] = es[(n - prev) - 1]
      BY <2>2, <3>1
    <3>3. QED
      BY <3>1, <3>2 DEF Link
  <2> HIDE DEF t
  <2>7. ASSUME NEW n \in DOMAIN new
        PROVE  Link(0, new, n) \in LinksOf(0, l) \cup LinksOf(t, es)
    <3>1. CASE n \in 1 .. prev + f - 1
      BY <2>4, <3>1
    <3>2. CASE n = prev + f
      BY <2>1, <2>2, <2>5, <3>2 DEF LinksOf
    <3>3. CASE n \in prev + f + 1 .. prev + Len(es)
      <4>1. n - prev \in DOMAIN es
        BY <2>1, <2>2, <3>3
      <4>2. QED
        BY <2>6, <3>3, <4>1 DEF LinksOf
    <3>4. QED
      BY <2>1, <2>2, <2>3, <3>1, <3>2, <3>3
  <2>8. LinksOf(0, new) \subseteq LinksOf(0, l) \cup LinksOf(t, es)
    BY <2>7 DEF LinksOf
  <2>9. QED
    BY <2>8 DEF new, t
<1>3. QED
  BY <1>1, <1>2

\* If an index and a term tell the link, two contiguous logs of such links that
\* have the same term at an index are the same up to it.
LEMMA LinksMatch ==
  ASSUME NEW L, \A a, b \in L : /\ a.entry.index = b.entry.index
                                /\ a.entry.term = b.entry.term
                                => a = b,
         NEW l \in Seq(Entry), Contiguous(l), LinksOf(0, l) \subseteq L,
         NEW r \in Seq(Entry), Contiguous(r), LinksOf(0, r) \subseteq L,
         NEW n \in DOMAIN l \cap DOMAIN r, l[n].term = r[n].term
  PROVE  SubSeq(l, 1, n) = SubSeq(r, 1, n)
<1>1. /\ Len(l) \in Nat /\ DOMAIN l = 1 .. Len(l)
      /\ Len(r) \in Nat /\ DOMAIN r = 1 .. Len(r)
  BY LenProperties
<1>2. n \in Nat \ {0} /\ n <= Len(l) /\ n <= Len(r)
  BY <1>1
<1>3. ASSUME NEW k \in 1 .. n, l[k].term = r[k].term
      PROVE  l[k] = r[k] /\ (k # 1 => l[k - 1].term = r[k - 1].term)
  <2> DEFINE a == Link(0, l, k)
             b == Link(0, r, k)
  <2>1. k \in DOMAIN l /\ k \in DOMAIN r
    BY <1>1, <1>2
  <2>2. a \in L /\ b \in L
    BY <2>1 DEF LinksOf
  <2>3. /\ a.entry = l[k] /\ b.entry = r[k]
        /\ k # 1 => a.prev = l[k - 1].term /\ b.prev = r[k - 1].term
    BY DEF Link
  <2>4. a.entry.index = b.entry.index /\ a.entry.term = b.entry.term
    BY <1>3, <2>1, <2>3 DEF Contiguous
  <2> HIDE DEF a, b
  <2>5. a = b
    BY <2>2, <2>4
  <2>6. QED
    BY <2>3, <2>5
<1> DEFINE Bad == {k \in 1 .. n : l[k] # r[k]}
<1>4. Bad = {}
  <2>1. SUFFICES ASSUME Bad # {} PROVE FALSE
    OBVIOUS
  <2>2. Bad \in SUBSET Nat /\ \A k \in Bad : k <= n
    BY <1>2
  <2>3. PICK k \in Bad : \A q \in Bad : q <= k
    BY <1>2, <2>1, <2>2, GreatestExists
  <2>4. k \in 1 .. n /\ l[k] # r[k]
    BY <2>3
  <2>5. CASE k = n
    BY <1>2, <1>3, <2>4, <2>5
  <2>6. CASE k # n
    <3>1. k + 1 \in 1 .. n /\ k + 1 # 1 /\ (k + 1) - 1 = k /\ ~(k + 1 <= k)
      BY <1>2, <2>4, <2>6
    <3>2. l[k + 1] = r[k + 1]
      BY <2>3, <3>1
    <3>3. l[k].term = r[k].term
      BY <1>3, <3>1, <3>2
    <3>4. QED
      BY <1>3, <2>4, <3>3
  <2>7. QED
    BY <2>5, <2>6
<1>5. /\ SubSeq(l, 1, n) \in Seq(Entry) /\ Len(SubSeq(l, 1, n)) = n
      /\ SubSeq(r, 1, n) \in Seq(Entry) /\ Len(SubSeq(r, 1, n)) = n
      /\ \A k \in 1 .. n : SubSeq(l, 1, n)[k] = l[k] /\ SubSeq(r, 1, n)[k] = r[k]
  BY <1>2, StretchType
<1>6. \A k \in 1 .. n : SubSeq(l, 1, n)[k] = SubSeq(r, 1, n)[k]
  BY <1>4, <1>5
<1>7. QED
  BY <1>5, <1>6, SeqEqual

-----------------------------------------------------------------------------
(* The steps that make no leader and no entry.                             *)

KeepsLeader(i) ==
  role'[i] = "Leader" => /\ role[i] = "Leader" /\ currentTerm'[i] = currentTerm[i]
                         /\ log'[i] = log[i]
KeepsLoop(i) ==
  loop'[i] \in {"Candidate", "campaign"} =>
    loop[i] \in {"Candidate", "campaign"} \/ role'[i] # "Leader"

LEMMA MatchInit == Init => MatchInv
<1> SUFFICES ASSUME Init PROVE MatchInv
  OBVIOUS
<1>1. Rounds /\ Leaders
  BY DEF Init, Start, Rounds, Leaders, Idle
<1>2. Links = {}
  <2>1. DOMAIN <<>> = {}
    BY EmptySeq, LenProperties
  <2>2. QED
    BY <2>1 DEF Init, Start, Links, LinksOf
<1>3. Matched
  BY <1>2 DEF Init, Start, Matched
<1>4. QED
  BY <1>1, <1>3 DEF MatchInv

\* Links that a log or a request had, and those of the next state.
LEMMA LinksHave ==
  /\ \A i \in Server : LinksOf(0, log[i]) \subseteq Links
  /\ \A m \in calls : CallLinks(m) \subseteq Links
BY DEF Links

LEMMA LinksWithin ==
  ASSUME NEW L, \A i \in Server : LinksOf(0, log'[i]) \subseteq L,
         \A m \in calls' : CallLinks(m) \subseteq L
  PROVE  Links' \subseteq L
BY DEF Links

LEMMA QuietLinks ==
  ASSUME log' = log, \A m \in calls' : m.kind = "append" => m \in calls
  PROVE  Links' \subseteq Links
<1>1. \A m \in calls' : CallLinks(m) \subseteq Links
  BY LinksHave DEF CallLinks
<1>2. QED
  BY <1>1, LinksHave, LinksWithin

LEMMA RoundsStand ==
  ASSUME TypeInv, Rounds, wins' = wins, used'.elections = used.elections,
         \A i \in Server : campaign'[i].round \in {campaign[i].round, 0}
  PROVE  Rounds'
BY DEF Rounds

LEMMA LogsStand ==
  ASSUME Leaders, OneWinPerTerm => Matched, wins' = wins, Links' \subseteq Links,
         \A i \in Server : KeepsLeader(i) /\ KeepsLoop(i)
  PROVE  Leaders' /\ (OneWinPerTerm => Matched)'
<1>1. Leaders'
  BY DEF Leaders, KeepsLeader, KeepsLoop
<1>2. ASSUME OneWinPerTerm' PROVE Matched'
  <2>1. Matched
    BY <1>2 DEF OneWinPerTerm
  <2>2. ASSUME NEW i \in Server, role'[i] = "Leader", NEW a \in Links',
               a.entry.term = currentTerm'[i]
        PROVE  a.entry.index <= LastIndex(log'[i])
    BY <2>1, <2>2 DEF Matched, KeepsLeader
  <2>3. QED
    BY <2>1, <2>2 DEF Matched
<1>3. QED
  BY <1>1, <1>2

LEMMA MatchStands ==
  ASSUME TypeInv, MatchInv, wins' = wins, used'.elections = used.elections,
         \A i \in Server : campaign'[i].round \in {campaign[i].round, 0},
         Links' \subseteq Links,
         \A i \in Server : KeepsLeader(i) /\ KeepsLoop(i)
  PROVE  MatchInv'
BY RoundsStand, LogsStand DEF MatchInv

LEMMA RunMatch ==
  ASSUME TypeInv, MatchInv, NEW i \in Server,
         Dispatch(i) \/ ElectionTimeout(i) \/ CampaignTimeout(i) \/ StepDown(i)
  PROVE  MatchInv'
<1>1. UNCHANGED <<wins, used, calls, log, currentTerm>>
  BY DEF Dispatch, ElectionTimeout, CampaignTimeout, StepDown, ghostVars, logVars, nodeVars
<1>2. \A j \in Server : campaign'[j].round \in {campaign[j].round, 0}
  <2>1. campaign' = campaign \/ campaign' = [campaign EXCEPT ![i] = Idle]
    BY DEF Dispatch, ElectionTimeout, CampaignTimeout, StepDown, EndCampaign
  <2>2. campaign \in [Server -> [round: Nat, term: Nat, voters: SUBSET Server]]
        /\ Idle.round = 0
    BY DEF TypeInv, TypeOK, Idle
  <2>3. QED
    BY <2>1, <2>2
<1>3. Links' \subseteq Links
  BY <1>1, QuietLinks
<1>4. ASSUME NEW j \in Server PROVE KeepsLeader(j) /\ KeepsLoop(j)
  <2>1. role' = role \/ role' = [role EXCEPT ![i] = "Candidate"]
    BY DEF Dispatch, ElectionTimeout, CampaignTimeout, StepDown, nodeVars
  <2>2. \/ loop' = [loop EXCEPT ![i] = role[i]] /\ role' = role
        \/ loop' = [loop EXCEPT ![i] = "run"]
        \/ loop' = [loop EXCEPT ![i] = "Follower"]
    BY DEF Dispatch, ElectionTimeout, CampaignTimeout, StepDown, EndCampaign, Return, nodeVars
  <2>3. role \in [Server -> {"Follower", "Candidate", "Leader"}]
        /\ loop \in [Server -> {"run", "campaign", "Follower", "Candidate", "Leader"}]
    BY DEF TypeInv, TypeOK
  <2>4. KeepsLeader(j)
    BY <1>1, <2>1, <2>3 DEF KeepsLeader
  <2>5. KeepsLoop(j)
    BY <2>2, <2>3 DEF KeepsLoop
  <2>6. QED
    BY <2>4, <2>5
<1>5. QED
  BY <1>1, <1>2, <1>3, <1>4, MatchStands

\* Requests to append are made of links of the sender's log.
LEMMA SendMatch ==
  ASSUME TypeInv, LogInv, MatchInv,
         \/ \E i \in Server : SendHeartbeats(i)
         \/ \E p \in DOMAIN proposals : \E j \in Server : Replicate(p, j)
  PROVE  MatchInv'
<1>1. UNCHANGED <<wins, campaign, log, currentTerm, role, loop>>
  BY DEF SendHeartbeats, Replicate, ghostVars, logVars, nodeVars
<1>2. used'.elections = used.elections
  <2>1. used' = used \/ used' = [used EXCEPT !.heartbeats = @ + 1]
    BY DEF SendHeartbeats, Replicate
  <2>2. QED
    BY <2>1 DEF TypeInv, TypeOK, Budget
<1>3. \A m \in calls' : CallLinks(m) \subseteq Links
  <2>1. ASSUME NEW i \in Server, SendHeartbeats(i)
        PROVE  \A m \in calls' : CallLinks(m) \subseteq Links
    <3>1. DOMAIN <<>> = {}
      BY EmptySeq, LenProperties
    <3>2. \A j : CallLinks(AppendRequest(i, j, 0, currentTerm[i], 0, <<>>)) = {}
      BY <3>1 DEF CallLinks, AppendRequest, LinksOf
    <3>3. \A m \in calls' :
            m \in calls \/ \E j : m = AppendRequest(i, j, 0, currentTerm[i], 0, <<>>)
      BY <2>1 DEF SendHeartbeats, Send
    <3>4. QED
      BY <3>2, <3>3, LinksHave
  <2>2. ASSUME NEW p \in DOMAIN proposals, NEW j \in Server, Replicate(p, j)
        PROVE  \A m \in calls' : CallLinks(m) \subseteq Links
    <3> DEFINE i == proposals[p].node
               next == nextIndex[i][j]
               req == AppendRequest(i, j, p, proposals[p].entry.term, next - 1,
                                    From(log[i], next))
    <3>1. i \in Server
      BY ProposalType DEF TypeInv
    <3>2. next \in Nat \ {0}
      <4>1. nextIndex[i][j] \in Nat
        BY <3>1 DEF TypeInv, TypeOK
      <4>2. nextIndex[i][j] >= 1
        BY <2>2 DEF TypeInv, Routable, Replicate
      <4>3. QED
        BY <4>1, <4>2
    <3>3. log[i] \in Seq(Entry) /\ Contiguous(log[i])
      BY <3>1 DEF TypeInv, TypeOK, LogInv, Gapless
    <3>4. calls' = calls \cup {req}
      BY <2>2 DEF Replicate
    <3> HIDE DEF next
    <3>5. /\ req.kind = "append" /\ req.entries = From(log[i], next)
          /\ req.prevIndex = next - 1 /\ req.prevTerm = TermOf(log[i], next - 1)
      BY DEF AppendRequest
    <3> HIDE DEF req
    <3>6. CallLinks(req) \subseteq LinksOf(0, log[i])
      <4>1. CallLinks(req) = LinksOf(IF next - 1 = 0 THEN 0 ELSE TermOf(log[i], next - 1),
                                     From(log[i], next))
        BY <3>5 DEF CallLinks, TermBefore
      <4>2. QED
        BY <3>2, <3>3, <4>1, FromLinks
    <3>7. QED
      BY <3>1, <3>4, <3>6, LinksHave
  <2>3. QED
    BY <2>1, <2>2
<1>4. Links' \subseteq Links
  BY <1>1, <1>3, LinksHave, LinksWithin
<1>5. QED
  BY <1>1, <1>2, <1>4, MatchStands DEF KeepsLeader, KeepsLoop

LEMMA VoteMatch ==
  ASSUME TypeInv, MatchInv, NEW m \in calls, HandleRequestVote(m) \/ HandleVoteReply(m)
  PROVE  MatchInv'
<1>1. UNCHANGED <<wins, used, log, loop>>
  BY DEF HandleRequestVote, HandleVoteReply, ghostVars, logVars
<1>2. /\ m.src \in Server /\ m.dst \in Server /\ m.term \in Nat
      /\ currentTerm \in [Server -> Nat]
      /\ role \in [Server -> {"Follower", "Candidate", "Leader"}]
  <2>1. m \in VoteCall \/ m \in VoteAnswer
    BY KindType DEF TypeInv, TypeOK, HandleRequestVote, HandleVoteReply
  <2>2. QED
    BY <2>1 DEF TypeInv, TypeOK, VoteCall, VoteAnswer
<1>3. \A j \in Server : campaign'[j].round \in {campaign[j].round, 0}
  <2>1. \/ campaign' = campaign
        \/ campaign' = [campaign EXCEPT ![m.src].voters = @ \cup {m.dst}]
    BY DEF HandleRequestVote, HandleVoteReply
  <2>2. campaign \in [Server -> [round: Nat, term: Nat, voters: SUBSET Server]]
    BY DEF TypeInv, TypeOK
  <2>3. QED
    BY <1>2, <2>1, <2>2
<1>4. Links' \subseteq Links
  <2>1. \A o \in calls' : o.kind = "append" => o \in calls
    BY DEF HandleRequestVote, HandleVoteReply, Reply
  <2>2. QED
    BY <1>1, <2>1, QuietLinks
<1>5. ASSUME NEW j \in Server PROVE KeepsLeader(j) /\ KeepsLoop(j)
  <2>1. CASE HandleRequestVote(m)
    <3>1. role'[j] = "Leader" => role[j] = "Leader" /\ currentTerm'[j] = currentTerm[j]
      BY <1>2, <2>1 DEF HandleRequestVote
    <3>2. QED
      BY <1>1, <3>1 DEF KeepsLeader, KeepsLoop
  <2>2. CASE HandleVoteReply(m)
    <3>1. role'[j] = "Leader" => role[j] = "Leader" /\ currentTerm'[j] = currentTerm[j]
      BY <1>2, <2>2 DEF HandleVoteReply, BecomeFollower, nodeVars
    <3>2. QED
      BY <1>1, <3>1 DEF KeepsLeader, KeepsLoop
  <2>3. QED
    BY <2>1, <2>2
<1>6. QED
  BY <1>1, <1>3, <1>4, <1>5, MatchStands

LEMMA AnswerMatch ==
  ASSUME TypeInv, MatchInv, NEW m \in calls,
         \/ RefuseAppend(m) \/ AppendConflict(m) \/ HandleHeartbeatReply(m)
         \/ HandleAppendReply(m)
  PROVE  MatchInv'
<1>1. UNCHANGED <<wins, used, log, loop, campaign>>
  BY DEF RefuseAppend, AppendConflict, HandleHeartbeatReply, HandleAppendReply,
     ghostVars, logVars
<1>2. Links' \subseteq Links
  <2>1. \A t, ok, c : AppendReply(m, t, ok, c).kind # "append"
    BY DEF AppendReply
  <2>2. CASE RefuseAppend(m)
    BY <1>1, <2>1, <2>2, QuietLinks DEF RefuseAppend, Reply
  <2>3. CASE AppendConflict(m)
    BY <1>1, <2>1, <2>3, QuietLinks DEF AppendConflict, Reply
  <2>4. CASE HandleHeartbeatReply(m) \/ HandleAppendReply(m)
    <3>1. calls' = calls \ {m}
      BY <2>4 DEF HandleHeartbeatReply, HandleAppendReply
    <3>2. QED
      BY <1>1, <3>1, QuietLinks
  <2>5. QED
    BY <2>2, <2>3, <2>4
<1>3. ASSUME NEW j \in Server PROVE KeepsLeader(j) /\ KeepsLoop(j)
  <2>1. \/ UNCHANGED <<role, currentTerm>>
        \/ \E i, t : BecomeFollower(i, t)
        \/ FollowLeader(m)
    BY DEF RefuseAppend, AppendConflict, HandleHeartbeatReply, HandleAppendReply, nodeVars
  <2>2. role'[j] = "Leader" => role[j] = "Leader" /\ currentTerm'[j] = currentTerm[j]
    <3>1. role \in [Server -> {"Follower", "Candidate", "Leader"}]
          /\ currentTerm \in [Server -> Nat]
      BY DEF TypeInv, TypeOK
    <3>2. QED
      BY <2>1, <3>1 DEF BecomeFollower, FollowLeader
  <2>3. QED
    BY <1>1, <2>2 DEF KeepsLeader, KeepsLoop
<1>4. QED
  BY <1>1, <1>2, <1>3, MatchStands

\* A consistent request leaves a log of links that were there before.
LEMMA AppendedLinks ==
  ASSUME TypeInv, LogInv, NEW m \in calls, m.kind = "append",
         Consistent(log[m.dst], m)
  PROVE  LinksOf(0, Rewrite(log[m.dst], log[m.dst], m.entries)) \subseteq Links
<1> DEFINE l == log[m.dst]
<1>1. m \in AppendCall
  BY KindType DEF TypeInv, TypeOK
<1>2. /\ m.dst \in Server /\ m.entries \in Seq(Entry) /\ m.prevIndex \in Nat
      /\ l \in Seq(Entry) /\ Contiguous(l) /\ Follows(m.entries, m.prevIndex)
  BY <1>1 DEF AppendCall, TypeInv, TypeOK, LogInv, Gapless, CallsFollow
<1>3. LastIndex(l) = Len(l) /\ Len(l) \in Nat
  BY <1>2, ContiguousLast
<1>4. m.prevIndex <= Len(l) /\ TermAt(l, m.prevIndex) = TermBefore(m)
  <2>1. CASE m.prevIndex = 0
    BY <1>3, <2>1 DEF TermAt, TermBefore
  <2>2. CASE m.prevIndex # 0
    <3>1. m.prevIndex <= Len(l) /\ TermOf(l, m.prevIndex) = m.prevTerm
      BY <1>3, <2>2 DEF Consistent
    <3>2. QED
      BY <1>2, <2>2, <3>1, ContiguousTermOf DEF TermBefore
  <2>3. QED
    BY <2>1, <2>2
<1>5. LinksOf(0, l) \subseteq Links /\ LinksOf(TermBefore(m), m.entries) \subseteq Links
  <2>1. CallLinks(m) = LinksOf(TermBefore(m), m.entries)
    BY DEF CallLinks
  <2>2. QED
    BY <1>2, <2>1, LinksHave
<1> HIDE DEF l
<1>6. LinksOf(0, Rewrite(l, l, m.entries)) \subseteq Links
  BY <1>2, <1>4, <1>5, RewriteLinks
<1>7. QED
  BY <1>6 DEF l

LEMMA AppendMatch ==
  ASSUME TypeInv, LogInv, MatchInv, NEW m \in calls,
         HandleAppendEntries(m) \/ AppendDiskError(m)
  PROVE  MatchInv'
<1> DEFINE i == m.dst
           l == Rewrite(log[i], log[i], m.entries)
<1>1. m.kind = "append" /\ Consistent(log[i], m) /\ FollowLeader(m)
  BY DEF HandleAppendEntries, AppendDiskError, AppendTo
<1>2. m \in AppendCall /\ i \in Server
  BY <1>1, KindType DEF TypeInv, TypeOK, AppendCall
<1>3. /\ UNCHANGED <<wins, loop, campaign>>
      /\ log' = [log EXCEPT ![i] = l]
      /\ calls' = Reply(m, AppendReply(m, m.term, TRUE, 0))
  BY DEF HandleAppendEntries, AppendDiskError, AppendTo, ghostVars
<1>4. used'.elections = used.elections
  <2>1. used' = used \/ used' = [used EXCEPT !.diskErrors = @ + 1]
    BY DEF HandleAppendEntries, AppendDiskError
  <2>2. QED
    BY <2>1 DEF TypeInv, TypeOK, Budget
<1>5. Links' \subseteq Links
  <2>1. LinksOf(0, l) \subseteq Links
    BY <1>1, AppendedLinks
  <2>2. log \in [Server -> Seq(Entry)]
    BY DEF TypeInv, TypeOK
  <2> HIDE DEF l
  <2>3. ASSUME NEW j \in Server PROVE LinksOf(0, log'[j]) \subseteq Links
    BY <1>3, <2>1, <2>2, LinksHave
  <2>4. ASSUME NEW o \in calls' PROVE CallLinks(o) \subseteq Links
    BY <1>3, LinksHave DEF Reply, AppendReply, CallLinks
  <2>5. QED
    BY <2>3, <2>4, LinksWithin
<1>6. ASSUME NEW j \in Server PROVE KeepsLeader(j) /\ KeepsLoop(j)
  <2>1. /\ log \in [Server -> Seq(Entry)] /\ currentTerm \in [Server -> Nat]
        /\ role \in [Server -> {"Follower", "Candidate", "Leader"}]
    BY DEF TypeInv, TypeOK
  <2> HIDE DEF l
  <2>2. KeepsLeader(j)
    BY <1>1, <1>2, <1>3, <2>1 DEF FollowLeader, BecomeFollower, KeepsLeader
  <2>3. QED
    BY <1>3, <2>2 DEF KeepsLoop
<1>7. QED
  BY <1>3, <1>4, <1>5, <1>6, MatchStands

\* What a node finds in its WAL is made of links it had.
LEMMA RestartMatch ==
  ASSUME TypeInv, MatchInv, NEW i \in Server, NEW w, Restart(i, w),
         LinksOf(0, w) \subseteq Links, NEW cs \in SUBSET calls, calls' = Orphaned(i, cs)
  PROVE  MatchInv'
<1>1. /\ wins' = wins /\ used' = [used EXCEPT !.crashes = @ + 1]
      /\ log' = [log EXCEPT ![i] = w]
      /\ role' = [role EXCEPT ![i] = "Follower"]
      /\ currentTerm' = [currentTerm EXCEPT ![i] = 0]
      /\ loop' = [loop EXCEPT ![i] = "Follower"]
      /\ campaign' = [campaign EXCEPT ![i] = Idle]
  BY DEF Restart, ghostVars
<1>2. /\ used \in Budget /\ log \in [Server -> Seq(Entry)]
      /\ role \in [Server -> {"Follower", "Candidate", "Leader"}]
      /\ currentTerm \in [Server -> Nat]
      /\ loop \in [Server -> {"run", "campaign", "Follower", "Candidate", "Leader"}]
      /\ campaign \in [Server -> [round: Nat, term: Nat, voters: SUBSET Server]]
      /\ Idle.round = 0
  BY DEF TypeInv, TypeOK, Idle
<1>3. used'.elections = used.elections
  BY <1>1, <1>2 DEF Budget
<1>4. \A j \in Server : campaign'[j].round \in {campaign[j].round, 0}
  BY <1>1, <1>2
<1>5. \A j \in Server : KeepsLeader(j) /\ KeepsLoop(j)
  BY <1>1, <1>2 DEF KeepsLeader, KeepsLoop
<1>6. \A m \in calls' : CallLinks(m) \subseteq Links
  <2>1. ASSUME NEW m \in calls' PROVE \E o \in calls : CallLinks(m) = CallLinks(o)
    <3>1. PICK o \in cs : m = IF o.kind \in {"vote", "append"} /\ o.src = i
                              THEN [o EXCEPT !.live = FALSE] ELSE o
      BY <2>1 DEF Orphaned
    <3>2. CASE m = o
      BY <3>2
    <3>3. CASE m # o
      <4>1. m = [o EXCEPT !.live = FALSE] /\ o.kind \in {"vote", "append"}
        BY <3>1, <3>3
      <4>2. o \in VoteCall \/ o \in AppendCall
        BY <4>1, KindType DEF TypeInv, TypeOK
      <4>3. CASE o \in VoteCall
        BY <4>1, <4>3 DEF VoteCall, CallLinks
      <4>4. CASE o \in AppendCall
        BY <4>1, <4>4 DEF AppendCall, CallLinks, TermBefore
      <4>5. QED
        BY <4>2, <4>3, <4>4
    <3>4. QED
      BY <3>2, <3>3
  <2>2. QED
    BY <2>1, LinksHave
<1>7. \A j \in Server : LinksOf(0, log'[j]) \subseteq Links
  BY <1>1, <1>2, LinksHave
<1>8. Links' \subseteq Links
  BY <1>6, <1>7, LinksWithin
<1>9. QED
  BY <1>1, <1>3, <1>4, <1>5, <1>8, MatchStands

LEMMA CrashMatch ==
  ASSUME TypeInv, LogInv, MatchInv, wal = log
  PROVE  /\ \A i \in Server : Crash(i) => MatchInv'
         /\ \A m \in calls : CrashInAppend(m) => MatchInv'
<1>2. wal = log
  OBVIOUS
<1>3. ASSUME NEW i \in Server, Crash(i) PROVE MatchInv'
  <2>1. LinksOf(0, wal[i]) \subseteq Links
    BY <1>2, LinksHave
  <2>2. QED
    BY <1>3, <2>1, RestartMatch DEF Crash
<1>4. ASSUME NEW m \in calls, CrashInAppend(m) PROVE MatchInv'
  <2> DEFINE new == Rewrite(log[m.dst], log[m.dst], m.entries)
  <2>1. m \in AppendCall /\ m.dst \in Server /\ new \in Seq(Entry)
    BY <1>4, AppendedLog DEF CrashInAppend, AppendCall
  <2>2. PICK w \in PartialWal(log[m.dst], log[m.dst], m.entries) : Restart(m.dst, w)
    BY <1>2, <1>4 DEF CrashInAppend
  <2>3. PICK n \in 0 .. Len(new) : w = SubSeq(new, 1, n)
    BY <2>2 DEF PartialWal
  <2>4. LinksOf(0, new) \subseteq Links
    BY <1>4, AppendedLinks DEF CrashInAppend
  <2>5. LinksOf(0, w) \subseteq Links
    <3> HIDE DEF new
    <3>1. QED
      BY <2>1, <2>3, <2>4, PrefixLinks
  <2>6. calls \ {m} \in SUBSET calls /\ calls' = Orphaned(m.dst, calls \ {m})
    BY <1>4 DEF CrashInAppend
  <2>7. QED
    BY <2>1, <2>2, <2>5, <2>6, RestartMatch
<1>5. QED
  BY <1>3, <1>4

-----------------------------------------------------------------------------
(* The steps that number a campaign, make a leader or make an entry.       *)

\* A new campaign has a number that none before it had.
LEMMA StartElectionMatch ==
  ASSUME TypeInv, VoteInv, MatchInv, NEW i \in Server, StartElection(i)
  PROVE  MatchInv'
<1> DEFINE n == used.elections + 1
           c == [round |-> n, term |-> currentTerm[i] + 1, voters |-> {}]
<1>1. /\ UNCHANGED <<wins, log, role>>
      /\ loop[i] = "Candidate" /\ loop' = [loop EXCEPT ![i] = "campaign"]
      /\ currentTerm' = [currentTerm EXCEPT ![i] = @ + 1]
      /\ campaign' = [campaign EXCEPT ![i] = c]
      /\ used' = [used EXCEPT !.elections = n]
  BY DEF StartElection, logVars
<1>2. /\ used \in Budget /\ currentTerm \in [Server -> Nat]
      /\ campaign \in [Server -> [round: Nat, term: Nat, voters: SUBSET Server]]
      /\ loop \in [Server -> {"run", "campaign", "Follower", "Candidate", "Leader"}]
  BY DEF TypeInv, TypeOK
<1>3. used.elections \in Nat /\ used'.elections = n
  BY <1>1, <1>2 DEF Budget
<1>4. /\ campaign'[i].round = n
      /\ \A j \in Server \ {i} : campaign'[j] = campaign[j]
  BY <1>1, <1>2
<1>5. /\ \A j \in Server : campaign[j].round \in Nat /\ campaign[j].round <= used.elections
      /\ wins \in SUBSET [node: Server, term: Nat, round: Nat]
      /\ \A w \in wins : w.round <= used.elections
  BY <1>2 DEF VoteInv, CampaignSound, MatchInv, Rounds, TypeInv, TypeOK
<1>6. Rounds'
  <2>1. \A w \in wins' : w.round \in Nat /\ w.round <= used'.elections /\ w.round # n
    BY <1>1, <1>3, <1>5
  <2>2. ASSUME NEW j \in Server, campaign'[j].round # 0
        PROVE  /\ \A w \in wins' : w.round # campaign'[j].round
               /\ \A k \in Server \ {j} : campaign'[k].round # campaign'[j].round
    <3>1. CASE j = i
      <4>1. \A k \in Server \ {i} : campaign'[k].round # n
        BY <1>3, <1>4, <1>5
      <4>2. QED
        BY <1>4, <2>1, <3>1, <4>1
    <3>2. CASE j # i
      <4>1. campaign'[j] = campaign[j] /\ campaign[j].round # n
        BY <1>3, <1>4, <1>5, <3>2
      <4>2. QED
        BY <1>1, <1>4, <2>2, <4>1 DEF MatchInv, Rounds
    <3>3. QED
      BY <3>1, <3>2
  <2>3. QED
    BY <2>1, <2>2 DEF Rounds
<1>7. Links' \subseteq Links
  <2>1. \A m \in calls' : m.kind = "append" => m \in calls
    BY DEF StartElection, Send, VoteRequest
  <2>2. QED
    BY <1>1, <2>1, QuietLinks
<1>8. ASSUME NEW j \in Server PROVE KeepsLeader(j) /\ KeepsLoop(j)
  BY <1>1, <1>2 DEF KeepsLeader, KeepsLoop, MatchInv, Leaders
<1>9. QED
  BY <1>1, <1>6, <1>7, <1>8, LogsStand DEF MatchInv

\* The winner of a term nobody has won finds no entry of it.
LEMMA WinMatch ==
  ASSUME TypeInv, VoteInv, MatchInv, NEW i \in Server, Win(i)
  PROVE  MatchInv'
<1> DEFINE w == [node |-> i, term |-> currentTerm[i], round |-> campaign[i].round]
<1>1. /\ UNCHANGED <<used, calls, log, currentTerm>>
      /\ campaign' = [campaign EXCEPT ![i] = Idle]
      /\ loop' = [loop EXCEPT ![i] = IF role[i] = "Follower" THEN "Follower" ELSE "run"]
      /\ campaign[i].voters # {}
  BY DEF Win, EndCampaign, Return, WonElection, logVars
<1>2. /\ campaign \in [Server -> [round: Nat, term: Nat, voters: SUBSET Server]]
      /\ loop \in [Server -> {"run", "campaign", "Follower", "Candidate", "Leader"}]
      /\ role \in [Server -> {"Follower", "Candidate", "Leader"}]
      /\ Idle.round = 0
  BY DEF TypeInv, TypeOK, Idle
<1>3. /\ \A j \in Server \ {i} : campaign'[j] = campaign[j] /\ loop'[j] = loop[j]
      /\ campaign'[i].round = 0 /\ loop'[i] \notin {"Candidate", "campaign"}
  BY <1>1, <1>2
<1>4. Links' \subseteq Links
  BY <1>1, QuietLinks
<1>5. CASE ~StillCandidate(i)
  <2>1. UNCHANGED <<role, wins>>
    BY <1>5 DEF Win
  <2>2. \A j \in Server : KeepsLeader(j) /\ KeepsLoop(j)
    BY <1>1, <1>3, <2>1 DEF KeepsLeader, KeepsLoop
  <2>3. \A j \in Server : campaign'[j].round \in {campaign[j].round, 0}
    BY <1>3
  <2>4. QED
    BY <1>1, <1>4, <2>1, <2>2, <2>3, MatchStands
<1>6. CASE StillCandidate(i)
  <2>1. wins' = wins \cup {w} /\ role' = [role EXCEPT ![i] = "Leader"]
    BY <1>6 DEF Win
  <2>2. /\ w.node = i /\ w.term = currentTerm[i] /\ w.round = campaign[i].round
        /\ w.round # 0 /\ w.round <= used.elections
    BY <1>1 DEF VoteInv, CampaignSound
  <2> HIDE DEF w
  <2>3. \A v \in wins : v.round # w.round
    BY <2>2 DEF MatchInv, Rounds
  <2>4. Rounds'
    <3>1. \A v \in wins' : v.round <= used'.elections
      BY <1>1, <2>1, <2>2 DEF MatchInv, Rounds
    <3>2. ASSUME NEW j \in Server, campaign'[j].round # 0
          PROVE  /\ \A v \in wins' : v.round # campaign'[j].round
                 /\ \A k \in Server \ {j} : campaign'[k].round # campaign'[j].round
      <4>1. j # i /\ campaign'[j] = campaign[j]
        BY <1>3, <3>2
      <4>2. \A v \in wins' : v.round # campaign[j].round
        BY <2>1, <2>2, <3>2, <4>1 DEF MatchInv, Rounds
      <4>3. ASSUME NEW k \in Server \ {j} PROVE campaign'[k].round # campaign[j].round
        BY <1>3, <3>2, <4>1 DEF MatchInv, Rounds
      <4>4. QED
        BY <4>1, <4>2, <4>3
    <3>3. QED
      BY <3>1, <3>2 DEF Rounds
  <2>5. Leaders'
    <3>1. ASSUME NEW j \in Server
          PROVE  /\ loop'[j] \in {"Candidate", "campaign"} => role'[j] # "Leader"
                 /\ role'[j] = "Leader" =>
                      \E v \in wins' : v.node = j /\ v.term = currentTerm'[j]
      <4>1. CASE j = i
        BY <1>1, <1>3, <2>1, <2>2, <4>1
      <4>2. CASE j # i
        <5>1. loop'[j] = loop[j] /\ role'[j] = role[j] /\ currentTerm' = currentTerm
          BY <1>1, <1>2, <1>3, <2>1, <4>2
        <5>2. QED
          BY <2>1, <5>1 DEF MatchInv, Leaders
      <4>3. QED
        BY <4>1, <4>2
    <3>2. QED
      BY <3>1 DEF Leaders
  <2>6. ASSUME OneWinPerTerm' PROVE Matched'
    <3>1. OneWinPerTerm
      BY <2>1, <2>6 DEF OneWinPerTerm
    <3>2. Matched
      BY <3>1 DEF MatchInv
    <3>3. \A a \in Links : a.entry.term # currentTerm[i]
      <4>1. SUFFICES ASSUME NEW a \in Links, a.entry.term = currentTerm[i] PROVE FALSE
        OBVIOUS
      <4>2. PICK v \in wins : v.term = currentTerm[i]
        BY <3>2, <4>1 DEF Matched
      <4>3. v = w
        BY <2>1, <2>2, <2>6, <4>2 DEF OneWinPerTerm
      <4>4. QED
        BY <2>3, <4>3
    <3>4. ASSUME NEW j \in Server, role'[j] = "Leader", NEW a \in Links',
                 a.entry.term = currentTerm'[j]
          PROVE  a.entry.index <= LastIndex(log'[j])
      <4>1. j # i /\ a \in Links /\ a.entry.term = currentTerm[j]
        BY <1>1, <1>4, <3>3, <3>4
      <4>2. role[j] = "Leader" /\ log' = log
        BY <1>1, <1>2, <2>1, <3>4, <4>1
      <4>3. QED
        BY <3>2, <4>1, <4>2 DEF Matched
    <3>5. QED
      BY <1>4, <2>1, <3>2, <3>4 DEF Matched
  <2>7. QED
    BY <2>4, <2>5, <2>6 DEF MatchInv
<1>7. QED
  BY <1>5, <1>6

LEMMA LinkType ==
  ASSUME TypeInv, NEW a \in Links
  PROVE  a.entry \in Entry
<1>1. ASSUME NEW t, NEW es \in Seq(Entry), a \in LinksOf(t, es) PROVE a.entry \in Entry
  <2>1. PICK k \in DOMAIN es : a = Link(t, es, k)
    BY <1>1 DEF LinksOf
  <2>2. a.entry = es[k] /\ k \in 1 .. Len(es)
    BY <2>1, LenProperties DEF Link
  <2>3. QED
    BY <2>2, ElementOfSeq
<1>2. CASE \E i \in Server : a \in LinksOf(0, log[i])
  BY <1>1, <1>2 DEF TypeInv, TypeOK
<1>3. CASE \E m \in calls : a \in CallLinks(m)
  <2>1. PICK m \in calls : m.kind = "append" /\ a \in LinksOf(TermBefore(m), m.entries)
    BY <1>3 DEF CallLinks
  <2>2. m.entries \in Seq(Entry)
    BY <2>1, KindType DEF TypeInv, TypeOK, AppendCall
  <2>3. QED
    BY <1>1, <2>1, <2>2
<1>4. QED
  BY <1>2, <1>3 DEF Links

\* A leader's entry follows its whole log, so no other has its index and term.
LEMMA ProposeMatch ==
  ASSUME TypeInv, LogInv, MatchInv, NEW i \in Server, NEW c \in Command,
         Propose(i, c) \/ ProposeDiskError(i, c)
  PROVE  MatchInv'
<1> DEFINE e == NewEntry(i, c)
           l == Append(log[i], e)
           new == [prev |-> LastTerm(log[i]), entry |-> e]
<1>1. /\ UNCHANGED <<wins, campaign, calls, currentTerm, role, loop>>
      /\ role[i] = "Leader" /\ log' = [log EXCEPT ![i] = l]
  BY DEF Propose, ProposeDiskError, nodeVars, ghostVars
<1>2. used'.elections = used.elections
  <2>1. used' = used \/ used' = [used EXCEPT !.diskErrors = @ + 1]
    BY DEF Propose, ProposeDiskError
  <2>2. QED
    BY <2>1 DEF TypeInv, TypeOK, Budget
<1>3. /\ log \in [Server -> Seq(Entry)] /\ Contiguous(log[i])
      /\ currentTerm \in [Server -> Nat]
  BY DEF TypeInv, TypeOK, LogInv, Gapless
<1>4. LastIndex(log[i]) = Len(log[i]) /\ Len(log[i]) \in Nat
  BY <1>3, ContiguousLast
<1>5. /\ e \in Entry /\ e.index = LastIndex(log[i]) + 1
      /\ e.term = currentTerm[i] /\ new.entry = e
  BY <1>3, <1>4 DEF NewEntry, Entry
<1> HIDE DEF e
<1>6. LastIndex(l) = LastIndex(log[i]) + 1
  <2>1. /\ l \in Seq(Entry) /\ Len(l) = Len(log[i]) + 1 /\ l[Len(log[i]) + 1] = e
    BY <1>3, <1>5, AppendProperties
  <2>2. l # <<>>
    <3>1. Len(l) # 0
      BY <1>4, <2>1
    <3>2. QED
      BY <3>1, EmptySeq
  <2>3. QED
    BY <1>5, <2>1, <2>2 DEF LastIndex
<1>7. Links' \subseteq Links \cup {new}
  <2>1. LinksOf(0, l) \subseteq LinksOf(0, log[i]) \cup {new}
    BY <1>3, <1>5, AppendLinks
  <2> HIDE DEF l, new
  <2>2. ASSUME NEW j \in Server PROVE LinksOf(0, log'[j]) \subseteq Links \cup {new}
    <3>1. log'[j] = log[j] \/ (j = i /\ log'[j] = l)
      BY <1>1, <1>3
    <3>2. QED
      BY <2>1, <3>1, LinksHave
  <2>3. ASSUME NEW m \in calls' PROVE CallLinks(m) \subseteq Links \cup {new}
    BY <1>1, LinksHave
  <2>4. QED
    BY <2>2, <2>3, LinksWithin
<1> HIDE DEF l, new
<1>8. Rounds'
  BY <1>1, <1>2 DEF MatchInv, Rounds
<1>9. Leaders'
  BY <1>1 DEF MatchInv, Leaders
<1>10. ASSUME OneWinPerTerm' PROVE Matched'
  <2>1. OneWinPerTerm /\ Matched
    BY <1>1, <1>10 DEF OneWinPerTerm, MatchInv
  <2>2. PICK w \in wins : w.node = i /\ w.term = currentTerm[i]
    BY <1>1 DEF MatchInv, Leaders
  <2>3. ASSUME NEW a \in Links, a.entry.term = currentTerm[i]
        PROVE  a.entry.index <= LastIndex(log[i]) /\ a.entry.index \in Nat
    BY <1>1, <2>1, <2>3, LinkType DEF Matched, Entry
  <2>4. ASSUME NEW a \in Links
        PROVE  ~(a.entry.index = e.index /\ a.entry.term = e.term)
    BY <1>4, <1>5, <2>3
  <2>5. ASSUME NEW a \in Links', NEW b \in Links',
               a.entry.index = b.entry.index, a.entry.term = b.entry.term
        PROVE  a = b
    <3>1. CASE a \in Links /\ b \in Links
      BY <2>1, <2>5, <3>1 DEF Matched
    <3>2. CASE a = new \/ b = new
      BY <1>5, <1>7, <2>4, <2>5, <3>2
    <3>3. QED
      BY <1>7, <3>1, <3>2
  <2>6. ASSUME NEW a \in Links' PROVE \E v \in wins' : v.term = a.entry.term
    <3>1. CASE a \in Links
      BY <1>1, <2>1, <3>1 DEF Matched
    <3>2. CASE a = new
      BY <1>1, <1>5, <2>2, <3>2
    <3>3. QED
      BY <1>7, <3>1, <3>2
  <2>7. ASSUME NEW j \in Server, role'[j] = "Leader", NEW a \in Links',
               a.entry.term = currentTerm'[j]
        PROVE  a.entry.index <= LastIndex(log'[j])
    <3>1. role[j] = "Leader" /\ a.entry.term = currentTerm[j]
      BY <1>1, <2>7
    <3>2. CASE j = i
      <4>1. LastIndex(log'[j]) = LastIndex(log[i]) + 1
        BY <1>1, <1>3, <1>6, <3>2
      <4>2. CASE a \in Links
        BY <1>4, <2>3, <3>1, <3>2, <4>1, <4>2
      <4>3. CASE a = new
        BY <1>4, <1>5, <4>1, <4>3
      <4>4. QED
        BY <1>7, <4>2, <4>3
    <3>3. CASE j # i
      <4>1. log'[j] = log[j]
        BY <1>1, <1>3, <3>3
      <4>2. PICK v \in wins : v.node = j /\ v.term = currentTerm[j]
        BY <3>1 DEF MatchInv, Leaders
      <4>3. a # new
        BY <1>5, <2>1, <2>2, <3>1, <3>3, <4>2 DEF OneWinPerTerm
      <4>4. QED
        BY <1>7, <2>1, <3>1, <4>1, <4>3 DEF Matched
    <3>4. QED
      BY <3>2, <3>3
  <2>8. QED
    BY <2>5, <2>6, <2>7 DEF Matched
<1>11. QED
  BY <1>8, <1>9, <1>10 DEF MatchInv

LEMMA MatchStep ==
  ASSUME TypeInv, LogsInv, VoteInv, Unharmed => MatchInv, [Next]_vars
  PROVE  Unharmed' => MatchInv'
<1>a. SUFFICES ASSUME Unharmed' PROVE MatchInv'
  OBVIOUS
<1>b. Unharmed
  BY <1>a, StaysUnharmed
<1>c. LogInv /\ MatchInv /\ InStep
  BY <1>b DEF LogsInv
<1>1. ASSUME NEW i \in Server,
             \/ Dispatch(i) \/ ElectionTimeout(i) \/ StartElection(i) \/ Win(i)
             \/ CampaignTimeout(i) \/ StepDown(i) \/ SendHeartbeats(i) \/ Crash(i)
      PROVE  MatchInv'
  BY <1>a, <1>c, <1>1, RunMatch, StartElectionMatch, WinMatch, SendMatch,
     RestartsInStep, CrashMatch
<1>2. ASSUME NEW i \in Server, NEW c \in Command,
             Propose(i, c) \/ ProposeDiskError(i, c)
      PROVE  MatchInv'
  BY <1>c, <1>2, ProposeMatch
<1>3. ASSUME NEW m \in calls, Receive(m) \/ CrashInAppend(m)
      PROVE  MatchInv'
  BY <1>a, <1>c, <1>3, VoteMatch, AnswerMatch, AppendMatch, RestartsInStep,
     CrashMatch DEF Receive
<1>4. ASSUME NEW p \in DOMAIN proposals, NEW j \in Server, Replicate(p, j)
      PROVE  MatchInv'
  BY <1>c, <1>4, SendMatch
<1>5. CASE UNCHANGED vars
  <2>1. UNCHANGED <<wins, used, campaign, log, calls, role, currentTerm, loop>>
    BY <1>5 DEF vars, nodeVars, logVars, ghostVars
  <2>2. Links' \subseteq Links
    BY <2>1, QuietLinks
  <2>3. QED
    BY <1>c, <2>1, <2>2, MatchStands DEF KeepsLeader, KeepsLoop
<1>6. QED
  BY <1>1, <1>2, <1>3, <1>4, <1>5 DEF Next

\* If no two elections are won in one term, and no node reads back a WAL in which
\* a write failed, two logs with the same term at an index are the same up to it:
\* AppendEntries carries no commit check of its own, only prevLogIndex and
\* prevLogTerm, and that is enough however calls are lost, delayed and reordered.
THEOREM LogsMatch == Spec => []LogMatching
<1> DEFINE Inv == Unharmed => MatchInv
<1>1. Init => Inv
  BY MatchInit
<1>2. TypeInv /\ LogsInv /\ VoteInv /\ Inv /\ [Next]_vars => Inv'
  BY MatchStep
<1>3. TypeInv /\ LogsInv /\ Inv => LogMatching
  <2>1. SUFFICES ASSUME TypeInv, LogInv, MatchInv, Unharmed, OneWinPerTerm,
                        NEW i \in Server, NEW j \in Server,
                        NEW n \in DOMAIN log[i] \cap DOMAIN log[j],
                        log[i][n].term = log[j][n].term
                 PROVE  SubSeq(log[i], 1, n) = SubSeq(log[j], 1, n)
    BY DEF LogMatching, LogsInv
  <2>2. /\ log[i] \in Seq(Entry) /\ Contiguous(log[i]) /\ LinksOf(0, log[i]) \subseteq Links
        /\ log[j] \in Seq(Entry) /\ Contiguous(log[j]) /\ LinksOf(0, log[j]) \subseteq Links
    BY <2>1, LinksHave DEF TypeInv, TypeOK, LogInv, Gapless
  <2>3. \A a, b \in Links : a.entry.index = b.entry.index /\ a.entry.term = b.entry.term
                            => a = b
    BY <2>1 DEF MatchInv, Matched
  <2> HIDE DEF Links
  <2>4. QED
    BY ZenonT(40), <2>1, <2>2, <2>3, LinksMatch
<1> HIDE DEF Inv
<1>4. QED
  BY TypeInit, TypeStep, LogsInit, LogsStep, VoteInit, VoteStep, <1>1, <1>2, <1>3,
     PTL DEF Spec
=============================================================================
