--------------------------- MODULE ProgramProofs ---------------------------
(***************************************************************************)
(* What the small programs of MCPrograms guarantee, for every value of     *)
(* their constants.  Each section takes one program: its types, the        *)
(* inductive invariant, and the theorem.                                   *)
(***************************************************************************)
EXTENDS Lease, CacheStrategies, Triage, EventSink, Saga, CommitLog, Pipeline,
        ChatHub, Crdt, Firewall, Reaper, RabbitWorker, DriftDetector, Balancer,
        FanOut, LongPoll, TLAPS, FiniteSetTheorems, SequenceTheorems

-----------------------------------------------------------------------------
(* Lease.  Until somebody oversleeps, a running instance holds the lease,  *)
(* and what is left of it is what its silence has not used up.             *)

LeaseType ==
  /\ lease \in [holder: Instance \cup {NoHolder}, left: Nat]
  /\ instance \in [Instance -> [at: {"off", "working", "stopping"}, due: Nat,
                                silent: Nat]]
  /\ ticks \in Nat

LeaseInv ==
  /\ LeaseType
  /\ overslept = {} =>
       \A i \in Instance : Running(i) =>
         /\ lease.holder = i
         /\ instance[i].silent < LeaseTTL
         /\ lease.left + instance[i].silent = LeaseTTL

LEMMA LeaseStart == LeaseInit => LeaseInv
BY LeaseAssumption DEF LeaseInit, LeaseInv, LeaseType, NoLease, Off, Running

LEMMA LeaseInstanceStep ==
  ASSUME LeaseInv, NEW i \in Instance,
         \/ Acquire(i) \/ RefreshLease(i) \/ RefreshLeaseFails(i)
         \/ Cancel(i) \/ ReleaseLease(i) \/ Die(i)
  PROVE  LeaseInv'
<1> USE DEF LeaseInv, LeaseType, Running, Working, Held, Off, NoLease
<1>1. CASE Acquire(i)
  BY <1>1, LeaseAssumption DEF Acquire, Fresh
<1>2. CASE RefreshLease(i)
  BY <1>2, LeaseAssumption DEF RefreshLease, Fresh
<1>3. CASE RefreshLeaseFails(i)
  BY <1>3, LeaseAssumption DEF RefreshLeaseFails
<1>4. CASE Cancel(i)
  BY <1>4 DEF Cancel
<1>5. CASE ReleaseLease(i)
  BY <1>5 DEF ReleaseLease
<1>6. CASE Die(i)
  BY <1>6 DEF Die
<1>7. QED
  BY <1>1, <1>2, <1>3, <1>4, <1>5, <1>6

LEMMA TickLeaseStep ==
  ASSUME LeaseInv, TickLease
  PROVE  LeaseInv'
<1>1. LeaseType'
  <2>1. lease' \in [holder: Instance \cup {NoHolder}, left: Nat]
    <3>1. lease \in [holder: Instance \cup {NoHolder}, left: Nat]
      BY DEF LeaseInv, LeaseType
    <3>2. CASE lease.left <= 1
      BY <3>2 DEF TickLease, NoLease
    <3>3. CASE ~(lease.left <= 1)
      <4>1. lease.left - 1 \in Nat /\ lease' = [lease EXCEPT !.left = lease.left - 1]
        BY <3>1, <3>3 DEF TickLease
      <4>2. QED
        BY <3>1, <4>1
    <3>4. QED
      BY <3>2, <3>3
  <2>2. ASSUME NEW i \in Instance
        PROVE  instance'[i] \in [at: {"off", "working", "stopping"}, due: Nat, silent: Nat]
    <3>1. instance[i] \in [at: {"off", "working", "stopping"}, due: Nat, silent: Nat]
      BY DEF LeaseInv, LeaseType
    <3>2. Less(instance[i].due) \in Nat /\ More(instance[i].silent) \in Nat
      BY <3>1 DEF Less, More
    <3>3. instance'[i] = Later(instance[i]) \/ instance'[i] = Off
      BY DEF TickLease
    <3>4. QED
      BY <3>1, <3>2, <3>3 DEF Later, Off
  <2>3. instance' = [i \in Instance |-> instance'[i]]
    BY DEF TickLease
  <2>4. ticks' \in Nat
    BY DEF TickLease, LeaseInv, LeaseType
  <2>5. QED
    BY <2>1, <2>2, <2>3, <2>4 DEF LeaseType
<1>2. ASSUME overslept' = {}, NEW i \in Instance, Running(i)'
      PROVE  /\ lease'.holder = i /\ instance'[i].silent < LeaseTTL
             /\ lease'.left + instance'[i].silent = LeaseTTL
  <2>1. Running(i) /\ overslept = {} /\ instance'[i].silent # LeaseTTL
    BY <1>2 DEF TickLease, LeaseInv, LeaseType, Running, Off
  <2>2. /\ lease.holder = i /\ instance[i].silent < LeaseTTL
        /\ lease.left + instance[i].silent = LeaseTTL
    BY <2>1 DEF LeaseInv
  <2>3. instance'[i].silent = instance[i].silent + 1
    <3>1. instance[i] \in [at: {"off", "working", "stopping"}, due: Nat, silent: Nat]
      BY DEF LeaseInv, LeaseType
    <3>2. instance'[i] = Later(instance[i])
      BY <2>1 DEF TickLease
    <3>3. QED
      BY <2>2, <3>1, <3>2 DEF Later, More
  <2>4. instance[i].silent \in Nat /\ lease.left \in Nat /\ ~(lease.left <= 1)
    BY <2>1, <2>2, <2>3, LeaseAssumption DEF LeaseInv, LeaseType
  <2>5. lease' = [lease EXCEPT !.left = lease.left - 1]
    BY <2>4 DEF TickLease
  <2>6. QED
    BY <2>1, <2>2, <2>3, <2>4, <2>5, LeaseAssumption DEF LeaseInv, LeaseType
<1>3. QED
  BY <1>1, <1>2 DEF LeaseInv

\* At most one instance of the scheduler runs at a time, as long as none has
\* been out of Redis's sight for a whole TTL: refreshes may fail, and instances
\* may stop, crash and start in any order.
THEOREM OneInstanceRuns == LeaseSpec => []ExclusiveUnlessOverslept
<1>1. LeaseInv /\ [LeaseNext]_leaseVars => LeaseInv'
  <2>1. ASSUME LeaseInv, UNCHANGED leaseVars PROVE LeaseInv'
    BY <2>1 DEF leaseVars, LeaseInv, LeaseType, Running
  <2>2. QED
    BY <2>1, LeaseInstanceStep, TickLeaseStep DEF LeaseNext
<1>2. LeaseInv => ExclusiveUnlessOverslept
  BY DEF LeaseInv, ExclusiveUnlessOverslept
<1>3. QED
  BY LeaseStart, <1>1, <1>2, PTL DEF LeaseSpec

-----------------------------------------------------------------------------
(* Cache strategies.  A call that nobody overtook at the store, or at the  *)
(* cache, knows what is there.                                             *)

StrategiesType ==
  /\ strategy \in {"aside", "through"}
  /\ stored \in Content \cup {Nothing} /\ cached \in Content \cup {Nothing}
  /\ task \in [Client ->
       [op: {"none"}, at: {"rest"}, value: Content \cup {Nothing}]
       \cup [op: {"get"}, at: {"join", "look", "fetch", "fill"}, value: Content \cup {Nothing}]
       \cup [op: {"set"}, at: {"store", "cache"}, value: Content]
       \cup [op: {"delete"}, at: {"uncache", "unstore"}, value: {Nothing}]]

HalfDone(c) ==
  /\ task[c].at = "fill" /\ c \notin behind => task[c].value = stored /\ stored # Nothing
  /\ task[c].at = "cache" /\ c \notin behind => task[c].value = stored
  /\ task[c].at = "unstore" /\ c \notin refilled => cached = Nothing

StrategiesInv ==
  /\ StrategiesType
  /\ \A c \in Client : HalfDone(c)
  /\ AgreeUnlessRaced

LEMMA StrategiesStart == StrategiesInit => StrategiesInv
BY StrategiesAssumption
   DEF StrategiesInit, StrategiesInv, StrategiesType, Rest, HalfDone, AgreeUnlessRaced

LEMMA BeginStep ==
  ASSUME StrategiesInv, NEW c \in Client, NEW op, NEW there, NEW v,
         [op |-> op, at |-> there, value |-> v] \in
           [op: {"get"}, at: {"join", "look"}, value: {Nothing}]
           \cup [op: {"set"}, at: {"store"}, value: Content]
           \cup [op: {"delete"}, at: {"uncache"}, value: {Nothing}],
         Begin(c, op, there, v)
  PROVE  StrategiesInv'
<1> DEFINE r == [op |-> op, at |-> there, value |-> v]
<1>1. /\ task' = [task EXCEPT ![c] = r] /\ task[c] = Rest
      /\ UNCHANGED <<strategy, stored, cached, raced>>
      /\ behind' = behind \ {c} /\ refilled' = refilled \ {c}
      /\ r.at \notin {"fill", "cache", "unstore"}
  BY DEF Begin
<1> HIDE DEF r
<1>2. StrategiesType'
  BY <1>1 DEF StrategiesInv, StrategiesType, r
<1>3. task'[c] = r /\ \A d \in Client \ {c} : task'[d] = task[d]
  BY <1>1 DEF StrategiesInv, StrategiesType
<1>4. \A d \in Client : HalfDone(d)'
  BY <1>1, <1>3 DEF StrategiesInv, HalfDone
<1>5. AgreeUnlessRaced'
  BY <1>1, <1>3 DEF StrategiesInv, AgreeUnlessRaced, Rest
<1>6. QED
  BY <1>2, <1>4, <1>5 DEF StrategiesInv

\* The steps of a call that has begun.
LEMMA CallSteps ==
  ASSUME StrategiesInv, NEW c \in Client,
         \/ LookUp(c) \/ FetchStored(c) \/ Fill(c) \/ StoreValue(c)
         \/ CacheValueOf(c) \/ Uncache(c) \/ Unstore(c)
  PROVE  StrategiesInv'
<1> USE StrategiesAssumption
    DEF StrategiesInv, StrategiesType, HalfDone, AgreeUnlessRaced, Rest, UnderWay
<1>1. CASE LookUp(c)
  BY <1>1 DEF LookUp, Land, GoTo
<1>2. CASE FetchStored(c)
  BY <1>2 DEF FetchStored, Land
<1>3. CASE Fill(c)
  <2>1. /\ cached' = task[c].value /\ task[c].value \in Content \cup {Nothing} /\ task[c].at = "fill"
        /\ refilled' = UnderWay \ {c} /\ raced' = (c \in behind)
        /\ UNCHANGED <<strategy, stored, behind>>
        /\ task' = [d \in Client |-> IF d = c \/ task[d].at = "join" THEN Rest ELSE task[d]]
    BY <1>3 DEF Fill, PlaceInCache, Land
  <2>2. StrategiesType'
    BY <2>1
  <2>3. \A d \in Client : task'[d] = Rest \/ (task'[d] = task[d] /\ d # c)
    BY <2>1
  <2>4. \A d \in Client : HalfDone(d)'
    BY <2>1, <2>3
  <2>5. AgreeUnlessRaced'
    BY <2>1
  <2>6. QED
    BY <2>2, <2>4, <2>5
<1>4. CASE StoreValue(c)
  <2>1. /\ stored' = task[c].value /\ stored' \in Content /\ task[c].at = "store" /\ task[c].op = "set"
        /\ behind' = UnderWay \ {c} /\ UNCHANGED <<strategy, cached, refilled>>
        /\ task[c].value \in Content /\ raced' = (c \in refilled)
    BY <1>4 DEF StoreValue, ChangeStore
  <2>2. CASE strategy = "through"
    <3>1. task' = [task EXCEPT ![c].at = "cache"]
      BY <1>4, <2>2 DEF StoreValue, GoTo
    <3>2. StrategiesType'
      BY <2>1, <3>1
    <3>3. task'[c].at = "cache" /\ task'[c].value = stored' /\ c \notin behind'
          /\ \A d \in Client \ {c} : task'[d] = task[d]
      BY <2>1, <3>1
    <3>4. \A d \in Client : HalfDone(d)'
      BY <2>1, <3>3
    <3>5. AgreeUnlessRaced'
      BY <3>3
    <3>6. QED
      BY <3>2, <3>4, <3>5
  <2>3. CASE strategy = "aside"
    <3>1. task' = [task EXCEPT ![c] = Rest]
      BY <1>4, <2>3 DEF StoreValue, End
    <3>2. StrategiesType'
      BY <2>1, <3>1
    <3>3. \A d \in Client : HalfDone(d)'
      BY <2>1, <3>1
    <3>4. QED
      BY <2>1, <2>3, <3>2, <3>3
  <2>4. QED
    BY <2>2, <2>3
<1>5. CASE CacheValueOf(c)
  <2>1. /\ cached' = task[c].value /\ task[c].value \in Content /\ task[c].at = "cache"
        /\ refilled' = UnderWay \ {c} /\ raced' = (c \in behind)
        /\ UNCHANGED <<strategy, stored, behind>> /\ task' = [task EXCEPT ![c] = Rest]
    BY <1>5 DEF CacheValueOf, PlaceInCache, End
  <2>2. StrategiesType' /\ \A d \in Client : HalfDone(d)'
    BY <2>1
  <2>3. AgreeUnlessRaced'
    BY <2>1
  <2>4. QED
    BY <2>2, <2>3
<1>6. CASE Uncache(c)
  BY <1>6 DEF Uncache, GoTo
<1>7. CASE Unstore(c)
  <2>1. /\ stored' = Nothing /\ task[c].at = "unstore"
        /\ behind' = UnderWay \ {c} /\ raced' = (c \in refilled)
        /\ UNCHANGED <<strategy, cached, refilled>> /\ task' = [task EXCEPT ![c] = Rest]
    BY <1>7 DEF Unstore, ChangeStore, End
  <2>2. StrategiesType' /\ \A d \in Client : HalfDone(d)'
    BY <2>1
  <2>3. AgreeUnlessRaced'
    BY <2>1
  <2>4. QED
    BY <2>2, <2>3
<1>8. QED
  BY <1>1, <1>2, <1>3, <1>4, <1>5, <1>6, <1>7

LEMMA StrategiesStep == StrategiesInv /\ [StrategiesNext]_strategyVars => StrategiesInv'
<1> SUFFICES ASSUME StrategiesInv, [StrategiesNext]_strategyVars PROVE StrategiesInv'
  OBVIOUS
<1>1. ASSUME NEW c \in Client, BeginGet(c) PROVE StrategiesInv'
  BY <1>1, BeginStep DEF BeginGet
<1>2. ASSUME NEW c \in Client, NEW v \in Content, BeginSet(c, v) PROVE StrategiesInv'
  BY <1>2, BeginStep DEF BeginSet
<1>3. ASSUME NEW c \in Client, BeginDelete(c) PROVE StrategiesInv'
  BY <1>3, BeginStep DEF BeginDelete
<1>4. CASE Vanish
  BY <1>4 DEF Vanish, StrategiesInv, StrategiesType, HalfDone, AgreeUnlessRaced
<1>5. CASE UNCHANGED strategyVars
  BY <1>5 DEF strategyVars, StrategiesInv, StrategiesType, HalfDone, AgreeUnlessRaced
<1>6. QED
  BY <1>1, <1>2, <1>3, <1>4, <1>5, CallSteps DEF StrategiesNext

\* Cache and store disagree only over the two calls that wrote them last, for any
\* number of clients and whatever raced before: unless one of the two did so while
\* the other was under way, the key is answered from the cache as the store has
\* it, but for a set on its way to the cache and for the old value that a set
\* under cache-aside leaves.
THEOREM DisagreementIsARace == StrategiesSpec => []AgreeUnlessRaced
<1>1. StrategiesInv => AgreeUnlessRaced
  BY DEF StrategiesInv
<1>2. QED
  BY StrategiesStart, StrategiesStep, <1>1, PTL DEF StrategiesSpec

-----------------------------------------------------------------------------
(* Triage.  Once an opening is decided the row never awaits its decision   *)
(* again, so who still holds it had loaded it before, and is paired with   *)
(* the request that decided.                                               *)

Investigation ==
  [op: {"none", "start", "approve", "reject"}, at: {"rest", "nodes", "notify", "load", "save"},
   number: Nat, loaded: Nat]

TriageType ==
  /\ row \in [status: {"none", "awaiting_human", "completed", "rejected"}, of: Nat]
  /\ request \in [Request -> Investigation]
  /\ served \in Nat /\ openings \in Nat
  /\ decided \subseteq [of: Nat, by: Nat]

TriageInv ==
  /\ TriageType
  /\ row.of <= openings
  /\ \A d \in decided : d.of <= openings
  /\ \A q \in Request : request[q].loaded <= openings
  /\ row.status = "awaiting_human" => \A d \in decided : d.of # row.of
  /\ \A d \in decided, q \in Request :
       request[q].at = "save" /\ request[q].loaded = d.of => <<d.by, request[q].number>> \in rivals
  /\ RedecidedOnlyInRace

LEMMA TriageStart == TriageInit => TriageInv
BY DEF TriageInit, TriageInv, TriageType, Investigation, NoRequest, RedecidedOnlyInRace

LEMMA TriageStep == TriageInv /\ [TriageNext]_triageVars => TriageInv'
<1> SUFFICES ASSUME TriageInv, [TriageNext]_triageVars PROVE TriageInv'
  OBVIOUS
<1> USE DEF TriageInv
<1>1. ASSUME NEW q \in Request, NEW r \in Investigation, r.at # "save", r.loaded = 0,
             served' \in Nat, request' = [request EXCEPT ![q] = r],
             UNCHANGED <<row, openings, decided, rivals>>
      PROVE  TriageInv'
  BY <1>1 DEF TriageType, RedecidedOnlyInRace
<1>2. ASSUME NEW q \in Request, NEW op \in {"start", "approve", "reject"},
             NEW there \in {"nodes", "load"}, Serve(q, op, there)
      PROVE  TriageInv'
  <2> DEFINE r == [op |-> op, at |-> there, number |-> served + 1, loaded |-> 0]
  <2>1. r \in Investigation /\ r.at # "save" /\ r.loaded = 0 /\ served' \in Nat
    BY <1>2 DEF Serve, Investigation, TriageType
  <2>2. request' = [request EXCEPT ![q] = r] /\ UNCHANGED <<row, openings, decided, rivals>>
    BY <1>2 DEF Serve
  <2> HIDE DEF r
  <2>3. QED
    BY <1>1, <2>1, <2>2
<1>3. NoRequest \in Investigation /\ NoRequest.at # "save" /\ NoRequest.loaded = 0
  BY DEF NoRequest, Investigation
<1>4. ASSUME NEW q \in Request, RequestFails(q) \/ SendApprovalRequest(q) PROVE TriageInv'
  <2>1. request' = [request EXCEPT ![q] = NoRequest] /\ UNCHANGED <<served, row, openings, decided, rivals>>
    BY <1>4 DEF RequestFails, SendApprovalRequest, Respond
  <2>2. QED
    BY <1>1, <1>3, <2>1 DEF TriageType
<1>5. ASSUME NEW q \in Request, SaveAwaiting(q) PROVE TriageInv'
  <2> USE <1>5 DEF SaveAwaiting
  <2>1. TriageType'
    BY DEF TriageType, Investigation
  <2>2. /\ openings \in Nat /\ openings' = openings + 1 /\ row'.of = openings + 1
        /\ UNCHANGED <<decided, rivals>>
        /\ request'[q].at = "notify" /\ \A p \in Request : p # q => request'[p] = request[p]
        /\ \A p \in Request : request'[p].loaded = request[p].loaded /\ request[p].loaded \in Nat
    BY DEF TriageType, Investigation
  <2>3. \A d \in decided : d.of \in Nat
    BY DEF TriageType
  <2>4. /\ \A p \in Request : request'[p].loaded <= openings'
        /\ \A d \in decided : d.of <= openings' /\ d.of # row'.of
    BY <2>2, <2>3
  <2>5. \A d \in decided, p \in Request :
            request'[p].at = "save" /\ request'[p].loaded = d.of => <<d.by, request'[p].number>> \in rivals
    BY <2>2
  <2>6. QED
    BY <2>1, <2>2, <2>4, <2>5 DEF RedecidedOnlyInRace
<1>6. ASSUME NEW q \in Request, LoadState(q) PROVE TriageInv'
  <2>1. CASE row.status # "awaiting_human"
    <3>1. request' = [request EXCEPT ![q] = NoRequest] /\ UNCHANGED <<served, row, openings, decided, rivals>>
      BY <1>6, <2>1 DEF LoadState, Respond
    <3>2. QED
      BY <1>1, <1>3, <3>1 DEF TriageType
  <2>2. CASE row.status = "awaiting_human"
    <3> USE <1>6, <2>2 DEF LoadState
    <3>1. TriageType'
      BY DEF TriageType, Investigation
    <3>2. /\ request'[q].loaded = row.of /\ UNCHANGED <<row, openings, decided, rivals>>
          /\ \A p \in Request : p # q => request'[p] = request[p]
      BY DEF TriageType, Investigation
    <3>3. \A p \in Request : request'[p].loaded <= openings
      BY <3>2
    <3>4. \A d \in decided, p \in Request :
            request'[p].at = "save" /\ request'[p].loaded = d.of => <<d.by, request'[p].number>> \in rivals
      BY <3>2
    <3>5. QED
      BY <3>1, <3>2, <3>3, <3>4 DEF RedecidedOnlyInRace
  <2>3. QED
    BY <2>1, <2>2
<1>7. ASSUME NEW q \in Request, SaveDecision(q) PROVE TriageInv'
  <2> DEFINE r == request[q]
             d == [of |-> r.loaded, by |-> r.number]
  <2>1. r \in Investigation /\ r.at = "save" /\ d.of = r.loaded /\ d.by = r.number
    BY <1>7 DEF SaveDecision, TriageType
  <2>2. /\ decided' = decided \cup {d} /\ request' = [request EXCEPT ![q] = NoRequest]
        /\ row'.of = r.loaded /\ row'.status \in {"completed", "rejected"}
        /\ row' \in [status: {"completed", "rejected"}, of: Nat]
        /\ UNCHANGED <<served, openings>>
    BY <1>7, <2>1 DEF SaveDecision, Respond, Investigation
  <2>3. /\ rivals \subseteq rivals'
        /\ \A p \in Request : request[p].at = "save" /\ request[p].loaded = r.loaded
                                => <<r.number, request[p].number>> \in rivals'
    BY <1>7 DEF SaveDecision
  <2>4. TriageType'
    BY <1>3, <2>1, <2>2 DEF TriageType, Investigation
  <2>5. \A p \in Request : request'[p].at = "save" => p # q /\ request'[p] = request[p]
    BY <1>3, <2>2 DEF TriageType
  <2>6. \A p \in Request : request'[p].loaded <= openings
    BY <1>3, <2>2 DEF TriageType
  <2>7. \A e \in decided', p \in Request :
          request'[p].at = "save" /\ request'[p].loaded = e.of => <<e.by, request'[p].number>> \in rivals'
    BY <2>1, <2>2, <2>3, <2>5
  <2>8. \A e \in decided : e.of = d.of => <<e.by, d.by>> \in rivals
    BY <2>1
  <2>9. RedecidedOnlyInRace'
    BY <2>2, <2>3, <2>8 DEF RedecidedOnlyInRace
  <2>10. QED
    BY <2>1, <2>2, <2>4, <2>6, <2>7, <2>9 DEF TriageType
<1>8. CASE UNCHANGED triageVars
  BY <1>8 DEF triageVars, TriageType, RedecidedOnlyInRace
<1>9. QED
  BY <1>2, <1>4, <1>5, <1>6, <1>7, <1>8 DEF TriageNext, StartInvestigation, ResumeInvestigation

\* What was put before a human once is decided again only by a request that
\* was already holding it, however webhooks and decisions are delivered again,
\* fail and overlap: after a decision the row never awaits it any more.
THEOREM TicketsDecidedOnce == TriageSpec => []RedecidedOnlyInRace
<1>1. TriageInv => RedecidedOnlyInRace
  BY DEF TriageInv
<1>2. QED
  BY TriageStart, TriageStep, <1>1, PTL DEF TriageSpec

-----------------------------------------------------------------------------
(* Event sink.  What a bucket of one occurrence counts is elsewhere, which *)
(* is why expire may drop it; the windows, rows and saves under way count  *)
(* disjoint sets unless they are of one ID.                                *)

SinkRecord == [by: {"informer", "timer", "flush"}, id: Ident, of: SUBSET Nat]
Elsewhere == InRows \union overwritten \union OnTheWay \union failed \union cut

SinkType ==
  /\ occurred \in Nat /\ window \subseteq 1..occurred /\ first \in Ident /\ timers \in Nat
  /\ rows \in [Ident -> SUBSET (1..occurred)]
  /\ saving \subseteq SinkRecord
  /\ \A s \in saving : s.of \subseteq 1..occurred

Apart ==
  /\ \A i, j \in Ident : i # j => rows[i] \intersect rows[j] = {}
  /\ \A s \in saving, i \in Ident : s.id # i => s.of \intersect rows[i] = {}
  /\ \A s, t \in saving : s.id # t.id => s.of \intersect t.of = {}
  /\ \A i \in Ident : i # first => window \intersect rows[i] = {}
  /\ \A s \in saving : s.id # first => window \intersect s.of = {}

SinkInv ==
  /\ SinkType
  /\ 1..occurred \subseteq Elsewhere \union window
  /\ window # {} => window \intersect Elsewhere # {}
  /\ phase = "running" => cut = {}
  /\ Apart

LEMMA SinkProcess ==
  ASSUME SinkInv, NEW i \in Ident, ProcessEvent(i)
  PROVE  SinkInv'
<1> USE DEF SinkInv, ProcessEvent
<1> DEFINE o == occurred + 1
<1>1. occurred \in Nat /\ o \in Nat /\ o \notin 1..occurred /\ 1..o = 1..occurred \union {o} /\ occurred' = o
  BY DEF SinkType
<1>2. CASE window # {}
  <2>1. UNCHANGED <<first, saving, rows, overwritten, failed, cut, phase>> /\ window' = window \union {o}
    BY <1>2
  <2>2. Elsewhere' = Elsewhere
    BY <2>1 DEF Elsewhere, InRows, OnTheWay
  <2>3. SinkType'
    BY <1>1, <2>1, <1>2 DEF SinkType
  <2>4. Apart'
    BY <1>1, <2>1 DEF SinkType, Apart
  <2>5. window' # {} => window' \intersect Elsewhere' # {}
    BY <1>2, <2>1, <2>2
  <2>6. 1..occurred' \subseteq Elsewhere' \union window'
    BY <1>1, <2>1, <2>2
  <2>7. QED
    BY <2>1, <2>3, <2>4, <2>5, <2>6
<1>3. CASE window = {}
  <2> DEFINE s == [by |-> "informer", id |-> i, of |-> {o}]
  <2>1. window' = {o} /\ first' = i /\ timers' = timers + 1 /\ UNCHANGED <<rows, overwritten, failed, phase>>
    BY <1>3
  <2>2. (saving' = saving \union {s} /\ cut' = cut) \/ (saving' = saving /\ cut' = cut \union {o} /\ phase # "running")
    BY <1>3 DEF Forward
  <2>3. Elsewhere' = Elsewhere \union {o}
    <3>1. InRows' = InRows
      BY <2>1 DEF InRows
    <3>2. CASE saving' = saving \union {s} /\ cut' = cut
      <4>1. OnTheWay' = OnTheWay \union s.of
        BY <3>2, Zenon DEF OnTheWay
      <4>2. QED
        BY <4>1, <3>1, <3>2, <2>1 DEF Elsewhere
    <3>3. CASE saving' = saving /\ cut' = cut \union {o}
      <4>1. OnTheWay' = OnTheWay
        BY <3>3 DEF OnTheWay
      <4>2. QED
        BY <4>1, <3>1, <3>3, <2>1 DEF Elsewhere
    <3>4. QED
      BY <2>2, <3>2, <3>3
  <2>4. s \in SinkRecord
    BY <1>1 DEF SinkRecord
  <2>5. SinkType'
    <3>1. \A x \in SUBSET (1..occurred) : x \in SUBSET (1..o)
      BY <1>1
    <3>2. rows' \in [Ident -> SUBSET (1..occurred')]
      BY <3>1, <1>1, <2>1 DEF SinkType
    <3>3. saving' \subseteq SinkRecord /\ \A r \in saving' : r.of \subseteq 1..occurred'
      <4>1. s.of \subseteq 1..o
        BY <1>1
      <4>2. \A r \in saving : r.of \subseteq 1..o
        BY <1>1 DEF SinkType
      <4>3. saving' \subseteq saving \union {s}
        BY <2>2
      <4> HIDE DEF s, o
      <4>4. QED
        BY <1>1, <2>4, <4>1, <4>2, <4>3, Zenon DEF SinkType
    <3>4. QED
      BY <1>1, <2>1, <3>2, <3>3 DEF SinkType
  <2>6. Apart'
    BY <1>1, <2>1, <2>2 DEF SinkType, Apart
  <2>7. QED
    BY <1>1, <1>3, <2>1, <2>2, <2>3, <2>5, <2>6
<1>4. QED
  BY <1>2, <1>3

LEMMA SinkExpire ==
  ASSUME SinkInv, NEW who \in {"timer", "flush"}, ExpireKey(who), phase' = "running" => phase = "running", timers' \in Nat
  PROVE  SinkInv'
<1> USE DEF SinkInv, ExpireKey
<1>1. window' = {} /\ UNCHANGED <<first, rows, occurred, overwritten, failed>>
  OBVIOUS
<1>2. InRows' = InRows
  BY <1>1 DEF InRows
<1>3. CASE Summary = {}
  <2>1. UNCHANGED <<saving, cut>>
    BY <1>3
  <2>2. Elsewhere' = Elsewhere
    BY <1>1, <1>2, <2>1 DEF Elsewhere, OnTheWay
  <2>3. window \subseteq Elsewhere
    BY <1>3 DEF Summary
  <2>4. SinkType'
    BY <1>1, <2>1 DEF SinkType
  <2>5. Apart'
    BY <1>1, <2>1 DEF Apart
  <2>6. QED
    BY <1>1, <2>1, <2>2, <2>3, <2>4, <2>5
<1>4. CASE Summary # {}
  <2> DEFINE s == [by |-> who, id |-> first, of |-> window]
  <2>1. Summary = window
    BY <1>4 DEF Summary
  <2>2. (saving' = saving \union {s} /\ cut' = cut) \/ (saving' = saving /\ cut' = cut \union window /\ phase # "running")
    BY <1>4, <2>1 DEF Forward
  <2>3. Elsewhere' = Elsewhere \union window
    <3>1. CASE saving' = saving \union {s} /\ cut' = cut
      <4>1. OnTheWay' = OnTheWay \union s.of
        BY <3>1, Zenon DEF OnTheWay
      <4>2. QED
        BY <4>1, <1>2, <3>1, <1>1 DEF Elsewhere
    <3>2. CASE saving' = saving /\ cut' = cut \union window
      <4>1. OnTheWay' = OnTheWay
        BY <3>2 DEF OnTheWay
      <4>2. QED
        BY <4>1, <1>2, <3>2, <1>1 DEF Elsewhere
    <3>3. QED
      BY <2>2, <3>1, <3>2
  <2>4. s \in SinkRecord
    BY DEF SinkRecord, SinkType
  <2>5. SinkType'
    <3>1. saving' \subseteq SinkRecord /\ \A r \in saving' : r.of \subseteq 1..occurred'
      <4>1. s.of \subseteq 1..occurred
        BY DEF SinkType
      <4>2. saving' \subseteq saving \union {s}
        BY <2>2
      <4> HIDE DEF s
      <4>3. QED
        BY <1>1, <2>4, <4>1, <4>2, Zenon DEF SinkType
    <3>2. QED
      BY <1>1, <3>1 DEF SinkType
  <2>6. Apart'
    BY <1>1, <2>2 DEF Apart, SinkType
  <2>7. QED
    BY <1>1, <2>2, <2>3, <2>5, <2>6
<1>5. QED
  BY <1>3, <1>4

LEMMA SinkSaves ==
  ASSUME SinkInv, NEW s \in saving, SaveRow(s) \/ SaveFails(s)
  PROVE  SinkInv'
<1> USE DEF SinkInv
<1>1. s \in SinkRecord /\ s.id \in Ident /\ s.of \subseteq 1..occurred
  BY DEF SinkType, SinkRecord
<1>2. saving' = saving \ {s} /\ UNCHANGED <<window, first, timers, phase, occurred>>
  BY DEF SaveRow, SaveFails
<1>3. OnTheWay \subseteq OnTheWay' \union s.of
  BY <1>2 DEF OnTheWay
<1>4. CASE SaveRow(s)
  <2>1. /\ rows' = [rows EXCEPT ![s.id] = s.of] /\ UNCHANGED <<failed, cut>>
        /\ overwritten' = overwritten \union (rows[s.id] \ s.of)
    BY <1>4 DEF SaveRow
  <2>2. InRows \union overwritten \union s.of \subseteq InRows' \union overwritten'
    <3>1. s.of \subseteq InRows'
      BY <1>1, <2>1 DEF InRows, SinkType
    <3>2. ASSUME NEW j \in Ident PROVE rows[j] \subseteq InRows' \union overwritten'
      BY <1>1, <2>1, <3>1 DEF InRows, SinkType
    <3>3. QED
      BY <2>1, <3>1, <3>2 DEF InRows
  <2>3. Elsewhere \subseteq Elsewhere'
    BY <1>3, <2>1, <2>2 DEF Elsewhere
  <2>4. SinkType'
    BY <1>1, <1>2, <2>1 DEF SinkType
  <2>5. Apart'
    BY <1>1, <1>2, <2>1 DEF Apart, SinkType
  <2>6. QED
    BY <1>2, <2>1, <2>3, <2>4, <2>5
<1>5. CASE SaveFails(s)
  <2>1. /\ UNCHANGED <<rows, overwritten>>
        /\ \/ failed' = failed \union s.of /\ cut' = cut
           \/ cut' = cut \union s.of /\ failed' = failed /\ phase # "running"
    BY <1>5 DEF SaveFails
  <2>2. Elsewhere \subseteq Elsewhere'
    BY <1>3, <2>1 DEF Elsewhere, InRows
  <2>3. SinkType'
    BY <1>1, <1>2, <2>1 DEF SinkType
  <2>4. Apart'
    BY <1>2, <2>1 DEF Apart
  <2>5. QED
    BY <1>2, <2>1, <2>2, <2>3, <2>4
<1>6. QED
  BY <1>4, <1>5

\* However events, timers, saves that fail, rows of one ID that replace each
\* other and the flush of the shutdown take turns on a key: every occurrence is
\* in a row, was in one, is still in memory, or is in a save that the database
\* or (after the signal only) the end refused; and no two IDs' rows count one.
THEOREM NoOccurrenceVanishes == SinkSpec => []NothingDroppedSilently
<1>1. SinkInit => SinkInv
  <2> SUFFICES ASSUME SinkInit PROVE SinkInv
    OBVIOUS
  <2>1. 1..occurred = {}
    BY DEF SinkInit
  <2>2. SinkType /\ Apart
    BY <2>1 DEF SinkInit, SinkType, Apart
  <2>3. QED
    BY <2>1, <2>2 DEF SinkInit, SinkInv
<1>2. ASSUME SinkInv, [SinkNext]_sinkVars PROVE SinkInv'
  <2>1. CASE \E i \in Ident : ProcessEvent(i)
    BY <1>2, <2>1, SinkProcess
  <2>2. CASE Fire
    <3>1. timers' \in Nat
      BY <1>2, <2>2 DEF Fire, SinkInv, SinkType
    <3>2. QED
      BY <1>2, <2>2, <3>1, SinkExpire DEF Fire
  <2>3. CASE FlushKey
    <3>1. timers' \in Nat
      BY <1>2, <2>3 DEF FlushKey, SinkInv, SinkType
    <3>2. QED
      BY <1>2, <2>3, <3>1, SinkExpire DEF FlushKey
  <2>4. CASE \E s \in saving : SaveRow(s) \/ SaveFails(s)
    BY <1>2, <2>4, SinkSaves
  <2>5. CASE SinkSignal \/ ListKeys \/ UNCHANGED sinkVars
    <3>1. UNCHANGED <<window, first, timers, saving, rows, occurred, overwritten, failed, cut>>
      BY <2>5 DEF SinkSignal, ListKeys, sinkVars, sinkHistory
    <3>2. phase' = "running" => phase = "running"
      BY <2>5 DEF SinkSignal, ListKeys, sinkVars
    <3>3. QED
      BY <1>2, <3>1, <3>2 DEF SinkInv, SinkType, Apart, Elsewhere, InRows, OnTheWay
  <2>6. CASE EndProcess
    <3>1. /\ UNCHANGED <<first, timers, rows, occurred, overwritten, failed>> /\ phase' = "ended"
          /\ window' = {} /\ saving' = {} /\ cut' = cut \union window \union OnTheWay
      BY <2>6 DEF EndProcess, OnTheWay
    <3>2. Elsewhere \union window \subseteq Elsewhere'
      BY <3>1 DEF Elsewhere, InRows
    <3>3. QED
      BY <1>2, <3>1, <3>2 DEF SinkInv, SinkType, Apart
  <2>7. QED
    BY <1>2, <2>1, <2>2, <2>3, <2>4, <2>5, <2>6 DEF SinkNext
<1>3. SinkInv => NothingDroppedSilently
  BY DEF SinkInv, NothingDroppedSilently, Elsewhere, OnTheWay, Apart
<1>4. QED
  BY <1>1, <1>2, <1>3, PTL DEF SinkSpec

-----------------------------------------------------------------------------
(* Saga.  Going forward, the effects are those of the steps done.  Going   *)
(* back from step f, those up to at.step still stand, and above it only    *)
(* what has no compensation or could not be compensated.                   *)

Back(f) ==
  /\ f <= SagaSteps /\ Len(sagaLog.steps) = f /\ at.step < f
  /\ inEffect \subseteq 1 .. f - 1
  /\ \A k \in 1 .. f - 1 : k <= at.step => k \in inEffect
  /\ \A k \in inEffect : k > at.step => k \in Uncompensated \cup given_up
  /\ sagaLog.status \in {"pending", "failed"}
  /\ sagaLog.status = "failed" => at.step = 0

SagaInv ==
  /\ sagaLog \in [status: {"pending", "success", "failed"}, steps: Seq({"success", "failed"})]
  /\ at \in [way: {"forward", "back"}, step: Nat]
  /\ at.way = "forward" =>
       /\ at.step \in 1 .. SagaSteps + 1 /\ Len(sagaLog.steps) = at.step - 1
       /\ inEffect = 1 .. at.step - 1
       /\ sagaLog.status \in {"pending", "success"}
       /\ sagaLog.status = "success" => at.step = SagaSteps + 1
  /\ at.way = "back" => Back(Len(sagaLog.steps))

LEMMA SagaStart == SagaInit => SagaInv
<1>1. <<>> \in Seq({"success", "failed"}) /\ Len(<<>>) = 0
  BY EmptySeq
<1>2. QED
  BY <1>1, SagaAssumption DEF SagaInit, SagaInv

LEMMA SagaStep == SagaInv /\ [SagaNext]_sagaVars => SagaInv'
<1> SUFFICES ASSUME SagaInv, [SagaNext]_sagaVars PROVE SagaInv'
  OBVIOUS
<1>1. Len(sagaLog.steps) \in Nat
  BY LenProperties DEF SagaInv
<1>2. ASSUME NEW x \in {"success", "failed"}, sagaLog' = WithStep(x)
      PROVE  /\ sagaLog' \in [status: {"pending", "success", "failed"},
                              steps: Seq({"success", "failed"})]
             /\ sagaLog'.status = sagaLog.status
             /\ Len(sagaLog'.steps) = Len(sagaLog.steps) + 1
  <2>1. /\ Append(sagaLog.steps, x) \in Seq({"success", "failed"})
        /\ Len(Append(sagaLog.steps, x)) = Len(sagaLog.steps) + 1
    BY AppendProperties DEF SagaInv
  <2>2. QED
    BY <1>2, <2>1 DEF SagaInv, WithStep
<1>3. CASE StepSucceeds
  BY <1>1, <1>2, <1>3, SagaAssumption DEF StepSucceeds, SagaInv
<1>4. CASE StepFailed
  BY <1>1, <1>2, <1>4, SagaAssumption DEF StepFailed, SagaInv, Back
<1>5. CASE SagaCompletes
  BY <1>1, <1>5 DEF SagaCompletes, SagaInv
<1>6. CASE Compensate
  <2>1. /\ sagaLog' = sagaLog /\ at' = [at EXCEPT !.step = @ - 1]
        /\ at.way = "back" /\ at.step > 0
        /\ \/ inEffect' = inEffect \ {at.step} /\ given_up' = given_up
           \/ inEffect' = inEffect /\ given_up' = given_up /\ at.step \in Uncompensated
           \/ inEffect' = inEffect /\ given_up' = given_up \cup {at.step}
    BY <1>6 DEF Compensate
  <2>2. QED
    BY <1>1, <2>1 DEF SagaInv, Back
<1>7. CASE SagaFails
  BY <1>1, <1>7 DEF SagaFails, SagaInv, Back
<1>8. CASE UNCHANGED sagaVars
  BY <1>8 DEF sagaVars, SagaInv, Back
<1>9. QED
  BY <1>3, <1>4, <1>5, <1>6, <1>7, <1>8 DEF SagaNext

\* However many steps a saga has, wherever it fails and whichever compensations
\* fail, it ends with all its effects or with none that could be undone, and
\* undoes them last first.
THEOREM SagaAllOrNothing == SagaSpec => []SagaUndone
<1>1. SagaInv => SagaUndone
  <2> SUFFICES ASSUME SagaInv PROVE SagaUndone
    OBVIOUS
  <2>1. Len(sagaLog.steps) \in Nat
    BY LenProperties DEF SagaInv
  <2>2. CASE at.way = "forward"
    BY <2>1, <2>2, SagaAssumption DEF SagaInv, SagaUndone
  <2>3. CASE at.way = "back"
    BY <2>1, <2>3, SagaAssumption DEF SagaInv, SagaUndone, Back
  <2>4. QED
    BY <2>2, <2>3 DEF SagaInv
<1>2. QED
  BY SagaStart, SagaStep, <1>1, PTL DEF SagaSpec

-----------------------------------------------------------------------------
(* Commit log.  One connection at most is between Seek and Acknowledge; an *)
(* entry written whole points to a header with its data, and the promises  *)
(* whose writes succeeded to such entries.                                 *)

Cell == [kind: {"header", "data", "torn"}, record: Record]
Stages == {"waiting", "open", "append", "header", "data", "index", "count"}
Connection == [at: Stages, record: Record \cup {NoRecord},
               segment: Nat \cup {NoSegment}, pos: Nat, whole: BOOLEAN]
Promise == [offset: Nat, record: Record, missed: Nat, whole: BOOLEAN]

CommitLogType ==
  /\ logFile \in Seq(Cell) /\ indexFile \in Seq(Nat) /\ nextOffset \in Seq(Nat)
  /\ partition = NoSegment \/ partition \in DOMAIN nextOffset
  /\ conn \in [Conn -> Connection]
  /\ missed \in Seq(Nat) /\ Len(missed) = Len(nextOffset) /\ shifted \in BOOLEAN
  /\ promised \subseteq Promise /\ crashes \in Nat /\ badWrites \in Nat

Critical(c) == conn[c].at \in {"header", "data", "index", "count"}

HeaderOf(r) == [kind |-> "header", record |-> r]
DataOf(r)   == [kind |-> "data", record |-> r]

\* Log l holds record r at position p.
Stored(l, p, r) ==
  /\ p \in Nat \ {0} /\ p + 1 <= Len(l)
  /\ l[p] = HeaderOf(r) /\ l[p + 1] = DataOf(r)

\* How far the append of connection c has got.
Progress(c) ==
  LET l == Len(logFile)
      p == conn[c].pos
      r == conn[c].record IN
  /\ conn[c].at # "waiting" => r \in Record
  /\ conn[c].at = "append" \/ Critical(c) =>
       conn[c].segment = partition /\ partition # NoSegment
  /\ conn[c].at = "header" => p = l + 1
  /\ conn[c].at = "data" /\ conn[c].whole => p = l /\ p # 0 /\ logFile[p] = HeaderOf(r)
  /\ conn[c].at \in {"index", "count"} /\ conn[c].whole => Stored(logFile, p, r)
  /\ conn[c].at = "count" =>
       /\ nextOffset[partition] + 1 = Len(indexFile) + missed[partition]
       /\ conn[c].whole => Len(indexFile) # 0 /\ indexFile[Len(indexFile)] = p

Kept(q) ==
  q.whole => /\ q.missed <= q.offset
             /\ q.offset - q.missed + 1 <= Len(indexFile)
             /\ Stored(logFile, indexFile[q.offset - q.missed + 1], q.record)

OneWriter == \A c, d \in Conn : Critical(c) /\ Critical(d) => c = d

\* An object's count is right when no connection is about to raise it.
Counted ==
  partition # NoSegment /\ (\A c \in Conn : conn[c].at # "count")
    => nextOffset[partition] = Len(indexFile) + missed[partition]

CommitLogInv ==
  /\ CommitLogType
  /\ OneWriter
  /\ Counted
  /\ \A c \in Conn : Progress(c)
  /\ \A q \in promised : Kept(q)

LEMMA CommitLogStart == CommitLogInit => CommitLogInv
<1>1. <<>> \in Seq(Cell) /\ <<>> \in Seq(Nat) /\ Len(<<>>) = 0
  BY EmptySeq
<1>2. Waiting \in Connection /\ Waiting.at = "waiting"
  BY DEF Waiting, Connection, Stages
<1>3. ASSUME CommitLogInit PROVE CommitLogType
  BY <1>1, <1>2, <1>3 DEF CommitLogInit, CommitLogType
<1>4. ASSUME CommitLogInit, NEW c \in Conn PROVE conn[c].at = "waiting"
  BY <1>2, <1>4 DEF CommitLogInit
<1>5. QED
  BY <1>3, <1>4 DEF CommitLogInit, CommitLogInv, OneWriter, Counted, Progress, Critical

\* What is stored stays stored: the log only grows.
LEMMA StoredStays ==
  ASSUME NEW l \in Seq(Cell), NEW x \in Cell, NEW p, NEW r, Stored(l, p, r)
  PROVE  Stored(Append(l, x), p, r)
BY AppendProperties, LenProperties DEF Stored

\* Connection c is at the stage there next, and the others are where they were.
Goes(c, there, r, s, p) ==
  /\ conn' \in [Conn -> Connection]
  /\ conn'[c].at = there /\ conn'[c].record = r
  /\ conn'[c].segment = s /\ conn'[c].pos = p
  /\ \A d \in Conn \ {c} : conn'[d] = conn[d]

\* Neither the files nor the promises change, and c does not enter the section.
LEMMA ConnMoves ==
  ASSUME CommitLogInv, NEW c \in Conn, NEW there \in {"open", "append"}, NEW r \in Record,
         NEW s, NEW p, Goes(c, there, r, s, p), ~Critical(c),
         UNCHANGED <<logFile, indexFile, nextOffset, partition, shifted, promised, missed, crashes, badWrites>>,
         there = "append" => s = partition /\ partition # NoSegment
  PROVE  CommitLogInv'
<1>1. CommitLogType'
  BY DEF CommitLogInv, CommitLogType, Goes
<1>2. \A d \in Conn : Critical(d)' <=> Critical(d)
  BY DEF Goes, Critical
<1>3. OneWriter'
  BY <1>2 DEF CommitLogInv, OneWriter
<1>4. \A d \in Conn : conn'[d].at = "count" <=> conn[d].at = "count"
  BY DEF Goes, Critical
<1>5. Counted'
  BY <1>4 DEF CommitLogInv, Counted
<1>6. ASSUME NEW d \in Conn PROVE Progress(d)'
  <2>1. CASE d = c
    BY <2>1 DEF Progress, Goes, Critical
  <2>2. CASE d # c
    BY <2>2 DEF CommitLogInv, Progress, Goes, Critical
  <2>3. QED
    BY <2>1, <2>2
<1>7. \A q \in promised' : Kept(q)'
  BY DEF CommitLogInv, Kept
<1>8. QED
  BY <1>1, <1>3, <1>5, <1>6, <1>7 DEF CommitLogInv

LEMMA ProduceStep ==
  ASSUME CommitLogInv, NEW c \in Conn, NEW r \in Record, Produce(c, r)
  PROVE  CommitLogInv'
<1> DEFINE there == IF partition = NoSegment THEN "open" ELSE "append"
<1>1. /\ UNCHANGED <<logFile, indexFile, nextOffset, partition, shifted, promised, missed, crashes, badWrites>>
      /\ ~Critical(c)
  BY DEF Produce, Critical
<1>2. partition \in Nat \cup {NoSegment}
  BY LenProperties DEF CommitLogInv, CommitLogType
<1>3. Goes(c, there, r, partition, 0)
  <2> DEFINE n == [Waiting EXCEPT !.record = r, !.segment = partition, !.at = there]
  <2>1. Waiting \in Connection
    BY DEF Waiting, Connection, Stages
  <2>2. there \in Stages
    BY DEF Stages
  <2> HIDE DEF there
  <2>3. n \in Connection /\ n.at = there /\ n.record = r /\ n.segment = partition
    BY <1>2, <2>1, <2>2 DEF Connection
  <2>4. n.pos = 0
    BY DEF Waiting
  <2>5. conn' = [conn EXCEPT ![c] = n]
    BY DEF Produce, there
  <2> HIDE DEF n
  <2>6. QED
    BY <2>3, <2>4, <2>5 DEF Goes, CommitLogInv, CommitLogType
<1>4. there \in {"open", "append"} /\ (there = "append" => partition # NoSegment)
  OBVIOUS
<1> HIDE DEF there
<1>5. QED
  BY <1>1, <1>3, <1>4, ConnMoves

LEMMA OpenStep ==
  ASSUME CommitLogInv, NEW c \in Conn, OpenPartition(c)
  PROVE  CommitLogInv'
<1>1. UNCHANGED <<logFile, indexFile, shifted, promised, crashes, badWrites>>
  BY DEF OpenPartition, Joins
<1>2. /\ Len(indexFile) \in Nat /\ Len(nextOffset) \in Nat
      /\ DOMAIN nextOffset = 1 .. Len(nextOffset)
  BY LenProperties DEF CommitLogInv, CommitLogType
<1>3. partition' \in Nat /\ partition' # NoSegment
  <2>1. Len(Append(nextOffset, Len(indexFile))) = Len(nextOffset) + 1
    BY <1>2, AppendProperties DEF CommitLogInv, CommitLogType
  <2>2. partition' \in Nat
    BY <1>2, <2>1 DEF OpenPartition, NewSegment, CommitLogInv, CommitLogType
  <2>3. QED
    BY <2>2, CommitLogAssumption
<1>4. /\ Goes(c, "append", conn[c].record, partition', conn[c].pos)
      /\ conn[c].at = "open" /\ ~Critical(c) /\ conn[c].record \in Record
  <2>1. conn \in [Conn -> Connection]
    BY DEF CommitLogInv, CommitLogType
  <2>2. conn' = [conn EXCEPT ![c].at = "append", ![c].segment = partition']
    BY DEF OpenPartition, Joins
  <2>3. conn' \in [Conn -> Connection]
    BY ZenonT(40), <1>3, <2>1, <2>2 DEF Connection, Stages
  <2>4. conn[c].at = "open"
    BY DEF OpenPartition
  <2>5. conn[c].record \in Record
    BY <2>4 DEF CommitLogInv, Progress
  <2>6. QED
    BY <2>1, <2>2, <2>3, <2>4, <2>5 DEF Goes, Connection, Critical
<1>5. CASE partition # NoSegment
  <2>1. UNCHANGED <<nextOffset, missed, partition>>
    BY <1>5 DEF OpenPartition
  <2>2. QED
    BY <1>1, <1>3, <1>4, <2>1, ConnMoves
<1>6. CASE partition = NoSegment
  <2>1. /\ nextOffset' = Append(nextOffset, Len(indexFile)) /\ partition' = Len(nextOffset')
        /\ missed' = Append(missed, 0)
    BY <1>6 DEF OpenPartition, NewSegment
  <2>2. /\ nextOffset' \in Seq(Nat) /\ partition' = Len(nextOffset) + 1
        /\ Len(nextOffset') = Len(nextOffset) + 1
        /\ nextOffset'[partition'] = Len(indexFile)
        /\ missed' \in Seq(Nat) /\ Len(missed') = Len(nextOffset')
        /\ missed'[partition'] = 0
    BY <1>2, <2>1, AppendProperties DEF CommitLogInv, CommitLogType
  <2>3. partition' \in DOMAIN nextOffset'
    BY <1>2, <2>2, LenProperties
  <2>4. \A d \in Conn : ~Critical(d) /\ conn[d].at # "append"
    BY <1>6 DEF CommitLogInv, Progress
  <2>5. \A d \in Conn : ~Critical(d)'
    BY <1>4, <2>4 DEF Critical, Goes
  <2>6. CommitLogType'
    BY <1>1, <1>4, <2>2, <2>3 DEF CommitLogInv, CommitLogType, Goes
  <2>7. OneWriter' /\ Counted'
    BY <1>1, <1>2, <2>2, <2>5 DEF OneWriter, Counted
  <2>8. ASSUME NEW d \in Conn PROVE Progress(d)'
    <3>1. CASE d = c
      BY <1>3, <1>4, <3>1 DEF Progress, Goes, Critical
    <3>2. CASE d # c
      BY <1>4, <2>4, <2>5, <3>2 DEF CommitLogInv, Progress, Goes, Critical
    <3>3. QED
      BY <3>1, <3>2
  <2>9. \A q \in promised' : Kept(q)'
    BY <1>1 DEF CommitLogInv, Kept
  <2>10. QED
    BY <2>6, <2>7, <2>8, <2>9 DEF CommitLogInv
<1>7. QED
  BY <1>5, <1>6

\* The mutex of the one live Segment object lets one connection in.
LEMMA SeekStep ==
  ASSUME CommitLogInv, NEW c \in Conn, Seek(c)
  PROVE  CommitLogInv'
<1>1. UNCHANGED <<logFile, indexFile, nextOffset, partition, shifted, promised, missed, crashes, badWrites>>
  BY DEF Seek
<1>2. Len(logFile) \in Nat
  BY LenProperties DEF CommitLogInv, CommitLogType
<1>3. /\ Goes(c, "header", conn[c].record, conn[c].segment, Len(logFile) + 1)
      /\ conn[c].at = "append" /\ ~Critical(c)
  <2> DEFINE end == Len(logFile) + 1
  <2>1. conn \in [Conn -> Connection] /\ end \in Nat
    BY <1>2 DEF CommitLogInv, CommitLogType
  <2>2. conn' = [conn EXCEPT ![c].at = "header", ![c].pos = end]
    BY DEF Seek
  <2> HIDE DEF end
  <2>3. conn' \in [Conn -> Connection]
    BY ZenonT(40), <2>1, <2>2 DEF Connection, Stages
  <2>4. conn[c].at = "append"
    BY DEF Seek
  <2>5. QED
    BY <2>1, <2>2, <2>3, <2>4 DEF Goes, Connection, Critical, end
<1>4. conn[c].segment = partition /\ partition # NoSegment /\ conn[c].record \in Record
  BY <1>3 DEF CommitLogInv, Progress
<1>5. \A d \in Conn : ~Critical(d)
  BY <1>4 DEF Seek, Locked, CommitLogInv, Progress, Critical
<1>6. CommitLogType'
  BY <1>1, <1>3 DEF CommitLogInv, CommitLogType, Goes
<1>7. \A d \in Conn : Critical(d)' => d = c
  BY <1>3, <1>5 DEF Goes, Critical
<1>8. OneWriter' /\ Counted'
  BY <1>1, <1>3, <1>5, <1>7 DEF CommitLogInv, OneWriter, Counted, Goes, Critical
<1>9. ASSUME NEW d \in Conn PROVE Progress(d)'
  <2>1. CASE d = c
    BY <1>1, <1>3, <1>4, <2>1 DEF Progress, Goes
  <2>2. CASE d # c
    BY <1>1, <1>3, <1>5, <2>2 DEF CommitLogInv, Progress, Goes, Critical
  <2>3. QED
    BY <2>1, <2>2
<1>10. \A q \in promised' : Kept(q)'
  BY <1>1 DEF CommitLogInv, Kept
<1>11. QED
  BY <1>6, <1>8, <1>9, <1>10 DEF CommitLogInv

\* WriteHeader and WriteData lengthen the log, which nobody else is writing, or
\* leave it; what they have not written whole is not taken for whole.
LEMMA WriteLogSteps ==
  ASSUME CommitLogInv, NEW c \in Conn, WriteHeader(c) \/ WriteData(c)
  PROVE  CommitLogInv'
<1> DEFINE r == conn[c].record
           x == IF conn[c].at = "header" THEN HeaderOf(r) ELSE DataOf(r)
           torn == [kind |-> "torn", record |-> r]
           there == IF conn[c].at = "header" THEN "data" ELSE "index"
           cutShort == [conn EXCEPT ![c].at = there, ![c].whole = FALSE]
<1>1. /\ UNCHANGED <<indexFile, nextOffset, partition, shifted, promised, missed, crashes>>
      /\ conn[c].at \in {"header", "data"}
      /\ badWrites' \in {badWrites, badWrites + 1}
      /\ \/ logFile' = Append(logFile, x) /\ conn' = [conn EXCEPT ![c].at = there]
         \/ logFile' = Append(logFile, torn) /\ conn' = cutShort
         \/ logFile' = logFile /\ conn' = cutShort
  BY DEF WriteHeader, WriteData, WriteCell, Writes, Fails, Proceed, HeaderOf, DataOf
<1>2. /\ Len(logFile) \in Nat /\ Len(indexFile) \in Nat
      /\ conn \in [Conn -> Connection] /\ there \in Stages
  BY LenProperties DEF CommitLogInv, CommitLogType, Stages
<1>3. /\ Goes(c, there, r, conn[c].segment, conn[c].pos)
      /\ conn'[c].whole => conn[c].whole /\ logFile' = Append(logFile, x)
  <2> HIDE DEF there, x
  <2>1. CASE logFile' = Append(logFile, x) /\ conn' = [conn EXCEPT ![c].at = there]
    <3>1. conn' \in [Conn -> Connection]
      BY <1>2, <2>1 DEF Connection
    <3>2. QED
      BY <1>2, <2>1, <3>1 DEF Goes, Connection
  <2>2. CASE conn' = cutShort
    <3>1. conn' \in [Conn -> Connection] /\ conn'[c].whole = FALSE
      BY ZenonT(40), <1>2, <2>2 DEF Connection
    <3>2. QED
      BY <1>2, <2>2, <3>1 DEF Goes, Connection
  <2>3. QED
    BY <1>1, <2>1, <2>2
<1>4. Progress(c) /\ Critical(c) /\ r \in Record
  BY <1>1 DEF CommitLogInv, Critical, Progress
<1>5. x \in Cell /\ torn \in Cell
  BY <1>4 DEF Cell, HeaderOf, DataOf
<1>5a. logFile \in Seq(Cell) /\ logFile' \in {Append(logFile, x), Append(logFile, torn), logFile}
  BY <1>1 DEF CommitLogInv, CommitLogType
<1> HIDE DEF torn, cutShort, x
<1>6. /\ logFile' \in Seq(Cell)
      /\ logFile' = Append(logFile, x) =>
           /\ Len(logFile') = Len(logFile) + 1 /\ logFile'[Len(logFile) + 1] = x
           /\ \A k \in 1 .. Len(logFile) : logFile'[k] = logFile[k]
  BY <1>5, <1>5a, AppendProperties
<1>7. \A p, q : Stored(logFile, p, q) => Stored(logFile', p, q)
  BY <1>5, <1>5a, StoredStays
<1>8. \A q \in promised' : Kept(q)'
  BY <1>1, <1>7 DEF CommitLogInv, Kept
<1>9. \A d \in Conn \ {c} : ~Critical(d) /\ conn'[d] = conn[d]
  BY <1>3, <1>4 DEF CommitLogInv, OneWriter, Goes
<1>10. \A d \in Conn \ {c} : Progress(d)'
  BY <1>1, <1>9 DEF CommitLogInv, Progress, Critical
<1>11. Progress(c)'
  <2> DEFINE place == conn[c].pos
             entered == conn'[c].at = "data" /\ conn'[c].whole =>
                          place = Len(logFile') /\ place # 0 /\ logFile'[place] = HeaderOf(r)
             written == conn'[c].at \in {"index", "count"} /\ conn'[c].whole =>
                          Stored(logFile', place, r)
  <2>0. x = IF conn[c].at = "header" THEN HeaderOf(r) ELSE DataOf(r)
    BY DEF x
  <2>1. entered
    <3> SUFFICES ASSUME conn'[c].at = "data", conn'[c].whole
                 PROVE  place = Len(logFile') /\ place # 0 /\ logFile'[place] = HeaderOf(r)
      OBVIOUS
    <3>1. conn[c].at = "header" /\ logFile' = Append(logFile, x)
      BY <1>1, <1>3 DEF Goes
    <3>2. place = Len(logFile) + 1
      BY <1>4, <3>1 DEF Progress
    <3>3. QED
      BY <1>2, <1>6, <2>0, <3>1, <3>2
  <2>2. written
    <3> SUFFICES ASSUME conn'[c].at \in {"index", "count"}, conn'[c].whole
                 PROVE  Stored(logFile', place, r)
      OBVIOUS
    <3>1. conn[c].at = "data" /\ conn[c].whole /\ logFile' = Append(logFile, x)
      BY <1>1, <1>3 DEF Goes
    <3>2. place = Len(logFile) /\ place # 0 /\ logFile[place] = HeaderOf(r)
      BY <1>4, <3>1 DEF Progress
    <3>3. QED
      BY <1>2, <1>6, <2>0, <3>1, <3>2 DEF Stored
  <2>3. conn'[c].segment = partition' /\ partition' # NoSegment
    BY <1>1, <1>3, <1>4 DEF Progress, Goes
  <2>4. QED
    BY <1>1, <1>3, <1>4, <2>1, <2>2, <2>3 DEF Progress, Goes
<1>12. CommitLogType'
  BY <1>1, <1>3, <1>6 DEF CommitLogInv, CommitLogType, Goes
<1>13. OneWriter' /\ Counted'
  BY <1>1, <1>3, <1>4, <1>9 DEF CommitLogInv, OneWriter, Counted, Critical, Goes
<1>14. QED
  BY <1>8, <1>10, <1>11, <1>12, <1>13 DEF CommitLogInv

\* WriteIndex: the entry is written, points nowhere, or is missed.
LEMMA WriteIndexStep ==
  ASSUME CommitLogInv, NEW c \in Conn, WriteIndex(c)
  PROVE  CommitLogInv'
<1> DEFINE p == conn[c].pos
           r == conn[c].record
           n == Len(indexFile)
           cutShort == [conn EXCEPT ![c].at = "count", ![c].whole = FALSE]
<1>1. /\ UNCHANGED <<logFile, nextOffset, partition, promised, crashes>>
      /\ conn[c].at = "index" /\ shifted' \in {shifted, TRUE}
      /\ badWrites' \in {badWrites, badWrites + 1}
  BY DEF WriteIndex, Writes, Fails
<1>2. /\ conn \in [Conn -> Connection] /\ p \in Nat /\ n \in Nat /\ indexFile \in Seq(Nat)
      /\ missed \in Seq(Nat) /\ DOMAIN missed = DOMAIN nextOffset
  BY LenProperties DEF CommitLogInv, CommitLogType, Connection
<1>3. Progress(c) /\ Critical(c) /\ r \in Record /\ (conn[c].whole => Stored(logFile, p, r))
  BY <1>1 DEF CommitLogInv, Critical, Progress
<1>4. conn[c].segment = partition /\ partition # NoSegment /\ partition \in DOMAIN missed
  BY <1>2, <1>3 DEF Progress, CommitLogInv, CommitLogType
<1>5. missed[partition] \in Nat
  BY <1>2, <1>4, ElementOfSeq
<1>6. /\ Goes(c, "count", r, conn[c].segment, p)
      /\ conn'[c].whole => conn[c].whole /\ indexFile' = Append(indexFile, p)
  <2>1. CASE conn' = [conn EXCEPT ![c].at = "count"] /\ indexFile' = Append(indexFile, p)
    <3>1. conn' \in [Conn -> Connection]
      BY <1>2, <2>1 DEF Connection, Stages
    <3>2. QED
      BY <1>2, <2>1, <3>1 DEF Goes, Connection
  <2>2. CASE conn' = cutShort
    <3>1. conn' \in [Conn -> Connection] /\ conn'[c].whole = FALSE
      BY ZenonT(40), <1>2, <2>2 DEF Connection, Stages
    <3>2. QED
      BY <1>2, <2>2, <3>1 DEF Goes, Connection
  <2>3. QED
    BY <2>1, <2>2 DEF WriteIndex, Writes, Fails, Proceed
<1>7. \/ \E q \in {p, 0} : indexFile' = Append(indexFile, q) /\ missed' = missed
      \/ indexFile' = indexFile /\ missed' = [missed EXCEPT ![partition] = @ + 1]
  BY <1>4 DEF WriteIndex
<1>8. /\ indexFile' \in Seq(Nat) /\ Len(indexFile') \in Nat /\ Len(indexFile') >= n
      /\ \A k \in 1 .. n : indexFile'[k] = indexFile[k]
      /\ indexFile' = Append(indexFile, p) => Len(indexFile') = n + 1 /\ indexFile'[n + 1] = p
  <2>1. ASSUME NEW q \in Nat, indexFile' = Append(indexFile, q)
        PROVE  /\ indexFile' \in Seq(Nat) /\ Len(indexFile') = n + 1 /\ indexFile'[n + 1] = q
               /\ \A k \in 1 .. n : indexFile'[k] = indexFile[k]
    BY <1>2, <2>1, AppendProperties
  <2>2. 0 \in Nat /\ (indexFile' = indexFile \/ \E q \in {p, 0} : indexFile' = Append(indexFile, q))
    BY <1>7
  <2> HIDE DEF p
  <2>3. QED
    BY <1>2, <2>1, <2>2
<1>9. /\ missed' \in Seq(Nat) /\ Len(missed') = Len(nextOffset)
      /\ Len(indexFile') + missed'[partition] = n + missed[partition] + 1
  <2>1. Len(missed) = Len(nextOffset)
    BY DEF CommitLogInv, CommitLogType
  <2>2. ASSUME NEW q \in {p, 0}, indexFile' = Append(indexFile, q), missed' = missed
        PROVE  Len(indexFile') = n + 1
    BY <1>2, <2>2, AppendProperties
  <2>3. ASSUME indexFile' = indexFile, missed' = [missed EXCEPT ![partition] = @ + 1]
        PROVE  /\ missed' \in Seq(Nat) /\ Len(missed') = Len(nextOffset)
               /\ missed'[partition] = missed[partition] + 1
    <3>1. missed[partition] + 1 \in Nat
      BY <1>5
    <3>2. missed' = [missed EXCEPT ![partition] = missed[partition] + 1]
      BY <2>3
    <3>3. QED
      BY <1>2, <1>4, <2>1, <3>1, <3>2, ExceptSeq
  <2>4. CASE \E q \in {p, 0} : indexFile' = Append(indexFile, q) /\ missed' = missed
    <3>1. missed' = missed /\ Len(indexFile') = n + 1
      BY <2>2, <2>4
    <3>2. \A i, j \in Nat : i + 1 + j = i + j + 1
      OBVIOUS
    <3>3. Len(indexFile') + missed'[partition] = n + missed[partition] + 1
      BY <1>2, <1>5, <3>1, <3>2
    <3>4. QED
      BY <1>2, <2>1, <3>1, <3>3
  <2>5. CASE indexFile' = indexFile /\ missed' = [missed EXCEPT ![partition] = @ + 1]
    BY <1>2, <1>5, <2>3, <2>5
  <2>6. QED
    BY <1>7, <2>4, <2>5
<1>10. \A d \in Conn \ {c} : ~Critical(d) /\ conn'[d] = conn[d]
  BY <1>3, <1>6 DEF CommitLogInv, OneWriter, Goes
<1>11. nextOffset[partition] = n + missed[partition]
  <2>1. \A d \in Conn : conn[d].at # "count"
    BY <1>1, <1>10 DEF Critical
  <2>2. QED
    BY <1>4, <2>1 DEF CommitLogInv, Counted
<1> HIDE DEF p, r, n
<1>12. CommitLogType'
  <2>1. shifted' \in BOOLEAN /\ badWrites' \in Nat
    <3>1. shifted \in BOOLEAN /\ badWrites \in Nat
      BY DEF CommitLogInv, CommitLogType
    <3>2. shifted' \in BOOLEAN
      BY Zenon, <1>1, <3>1
    <3>3. badWrites' \in Nat
      <4>1. badWrites' = badWrites \/ badWrites' = badWrites + 1
        BY Zenon, <1>1
      <4>2. QED
        BY <3>1, <4>1
    <3>4. QED
      BY <3>2, <3>3
  <2>2. conn' \in [Conn -> Connection]
    BY <1>6 DEF Goes
  <2>3. indexFile' \in Seq(Nat) /\ missed' \in Seq(Nat) /\ Len(missed') = Len(nextOffset')
    BY <1>1, <1>8, <1>9
  <2>4. QED
    BY <1>1, <2>1, <2>2, <2>3 DEF CommitLogInv, CommitLogType
<1>13. OneWriter' /\ Counted'
  BY <1>6, <1>10 DEF OneWriter, Counted, Critical, Goes
<1>14. ASSUME NEW d \in Conn PROVE Progress(d)'
  <2>1. CASE d = c
    <3>1. nextOffset'[partition'] + 1 = Len(indexFile') + missed'[partition']
      BY <1>1, <1>9, <1>11
    <3>2. conn'[c].whole => Len(indexFile') # 0 /\ indexFile'[Len(indexFile')] = p
      BY <1>2, <1>6, <1>8 DEF n
    <3>3. QED
      BY <1>1, <1>3, <1>4, <1>6, <2>1, <3>1, <3>2 DEF Progress, Goes, p, r
  <2>2. CASE d # c
    BY <1>1, <1>10, <2>2 DEF CommitLogInv, Progress, Critical
  <2>3. QED
    BY <2>1, <2>2
<1>15. ASSUME NEW q \in promised' PROVE Kept(q)'
  <2> SUFFICES ASSUME q.whole PROVE Kept(q)'
    BY DEF Kept
  <2>1. Kept(q) /\ q.offset \in Nat /\ q.missed \in Nat
    BY <1>1 DEF CommitLogInv, CommitLogType, Promise
  <2> DEFINE k == q.offset - q.missed + 1
  <2>2. k \in 1 .. n
    BY <1>2, <2>1 DEF Kept, n
  <2>3. indexFile'[k] = indexFile[k] /\ k <= Len(indexFile')
    BY <1>2, <1>8, <2>2
  <2>4. QED
    BY <1>1, <2>1, <2>3 DEF Kept
<1>16. QED
  BY <1>12, <1>13, <1>14, <1>15 DEF CommitLogInv

LEMMA AcknowledgeStep ==
  ASSUME CommitLogInv, NEW c \in Conn, Acknowledge(c)
  PROVE  CommitLogInv'
<1> DEFINE r == conn[c].record
           q == [offset |-> nextOffset[partition], record |-> r,
                 missed |-> missed[partition], whole |-> conn[c].whole]
           n == Len(indexFile)
<1>1. /\ UNCHANGED <<logFile, indexFile, partition, shifted, missed, crashes, badWrites>>
      /\ conn[c].at = "count"
  BY DEF Acknowledge
<1>2. /\ n \in Nat /\ nextOffset \in Seq(Nat) /\ promised \subseteq Promise
      /\ missed \in Seq(Nat) /\ DOMAIN missed = DOMAIN nextOffset
      /\ DOMAIN nextOffset = 1 .. Len(nextOffset) /\ conn \in [Conn -> Connection]
  BY LenProperties DEF CommitLogInv, CommitLogType
<1>3. /\ r \in Record /\ (conn[c].whole => Stored(logFile, conn[c].pos, r))
      /\ conn[c].segment = partition /\ partition # NoSegment /\ Critical(c)
      /\ nextOffset[partition] + 1 = n + missed[partition]
      /\ conn[c].whole => n # 0 /\ indexFile[n] = conn[c].pos
  BY <1>1 DEF CommitLogInv, Critical, Progress
<1>4. partition \in DOMAIN nextOffset /\ nextOffset[partition] \in Nat /\ missed[partition] \in Nat
  BY <1>2, <1>3, ElementOfSeq DEF CommitLogInv, CommitLogType
<1>5. promised' = promised \cup {q} /\ q \in Promise
  BY <1>2, <1>3, <1>4 DEF Acknowledge, Promise, Connection
<1>6. nextOffset' = [nextOffset EXCEPT ![partition] = nextOffset[partition] + 1]
  BY <1>3, <1>4 DEF Acknowledge
<1>7. /\ nextOffset' \in Seq(Nat) /\ Len(nextOffset') = Len(nextOffset)
      /\ DOMAIN nextOffset' = DOMAIN nextOffset
      /\ nextOffset'[partition] = n + missed[partition]
  <2>1. nextOffset[partition] + 1 \in Nat
    BY <1>4
  <2>2. QED
    BY <1>2, <1>3, <1>4, <1>6, <2>1, ExceptSeq
<1>8. /\ conn' \in [Conn -> Connection] /\ conn'[c].at = "waiting"
      /\ \A d \in Conn \ {c} : ~Critical(d) /\ conn'[d] = conn[d]
  <2>1. Waiting \in Connection /\ Waiting.at = "waiting"
    BY DEF Waiting, Connection, Stages
  <2>2. \A d \in Conn \ {c} : ~Critical(d)
    BY <1>3 DEF CommitLogInv, OneWriter
  <2>3. QED
    BY <1>2, <2>1, <2>2 DEF Acknowledge
<1>9. Kept(q)
  <2> SUFFICES ASSUME conn[c].whole PROVE Kept(q)
    BY DEF Kept
  <2>1. nextOffset[partition] - missed[partition] + 1 = n /\ missed[partition] <= nextOffset[partition]
    BY <1>2, <1>3, <1>4
  <2>2. QED
    BY <1>2, <1>3, <2>1 DEF Kept
<1> HIDE DEF q, r, n
<1>10. CommitLogType'
  BY <1>1, <1>2, <1>5, <1>7, <1>8 DEF CommitLogInv, CommitLogType
<1>11. \A d \in Conn : ~Critical(d)'
  BY <1>8 DEF Critical
<1>12. OneWriter' /\ Counted'
  BY <1>1, <1>7, <1>11 DEF OneWriter, Counted, Critical, n
<1>13. ASSUME NEW d \in Conn PROVE Progress(d)'
  <2>1. CASE d = c
    BY <1>8, <2>1 DEF Progress, Critical
  <2>2. CASE d # c
    BY <1>1, <1>8, <1>11, <2>2 DEF CommitLogInv, Progress, Critical
  <2>3. QED
    BY <2>1, <2>2
<1>14. ASSUME NEW o \in promised' PROVE Kept(o)'
  <2>1. Kept(o)
    BY <1>5, <1>9 DEF CommitLogInv
  <2>2. QED
    BY <1>1, <2>1 DEF Kept
<1>15. QED
  BY <1>10, <1>12, <1>13, <1>14 DEF CommitLogInv

LEMMA CrashBrokerStep ==
  ASSUME CommitLogInv, CrashBroker
  PROVE  CommitLogInv'
<1>1. Waiting \in Connection /\ Waiting.at = "waiting"
  BY DEF Waiting, Connection, Stages
<1>2. conn' \in [Conn -> Connection] /\ \A c \in Conn : conn'[c].at = "waiting"
  BY <1>1 DEF CrashBroker
<1>3. UNCHANGED <<logFile, indexFile, nextOffset, shifted, promised, missed, badWrites>> /\ partition' = NoSegment
      /\ crashes' = crashes + 1
  BY DEF CrashBroker
<1>4. QED
  BY <1>2, <1>3 DEF CommitLogInv, CommitLogType, OneWriter, Counted, Progress, Kept, Critical

\* A record that was acknowledged after three successful writes reads back for
\* ever, at its offset less the index entries its Segment object had missed, with
\* any number of connections opening and writing the partition at once, failed
\* writes of other records, and crashes between any two writes.
THEOREM AcknowledgedReadsBack == CommitLogSpec => []PromisedReadsBack
<1>1. CommitLogInv /\ [CommitLogNext]_commitLogVars => CommitLogInv'
  <2>1. ASSUME CommitLogInv, UNCHANGED commitLogVars PROVE CommitLogInv'
    BY <2>1 DEF commitLogVars, CommitLogInv, CommitLogType, OneWriter, Counted, Progress,
                Kept, Critical
  <2>2. QED
    BY <2>1, ProduceStep, OpenStep, SeekStep, WriteLogSteps, WriteIndexStep,
       AcknowledgeStep, CrashBrokerStep DEF CommitLogNext
<1>2. CommitLogInv => PromisedReadsBack
  <2> SUFFICES ASSUME CommitLogInv, NEW q \in promised, q.whole
               PROVE  q.missed <= q.offset /\ Read(q.offset - q.missed) = q.record
    BY DEF PromisedReadsBack
  <2>1. Kept(q) /\ q.offset \in Nat /\ q.missed \in Nat
    BY DEF CommitLogInv, CommitLogType, Promise
  <2>2. /\ DOMAIN indexFile = 1 .. Len(indexFile) /\ DOMAIN logFile = 1 .. Len(logFile)
        /\ Len(indexFile) \in Nat /\ Len(logFile) \in Nat
    BY LenProperties DEF CommitLogInv, CommitLogType
  <2> DEFINE k == q.offset - q.missed
             p == indexFile[k + 1]
  <2>3. q.missed <= q.offset /\ k + 1 \in DOMAIN indexFile /\ Stored(logFile, p, q.record)
    BY <2>1, <2>2 DEF Kept
  <2>4. p \in DOMAIN logFile /\ p + 1 \in DOMAIN logFile
    BY <2>2, <2>3 DEF Stored
  <2> HIDE DEF k
  <2>5. Read(k) = q.record
    BY <2>3, <2>4 DEF Read, Stored, HeaderOf, DataOf
  <2>6. QED
    BY <2>3, <2>5 DEF k
<1>3. QED
  BY CommitLogStart, <1>1, <1>2, PTL DEF CommitLogSpec

-----------------------------------------------------------------------------
(* Pipeline.  An acknowledged event that is nowhere has been lost with its *)
(* holder: by a stop, or by a failure of the dead letter queue.            *)

Stations == {"free", "check", "enter", "look", "swap", "call", "stamp", "judge", "open",
             "again", "reset", "close", "mark", "dlq"}

PipelineType ==
  /\ acked \subseteq Event
  /\ buffer \in Seq(Event)
  /\ worker \in [Worker -> [at: Stations, event: Event \cup {Nobody}, attempt: Nat]]
  /\ breaker \in [state: {"closed", "open", "half"}, failures: Nat, cooled: BOOLEAN]
  /\ stops \in Nat /\ refused \in Nat /\ lost \in Nat

PipelineInv ==
  /\ PipelineType
  /\ Len(buffer) <= BufferSize
  /\ \A w \in Worker : worker[w].at \in {"reset", "close", "mark"} => worker[w].event \in handled

LEMMA PipelineStart == PipelineInit => PipelineInv
BY PipelineAssumption DEF PipelineInit, PipelineInv, PipelineType, Free,
   NewCircuitBreaker, Stations

LEMMA PipelineInvStep == PipelineInv /\ [PipelineNext]_pipelineVars => PipelineInv'
<1> SUFFICES ASSUME PipelineInv, [PipelineNext]_pipelineVars
             PROVE  PipelineInv'
  OBVIOUS
<1> USE PipelineAssumption DEF PipelineInv, PipelineType, Stations, arrived, outcome, mishaps
<1>1. ASSUME NEW e \in Event, Fetch(e) PROVE PipelineInv'
  BY <1>1 DEF Fetch, Submit
<1>2. ASSUME NEW w \in Worker, WorkerRuns(w) PROVE PipelineInv'
  <2> USE DEF Step, Release, Free
  <2>1. CASE Take(w)
    BY <2>1 DEF Take
  <2>2. CASE Check(w)
    <3>1. CASE Release(w)
      BY <3>1, <2>2 DEF Check
    <3>2. CASE Step(w, "enter")
      BY <3>2, <2>2 DEF Check
    <3>3. QED
      BY <3>1, <3>2, <2>2 DEF Check
  <2>3. CASE LoadCircuit(w)
    BY <2>3 DEF LoadCircuit
  <2>3a. CASE LoadLastFailure(w)
    BY <2>3a DEF LoadLastFailure
  <2>3b. CASE SwapToHalfOpen(w)
    <3>1. breaker' \in [state: {"closed", "open", "half"}, failures: Nat, cooled: BOOLEAN]
      BY <2>3b DEF SwapToHalfOpen
    <3>2. QED
      <4>1. worker' \in [Worker -> [at: Stations, event: Event \cup {Nobody}, attempt: Nat]]
            /\ worker'[w].at = "call" /\ \A v \in Worker : v # w => worker'[v] = worker[v]
        BY <2>3b DEF SwapToHalfOpen
      <4>2. UNCHANGED <<acked, buffer, handled, stops, refused, lost>>
        BY <2>3b DEF SwapToHalfOpen
      <4>3. QED
        BY <3>1, <4>1, <4>2
  <2>4. CASE Handle(w)
    <3>1. CASE handled' = handled \cup {worker[w].event} /\ Step(w, "reset") /\ UNCHANGED breaker
      BY <3>1, <2>4 DEF Handle
    <3>2. CASE /\ breaker' = [breaker EXCEPT !.failures = IF @ < Threshold THEN @ + 1 ELSE @]
               /\ Step(w, "stamp") /\ UNCHANGED handled
      <4>1. PICK n \in Nat : breaker' = [breaker EXCEPT !.failures = n]
        <5>1. CASE breaker.failures < Threshold
          <6>1. breaker' = [breaker EXCEPT !.failures = breaker.failures + 1]
            BY <5>1, <3>2
          <6>2. breaker.failures + 1 \in Nat
            OBVIOUS
          <6>3. QED
            BY <6>1, <6>2
        <5>2. CASE ~(breaker.failures < Threshold)
          BY <5>2, <3>2
        <5>3. QED
          BY <5>1, <5>2
      <4>2. breaker' \in [state: {"closed", "open", "half"}, failures: Nat, cooled: BOOLEAN]
        BY <4>1
      <4>3. QED
        BY ZenonT(40), <4>2, <3>2, <2>4 DEF Handle
    <3>3. QED
      BY <3>1, <3>2, <2>4 DEF Handle
  <2>5. CASE StoreLastFailure(w)
    BY <2>5 DEF StoreLastFailure
  <2>6. CASE LoadFailures(w)
    BY <2>6 DEF LoadFailures
  <2>7. CASE StoreOpen(w)
    BY <2>7 DEF StoreOpen
  <2>8. CASE Again(w)
    <3>1. CASE worker[w].attempt < Retries
      <4>1. PICK n \in Nat : worker' = [worker EXCEPT ![w].at = "enter", ![w].attempt = n]
        BY <3>1, <2>8 DEF Again
      <4>2. /\ worker' \in [Worker -> [at: Stations, event: Event \cup {Nobody}, attempt: Nat]]
            /\ worker'[w].at = "enter"
            /\ \A v \in Worker : v # w => worker'[v] = worker[v]
        BY ZenonT(40), <4>1
      <4>3. QED
        BY <4>2, <2>8 DEF Again
    <3>2. CASE worker[w].attempt >= Retries
      <4>1. Step(w, "dlq")
        BY <3>2, <2>8 DEF Again
      <4>2. QED
        BY <4>1, <2>8 DEF Again
    <3>3. QED
      BY <3>1, <3>2
  <2>9. CASE StoreNoFailures(w)
    BY <2>9 DEF StoreNoFailures
  <2>10. CASE StoreClosed(w)
    BY <2>10 DEF StoreClosed
  <2>11. CASE MarkProcessed(w)
    BY <2>11 DEF MarkProcessed
  <2>12. CASE PublishDLQ(w)
    BY <2>12 DEF PublishDLQ
  <2>13. QED
    BY <1>2, <2>1, <2>2, <2>3, <2>3a, <2>3b, <2>4, <2>5, <2>6, <2>7, <2>8, <2>9, <2>10,
       <2>11, <2>12 DEF WorkerRuns
<1>3. CASE Cool
  BY <1>3 DEF Cool
<1>4. CASE Stop
  BY <1>4 DEF Stop, Free, NewCircuitBreaker
<1>5. CASE UNCHANGED pipelineVars
  BY <1>5 DEF pipelineVars
<1>6. QED
  BY <1>1, <1>2, <1>3, <1>4, <1>5 DEF PipelineNext

LEMMA PipelineInvariant == PipelineSpec => []PipelineInv
<1>1. PipelineInv /\ [PipelineNext]_pipelineVars => PipelineInv'
  BY PipelineInvStep
<1>2. QED
  BY PipelineStart, <1>1, PTL DEF PipelineSpec

(* Half open with the failures at the threshold, the breaker has a worker  *)
(* on trial, however the accesses of the workers to its atomics interleave:*)
(* who swaps it to half open is on trial, as is who brings the failures to *)
(* the threshold, and nobody ends a trial without opening the breaker or   *)
(* clearing the failures.                                                  *)
THEOREM HalfOpenIsTried == PipelineSpec => []HalfOpenIsOnTrial
<1>1. PipelineInit => HalfOpenIsOnTrial
  BY DEF PipelineInit, HalfOpenIsOnTrial, NewCircuitBreaker
<1>2. PipelineInv /\ HalfOpenIsOnTrial /\ [PipelineNext]_pipelineVars => HalfOpenIsOnTrial'
  <2> SUFFICES ASSUME PipelineInv, HalfOpenIsOnTrial, [PipelineNext]_pipelineVars
               PROVE  HalfOpenIsOnTrial'
    OBVIOUS
  <2> USE PipelineAssumption DEF PipelineInv, PipelineType
  <2>1. ASSUME UNCHANGED <<worker, breaker>> PROVE HalfOpenIsOnTrial'
    BY <2>1 DEF HalfOpenIsOnTrial, OnTrial
  <2>2. ASSUME NEW w \in Worker, WorkerRuns(w) PROVE HalfOpenIsOnTrial'
    <3>1. \A v \in Worker : v # w => worker'[v] = worker[v]
      BY <2>2 DEF WorkerRuns, Take, Check, LoadCircuit, LoadLastFailure, SwapToHalfOpen, Handle,
         StoreLastFailure, LoadFailures, StoreOpen, Again, StoreNoFailures, StoreClosed,
         MarkProcessed, PublishDLQ, Step, Release
    <3>2. ASSUME worker'[w].at \in {"call", "stamp", "judge", "open", "reset"}
          PROVE  HalfOpenIsOnTrial'
      BY <3>2 DEF HalfOpenIsOnTrial, OnTrial
    <3>3. ASSUME worker[w].at \notin {"call", "stamp", "judge", "open", "reset"}, UNCHANGED breaker
          PROVE  HalfOpenIsOnTrial'
      BY <3>1, <3>3 DEF HalfOpenIsOnTrial, OnTrial
    <3>4. CASE Take(w) \/ Check(w) \/ LoadCircuit(w) \/ LoadLastFailure(w) \/ Again(w)
               \/ MarkProcessed(w) \/ PublishDLQ(w)
      BY <3>3, <3>4 DEF Take, Check, LoadCircuit, LoadLastFailure, Again, MarkProcessed, PublishDLQ
    <3>5. CASE SwapToHalfOpen(w) \/ Handle(w) \/ StoreLastFailure(w)
      BY <3>2, <3>5 DEF SwapToHalfOpen, Handle, StoreLastFailure, Step
    <3>6. CASE LoadFailures(w)
      <4>1. CASE breaker.failures >= Threshold
        BY <3>2, <3>6, <4>1 DEF LoadFailures, Step
      <4>2. CASE ~(breaker.failures >= Threshold)
        BY <3>6, <4>2 DEF LoadFailures, HalfOpenIsOnTrial
      <4>3. QED
        BY <4>1, <4>2
    <3>7. CASE StoreOpen(w) \/ StoreClosed(w)
      BY <3>7 DEF StoreOpen, StoreClosed, HalfOpenIsOnTrial
    <3>8. CASE StoreNoFailures(w)
      BY <3>8 DEF StoreNoFailures, HalfOpenIsOnTrial
    <3>9. QED
      BY <2>2, <3>4, <3>5, <3>6, <3>7, <3>8 DEF WorkerRuns
  <2>3. CASE Cool
    BY <2>3 DEF Cool, HalfOpenIsOnTrial, OnTrial
  <2>4. CASE Stop
    BY <2>4 DEF Stop, HalfOpenIsOnTrial, NewCircuitBreaker
  <2>5. QED
    BY <2>1, <2>2, <2>3, <2>4 DEF PipelineNext, pipelineVars, Fetch
<1>3. QED
  BY PipelineInvariant, <1>1, <1>2, PTL DEF PipelineSpec

(* The worker's step does not touch the buffer; it keeps its event ...      *)
LEMMA HandStays ==
  ASSUME PipelineType, NEW w \in Worker, UNCHANGED buffer,
         worker[w].at # "free" => worker'[w].at # "free" /\ worker'[w].event = worker[w].event,
         \A v \in Worker : v # w => worker'[v] = worker[v]
  PROVE  InHand \subseteq InHand'
BY DEF InHand

(* ... or lets it go.                                                       *)
LEMMA HandLetsGo ==
  ASSUME PipelineType, NEW w \in Worker, UNCHANGED buffer, Release(w)
  PROVE  InHand \subseteq InHand' \cup {worker[w].event}
BY DEF InHand, Release, PipelineType

LEMMA VanishedFinite ==
  ASSUME PipelineType
  PROVE  IsFiniteSet(Vanished) /\ Cardinality(Vanished) \in Nat
<1>1. Vanished \in SUBSET Event
  BY DEF PipelineType, Vanished
<1>2. QED
  BY <1>1, FS_Subset, FS_CardinalityType, PipelineAssumption

LEMMA RoomIsNat == BufferSize + Cardinality(Worker) \in Nat
BY FS_CardinalityType, PipelineAssumption

(* No event vanishes unless a stop or a refusal pays for it.               *)
LEMMA LossStays ==
  ASSUME PipelineType, PipelineType', BoundedLoss,
         Vanished' \subseteq Vanished, UNCHANGED <<stops, refused, abandoned>>
  PROVE  BoundedLoss'
<1>1. Cardinality(Vanished') <= Cardinality(Vanished) /\ Cardinality(Vanished') \in Nat
  BY VanishedFinite, FS_Subset, FS_CardinalityType
<1>2. stops' * (BufferSize + Cardinality(Worker)) = stops * (BufferSize + Cardinality(Worker))
  OBVIOUS
<1> DEFINE paid == stops * (BufferSize + Cardinality(Worker))
<1>3. paid \in Int
  BY RoomIsNat DEF PipelineType
<1> HIDE DEF paid
<1>4. Cardinality(Vanished) <= paid + refused
  BY DEF BoundedLoss, paid
<1>5. Cardinality(Vanished') <= paid + refused'
  BY <1>1, <1>3, <1>4, VanishedFinite DEF PipelineType
<1>6. QED
  BY <1>2, <1>5 DEF BoundedLoss, paid

LEMMA LossByRefusal ==
  ASSUME PipelineType, PipelineType', BoundedLoss, NEW e,
         Vanished' \subseteq Vanished \cup {e}, refused' = refused + 1, UNCHANGED stops,
         abandoned' = abandoned \cup {e}
  PROVE  BoundedLoss'
<1>1. IsFiniteSet(Vanished \cup {e}) /\ Cardinality(Vanished \cup {e}) <= Cardinality(Vanished) + 1
  <2>1. CASE e \in Vanished
    <3>1. Vanished \cup {e} = Vanished
      BY <2>1
    <3>2. Cardinality(Vanished) <= Cardinality(Vanished) + 1
      BY VanishedFinite
    <3>3. QED
      BY <3>1, <3>2, VanishedFinite
  <2>2. CASE e \notin Vanished
    <3>1. IsFiniteSet(Vanished) /\ Cardinality(Vanished) \in Nat
      BY VanishedFinite
    <3>2. /\ IsFiniteSet(Vanished \cup {e})
          /\ Cardinality(Vanished \cup {e}) = Cardinality(Vanished) + 1
      BY <2>2, <3>1, FS_AddElement
    <3>3. QED
      BY <3>1, <3>2
  <2>3. QED
    BY <2>1, <2>2
<1>2. Cardinality(Vanished') <= Cardinality(Vanished) + 1 /\ Cardinality(Vanished') \in Nat
  <2>1. Cardinality(Vanished') <= Cardinality(Vanished \cup {e})
    BY <1>1, FS_Subset
  <2>2. Cardinality(Vanished') \in Nat /\ Cardinality(Vanished \cup {e}) \in Nat
    BY <1>1, FS_Subset, FS_CardinalityType
  <2>3. QED
    BY <1>1, <2>1, <2>2, VanishedFinite
<1> DEFINE paid == stops * (BufferSize + Cardinality(Worker))
<1>3. paid \in Int
  BY RoomIsNat DEF PipelineType
<1> HIDE DEF paid
<1>4. Cardinality(Vanished) <= paid + refused
  BY DEF BoundedLoss, paid
<1>5. Cardinality(Vanished') <= paid + refused'
  BY <1>2, <1>3, <1>4, VanishedFinite DEF PipelineType
<1>6. QED
  BY <1>5 DEF BoundedLoss, paid

(* The buffer and the workers hold no more than there is room for.         *)
LEMMA HandHasRoom ==
  ASSUME PipelineInv
  PROVE  IsFiniteSet(InHand) /\ Cardinality(InHand) <= BufferSize + Cardinality(Worker)
<1> USE DEF PipelineInv, PipelineType
<1> DEFINE busy == {v \in Worker : worker[v].at # "free"}
           waiting == {buffer[i] : i \in DOMAIN buffer}
           atWork == {worker[w].event : w \in busy}
           holds == [w \in busy |-> worker[w].event]
           slots == [i \in DOMAIN buffer |-> buffer[i]]
<1>1. IsFiniteSet(waiting) /\ Cardinality(waiting) <= BufferSize
  <2>1. DOMAIN buffer = 1..Len(buffer) /\ Len(buffer) \in Nat
    OBVIOUS
  <2>2. IsFiniteSet(DOMAIN buffer) /\ Cardinality(DOMAIN buffer) <= BufferSize
    <3> DEFINE size == Len(buffer)
    <3> HIDE DEF size
    <3>1. size \in Nat /\ size <= BufferSize /\ DOMAIN buffer = 1..size
      BY <2>1 DEF size
    <3>2. IsFiniteSet(1..size) /\ Cardinality(1..size) = IF 1 > size THEN 0 ELSE size - 1 + 1
      BY <3>1, FS_Interval
    <3>3. Cardinality(1..size) <= size
      <4>1. CASE 1 > size
        BY <4>1, <3>1, <3>2
      <4>2. CASE ~(1 > size)
        <5>1. Cardinality(1..size) = size - 1 + 1
          BY <4>2, <3>2
        <5>2. QED
          BY <5>1, <3>1
      <4>3. QED
        BY <4>1, <4>2
    <3>4. Cardinality(1..size) \in Nat
      BY <3>2, FS_CardinalityType
    <3>5. QED
      BY <3>1, <3>2, <3>3, <3>4, PipelineAssumption
  <2>3. slots \in Surjection(DOMAIN buffer, waiting)
    BY DEF Surjection
  <2>4. QED
    BY <2>2, <2>3, FS_Surjection, FS_CardinalityType, PipelineAssumption
<1>2. IsFiniteSet(atWork) /\ Cardinality(atWork) <= Cardinality(Worker)
  <2>1. IsFiniteSet(busy) /\ Cardinality(busy) <= Cardinality(Worker)
    BY FS_Subset, PipelineAssumption
  <2>2. holds \in Surjection(busy, atWork)
    BY DEF Surjection
  <2>3. QED
    BY <2>1, <2>2, FS_Surjection, FS_CardinalityType, PipelineAssumption
<1>3. InHand = waiting \cup atWork
  BY DEF InHand
<1> HIDE DEF busy, waiting, atWork, holds, slots
<1>4. /\ IsFiniteSet(waiting \cup atWork)
      /\ Cardinality(waiting \cup atWork)
         = Cardinality(waiting) + Cardinality(atWork) - Cardinality(waiting \cap atWork)
  BY <1>1, <1>2, FS_Union
<1>5. /\ Cardinality(waiting) \in Nat /\ Cardinality(atWork) \in Nat
      /\ Cardinality(waiting \cap atWork) \in Nat /\ Cardinality(Worker) \in Nat
  <2>1. IsFiniteSet(waiting \cap atWork)
    BY <1>1, FS_Subset
  <2>2. QED
    BY <2>1, <1>1, <1>2, FS_CardinalityType, PipelineAssumption
<1>6. QED
  BY <1>1, <1>2, <1>3, <1>4, <1>5, PipelineAssumption

LEMMA LossByStop ==
  ASSUME PipelineInv, PipelineType', BoundedLoss, Stop
  PROVE  BoundedLoss'
<1>1. /\ Vanished' \subseteq Vanished \cup InHand /\ stops' = stops + 1 /\ refused' = refused
      /\ abandoned' = abandoned \cup InHand
  BY DEF Stop, Vanished, outcome
<1> DEFINE room == BufferSize + Cardinality(Worker)
<1>2. PipelineType /\ room \in Nat
  BY RoomIsNat DEF PipelineInv
<1>3. IsFiniteSet(InHand) /\ Cardinality(InHand) <= room
  BY HandHasRoom
<1>4. Cardinality(Vanished) <= stops * room + refused
  BY DEF BoundedLoss
<1> HIDE DEF room
<1>5. Cardinality(InHand) \in Nat /\ IsFiniteSet(Vanished) /\ Cardinality(Vanished) \in Nat
  BY <1>2, <1>3, FS_CardinalityType, VanishedFinite
<1>6. /\ IsFiniteSet(Vanished \cup InHand)
      /\ Cardinality(Vanished \cup InHand)
         = Cardinality(Vanished) + Cardinality(InHand) - Cardinality(Vanished \cap InHand)
      /\ Cardinality(Vanished \cap InHand) \in Nat
  <2>1. IsFiniteSet(Vanished \cap InHand)
    BY <1>5, FS_Subset
  <2>2. QED
    BY <2>1, <1>3, <1>5, FS_Union, FS_CardinalityType
<1>7. Cardinality(Vanished') <= Cardinality(Vanished \cup InHand) /\ Cardinality(Vanished') \in Nat
  BY <1>1, <1>6, FS_Subset, FS_CardinalityType
<1> DEFINE paid == stops * room
<1>8. paid \in Nat /\ (stops + 1) * room = paid + room
  <2>1. stops \in Nat
    BY <1>2 DEF PipelineType
  <2>2. QED
    BY <2>1, <1>2
<1>9. Cardinality(Vanished) <= paid + refused
  BY <1>4
<1> HIDE DEF paid
<1>10. Cardinality(Vanished') <= paid + room + refused
  BY <1>2, <1>3, <1>5, <1>6, <1>7, <1>8, <1>9 DEF PipelineType
<1>11. Cardinality(Vanished') <= stops' * room + refused'
  BY <1>1, <1>8, <1>10
<1>12. Vanished \subseteq abandoned
  BY DEF BoundedLoss
<1>13. QED
  BY <1>1, <1>11, <1>12 DEF BoundedLoss, room

LEMMA LossStep == PipelineInv /\ PipelineInv' /\ BoundedLoss /\ [PipelineNext]_pipelineVars => BoundedLoss'
<1> SUFFICES ASSUME PipelineInv, PipelineInv', BoundedLoss, [PipelineNext]_pipelineVars
             PROVE  BoundedLoss'
  OBVIOUS
<1>0. PipelineType /\ PipelineType'
  BY DEF PipelineInv
<1>1. ASSUME NEW e \in Event, Fetch(e) PROVE BoundedLoss'
  <2>1. \A x \in InHand \cup {e} : x \in InHand'
    <3>1. buffer' = Append(buffer, e) /\ worker' = worker
      BY <1>1 DEF Fetch, Submit
    <3>2. \A i \in DOMAIN buffer : i \in DOMAIN buffer' /\ buffer'[i] = buffer[i]
      BY <3>1, <1>0 DEF PipelineType
    <3>3. Len(buffer') \in DOMAIN buffer' /\ buffer'[Len(buffer')] = e
      BY <3>1, <1>0 DEF PipelineType
    <3>4. QED
      BY <3>1, <3>2, <3>3 DEF InHand
  <2>2. Vanished' \subseteq Vanished
    BY <1>1, <2>1 DEF Fetch, Vanished, outcome
  <2>3. QED
    BY <1>0, <1>1, <2>2, LossStays DEF Fetch
<1>2. ASSUME NEW w \in Worker, WorkerRuns(w) PROVE BoundedLoss'
  <2> DEFINE it == worker[w].event
  <2>1. CASE Take(w)
    <3>1. buffer # <<>> /\ buffer' = Tail(buffer) /\ worker[w].at = "free"
      BY <2>1 DEF Take
    <3>2. /\ worker'[w].at = "check" /\ worker'[w].event = Head(buffer)
          /\ \A v \in Worker : v # w => worker'[v] = worker[v]
      BY <2>1, <1>0 DEF Take, PipelineType
    <3>3. \A i \in DOMAIN buffer : \/ buffer[i] = Head(buffer)
                                   \/ i - 1 \in DOMAIN buffer' /\ buffer'[i - 1] = buffer[i]
      BY <3>1, <1>0 DEF PipelineType
    <3>4. InHand \subseteq InHand'
      <4>1. ASSUME NEW i \in DOMAIN buffer PROVE buffer[i] \in InHand'
        BY <3>2, <3>3 DEF InHand
      <4>2. ASSUME NEW v \in Worker, worker[v].at # "free" PROVE worker[v].event \in InHand'
        BY <3>1, <3>2, <4>2 DEF InHand
      <4>3. QED
        BY <4>1, <4>2 DEF InHand
    <3>5. Vanished' \subseteq Vanished
      BY <2>1, <3>4 DEF Take, Vanished, outcome
    <3>6. QED
      BY <1>0, <2>1, <3>5, LossStays DEF Take, mishaps
  <2>2. ASSUME UNCHANGED <<acked, buffer, stops, refused, abandoned>>,
               \/ InHand \subseteq InHand'
               \/ InHand \subseteq InHand' \cup {it} /\ it \in handled' \cup processed' \cup dlq',
               handled \subseteq handled', processed \subseteq processed', dlq \subseteq dlq'
        PROVE  BoundedLoss'
    <3>1. Vanished' \subseteq Vanished
      BY <2>2 DEF Vanished
    <3>2. QED
      BY <1>0, <2>2, <3>1, LossStays
  <2>3. ASSUME NEW there \in Stations \ {"free"}, Step(w, there), UNCHANGED buffer
        PROVE  InHand \subseteq InHand'
    BY <1>0, <2>3, HandStays DEF Step, PipelineType
  <2>4. ASSUME Release(w), UNCHANGED buffer
        PROVE  InHand \subseteq InHand' \cup {it}
    BY <1>0, <2>4, HandLetsGo
  <2> USE DEF arrived, outcome, mishaps
  <2>5. CASE Check(w)
    BY <2>2, <2>3, <2>4, <2>5 DEF Check, Stations
  <2>6. CASE LoadCircuit(w) \/ LoadLastFailure(w) \/ SwapToHalfOpen(w)
    BY <2>2, <2>3, <2>6 DEF LoadCircuit, LoadLastFailure, SwapToHalfOpen, Stations
  <2>7. CASE Handle(w)
    BY <2>2, <2>3, <2>7 DEF Handle, Stations
  <2>8. CASE StoreLastFailure(w)
    BY <2>2, <2>3, <2>8 DEF StoreLastFailure, Stations
  <2>9. CASE LoadFailures(w)
    BY <2>2, <2>3, <2>9 DEF LoadFailures, Stations
  <2>10. CASE StoreOpen(w)
    BY <2>2, <2>3, <2>10 DEF StoreOpen, Stations
  <2>11. CASE Again(w)
    <3>1. InHand \subseteq InHand'
      <4>1. CASE worker[w].attempt < Retries
        <5>1. PICK n : worker' = [worker EXCEPT ![w].at = "enter", ![w].attempt = n]
          BY <4>1, <2>11 DEF Again
        <5>2. /\ worker'[w].at = "enter" /\ worker'[w].event = worker[w].event
              /\ \A v \in Worker : v # w => worker'[v] = worker[v]
          BY <5>1, <1>0 DEF PipelineType
        <5>3. QED
          BY <5>2, <1>0, <2>11, HandStays DEF Again
      <4>2. CASE ~(worker[w].attempt < Retries)
        BY <4>2, <2>3, <2>11 DEF Again, Stations
      <4>3. QED
        BY <4>1, <4>2
    <3>2. QED
      BY <2>2, <2>11, <3>1 DEF Again
  <2>12. CASE StoreNoFailures(w)
    BY <2>2, <2>3, <2>12 DEF StoreNoFailures, Stations
  <2>13. CASE StoreClosed(w)
    BY <2>2, <2>3, <2>13 DEF StoreClosed, Stations
  <2>14. CASE MarkProcessed(w)
    <3>1. it \in handled
      BY <2>14 DEF MarkProcessed, PipelineInv
    <3>2. QED
      BY <2>2, <2>4, <2>14, <3>1 DEF MarkProcessed
  <2>15. CASE PublishDLQ(w)
    <3>1. InHand \subseteq InHand' \cup {it}
      BY <2>4, <2>15 DEF PublishDLQ
    <3>2. CASE dlq' = dlq \cup {it} /\ UNCHANGED <<refused, abandoned>>
      BY <2>2, <2>15, <3>1, <3>2 DEF PublishDLQ
    <3>3. CASE refused' = refused + 1 /\ abandoned' = abandoned \cup {it} /\ UNCHANGED dlq
      <4>1. Vanished' \subseteq Vanished \cup {it}
        BY <2>15, <3>1, <3>3 DEF PublishDLQ, Vanished
      <4>2. QED
        BY <1>0, <2>15, <3>3, <4>1, LossByRefusal DEF PublishDLQ
    <3>4. QED
      BY <2>15, <3>2, <3>3 DEF PublishDLQ
  <2>16. QED
    BY <1>2, <2>1, <2>5, <2>6, <2>7, <2>8, <2>9, <2>10, <2>11, <2>12, <2>13,
       <2>14, <2>15 DEF WorkerRuns
<1>3. CASE Cool
  <2>1. Vanished' = Vanished
    BY <1>3 DEF Cool, Vanished, InHand, arrived, outcome
  <2>2. QED
    BY <1>0, <1>3, <2>1, LossStays DEF Cool, mishaps
<1>4. CASE Stop
  BY <1>0, <1>4, LossByStop
<1>5. CASE UNCHANGED pipelineVars
  BY <1>5 DEF pipelineVars, BoundedLoss, Vanished, InHand
<1>6. QED
  BY <1>1, <1>2, <1>3, <1>4, <1>5 DEF PipelineNext

(* What a stop or a refusal can cost: every acknowledged event is held,    *)
(* handled or in the dead letter queue, up to a buffer and one event per   *)
(* worker for each stop and one for each failure of the queue.             *)
THEOREM LossIsBounded == PipelineSpec => []BoundedLoss
<1>1. PipelineInit => BoundedLoss
  <2> SUFFICES ASSUME PipelineInit PROVE BoundedLoss
    OBVIOUS
  <2>1. Vanished = {} /\ stops = 0 /\ refused = 0
    BY DEF PipelineInit, Vanished
  <2>2. 0 * (BufferSize + Cardinality(Worker)) + 0 = 0
    BY RoomIsNat
  <2>3. QED
    BY <2>1, <2>2, FS_EmptySet DEF BoundedLoss
<1>2. PipelineInv /\ PipelineInv' /\ BoundedLoss /\ [PipelineNext]_pipelineVars => BoundedLoss'
  BY LossStep
<1>3. QED
  BY PipelineInvariant, <1>1, <1>2, PTL DEF PipelineSpec

-----------------------------------------------------------------------------
(* Chat hub.  The queue holds the last numbers in order, so everything     *)
(* heard is older; who is in the audience of a queued message is in its    *)
(* room and has no leave waiting.                                          *)

ChatType ==
  /\ rooms \in [Room -> SUBSET Peer]
  /\ joins \in Seq(Peer) /\ leaves \in Seq(Peer) /\ messages \in Seq(Nat)
  /\ peer \in [Peer -> {"new", "here", "gone"}] /\ roomOf \in [Peer -> Room]
  /\ outbox \in [Peer -> Nat] /\ chats \in Nat
  /\ said \in Seq(Room) /\ Len(said) = chats
  /\ audience \in Seq(SUBSET Peer) /\ Len(audience) = chats
  /\ heard \in [Peer -> Seq(Nat)]
  /\ skipped \in [Peer -> SUBSET Nat]

Broadcasted == chats - Len(messages)

ChatInv ==
  /\ ChatType
  /\ Broadcasted \in Nat
  /\ \A i \in DOMAIN messages : messages[i] = Broadcasted + i
  /\ \A c \in Peer : \A i \in DOMAIN heard[c] : heard[c][i] \in 1..Broadcasted
  /\ \A r \in Room : \A c \in rooms[r] : r = roomOf[c]
  /\ \A i \in DOMAIN leaves : peer[leaves[i]] = "gone"
  /\ \A n \in 1..chats : n > Broadcasted => \A c \in audience[n] : c \in rooms[said[n]] /\ peer[c] = "here"
  /\ MembersHearTheRoom

LEMMA ChatStart == ChatInit => ChatInv
BY DEF ChatInit, ChatInv, ChatType, Broadcasted, MembersHearTheRoom, Queued

LEMMA QueuedOnes ==
  ASSUME ChatInv, NEW n \in 1..chats
  PROVE  Queued(n) <=> n > Broadcasted
<1>1. /\ messages \in Seq(Nat) /\ DOMAIN messages = 1..Len(messages) /\ Len(messages) \in Nat
      /\ chats \in Nat /\ Broadcasted \in Nat /\ Broadcasted = chats - Len(messages)
  BY DEF ChatInv, ChatType, Broadcasted
<1>2. ASSUME n > Broadcasted PROVE Queued(n)
  <2>1. n - Broadcasted \in DOMAIN messages
    BY <1>1, <1>2
  <2>2. messages[n - Broadcasted] = n
    BY <1>1, <2>1 DEF ChatInv
  <2>3. QED
    BY <2>1, <2>2 DEF Queued
<1>3. ASSUME Queued(n) PROVE n > Broadcasted
  BY <1>1, <1>3 DEF ChatInv, Queued
<1>4. QED
  BY <1>2, <1>3

\* The same after a step, for those whose parts of the invariant are known.
LEMMA QueuedNext ==
  ASSUME messages' \in Seq(Nat), chats' \in Nat, Broadcasted' \in Nat,
         \A i \in DOMAIN messages' : messages'[i] = Broadcasted' + i,
         NEW n \in 1..chats'
  PROVE  Queued(n)' <=> n > Broadcasted'
<1>1. /\ DOMAIN messages' = 1..Len(messages') /\ Len(messages') \in Nat
      /\ Broadcasted' = chats' - Len(messages')
  BY DEF Broadcasted
<1>2. ASSUME n > Broadcasted' PROVE Queued(n)'
  <2>1. n - Broadcasted' \in DOMAIN messages'
    BY <1>1, <1>2
  <2>2. messages'[n - Broadcasted'] = n
    BY <1>1, <2>1
  <2>3. QED
    BY <2>1, <2>2 DEF Queued
<1>3. ASSUME Queued(n)' PROVE n > Broadcasted'
  BY <1>1, <1>3 DEF Queued
<1>4. QED
  BY <1>2, <1>3

\* Steps that leave messages and what was heard alone.
LEMMA ChatQuiet ==
  ASSUME ChatInv, ChatType', UNCHANGED <<messages, chats, heard, skipped, said, roomOf>>,
         \A n \in 1..chats : audience'[n] \subseteq audience[n] /\ (n <= Broadcasted => audience'[n] = audience[n]),
         \A r \in Room : \A c \in rooms'[r] : r = roomOf[c],
         \A i \in DOMAIN leaves' : peer'[leaves'[i]] = "gone",
         \A n \in 1..chats : n > Broadcasted => \A c \in audience'[n] : c \in rooms'[said[n]] /\ peer'[c] = "here"
  PROVE  ChatInv'
<1>1. Broadcasted' = Broadcasted /\ \A n \in 1..chats : Queued(n)' <=> Queued(n)
  BY DEF Broadcasted, Queued
<1>2. MembersHearTheRoom'
  BY <1>1, QueuedOnes DEF MembersHearTheRoom, ChatInv
<1>3. QED
  BY <1>1, <1>2 DEF ChatInv

LEMMA ChatStep == ChatInv /\ [ChatNext]_chatVars => ChatInv'
<1> SUFFICES ASSUME ChatInv, [ChatNext]_chatVars PROVE ChatInv'
  OBVIOUS
<1> USE DEF chatHistory
<1>1. ASSUME NEW c \in Peer, Join(c) PROVE ChatInv'
  <2> USE <1>1 DEF Join
  <2>1. ChatType'
    BY DEF ChatInv, ChatType
  <2>2. \A d \in Peer : peer[d] \in {"here", "gone"} => peer'[d] = peer[d]
    BY DEF ChatInv, ChatType
  <2>3. \A n \in 1..chats : audience[n] \subseteq Peer
    BY DEF ChatInv, ChatType
  <2>4. \A i \in DOMAIN leaves : leaves[i] \in Peer
    BY DEF ChatInv, ChatType
  <2>5. QED
    BY <2>1, <2>2, <2>3, <2>4, ChatQuiet DEF ChatInv
<1>2. ASSUME NEW c \in Peer, Say(c) PROVE ChatInv'
  <2> USE <1>2 DEF Say
  <2> DEFINE there == {d \in rooms[roomOf[c]] : peer[d] = "here"}
  <2>1. /\ chats' = chats + 1 /\ messages' = Append(messages, chats + 1) /\ said' = Append(said, roomOf[c])
        /\ audience' = Append(audience, there) /\ UNCHANGED <<rooms, joins, leaves, peer, roomOf, outbox, heard, skipped>>
    OBVIOUS
  <2>2. /\ messages \in Seq(Nat) /\ chats \in Nat /\ roomOf[c] \in Room /\ there \in SUBSET Peer
        /\ said \in Seq(Room) /\ audience \in Seq(SUBSET Peer) /\ Len(said) = chats /\ Len(audience) = chats
        /\ Broadcasted \in Nat
    BY DEF ChatInv, ChatType
  <2> HIDE DEF there
  <2>3. /\ said' \in Seq(Room) /\ Len(said') = chats + 1 /\ audience' \in Seq(SUBSET Peer) /\ Len(audience') = chats + 1
        /\ messages' \in Seq(Nat) /\ Len(messages') = Len(messages) + 1
        /\ said'[chats + 1] = roomOf[c] /\ audience'[chats + 1] = there
        /\ \A n \in 1..chats : said'[n] = said[n] /\ audience'[n] = audience[n]
    BY <2>1, <2>2
  <2>4. ChatType'
    BY <2>1, <2>2, <2>3 DEF ChatInv, ChatType
  <2>5. Broadcasted' = Broadcasted
    BY <2>1, <2>2, <2>3 DEF Broadcasted
  <2>6. \A i \in DOMAIN messages' : messages'[i] = Broadcasted' + i
    <3>1. \A i \in 1..Len(messages) : messages'[i] = messages[i] /\ messages[i] = Broadcasted + i
      BY <2>1, <2>2 DEF ChatInv
    <3>2. messages'[Len(messages) + 1] = chats + 1 /\ chats + 1 = Broadcasted + (Len(messages) + 1)
      BY <2>1, <2>2 DEF Broadcasted
    <3>3. DOMAIN messages' = 1..(Len(messages) + 1) /\ Len(messages) \in Nat
      BY <2>2, <2>3
    <3>4. ASSUME NEW i \in 1..(Len(messages) + 1)
          PROVE  messages'[i] = Broadcasted + i
      <4>1. i \in 1..Len(messages) \/ i = Len(messages) + 1
        BY <3>3
      <4>2. QED
        BY <3>1, <3>2, <4>1
    <3>5. QED
      BY <2>5, <3>3, <3>4
  <2>7. \A n \in 1..chats' : Queued(n)' <=> n > Broadcasted
    BY <2>1, <2>2, <2>3, <2>5, <2>6, QueuedNext
  <2>8. Broadcasted <= chats
    BY <2>2 DEF Broadcasted
  <2>9. \A n \in 1..chats' : n > Broadcasted => \A d \in audience'[n] : d \in rooms'[said'[n]] /\ peer'[d] = "here"
    <3>1. ASSUME NEW n \in 1..chats', n > Broadcasted, NEW d \in audience'[n]
          PROVE  d \in rooms'[said'[n]] /\ peer'[d] = "here"
      <4>1. CASE n = chats + 1
        BY <2>1, <2>3, <3>1, <4>1 DEF there
      <4>2. CASE n # chats + 1
        <5>1. n \in 1..chats
          BY <2>1, <2>2, <4>2
        <5>2. QED
          BY <2>1, <2>3, <3>1, <5>1 DEF ChatInv
      <4>3. QED
        BY <4>1, <4>2
    <3>2. QED
      BY <3>1
  <2>10. \A d \in Peer : \A i \in DOMAIN heard[d] : heard[d][i] \in 1..Broadcasted /\ heard[d][i] \in 1..chats
    BY <2>2, <2>8 DEF ChatInv
  <2>11. MembersHearTheRoom'
    <3>1. ASSUME NEW n \in 1..chats', ~Queued(n)', NEW d \in audience'[n]
          PROVE  n \in skipped'[d] \/ \E i \in DOMAIN heard'[d] : heard'[d][i] = n
      <4>1. n \in 1..chats /\ ~(n > Broadcasted)
        BY <2>1, <2>2, <2>7, <2>8, <3>1
      <4>2. ~Queued(n) /\ d \in audience[n]
        BY <2>3, <3>1, <4>1, QueuedOnes
      <4>3. QED
        BY <2>1, <4>1, <4>2 DEF ChatInv, MembersHearTheRoom
    <3>2. ASSUME NEW d \in Peer, NEW i \in DOMAIN heard'[d] PROVE said'[heard'[d][i]] = roomOf'[d]
      <4>1. i \in DOMAIN heard[d] /\ heard'[d][i] = heard[d][i] /\ roomOf'[d] = roomOf[d]
        BY <2>1, <3>2
      <4>2. heard[d][i] \in 1..chats /\ said[heard[d][i]] = roomOf[d]
        BY <2>10, <4>1 DEF ChatInv, MembersHearTheRoom
      <4>3. QED
        BY <2>3, <4>1, <4>2
    <3>3. \A d \in Peer : \A i, j \in DOMAIN heard'[d] : i < j => heard'[d][i] < heard'[d][j]
      BY <2>1 DEF ChatInv, MembersHearTheRoom
    <3>4. QED
      BY <3>1, <3>2, <3>3 DEF MembersHearTheRoom
  <2>12. QED
    BY <2>1, <2>2, <2>4, <2>5, <2>6, <2>9, <2>10, <2>11 DEF ChatInv
<1>3. ASSUME NEW c \in Peer, Leave(c) PROVE ChatInv'
  <2> USE <1>3 DEF Leave
  <2>1. /\ leaves' = Append(leaves, c) /\ peer' = [peer EXCEPT ![c] = "gone"]
        /\ UNCHANGED <<rooms, joins, messages, roomOf, outbox, chats, heard, skipped, said>>
    OBVIOUS
  <2>2. /\ DOMAIN audience = 1..chats /\ chats \in Nat
        /\ \A n \in 1..chats : audience'[n] = IF Queued(n) THEN audience[n] \ {c} ELSE audience[n]
    BY DEF Queued, ChatInv, ChatType
  <2>3. \A n \in 1..chats : audience[n] \in SUBSET Peer
    BY DEF ChatInv, ChatType
  <2>4. audience' \in Seq(SUBSET Peer) /\ Len(audience') = chats
    <3>1. audience' \in [1..chats -> SUBSET Peer]
      BY <2>2, <2>3
    <3>2. QED
      BY <2>2, <3>1, SeqDef
  <2>5. ChatType'
    BY <2>1, <2>4 DEF ChatInv, ChatType
  <2>6. \A n \in 1..chats : audience'[n] \subseteq audience[n] /\ (n <= Broadcasted => audience'[n] = audience[n])
    <3>1. \A n \in 1..chats : n <= Broadcasted => ~Queued(n)
      BY <2>2, QueuedOnes DEF ChatInv
    <3>2. QED
      BY <2>2, <3>1
  <2>7. \A i \in DOMAIN leaves' : peer'[leaves'[i]] = "gone"
    BY <2>1 DEF ChatInv, ChatType
  <2>8. \A n \in 1..chats : n > Broadcasted => \A d \in audience'[n] : d \in rooms'[said[n]] /\ peer'[d] = "here"
    <3>1. ASSUME NEW n \in 1..chats, n > Broadcasted, NEW d \in audience'[n]
          PROVE  d \in rooms'[said[n]] /\ peer'[d] = "here"
      <4>1. d \in audience[n] \ {c} /\ d \in Peer
        BY <2>2, <2>3, <3>1, QueuedOnes
      <4>2. QED
        BY <2>1, <3>1, <4>1 DEF ChatInv, ChatType
    <3>2. QED
      BY <3>1
  <2>9. QED
    BY <2>1, <2>5, <2>6, <2>7, <2>8, ChatQuiet DEF ChatInv
<1>4. CASE TakeJoin
  <2> USE <1>4 DEF TakeJoin
  <2>1. Head(joins) \in Peer /\ joins' \in Seq(Peer)
    BY DEF ChatInv, ChatType
  <2>2. ChatType'
    BY <2>1 DEF ChatInv, ChatType
  <2>3. /\ \A r \in Room : \A c \in rooms'[r] : r = roomOf[c]
        /\ \A r \in Room : rooms[r] \subseteq rooms'[r]
    BY <2>1 DEF ChatInv, ChatType
  <2>4. \A n \in 1..chats : said[n] \in Room
    BY DEF ChatInv, ChatType
  <2>5. QED
    BY <2>2, <2>3, <2>4, ChatQuiet DEF ChatInv
<1>5. CASE TakeLeave
  <2> USE <1>5 DEF TakeLeave
  <2>1. Head(leaves) \in Peer /\ leaves' \in Seq(Peer) /\ peer[Head(leaves)] = "gone"
        /\ \A i \in DOMAIN leaves' : peer[leaves'[i]] = "gone"
    BY DEF ChatInv, ChatType
  <2>2. ChatType'
    BY <2>1 DEF ChatInv, ChatType
  <2>3. \A n \in 1..chats : said[n] \in Room
    BY DEF ChatInv, ChatType
  <2>4. QED
    BY <2>1, <2>2, <2>3, ChatQuiet DEF ChatInv
<1>6. CASE Broadcast
  <2> DEFINE n == Head(messages)
             sent == {c \in rooms[said[n]] : outbox[c] < SendSize}
  <2>1. /\ messages # <<>> /\ messages' = Tail(messages)
        /\ outbox' = [c \in Peer |-> IF c \in sent THEN outbox[c] + 1 ELSE outbox[c]]
        /\ heard' = [c \in Peer |-> IF c \in sent THEN Append(heard[c], n) ELSE heard[c]]
        /\ skipped' = [c \in Peer |-> IF c \in rooms[said[n]] \ sent THEN skipped[c] \cup {n} ELSE skipped[c]]
        /\ UNCHANGED <<rooms, joins, leaves, peer, roomOf, chats, said, audience>>
    BY <1>6 DEF Broadcast
  <2>2. messages \in Seq(Nat) /\ chats \in Nat /\ Broadcasted \in Nat /\ Len(messages) \in Nat \ {0}
    BY <2>1 DEF ChatInv, ChatType
  <2>3. n = Broadcasted + 1 /\ n \in 1..chats
    BY <2>1, <2>2 DEF ChatInv, Broadcasted
  <2>4. said[n] \in Room /\ sent \subseteq rooms[said[n]] /\ rooms[said[n]] \subseteq Peer
    BY <2>3 DEF ChatInv, ChatType
  <2> HIDE DEF n, sent
  <2>5. messages' \in Seq(Nat) /\ Len(messages') = Len(messages) - 1
        /\ \A i \in 1..Len(messages') : messages'[i] = messages[i + 1]
    BY <2>1, <2>2
  <2>6. Broadcasted' = n /\ \A i \in DOMAIN messages' : messages'[i] = Broadcasted' + i
    <3>1. Broadcasted' = n
      BY <2>1, <2>2, <2>3, <2>5 DEF Broadcasted
    <3>2. ASSUME NEW i \in 1..Len(messages') PROVE messages'[i] = n + i
      <4>1. i + 1 \in DOMAIN messages /\ i \in Nat
        BY <2>2, <2>5
      <4>2. messages[i + 1] = Broadcasted + (i + 1)
        BY <4>1 DEF ChatInv
      <4>3. QED
        BY <2>2, <2>3, <2>5, <4>1, <4>2
    <3>3. DOMAIN messages' = 1..Len(messages')
      BY <2>5, LenProperties
    <3>4. QED
      BY <3>1, <3>2, <3>3
  <2>7. ChatType'
    <3>1. outbox' \in [Peer -> Nat]
      BY <2>1 DEF ChatInv, ChatType
    <3>2. heard' \in [Peer -> Seq(Nat)]
      BY <2>1, <2>3 DEF ChatInv, ChatType
    <3>3. skipped' \in [Peer -> SUBSET Nat]
      BY <2>1, <2>3 DEF ChatInv, ChatType
    <3>4. QED
      BY <2>1, <2>5, <3>1, <3>2, <3>3 DEF ChatInv, ChatType
  <2>8. \A m \in 1..chats : (Queued(m)' <=> m > n) /\ (Queued(m) <=> m > Broadcasted)
    <3>1. \A m \in 1..chats' : Queued(m)' <=> m > Broadcasted'
      BY <2>1, <2>2, <2>3, <2>5, <2>6, QueuedNext
    <3>2. QED
      BY <2>1, <2>6, <3>1, QueuedOnes
  <2>9. ASSUME NEW c \in Peer
        PROVE  \/ /\ c \in rooms[said[n]] /\ heard'[c] = Append(heard[c], n)
               \/ heard'[c] = heard[c]
    BY <2>1, <2>4
  <2>10. ASSUME NEW c \in Peer, heard'[c] = Append(heard[c], n)
         PROVE  /\ DOMAIN heard'[c] = 1..(Len(heard[c]) + 1) /\ DOMAIN heard[c] = 1..Len(heard[c])
                /\ Len(heard[c]) \in Nat /\ heard'[c][Len(heard[c]) + 1] = n
                /\ \A i \in DOMAIN heard[c] : heard'[c][i] = heard[c][i]
    BY <2>3, <2>10 DEF ChatInv, ChatType
  <2>11. \A c \in Peer : \A i \in DOMAIN heard[c] : heard[c][i] \in 1..Broadcasted
    BY DEF ChatInv
  <2>12. ASSUME NEW c \in Peer
         PROVE  /\ \A i \in DOMAIN heard'[c] : heard'[c][i] \in 1..n /\ said[heard'[c][i]] = roomOf[c]
                /\ \A i, j \in DOMAIN heard'[c] : i < j => heard'[c][i] < heard'[c][j]
    <3>1. CASE heard'[c] = heard[c]
      BY <2>2, <2>3, <2>11, <3>1 DEF ChatInv, MembersHearTheRoom
    <3>2. CASE heard'[c] = Append(heard[c], n) /\ c \in rooms[said[n]]
      <4>1. said[n] = roomOf[c]
        BY <2>4, <3>2 DEF ChatInv
      <4>2. \A i \in DOMAIN heard[c] : heard[c][i] \in 1..Broadcasted /\ said[heard[c][i]] = roomOf[c]
        BY <2>11 DEF ChatInv, MembersHearTheRoom
      <4>3. \A i, j \in DOMAIN heard[c] : i < j => heard[c][i] < heard[c][j]
        BY DEF ChatInv, MembersHearTheRoom
      <4>4. \A i \in DOMAIN heard'[c] : i \in DOMAIN heard[c] \/ i = Len(heard[c]) + 1
        BY <2>10, <3>2
      <4>5. \A i \in DOMAIN heard'[c] : heard'[c][i] \in 1..n /\ said[heard'[c][i]] = roomOf[c]
        BY <2>2, <2>3, <2>10, <3>2, <4>1, <4>2, <4>4
      <4>6. ASSUME NEW i \in DOMAIN heard'[c], NEW j \in DOMAIN heard'[c], i < j
            PROVE  heard'[c][i] < heard'[c][j]
        <5>1. i \in DOMAIN heard[c]
          BY <2>10, <3>2, <4>6
        <5>2. CASE j \in DOMAIN heard[c]
          BY <2>10, <3>2, <4>3, <4>6, <5>1, <5>2
        <5>3. CASE j = Len(heard[c]) + 1
          BY <2>2, <2>3, <2>10, <3>2, <4>2, <5>1, <5>3
        <5>4. QED
          BY <4>4, <5>2, <5>3
      <4>7. QED
        BY <4>5, <4>6
    <3>3. QED
      BY <2>9, <3>1, <3>2
  <2>13. ASSUME NEW m \in 1..chats, ~(m > n), NEW c \in audience[m]
         PROVE  m \in skipped'[c] \/ \E i \in DOMAIN heard'[c] : heard'[c][i] = m
    <3>0. c \in Peer
      BY <2>13 DEF ChatInv, ChatType
    <3>1. CASE m = n
      <4>1. c \in rooms[said[n]]
        BY <2>2, <2>3, <2>13, <3>1 DEF ChatInv
      <4>2. CASE c \in sent
        <5>1. heard'[c] = Append(heard[c], n)
          BY <2>1, <3>0, <4>2
        <5>2. QED
          BY <2>10, <3>0, <3>1, <5>1
      <4>3. CASE c \notin sent
        BY <2>1, <3>0, <3>1, <4>1, <4>3
      <4>4. QED
        BY <4>2, <4>3
    <3>2. CASE m # n
      <4>1. ~Queued(m)
        BY <2>2, <2>3, <2>8, <2>13, <3>2
      <4>2. m \in skipped[c] \/ \E i \in DOMAIN heard[c] : heard[c][i] = m
        BY <2>13, <4>1 DEF ChatInv, MembersHearTheRoom
      <4>3. skipped[c] \subseteq skipped'[c]
        BY <2>1, <3>0
      <4>4. \A i \in DOMAIN heard[c] : i \in DOMAIN heard'[c] /\ heard'[c][i] = heard[c][i]
        BY <2>9, <2>10, <3>0
      <4>5. QED
        BY <4>2, <4>3, <4>4
    <3>3. QED
      BY <3>1, <3>2
  <2>14. MembersHearTheRoom'
    <3>1. /\ \A c \in Peer : \A i \in DOMAIN heard'[c] : said'[heard'[c][i]] = roomOf'[c]
          /\ \A c \in Peer : \A i, j \in DOMAIN heard'[c] : i < j => heard'[c][i] < heard'[c][j]
      BY <2>1, <2>12
    <3>2. ASSUME NEW m \in 1..chats', ~Queued(m)', NEW c \in audience'[m]
          PROVE  m \in skipped'[c] \/ \E i \in DOMAIN heard'[c] : heard'[c][i] = m
      BY <2>1, <2>8, <2>13, <3>2
    <3>3. QED
      BY <3>1, <3>2 DEF MembersHearTheRoom
  <2>15. \A m \in 1..chats : m > n => \A c \in audience[m] : c \in rooms[said[m]] /\ peer[c] = "here"
    BY <2>2, <2>3 DEF ChatInv
  <2>16. /\ Broadcasted' \in Nat
         /\ \A c \in Peer : \A i \in DOMAIN heard'[c] : heard'[c][i] \in 1..Broadcasted'
    BY <2>2, <2>3, <2>6, <2>12
  <2>17. /\ \A m \in 1..chats' : m > Broadcasted' => \A c \in audience'[m] : c \in rooms'[said'[m]] /\ peer'[c] = "here"
         /\ \A r \in Room : \A c \in rooms'[r] : r = roomOf'[c]
         /\ \A i \in DOMAIN leaves' : peer'[leaves'[i]] = "gone"
    BY <2>1, <2>6, <2>15 DEF ChatInv
  <2>18. QED
    BY <2>6, <2>7, <2>14, <2>16, <2>17 DEF ChatInv
<1>7. ASSUME NEW c \in Peer, WriteMessage(c) PROVE ChatInv'
  <2> USE <1>7 DEF WriteMessage
  <2>1. ChatType'
    BY DEF ChatInv, ChatType
  <2>2. QED
    BY <2>1, ChatQuiet DEF ChatInv
<1>8. CASE UNCHANGED chatVars
  BY <1>8, ChatQuiet DEF chatVars, ChatInv, ChatType
<1>9. QED
  BY <1>1, <1>2, <1>3, <1>4, <1>5, <1>6, <1>7, <1>8 DEF ChatNext

\* A member of a room when a message was published, who stays, hears it or has
\* a full channel, and hears what it hears in order and from its room only: the
\* queue is in order, and nobody leaves a room but by its own Leave.
THEOREM MembersAreServed == ChatSpec => []MembersHearTheRoom
<1>1. ChatInv => MembersHearTheRoom
  BY DEF ChatInv
<1>2. QED
  BY ChatStart, ChatStep, <1>1, PTL DEF ChatSpec

-----------------------------------------------------------------------------
(* Crdt.  Only a replica itself counts in its own entry, so of the updates *)
(* of an entry every other replica has seen the first few.  Of two such    *)
(* beginnings one contains the other, which is why the maximum counts      *)
(* their union.                                                            *)

Write == [value: Payload, timestamp: Nat \ {0}]
CrdtUpdate == [kind: {"inc", "dec"}, at: Replica, number: Nat]
          \cup [kind: {"set"}, at: Write, number: Nat]
Own(n, kind, m) == {u \in seen[n] : u.kind = kind /\ u.at = m}
Kinds == {"inc", "dec"}

History ==
  /\ updates \in Nat /\ seen \in [Replica -> SUBSET CrdtUpdate]
  /\ \A n \in Replica : IsFiniteSet(seen[n])
  /\ \A n \in Replica : \A u \in seen[n] : u.number < updates
  /\ \A n, m \in Replica : \A u \in seen[n], v \in seen[m] : u.number = v.number => u = v
  /\ \A n, m \in Replica, kind \in Kinds : \A u \in Own(n, kind, m) :
       /\ u \in seen[m]
       /\ \A v \in Own(m, kind, m) : v.number < u.number => v \in seen[n]

CrdtType ==
  /\ pos \in [Replica -> [Replica -> Nat]] /\ neg \in [Replica -> [Replica -> Nat]]
  /\ register \in [Replica -> [value: Payload \cup {Empty}, timestamp: Nat]]

Counts(n, m) == pos[n][m] = Count(n, "inc", m) /\ neg[n][m] = Count(n, "dec", m)

LastWrite(n) ==
  /\ \A u \in seen[n] : u.kind = "set" => u.at.timestamp <= register[n].timestamp
  /\ register[n].timestamp = 0 \/ \E u \in seen[n] : u.kind = "set" /\ u.at = register[n]

CrdtInv ==
  /\ History
  /\ CrdtType
  /\ \A n, m \in Replica : Counts(n, m)
  /\ \A n \in Replica : LastWrite(n)

LEMMA OwnFinite ==
  ASSUME History, NEW n \in Replica, NEW m, NEW kind
  PROVE  /\ IsFiniteSet(Own(n, kind, m))
         /\ Count(n, kind, m) = Cardinality(Own(n, kind, m))
         /\ Count(n, kind, m) \in Nat
<1>1. Own(n, kind, m) \in SUBSET seen[n] /\ IsFiniteSet(seen[n])
  BY DEF Own, History
<1>2. Count(n, kind, m) = Cardinality(Own(n, kind, m))
  BY DEF Count, Own
<1>3. QED
  BY <1>1, <1>2, FS_Subset, FS_CardinalityType

(* Two replicas have seen beginnings of an entry's updates.                 *)
LEMMA OneContainsTheOther ==
  ASSUME History, NEW n \in Replica, NEW k \in Replica, NEW m \in Replica, NEW kind \in Kinds
  PROVE  Own(n, kind, m) \subseteq Own(k, kind, m) \/ Own(k, kind, m) \subseteq Own(n, kind, m)
<1> SUFFICES ASSUME NEW u \in Own(n, kind, m), u \notin Own(k, kind, m),
                    NEW v \in Own(k, kind, m)
             PROVE  v \in Own(n, kind, m)
  OBVIOUS
<1>1. u \in Own(m, kind, m) /\ v \in Own(m, kind, m)
  BY DEF History, Own
<1>2. u.number \in Nat /\ v.number \in Nat
  BY DEF History, Own, CrdtUpdate
<1>3. CASE u.number < v.number
  BY <1>1, <1>3 DEF History, Own
<1>4. CASE u.number = v.number
  BY <1>4 DEF History, Own
<1>5. CASE v.number < u.number
  BY <1>1, <1>5 DEF History, Own
<1>6. QED
  BY <1>2, <1>3, <1>4, <1>5

LEMMA HistoryGrows ==
  ASSUME History, NEW n \in Replica, NEW kind \in {"inc", "dec", "set"}, NEW what,
         kind \in Kinds => what = n, kind = "set" => what \in Write,
         Seen(n, kind, what)
  PROVE  /\ History'
         /\ [kind |-> kind, at |-> what, number |-> updates] \notin seen[n]
<1> DEFINE it == [kind |-> kind, at |-> what, number |-> updates]
<1>0. it \in CrdtUpdate /\ it.kind = kind /\ it.at = what /\ it.number = updates
  BY DEF CrdtUpdate, Kinds, History
<1>1. /\ updates' = updates + 1
      /\ seen' \in [Replica -> SUBSET CrdtUpdate]
      /\ seen'[n] = seen[n] \cup {it}
      /\ \A m \in Replica : m # n => seen'[m] = seen[m]
  BY <1>0 DEF Seen, History
<1> HIDE DEF it
<1>2. updates' \in Nat /\ \A m \in Replica : \A u \in seen'[m] : u.number < updates'
  BY <1>0, <1>1 DEF History, CrdtUpdate
<1>3. \A m \in Replica : IsFiniteSet(seen'[m])
  BY <1>1, FS_AddElement DEF History
<1>4. \A m \in Replica : \A u \in seen[m] : u.number # it.number
  BY <1>0 DEF History, CrdtUpdate
<1>5. \A k, m \in Replica : \A u \in seen'[k], v \in seen'[m] : u.number = v.number => u = v
  BY <1>1, <1>4 DEF History
<1>6. ASSUME NEW k \in Replica, NEW m \in Replica, NEW kin \in Kinds, NEW u \in Own(k, kin, m)'
      PROVE  /\ u \in seen'[m]
             /\ \A v \in Own(m, kin, m)' : v.number < u.number => v \in seen'[k]
  <2>1. CASE u = it
    <3>1. m = n /\ k = n
      <4>1. m = n
        BY <2>1, <1>0, <1>6 DEF Own
      <4>2. u \notin seen[k]
        BY <2>1, <1>4
      <4>3. QED
        BY <4>1, <4>2, <1>1 DEF Own
    <3>2. QED
      BY <3>1 DEF Own
  <2>2. CASE u # it
    <3>1. u \in Own(k, kin, m)
      BY <2>2, <1>1 DEF Own
    <3>2. u \in seen[m] /\ u.number < updates
      BY <3>1 DEF History, Own
    <3>3. ASSUME NEW v \in Own(m, kin, m)', v.number < u.number
          PROVE  v \in seen'[k]
      <4>1. v # it
        BY <3>2, <3>3, <1>0, <1>1 DEF History, CrdtUpdate
      <4>2. v \in Own(m, kin, m)
        BY <4>1, <1>1, <3>3 DEF Own
      <4>3. v \in seen[k]
        BY <3>1, <3>3, <4>2 DEF History
      <4>4. QED
        BY <4>3, <1>1
    <3>4. QED
      BY <3>2, <3>3, <1>1
  <2>3. QED
    BY <2>1, <2>2
<1>7. QED
  BY <1>1, <1>2, <1>3, <1>4, <1>5, <1>6 DEF History, it

LEMMA HistoryMerges ==
  ASSUME History, NEW n \in Replica, NEW k \in Replica,
         seen' = [seen EXCEPT ![n] = @ \cup seen[k]], UNCHANGED updates
  PROVE  History'
<1>1. /\ seen' \in [Replica -> SUBSET CrdtUpdate]
      /\ seen'[n] = seen[n] \cup seen[k]
      /\ \A m \in Replica : m # n => seen'[m] = seen[m]
  BY DEF History
<1>2. \A m \in Replica : IsFiniteSet(seen'[m])
  BY <1>1, FS_Union DEF History
<1>3. \A m \in Replica : \A u \in seen'[m] : u.number < updates'
  BY <1>1 DEF History
<1>4. \A l, m \in Replica : \A u \in seen'[l], v \in seen'[m] : u.number = v.number => u = v
  BY <1>1 DEF History
<1>5. \A m \in Replica, kind \in Kinds : Own(m, kind, m)' = Own(m, kind, m)
  <2>1. \A kind \in Kinds : Own(k, kind, n) \subseteq Own(n, kind, n)
    BY DEF History, Own
  <2>2. QED
    BY <1>1, <2>1 DEF Own
<1>6. ASSUME NEW l \in Replica, NEW m \in Replica, NEW kind \in Kinds, NEW u \in Own(l, kind, m)'
      PROVE  /\ u \in seen'[m]
             /\ \A v \in Own(m, kind, m)' : v.number < u.number => v \in seen'[l]
  <2>1. u \in Own(l, kind, m) \/ (l = n /\ u \in Own(k, kind, m))
    BY <1>1 DEF Own
  <2>2. PICK j \in Replica : u \in Own(j, kind, m) /\ seen[j] \subseteq seen'[l]
    BY <1>1, <2>1
  <2>3. u \in seen[m] /\ \A v \in Own(m, kind, m) : v.number < u.number => v \in seen[j]
    BY <2>2 DEF History
  <2>4. QED
    BY <1>1, <1>5, <2>2, <2>3
<1>7. QED
  BY <1>1, <1>2, <1>3, <1>4, <1>6 DEF History

LEMMA SetsAreWrites ==
  ASSUME CrdtInv, NEW n \in Replica, NEW u \in seen[n], u.kind = "set"
  PROVE  /\ u.at.timestamp \in Nat /\ u.at.timestamp <= register[n].timestamp
         /\ register[n].timestamp \in Nat
<1>1. u \in [kind: {"set"}, at: Write, number: Nat]
  BY DEF CrdtInv, History, CrdtUpdate
<1>2. u.at \in Write
  BY <1>1
<1>3. QED
  BY <1>2 DEF Write, CrdtInv, CrdtType, LastWrite

LEMMA CountsOneMore ==
  ASSUME CrdtInv, NEW n \in Replica, NEW kind \in Kinds, Seen(n, kind, n),
         NEW l \in Replica, NEW m \in Replica, NEW kin \in Kinds
  PROVE  Count(l, kin, m)' = IF l = n /\ m = n /\ kin = kind
                             THEN Count(l, kin, m) + 1 ELSE Count(l, kin, m)
<1> DEFINE it == [kind |-> kind, at |-> n, number |-> updates]
<1>1. History /\ History' /\ it \notin seen[n]
  BY HistoryGrows DEF CrdtInv, Kinds
<1>2. /\ it.kind = kind /\ it.at = n
      /\ seen'[n] = seen[n] \cup {it}
      /\ \A j \in Replica : j # n => seen'[j] = seen[j]
  BY <1>1 DEF Seen, History
<1>3. /\ IsFiniteSet(Own(l, kin, m)) /\ Count(l, kin, m) = Cardinality(Own(l, kin, m))
      /\ Count(l, kin, m)' = Cardinality(Own(l, kin, m)')
  BY <1>1, OwnFinite DEF Count, Own
<1> HIDE DEF it
<1>4. CASE l = n /\ m = n /\ kin = kind
  <2>1. Own(l, kin, m)' = Own(l, kin, m) \cup {it} /\ it \notin Own(l, kin, m)
    BY <1>1, <1>2, <1>4 DEF Own
  <2>2. Cardinality(Own(l, kin, m) \cup {it}) = Cardinality(Own(l, kin, m)) + 1
    BY <1>3, <2>1, FS_AddElement
  <2>3. QED
    BY <1>3, <1>4, <2>1, <2>2
<1>5. CASE ~(l = n /\ m = n /\ kin = kind)
  <2>1. Own(l, kin, m)' = Own(l, kin, m)
    BY <1>2, <1>5 DEF Own
  <2>2. QED
    BY <1>3, <1>5, <2>1
<1>6. QED
  BY <1>4, <1>5

LEMMA CountStays ==
  ASSUME CrdtInv, NEW n \in Replica, NEW what \in Write, Seen(n, "set", what),
         NEW l \in Replica, NEW m \in Replica, NEW kin \in Kinds
  PROVE  Count(l, kin, m)' = Count(l, kin, m)
<1> DEFINE it == [kind |-> "set", at |-> what, number |-> updates]
<1>1. /\ it.kind = "set" /\ seen'[n] = seen[n] \cup {it}
      /\ \A j \in Replica : j # n => seen'[j] = seen[j]
  BY DEF Seen, CrdtInv, History
<1> HIDE DEF it
<1>2. {u \in seen'[l] : u.kind = kin /\ u.at = m} = {u \in seen[l] : u.kind = kin /\ u.at = m}
  BY <1>1 DEF Kinds
<1>3. QED
  BY <1>2 DEF Count

LEMMA MaximumCountsUnion ==
  ASSUME CrdtInv, NEW n \in Replica, NEW k \in Replica,
         seen' = [seen EXCEPT ![n] = @ \cup seen[k]],
         NEW m \in Replica, NEW kind \in Kinds
  PROVE  /\ Count(n, kind, m)' = IF Count(k, kind, m) > Count(n, kind, m)
                                 THEN Count(k, kind, m) ELSE Count(n, kind, m)
         /\ \A l \in Replica : l # n => Count(l, kind, m)' = Count(l, kind, m)
<1> USE DEF CrdtInv
<1>1. /\ seen'[n] = seen[n] \cup seen[k]
      /\ \A l \in Replica : l # n => seen'[l] = seen[l]
  BY DEF History
<1>2. Own(n, kind, m)' = Own(n, kind, m) \cup Own(k, kind, m)
  BY <1>1 DEF Own
<1>3. Count(n, kind, m)' = Cardinality(Own(n, kind, m) \cup Own(k, kind, m))
  <2>1. Count(n, kind, m)' = Cardinality(Own(n, kind, m)')
    BY DEF Count, Own
  <2>2. QED
    BY <2>1, <1>2
<1>4. /\ Count(n, kind, m) \in Nat /\ Count(k, kind, m) \in Nat
      /\ IsFiniteSet(Own(n, kind, m)) /\ IsFiniteSet(Own(k, kind, m))
      /\ Count(n, kind, m) = Cardinality(Own(n, kind, m))
      /\ Count(k, kind, m) = Cardinality(Own(k, kind, m))
  BY OwnFinite
<1>5. CASE Own(n, kind, m) \subseteq Own(k, kind, m)
  <2>1. Own(n, kind, m) \cup Own(k, kind, m) = Own(k, kind, m)
    BY <1>5
  <2>2. Count(n, kind, m) <= Count(k, kind, m)
    BY <1>4, <1>5, FS_Subset
  <2>3. Count(n, kind, m)' = Count(k, kind, m)
    BY <1>3, <1>4, <2>1
  <2>4. QED
    BY <1>1, <1>4, <2>2, <2>3 DEF Count
<1>6. CASE Own(k, kind, m) \subseteq Own(n, kind, m)
  <2>1. Own(n, kind, m) \cup Own(k, kind, m) = Own(n, kind, m)
    BY <1>6
  <2>2. Count(k, kind, m) <= Count(n, kind, m)
    BY <1>4, <1>6, FS_Subset
  <2>3. Count(n, kind, m)' = Count(n, kind, m)
    BY <1>3, <1>4, <2>1
  <2>4. QED
    BY <1>1, <1>4, <2>2, <2>3 DEF Count
<1>7. QED
  BY <1>5, <1>6, OneContainsTheOther

LEMMA CrdtStep == CrdtInv /\ [CrdtNext]_crdtVars => CrdtInv'
<1> SUFFICES ASSUME CrdtInv, [CrdtNext]_crdtVars
             PROVE  CrdtInv'
  OBVIOUS
<1> USE DEF CrdtInv, CrdtType
<1>1. ASSUME NEW n \in Replica, Increment(n) PROVE CrdtInv'
  <2>1. Seen(n, "inc", n) /\ UNCHANGED <<neg, register>> /\ pos' = [pos EXCEPT ![n][n] = @ + 1]
    BY <1>1 DEF Increment
  <2>2. History'
    BY <2>1, HistoryGrows DEF Kinds
  <2>3. \A l, m \in Replica : Counts(l, m)'
    BY <2>1, CountsOneMore DEF Counts, Kinds
  <2>4. \A l \in Replica : LastWrite(l)'
    BY <2>1 DEF LastWrite, Seen, History
  <2>5. CrdtType'
    BY <2>1
  <2>6. QED
    BY <2>2, <2>3, <2>4, <2>5
<1>2. ASSUME NEW n \in Replica, Decrement(n) PROVE CrdtInv'
  <2>1. Seen(n, "dec", n) /\ UNCHANGED <<pos, register>> /\ neg' = [neg EXCEPT ![n][n] = @ + 1]
    BY <1>2 DEF Decrement
  <2>2. History'
    BY <2>1, HistoryGrows DEF Kinds
  <2>3. \A l, m \in Replica : Counts(l, m)'
    BY <2>1, CountsOneMore DEF Counts, Kinds
  <2>4. \A l \in Replica : LastWrite(l)'
    BY <2>1 DEF LastWrite, Seen, History
  <2>5. CrdtType'
    BY <2>1
  <2>6. QED
    BY <2>2, <2>3, <2>4, <2>5
<1>3. ASSUME NEW n \in Replica, NEW v \in Payload, NEW ts \in 1 .. MaxStamp, SetRegister(n, v, ts)
      PROVE  CrdtInv'
  <2> DEFINE write == [value |-> v, timestamp |-> ts]
             it == [kind |-> "set", at |-> write, number |-> updates]
  <2>1. /\ write \in Write /\ write.timestamp = ts /\ ts \in Nat
        /\ it.kind = "set" /\ it.at = write
    BY CrdtAssumption DEF Write
  <2>2. /\ Seen(n, "set", write) /\ UNCHANGED <<pos, neg>>
        /\ register' = [register EXCEPT ![n] = IF ts > register[n].timestamp THEN write ELSE register[n]]
    BY <1>3 DEF SetRegister
  <2>3. /\ it \in seen'[n] /\ seen'[n] = seen[n] \cup {it}
        /\ \A l \in Replica : l # n => seen'[l] = seen[l]
    BY <2>2 DEF Seen, History
  <2> HIDE DEF write, it
  <2>4. History'
    BY <2>1, <2>2, HistoryGrows DEF Kinds
  <2>5. \A l, m \in Replica : Counts(l, m)'
    BY <2>1, <2>2, CountStays DEF Counts, Kinds
  <2>6. /\ register'[n] = IF ts > register[n].timestamp THEN write ELSE register[n]
        /\ \A l \in Replica : l # n => register'[l] = register[l]
        /\ CrdtType'
    BY <2>1, <2>2 DEF Write
  <2>7. ASSUME NEW l \in Replica PROVE LastWrite(l)'
    <3>1. CASE l # n
      BY <3>1, <2>3, <2>6 DEF LastWrite
    <3>2. CASE l = n /\ ts > register[n].timestamp
      <4>1. \A u \in seen[n] : u.kind = "set" => u.at.timestamp <= ts
        BY <2>1, <3>2, SetsAreWrites
      <4>2. register'[n] = write
        BY <3>2, <2>6
      <4>3. \A u \in seen'[n] : u.kind = "set" => u.at.timestamp <= ts
        BY <2>1, <2>3, <4>1
      <4>4. \E u \in seen'[n] : u.kind = "set" /\ u.at = write
        BY <2>1, <2>3
      <4>5. QED
        BY <2>1, <3>2, <4>2, <4>3, <4>4 DEF LastWrite
    <3>3. CASE l = n /\ ~(ts > register[n].timestamp)
      <4>1. register'[n] = register[n] /\ ts <= register[n].timestamp
        BY <2>1, <2>6, <3>3
      <4>2. /\ \A u \in seen[n] : u.kind = "set" => u.at.timestamp <= register[n].timestamp
            /\ register[n].timestamp = 0 \/ \E u \in seen[n] : u.kind = "set" /\ u.at = register[n]
        BY DEF LastWrite
      <4>3. \A u \in seen'[n] : u.kind = "set" => u.at.timestamp <= register[n].timestamp
        BY <2>1, <2>3, <4>1, <4>2
      <4>4. QED
        BY <2>3, <3>3, <4>1, <4>2, <4>3 DEF LastWrite
    <3>4. QED
      BY <3>1, <3>2, <3>3
  <2>8. QED
    BY <2>4, <2>5, <2>6, <2>7
<1>4. ASSUME NEW n \in Replica, NEW k \in Replica, MergeReplica(n, k) PROVE CrdtInv'
  <2>1. /\ n # k /\ UNCHANGED updates
        /\ seen' = [seen EXCEPT ![n] = @ \cup seen[k]]
        /\ pos' = [pos EXCEPT ![n] = MergeCounts(@, pos[k])]
        /\ neg' = [neg EXCEPT ![n] = MergeCounts(@, neg[k])]
        /\ register' = [register EXCEPT ![n] =
             IF register[k].timestamp > register[n].timestamp THEN register[k] ELSE register[n]]
    BY <1>4 DEF MergeReplica
  <2>2. History'
    BY <2>1, HistoryMerges
  <2>3. /\ \A m \in Replica :
             /\ pos'[n][m] = IF pos[k][m] > pos[n][m] THEN pos[k][m] ELSE pos[n][m]
             /\ neg'[n][m] = IF neg[k][m] > neg[n][m] THEN neg[k][m] ELSE neg[n][m]
        /\ \A l \in Replica : l # n => pos'[l] = pos[l] /\ neg'[l] = neg[l]
    BY <2>1 DEF MergeCounts
  <2>4. \A l, m \in Replica : Counts(l, m)'
    <3> SUFFICES ASSUME NEW l \in Replica, NEW m \in Replica PROVE Counts(l, m)'
      OBVIOUS
    <3>1. Counts(l, m) /\ Counts(n, m) /\ Counts(k, m)
      OBVIOUS
    <3>2. \A kind \in Kinds :
            /\ Count(n, kind, m)' = IF Count(k, kind, m) > Count(n, kind, m)
                                    THEN Count(k, kind, m) ELSE Count(n, kind, m)
            /\ l # n => Count(l, kind, m)' = Count(l, kind, m)
      BY ZenonT(40), <2>1, MaximumCountsUnion
    <3>3. QED
      BY <3>1, <3>2, <2>3 DEF Counts, Kinds
  <2>5. /\ pos' \in [Replica -> [Replica -> Nat]] /\ neg' \in [Replica -> [Replica -> Nat]]
        /\ register' \in [Replica -> [value: Payload \cup {Empty}, timestamp: Nat]]
    BY <2>1 DEF MergeCounts
  <2>6. /\ seen'[n] = seen[n] \cup seen[k]
        /\ \A l \in Replica : l # n => seen'[l] = seen[l] /\ register'[l] = register[l]
        /\ register'[n] = IF register[k].timestamp > register[n].timestamp
                          THEN register[k] ELSE register[n]
    BY <2>1 DEF History
  <2>7. ASSUME NEW l \in Replica PROVE LastWrite(l)'
    <3>1. CASE l # n
      BY <3>1, <2>6 DEF LastWrite
    <3>2. \A j \in {n, k} : \A u \in seen[j] :
            u.kind = "set" => /\ u.at.timestamp <= register[j].timestamp
                              /\ u.at.timestamp \in Nat
      BY SetsAreWrites
    <3>5. register[n].timestamp \in Nat /\ register[k].timestamp \in Nat
      OBVIOUS
    <3>3. CASE l = n /\ register[k].timestamp > register[n].timestamp
      <4>1. register'[n] = register[k]
        BY <3>3, <2>6
      <4>2. \A u \in seen'[n] : u.kind = "set" => u.at.timestamp <= register[k].timestamp
        BY <2>6, <3>5, <3>2, <3>3
      <4>3. register[k].timestamp = 0 \/ \E u \in seen[k] : u.kind = "set" /\ u.at = register[k]
        BY DEF LastWrite
      <4>4. QED
        BY <2>6, <3>3, <4>1, <4>2, <4>3 DEF LastWrite
    <3>4. CASE l = n /\ ~(register[k].timestamp > register[n].timestamp)
      <4>1. register'[n] = register[n]
        BY <3>4, <2>6
      <4>2. \A u \in seen'[n] : u.kind = "set" => u.at.timestamp <= register[n].timestamp
        BY <2>6, <3>5, <3>2, <3>4
      <4>3. register[n].timestamp = 0 \/ \E u \in seen[n] : u.kind = "set" /\ u.at = register[n]
        BY DEF LastWrite
      <4>4. QED
        BY <2>6, <3>4, <4>1, <4>2, <4>3 DEF LastWrite
    <3>6. QED
      BY <3>1, <3>3, <3>4
  <2>8. QED
    BY <2>2, <2>4, <2>5, <2>7
<1>5. CASE UNCHANGED crdtVars
  <2>1. History'
    BY <1>5 DEF crdtVars, History, Own
  <2>2. \A n, m \in Replica : Counts(n, m)'
    BY <1>5 DEF crdtVars, Counts, Count
  <2>3. \A n \in Replica : LastWrite(n)'
    BY <1>5 DEF crdtVars, LastWrite
  <2>4. QED
    BY <1>5, <2>1, <2>2, <2>3 DEF crdtVars
<1>6. QED
  BY <1>1, <1>2, <1>3, <1>4, <1>5 DEF CrdtNext

LEMMA CrdtStart == CrdtInit => CrdtInv
<1> SUFFICES ASSUME CrdtInit PROVE CrdtInv
  OBVIOUS
<1>1. \A n \in Replica : seen[n] = {}
  BY DEF CrdtInit
<1>2. History
  BY <1>1, FS_EmptySet DEF CrdtInit, History, Own
<1>3. CrdtType
  BY DEF CrdtInit, CrdtType
<1>4. \A n, m \in Replica : Counts(n, m)
  <2>1. \A n \in Replica : \A m, kind : {u \in seen[n] : u.kind = kind /\ u.at = m} = {}
    BY <1>1
  <2>2. QED
    BY <2>1, FS_EmptySet DEF CrdtInit, Counts, Count
<1>5. \A n \in Replica : LastWrite(n)
  BY <1>1 DEF CrdtInit, LastWrite
<1>6. QED
  BY <1>2, <1>3, <1>4, <1>5 DEF CrdtInv

LEMMA CrdtShows == CrdtInv => CountsWhatItSaw
<1> SUFFICES ASSUME CrdtInv, NEW n \in Replica
             PROVE  /\ \A m \in Replica : pos[n][m] = Count(n, "inc", m) /\ neg[n][m] = Count(n, "dec", m)
                    /\ LET writes == {u.at : u \in {x \in seen[n] : x.kind = "set" /\ x.at.timestamp > 0}}
                       IN IF writes = {} THEN register[n].timestamp = 0
                          ELSE register[n] \in writes
                               /\ \A w \in writes : w.timestamp <= register[n].timestamp
  BY DEF CountsWhatItSaw
<1> DEFINE writes == {u.at : u \in {x \in seen[n] : x.kind = "set" /\ x.at.timestamp > 0}}
<1>1. \A m \in Replica : pos[n][m] = Count(n, "inc", m) /\ neg[n][m] = Count(n, "dec", m)
  BY DEF CrdtInv, Counts
<1>2. \A u \in seen[n] : u.kind = "set" => u.at.timestamp > 0
  <2> SUFFICES ASSUME NEW u \in seen[n], u.kind = "set" PROVE u.at.timestamp > 0
    OBVIOUS
  <2>1. u \in [kind: {"set"}, at: Write, number: Nat]
    BY DEF CrdtInv, History, CrdtUpdate
  <2>2. u.at \in Write
    BY <2>1
  <2>3. QED
    BY <2>2 DEF Write
<1>3. LastWrite(n)
  BY DEF CrdtInv
<1>4. \A u \in seen[n] : u.kind = "set" => u.at \in writes
  BY <1>2
<1>5. \A w \in writes : w.timestamp <= register[n].timestamp
  BY <1>3 DEF LastWrite
<1>6. ASSUME writes = {} PROVE register[n].timestamp = 0
  BY <1>3, <1>4, <1>6 DEF LastWrite
<1>7. ASSUME writes # {} PROVE register[n] \in writes
  <2>1. PICK u \in seen[n] : u.kind = "set" /\ u.at.timestamp > 0
    BY <1>7
  <2>2. register[n].timestamp # 0
    BY <2>1, SetsAreWrites
  <2>3. QED
    BY <2>2, <1>3, <1>4 DEF LastWrite
<1>8. QED
  BY <1>1, <1>5, <1>6, <1>7

(* A replica's counter and register depend on the updates that reached it  *)
(* alone, whatever the order and the number of the merges.                 *)
THEOREM MergesCountOnce == CrdtSpec => []CountsWhatItSaw
<1>1. CrdtInv /\ [CrdtNext]_crdtVars => CrdtInv'
  BY CrdtStep
<1>2. QED
  BY CrdtStart, CrdtShows, <1>1, PTL DEF CrdtSpec

-----------------------------------------------------------------------------
(* Firewall.  Under the mutex one operation at a time is half-way, and it  *)
(* has taken the grant from its own rules: of every other rule the file it *)
(* writes says what memory says.                                           *)

RuleSets == [file: SUBSET Cidr, kernel: SUBSET Cidr, memory: SUBSET Cidr]

FirewallType ==
  /\ file \subseteq Cidr /\ kernel \subseteq Cidr /\ memory \subseteq Cidr
  /\ \A k \in kernel : Masked[k] = k
  /\ work \in [op: {"none", "block", "unblock", "batch", "reconcile"}, at: {"idle", "start", "save", "kernel"},
               cidrs: SUBSET Cidr, rules: SUBSET Cidr, todo: SUBSET Cidr, before: RuleSets]
  /\ granted \in [Cidr -> {"block", "unblock", "unsure"}]

Operating == work.at \in {"save", "kernel"}

\* What an operation has got done: the rules saved, the kernel's of those not
\* to do any more, and memory but for the rule of a block.
HalfWay ==
  /\ work.op \in {"block", "unblock", "batch"} /\ work.todo \subseteq work.cidrs
  /\ \A c \in Cidr \ work.cidrs : c \in work.rules <=> c \in memory
  /\ \A c \in work.cidrs :
       /\ granted[c] = "unsure"
       /\ c \in work.rules <=> work.op # "unblock"
       /\ work.op # "block" => (c \in memory <=> c \in work.rules)
       /\ work.op # "unblock" /\ work.at = "kernel" /\ c \notin work.todo => Masked[c] \in kernel
  /\ work.op = "unblock" => \A c, d \in work.cidrs : c = d
  /\ work.op = "unblock" /\ work.at = "kernel" => \A c \in work.cidrs \ work.todo : Masked[c] \notin kernel
  /\ work.at = "save" => work.todo = work.cidrs
  /\ work.at = "kernel" => file = work.rules

FirewallInv ==
  /\ FirewallType
  /\ GrantedRulesHold
  /\ Operating => HalfWay

LEMMA FirewallStart == FirewallInit => FirewallInv
BY FirewallAssumption DEF FirewallInit, FirewallInv, FirewallType, RuleSets, GrantedRulesHold, Operating, Starting, NoWork, NoRules

LEMMA FirewallStep == FirewallInv /\ [FirewallNext]_firewallVars => FirewallInv'
<1> SUFFICES ASSUME FirewallInv, [FirewallNext]_firewallVars
             PROVE  FirewallInv'
  OBVIOUS
<1> USE FirewallAssumption DEF FirewallInv, Operating
<1>1. ASSUME NEW c \in Cidr, BlockCIDR(c) PROVE FirewallInv'
  <2> USE <1>1 DEF BlockCIDR, Operate
  <2>1. FirewallType'
    BY DEF FirewallType, RuleSets, NoRules
  <2>2. GrantedRulesHold'
    BY DEF GrantedRulesHold, FirewallType
  <2>3. HalfWay'
    BY DEF HalfWay, FirewallType
  <2>4. QED
    BY <2>1, <2>2, <2>3
<1>2. ASSUME NEW c \in Cidr, UnblockCIDR(c) PROVE FirewallInv'
  <2> USE <1>2 DEF UnblockCIDR, Operate
  <2>1. FirewallType'
    BY DEF FirewallType, RuleSets, NoRules
  <2>2. GrantedRulesHold'
    BY DEF GrantedRulesHold, FirewallType
  <2>3. HalfWay'
    BY DEF HalfWay, FirewallType
  <2>4. QED
    BY <2>1, <2>2, <2>3
<1>3. ASSUME NEW cs \in SUBSET Cidr, BatchBlock(cs) PROVE FirewallInv'
  <2> USE <1>3 DEF BatchBlock, Operate
  <2>1. FirewallType'
    BY DEF FirewallType, RuleSets, NoRules
  <2>2. GrantedRulesHold'
    BY DEF GrantedRulesHold, FirewallType
  <2>3. HalfWay'
    BY DEF HalfWay, FirewallType
  <2>4. QED
    BY <2>1, <2>2, <2>3
<1>4. CASE SaveRules
  <2> USE <1>4 DEF SaveRules
  <2>1. FirewallType'
    BY DEF FirewallType, HalfWay
  <2>2. GrantedRulesHold'
    BY DEF GrantedRulesHold, FirewallType, HalfWay
  <2>3. HalfWay'
    BY DEF HalfWay, FirewallType
  <2>4. QED
    BY <2>1, <2>2, <2>3
<1>5. ASSUME NEW c \in Cidr, UpdateKernel(c) PROVE FirewallInv'
  <2> USE <1>5 DEF UpdateKernel
  <2>1. FirewallType'
    BY DEF FirewallType
  <2>2. GrantedRulesHold'
    <3>1. CASE work.op = "unblock"
      BY <3>1 DEF GrantedRulesHold, FirewallType, HalfWay
    <3>2. CASE work.op # "unblock"
      <4>1. granted[c] = "unsure" /\ UNCHANGED <<file, memory, granted, forgotten>> /\ work'.at = work.at
        BY DEF HalfWay, FirewallType
      <4>2. kernel' = kernel \cup {Masked[c]} /\ kernel' \cup swept' = kernel \cup swept \cup {Masked[c]}
        BY <3>2
      <4>3. QED
        BY <4>1, <4>2 DEF GrantedRulesHold, FirewallType
    <3>3. QED
      BY <3>1, <3>2
  <2>3. HalfWay'
    BY DEF HalfWay, FirewallType
  <2>4. QED
    BY <2>1, <2>2, <2>3
<1>6. CASE Succeed
  <2> USE <1>6 DEF Succeed
  <2>1. FirewallType'
    BY DEF FirewallType, RuleSets, NoRules, NoWork
  <2>2. work'.at = "idle"
    BY DEF NoWork
  <2>3. ASSUME NEW c \in Cidr PROVE granted'[c] = "block" /\ c \notin forgotten' =>
           c \in file' /\ c \in memory' /\ Masked[c] \in kernel' \cup swept'
    BY DEF GrantedRulesHold, FirewallType, HalfWay
  <2>4. ASSUME NEW c \in Cidr, granted'[c] = "unblock" PROVE c \notin file' \cup memory'
    BY <2>4 DEF GrantedRulesHold, FirewallType, HalfWay
  <2>5. ASSUME NEW c \in Cidr, granted'[c] = "unblock", Masked[c] \in kernel'
        PROVE  \E d \in Cidr \ {c} : Masked[d] = Masked[c] /\ granted'[d] # "unblock"
    <3>1. CASE c \in work.cidrs
      BY <2>5, <3>1 DEF FirewallType, HalfWay
    <3>2. CASE c \notin work.cidrs
      <4>1. PICK d \in Cidr \ {c} : Masked[d] = Masked[c] /\ granted[d] # "unblock"
        BY <2>5, <3>2 DEF GrantedRulesHold, FirewallType
      <4>2. d \in work.cidrs => work.op # "unblock"
        BY <2>5, <4>1 DEF FirewallType, HalfWay
      <4>3. granted'[d] # "unblock"
        BY <4>1, <4>2 DEF FirewallType
      <4>4. QED
        BY <4>1, <4>3
    <3>3. QED
      BY <3>1, <3>2
  <2>6. GrantedRulesHold'
    BY <2>3, <2>4, <2>5 DEF GrantedRulesHold
  <2>7. QED
    BY <2>1, <2>2, <2>6
<1>7. CASE StepFails
  <2>1. work.at \in {"save", "kernel"} /\ work' = [work EXCEPT !.at = "idle"]
        /\ UNCHANGED <<file, kernel, memory, granted, forgotten, swept>>
    BY <1>7 DEF StepFails
  <2>2. FirewallType' /\ work'.at = "idle"
    BY <2>1 DEF FirewallType
  <2>3. GrantedRulesHold'
    BY <2>1, <2>2 DEF GrantedRulesHold, FirewallType
  <2>4. QED
    BY <2>2, <2>3
<1>8. CASE CrashFirewall
  BY <1>8 DEF CrashFirewall, FirewallType, RuleSets, NoRules, NoWork, Starting, GrantedRulesHold
<1>9. CASE Reconcile
  <2> USE <1>9 DEF Reconcile
  <2>1. work'.at = "idle"
    BY DEF NoWork
  <2>2. Entries(file \ kernel) \subseteq Cidr /\ \A k \in Entries(file \ kernel) : Masked[k] = k
    BY DEF Entries, FirewallType
  <2>3. FirewallType'
    BY <2>2 DEF FirewallType, RuleSets, NoRules, NoWork
  <2>4. ASSUME NEW c \in Cidr, granted[c] = "unblock", Masked[c] \in kernel'
        PROVE  \E d \in Cidr \ {c} : Masked[d] = Masked[c] /\ granted[d] # "unblock"
    <3>1. CASE Masked[c] \in kernel
      BY <2>4, <3>1 DEF GrantedRulesHold
    <3>2. CASE Masked[c] \notin kernel
      <4>1. PICK d \in file : Masked[d] = Masked[c]
        BY <2>4, <3>2 DEF Entries
      <4>2. d \in Cidr /\ granted[d] # "unblock"
        BY <4>1 DEF GrantedRulesHold, FirewallType
      <4>3. QED
        BY <2>4, <4>1, <4>2
    <3>3. QED
      BY <3>1, <3>2
  <2>5. GrantedRulesHold'
    BY <2>1, <2>4 DEF GrantedRulesHold, FirewallType, Entries
  <2>6. QED
    BY <2>1, <2>3, <2>5
<1>10. CASE ReconcileNothing
  BY <1>10 DEF ReconcileNothing, FirewallType, RuleSets, NoRules, NoWork, GrantedRulesHold
<1>11. CASE ReconcileFails
  <2> USE <1>11 DEF ReconcileFails
  <2>1. work'.at = "idle"
    BY DEF NoWork
  <2>2. PICK inserted \in SUBSET (file \ kernel), deleted \in SUBSET (kernel \ file) :
          kernel' = (kernel \cup Entries(inserted)) \ deleted
    OBVIOUS
  <2>3. Entries(inserted) \subseteq Cidr /\ \A k \in Entries(inserted) : Masked[k] = k
    BY <2>2 DEF Entries, FirewallType
  <2>4. FirewallType'
    BY <2>2, <2>3 DEF FirewallType, RuleSets, NoRules, NoWork
  <2>5. ASSUME NEW c \in Cidr, granted[c] = "unblock", Masked[c] \in kernel'
        PROVE  \E d \in Cidr \ {c} : Masked[d] = Masked[c] /\ granted[d] # "unblock"
    <3>1. CASE Masked[c] \in kernel
      BY <2>5, <3>1 DEF GrantedRulesHold
    <3>2. CASE Masked[c] \notin kernel
      <4>1. PICK d \in file : Masked[d] = Masked[c]
        BY <2>2, <2>5, <3>2 DEF Entries
      <4>2. d \in Cidr /\ granted[d] # "unblock"
        BY <4>1 DEF GrantedRulesHold, FirewallType
      <4>3. QED
        BY <2>5, <4>1, <4>2
    <3>3. QED
      BY <3>1, <3>2
  <2>6. GrantedRulesHold'
    BY <2>1, <2>5 DEF GrantedRulesHold, FirewallType
  <2>7. QED
    BY <2>1, <2>4, <2>6
<1>12. CASE UNCHANGED firewallVars
  BY <1>12 DEF firewallVars, FirewallType, GrantedRulesHold, HalfWay
<1>13. QED
  BY <1>1, <1>2, <1>3, <1>4, <1>5, <1>6, <1>7, <1>8, <1>9, <1>10, <1>11, <1>12 DEF FirewallNext

(* What the API has granted holds in file, kernel and memory alike, through *)
(* operations that fail half-way and crashes; but for the rules a failing   *)
(* Reconcile forgot and the entries deleted for another rule of the mask.   *)
THEOREM GrantsHold == FirewallSpec => []GrantedRulesHold
<1>1. FirewallInv /\ [FirewallNext]_firewallVars => FirewallInv'
  BY FirewallStep
<1>2. FirewallInv => GrantedRulesHold
  BY DEF FirewallInv
<1>3. QED
  BY FirewallStart, <1>1, <1>2, PTL DEF FirewallSpec

-----------------------------------------------------------------------------
(* Reaper.  Past the question every scan is done and the command is to     *)
(* execute; what is left to execute is part of the confirmed plan.         *)

ReaperInv ==
  /\ DestroysOnlyPlanned
  /\ command \in [name : {"scan", "execute"}, dryRun : BOOLEAN]
  /\ stage \in {"ask", "execute"} => /\ command = [name |-> "execute", dryRun |-> FALSE]
                                     /\ \A p \in Pairs : job[p] = "done"
  /\ stage = "execute" => findings \subseteq plan

LEMMA ReaperStart == ReaperInit => ReaperInv
BY DEF ReaperInit, ReaperInv, DestroysOnlyPlanned

LEMMA ReaperStep == ReaperInv /\ [ReaperNext]_reaperVars => ReaperInv'
<1> SUFFICES ASSUME ReaperInv, [ReaperNext]_reaperVars
             PROVE  ReaperInv'
  OBVIOUS
<1> USE DEF ReaperInv, DestroysOnlyPlanned, TargetOf
<1>1. ASSUME NEW s \in Slots, Turn(s) PROVE ReaperInv'
  BY <1>1 DEF Turn
<1>2. ASSUME NEW s \in Slots, Advise(s) PROVE ReaperInv'
  BY <1>2 DEF Advise
<1>3. ASSUME NEW s \in Slots, Execute(s) PROVE ReaperInv'
  BY <1>3 DEF Execute
<1>4. ASSUME NEW p \in Pairs, ScanStarts(p) \/ ScanEnds(p) \/ ScanFails(p) PROVE ReaperInv'
  BY <1>4 DEF ScanStarts, ScanEnds, ScanFails
<1>5. CASE Report
  BY <1>5 DEF Report
<1>6. ASSUME NEW yes \in BOOLEAN, Confirm(yes) PROVE ReaperInv'
  BY <1>6 DEF Confirm
<1>7. CASE UNCHANGED reaperVars
  BY <1>7 DEF reaperVars
<1>8. QED
  BY <1>1, <1>2, <1>3, <1>4, <1>5, <1>6, <1>7 DEF ReaperNext

(* Nothing is destroyed but what the operator has confirmed after scans    *)
(* that all succeeded.                                                     *)
THEOREM OnlyThePlanIsDestroyed == ReaperSpec => []DestroysOnlyPlanned
<1>1. ReaperInv /\ [ReaperNext]_reaperVars => ReaperInv'
  BY ReaperStep
<1>2. ReaperInv => DestroysOnlyPlanned
  BY DEF ReaperInv
<1>3. QED
  BY ReaperStart, <1>1, <1>2, PTL DEF ReaperSpec

-----------------------------------------------------------------------------
(* RabbitWorker.  A worker that is still at a task of a channel closed     *)
(* since may succeed with it, and so may, once, whoever has the task on    *)
(* the open channel or will: together with the successes so far these are  *)
(* one, and one for every channel closed.                                  *)

RabbitType ==
  /\ ready \subseteq Task /\ unacked \subseteq Task /\ deliveries \subseteq Task
  /\ hands \in [PoolWorker -> [at: {"idle", "handle", "ack", "fail"},
                               task: Task \cup {NoTask}, closed: BOOLEAN]]
  /\ \A w \in PoolWorker : hands[w].at # "idle" => hands[w].task \in Task
  /\ deaths \in [Task -> Nat] /\ successes \in [Task -> Nat] /\ closings \in Nat

Holding(w) == hands[w].at # "idle" /\ ~hands[w].closed
OnePlace ==
  /\ ready \cap unacked = {} /\ deliveries \subseteq unacked
  /\ \A w \in PoolWorker : Holding(w) => hands[w].task \in unacked \ deliveries
  /\ \A w, v \in PoolWorker : Holding(w) /\ Holding(v) /\ hands[w].task = hands[v].task => w = v

Late(t) == {w \in PoolWorker : hands[w].at = "handle" /\ hands[w].closed /\ hands[w].task = t}
MaySucceed(t) ==
  \/ t \in ready \cup deliveries
  \/ \E w \in PoolWorker : Holding(w) /\ hands[w].at # "ack" /\ hands[w].task = t
Accounted(t) ==
  /\ successes[t] + Cardinality(Late(t)) <= 1 + closings
  /\ MaySucceed(t) => successes[t] + Cardinality(Late(t)) <= closings

RabbitInv ==
  /\ RabbitType
  /\ OnePlace
  /\ \A t \in settled : successes[t] > 0
  /\ \A w \in PoolWorker : hands[w].at = "ack" => successes[hands[w].task] > 0
  /\ dead \subseteq Malformed
  /\ \A t \in Task : deaths[t] > 0 => t \in Malformed
  /\ settled \subseteq Task

LEMMA LateFinite ==
  ASSUME NEW t
  PROVE  IsFiniteSet(Late(t)) /\ Cardinality(Late(t)) \in Nat
<1>1. Late(t) \in SUBSET PoolWorker
  BY DEF Late
<1>2. QED
  BY <1>1, FS_Subset, FS_CardinalityType, RabbitAssumption

LEMMA HandsClosed ==
  ASSUME RabbitType, CloseChannel, NEW w \in PoolWorker
  PROVE  /\ hands'[w].at = hands[w].at /\ hands'[w].task = hands[w].task
         /\ hands'[w].closed = (hands[w].closed \/ hands[w].at # "idle")
BY DEF RabbitType, CloseChannel

LEMMA RabbitInvStep == RabbitInv /\ [RabbitNext]_rabbitVars => RabbitInv'
<1> SUFFICES ASSUME RabbitInv, [RabbitNext]_rabbitVars
             PROVE  RabbitInv'
  OBVIOUS
<1> USE DEF RabbitInv, RabbitType, OnePlace, Holding
<1>1. ASSUME NEW t \in Task, Deliver(t) PROVE RabbitInv'
  BY <1>1 DEF Deliver
<1>2. ASSUME NEW t \in Task, NEW w \in PoolWorker, TakeDelivery(w, t) PROVE RabbitInv'
  BY <1>2 DEF TakeDelivery
<1>3. ASSUME NEW w \in PoolWorker, ProcessTask(w) PROVE RabbitInv'
  <2>1. CASE hands' = [hands EXCEPT ![w].at = "ack"] /\ successes' = [successes EXCEPT ![hands[w].task] = @ + 1]
    BY <1>3, <2>1 DEF ProcessTask
  <2>2. CASE hands' = [hands EXCEPT ![w].at = "fail"] /\ UNCHANGED successes
    BY <1>3, <2>2 DEF ProcessTask
  <2>3. QED
    BY <1>3, <2>1, <2>2 DEF ProcessTask
<1>4. ASSUME NEW w \in PoolWorker, Ack(w) PROVE RabbitInv'
  BY <1>4 DEF Ack, EmptyHands
<1>5. ASSUME NEW w \in PoolWorker, Nack(w) PROVE RabbitInv'
  BY <1>5, RabbitAssumption DEF Nack, EmptyHands
<1>6. CASE CloseChannel
  <2>1. \A w \in PoolWorker : /\ hands'[w].at = hands[w].at /\ hands'[w].task = hands[w].task
                              /\ hands'[w].closed = (hands[w].closed \/ hands[w].at # "idle")
    BY <1>6, HandsClosed
  <2>2. hands' \in [PoolWorker -> [at: {"idle", "handle", "ack", "fail"},
                                   task: Task \cup {NoTask}, closed: BOOLEAN]]
    <3>1. ASSUME NEW w \in PoolWorker
          PROVE  hands'[w] \in [at: {"idle", "handle", "ack", "fail"},
                                task: Task \cup {NoTask}, closed: BOOLEAN]
      <4>1. PICK b \in BOOLEAN : hands'[w] = [hands[w] EXCEPT !.closed = b]
        <5>1. (hands[w].closed \/ hands[w].at # "idle") \in BOOLEAN
          OBVIOUS
        <5>2. hands'[w] = [hands[w] EXCEPT !.closed = hands[w].closed \/ hands[w].at # "idle"]
          BY <1>6 DEF CloseChannel
        <5>3. QED
          BY <5>1, <5>2
      <4>2. QED
        BY <4>1
    <3>2. hands' = [w \in PoolWorker |-> hands'[w]]
      BY <1>6 DEF CloseChannel
    <3>3. QED
      BY <3>1, <3>2
  <2>3. \A w \in PoolWorker : ~Holding(w)'
    BY <2>1, <2>2
  <2>4. /\ ready' = ready \cup unacked /\ unacked' = {} /\ deliveries' = {}
        /\ closings' = closings + 1 /\ UNCHANGED <<deaths, settled, dead, successes>>
    BY <1>6 DEF CloseChannel
  <2>5. RabbitType' /\ OnePlace'
    BY <2>1, <2>2, <2>3, <2>4
  <2>6. QED
    BY <2>1, <2>4, <2>5
<1>7. CASE UNCHANGED rabbitVars
  BY <1>7 DEF rabbitVars
<1>8. QED
  BY <1>1, <1>2, <1>3, <1>4, <1>5, <1>6, <1>7 DEF RabbitNext, RabbitRuns

LEMMA AccountStays ==
  ASSUME RabbitInv, NEW t \in Task, Accounted(t), Late(t)' \subseteq Late(t),
         successes'[t] = successes[t], closings' = closings,
         MaySucceed(t)' => MaySucceed(t)
  PROVE  Accounted(t)'
<1>1. /\ IsFiniteSet(Late(t)) /\ Cardinality(Late(t)) \in Nat /\ Cardinality(Late(t)') \in Nat
      /\ Cardinality(Late(t)') <= Cardinality(Late(t))
  BY LateFinite, FS_Subset, FS_CardinalityType
<1> DEFINE all == Cardinality(Late(t))
           left == Cardinality(Late(t)')
<1>2. all \in Nat /\ left \in Nat /\ left <= all
  BY <1>1
<1>3. successes[t] + all <= 1 + closings /\ (MaySucceed(t) => successes[t] + all <= closings)
  BY DEF Accounted
<1> HIDE DEF all, left
<1>4. successes[t] \in Nat /\ closings \in Nat
  BY DEF RabbitInv, RabbitType
<1>5. successes'[t] + left <= 1 + closings' /\ (MaySucceed(t)' => successes'[t] + left <= closings')
  BY <1>2, <1>3, <1>4
<1>6. QED
  BY <1>5 DEF Accounted, left

\* A worker of a closed channel succeeds: it was accounted for.
LEMMA LateSuccess ==
  ASSUME RabbitInv, NEW w \in PoolWorker, NEW t \in Task, Accounted(t),
         w \in Late(t), Late(t)' = Late(t) \ {w},
         successes'[t] = successes[t] + 1, closings' = closings,
         MaySucceed(t)' => MaySucceed(t)
  PROVE  Accounted(t)'
<1> DEFINE all == Cardinality(Late(t))
           left == Cardinality(Late(t)')
<1>1. all \in Nat /\ left = all - 1
  BY LateFinite, FS_RemoveElement
<1>2. successes[t] + all <= 1 + closings /\ (MaySucceed(t) => successes[t] + all <= closings)
  BY DEF Accounted
<1> HIDE DEF all, left
<1>3. successes[t] \in Nat /\ closings \in Nat
  BY DEF RabbitInv, RabbitType
<1>4. successes'[t] + left <= 1 + closings' /\ (MaySucceed(t)' => successes'[t] + left <= closings')
  BY <1>1, <1>2, <1>3
<1>5. QED
  BY <1>4 DEF Accounted, left

LEMMA AccountStep ==
  ASSUME RabbitInv, RabbitInv', [RabbitNext]_rabbitVars, NEW t \in Task, Accounted(t)
  PROVE  Accounted(t)'
<1> USE DEF RabbitInv, RabbitType, OnePlace, Holding
<1>1. ASSUME NEW s \in Task, Deliver(s) PROVE Accounted(t)'
  <2>1. Late(t)' \subseteq Late(t) /\ (MaySucceed(t)' => MaySucceed(t))
    BY <1>1 DEF Deliver, Late, MaySucceed
  <2>2. QED
    BY <1>1, <2>1, AccountStays DEF Deliver
<1>2. ASSUME NEW s \in Task, NEW w \in PoolWorker, TakeDelivery(w, s) PROVE Accounted(t)'
  <2>1. Late(t)' \subseteq Late(t) /\ (MaySucceed(t)' => MaySucceed(t))
    BY <1>2 DEF TakeDelivery, Late, MaySucceed
  <2>2. QED
    BY <1>2, <2>1, AccountStays DEF TakeDelivery
<1>3. ASSUME NEW w \in PoolWorker, ProcessTask(w) PROVE Accounted(t)'
  <2>1. CASE hands' = [hands EXCEPT ![w].at = "ack"] /\ successes' = [successes EXCEPT ![hands[w].task] = @ + 1]
    <3>1. hands[w].at = "handle" /\ UNCHANGED <<ready, unacked, deliveries, closings>>
      BY <1>3 DEF ProcessTask
    <3>2. /\ hands'[w].at = "ack" /\ hands'[w].task = hands[w].task /\ hands'[w].closed = hands[w].closed
          /\ \A v \in PoolWorker : v # w => hands'[v] = hands[v]
      BY <2>1
    <3>3. /\ Late(t)' = Late(t) \ {w}
          /\ MaySucceed(t)' => MaySucceed(t)
      BY <3>1, <3>2 DEF Late, MaySucceed
    <3>4. CASE hands[w].task # t
      BY <2>1, <3>1, <3>3, <3>4, AccountStays
    <3>5. CASE hands[w].task = t /\ hands[w].closed
      BY <2>1, <3>1, <3>3, <3>5, LateSuccess DEF Late
    <3>6. CASE hands[w].task = t /\ ~hands[w].closed
      <4>1. MaySucceed(t) /\ Late(t)' = Late(t)
        BY <3>1, <3>3, <3>6 DEF MaySucceed, Late
      <4>2. ~MaySucceed(t)'
        BY <3>1, <3>2, <3>6 DEF MaySucceed
      <4>3. successes'[t] = successes[t] + 1
        BY <2>1, <3>6
      <4> DEFINE all == Cardinality(Late(t))
      <4>4. all \in Nat /\ successes[t] + all <= closings
        BY <4>1, LateFinite DEF Accounted
      <4> HIDE DEF all
      <4>5. successes'[t] + all <= 1 + closings'
        BY <3>1, <4>3, <4>4
      <4>6. QED
        BY <4>1, <4>2, <4>5 DEF Accounted, all
    <3>7. QED
      BY <3>4, <3>5, <3>6
  <2>2. CASE hands' = [hands EXCEPT ![w].at = "fail"] /\ UNCHANGED successes
    <3>1. Late(t)' \subseteq Late(t) /\ (MaySucceed(t)' => MaySucceed(t))
      BY <1>3, <2>2 DEF ProcessTask, Late, MaySucceed
    <3>2. QED
      BY <1>3, <2>2, <3>1, AccountStays DEF ProcessTask
  <2>3. QED
    BY <1>3, <2>1, <2>2 DEF ProcessTask
<1>4. ASSUME NEW w \in PoolWorker, Ack(w) PROVE Accounted(t)'
  <2>1. Late(t)' \subseteq Late(t) /\ (MaySucceed(t)' => MaySucceed(t))
    BY <1>4 DEF Ack, EmptyHands, Late, MaySucceed
  <2>2. QED
    BY <1>4, <2>1, AccountStays DEF Ack
<1>5. ASSUME NEW w \in PoolWorker, Nack(w) PROVE Accounted(t)'
  <2>1. Late(t)' \subseteq Late(t)
    BY <1>5 DEF Nack, EmptyHands, Late
  <2>2. MaySucceed(t)' => MaySucceed(t)
    BY <1>5 DEF Nack, EmptyHands, MaySucceed
  <2>3. QED
    BY <1>5, <2>1, <2>2, AccountStays DEF Nack
<1>6. CASE CloseChannel
  <2>1. \A w \in PoolWorker : /\ hands'[w].at = hands[w].at /\ hands'[w].task = hands[w].task
                              /\ hands'[w].closed = (hands[w].closed \/ hands[w].at # "idle")
    BY <1>6, HandsClosed
  <2>2. closings' = closings + 1 /\ successes' = successes
    BY <1>6 DEF CloseChannel
  <2> DEFINE all == Cardinality(Late(t))
             more == Cardinality(Late(t)')
  <2>3. all \in Nat /\ successes[t] + all <= 1 + closings /\ (MaySucceed(t) => successes[t] + all <= closings)
    BY LateFinite DEF Accounted
  <2>4. CASE \E w \in PoolWorker : Holding(w) /\ hands[w].at = "handle" /\ hands[w].task = t
    <3>1. PICK w \in PoolWorker : Holding(w) /\ hands[w].at = "handle" /\ hands[w].task = t
      BY <2>4
    <3>2. Late(t)' = Late(t) \cup {w} /\ w \notin Late(t)
      BY <2>1, <3>1 DEF Late
    <3>3. more = all + 1
      BY <3>2, LateFinite, FS_AddElement
    <3>4. MaySucceed(t)
      BY <3>1 DEF MaySucceed
    <3> HIDE DEF all, more
    <3>5. successes'[t] + more <= closings'
      BY <2>2, <2>3, <3>3, <3>4
    <3>6. successes'[t] + more \in Nat
      BY <2>2, <2>3, <3>3
    <3>7. QED
      BY <2>2, <3>5, <3>6 DEF Accounted, more
  <2>5. CASE ~ \E w \in PoolWorker : Holding(w) /\ hands[w].at = "handle" /\ hands[w].task = t
    <3>1. Late(t)' = Late(t)
      BY <2>1, <2>5 DEF Late
    <3> HIDE DEF all, more
    <3>2. successes'[t] + all <= closings' /\ successes'[t] + all <= 1 + closings'
      BY <2>2, <2>3
    <3>3. QED
      BY <3>1, <3>2 DEF Accounted, all
  <2>6. QED
    BY <2>4, <2>5
<1>7. CASE UNCHANGED rabbitVars
  BY <1>7 DEF rabbitVars, Accounted, Late, MaySucceed
<1>8. QED
  BY <1>1, <1>2, <1>3, <1>4, <1>5, <1>6, <1>7 DEF RabbitNext, RabbitRuns

LEMMA RabbitStart == RabbitInit => RabbitInv /\ \A t \in Task : Accounted(t)
<1> SUFFICES ASSUME RabbitInit PROVE RabbitInv /\ \A t \in Task : Accounted(t)
  OBVIOUS
<1>1. RabbitInv
  BY DEF RabbitInit, RabbitInv, RabbitType, OnePlace, Holding, EmptyHands
<1>2. \A t : Late(t) = {}
  BY DEF RabbitInit, Late, EmptyHands
<1>3. QED
  BY <1>1, <1>2, FS_EmptySet DEF RabbitInit, Accounted

(* A task leaves the queue processed or unreadable, and is processed again *)
(* only for a channel that was closed.                                     *)
THEOREM OncePerChannel == RabbitSpec => []DoneOncePerChannel
<1> DEFINE Inv == RabbitInv /\ \A t \in Task : Accounted(t)
<1>1. Inv /\ [RabbitNext]_rabbitVars => Inv'
  BY RabbitInvStep, AccountStep
<1>2. Inv => DoneOncePerChannel
  <2> SUFFICES ASSUME Inv PROVE DoneOncePerChannel
    OBVIOUS
  <2>1. ASSUME NEW t \in Task PROVE successes[t] <= 1 + closings
    <3>1. successes[t] + Cardinality(Late(t)) <= 1 + closings /\ Cardinality(Late(t)) \in Nat
      BY LateFinite DEF Accounted
    <3>2. QED
      BY <3>1 DEF RabbitInv, RabbitType
  <2>2. QED
    BY <2>1 DEF RabbitInv, DoneOncePerChannel
<1>3. QED
  BY RabbitStart, <1>1, <1>2, PTL DEF RabbitSpec

-----------------------------------------------------------------------------
(* DriftDetector.  Of a resource that is not lagging, the alerts that       *)
(* arrived say what the tracker knows, but for an alert on its way; and    *)
(* the state file holds what it knows, but for what is unwritten.          *)

DriftInv ==
  /\ daemon \in {"idle", "polling", "sending", "writing", "down", "killed"}
  /\ daemon # "sending" => unsent = NoAlert
  /\ unsent.new \subseteq known /\ unsent.resolved \cap known = {}
  /\ \A r \in TfResource \ lagging :
       /\ daemon # "sending" => (r \in known <=> r \in told)
       /\ daemon = "sending" => /\ r \in known <=> r \in (told \ unsent.resolved) \cup unsent.new
                                /\ r \in unsent.new => r \notin told
                                /\ r \in unsent.resolved => r \in told
  /\ \A r \in TfResource \ unwritten : r \in known <=> r \in stateFile

LEMMA DriftStart == DriftInit => DriftInv
BY DEF DriftInit, DriftInv, NoAlert

LEMMA UpdateStep ==
  ASSUME DriftInv, Update
  PROVE  DriftInv'
<1> DEFINE fresh == Drifted \ known
           over == (known \ Drifted) \cap DOMAIN polled
<1>1. /\ daemon = "polling" /\ known' = Drifted
      /\ unsent' = [new |-> fresh, resolved |-> over]
      /\ daemon' = IF unsent' = NoAlert THEN "idle" ELSE "sending"
      /\ unwritten' = unwritten \cup (known \ Drifted) \cup (Drifted \ known)
      /\ lagging' = lagging \cup (known \ (Drifted \cup DOMAIN polled))
      /\ UNCHANGED <<stateFile, told>>
  BY DEF Update
<1>2. unsent'.new = fresh /\ unsent'.resolved = over
  BY <1>1
<1>3. unsent' = NoAlert => fresh = {} /\ over = {}
  BY <1>2 DEF NoAlert
<1>4. ASSUME NEW r \in TfResource \ lagging'
      PROVE  /\ r \in known' <=> r \in (told' \ unsent'.resolved) \cup unsent'.new
             /\ r \in unsent'.new => r \notin told'
             /\ r \in unsent'.resolved => r \in told'
  <2>1. r \notin lagging /\ (r \in known <=> r \in told)
    BY <1>1 DEF DriftInv
  <2>2. QED
    BY <1>1, <1>2, <2>1
<1>5. ASSUME NEW r \in TfResource \ unwritten' PROVE r \in known' <=> r \in stateFile'
  BY <1>1 DEF DriftInv
<1>6. CASE unsent' = NoAlert
  BY <1>1, <1>2, <1>3, <1>4, <1>5, <1>6 DEF DriftInv
<1>7. CASE unsent' # NoAlert
  BY <1>1, <1>2, <1>4, <1>5, <1>7 DEF DriftInv
<1>8. QED
  BY <1>6, <1>7

LEMMA DriftStep == DriftInv /\ [DriftNext]_driftVars => DriftInv'
<1> SUFFICES ASSUME DriftInv, [DriftNext]_driftVars
             PROVE  DriftInv'
  OBVIOUS
<1> USE DEF DriftInv, NoAlert
<1>1. ASSUME NEW r \in TfResource, Meddle(r) \/ FetchLive(r) PROVE DriftInv'
  BY <1>1 DEF Meddle, FetchLive
<1>2. CASE BeginCycle \/ PollFails
  BY <1>2 DEF BeginCycle, PollFails
<1>3. CASE Update
  BY <1>3, UpdateStep
<1>4. CASE SendAlert
  <2>1. /\ daemon = "sending" /\ daemon' = "idle" /\ unsent' = NoAlert
        /\ UNCHANGED <<known, stateFile, unwritten>>
    BY <1>4 DEF SendAlert
  <2>2. CASE told' = (told \ unsent.resolved) \cup unsent.new /\ lagging' = lagging \ (unsent.new \cup unsent.resolved)
    <3>1. ASSUME NEW r \in TfResource \ lagging' PROVE r \in known' <=> r \in told'
      <4>1. CASE r \in lagging
        <5>1. r \in unsent.new \/ r \in unsent.resolved
          BY <2>2, <3>1, <4>1
        <5>2. QED
          BY <2>1, <2>2, <5>1, <4>1
      <4>2. CASE r \notin lagging
        BY <2>1, <2>2, <4>2
      <4>3. QED
        BY <4>1, <4>2
    <3>2. QED
      BY <2>1, <3>1
  <2>3. CASE told' = told /\ lagging' = lagging \cup unsent.new \cup unsent.resolved
    BY <2>1, <2>3
  <2>4. QED
    BY <1>4, <2>2, <2>3 DEF SendAlert
<1>5. CASE Signal
  BY <1>5 DEF Signal
<1>6. CASE Persist \/ WriteState
  BY <1>6 DEF Persist, WriteState
<1>7. CASE PersistFails
  BY <1>7 DEF PersistFails
<1>8. CASE KillDaemon
  BY <1>8 DEF KillDaemon
<1>9. CASE StartDaemon
  BY <1>9 DEF StartDaemon, Up
<1>10. CASE UNCHANGED driftVars
  BY <1>10 DEF driftVars
<1>11. QED
  BY <1>1, <1>2, <1>3, <1>4, <1>5, <1>6, <1>7, <1>8, <1>9, <1>10 DEF DriftNext

(* Between cycles the tracker knows what its alerts have told and an alert *)
(* is news, of every resource that a lost alert or a restart has not left  *)
(* lagging and until the next alert that names it.                          *)
THEOREM AlertsTellWhatIsKnown == DriftSpec => []KnownIsTold
<1>1. DriftInv /\ [DriftNext]_driftVars => DriftInv'
  BY DriftStep
<1>2. DriftInv => KnownIsTold
  BY DEF DriftInv, KnownIsTold
<1>3. QED
  BY DriftStart, <1>1, <1>2, PTL DEF DriftSpec

-----------------------------------------------------------------------------
(* What is left of a list without its i-th element.                        *)
LEMMA RemoveAtProperties ==
  ASSUME NEW S, NEW list \in Seq(S), NEW i \in DOMAIN list
  PROVE  /\ RemoveAt(list, i) \in Seq(S)
         /\ Len(RemoveAt(list, i)) = Len(list) - 1
         /\ \A j \in 1 .. Len(list) - 1 :
              RemoveAt(list, i)[j] = IF j < i THEN list[j] ELSE list[j + 1]
<1> DEFINE n == Len(list)
           front == SubSeq(list, 1, i - 1)
           back == SubSeq(list, i + 1, n)
<1>1. n \in Nat /\ i \in 1 .. n /\ DOMAIN list = 1 .. n
  OBVIOUS
<1>2. /\ front \in Seq(S) /\ Len(front) = i - 1
      /\ \A j \in 1 .. i - 1 : front[j] = list[j]
  BY <1>1
<1>3. /\ back \in Seq(S) /\ Len(back) = n - i
      /\ \A j \in 1 .. n - i : back[j] = list[i + j]
  BY <1>1
<1> HIDE DEF front, back
<1>4. /\ front \o back \in Seq(S) /\ Len(front \o back) = n - 1
      /\ \A j \in 1 .. n - 1 : (front \o back)[j] = IF j <= i - 1 THEN front[j] ELSE back[j - (i - 1)]
  <2>1. front \in Seq(S) /\ back \in Seq(S) /\ Len(front) = i - 1 /\ Len(back) = n - i
    BY <1>2, <1>3
  <2>2. /\ front \o back \in Seq(S) /\ Len(front \o back) = Len(front) + Len(back)
        /\ \A j \in 1 .. Len(front) + Len(back) :
             (front \o back)[j] = IF j <= Len(front) THEN front[j] ELSE back[j - Len(front)]
    BY <2>1, ConcatProperties
  <2>3. Len(front) + Len(back) = n - 1
    BY <1>1, <2>1
  <2>4. QED
    BY <2>1, <2>2, <2>3
<1>5. ASSUME NEW j \in 1 .. n - 1
      PROVE  (front \o back)[j] = IF j < i THEN list[j] ELSE list[j + 1]
  <2>1. CASE j < i
    BY <1>1, <1>2, <1>4, <2>1
  <2>2. CASE ~(j < i)
    <3>1. j - (i - 1) \in 1 .. n - i /\ i + (j - (i - 1)) = j + 1
      BY <1>1, <2>2
    <3>2. (front \o back)[j] = back[j - (i - 1)]
      BY <1>1, <1>4, <2>2
    <3>3. QED
      BY <2>2, <3>1, <3>2, <1>3
  <2>3. QED
    BY <2>1, <2>2
<1>6. QED
  BY <1>1, <1>4, <1>5 DEF RemoveAt, front, back

Distinct(list) == \A i, j \in DOMAIN list : list[i] = list[j] => i = j

\* Without its i-th element a list has the others, and of a list without
\* repetitions exactly the others.
LEMMA RemoveAtElements ==
  ASSUME NEW S, NEW list \in Seq(S), NEW i \in DOMAIN list
  PROVE  /\ ToSet(RemoveAt(list, i)) \subseteq ToSet(list)
         /\ \A x \in ToSet(list) : x # list[i] => x \in ToSet(RemoveAt(list, i))
         /\ Distinct(list) => /\ Distinct(RemoveAt(list, i))
                              /\ list[i] \notin ToSet(RemoveAt(list, i))
<1> DEFINE n == Len(list)
           rest == RemoveAt(list, i)
<1>1. n \in Nat /\ i \in 1 .. n /\ DOMAIN list = 1 .. n
  OBVIOUS
<1>2. /\ rest \in Seq(S) /\ DOMAIN rest = 1 .. n - 1
      /\ \A j \in 1 .. n - 1 : rest[j] = IF j < i THEN list[j] ELSE list[j + 1]
  <2>1. /\ rest \in Seq(S) /\ Len(rest) = n - 1
        /\ \A j \in 1 .. n - 1 : rest[j] = IF j < i THEN list[j] ELSE list[j + 1]
    BY RemoveAtProperties
  <2> HIDE DEF n, rest
  <2>2. DOMAIN rest = 1 .. Len(rest)
    BY <2>1
  <2>3. QED
    BY <2>1, <2>2
<1> HIDE DEF n, rest
<1>3. \A j \in DOMAIN rest : \E k \in DOMAIN list : k = (IF j < i THEN j ELSE j + 1) /\ rest[j] = list[k]
  BY <1>1, <1>2
<1>4. ToSet(rest) \subseteq ToSet(list)
  BY <1>3 DEF ToSet
<1>5. ASSUME NEW k \in DOMAIN list, k # i PROVE list[k] \in ToSet(rest)
  <2>1. CASE k < i
    <3>1. k \in DOMAIN rest /\ rest[k] = list[k]
      BY <1>1, <1>2, <2>1
    <3>2. QED
      BY <3>1 DEF ToSet
  <2>2. CASE i < k
    <3>1. k - 1 \in DOMAIN rest /\ rest[k - 1] = list[k]
      BY <1>1, <1>2, <2>2
    <3>2. QED
      BY <3>1 DEF ToSet
  <2>3. QED
    BY <1>1, <1>5, <2>1, <2>2
<1>6. ASSUME Distinct(list) PROVE Distinct(rest) /\ list[i] \notin ToSet(rest)
  BY <1>1, <1>2, <1>3, <1>6 DEF Distinct, ToSet
<1>7. QED
  BY <1>4, <1>5, <1>6 DEF ToSet, rest

LEMMA AppendElements ==
  ASSUME NEW S, NEW list \in Seq(S), NEW x \in S
  PROVE  /\ Append(list, x) \in Seq(S)
         /\ ToSet(Append(list, x)) = ToSet(list) \cup {x}
         /\ Distinct(list) /\ x \notin ToSet(list) => Distinct(Append(list, x))
<1> DEFINE longer == Append(list, x)
           n == Len(list)
<1>1. /\ n \in Nat /\ DOMAIN list = 1 .. n
      /\ longer \in Seq(S) /\ DOMAIN longer = 1 .. n + 1 /\ longer[n + 1] = x
      /\ \A i \in 1 .. n : longer[i] = list[i]
  OBVIOUS
<1> HIDE DEF longer, n
<1>2. n + 1 \in DOMAIN longer /\ \A i \in DOMAIN longer : i = n + 1 \/ i \in DOMAIN list
  BY <1>1
<1>3. \A i \in DOMAIN list : i \in DOMAIN longer /\ longer[i] = list[i]
  BY <1>1
<1>4. ToSet(longer) = ToSet(list) \cup {x}
  BY <1>1, <1>2, <1>3 DEF ToSet
<1>5. ASSUME Distinct(list), x \notin ToSet(list) PROVE Distinct(longer)
  BY <1>1, <1>2, <1>3, <1>5 DEF ToSet, Distinct
<1>6. QED
  BY <1>1, <1>4, <1>5 DEF longer

(* FanOut.  A publisher has the lock while it has somebody left to send    *)
(* to, and all of them are in the list, whose channels are open.           *)

FanOutInv ==
  /\ subs \in Seq(Subscriber) /\ Distinct(subs)
  /\ channel \in [Subscriber -> [is: {"none", "open", "closed"}, buffer: Seq(Nat)]]
  /\ publishing \in [Publisher -> [locked: BOOLEAN, message: Nat, rest: Seq(Subscriber)]]
  /\ published \in Nat
  /\ \A s \in ToSet(subs) : channel[s].is = "open"
  /\ \A p \in Publisher : /\ ToSet(publishing[p].rest) \subseteq ToSet(subs)
                          /\ ~publishing[p].locked => publishing[p].rest = <<>>

LEMMA FanOutStart == FanOutInit => FanOutInv
BY DEF FanOutInit, FanOutInv, Unlocked, Distinct, ToSet

LEMMA BufferChanges ==
  ASSUME FanOutInv, NEW s \in Subscriber, NEW held \in Seq(Nat),
         channel' = [channel EXCEPT ![s].buffer = held]
  PROVE  /\ channel' \in [Subscriber -> [is: {"none", "open", "closed"}, buffer: Seq(Nat)]]
         /\ \A t \in Subscriber : channel'[t].is = channel[t].is
BY DEF FanOutInv

LEMMA FanOutStep == FanOutInv /\ [FanOutNext]_fanOutVars => FanOutInv'
<1> SUFFICES ASSUME FanOutInv, [FanOutNext]_fanOutVars
             PROVE  FanOutInv'
  OBVIOUS
<1> USE DEF FanOutInv
<1>1. ASSUME NEW s \in Subscriber, Subscribe(s) PROVE FanOutInv'
  <2>1. subs' \in Seq(Subscriber) /\ ToSet(subs') = ToSet(subs) \cup {s} /\ Distinct(subs')
    <3>1. \A t \in ToSet(subs) : channel[t].is = "open"
      OBVIOUS
    <3>2. subs' = Append(subs, s) /\ s \notin ToSet(subs)
      BY <1>1, <3>1 DEF Subscribe
    <3>3. QED
      BY <3>2, AppendElements
  <2>2. /\ channel' \in [Subscriber -> [is: {"none", "open", "closed"}, buffer: Seq(Nat)]]
        /\ channel'[s].is = "open" /\ \A t \in Subscriber : t # s => channel'[t] = channel[t]
        /\ UNCHANGED <<publishing, published>>
    BY <1>1 DEF Subscribe
  <2>3. ToSet(subs) \subseteq Subscriber
    BY DEF ToSet
  <2>4. QED
    BY <2>1, <2>2, <2>3
<1>2. ASSUME NEW s \in Subscriber, Unsubscribe(s) PROVE FanOutInv'
  <2>1. PICK i \in DOMAIN subs : subs[i] = s /\ subs' = RemoveAt(subs, i)
    BY <1>2 DEF Unsubscribe
  <2>2. /\ subs' \in Seq(Subscriber) /\ Distinct(subs')
        /\ ToSet(subs') \subseteq ToSet(subs) \ {s}
    BY <2>1, RemoveAtProperties, RemoveAtElements
  <2>3. \A p \in Publisher : publishing[p].rest = <<>>
    BY <1>2 DEF Unsubscribe, NoReader
  <2>4. /\ channel' \in [Subscriber -> [is: {"none", "open", "closed"}, buffer: Seq(Nat)]]
        /\ \A t \in Subscriber : t # s => channel'[t] = channel[t]
        /\ UNCHANGED <<publishing, published>>
    BY <1>2 DEF Unsubscribe
  <2>5. ToSet(<<>>) = {}
    BY DEF ToSet
  <2>6. ToSet(subs') \subseteq Subscriber
    BY <2>2 DEF ToSet
  <2>7. QED
    BY <2>2, <2>3, <2>4, <2>5, <2>6
<1>3. ASSUME NEW s \in Subscriber, CloseAfter(s) PROVE FanOutInv'
  <2>1. ToSet(subs) \subseteq Subscriber
    BY DEF ToSet
  <2>2. QED
    BY <1>3, <2>1 DEF CloseAfter
<1>4. ASSUME NEW s \in Subscriber, ReceiveFrom(s) PROVE FanOutInv'
  <2>1. ToSet(subs) \subseteq Subscriber
    BY DEF ToSet
  <2>2. channel' = [channel EXCEPT ![s].buffer = Tail(channel[s].buffer)]
        /\ Tail(channel[s].buffer) \in Seq(Nat)
    BY <1>4 DEF ReceiveFrom
  <2>3. /\ channel' \in [Subscriber -> [is: {"none", "open", "closed"}, buffer: Seq(Nat)]]
        /\ \A t \in Subscriber : channel'[t].is = channel[t].is
    BY <2>2, BufferChanges
  <2>4. QED
    BY <1>4, <2>1, <2>3 DEF ReceiveFrom
<1>5. ASSUME NEW p \in Publisher, Publish(p) PROVE FanOutInv'
  BY <1>5 DEF Publish
<1>6. ASSUME NEW p \in Publisher, NEW i \in DOMAIN publishing[p].rest, SendTo(p, i) PROVE FanOutInv'
  <2> DEFINE s == publishing[p].rest[i]
             left == RemoveAt(publishing[p].rest, i)
  <2>1. publishing[p].rest \in Seq(Subscriber) /\ publishing[p].message \in Nat /\ s \in Subscriber
    OBVIOUS
  <2>2. left \in Seq(Subscriber) /\ ToSet(left) \subseteq ToSet(publishing[p].rest)
    BY <2>1, RemoveAtProperties, RemoveAtElements
  <2>3. /\ channel' \in [Subscriber -> [is: {"none", "open", "closed"}, buffer: Seq(Nat)]]
        /\ \A t \in Subscriber : channel'[t].is = channel[t].is
    <3>1. CASE Len(channel[s].buffer) < ChannelSize
      <4>1. channel' = [channel EXCEPT ![s].buffer = Append(channel[s].buffer, publishing[p].message)]
        BY <1>6, <3>1 DEF SendTo
      <4>2. Append(channel[s].buffer, publishing[p].message) \in Seq(Nat)
        BY <2>1
      <4> HIDE DEF s
      <4>3. QED
        BY <2>1, <4>1, <4>2, BufferChanges
    <3>2. CASE ~(Len(channel[s].buffer) < ChannelSize)
      BY <1>6, <3>2 DEF SendTo
    <3>3. QED
      BY <3>1, <3>2
  <2>4. publishing' = [publishing EXCEPT ![p].rest = left] /\ UNCHANGED <<subs, published>>
    BY <1>6 DEF SendTo
  <2>5. ~publishing[p].locked => FALSE
    BY <1>6
  <2>6. ToSet(subs) \subseteq Subscriber
    BY DEF ToSet
  <2> HIDE DEF s, left
  <2>7. /\ publishing' \in [Publisher -> [locked: BOOLEAN, message: Nat, rest: Seq(Subscriber)]]
        /\ publishing'[p].rest = left /\ publishing'[p].locked = publishing[p].locked
        /\ \A q \in Publisher : q # p => publishing'[q] = publishing[q]
    BY <2>2, <2>4
  <2>8. QED
    BY SMTT(30), <2>2, <2>3, <2>4, <2>5, <2>6, <2>7
<1>7. ASSUME NEW p \in Publisher, Unlock(p) PROVE FanOutInv'
  BY <1>7 DEF Unlock, Unlocked
<1>8. CASE UNCHANGED fanOutVars
  BY <1>8 DEF fanOutVars
<1>9. QED
  BY <1>1, <1>2, <1>3, <1>4, <1>5, <1>6, <1>7, <1>8 DEF FanOutNext

(* No channel is closed while a publisher is about to send to it.          *)
THEOREM ClosedChannelsGetNothing == FanOutSpec => []NeverSendsOnClosed
<1>1. FanOutInv /\ [FanOutNext]_fanOutVars => FanOutInv'
  BY FanOutStep
<1>2. FanOutInv => NeverSendsOnClosed
  BY DEF FanOutInv, NeverSendsOnClosed
<1>3. QED
  BY FanOutStart, <1>1, <1>2, PTL DEF FanOutSpec

-----------------------------------------------------------------------------
(* LongPoll.  Who is about to take his channel out of the list does so     *)
(* because his time is over.                                               *)

PollInv ==
  /\ waiters \in Seq(Poller)
  /\ box \in [Poller -> {0, 1}] /\ poller \in [Poller -> {"away", "select", "remove"}]
  /\ expired \subseteq Poller
  /\ PollsCanWake
  /\ \A c \in Poller : poller[c] = "remove" => c \in expired

LEMMA PollStart == LongPollInit => PollInv
BY DEF LongPollInit, PollInv, PollsCanWake, Registered

LEMMA PollStep == PollInv /\ [LongPollNext]_pollVars => PollInv'
<1> SUFFICES ASSUME PollInv, [LongPollNext]_pollVars
             PROVE  PollInv'
  OBVIOUS
<1> USE DEF PollInv, PollsCanWake
<1>0. Registered = ToSet(waiters) /\ Registered' = ToSet(waiters') /\ Distinct(waiters)
      /\ Registered \subseteq Poller
  BY DEF Registered, ToSet, Distinct
<1>1. ASSUME NEW c \in Poller, Wait(c) PROVE PollInv'
  <2>1. c \notin Registered /\ waiters' = Append(waiters, c)
    BY <1>1 DEF Wait
  <2>2. waiters' \in Seq(Poller) /\ Registered' = Registered \cup {c} /\ Distinct(waiters')
    BY <1>0, <2>1, AppendElements
  <2>3. QED
    BY <1>0, <1>1, <2>1, <2>2 DEF Wait, Distinct
<1>2. ASSUME NEW c \in Poller, Elapse(c) \/ Answered(c) \/ GivesUp(c) PROVE PollInv'
  <2>1. Registered' = Registered
    BY <1>2 DEF Elapse, Answered, GivesUp, Registered
  <2>2. CASE Elapse(c)
    BY <2>1, <2>2 DEF Elapse
  <2>3. CASE Answered(c)
    BY <2>1, <2>3 DEF Answered
  <2>4. CASE GivesUp(c)
    BY <2>1, <2>4 DEF GivesUp
  <2>5. QED
    BY <1>2, <2>2, <2>3, <2>4
<1>3. CASE PublishMessage
  <2>1. Registered' = {} /\ waiters' = <<>>
    BY <1>3 DEF PublishMessage, Registered
  <2>2. \A c \in Poller : box'[c] = IF c \in Registered THEN 1 ELSE box[c]
    BY <1>3 DEF PublishMessage
  <2>3. QED
    BY <1>0, <1>3, <2>1, <2>2 DEF PublishMessage
<1>4. ASSUME NEW c \in Poller, RemoveWaiter(c) PROVE PollInv'
  <2>1. waiters' \in Seq(Poller) /\ Registered' = Registered \ {c} /\ Distinct(waiters')
    <3>1. CASE c \notin Registered /\ UNCHANGED waiters
      BY <1>0, <3>1
    <3>2. CASE \E i \in DOMAIN waiters : waiters[i] = c /\ waiters' = RemoveAt(waiters, i)
      BY <1>0, <3>2, RemoveAtProperties, RemoveAtElements
    <3>3. QED
      BY <1>4, <3>1, <3>2 DEF RemoveWaiter
  <2>2. poller[c] = "remove" /\ c \in expired
    BY <1>4 DEF RemoveWaiter
  <2>3. QED
    BY <1>4, <2>1, <2>2 DEF RemoveWaiter, Distinct
<1>5. CASE UNCHANGED pollVars
  BY <1>5 DEF pollVars, Registered
<1>6. QED
  BY <1>1, <1>2, <1>3, <1>4, <1>5 DEF LongPollNext

(* A poll that may still block can be woken, and a message given to a poll *)
(* is lost only when its time had passed.                                  *)
THEOREM NoPollHangs == LongPollSpec => []PollsCanWake
<1>1. PollInv /\ [LongPollNext]_pollVars => PollInv'
  BY PollStep
<1>2. PollInv => PollsCanWake
  BY DEF PollInv
<1>3. QED
  BY PollStart, <1>1, <1>2, PTL DEF LongPollSpec

-----------------------------------------------------------------------------
(* Balancer.  Since(b) is how many steps ago the index was at b.  A Next   *)
(* that nobody disturbs has taken its i last steps, so a backend that has  *)
(* been healthy since it began is further away; a Next of least            *)
(* connections has no backend only if all before the i-th were unhealthy.  *)

Since(b) == IF b <= idx THEN idx - b ELSE idx - b + Backends

BalancerType ==
  /\ balancing \in {"rr", "lc"} /\ healthy \subseteq Backend /\ idx \in Backend
  /\ activeConns \in [Backend -> Int]
  /\ call \in [Caller -> [at: {"new", "next", "picked", "proxied", "refused", "over"},
                          i: Nat, best: Backend \cup {NoBackend}]]
  /\ steady \in [Caller -> SUBSET Backend] /\ disturbed \subseteq Caller

Looked(c) ==
  /\ call[c].i < Backends
  /\ balancing = "rr" /\ c \notin disturbed => \A b \in steady[c] : Since(b) >= call[c].i
  /\ balancing = "lc" /\ call[c].best = NoBackend => \A b \in steady[c] : b >= call[c].i

BalancerInv ==
  /\ BalancerType
  /\ \A c \in Caller :
       /\ steady[c] \subseteq healthy
       /\ call[c].at \in {"picked", "proxied"} => call[c].best \in Backend
       /\ call[c].at = "next" => Looked(c)
       /\ call[c].at = "refused" => steady[c] = {} \/ (balancing = "rr" /\ c \in disturbed)

LEMMA NextIndex ==
  ASSUME NEW x \in Backend
  PROVE  (x + 1) % Backends = IF x + 1 = Backends THEN 0 ELSE x + 1
BY BalancerAssumption DEF Backend

LEMMA BalancerStart == BalancerInit => BalancerInv
BY BalancerAssumption DEF BalancerInit, BalancerInv, BalancerType, Backend

Calls == [Caller -> [at: {"new", "next", "picked", "proxied", "refused", "over"},
                     i: Nat, best: Backend \cup {NoBackend}]]

LEMMA ChosenCall ==
  ASSUME call \in Calls, NEW c \in Caller, NEW b \in Backend \cup {NoBackend}, Chosen(c, b)
  PROVE  /\ call' \in Calls
         /\ call'[c].best = b
         /\ call'[c].at = IF b = NoBackend THEN "refused" ELSE "picked"
         /\ \A d \in Caller : d # c => call'[d] = call[d]
<1> DEFINE answer == [at |-> IF b = NoBackend THEN "refused" ELSE "picked", i |-> 0, best |-> b]
<1>1. answer \in [at: {"new", "next", "picked", "proxied", "refused", "over"},
                  i: Nat, best: Backend \cup {NoBackend}]
      /\ answer.best = b /\ answer.at = IF b = NoBackend THEN "refused" ELSE "picked"
  OBVIOUS
<1>2. call' = [call EXCEPT ![c] = answer]
  BY DEF Chosen
<1> HIDE DEF answer
<1>3. QED
  BY <1>1, <1>2 DEF Calls

LEMMA BackendBounds ==
  /\ \A b \in Backend : b \in Nat /\ b < Backends
  /\ Backends \in Nat \ {0} /\ 0 \in Backend /\ NoBackend \notin Backend
BY BalancerAssumption DEF Backend

LEMMA RoundRobinStep ==
  ASSUME BalancerInv, NEW c \in Caller, RoundRobinNext(c)
  PROVE  BalancerInv'
<1> USE DEF BalancerInv, BalancerType
<1>1. /\ balancing = "rr" /\ call[c].at = "next" /\ Looked(c)
      /\ disturbed' = disturbed \cup {d \in Caller \ {c} : call[d].at = "next"}
      /\ UNCHANGED <<balancing, healthy, activeConns, steady>>
  BY DEF RoundRobinNext
<1>2. idx' \in Backend /\ idx' = IF idx + 1 = Backends THEN 0 ELSE idx + 1
  <2>1. idx' = IF idx + 1 = Backends THEN 0 ELSE idx + 1
    BY NextIndex DEF RoundRobinNext
  <2>2. QED
    BY <2>1, BackendBounds DEF Backend
<1>3. \A b \in Backend : b # idx' => Since(b)' = Since(b) + 1 /\ Since(b) + 1 < Backends
  <2> SUFFICES ASSUME NEW b \in Backend, b # idx'
               PROVE  Since(b)' = Since(b) + 1 /\ Since(b) + 1 < Backends
    OBVIOUS
  <2>1. idx \in Nat /\ b \in Nat /\ b < Backends /\ idx < Backends /\ Backends \in Nat
    BY BackendBounds
  <2>2. CASE idx + 1 = Backends
    BY <1>2, <2>1, <2>2 DEF Since
  <2>3. CASE idx + 1 # Backends
    BY <1>2, <2>1, <2>3 DEF Since
  <2>4. QED
    BY <2>2, <2>3
<1>4. ASSUME NEW d \in Caller, d # c, call'[d] = call[d]
      PROVE  /\ call'[d].at = "next" => Looked(d)'
             /\ call'[d].at = "refused" => steady'[d] = {} \/ (balancing' = "rr" /\ d \in disturbed')
  BY <1>1, <1>4 DEF Looked
<1>5. call \in Calls
  BY DEF Calls
<1>6. CASE idx' \in healthy
  <2>1. Chosen(c, idx')
    BY <1>6 DEF RoundRobinNext
  <2>2. idx' # NoBackend
    BY <1>2, BackendBounds
  <2>3. /\ call' \in Calls /\ call'[c].best = idx' /\ call'[c].at = "picked"
        /\ \A d \in Caller : d # c => call'[d] = call[d]
    BY <2>1, <2>2, <1>2, <1>5, ChosenCall
  <2>4. QED
    BY <1>1, <1>2, <1>4, <2>3 DEF Calls
<1>7. ASSUME idx' \notin healthy, c \notin disturbed
      PROVE  \A b \in steady[c] : Since(b)' >= call[c].i + 1 /\ Since(b)' < Backends
  <2> SUFFICES ASSUME NEW b \in steady[c]
               PROVE  Since(b)' >= call[c].i + 1 /\ Since(b)' < Backends
    OBVIOUS
  <2>1. b \in Backend /\ b # idx'
    BY <1>7
  <2>2. Since(b) >= call[c].i
    BY <1>1, <1>7 DEF Looked
  <2>3. Since(b) \in Int /\ call[c].i \in Nat
    BY <2>1, BackendBounds DEF Since
  <2>4. QED
    BY <1>3, <2>1, <2>2, <2>3
<1>8. CASE idx' \notin healthy /\ call[c].i + 1 = Backends
  <2>1. Chosen(c, NoBackend)
    BY <1>8 DEF RoundRobinNext
  <2>2. /\ call' \in Calls /\ call'[c].at = "refused"
        /\ \A d \in Caller : d # c => call'[d] = call[d]
    BY <2>1, <1>5, ChosenCall
  <2>3. steady[c] = {} \/ c \in disturbed
    <3>1. ASSUME NEW b \in steady[c], c \notin disturbed PROVE FALSE
      <4>1. Since(b)' >= Backends /\ Since(b)' < Backends
        BY <1>7, <1>8, <3>1
      <4>2. Since(b)' \in Int
        BY <1>2, BackendBounds DEF Since
      <4>3. QED
        BY <4>1, <4>2, BackendBounds
    <3>2. QED
      BY <3>1
  <2>4. QED
    BY <1>1, <1>2, <1>4, <2>2, <2>3 DEF Calls
<1>9. CASE idx' \notin healthy /\ call[c].i + 1 # Backends
  <2>1. PICK n \in Nat : n = call[c].i + 1
    OBVIOUS
  <2>2. call' = [call EXCEPT ![c].i = n]
    BY <1>9, <2>1 DEF RoundRobinNext
  <2>3. /\ call' \in Calls /\ call'[c].at = "next" /\ call'[c].i = n /\ call'[c].best = call[c].best
        /\ \A d \in Caller : d # c => call'[d] = call[d]
    BY <1>1, <1>5, <2>2 DEF Calls
  <2>4. Looked(c)'
    <3>1. n < Backends
      <4>1. call[c].i \in Nat /\ call[c].i < Backends /\ Backends \in Nat /\ n # Backends
        BY <1>1, <1>9, <2>1, BackendBounds DEF Looked
      <4>2. QED
        BY <2>1, <4>1
    <3>2. c \notin disturbed' => \A b \in steady[c] : Since(b)' >= n
      BY <1>1, <1>7, <1>9, <2>1
    <3>3. QED
      BY <1>1, <2>3, <3>1, <3>2 DEF Looked
  <2>5. QED
    BY <1>1, <1>2, <1>4, <2>3, <2>4 DEF Calls
<1>10. QED
  BY <1>6, <1>8, <1>9

LEMMA LeastConnStep ==
  ASSUME BalancerInv, NEW c \in Caller, LeastConnNext(c)
  PROVE  BalancerInv'
<1> USE DEF BalancerInv, BalancerType
<1> DEFINE b == call[c].i
           best == call[c].best
           better == b \in healthy /\ (best = NoBackend \/ activeConns[b] < activeConns[best])
           now == IF better THEN b ELSE best
<1>1. /\ balancing = "lc" /\ call[c].at = "next" /\ Looked(c)
      /\ UNCHANGED <<balancing, healthy, activeConns, idx, steady, disturbed>>
  BY DEF LeastConnNext
<1>2. /\ b \in Backend /\ b \in Nat /\ b < Backends /\ call \in Calls
      /\ now \in Backend \cup {NoBackend}
  BY <1>1, BackendBounds DEF Looked, Backend, Calls
<1>3. now = NoBackend => \A x \in steady[c] : x >= b + 1
  <2> SUFFICES ASSUME now = NoBackend, NEW x \in steady[c] PROVE x >= b + 1
    OBVIOUS
  <2>1. best = NoBackend /\ b \notin healthy
    BY <1>2, BackendBounds
  <2>2. x >= b /\ x # b /\ x \in Nat
    BY <1>1, <2>1, BackendBounds DEF Looked
  <2>3. QED
    BY <1>2, <2>2
<1>4. ASSUME NEW d \in Caller, d # c, call'[d] = call[d]
      PROVE  call'[d].at = "next" => Looked(d)'
  BY <1>1, <1>4 DEF Looked, Since
<1>5. CASE b + 1 = Backends
  <2>1. Chosen(c, now)
    BY <1>5 DEF LeastConnNext
  <2> HIDE DEF now
  <2>2. /\ call' \in Calls /\ call'[c].best = now
        /\ call'[c].at = IF now = NoBackend THEN "refused" ELSE "picked"
        /\ \A d \in Caller : d # c => call'[d] = call[d]
    BY <2>1, <1>2, ChosenCall
  <2>3. now = NoBackend => steady[c] = {}
    <3>1. ASSUME now = NoBackend, NEW x \in steady[c] PROVE FALSE
      <4>1. x >= Backends /\ x \in Backend
        BY <1>3, <1>5, <3>1
      <4>2. QED
        BY <4>1, BackendBounds
    <3>2. QED
      BY <3>1
  <2>4. QED
    BY <1>1, <1>2, <1>4, <2>2, <2>3 DEF Calls
<1>6. CASE b + 1 # Backends
  <2> DEFINE next == [at |-> "next", i |-> b + 1, best |-> now]
  <2>1. call' = [call EXCEPT ![c] = next]
    BY <1>6 DEF LeastConnNext
  <2>2. /\ next \in [at: {"new", "next", "picked", "proxied", "refused", "over"},
                     i: Nat, best: Backend \cup {NoBackend}]
        /\ next.at = "next" /\ next.i = b + 1 /\ next.best = now
    BY <1>2
  <2> HIDE DEF now, next
  <2>3. /\ call' \in Calls /\ call'[c] = next
        /\ \A d \in Caller : d # c => call'[d] = call[d]
    BY <1>2, <2>1, <2>2 DEF Calls
  <2>4. Looked(c)'
    <3>1. b + 1 < Backends
      BY <1>2, <1>6, BackendBounds
    <3>2. QED
      BY <1>1, <1>3, <2>2, <2>3, <3>1 DEF Looked
  <2>5. QED
    BY <1>1, <1>2, <1>4, <2>2, <2>3, <2>4 DEF Calls
<1>7. QED
  BY <1>5, <1>6

LEMMA BalancerStep == BalancerInv /\ [BalancerNext]_balancerVars => BalancerInv'
<1> SUFFICES ASSUME BalancerInv, [BalancerNext]_balancerVars
             PROVE  BalancerInv'
  OBVIOUS
<1> USE DEF BalancerInv, BalancerType
<1>1. ASSUME NEW b \in Backend, Flip(b) PROVE BalancerInv'
  BY <1>1 DEF Flip, Looked, Since
<1>2. ASSUME NEW b \in Backend, CheckHealth(b) PROVE BalancerInv'
  <2>1. /\ healthy' \subseteq Backend
        /\ steady' = [c \in Caller |-> steady[c] \cap healthy']
        /\ UNCHANGED <<balancing, activeConns, idx, call, disturbed>>
    BY <1>2 DEF CheckHealth
  <2>2. \A c \in Caller : steady'[c] \subseteq steady[c] /\ steady'[c] \subseteq healthy'
    BY <2>1
  <2>3. steady' \in [Caller -> SUBSET Backend]
    BY <2>1
  <2>4. \A c \in Caller : Looked(c) => Looked(c)'
    BY <2>1, <2>2 DEF Looked, Since
  <2>5. QED
    BY <2>1, <2>2, <2>3, <2>4
<1>3. ASSUME NEW c \in Caller, CallNext(c) PROVE BalancerInv'
  <2> DEFINE next == [at |-> "next", i |-> 0, best |-> NoBackend]
  <2>1. /\ call' = [call EXCEPT ![c] = next]
        /\ steady' = [steady EXCEPT ![c] = healthy]
        /\ UNCHANGED <<balancing, healthy, activeConns, idx, disturbed>>
    BY <1>3 DEF CallNext
  <2>2. /\ next \in [at: {"new", "next", "picked", "proxied", "refused", "over"},
                     i: Nat, best: Backend \cup {NoBackend}]
        /\ next.at = "next" /\ next.i = 0
    OBVIOUS
  <2> HIDE DEF next
  <2>3. /\ call' \in Calls /\ call'[c] = next /\ steady'[c] = healthy
        /\ steady' \in [Caller -> SUBSET Backend]
        /\ \A d \in Caller : d # c => call'[d] = call[d] /\ steady'[d] = steady[d]
    BY <2>1, <2>2 DEF Calls
  <2>4. Looked(c)'
    <3>1. \A b \in Backend : b >= 0 /\ Since(b) >= 0
      BY BackendBounds DEF Since
    <3>2. QED
      BY <2>1, <2>2, <2>3, <3>1, BackendBounds DEF Looked, Since
  <2>5. \A d \in Caller : d # c /\ Looked(d) => Looked(d)'
    BY <2>1, <2>3 DEF Looked, Since
  <2>6. QED
    BY <2>1, <2>2, <2>3, <2>4, <2>5 DEF Calls
<1>4. ASSUME NEW c \in Caller, RoundRobinNext(c) PROVE BalancerInv'
  BY <1>4, RoundRobinStep
<1>5. ASSUME NEW c \in Caller, LeastConnNext(c) PROVE BalancerInv'
  BY <1>5, LeastConnStep
<1>6. ASSUME NEW c \in Caller, Proxy(c) \/ EndRequest(c) PROVE BalancerInv'
  <2>1. PICK where \in {"proxied", "over"} : call' = [call EXCEPT ![c].at = where]
    BY <1>6 DEF Proxy, EndRequest
  <2>2. UNCHANGED <<balancing, healthy, idx, steady, disturbed>>
    BY <1>6 DEF Proxy, EndRequest
  <2>3. call[c].best \in Backend
    BY <1>6 DEF Proxy, EndRequest
  <2>4. activeConns' \in [Backend -> Int]
    BY <1>6, <2>3 DEF Proxy, EndRequest
  <2>5. /\ call' \in Calls /\ call'[c].at = where /\ call'[c].best = call[c].best
        /\ \A d \in Caller : d # c => call'[d] = call[d]
    BY <2>1 DEF Calls
  <2>6. \A d \in Caller : d # c /\ Looked(d) => Looked(d)'
    BY <2>2, <2>5 DEF Looked, Since
  <2>7. QED
    BY <2>2, <2>3, <2>4, <2>5, <2>6 DEF Calls
<1>7. CASE UNCHANGED balancerVars
  BY <1>7 DEF balancerVars, Looked, Since
<1>8. QED
  BY <1>1, <1>2, <1>3, <1>4, <1>5, <1>6, <1>7 DEF BalancerNext

(* The connections counted for a backend are the requests proxied to it.   *)
Proxied(b) == {c \in Caller : call[c].at = "proxied" /\ call[c].best = b}
ConnsCounted == \A b \in Backend : activeConns[b] = Cardinality(Proxied(b))

LEMMA ProxiedFinite ==
  ASSUME NEW b
  PROVE  IsFiniteSet(Proxied(b)) /\ Cardinality(Proxied(b)) \in Nat
<1>1. Proxied(b) \in SUBSET Caller
  BY DEF Proxied
<1>2. QED
  BY <1>1, FS_Subset, FS_CardinalityType, BalancerAssumption

LEMMA ConnsStay ==
  ASSUME ConnsCounted, activeConns' = activeConns,
         \A c \in Caller : (call'[c].at = "proxied") = (call[c].at = "proxied"),
         \A c \in Caller : call'[c].at = "proxied" => call'[c].best = call[c].best
  PROVE  ConnsCounted'
<1>1. \A b : Proxied(b)' = Proxied(b)
  BY DEF Proxied
<1>2. QED
  BY <1>1 DEF ConnsCounted

LEMMA ConnsStep ==
  ASSUME BalancerInv, BalancerInv', ConnsCounted, [BalancerNext]_balancerVars
  PROVE  ConnsCounted'
<1> USE DEF BalancerInv, BalancerType
<1>0. call \in Calls
  BY DEF Calls
<1>1. ASSUME NEW b \in Backend, Flip(b) \/ CheckHealth(b) PROVE ConnsCounted'
  BY <1>1, ConnsStay DEF Flip, CheckHealth
<1>2. ASSUME NEW c \in Caller, call[c].at \notin {"proxied"}, call'[c].at \notin {"proxied"},
             \A d \in Caller : d # c => call'[d] = call[d], activeConns' = activeConns
      PROVE  ConnsCounted'
  BY <1>2, ConnsStay
<1>3. ASSUME NEW c \in Caller, CallNext(c) PROVE ConnsCounted'
  <2>1. PICK next : call' = [call EXCEPT ![c] = next] /\ next.at = "next"
    BY <1>3 DEF CallNext
  <2>2. QED
    BY <1>2, <1>3, <2>1 DEF CallNext
<1>4. ASSUME NEW c \in Caller, RoundRobinNext(c) PROVE ConnsCounted'
  <2>1. idx' \in Backend \cup {NoBackend} /\ call[c].at = "next" /\ activeConns' = activeConns
    BY <1>4 DEF RoundRobinNext
  <2>2. CASE \E b \in Backend \cup {NoBackend} : Chosen(c, b)
    BY <1>0, <1>2, <2>1, <2>2, ChosenCall
  <2>3. CASE call' = [call EXCEPT ![c].i = call[c].i + 1]
    BY <1>2, <2>1, <2>3
  <2>4. QED
    BY <1>4, <2>1, <2>2, <2>3 DEF RoundRobinNext
<1>5. ASSUME NEW c \in Caller, LeastConnNext(c) PROVE ConnsCounted'
  <2>1. call[c].at = "next" /\ activeConns' = activeConns /\ Looked(c)
    BY <1>5 DEF LeastConnNext
  <2>2. CASE \E b \in Backend \cup {NoBackend} : Chosen(c, b)
    BY <1>0, <1>2, <2>1, <2>2, ChosenCall
  <2>3. CASE \E n, b : call' = [call EXCEPT ![c] = [at |-> "next", i |-> n, best |-> b]]
    BY <1>2, <2>1, <2>3
  <2>4. call[c].i \in Backend
    BY <2>1, BackendBounds DEF Looked, Backend
  <2>5. QED
    BY <1>5, <2>2, <2>3, <2>4 DEF LeastConnNext
<1>6. ASSUME NEW c \in Caller, Proxy(c) PROVE ConnsCounted'
  <2>0. PICK b \in Backend : b = call[c].best
    BY <1>6 DEF Proxy
  <2>1. b \in Backend /\ call[c].at = "picked" /\ activeConns' = [activeConns EXCEPT ![b] = @ + 1]
    BY <2>0, <1>6 DEF Proxy
  <2>2. /\ call'[c].at = "proxied" /\ call'[c].best = b
        /\ \A d \in Caller : d # c => call'[d] = call[d]
    BY <2>0, <1>6 DEF Proxy
  <2>3. Proxied(b)' = Proxied(b) \cup {c} /\ c \notin Proxied(b)
    BY <2>0, <2>1, <2>2 DEF Proxied
  <2>4. \A x \in Backend : x # b => Proxied(x)' = Proxied(x)
    BY <2>0, <2>1, <2>2 DEF Proxied
  <2>5. Cardinality(Proxied(b)') = Cardinality(Proxied(b)) + 1
    BY <2>3, ProxiedFinite, FS_AddElement
  <2>6. QED
    <3>1. activeConns'[b] = activeConns[b] + 1 /\ \A x \in Backend : x # b => activeConns'[x] = activeConns[x]
      BY <2>1
    <3>2. \A x \in Backend : activeConns[x] = Cardinality(Proxied(x))
      BY DEF ConnsCounted
    <3>3. \A x \in Backend : activeConns'[x] = Cardinality(Proxied(x)')
      BY <2>1, <2>4, <2>5, <3>1, <3>2
    <3>4. QED
      BY <3>3 DEF ConnsCounted
<1>7. ASSUME NEW c \in Caller, EndRequest(c) PROVE ConnsCounted'
  <2>0. PICK b \in Backend : b = call[c].best
    BY <1>7 DEF EndRequest
  <2>1. b \in Backend /\ call[c].at = "proxied" /\ activeConns' = [activeConns EXCEPT ![b] = @ - 1]
    BY <2>0, <1>7 DEF EndRequest
  <2>2. /\ call'[c].at = "over" /\ call'[c].best = b
        /\ \A d \in Caller : d # c => call'[d] = call[d]
    BY <2>0, <1>7 DEF EndRequest
  <2>3. Proxied(b)' = Proxied(b) \ {c} /\ c \in Proxied(b)
    BY <2>0, <2>1, <2>2 DEF Proxied
  <2>4. \A x \in Backend : x # b => Proxied(x)' = Proxied(x)
    BY <2>0, <2>1, <2>2 DEF Proxied
  <2>5. Cardinality(Proxied(b)') = Cardinality(Proxied(b)) - 1
    <3>1. IsFiniteSet(Proxied(b))
      BY ProxiedFinite
    <3>2. Cardinality(Proxied(b) \ {c}) = Cardinality(Proxied(b)) - 1
      BY <2>3, <3>1, FS_RemoveElement
    <3>3. QED
      BY <2>3, <3>2
  <2>6. QED
    <3>1. activeConns'[b] = activeConns[b] - 1 /\ \A x \in Backend : x # b => activeConns'[x] = activeConns[x]
      BY <2>1
    <3>2. \A x \in Backend : activeConns[x] = Cardinality(Proxied(x))
      BY DEF ConnsCounted
    <3>3. \A x \in Backend : activeConns'[x] = Cardinality(Proxied(x)')
      BY <2>1, <2>4, <2>5, <3>1, <3>2
    <3>4. QED
      BY <3>3 DEF ConnsCounted
<1>8. CASE UNCHANGED balancerVars
  BY <1>8, ConnsStay DEF balancerVars
<1>9. QED
  BY <1>1, <1>3, <1>4, <1>5, <1>6, <1>7, <1>8 DEF BalancerNext

(* A request is refused although a backend was healthy all along only by   *)
(* round robin and only when others moved the index meanwhile; and the     *)
(* connections compared are those of the requests being proxied.           *)
THEOREM RefusalsAreExplained == BalancerSpec => []NoFalse503
<1> DEFINE Inv == BalancerInv /\ ConnsCounted
<1>1. BalancerInit => Inv
  <2> SUFFICES ASSUME BalancerInit PROVE Inv
    OBVIOUS
  <2>1. \A b : Proxied(b) = {}
    BY DEF BalancerInit, Proxied
  <2>2. QED
    BY <2>1, BalancerStart, FS_EmptySet DEF BalancerInit, ConnsCounted
<1>2. Inv /\ [BalancerNext]_balancerVars => Inv'
  BY BalancerStep, ConnsStep
<1>3. Inv => NoFalse503
  BY DEF BalancerInv, ConnsCounted, Proxied, NoFalse503
<1>4. QED
  BY <1>1, <1>2, <1>3, PTL DEF BalancerSpec
=============================================================================
