-------------------------- MODULE SchedulerProofs --------------------------
(***************************************************************************)
(* The scheduler's types, counters and gate, for any jobs, names,          *)
(* tenants, rules, pool size and number of disturbances.                   *)
(*                                                                         *)
(* The induction needs, beside the types, that a run selects only jobs of  *)
(* its own name that exist.  The counters and the gate then follow from    *)
(* one lemma, Admission: a step lets jobs go, counts anew, or lets one     *)
(* approved job through and counts it.                                     *)
(***************************************************************************)
EXTENDS SchedulerProps, FiniteSetTheorems, TLAPS

USE JobAssumption, RulesAssumption, BoundAssumption, NoneAssumption

SelectsItsOwn ==
  \A n \in JobName : \A j \in Job :
    run[n].chosen[j] > 0 => NameOf[j] = n /\ status[j] # None

SchedInv == TypeOK /\ SelectsItsOwn

-----------------------------------------------------------------------------
(* Keys and counts.                                                        *)

\* A rule expands to a key of the pool and has a limit.
LEMMA ExpandType ==
  ASSUME NEW j \in Job, NEW t \in DOMAIN RulesOf(j), NEW control \in BOOLEAN
  PROVE  Expand(t, j, control) \in Key /\ RulesOf(j)[t] \in Nat
<1>1. NameOf[j] \in JobName /\ TenantOf[j] \in Tenant /\ EnvOf[j] \in Env
  OBVIOUS
<1>2. t \in Template
  BY <1>1 DEF RulesOf
<1>3. Expand(t, j, control) \in Key
  BY <1>1, <1>2, KeyAssumption DEF Expand, Key, Template
<1> QED  BY <1>1, <1>3 DEF RulesOf

\* For names and tenants a search projection and a row give the same keys.
LEMMA SameKeys ==
  ASSUME NEW j \in Job, NEW k \in SharedKey
  PROVE  k \in Keys(j, TRUE) <=> k \in Keys(j, FALSE)
<1>1. NameOf[j] \in JobName /\ TenantOf[j] \in Tenant /\ EnvOf[j] \in Env
  OBVIOUS
<1>2. /\ k # EnvOf[j] /\ k # "$env"
      /\ \A v \in Env \cup {"$env"} : k # Joined[TenantOf[j]][v]
  BY <1>1, KeyAssumption DEF SharedKey
<1>3. \A t \in DOMAIN RulesOf(j) : t \in Template
  BY <1>1 DEF RulesOf
<1>4. \A t \in DOMAIN RulesOf(j) : k = Expand(t, j, TRUE) <=> k = Expand(t, j, FALSE)
  BY <1>2, <1>3 DEF Expand, Template
<1> QED  BY <1>4 DEF Keys

\* Counting is counting: natural, monotone, and one more at most for one more.
LEMMA CountedFacts ==
  ASSUME NEW S \in SUBSET Job, NEW k
  PROVE  /\ Counted(S, k) \in Nat
         /\ \A T \in SUBSET S : Counted(T, k) <= Counted(S, k)
         /\ \A j \in Job : Counted(S \cup {j}, k)
                             <= Counted(S, k) + IF k \in Keys(j, TRUE) THEN 1 ELSE 0
<1> DEFINE Of(T) == {j \in T : k \in Keys(j, TRUE)}
<1>1. \A T \in SUBSET Job : IsFiniteSet(Of(T)) /\ Cardinality(Of(T)) \in Nat
  BY FS_Subset, FS_CardinalityType
<1>2. Counted(S, k) \in Nat
  BY <1>1 DEF Counted
<1>3. ASSUME NEW T \in SUBSET S
      PROVE  Counted(T, k) <= Counted(S, k)
  <2>1. Of(T) \in SUBSET Of(S)
    OBVIOUS
  <2> QED  BY <1>1, <2>1, FS_Subset DEF Counted
<1>4. ASSUME NEW j \in Job
      PROVE  Counted(S \cup {j}, k) <= Counted(S, k) + IF k \in Keys(j, TRUE) THEN 1 ELSE 0
  <2>1. CASE k \in Keys(j, TRUE)
    <3>1. Of(S \cup {j}) = Of(S) \cup {j}
      BY <2>1
    <3>2. IsFiniteSet(Of(S)) /\ Cardinality(Of(S)) \in Nat
      BY <1>1
    <3> HIDE DEF Of
    <3>3. Cardinality(Of(S) \cup {j}) = IF j \in Of(S) THEN Cardinality(Of(S)) ELSE Cardinality(Of(S)) + 1
      BY <3>2, FS_AddElement
    <3>4. Cardinality(Of(S) \cup {j}) <= Cardinality(Of(S)) + 1
      BY <3>2, <3>3
    <3> QED  BY <2>1, <3>1, <3>4 DEF Counted, Of
  <2>2. CASE k \notin Keys(j, TRUE)
    <3>1. Of(S \cup {j}) = Of(S)
      BY <2>2
    <3>2. Counted(S \cup {j}, k) = Counted(S, k)
      BY <3>1 DEF Counted
    <3> QED  BY <1>2, <2>2, <3>2
  <2> QED  BY <2>1, <2>2
<1> QED  BY <1>2, <1>3, <1>4

\* A count of the database is a pool.
LEMMA PopulateType ==
  ASSUME NEW S \in SUBSET Job, PopulateFromDB(S)
  PROVE  pool' \in [Key -> Nat]
  BY CountedFacts DEF PopulateFromDB

\* The jobs that hold a slot are jobs.
LEMMA HoldingType ==
  ASSUME TypeOK
  PROVE  Holding \in SUBSET Job /\ Active \in SUBSET Job
  BY DEF TypeOK, Run, Holding, Gated, Active

-----------------------------------------------------------------------------
(* Types.                                                                  *)

\* The initial state has the invariant.
LEMMA InitInv == Init => SchedInv
<1> SUFFICES ASSUME Init PROVE SchedInv
  OBVIOUS
<1>1. Idle \in Run /\ Idle.ids = {}
  BY DEF Idle, NoneChosen, Run
<1>2. TypeOK
  <2>1. run \in [JobName -> Run] /\ \A n \in JobName : run[n].ids = {}
    BY <1>1 DEF Init
  <2>2. pool \in [Key -> Nat] /\ status \in [Job -> Status \cup {None}]
    BY DEF Init
  <2>3. /\ requests = {} /\ snapshot = {} /\ doomed = {} /\ queue = {}
        /\ raced = FALSE /\ disturbances \in 0..MaxDisturbances
    BY DEF Init
  <2> QED  BY <2>1, <2>2, <2>3 DEF TypeOK
<1>3. SelectsItsOwn
  BY DEF Init, SelectsItsOwn, Idle, NoneChosen
<1> QED  BY <1>2, <1>3 DEF SchedInv

\* What a run may become: one that works, on jobs of its own name.
Sound(n, r) ==
  /\ r \in Run
  /\ \A j \in Job : r.chosen[j] > 0 => NameOf[j] = n /\ status[j] # None
  /\ \A j \in r.ids : NameOf[j] = n /\ status[j] # None
  /\ r.ids # {} => r.at \in {"gate", "mark", "dispatch", "fail"}

Moves(n) == \E r : Sound(n, r) /\ run' = [run EXCEPT ![n] = r]

\* Rows are kept; once there is one, it has a status.
Rows == /\ status' \in [Job -> Status \cup {None}]
        /\ \A j \in Job : status[j] # None => status'[j] # None

LEMMA RunSound ==
  ASSUME SchedInv, NEW n \in JobName
  PROVE  Sound(n, run[n]) /\ Sound(n, Idle)
<1>1. Sound(n, run[n])
  BY DEF SchedInv, TypeOK, SelectsItsOwn, Sound
<1>2. Sound(n, Idle)
  BY DEF Sound, Idle, NoneChosen, Run
<1> QED  BY <1>1, <1>2

\* A step that moves one run, and keeps the types of the rest, is harmless.
LEMMA Harmless ==
  ASSUME SchedInv, run' = run \/ \E n \in JobName : Moves(n), Rows,
         pool' \in [Key -> Nat],
         requests' \subseteq [job : Job, next : {"RETRY", "CANCELLED"}],
         snapshot' \subseteq SUBSET Job, doomed' \subseteq Job, queue' \subseteq Job,
         raced' \in BOOLEAN, disturbances' \in 0..MaxDisturbances
  PROVE  SchedInv'
<1>1. \A m \in JobName : Sound(m, run[m])
  BY RunSound
<1>2. \A m \in JobName : run'[m] = run[m] \/ Sound(m, run'[m])
  BY DEF SchedInv, TypeOK, Moves
<1>3. run' \in [JobName -> Run]
  BY DEF SchedInv, TypeOK, Moves, Sound
<1>4. \A m \in JobName : Sound(m, run'[m]) /\ run'[m].ids \in SUBSET Job
  BY <1>1, <1>2, <1>3 DEF Run
<1>5. SelectsItsOwn'
  BY <1>4 DEF SelectsItsOwn, Sound, Rows
<1>6. \A m \in JobName :
        /\ \A j \in run'[m].ids : NameOf[j] = m /\ status'[j] # None
        /\ run'[m].ids # {} => run'[m].at \in {"gate", "mark", "dispatch", "fail"}
  BY <1>4 DEF Sound, Rows
<1>7. TypeOK'
  BY <1>3, <1>6 DEF TypeOK, Rows
<1> QED  BY <1>5, <1>7 DEF SchedInv

\* The two ways in which most runs move.
LEMMA Finishes ==
  ASSUME SchedInv, NEW n \in JobName, Finish(n)
  PROVE  Moves(n)
  BY RunSound DEF Finish, Moves

LEMMA TriggerMoves ==
  ASSUME SchedInv, NEW n \in JobName, run' = Triggered(n)
  PROVE  run' = run \/ Moves(n)
<1>1. CASE At(n, "idle")
  <2> DEFINE r == [run[n] EXCEPT !.at = "queued"]
  <2>1. run[n] \in Run /\ run[n].ids = {}
    BY <1>1 DEF SchedInv, TypeOK, At
  <2>2. Sound(n, r)
    BY <2>1, RunSound DEF Sound, Run
  <2>3. run' = [run EXCEPT ![n] = r]
    BY <1>1 DEF Triggered
  <2> QED  BY <2>2, <2>3 DEF Moves
<1> QED  BY <1>1 DEF Triggered

-----------------------------------------------------------------------------
(* Every step keeps the invariant.                                         *)

\* The steps of a run.
LEMMA StartKeeps ==
  ASSUME SchedInv, NEW n \in JobName, Start(n)
  PROVE  SchedInv'
<1> DEFINE room == GetGlobalAvailability(n)
           r == [run[n] EXCEPT !.at = "search", !.room = room]
<1>1. room \in Nat
  <2>1. n \in Key /\ pool[n] \in Nat /\ Rules[n]["$jobName"] \in Nat
    BY DEF SchedInv, TypeOK, Key
  <2> QED  BY <2>1 DEF GetGlobalAvailability
<1>2. run[n] \in Run /\ run[n].ids = {}
  BY DEF SchedInv, TypeOK, Start, HasSlot, At
<1>3. Sound(n, r)
  <2> HIDE DEF room
  <2> QED  BY <1>1, <1>2, RunSound DEF Sound, Run
<1>4. Moves(n)
  <2>1. CASE room = 0
    BY <2>1, Finishes DEF Start
  <2>2. CASE room # 0
    <3>1. run' = [run EXCEPT ![n] = r]
      BY <2>2 DEF Start
    <3> QED  BY <1>3, <3>1 DEF Moves
  <2> QED  BY <2>1, <2>2
<1> QED  BY <1>4, Harmless DEF Start, SchedInv, TypeOK, Rows

LEMMA FillKeeps ==
  ASSUME SchedInv, NEW n \in JobName, FillVacantSpots(n)
  PROVE  SchedInv'
<1>1. PICK candidates \in SUBSET {j \in Indexed : /\ NameOf[j] = n
                                                  /\ status[j] # None
                                                  /\ TenantOf[j] \notin run[n].exhausted} :
        LET blocked == {j \in candidates : ~AllVacant(j)}
            chosen == [j \in Job |-> run[n].chosen[j]
                                      + IF j \in candidates \ blocked THEN 1 ELSE 0]
            remaining == run[n].room - Total(chosen)
            stop == Cardinality(candidates) < remaining \/ blocked = {}
        IN IF ~stop
           THEN run' = [run EXCEPT ![n].chosen = chosen,
                                   ![n].exhausted = @ \cup {TenantOf[j] : j \in blocked}]
           ELSE IF chosen = NoneChosen THEN Finish(n)
           ELSE run' = [run EXCEPT ![n] = [Idle EXCEPT !.at = "gate", !.chosen = chosen]]
  BY DEF FillVacantSpots
<1> DEFINE blocked == {j \in candidates : ~AllVacant(j)}
           chosen == [j \in Job |-> run[n].chosen[j]
                                     + IF j \in candidates \ blocked THEN 1 ELSE 0]
           tenants == {TenantOf[j] : j \in blocked}
           on == [run[n] EXCEPT !.chosen = chosen, !.exhausted = @ \cup tenants]
           over == [Idle EXCEPT !.at = "gate", !.chosen = chosen]
<1>2. run[n] \in Run /\ run[n].ids = {}
  BY DEF SchedInv, TypeOK, FillVacantSpots, At
<1>3. chosen \in [Job -> Nat]
  BY <1>2 DEF Run
<1>4. \A j \in Job : chosen[j] > 0 => NameOf[j] = n /\ status[j] # None
  BY <1>2, RunSound DEF Sound, Run
<1>5. tenants \in SUBSET Tenant
  OBVIOUS
<1>6. run' = [run EXCEPT ![n] = on] \/ Finish(n) \/ run' = [run EXCEPT ![n] = over]
  BY ZenonT(40), <1>1
<1> HIDE DEF chosen, tenants
<1>7. Sound(n, on)
  BY <1>2, <1>3, <1>4, <1>5 DEF Sound, Run
<1>8. Sound(n, over)
  BY <1>3, <1>4 DEF Sound, Run, Idle
<1>9. Moves(n)
  BY <1>6, <1>7, <1>8, Finishes DEF Moves
<1> QED  BY <1>9, Harmless DEF FillVacantSpots, SchedInv, TypeOK, Rows

LEMMA MarksSound ==
  ASSUME NEW n \in JobName, NEW S \in SUBSET Job,
         \A i \in S : NameOf[i] = n /\ status[i] # None
  PROVE  Sound(n, [Idle EXCEPT !.at = "mark", !.ids = S])
<1>1. NoneChosen \in [Job -> Nat] /\ \A i \in Job : NoneChosen[i] = 0
  BY DEF NoneChosen
<1> DEFINE r == [Idle EXCEPT !.at = "mark", !.ids = S]
<1>2. /\ r \in Run
      /\ r.ids = S /\ r.chosen = NoneChosen /\ r.at = "mark"
  BY <1>1 DEF Run, Idle
<1> QED  BY <1>1, <1>2 DEF Sound

LEMMA GateKeeps ==
  ASSUME SchedInv, NEW n \in JobName, NEW j \in Job, EvaluateJobPublish(n, j)
  PROVE  SchedInv'
<1> DEFINE left == [run[n].chosen EXCEPT ![j] = @ - 1]
           ids == IF Approved(j) THEN run[n].ids \cup {j} ELSE run[n].ids
           on == [run[n] EXCEPT !.chosen = left, !.ids = ids]
           over == [Idle EXCEPT !.at = "mark", !.ids = ids]
<1>1. run[n] \in Run /\ run[n].at = "gate" /\ run[n].chosen[j] > 0
  BY DEF SchedInv, TypeOK, EvaluateJobPublish, At
<1>2. left \in [Job -> Nat] /\ \A i \in Job : left[i] <= run[n].chosen[i]
  BY <1>1 DEF Run
<1>3. \A i \in Job : left[i] > 0 => NameOf[i] = n /\ status[i] # None
  BY <1>1, <1>2, RunSound DEF Sound, Run
<1>4. ids \in SUBSET Job /\ \A i \in ids : NameOf[i] = n /\ status[i] # None
  BY <1>1, RunSound DEF Sound, Run
<1>5. run' = [run EXCEPT ![n] = on] \/ Finish(n) \/ run' = [run EXCEPT ![n] = over]
  BY ZenonT(40) DEF EvaluateJobPublish
<1> HIDE DEF left, ids
<1>6. Sound(n, on)
  BY <1>1, <1>2, <1>3, <1>4 DEF Sound, Run
<1>7. Sound(n, over)
  BY <1>4, MarksSound
<1>8. Moves(n)
  BY <1>5, <1>6, <1>7, Finishes DEF Moves
<1>9. pool' \in [Key -> Nat]
  <2>1. pool \in [Key -> Nat]
    BY DEF SchedInv, TypeOK
  <2>2. UNCHANGED pool \/ Increment(j)
    BY DEF EvaluateJobPublish
  <2>3. ASSUME NEW k \in Key
        PROVE  pool[k] \in Nat /\ pool[k] + 1 \in Nat
    BY <2>1
  <2> QED  BY <2>1, <2>2, <2>3 DEF Increment
<1> QED  BY <1>8, <1>9, Harmless DEF EvaluateJobPublish, SchedInv, TypeOK, Rows

LEMMA MarkPublishedKeeps ==
  ASSUME SchedInv, NEW n \in JobName, MarkPublished(n)
  PROVE  SchedInv'
<1> DEFINE r == [run[n] EXCEPT !.at = "dispatch"]
<1>1. run[n] \in Run
  BY DEF SchedInv, TypeOK
<1>2. Sound(n, r)
  BY <1>1, RunSound DEF Sound, Run
<1>3. run' = [run EXCEPT ![n] = r]
  BY DEF MarkPublished, Goto
<1>4. Moves(n)
  BY <1>2, <1>3 DEF Moves
<1>5. Rows
  BY DEF MarkPublished, Published, Rows, SchedInv, TypeOK, Status
<1> QED  BY <1>4, <1>5, Harmless DEF MarkPublished, SchedInv, TypeOK

LEMMA BatchPublishKeeps ==
  ASSUME SchedInv, NEW n \in JobName, BatchPublish(n)
  PROVE  SchedInv'
<1>1. PICK failures \in SUBSET run[n].ids :
        /\ queue' = queue \cup (run[n].ids \ failures)
        /\ IF failures = {} THEN Finish(n) /\ UNCHANGED disturbances
           ELSE run' = [run EXCEPT ![n].at = "fail", ![n].ids = failures] /\ Disturb
  BY DEF BatchPublish
<1> DEFINE r == [run[n] EXCEPT !.at = "fail", !.ids = failures]
<1>2. run[n] \in Run
  BY DEF SchedInv, TypeOK
<1>3. Sound(n, r)
  BY <1>2, RunSound DEF Sound, Run
<1>4. Finish(n) \/ run' = [run EXCEPT ![n] = r]
  BY ZenonT(40), <1>1
<1>5. Moves(n)
  BY <1>3, <1>4, Finishes DEF Moves
<1>6. queue' \subseteq Job
  BY <1>1, <1>2 DEF SchedInv, TypeOK, Run
<1>7. disturbances' \in 0..MaxDisturbances
  BY <1>1 DEF Disturb, SchedInv, TypeOK
<1> QED  BY <1>5, <1>6, <1>7, Harmless DEF BatchPublish, SchedInv, TypeOK, Rows

LEMMA MarkRefusedKeeps ==
  ASSUME SchedInv, NEW n \in JobName, NEW j \in Job, MarkRefused(n, j)
  PROVE  SchedInv'
<1> DEFINE r == [run[n] EXCEPT !.ids = @ \ {j}]
<1>1. run[n] \in Run /\ run[n].at = "fail"
  BY DEF SchedInv, TypeOK, MarkRefused, At
<1>2. Sound(n, r)
  BY <1>1, RunSound DEF Sound, Run
<1>3. Finish(n) \/ run' = [run EXCEPT ![n] = r]
  BY DEF MarkRefused
<1>4. Moves(n)
  BY <1>2, <1>3, Finishes DEF Moves
<1>5. Rows
  BY DEF MarkRefused, Failed, Rows, SchedInv, TypeOK, Status
<1> QED  BY <1>4, <1>5, Harmless DEF MarkRefused, SchedInv, TypeOK

LEMMA RunFailsKeeps ==
  ASSUME SchedInv, NEW n \in JobName, RunFails(n)
  PROVE  SchedInv'
<1>1. Moves(n)
  BY Finishes DEF RunFails
<1>2. Rows
  BY DEF RunFails, Published, Rows, SchedInv, TypeOK, Status
<1> QED  BY <1>1, <1>2, Harmless DEF RunFails, Disturb, SchedInv, TypeOK

\* The handlers.
LEMMA submitJobKeeps ==
  ASSUME SchedInv, NEW j \in Job, submitJob(j)
  PROVE  SchedInv'
<1>1. NameOf[j] \in JobName
  OBVIOUS
<1>2. run' = run \/ Moves(NameOf[j])
  BY <1>1, TriggerMoves DEF submitJob
<1>3. Rows
  BY DEF submitJob, Rows, SchedInv, TypeOK, Status
<1> QED  BY <1>1, <1>2, <1>3, Harmless DEF submitJob, SchedInv, TypeOK

LEMMA ReadJobKeeps ==
  ASSUME SchedInv, NEW j \in Job, NEW next \in {"RETRY", "CANCELLED"}, ReadJob(j, next)
  PROVE  SchedInv'
<1>2. requests' = requests \cup {[job |-> j, next |-> next]}
  BY DEF ReadJob
<1>3. requests' \subseteq [job : Job, next : {"RETRY", "CANCELLED"}]
  BY <1>2 DEF SchedInv, TypeOK
<1> QED  BY <1>3, Harmless DEF ReadJob, Disturb, SchedInv, TypeOK, Rows

LEMMA SaveJobKeeps ==
  ASSUME SchedInv, NEW q \in requests, SaveJob(q)
  PROVE  SchedInv'
<1>1. q.job \in Job /\ NameOf[q.job] \in JobName /\ q.next \in Status
  BY DEF SchedInv, TypeOK, Status
<1>2. run' = run \/ Moves(NameOf[q.job])
  BY <1>1, TriggerMoves DEF SaveJob
<1>3. Rows
  BY <1>1 DEF SaveJob, Saved, Rows, SchedInv, TypeOK
<1> QED  BY <1>1, <1>2, <1>3, Harmless DEF SaveJob, SchedInv, TypeOK

LEMMA SaveFailsKeeps ==
  ASSUME SchedInv, NEW q \in requests, SaveFails(q)
  PROVE  SchedInv'
<1>1. q.job \in Job /\ q.next \in Status
  BY DEF SchedInv, TypeOK, Status
<1>2. Rows
  BY <1>1 DEF SaveFails, Saved, Rows, SchedInv, TypeOK
<1> QED  BY <1>2, Harmless DEF SaveFails, SchedInv, TypeOK

\* The goroutines, the workers and the process.
LEMMA RefreshKeeps ==
  ASSUME SchedInv, Refresh
  PROVE  SchedInv'
<1>1. PICK read \in snapshot : PopulateFromDB(read) /\ raced' = ~(Holding \subseteq read)
  BY DEF Refresh
<1>2. pool' \in [Key -> Nat]
  BY <1>1, PopulateType DEF SchedInv, TypeOK
<1>3. raced' \in BOOLEAN /\ snapshot' = {}
  BY <1>1 DEF Refresh
<1>4. UNCHANGED <<status, run, requests, doomed, queue, disturbances>>
  BY DEF Refresh
<1> QED  BY <1>2, <1>3, <1>4, Harmless DEF SchedInv, TypeOK, Rows

LEMMA MarkStuckKeeps ==
  ASSUME SchedInv, NEW j \in Job, MarkStuck(j)
  PROVE  SchedInv'
<1>1. NameOf[j] \in JobName
  OBVIOUS
<1>2. run' = run \/ Moves(NameOf[j])
  BY <1>1, TriggerMoves DEF MarkStuck
<1>3. Rows
  BY DEF MarkStuck, Failed, Rows, SchedInv, TypeOK, Status
<1> QED  BY <1>1, <1>2, <1>3, Harmless DEF MarkStuck, SchedInv, TypeOK

LEMMA ReadStuckKeeps ==
  ASSUME SchedInv, NEW S \in SUBSET Job, ReadStuck(S)
  PROVE  SchedInv'
  BY Harmless DEF ReadStuck, Disturb, SchedInv, TypeOK, Rows

LEMMA RestartKeeps ==
  ASSUME SchedInv, Restart
  PROVE  SchedInv'
<1>1. pool' \in [Key -> Nat]
  BY PopulateType, HoldingType DEF Restart, SchedInv
<1>2. \A n \in JobName : Sound(n, Idle)
  BY RunSound
<1>3. run' \in [JobName -> Run] /\ \A n \in JobName : run'[n] = Idle
  BY <1>2 DEF Restart, Sound
<1>4. \A n \in JobName :
        /\ \A j \in run'[n].ids : NameOf[j] = n /\ status'[j] # None
        /\ run'[n].ids # {} => run'[n].at \in {"gate", "mark", "dispatch", "fail"}
  BY <1>3 DEF Idle
<1>5. SelectsItsOwn'
  BY <1>2, <1>3 DEF SelectsItsOwn, Restart, Sound
<1>6. /\ requests' = {} /\ snapshot' = {} /\ doomed' = {} /\ queue' \subseteq Job
      /\ raced' \in BOOLEAN /\ disturbances' \in 0..MaxDisturbances
      /\ status' \in [Job -> Status \cup {None}]
  <2>1. status \in [Job -> Status \cup {None}] /\ disturbances \in 0..MaxDisturbances
    BY DEF SchedInv, TypeOK
  <2>2. disturbances < MaxDisturbances /\ disturbances' = disturbances + 1 /\ status' = status
    BY DEF Restart, Disturb
  <2>3. disturbances' \in 0..MaxDisturbances
    BY <2>1, <2>2
  <2>4. queue' \subseteq Job
    BY DEF Restart, SchedInv, TypeOK
  <2> QED  BY <2>1, <2>2, <2>3, <2>4 DEF Restart
<1>7. TypeOK'
  BY <1>1, <1>3, <1>4, <1>6 DEF TypeOK
<1> QED  BY <1>5, <1>7 DEF SchedInv

LEMMA Step == SchedInv /\ [Next]_vars => SchedInv'
<1> SUFFICES ASSUME SchedInv, [Next]_vars PROVE SchedInv'
  OBVIOUS
<1>1. ASSUME NEW n \in JobName, Start(n) \/ RunSteps(n) PROVE SchedInv'
  BY <1>1, StartKeeps, FillKeeps, GateKeeps, MarkPublishedKeeps, BatchPublishKeeps,
     MarkRefusedKeeps, RunFailsKeeps DEF RunSteps
<1>2. ASSUME NEW n \in JobName, ColdTrigger(n) PROVE SchedInv'
  BY <1>2, TriggerMoves, Harmless DEF ColdTrigger, SchedInv, TypeOK, Rows
<1>3. ASSUME NEW j \in Job, submitJob(j) \/ ReadJob(j, "RETRY") \/ ReadJob(j, "CANCELLED")
                              \/ MarkStuck(j)
      PROVE  SchedInv'
  BY <1>3, submitJobKeeps, ReadJobKeeps, MarkStuckKeeps
<1>4. ASSUME NEW j \in Job, WorkerTakes(j) PROVE SchedInv'
  <2>1. Rows
    BY <1>4 DEF WorkerTakes, CanTransitionTo, Rows, SchedInv, TypeOK, Status
  <2> QED  BY <1>4, <2>1, Harmless DEF WorkerTakes, SchedInv, TypeOK
<1>5. ASSUME NEW j \in Job, WorkerEnds(j, "SUCCESSFUL") \/ WorkerEnds(j, "FAILED")
      PROVE  SchedInv'
  <2>1. Rows
    BY <1>5 DEF WorkerEnds, Rows, SchedInv, TypeOK, Status
  <2> QED  BY <1>5, <2>1, Harmless DEF WorkerEnds, SchedInv, TypeOK
<1>6. ASSUME NEW q \in requests, SaveJob(q) \/ SaveFails(q) PROVE SchedInv'
  BY <1>6, SaveJobKeeps, SaveFailsKeeps
<1>7. CASE ReadActive
  <2>1. snapshot' \subseteq SUBSET Job
    BY <1>7, HoldingType DEF ReadActive, SchedInv
  <2> QED  BY <1>7, <2>1, Harmless DEF ReadActive, Disturb, SchedInv, TypeOK, Rows
<1>8. CASE RefreshFails
  BY <1>8, Harmless DEF RefreshFails, SchedInv, TypeOK, Rows
<1>9. CASE GetStuckPublished \/ GetProcessingJobs
  BY <1>9, ReadStuckKeeps DEF GetStuckPublished, GetProcessingJobs
<1>10. CASE UNCHANGED vars
  BY <1>10, Harmless DEF vars, SchedInv, TypeOK, Rows
<1> QED
  BY <1>1, <1>2, <1>3, <1>4, <1>5, <1>6, <1>7, <1>8, <1>9, <1>10,
     RefreshKeeps, RestartKeeps DEF Next

LEMMA SchedInvariant == Spec => []SchedInv
  BY InitInv, Step, PTL DEF Spec

\* Counters are natural numbers, rows have a status of the state machine, and a
\* run that has passed the gate has only existing jobs of its own name in hand,
\* for any jobs, names, rules and disturbances.
THEOREM TypeCorrect == Spec => []TypeOK
<1>1. SchedInv => TypeOK
  BY DEF SchedInv
<1> QED  BY <1>1, SchedInvariant, PTL

-----------------------------------------------------------------------------
(* The counters and the gate.                                              *)

\* Who holds a slot afterwards, if rows become active and runs admit only as
\* the two premises say.
LEMMA HoldingStep ==
  ASSUME NEW S, \A n \in JobName : Gated(n)' \subseteq S, Active' \subseteq S
  PROVE  Holding' \subseteq S
  BY DEF Holding

LEMMA GatedHolds ==
  ASSUME NEW n \in JobName
  PROVE  Gated(n) \subseteq Holding /\ Active \subseteq Holding
  BY DEF Holding

\* Moving a run to a place other than gate and mark gives its jobs up; at
\* these two it holds what it is given.
LEMMA GatedStep ==
  ASSUME SchedInv, NEW n \in JobName, NEW r, run' = [run EXCEPT ![n] = r]
  PROVE  /\ \A m \in JobName : m # n => Gated(m)' = Gated(m)
         /\ Gated(n)' \subseteq r.ids
         /\ r.at \notin {"gate", "mark"} => Gated(n)' = {}
<1>1. run \in [JobName -> Run]
  BY DEF SchedInv, TypeOK
<1> QED  BY <1>1 DEF Gated

LEMMA MoveReleases ==
  ASSUME SchedInv, NEW n \in JobName, NEW r, run' = [run EXCEPT ![n] = r],
         r.at \notin {"gate", "mark"} \/ r.ids = {}
  PROVE  \A m \in JobName : Gated(m)' \subseteq Gated(m)
<1>1. Gated(n)' = {}
  BY GatedStep
<1>2. \A m \in JobName : m # n => Gated(m)' = Gated(m)
  BY GatedStep
<1> QED  BY <1>1, <1>2

LEMMA FinishReleases ==
  ASSUME SchedInv, NEW n \in JobName, Finish(n)
  PROVE  \A m \in JobName : Gated(m)' \subseteq Gated(m)
<1>1. Idle.at = "idle"
  BY DEF Idle
<1> QED  BY <1>1, MoveReleases DEF Finish

LEMMA TriggerReleases ==
  ASSUME SchedInv, NEW n \in JobName, run' = Triggered(n)
  PROVE  \A m \in JobName : Gated(m)' \subseteq Gated(m)
<1>1. run[n] \in Run
  BY DEF SchedInv, TypeOK
<1>2. CASE At(n, "idle")
  <2> DEFINE r == [run[n] EXCEPT !.at = "queued"]
  <2>1. run' = [run EXCEPT ![n] = r] /\ r.at = "queued"
    BY <1>1, <1>2 DEF Triggered, Run
  <2> HIDE DEF r
  <2> QED  BY <2>1, MoveReleases
<1>3. CASE ~At(n, "idle")
  BY <1>3 DEF Triggered, Gated
<1> QED  BY <1>2, <1>3

\* A step of a run other than the gate admits nobody.
LEMMA StartReleases ==
  ASSUME SchedInv, NEW n \in JobName, Start(n)
  PROVE  Holding' \subseteq Holding
<1> DEFINE r == [run[n] EXCEPT !.at = "search", !.room = GetGlobalAvailability(n)]
<1>1. r.at = "search"
  BY DEF SchedInv, TypeOK, Run
<1>2. Finish(n) \/ run' = [run EXCEPT ![n] = r]
  BY DEF Start
<1>3. \A m \in JobName : Gated(m)' \subseteq Gated(m)
  BY <1>1, <1>2, FinishReleases, MoveReleases
<1>4. Active' = Active
  BY DEF Start, Active
<1> QED  BY <1>3, <1>4, HoldingStep, GatedHolds

LEMMA FillReleases ==
  ASSUME SchedInv, NEW n \in JobName, FillVacantSpots(n)
  PROVE  Holding' \subseteq Holding
<1>1. run[n] \in Run /\ run[n].at = "search" /\ run[n].ids = {}
  BY DEF SchedInv, TypeOK, FillVacantSpots, At
<1>2. PICK counts, tenants :
        \/ Finish(n)
        \/ run' = [run EXCEPT ![n].chosen = counts, ![n].exhausted = tenants]
        \/ run' = [run EXCEPT ![n] = [Idle EXCEPT !.at = "gate", !.chosen = counts]]
  BY DEF FillVacantSpots
<1> DEFINE on == [run[n] EXCEPT !.chosen = counts, !.exhausted = tenants]
           over == [Idle EXCEPT !.at = "gate", !.chosen = counts]
<1>3. on.ids = {} /\ over.ids = {}
  BY <1>1 DEF Run, Idle
<1>4. Finish(n) \/ run' = [run EXCEPT ![n] = on] \/ run' = [run EXCEPT ![n] = over]
  BY <1>2
<1> HIDE DEF on, over
<1>5. \A m \in JobName : Gated(m)' \subseteq Gated(m)
  BY <1>3, <1>4, FinishReleases, MoveReleases
<1>6. Active' = Active
  BY DEF FillVacantSpots, Active
<1> QED  BY <1>5, <1>6, HoldingStep, GatedHolds

\* The gate admits one job, if every rule has room, and counts it.
LEMMA GateAdmits ==
  ASSUME SchedInv, NEW n \in JobName, NEW j \in Job, EvaluateJobPublish(n, j)
  PROVE  \/ Holding' \subseteq Holding /\ UNCHANGED pool
         \/ Approved(j) /\ Increment(j) /\ Holding' \subseteq Holding \cup {j}
<1> DEFINE left == [run[n].chosen EXCEPT ![j] = @ - 1]
           through == IF Approved(j) THEN run[n].ids \cup {j} ELSE run[n].ids
           on == [run[n] EXCEPT !.chosen = left, !.ids = through]
           over == [Idle EXCEPT !.at = "mark", !.ids = through]
<1>1. run[n] \in Run /\ Gated(n) = run[n].ids
  BY DEF SchedInv, TypeOK, EvaluateJobPublish, At, Gated
<1>2. run' = [run EXCEPT ![n] = on] \/ Finish(n) \/ run' = [run EXCEPT ![n] = over]
  BY ZenonT(40) DEF EvaluateJobPublish
<1> HIDE DEF left, through
<1>3. on.ids = through /\ over.ids = through
  BY <1>1 DEF Run, Idle
<1> HIDE DEF on, over
<1>4. ASSUME NEW m \in JobName
      PROVE  Gated(m)' \subseteq Holding \cup through
  <2>1. CASE Finish(n)
    BY <2>1, FinishReleases, GatedHolds
  <2>2. CASE run' = [run EXCEPT ![n] = on]
    BY <2>2, <1>3, GatedStep, GatedHolds
  <2>3. CASE run' = [run EXCEPT ![n] = over]
    BY <2>3, <1>3, GatedStep, GatedHolds
  <2> QED  BY <1>2, <2>1, <2>2, <2>3
<1>5. Active' = Active
  BY DEF EvaluateJobPublish, Active
<1>6. Holding' \subseteq Holding \cup through
  BY <1>4, <1>5, HoldingStep DEF Holding
<1>7. through \subseteq Holding \cup IF Approved(j) THEN {j} ELSE {}
  BY <1>1, GatedHolds DEF through
<1> QED  BY <1>6, <1>7 DEF EvaluateJobPublish

LEMMA PublishReleases ==
  ASSUME SchedInv, NEW n \in JobName, MarkPublished(n)
  PROVE  Holding' \subseteq Holding
<1> DEFINE r == [run[n] EXCEPT !.at = "dispatch"]
<1>1. run[n] \in Run /\ Gated(n) = run[n].ids
  BY DEF SchedInv, TypeOK, MarkPublished, At, Gated
<1>2. run' = [run EXCEPT ![n] = r] /\ r.at = "dispatch"
  BY <1>1 DEF MarkPublished, Goto, Run
<1> HIDE DEF r
<1>3. \A m \in JobName : Gated(m)' \subseteq Gated(m)
  BY <1>2, MoveReleases
<1>4. Active' \subseteq Active \cup Gated(n)
  BY <1>1 DEF MarkPublished, Published, Active
<1> QED  BY <1>3, <1>4, HoldingStep, GatedHolds

LEMMA OthersRelease ==
  ASSUME SchedInv, NEW n \in JobName,
         BatchPublish(n) \/ (\E j \in Job : MarkRefused(n, j)) \/ RunFails(n)
  PROVE  Holding' \subseteq Holding
<1>1. PICK S : \/ Finish(n)
               \/ run' = [run EXCEPT ![n].at = "fail", ![n].ids = S]
               \/ At(n, "fail") /\ run' = [run EXCEPT ![n].ids = S]
  BY DEF BatchPublish, MarkRefused, RunFails
<1> DEFINE fail == [run[n] EXCEPT !.at = "fail", !.ids = S]
           rest == [run[n] EXCEPT !.ids = S]
<1>2. fail.at = "fail" /\ (At(n, "fail") => rest.at = "fail")
  BY DEF SchedInv, TypeOK, Run, At
<1>3. \/ Finish(n)
      \/ run' = [run EXCEPT ![n] = fail]
      \/ At(n, "fail") /\ run' = [run EXCEPT ![n] = rest]
  BY <1>1
<1> HIDE DEF fail, rest
<1>4. \A m \in JobName : Gated(m)' \subseteq Gated(m)
  BY <1>2, <1>3, FinishReleases, MoveReleases
<1>5. Active' \subseteq Active \cup Gated(n)
  <2>1. CASE RunFails(n)
    <3>1. At(n, "mark") => Gated(n) = run[n].ids
      BY DEF At, Gated
    <3> QED  BY <2>1, <3>1 DEF RunFails, Published, Active
  <2> QED  BY <2>1 DEF BatchPublish, MarkRefused, Failed, Active, IsActive, SchedInv, TypeOK
<1> QED  BY <1>4, <1>5, HoldingStep, GatedHolds

\* Rows that others write do not become active.
LEMMA RowsRelease ==
  ASSUME SchedInv, run' = run \/ \E n \in JobName : run' = Triggered(n),
         \A j \in Job : IsActive(status'[j]) => IsActive(status[j])
  PROVE  Holding' \subseteq Holding
<1>1. \A m \in JobName : Gated(m)' \subseteq Gated(m)
  <2>1. CASE run' = run
    BY <2>1 DEF Gated
  <2> QED  BY <2>1, TriggerReleases
<1>2. Active' \subseteq Active
  BY DEF Active
<1>3. \A m \in JobName : Gated(m)' \subseteq Holding
  BY <1>1, GatedHolds
<1>4. Active' \subseteq Holding
  BY <1>2 DEF Holding
<1> QED  BY <1>3, <1>4, HoldingStep

\* What any step does to slots and counters.
Counts(S) == PopulateFromDB(S) /\ (raced' \/ Holding' \subseteq S)
Admits(j) == Approved(j) /\ Increment(j) /\ Holding' \subseteq Holding \cup {j}

LEMMA Admission ==
  ASSUME SchedInv, [Next]_vars
  PROVE  \/ Holding' \subseteq Holding /\ UNCHANGED <<pool, raced>>
         \/ Holding' \subseteq Holding /\ \E S \in SUBSET Job : Counts(S)
         \/ UNCHANGED raced /\ \E j \in Job : Admits(j)
<1> DEFINE Releases == Holding' \subseteq Holding /\ UNCHANGED <<pool, raced>>
           Goal == \/ Releases
                   \/ Holding' \subseteq Holding /\ \E S \in SUBSET Job : Counts(S)
                   \/ UNCHANGED raced /\ \E j \in Job : Admits(j)
<1>1. ASSUME NEW n \in JobName, Start(n) \/ FillVacantSpots(n) \/ MarkPublished(n)
      PROVE  Releases
  BY <1>1, StartReleases, FillReleases, PublishReleases
     DEF Start, FillVacantSpots, MarkPublished
<1>2. ASSUME NEW n \in JobName, NEW j \in Job, EvaluateJobPublish(n, j)
      PROVE  Goal
  BY <1>2, GateAdmits DEF EvaluateJobPublish, Admits
<1>3. ASSUME NEW n \in JobName, BatchPublish(n) \/ (\E j \in Job : MarkRefused(n, j)) \/ RunFails(n)
      PROVE  Releases
  BY <1>3, OthersRelease DEF BatchPublish, MarkRefused, RunFails
<1>4. ASSUME NEW n \in JobName, ColdTrigger(n)
      PROVE  Releases
  BY <1>4, RowsRelease DEF ColdTrigger
<1>5. ASSUME NEW j \in Job, submitJob(j) \/ ReadJob(j, "RETRY") \/ ReadJob(j, "CANCELLED")
                              \/ MarkStuck(j)
      PROVE  Releases
  <2>1. NameOf[j] \in JobName /\ status \in [Job -> Status \cup {None}]
    BY DEF SchedInv, TypeOK
  <2>2. CASE ReadJob(j, "RETRY") \/ ReadJob(j, "CANCELLED")
    BY <2>2, RowsRelease DEF ReadJob
  <2>3. CASE submitJob(j) \/ MarkStuck(j)
    BY <2>1, <2>3, RowsRelease DEF submitJob, MarkStuck, Failed, IsActive
  <2> QED  BY <1>5, <2>2, <2>3
<1>6. ASSUME NEW j \in Job, WorkerTakes(j) \/ WorkerEnds(j, "SUCCESSFUL") \/ WorkerEnds(j, "FAILED")
      PROVE  Releases
  <2>1. status \in [Job -> Status \cup {None}]
    BY DEF SchedInv, TypeOK
  <2>2. \A s \in Status : "PROCESSING" \in allowedTransitions[s] => s = "PUBLISHED"
    BY DEF allowedTransitions, Status
  <2>3. \A i \in Job : IsActive(status'[i]) => IsActive(status[i])
    BY <1>6, <2>1, <2>2 DEF WorkerTakes, WorkerEnds, CanTransitionTo, IsActive
  <2> QED  BY <1>6, <2>3, RowsRelease DEF WorkerTakes, WorkerEnds
<1>7. ASSUME NEW q \in requests, SaveJob(q) \/ SaveFails(q)
      PROVE  Releases
  <2>1. q.job \in Job /\ NameOf[q.job] \in JobName /\ q.next \in {"RETRY", "CANCELLED"}
    BY DEF SchedInv, TypeOK
  <2>2. \A i \in Job : IsActive(status'[i]) => IsActive(status[i])
    BY <1>7, <2>1 DEF SaveJob, SaveFails, Saved, IsActive, SchedInv, TypeOK
  <2> QED  BY <1>7, <2>1, <2>2, RowsRelease DEF SaveJob, SaveFails
<1>8. CASE ReadActive \/ RefreshFails \/ GetStuckPublished \/ GetProcessingJobs \/ UNCHANGED vars
  BY <1>8, RowsRelease DEF ReadActive, RefreshFails, GetStuckPublished, GetProcessingJobs,
                           ReadStuck, vars
<1>9. CASE Refresh
  <2>1. PICK S \in snapshot : PopulateFromDB(S) /\ raced' = ~(Holding \subseteq S)
    BY <1>9 DEF Refresh
  <2>2. S \in SUBSET Job
    BY DEF SchedInv, TypeOK
  <2>3. Holding' \subseteq Holding
    BY <1>9, RowsRelease DEF Refresh
  <2> QED  BY <2>1, <2>2, <2>3 DEF Counts
<1>10. CASE Restart
  <2>1. \A m \in JobName : Gated(m)' = {}
    BY <1>10 DEF Restart, Gated, Idle
  <2>2. Active' = Active
    BY <1>10 DEF Restart, Active
  <2>3. Holding' \subseteq Active
    BY <2>1, <2>2, HoldingStep
  <2>4. Counts(Active)
    BY <1>10, <2>3 DEF Restart, Counts
  <2>5. Active \in SUBSET Job /\ Active \subseteq Holding
    BY DEF Active, Holding
  <2> QED  BY <2>3, <2>4, <2>5
<1> QED
  BY <1>1, <1>2, <1>3, <1>4, <1>5, <1>6, <1>7, <1>8, <1>9, <1>10 DEF Next, RunSteps

\* The counters of shared keys cover the jobs that hold a slot, and a step
\* that admits one finds room for it.
LEMMA RoomForOne ==
  ASSUME SchedInv, NeverUndercounted, ~raced, NEW j \in Job, Approved(j),
         NEW t \in DOMAIN RulesOf(j) \cap {"$jobName", "$tenant"}
  PROVE  Counted(Holding \cup {j}, Expand(t, j, TRUE)) <= RulesOf(j)[t]
<1> DEFINE k == Expand(t, j, TRUE)
<1>1. NameOf[j] \in JobName /\ TenantOf[j] \in Tenant
  OBVIOUS
<1>2. t \in {"$jobName", "$tenant"}
  BY <1>1 DEF RulesOf, Template
<1>3. k \in SharedKey /\ k = Expand(t, j, FALSE)
  BY <1>1, <1>2 DEF Expand, SharedKey
<1>4. pool[k] \in Nat /\ RulesOf(j)[t] \in Nat
  BY <1>3, ExpandType DEF SchedInv, TypeOK
<1>5. RulesOf(j)[t] - pool[k] > 0
  BY <1>3 DEF Approved, AllVacant, Vacant
<1>6. Counted(Holding, k) <= pool[k]
  BY <1>3 DEF NeverUndercounted
<1> HIDE DEF k
<1>7. /\ Counted(Holding, k) \in Nat /\ Counted(Holding \cup {j}, k) \in Nat
      /\ Counted(Holding \cup {j}, k) <= Counted(Holding, k) + 1
  <2>1. Holding \in SUBSET Job
    BY HoldingType DEF SchedInv
  <2>2. k \in Keys(j, TRUE)
    BY DEF k, Keys
  <2> QED  BY <2>1, <2>2, CountedFacts
<1>8. Counted(Holding \cup {j}, k) <= RulesOf(j)[t]
  BY <1>4, <1>5, <1>6, <1>7
<1> QED  BY <1>8 DEF k

LEMMA CountersInit == Init => NeverUndercounted
<1> SUFFICES ASSUME Init, NEW k \in SharedKey PROVE Counted(Holding, k) <= pool[k]
  BY DEF NeverUndercounted
<1>1. Holding = {}
  <2>1. Active = {}
    BY DEF Init, Active, IsActive, Status
  <2>2. \A n \in JobName : Gated(n) = {}
    BY DEF Init, Gated, Idle
  <2> QED  BY <2>1, <2>2 DEF Holding
<1>2. {j \in Holding : k \in Keys(j, TRUE)} = {}
  BY <1>1
<1>3. Counted(Holding, k) = 0
  BY <1>2, FS_EmptySet DEF Counted
<1>4. pool[k] = 0
  BY DEF Init, SharedKey, Key
<1> QED  BY <1>3, <1>4

LEMMA CountersStep ==
  ASSUME SchedInv, SchedInv', NeverUndercounted, [Next]_vars
  PROVE  NeverUndercounted'
<1> SUFFICES ASSUME ~raced', NEW k \in SharedKey
             PROVE  Counted(Holding', k) <= pool'[k]
  BY DEF NeverUndercounted, Counted
<1>1. Holding \in SUBSET Job /\ Holding' \in SUBSET Job
  <2>1. Holding' \in SUBSET Job
    BY DEF SchedInv, TypeOK, Run, Holding, Gated, Active
  <2> QED  BY <2>1, HoldingType DEF SchedInv
<1>2. k \in Key /\ pool \in [Key -> Nat]
  BY DEF SharedKey, Key, SchedInv, TypeOK
<1>3. Counted(Holding', k) \in Nat
  BY <1>1, CountedFacts
<1>4. ASSUME Holding' \subseteq Holding, UNCHANGED <<pool, raced>>
      PROVE  Counted(Holding', k) <= pool'[k]
  <2>1. Counted(Holding', k) <= Counted(Holding, k)
    BY <1>1, <1>4, CountedFacts
  <2>2. Counted(Holding, k) \in Nat /\ pool[k] \in Nat
    BY <1>1, <1>2, CountedFacts
  <2>3. Counted(Holding, k) <= pool[k]
    BY <1>4 DEF NeverUndercounted
  <2> QED  BY <1>3, <1>4, <2>1, <2>2, <2>3
<1>5. ASSUME NEW S \in SUBSET Job, Counts(S)
      PROVE  Counted(Holding', k) <= pool'[k]
  <2>1. pool'[k] = Counted(S, k)
    BY <1>2, <1>5 DEF Counts, PopulateFromDB
  <2>2. Holding' \in SUBSET S
    BY <1>5 DEF Counts
  <2>3. Counted(Holding', k) <= Counted(S, k)
    BY <2>2, CountedFacts
  <2> QED  BY <2>1, <2>3
<1>6. ASSUME UNCHANGED raced, NEW j \in Job, Admits(j)
      PROVE  Counted(Holding', k) <= pool'[k]
  <2>1. Holding \cup {j} \in SUBSET Job
    BY <1>1
  <2>2. Counted(Holding', k) <= Counted(Holding \cup {j}, k)
    BY <1>6, <2>1, CountedFacts DEF Admits
  <2>3. Counted(Holding \cup {j}, k) <= Counted(Holding, k) + IF k \in Keys(j, TRUE) THEN 1 ELSE 0
    BY <1>1, CountedFacts
  <2>4. Counted(Holding, k) <= pool[k]
    BY <1>6 DEF NeverUndercounted
  <2>5. pool'[k] = IF k \in Keys(j, TRUE) THEN pool[k] + 1 ELSE pool[k]
    BY <1>2, <1>6, SameKeys DEF Admits, Increment
  <2>6. /\ Counted(Holding, k) \in Nat /\ Counted(Holding \cup {j}, k) \in Nat
        /\ pool[k] \in Nat
    BY <1>1, <1>2, <2>1, CountedFacts
  <2>7. CASE k \in Keys(j, TRUE)
    BY <1>3, <2>2, <2>3, <2>4, <2>5, <2>6, <2>7
  <2>8. CASE k \notin Keys(j, TRUE)
    BY <1>3, <2>2, <2>3, <2>4, <2>5, <2>6, <2>8
  <2> QED  BY <2>7, <2>8
<1> QED  BY <1>4, <1>5, <1>6, Admission

LEMMA CountersInvariant == Spec => [](SchedInv /\ NeverUndercounted)
<1>1. SchedInv /\ NeverUndercounted /\ [Next]_vars => (SchedInv /\ NeverUndercounted)'
  BY Step, CountersStep
<1> QED  BY <1>1, InitInv, CountersInit, PTL DEF Spec

\* The counters cover the jobs that hold a slot, for any jobs, rules and
\* disturbances: whatever fails or restarts, only a refresh with a count that is
\* older than what the gate has let through can leave them behind.
THEOREM CountersKeepUp == Spec => []NeverUndercounted
  BY CountersInvariant, PTL

\* While they are not behind, the gate admits no job that would exceed the rule
\* of its name or of its tenant, however many names share the tenant.
THEOREM GateKeepsLimits == Spec => AdmitsWithinLimit
<1>1. ASSUME SchedInv, SchedInv', NeverUndercounted, Next, ~raced,
             NEW j \in Holding' \ Holding, NEW t \in DOMAIN RulesOf(j) \cap {"$jobName", "$tenant"}
      PROVE  Counted(Holding', Expand(t, j, TRUE)) <= RulesOf(j)[t]
  <2>1. j \in Job
    BY <1>1 DEF SchedInv, TypeOK, Run, Holding, Gated, Active
  <2>2. PICK i \in Job : Admits(i)
    BY <1>1, Admission
  <2>3. i = j
    BY <1>1, <2>2 DEF Admits
  <2>4. Holding \cup {j} \in SUBSET Job /\ Holding' \subseteq Holding \cup {j}
    BY <1>1, <2>1, <2>2, <2>3, HoldingType DEF SchedInv, Admits
  <2> DEFINE k == Expand(t, j, TRUE)
             before == Counted(Holding \cup {j}, k)
             after == Counted(Holding', k)
             limit == RulesOf(j)[t]
  <2>5. after \in Nat /\ before \in Nat /\ after <= before
    BY <2>4, CountedFacts
  <2>6. before <= limit
    BY <1>1, <2>1, <2>2, <2>3, RoomForOne DEF Admits
  <2>7. limit \in Nat
    BY <2>1, ExpandType
  <2>8. after <= limit
    <3> HIDE DEF before, after, limit
    <3> QED  BY <2>5, <2>6, <2>7
  <2> QED  BY <2>8
<1>2. SchedInv /\ SchedInv' /\ NeverUndercounted /\ [Next]_vars
        => [~raced => \A j \in Holding' \ Holding :
              \A t \in DOMAIN RulesOf(j) \cap {"$jobName", "$tenant"} : WithinLimit(j, t)]_vars
  BY <1>1 DEF WithinLimit
<1> QED  BY <1>2, CountersInvariant, PTL DEF Spec, AdmitsWithinLimit

=============================================================================
