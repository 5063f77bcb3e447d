----------------------------- MODULE Scheduler -----------------------------
(***************************************************************************)
(* projects/distributed-scheduler: job states, the in-memory concurrency   *)
(* counters, one scheduling run per job name (trigger, search, screening,  *)
(* gate, publication), the HTTP handlers and the periodic checkers of one  *)
(* instance, with its crash and restart.                                   *)
(*                                                                         *)
(* One call of the database, the index or the counters is one step; the    *)
(* calls that screen the candidates of one search are taken together, as   *)
(* the gate decides again under its lock.  Any database call may fail: the *)
(* run that a request triggers uses the context of that request, which is  *)
(* cancelled when the handler returns.                                     *)
(*                                                                         *)
(* Ages and times are left out: what the checkers find old is chosen       *)
(* freely.  Nothing under src/ puts jobs into the search index or works on *)
(* published jobs, so the index and the workers are external: a search     *)
(* answers with any jobs out of Indexed, however stale, and a worker       *)
(* respects the state machine.                                             *)
(*                                                                         *)
(* A definition named X_Y is X with the fault Y, kept beside X to confirm  *)
(* that the properties notice it; the specification does not use it.       *)
(***************************************************************************)
EXTENDS Integers, FiniteSets

CONSTANTS Job, JobName, Tenant, Env,
          NameOf, TenantOf, EnvOf,   \* a job's name, tenant and control value
          JoinedKey, Joined,         \* Joined[tenant][value] is the two with "_" between
          Rules,         \* [job name -> [rule template -> limit]]
          Indexed,       \* the jobs the search index may hold
          PoolSize,      \* scheduling runs that may work at once
          MaxDisturbances, \* bound: requests, refreshes, checker rounds, failures
          \* and restarts in one behaviour
          None

Template == {"$jobName", "$tenant", "$env", "$tenant_$env"}
Key == JobName \cup Tenant \cup Env \cup {"$env"} \cup JoinedKey
Status == {"WAITING", "PUBLISHED", "PROCESSING", "SUCCESSFUL", "FAILED",
           "FAILED_BY_JFC", "RETRY", "CANCELLED"}

ASSUME JobAssumption ==
  /\ IsFiniteSet(Job)
  /\ NameOf \in [Job -> JobName] /\ TenantOf \in [Job -> Tenant] /\ EnvOf \in [Job -> Env]
  /\ Indexed \subseteq Job
ASSUME RulesAssumption ==
  /\ DOMAIN Rules = JobName
  /\ \A n \in JobName : /\ "$jobName" \in DOMAIN Rules[n]
                        /\ DOMAIN Rules[n] \subseteq Template
                        /\ \A t \in DOMAIN Rules[n] : Rules[n][t] \in Nat
ASSUME KeyAssumption ==
  /\ JobName \cap (Tenant \cup Env \cup {"$env"} \cup JoinedKey) = {}
  /\ Tenant \cap (Env \cup {"$env"} \cup JoinedKey) = {} /\ "$env" \notin Env
  /\ Joined \in [Tenant -> [Env \cup {"$env"} -> JoinedKey]]
ASSUME BoundAssumption == MaxDisturbances \in Nat
ASSUME NoneAssumption == None \notin Status

VARIABLES
  status,      \* the row of jobs, or None before the job is submitted
  pool,        \* the counters; a key without one counts 0
  run,         \* the scheduling run of each job name
  requests,    \* retry and cancel requests between their read and their save
  snapshot,    \* {S} when the refresher has read S and not yet put it in place
  doomed,      \* jobs a checker has read and will mark failed
  queue,       \* jobs with the destination, not yet taken by a worker
  raced,       \* history: the counters were last replaced by an older count
               \* than the gate's
  disturbances \* how many there have been

vars == <<status, pool, run, requests, snapshot, doomed, queue, raced, disturbances>>

-----------------------------------------------------------------------------
(* Job states and concurrency keys.                                        *)

allowedTransitions ==
  [WAITING       |-> {"PUBLISHED", "CANCELLED"},
   PUBLISHED     |-> {"PROCESSING", "FAILED_BY_JFC"},
   PROCESSING    |-> {"SUCCESSFUL", "FAILED", "FAILED_BY_JFC"},
   SUCCESSFUL    |-> {"RETRY"},
   FAILED        |-> {"RETRY"},
   FAILED_BY_JFC |-> {"SUCCESSFUL", "FAILED", "RETRY"},
   RETRY         |-> {"PUBLISHED", "CANCELLED"},
   CANCELLED     |-> {"RETRY"}]

CanTransitionTo(s, next) == s # None /\ next \in allowedTransitions[s]

IsActive(s) == s \in {"PUBLISHED", "PROCESSING"}
Active == {j \in Job : IsActive(status[j])}

\* The key a template expands to.  A projection that comes from the search
\* has no control values, so their placeholder stays as it is.
Expand(t, j, control) ==
  IF t = "$jobName" THEN NameOf[j]
  ELSE IF t = "$tenant" THEN TenantOf[j]
  ELSE LET env == IF control THEN EnvOf[j] ELSE "$env"
       IN IF t = "$env" THEN env ELSE Joined[TenantOf[j]][env]

RulesOf(j) == Rules[NameOf[j]]
Keys(j, control) == {Expand(t, j, control) : t \in DOMAIN RulesOf(j)}

Vacant(j, t) == RulesOf(j)[t] - pool[Expand(t, j, FALSE)]
AllVacant(j) == \A t \in DOMAIN RulesOf(j) : Vacant(j, t) > 0

GetGlobalAvailability(n) ==
  IF pool[n] >= Rules[n]["$jobName"] THEN 0 ELSE Rules[n]["$jobName"] - pool[n]

Counted(S, k) == Cardinality({j \in S : k \in Keys(j, TRUE)})
PopulateFromDB(S) == pool' = [k \in Key |-> Counted(S, k)]

-----------------------------------------------------------------------------
(* A scheduling run.  chosen counts how often a job has been selected; ids *)
(* are the jobs the gate has let through.                                  *)

NoneChosen == [j \in Job |-> 0]
Idle == [at |-> "idle", room |-> 0, chosen |-> NoneChosen, exhausted |-> {}, ids |-> {}]
At(n, there) == run[n].at = there
Goto(n, there) == run' = [run EXCEPT ![n].at = there]
Finish_KeepsJobs(n) == run' = [run EXCEPT ![n].at = "idle"]

Finish(n) == run' = [run EXCEPT ![n] = Idle]

Total(chosen) == Cardinality({p \in Job \X (1..Cardinality(Job)) : p[2] <= chosen[p[1]]})

Disturb == disturbances < MaxDisturbances /\ disturbances' = disturbances + 1

Init ==
  /\ status = [j \in Job |-> None]
  /\ pool = [k \in Key |-> 0]
  /\ run = [n \in JobName |-> Idle]
  /\ requests = {}
  /\ snapshot = {}
  /\ doomed = {}
  /\ queue = {}
  /\ raced = FALSE
  /\ disturbances = 0

\* pending: a name has at most one run.
Triggered(n) == IF At(n, "idle") THEN [run EXCEPT ![n].at = "queued"] ELSE run

HasSlot(n) == /\ At(n, "queued")
              /\ Cardinality({m \in JobName : run[m].at \notin {"idle", "queued"}}) < PoolSize

\* The run gets a slot of the semaphore and asks GetGlobalAvailability.
Start(n) ==
  /\ HasSlot(n)
  /\ IF GetGlobalAvailability(n) = 0 THEN Finish(n)
     ELSE run' = [run EXCEPT ![n].at = "search", ![n].room = GetGlobalAvailability(n)]
  /\ UNCHANGED <<status, pool, requests, snapshot, doomed, queue, raced, disturbances>>

\* One iteration of FillVacantSpots.  A selected job is not excluded from the
\* next search, so it can be selected again.
FillVacantSpots(n) ==
  /\ At(n, "search")
  /\ \E candidates \in SUBSET {j \in Indexed : /\ NameOf[j] = n
                                               /\ status[j] # None
                                               /\ TenantOf[j] \notin run[n].exhausted} :
       LET blocked == {j \in candidates : ~AllVacant(j)}
           chosen == [j \in Job |-> run[n].chosen[j]
                                     + IF j \in candidates \ blocked THEN 1 ELSE 0]
           remaining == run[n].room - Total(chosen)
           stop == Cardinality(candidates) < remaining \/ blocked = {}
       IN /\ Cardinality(candidates) <= run[n].room - Total(run[n].chosen)
          /\ IF ~stop
             THEN run' = [run EXCEPT ![n].chosen = chosen,
                                     ![n].exhausted = @ \cup {TenantOf[j] : j \in blocked}]
             ELSE IF chosen = NoneChosen THEN Finish(n)
             ELSE run' = [run EXCEPT ![n] = [Idle EXCEPT !.at = "gate", !.chosen = chosen]]
  /\ UNCHANGED <<status, pool, requests, snapshot, doomed, queue, raced, disturbances>>

Approved_GlobalOnly(j) == Vacant(j, "$jobName") > 0

\* Phase 1 of EvaluateJobPublish: every rule has room.
Approved(j) == AllVacant(j)

Increment_One(j) == pool' = [pool EXCEPT ![NameOf[j]] = @ + 1]

\* Phase 2: every counter goes up.
Increment(j) == pool' = [k \in Key |-> IF k \in Keys(j, FALSE) THEN pool[k] + 1 ELSE pool[k]]

\* EvaluateJobPublish for one of the selected jobs.
EvaluateJobPublish(n, j) ==
  /\ At(n, "gate") /\ run[n].chosen[j] > 0
  /\ LET left == [run[n].chosen EXCEPT ![j] = @ - 1]
         ids == IF Approved(j) THEN run[n].ids \cup {j} ELSE run[n].ids
     IN IF left # NoneChosen
        THEN run' = [run EXCEPT ![n].chosen = left, ![n].ids = ids]
        ELSE IF ids = {} THEN Finish(n)
        ELSE run' = [run EXCEPT ![n] = [Idle EXCEPT !.at = "mark", !.ids = ids]]
  /\ IF Approved(j) THEN Increment(j) ELSE UNCHANGED pool
  /\ UNCHANGED <<status, requests, snapshot, doomed, queue, raced, disturbances>>

\* FindByIDs and MarkPublished: the status is set whatever it is by now.
Published(n) == [j \in Job |-> IF j \in run[n].ids THEN "PUBLISHED" ELSE status[j]]
MarkPublished(n) ==
  /\ At(n, "mark")
  /\ status' = Published(n)
  /\ Goto(n, "dispatch")
  /\ UNCHANGED <<pool, requests, snapshot, doomed, queue, raced, disturbances>>

\* BatchPublish: the destination takes some of the jobs; the others are
\* marked failed one by one.  Their slots are not given back.
BatchPublish(n) ==
  /\ At(n, "dispatch")
  /\ \E failures \in SUBSET run[n].ids :
       /\ queue' = queue \cup (run[n].ids \ failures)
       /\ IF failures = {} THEN Finish(n) /\ UNCHANGED disturbances
          ELSE run' = [run EXCEPT ![n].at = "fail", ![n].ids = failures] /\ Disturb
  /\ UNCHANGED <<status, pool, requests, snapshot, doomed, raced>>

Failed(j) == [status EXCEPT ![j] = "FAILED_BY_JFC"]

\* MarkFailed for a job the destination has refused; its error is ignored.
MarkRefused(n, j) ==
  /\ At(n, "fail") /\ j \in run[n].ids
  /\ status' \in {status, Failed(j)}
  /\ IF run[n].ids = {j} THEN Finish(n)
     ELSE run' = [run EXCEPT ![n].ids = @ \ {j}]
  /\ UNCHANGED <<pool, requests, snapshot, doomed, queue, raced, disturbances>>

\* GetByJobName, a later search, FindByIDs or MarkPublished fails, which may
\* have committed, or no destination has the configured type: the jobs go
\* nowhere, and the counters keep what the gate has added.
RunFails(n) ==
  /\ HasSlot(n) \/ At(n, "search") \/ At(n, "mark")
  /\ status' = status \/ (At(n, "mark") /\ status' = Published(n))
  /\ Finish(n)
  /\ Disturb
  /\ UNCHANGED <<pool, requests, snapshot, doomed, queue, raced>>

-----------------------------------------------------------------------------
(* The HTTP handlers.                                                      *)

submitJob(j) ==
  /\ status[j] = None
  /\ status' = [status EXCEPT ![j] = "WAITING"]
  /\ run' = Triggered(NameOf[j])
  /\ UNCHANGED <<pool, requests, snapshot, doomed, queue, raced, disturbances>>

\* retryJob and cancelJob: FindByID and the check of the transition.
ReadJob(j, next) ==
  /\ status[j] # None /\ CanTransitionTo(status[j], next)
  /\ requests' = requests \cup {[job |-> j, next |-> next]}
  /\ Disturb
  /\ UNCHANGED <<status, pool, run, snapshot, doomed, queue, raced>>

Saved(q) == [status EXCEPT ![q.job] = q.next]

\* Save writes the new status whatever the row holds by now; retry triggers.
SaveJob(q) ==
  /\ status' = Saved(q)
  /\ run' = IF q.next = "RETRY" THEN Triggered(NameOf[q.job]) ELSE run
  /\ requests' = requests \ {q}
  /\ UNCHANGED <<pool, snapshot, doomed, queue, raced, disturbances>>

\* It fails, and may have committed.
SaveFails(q) ==
  /\ status' \in {status, Saved(q)}
  /\ requests' = requests \ {q}
  /\ UNCHANGED <<pool, run, snapshot, doomed, queue, raced, disturbances>>

-----------------------------------------------------------------------------
(* The periodic goroutines.                                                *)

\* ColdScheduler.run for one of the names the index holds.
ColdTrigger(n) ==
  /\ \E j \in Indexed : NameOf[j] = n /\ status[j] # None
  /\ At(n, "idle") /\ GetGlobalAvailability(n) # 0
  /\ run' = Triggered(n)
  /\ UNCHANGED <<status, pool, requests, snapshot, doomed, queue, raced, disturbances>>

\* ConcurrencyRefresher.refresh: GetActiveProjections ...
ReadActive ==
  /\ snapshot = {}
  /\ snapshot' = {Active}
  /\ Disturb
  /\ UNCHANGED <<status, pool, run, requests, doomed, queue, raced>>

Gated(n) == IF run[n].at \in {"gate", "mark"} THEN run[n].ids ELSE {}
\* The jobs that hold a slot: active, or let through by the gate.
Holding == Active \cup UNION {Gated(n) : n \in JobName}

\* ... and PopulateFromDB with what was read then,
Refresh ==
  /\ \E read \in snapshot : PopulateFromDB(read) /\ raced' = ~(Holding \subseteq read)
  /\ snapshot' = {}
  /\ UNCHANGED <<status, run, requests, doomed, queue, disturbances>>

\* or nothing, when the configurations cannot be listed.
RefreshFails ==
  /\ snapshot # {}
  /\ snapshot' = {}
  /\ UNCHANGED <<status, pool, run, requests, doomed, queue, raced, disturbances>>

\* LongPublishedChecker and DetectZombies read the jobs that are old enough;
ReadStuck(S) ==
  /\ ~(S \subseteq doomed)
  /\ doomed' = doomed \cup S
  /\ Disturb
  /\ UNCHANGED <<status, pool, run, requests, snapshot, queue, raced>>
GetStuckPublished == \E S \in SUBSET {j \in Job : status[j] = "PUBLISHED"} : ReadStuck(S)
GetProcessingJobs == \E S \in SUBSET {j \in Job : status[j] = "PROCESSING"} : ReadStuck(S)

\* MarkFailed for one of them, whatever its status is by now.  The zombie
\* checker also triggers the name.
MarkStuck(j) ==
  /\ j \in doomed
  /\ doomed' = doomed \ {j}
  /\ \/ status' = status /\ run' = run
     \/ status' = Failed(j) /\ run' \in {run, Triggered(NameOf[j])}
  /\ UNCHANGED <<pool, requests, snapshot, queue, raced, disturbances>>

-----------------------------------------------------------------------------
(* The workers behind the destination, and the process.                    *)

WorkerTakes(j) ==
  /\ j \in queue
  /\ queue' = queue \ {j}
  /\ status' = IF CanTransitionTo(status[j], "PROCESSING")
               THEN [status EXCEPT ![j] = "PROCESSING"] ELSE status
  /\ UNCHANGED <<pool, run, requests, snapshot, doomed, raced, disturbances>>

WorkerEnds(j, s) ==
  /\ status[j] = "PROCESSING" /\ s \in {"SUCCESSFUL", "FAILED"}
  /\ status' = [status EXCEPT ![j] = s]
  /\ UNCHANGED <<pool, run, requests, snapshot, doomed, queue, raced, disturbances>>

\* The process stops at any point and Manager.Run starts it again: what was
\* in memory is gone, the counters come from the database.  A queue of SQS
\* keeps its jobs, the one in memory does not.
Restart ==
  /\ run' = [n \in JobName |-> Idle]
  /\ requests' = {} /\ snapshot' = {} /\ doomed' = {}
  /\ queue' \in {queue, {}}
  /\ PopulateFromDB(Active)
  /\ raced' = FALSE
  /\ Disturb
  /\ UNCHANGED status

RunSteps(n) ==
  \/ FillVacantSpots(n)
  \/ \E j \in Job : EvaluateJobPublish(n, j)
  \/ MarkPublished(n)
  \/ BatchPublish(n)
  \/ \E j \in Job : MarkRefused(n, j)
  \/ RunFails(n)

Next ==
  \/ \E n \in JobName : Start(n) \/ RunSteps(n) \/ ColdTrigger(n)
  \/ \E j \in Job : \/ submitJob(j)
                    \/ ReadJob(j, "RETRY") \/ ReadJob(j, "CANCELLED")
                    \/ MarkStuck(j)
                    \/ WorkerTakes(j)
                    \/ WorkerEnds(j, "SUCCESSFUL") \/ WorkerEnds(j, "FAILED")
  \/ \E q \in requests : SaveJob(q) \/ SaveFails(q)
  \/ ReadActive \/ Refresh \/ RefreshFails
  \/ GetStuckPublished \/ GetProcessingJobs
  \/ Restart

Spec == Init /\ [][Next]_vars
=============================================================================
