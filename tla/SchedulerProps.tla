--------------------------- MODULE SchedulerProps ---------------------------
(***************************************************************************)
(* What the counters, the gate and the job states of Scheduler promise.    *)
(***************************************************************************)
EXTENDS Scheduler

Run == [at : {"idle", "queued", "search", "gate", "mark", "dispatch", "fail"},
        room : Nat, chosen : [Job -> Nat], exhausted : SUBSET Tenant,
        ids : SUBSET Job]

\* Types; a run works on jobs of its own name, and only a run that has passed
\* the gate has jobs in hand.
TypeOK ==
  /\ status \in [Job -> Status \cup {None}]
  /\ pool \in [Key -> Nat]
  /\ run \in [JobName -> Run]
  /\ requests \subseteq [job : Job, next : {"RETRY", "CANCELLED"}]
  /\ snapshot \subseteq SUBSET Job
  /\ doomed \subseteq Job /\ queue \subseteq Job
  /\ raced \in BOOLEAN /\ disturbances \in 0..MaxDisturbances
  /\ \A n \in JobName :
       /\ \A j \in run[n].ids : NameOf[j] = n /\ status[j] # None
       /\ run[n].ids # {} => run[n].at \in {"gate", "mark", "dispatch", "fail"}

\* A search projection fills in these keys as the database's does.
SharedKey == JobName \cup Tenant

\* The counters never fall behind the jobs that hold a slot, whatever fails,
\* is selected twice or restarts; the one exception is a refresh that puts a
\* count in place which is older than what the gate has let through
\* (crons.go 129-146, manager.go 39-58 and 124-143).
NeverUndercounted ==
  ~raced => \A k \in SharedKey : Counted(Holding, k) <= pool[k]

\* Job j takes a slot, and rule t has room for it.
WithinLimit(j, t) == Counted(Holding', Expand(t, j, TRUE)) <= RulesOf(j)[t]

\* Except after such a refresh, the gate lets a job through only if, with it,
\* no more jobs hold a slot of its name and of its tenant than each rule
\* allows (manager.go 36-58: the check and the increments of all rules are one
\* step, also between the runs of two names that share a tenant).
AdmitsWithinLimit ==
  [][~raced =>
       \A j \in Holding' \ Holding :
         \A t \in DOMAIN RulesOf(j) \cap {"$jobName", "$tenant"} : WithinLimit(j, t)]_vars

-----------------------------------------------------------------------------
(* What the repository says and the code does not do.                      *)

\* deep-dive.md:240, rules such as "$tenant_$env" are enforced: the projection
\* that the gate counts has no control values, the one of a refresh has them.
EveryRuleEnforced ==
  ~raced => \A j \in Holding' \ Holding : \A t \in DOMAIN RulesOf(j) : WithinLimit(j, t)

\* job_status.go:8 and deep-dive.md:237, "Invalid transitions return errors":
\* the publisher, the checkers and the requests write a row that they have read
\* earlier, whatever it holds by now (repo.go 179-202, handler.go 76-108).
FollowsStateMachine ==
  \A j \in Job :
    \/ status'[j] = status[j]
    \/ status[j] = None /\ status'[j] = "WAITING"
    \/ status[j] # None /\ status'[j] \in allowedTransitions[status[j]]
=============================================================================
