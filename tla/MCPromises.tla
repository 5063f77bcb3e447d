----------------------------- MODULE MCPromises -----------------------------
(***************************************************************************)
(* What the repository's documents and comments promise of these programs  *)
(* and the code does not keep.  The programs of Order take steps one after *)
(* the other, each until all its promises are broken: one behaviour breaks *)
(* them all, and its trace shows how each of them breaks.                  *)
(***************************************************************************)
EXTENDS MCPrograms

\* The scheduler: two jobs of different names, and a rule on their tenant's
\* control value.
VARIABLES jobStatus, jobPool, jobRun, jobRequests, jobSnapshot, jobDoomed, jobQueue, jobRaced, jobDisturbances
schedulerVars == <<jobStatus, jobPool, jobRun, jobRequests, jobSnapshot, jobDoomed, jobQueue, jobRaced, jobDisturbances>>

S == INSTANCE SchedulerProps WITH
       Job <- {1, 2}, JobName <- {"ingest", "report"}, Tenant <- {"acme"}, Env <- {"prod"},
       NameOf <- <<"ingest", "report">>,
       TenantOf <- <<"acme", "acme">>, EnvOf <- <<"prod", "prod">>,
       JoinedKey <- {"acme_prod", "acme_$env"},
       Joined <- [t \in {"acme"} |-> [e \in {"prod", "$env"} |-> IF e = "prod" THEN "acme_prod" ELSE "acme_$env"]],
       Rules <- [n \in {"ingest", "report"} |->
                   [x \in {"$jobName", "$tenant", "$tenant_$env"} |->
                      IF x = "$tenant_$env" THEN 1 ELSE 2]],
       Indexed <- {1, 2}, PoolSize <- 2, MaxDisturbances <- 2, None <- Nothing,
       status <- jobStatus, pool <- jobPool, run <- jobRun, requests <- jobRequests,
       snapshot <- jobSnapshot, doomed <- jobDoomed, queue <- jobQueue, raced <- jobRaced,
       disturbances <- jobDisturbances

\* The promises, stated in the modules of the programs and in SchedulerProps.
PromisesOf(p) ==
  CASE p = "limiters"       -> {"LeakyRateIsExact"}
    [] p = "commit log"     -> {"OffsetsReadBack"}
    [] p = "cache"          -> {"WriteThroughNeverStale"}
    [] p = "event sink"     -> {"FlushAccountsForAll"}
    [] p = "crdt"           -> {"SameUpdatesSameValue"}
    [] p = "chat hub"       -> {"LeaversAreDeleted"}
    [] p = "triage"         -> {"ResumeIsIdempotent"}
    [] p = "rabbit worker"  -> {"ExhaustedAreDeadLettered"}
    [] p = "firewall"       -> {"BatchIsAtomic", "ReconciledKernelMatches"}
    [] p = "drift detector" -> {"EveryChangeIsTold", "ShutdownPersists"}
    [] p = "controller"     -> {"DriftIsRepaired", "LinkedToGreeting", "DrivesOn"}
    [] p = "pipeline"       -> {"NoAckedEventIsLost", "ProcessedOnce", "FailedTrialReopens"}
    [] p = "scheduler"      -> {"EveryRuleEnforced", "FollowsStateMachine"}

Programs == <<"limiters", "commit log", "cache", "event sink", "crdt", "chat hub", "triage",
              "rabbit worker", "firewall", "drift detector", "controller", "pipeline", "scheduler">>

\* Whether a promise is kept: those of the scheduler are about a step.
Kept(promise) ==
  CASE promise = "LeakyRateIsExact"         -> LeakyRateIsExact'
    [] promise = "OffsetsReadBack"          -> OffsetsReadBack'
    [] promise = "WriteThroughNeverStale"   -> WriteThroughNeverStale'
    [] promise = "FlushAccountsForAll"      -> FlushAccountsForAll'
    [] promise = "SameUpdatesSameValue"     -> SameUpdatesSameValue'
    [] promise = "LeaversAreDeleted"        -> LeaversAreDeleted'
    [] promise = "ResumeIsIdempotent"       -> ResumeIsIdempotent'
    [] promise = "ExhaustedAreDeadLettered" -> ExhaustedAreDeadLettered'
    [] promise = "BatchIsAtomic"            -> BatchIsAtomic'
    [] promise = "ReconciledKernelMatches"  -> ReconciledKernelMatches'
    [] promise = "EveryChangeIsTold"        -> EveryChangeIsTold'
    [] promise = "ShutdownPersists"         -> ShutdownPersists'
    [] promise = "DriftIsRepaired"          -> DriftIsRepaired'
    [] promise = "LinkedToGreeting"         -> LinkedToGreeting'
    [] promise = "DrivesOn"                 -> DrivesOn'
    [] promise = "NoAckedEventIsLost"       -> NoAckedEventIsLost'
    [] promise = "ProcessedOnce"            -> ProcessedOnce'
    [] promise = "FailedTrialReopens"       -> FailedTrialReopens'
    [] promise = "EveryRuleEnforced"        -> S!EveryRuleEnforced
    [] promise = "FollowsStateMachine"      -> S!FollowsStateMachine

VARIABLES turn,    \* whose it is: an index of Programs
          broken   \* the promises broken so far

PromisesInit ==
  /\ turn = 1 /\ broken = {}
  /\ program = Programs[1]
  /\ Start /\ S!Init
  /\ algo = "leaky" /\ strategy = "through" /\ balancing = "rr" /\ broker = "queue"
  /\ cloud = [s \in Slots |-> "none"] /\ command = [name |-> "scan", dryRun |-> TRUE]
  /\ roomOf = CHOOSE f \in [Peer -> Room] : TRUE
  /\ first = CHOOSE i \in Ident : TRUE

\* The program whose turn it is does A; the next one follows when all its
\* promises are broken.
Takes(p, A) ==
  /\ program = p /\ A
  /\ OthersRest(p)
  /\ broken' = broken \cup {n \in PromisesOf(p) : ~Kept(n)}
  /\ turn' = IF PromisesOf(p) \subseteq broken' /\ turn < Len(Programs) THEN turn + 1 ELSE turn
  /\ program' = Programs[turn']

Mine(p, A) == Takes(p, A) /\ UNCHANGED schedulerVars

PromisesNext ==
  \/ Mine("limiters", LimitersNext)
  \/ Mine("commit log", CommitLogNext)
  \/ Mine("cache", StrategiesNext)
  \/ Mine("event sink", SinkNext)
  \/ Mine("crdt", CrdtNext)
  \/ Mine("chat hub", ChatNext)
  \/ Mine("triage", TriageNext)
  \/ Mine("rabbit worker", RabbitNext)
  \/ Mine("firewall", FirewallNext)
  \/ Mine("drift detector", DriftNext)
  \/ \E m \in Greetings : Mine("controller", ApplyGreeting(m))
  \/ Mine("controller", DeleteGreeting)
  \/ Mine("controller", EditMap)
  \/ Mine("controller", Collect)
  \/ Mine("controller", SeeGreeting)
  \/ Mine("controller", SeeMap)
  \/ Mine("controller", RestartController)
  \/ Mine("controller", ReconcileGreeting)
  \/ Mine("controller", CallFails)
  \/ Mine("pipeline", PipelineNext)
  \/ Takes("scheduler", S!Next)

PromisesSpec == PromisesInit /\ [][PromisesNext]_<<turn, broken, schedulerVars, vars>>

\* The states of programs that have broken their promises, or have not begun,
\* tell nothing apart (vars = vars only has TLC evaluate them).
Current ==
  <<turn, broken, vars = vars, schedulerVars = schedulerVars,
    CASE program = "limiters"       -> limiterVars
      [] program = "commit log"     -> commitLogVars
      [] program = "cache"          -> strategyVars
      [] program = "event sink"     -> sinkVars
      [] program = "crdt"           -> crdtVars
      [] program = "chat hub"       -> chatVars
      [] program = "triage"         -> triageVars
      [] program = "rabbit worker"  -> rabbitVars
      [] program = "firewall"       -> firewallVars
      [] program = "drift detector" -> driftVars
      [] program = "controller"     -> controllerVars
      [] program = "pipeline"       -> pipelineVars
      [] program = "scheduler"      -> schedulerVars>>

\* Whatever happens, one of the promises that the repository's documents and
\* comments make of these programs is kept.  It is not so: one behaviour breaks
\* every one of them, and its trace has a counterexample to each (the modules
\* of the programs name the lines that promise it).
SomePromiseKept == broken # UNION {PromisesOf(Programs[i]) : i \in DOMAIN Programs}
=============================================================================
