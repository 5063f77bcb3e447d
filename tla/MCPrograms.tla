----------------------------- MODULE MCPrograms -----------------------------
(***************************************************************************)
(* Small programs of the repository that share nothing.  One configuration *)
(* checks them all: `program` is chosen at the start and only that one     *)
(* takes steps, so the states are the sum, not the product, of theirs.     *)
(***************************************************************************)
EXTENDS Pipeline, CommitLog, Limiters, LsmTree, BTree, Lru, CacheStrategies, Lease, EventSink, Firewall, RabbitWorker, Saga, Triage, FanOut, ChatHub, DriftDetector, Reaper, LongPoll, Balancer, Crdt, GreetingController

TwoAccounts == <<"prod", "dev">>
ThreeRules == {"10.0.0.0/8", "10.0.0.1/8", "192.168.0.0/16"}
MaskOf == [c \in ThreeRules |-> IF c = "10.0.0.1/8" THEN "10.0.0.0/8" ELSE c]

VARIABLE program
vars == <<program, pipelineVars, commitLogVars, limiterVars, lsmVars, btreeVars, lruVars, strategyVars, leaseVars, sinkVars, firewallVars, rabbitVars, sagaVars, triageVars, fanOutVars, chatVars, driftVars, reaperVars, pollVars, balancerVars, crdtVars, controllerVars>>

\* Every program at its start.
Start ==
  /\ PipelineInit
  /\ CommitLogInit
  /\ LimitersInit
  /\ LsmInit
  /\ BTreeInit
  /\ LruInit
  /\ StrategiesInit
  /\ LeaseInit
  /\ SinkInit
  /\ FirewallInit
  /\ RabbitInit
  /\ SagaInit
  /\ TriageInit
  /\ FanOutInit
  /\ ChatInit
  /\ DriftInit
  /\ ReaperInit
  /\ LongPollInit
  /\ BalancerInit
  /\ CrdtInit
  /\ ControllerInit

Init ==
  /\ program \in {"pipeline", "commit log", "limiters", "lsm tree", "btree", "lru", "cache", "lease", "event sink", "firewall", "rabbit worker", "saga", "triage", "fan-out", "chat hub", "drift detector", "reaper", "long poll", "balancer", "crdt", "controller"}
  /\ Start
  /\ program = "reaper" \/ (cloud = [s \in Slots |-> "none"] /\ command = [name |-> "scan", dryRun |-> TRUE])
  /\ program = "balancer" \/ balancing = "rr"
  /\ program = "limiters" \/ algo = "token"
  /\ program = "fan-out" \/ broker = "queue"
  /\ program = "chat hub" \/ roomOf = CHOOSE f \in [Peer -> Room] : TRUE
  /\ program = "cache" \/ strategy = "aside"
  /\ program = "event sink" \/ first = CHOOSE i \in Ident : TRUE

\* The other programs do nothing when p takes a step.
OthersRest(p) ==
  /\ IF p = "pipeline"   THEN TRUE ELSE UNCHANGED pipelineVars
  /\ IF p = "commit log" THEN TRUE ELSE UNCHANGED commitLogVars
  /\ IF p = "limiters"   THEN TRUE ELSE UNCHANGED limiterVars
  /\ IF p = "lsm tree" THEN TRUE ELSE UNCHANGED lsmVars
  /\ IF p = "btree" THEN TRUE ELSE UNCHANGED btreeVars
  /\ IF p = "lru" THEN TRUE ELSE UNCHANGED lruVars
  /\ IF p = "cache" THEN TRUE ELSE UNCHANGED strategyVars
  /\ IF p = "lease" THEN TRUE ELSE UNCHANGED leaseVars
  /\ IF p = "event sink" THEN TRUE ELSE UNCHANGED sinkVars
  /\ IF p = "firewall" THEN TRUE ELSE UNCHANGED firewallVars
  /\ IF p = "rabbit worker" THEN TRUE ELSE UNCHANGED rabbitVars
  /\ IF p = "saga" THEN TRUE ELSE UNCHANGED sagaVars
  /\ IF p = "triage" THEN TRUE ELSE UNCHANGED triageVars
  /\ IF p = "fan-out" THEN TRUE ELSE UNCHANGED fanOutVars
  /\ IF p = "chat hub" THEN TRUE ELSE UNCHANGED chatVars
  /\ IF p = "drift detector" THEN TRUE ELSE UNCHANGED driftVars
  /\ IF p = "reaper" THEN TRUE ELSE UNCHANGED reaperVars
  /\ IF p = "long poll" THEN TRUE ELSE UNCHANGED pollVars
  /\ IF p = "balancer" THEN TRUE ELSE UNCHANGED balancerVars
  /\ IF p = "crdt" THEN TRUE ELSE UNCHANGED crdtVars
  /\ IF p = "controller" THEN TRUE ELSE UNCHANGED controllerVars

In(p, A) == program = p /\ A /\ OthersRest(p) /\ program' = program

Next ==
  \/ In("pipeline", PipelineNext)
  \/ In("commit log", CommitLogNext)
  \/ In("limiters", LimitersNext)
  \/ In("lsm tree", LsmNext)
  \/ \E n \in Number : In("btree", InsertKey(n))
  \/ In("lru", LruNext)
  \/ In("cache", StrategiesNext)
  \/ In("lease", LeaseNext)
  \/ In("event sink", SinkNext)
  \/ In("firewall", FirewallNext)
  \/ In("rabbit worker", RabbitNext)
  \/ In("saga", SagaNext)
  \/ In("triage", TriageNext)
  \/ In("fan-out", FanOutNext)
  \/ In("chat hub", ChatNext)
  \/ In("drift detector", DriftNext)
  \/ In("reaper", ReaperNext)
  \/ In("long poll", LongPollNext)
  \/ In("balancer", BalancerNext)
  \/ In("crdt", CrdtNext)
  \/ \E m \in Greetings : In("controller", ApplyGreeting(m))
  \/ In("controller", DeleteGreeting)
  \/ In("controller", EditMap)
  \/ In("controller", Collect)
  \/ In("controller", SeeGreeting)
  \/ In("controller", SeeMap)
  \/ In("controller", RestartController)
  \/ In("controller", ReconcileGreeting)
  \/ In("controller", CallFails)

\* The broker delivers and the workers run; the controller's worker, both
\* watches and the garbage collector run, each by itself.
Spec == /\ Init /\ [][Next]_vars
        /\ WF_rabbitVars(program = "rabbit worker" /\ RabbitRuns)
        /\ WF_controllerVars(program = "controller" /\ ReconcileGreeting)
        /\ WF_controllerVars(program = "controller" /\ SeeGreeting)
        /\ WF_controllerVars(program = "controller" /\ SeeMap)
        /\ WF_controllerVars(program = "controller" /\ Collect)

\* Each loop gets done what it is for, when its program runs: tasks that parse
\* are acknowledged (GoodTasksFinish of RabbitWorker),
WorkerFinishes == program = "rabbit worker" => GoodTasksFinish

\* and a Greeting and its ConfigMap come to agree (Converges of
\* GreetingController).
ControllerConverges == program = "controller" => Converges
=============================================================================
