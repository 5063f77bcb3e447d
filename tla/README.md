# Verification of tour-of-go

TLA+ models of the programs in this repository that keep state and run
concurrently or survive failures, TLC configurations that check them on small
instances, and TLAPS proofs that hold for every instance.

```
tlc -config RaftLogs.cfg MCRaft           # check one configuration
tlapm RaftLogProofs.tla                   # check the proofs of one module
```

`PROJECT.json` lists the components, the runs, the source lines of every
definition, the hazards and the findings.

## 1. The system

The repository is a collection of Go programs: `go/` (the language, one example
per feature), `from-scratch/` (23 exercises), `projects/` (22 services) and
guides in `system-design/` and `devops/`.  The programs share no state with each
other.  Those below have a state worth a model; the rest is listed at the end.

### raft-kv-store (`projects/raft-kv-store/internal`)

| part | state | operations |
|---|---|---|
| `raft` | role, currentTerm, votedFor, log, commitIndex, lastApplied, leaderID, nextIndex, matchIndex; `stepDownCh`, `heartbeatCh`, `commitCh` | `Run` and its three loops, `HandleRequestVote`, `HandleAppendEntries`, the vote, heartbeat and replication goroutines, `Propose` |
| `wal` | a file of entries | `Append`, `Truncate` (empties and rewrites), `ReadAll` |
| `kv` | a map | `Apply`, `Get` |
| `transport`, `api` | none | gRPC calls with time limits; HTTP routes, redirect to the leader |

`Propose` appends under the node's mutex, releases it, starts one goroutine for
each peer, waits for `commitCh` or polls `commitIndex`.  Everything that answers
a call takes the mutex again and may find another role, term or log.  A process
may stop at any point, a WAL truncation included, and recovers the log from the
WAL only.
*Correct when:* logs have no gaps and agree where their terms agree; the WAL is
the log; every index is applied once and in order; leaders have a majority; a
success answer is durable; nodes apply the same commands.

### idempotent-payments (`projects/idempotent-payments/internal`)

The tables `accounts`, `payments` (unique key), `idempotency_keys`; `POST
/payments` goes through the middleware (replay a saved answer, or run the
handler and save what it answered), `ProcessPayment` and the transaction
`TransferTx`; a goroutine deletes expired records.  Requests are goroutines of
one or more servers that meet only in Postgres.
*Correct when:* a key pays at most once, wholly, with money the payer has; an
answer is true and a retry gets the same one; no set of requests waits for ever.

### event-sourced-ledger (`projects/event-sourced-ledger/internal`)

`eventstore`: streams of versioned events, `Append(stream, expectedVersion,
events)` under a mutex, `Load`, `AllEvents`.  `ledger.Account`: id, balance,
version, hydrated by replay; `Open`, `Deposit`, `Withdraw`, `Transfer`.
`projection`: balances rebuilt from all events.
*Correct when:* streams are gap-free, no balance is overdrawn by concurrent
commands, a transfer conserves money, the projection equals the streams.

### distributed-scheduler (`projects/distributed-scheduler/internal`)

`concurrency.Manager`: counters for each name, tenant and control value, and a
gate that admits a job while all its rules have room.  `scheduler.Service`: one
pending trigger for each job name, a pool of runs, and in a run the search, the
gate, the publication.  `crons`: the cold scheduler, the checkers of stuck jobs
and zombies, the refresh of the counters from the database.  `postgres`: jobs
and their status.  `redis`: the search index and a lease with a time to live.
`app.Manager`: instance life cycle.  `api`: submit, cancel, retry, status.
*Correct when:* the counters are never behind the jobs that hold a slot, no rule
is exceeded, one instance is active.

### Smaller programs

| program | state | operations | correct when |
|---|---|---|---|
| event-driven-pipeline | buffer, workers, keys in Redis, three atomics of a circuit breaker, dead letters | fetch and acknowledge, work, retry, give up, stop | only what was in memory is lost; a tripped breaker is never left half open with nobody to close or open it |
| cache-service | LRU list and map; store and cache | set, get, delete, expiry, reaper; cache-aside behind single flight, write-through | the `Capacity` keys used last are kept; cache and store part only over two calls that overlap |
| k8s-event-sink | a window and timer per key | process, timer, flush on a signal | every occurrence is in a row or counted, but for what a refused save had |
| xdp-firewall | rules in a file, a kernel map, memory | block, unblock, batch, reconcile | the three agree on a rule whose operation succeeded |
| saga-orchestrator | log of an execution | steps, compensation | a failed saga leaves only what it could not undo |
| triage-engine | one row per ticket | start, resume with a decision | a ticket is decided once, but by requests that held it at the same time |
| rabbitmq-worker | deliveries under prefetch | process, ack, nack, dead letter | a task is processed before it leaves, once per channel, and in the end |
| k8s-controller | Greeting and ConfigMap in the API server, and in two caches | reconcile, watches | in the end the ConfigMap says what its Greeting says, and goes with it |
| tf-drift-detector | known drift, in memory and on disk | poll, update, alert, persist | what is known is what was told |
| aws-resource-reaper | findings, a confirmed plan | scan, report, confirm, execute | nothing is destroyed that was not planned |
| platform-console, from-scratch/06 | subscribers' channels | subscribe, unsubscribe, publish | no send on a closed channel |
| from-scratch/03 | hub with three queues, rooms | join, leave, broadcast | members hear their room, in order |
| from-scratch/04, sidecar token bucket | counters and a clock | `Allow` | no period gets more than the algorithm allows |
| from-scratch/05 | health, connections, index | pick, proxy, health check | no refusal while a backend is healthy |
| from-scratch/14 | replicas | update, merge | every update seen counts once |
| from-scratch/15 | log and index files, segments in memory | open, append, read, crash | acknowledged records read back |
| database-internals | memtable and tables; B-tree | put, delete, compact; insert, search | a map; a balanced tree of what was inserted |
| realtime-communication | waiting polls | wait, publish, give up | a waiting poll can be woken |

## 2. Plan

In this order, the most important behaviour first.

1. **raft-kv-store** (done): `RaftKV` (the node), `RaftProps` (what it
   guarantees), `MCRaft`; `RaftTypes`, `RaftLogProofs`, `RaftSafety`.
2. **idempotent-payments** (done): `AtomicPayments` (the promise), `Payments`,
   `PaymentProps`, `MCPayments`, `PaymentProofs` with the refinement.
3. **event-sourced-ledger** (done): `Bank` (the promise), `Ledger` (event store
   and accounts), `LedgerProps`, `LedgerProofs` with the refinement.
4. **distributed-scheduler** (done): `Scheduler`, `SchedulerProps`,
   `MCScheduler`, `SchedulerProofs`; `Lease` by itself, since an instance that
   has lost its lease still does everything `Scheduler` does.
5. **the smaller programs** (done), each in a module of its own: `Pipeline`,
   `Lru`, `CacheStrategies`, `CommitLog`, `EventSink`, `Firewall`, `Limiters`,
   `RabbitWorker`, `Saga`, `Triage`, `FanOut`, `ChatHub`, `DriftDetector`,
   `Reaper`, `GreetingController`, `LongPoll`, `Balancer`, `Crdt`, `BTree`, and
   `LsmTree` with its promise `KVMap`.  `MCPrograms` puts them in one
   configuration, `MCPromises` those whose documents promise what they do not do.  The proofs are in `StructureProofs` (`Limiters`, `Lru`,
   `LsmTree`) and in `ProgramProofs` (the others).

Every safety property that a passing run checks is proved, but for `TreeIsSound`,
which stays with TLC: the B-tree is recursive.

Every module is written to be proved about too: parameters are CONSTANTS with
named assumptions, invariants are conjunctions of named parts, and recursion is
by recursive functions or folds, except in `BTree`.

## 3. Raft

### Correspondence

`RaftKV` has one variable for each field of `Node`, all functions of the node.
`loop` is where the goroutine of `Run` is; `campaign` is the local state of
`runCandidate`; `calls` holds the RPC requests and replies in flight;
`proposals` the running `Propose` calls.  `cast` and `wins` record votes and
elections for the properties and influence nothing.  One critical section of the
mutex is one action: `StartElection`, `HandleRequestVote`, `HandleVoteReply`,
`Win`, `StepDown`, `SendHeartbeats`, `HandleHeartbeatReply`, `Propose`,
`Replicate`, `HandleAppendEntries` (with `RefuseAppend` and `AppendConflict` for
the early returns), `HandleAppendReply`.  `Dispatch` is `Run` reading the role:
it is a step of its own because the role may change between a loop's return and
the next call.  `Crash` stops a node anywhere and `CrashInAppend` between the
writes of `Truncate` and `Append`; both restart it through `recoverFromWAL`,
which takes every entry for committed and applied, as the code does.
`AppendDiskError` and `ProposeDiskError` are writes that fail.  A follower
ignores the errors of `Truncate` and of each `Append` (`replication.go:211,224`)
and goes on: `FailedTruncate` leaves the old file or the beginning of the kept
one, and `FailedAppends` any gap among the new entries.  The leader reports its
error and keeps the entry in memory; the file has it if the write succeeded and
only the sync failed.

Timers may fire at any time.  A call that is lost, or whose deadline passes, is
one nobody handles; calls are handled in any order.  `heartbeatCh` only resets a
timer and `commitCh` only shortens a poll, so neither has a variable.  A WAL
line torn by a crash makes `NewNode` fail; such a node is one that does not
return and is left out.  So is a restart over a WAL that a failed truncation
left with old entries in front of new ones of lower index (`InOrderOfIndex`, a
bound of the model).

### Runs

| run | start and bounds | checks |
|---|---|---|
| `raft_logs` | one node holds an entry of term 3 nobody else has; 2 elections, 2 proposals, 1 heartbeat round, 1 crash, 1 disk error, any three of these; 2 calls in flight | `TypeOK`, `WalMirrorsLog`, `WonByMajority`, `LogMatching`, `LogContiguous`, `AppliedInOrder` |
| `raft_votes` | a new cluster, 2 elections, 1 crash | refutes `VotesOncePerTerm` |
| `raft_answers` | a new cluster, 2 elections, 2 proposals | refutes `AnswerIsDurable` |
| `raft_applied` | a new cluster, 2 elections, 2 proposals, 1 heartbeat | refutes `AppliedAgree` |

Three nodes and one command throughout: a majority differs from all and from
one.  Two elections give a deposed leader and its successor, the source of every
conflict between logs.  `raft_logs` starts from the WALs of an earlier life, in
which `n1` led term 3, appended an entry and reached nobody: a state a cluster
gets into by elections, a proposal and a restart of all nodes, and from which one
more proposal elsewhere has a conflicting tail to cut.  The state constraint
`ThreeEvents` ends a behaviour at three elections, proposals, heartbeat rounds,
crashes and disk errors together, in any mix.  An election, a proposal and a crash
or disk error are enough for a follower to append (and `n1` to truncate) and to
stop or fail in the middle of it; an election and two proposals for entries to be
committed and applied, and for `AppendEntries` that overlap.  Every action of the
module is taken in this run, `CrashInAppend` and `AppendDiskError` among them.
`MaxInFlight` bounds calls not yet handled; two are enough for a late answer to
meet a newer request.  A new cluster is symmetric in its nodes, and the
configurations that start from one use that; the others cannot.  Runs may stop:
when the bounds are spent nothing is left to do, so deadlock is not checked.

The three refuted properties are what the documents say (`findings`):

- a restart forgets term and vote, which `state.go:38` calls persistent, so a
  node votes for two candidates of one term;
- `Propose` looks at the commit index and not at the entry, so it reports
  success for an entry that another leader's has replaced;
- a heartbeat carries no `PrevLogIndex` but makes the follower commit up to the
  leader's commit index, so entries that never matched are applied and two nodes
  differ.

The first of these is why `LogMatching` has the premise that no term has been
won twice.  It is not empty: most behaviours of the run satisfy it, and the
mutant of `Has` breaks the conclusion under it.  `Unharmed`, the condition of
three of the properties, excepts a behaviour only once it has had both a failed
write and a restart: what such a WAL holds is not a log, as no error of a
follower's write is looked at.

No fairness is assumed for Raft; the code's timers justify little, and nothing
checked about it is a liveness property.

### Proved

For every set of servers and commands and all bounds:

- `TypeCorrect` (`RaftTypes`): `Spec => []TypeOK`.  Inductive is `TypeInv`, that
  is `TypeOK` and `Routable`: a node that replicates has been made leader, so
  its `nextIndex` is at least 1 and `nextIndex - 1` does not wrap.
- `MajorityElects` (`RaftSafety`): `WonByMajority`, with no condition.
- `LogsGapless` (`RaftLogProofs`): `LogContiguous`, and `AppliesInOrder`:
  `AppliedInOrder`, as long as no node has read back a WAL in which a write failed
  (`Unharmed`).
- `WalInStep`: `WalMirrorsLog`, until a write fails.
- `LogsMatch` (`RaftSafety`): `LogMatching`, which has `Unharmed` and
  `OneWinPerTerm` as its conditions.

The conditions are on the behaviour so far and not on the constants: the theorems
have no hypothesis on the bounds.

`LogsGapless`, `AppliesInOrder` and `WalInStep` share `LogInv`: logs are gapless
(`Gapless`), applied commands are `1..lastApplied` (`InOrder`), the WAL of a node
follows its log (`InStep`), and the entries of every request in flight continue
its `prevIndex` (`CallsFollow`).  The last is what makes it inductive, since a
request was built from a log that may have changed since it was sent.  The
conditions are needed: after a failed write the WAL lacks an entry, and recovery
from it leaves a gap.  The lemmas about the log operators (`Before`, `Below`,
`From`, `Rewrite`, ...) are in `RaftTypes`.

`MajorityElects` rests on `VoteInv`.  A vote, once cast, stands in `cast`; so it
is enough that every voter a campaign counts, and every granted answer to that
campaign still in flight, has its vote in `cast` for the campaign's term.  A
campaign is told apart by its round: an answer to an earlier one is never
counted for a later one, even after a late heartbeat reply has taken the
candidate back to an older term.

`LogsMatch` rests on `MatchInv`, which is about *links*: an entry together with
the term of the one before it (0 for the first).  The links are those of all logs
and of all requests in flight, so what a late request will write counts as if it
were written.  `Matched` says that index and term tell the link, that the terms
of all links have been won, and that the log of a leader reaches at least as far
as any link of its term.  An append is taken only behind an equal entry, so a
rewritten log is made of links there were (`RewriteLinks`).  Only `Propose` makes
a new one, and its index is beyond every other of its term.  `Leaders` says whose
term that is: a node in the role of leader has won it, and by `OneWinPerTerm`
nobody else has.  `Rounds` tells elections apart, so that `Win` wins a term nobody
has won, of which there is no link.  Equal links make equal prefixes, from the
last entry to the first (`LinksMatch`).

## 4. Payments

### Correspondence

`balance`, `payments` and `records` are the committed rows; `pc`, `key`,
`order` and `answer` are the request goroutines.  One database call is one
action: `Replay`/`Miss` (`store.Get`), `Reject` (`ProcessPayment`),
`LockSender` (`SELECT ... FOR UPDATE` and the balance check), `Transfer` (the
two updates), `Insert`, `Commit`, `Save`.  The two updates are one action: the
first is of a row already locked and cannot wait.

Postgres is modelled by what the code relies on.  The rows a transaction has
locked or updated, and the key it has inserted, are its own until it ends:
`Holds` and `Inserting` derive them from `pc`, and `WaitsFor` says who waits.
Values written inside a transaction are invisible to others, so `Commit` writes
them.  A cycle of waiting transactions is broken by failing one of it
(`BreakDeadlock`).  `DbError` fails any call, `LoseCommit` commits and loses the
confirmation, `Crash` stops the server, `Expire` and `DeleteExpired` are the
time to live and the cleanup goroutine.  An insert that meets an uncommitted
row of the same key waits; the wait of `Save` for another `Save` of the key is
one statement long and part of it.  Amounts are integers (`NUMERIC` in the
tables); that the code reads them as `float64` is not modelled.

### Runs

`payments`: two accounts, an id without a row, two keys, four orders (two that
block each other, one to nowhere, one to the payer himself), three requests and
one fault of any kind.  Three requests are two concurrent ones and a later
retry; the opening balances let each order succeed alone and not all together.
It checks

- `FundsReserved`: what the balance check has seen is still there at the commit;
- `CreatedIsPaid`: every 201, fresh, saved or replayed, names the payment that
  its key has made;
- `KeepsPromise`: the service implements `AtomicPayments`, in which a payment is
  one step, at most one for a key, with money the payer has;
- `Answered`: again and again, every request that has arrived is answered.

`Answered` assumes weak fairness of the requests' steps taken together: the
server and Postgres do not stop while some request can go on, that is goroutines
are scheduled, a lock that is free is granted and a deadlock is broken after
`deadlock_timeout`.  Nothing is assumed of clients, faults or the cleanup.  The
system may stop when every request is answered, so deadlock is not checked; a
set of requests that wait for each other is excluded by `Answered`.

`payments_retry` refutes `RetriesIdentical`, which the README of the project
states: of two requests with one key and body the one that does not pay can save
its 400 or 402 first, and all later retries get it although a client has
received 201.

### Proved

In `PaymentProofs`, for any accounts, keys, orders, requests and faults:
`TypeCorrect`, `FundsStayReserved`, `CreatedIsAlwaysPaid` and `Implements`
(`Spec => KeepsPromise`).  The inductive invariant `PayInv` adds to the
properties: `Asked` (a request that has come has a key and a body), `Checked`
(what a transaction has established by the place it is at), `Exclusive` (no two
transactions hold one row or key), `Recorded` and `Told` (recorded and given
answers name the payment of their key).  `Exclusive` is the heart: at a commit
no other transaction holds either row, so the money the others have checked is
untouched, and none inserts the key.  For the refinement, `Apply` is the
abstract `Pay`, every other step changes neither balances nor payments.

Only model-checked: `Answered`.

## 5. Ledger

### Correspondence

`events` and `streams` are the fields of `Store`; an event's id is its place in
`events`.  `pc`, `handle`, `command` and `credit` are the goroutines: where a
command is, the `Account` object it works on, its arguments, and the version of
the receiver that `Transfer` has hydrated.  The store's mutex makes `Load` and
`Append` one step each, and nothing holds it in between, so a command is
`Decide` (the checks and `Hydrate`), `Record` (`Append` and what follows it),
and for a transfer `LoadReceiver` and `Credit`.  `Open` is one append.
`Current` is the version check and `Add` the append; every append of the code
has one event.  `Replay` folds `apply` over a stream; `Rebuilt` is the
projection's own fold over all events, which starts an account again at
`AccountOpened`.

An `Account` has no lock, so each belongs to one goroutine.  `Reuse` says whether
a goroutine may give a command to the object that it has used before, as
`cmd/main.go` does, or makes a new one each time.  Timestamps are left out, and
so is the `float64` that carries amounts in an event, exact below 2^53.

### Runs

Two accounts, two goroutines, amounts 0, 1 and 2, four commands: enough for a
deposit, two concurrent commands that have read one version, and one after the
conflict.  Commands run out, so deadlock is not checked.

- `ledger` (new objects): `ProjectionAgrees`, the read model is what the streams
  replay to; `KeepsBooks`, the store implements `Bank`: every withdrawal and
  every transfer is covered at the moment of its append, whatever was read
  before, and a credit follows a debit and happens once.  `Bank` lets money stay
  on its way, because the code does when the second append conflicts: a transfer
  is not atomic, and no document says it is.
- `ledger_reuse` (objects used again) refutes `NoOverdraft`: `Hydrate` adds the
  whole stream to a balance that already contains it, and sets the version to the
  stream's, so the append that should fail succeeds.

### Proved

In `LedgerProofs`, for any accounts, goroutines, amounts and number of commands,
if `Reuse = FALSE`: `TypeCorrect`, `ProjectionAlwaysAgrees`, `NeverOverdrawn`
and `Implements` (`Spec => KeepsBooks`).  The inductive invariant `LedgerInv`
adds `Solvent` (no account is overdrawn), `Decided` (an object is not ahead of
its stream, and at the stream's version its balance is the account's: what makes
the version check sufficient), `OnTheWay` and `Owed` (at least as many debits
without a credit as goroutines between the two).  The last is why a credit always
finds its debit.  `ReplayAppend` and `RebuiltAppend` say what one more event does
to the two folds.

## 6. Scheduler

### Correspondence

`status` is the table of jobs, `pool` the counters of `concurrency.Manager`,
`run` the scheduling run of each job name: idle, queued for a slot of the pool,
searching, at the gate, marking, dispatching, or marking failures.  `requests`
are retry and cancel requests between their read of the row and their save,
`snapshot` a refresh between its read and its replacement of the counters,
`doomed` the jobs a checker has read and will mark failed, `queue` what the
destination has accepted.

| action | code |
|---|---|
| `submitJob`, `ReadJob`, `SaveJob`, `SaveFails` | `api/handler.go` |
| `Start`, `FillVacantSpots`, `EvaluateJobPublish`, `MarkPublished`, `BatchPublish`, `MarkRefused`, `RunFails` | `scheduler/service.go`, `algorithm.go`, `concurrency/manager.go`, `postgres/repo.go` |
| `ColdTrigger`, `ReadActive`, `Refresh`, `RefreshFails`, `GetStuckPublished`, `GetProcessingJobs`, `MarkStuck` | `crons/crons.go` |
| `Restart` | `app/manager.go`, `Run` |
| `WorkerTakes`, `WorkerEnds` | none: workers are outside the repository |

The run follows the calls in their order and any of them may fail (a search after
some jobs are selected, a destination of an unknown type, a `MarkPublished` that
has committed and reports an error); the gate is one step per job, under its lock.
The keys of the counters are those of `GenerateConcurrencyMap`: names, tenants,
control values and the two joined by `_`.  A restart leaves the destination's
queue as it is.  Three things in the code decide what the model
allows:

- nothing under `src/` calls `Index`, and `MassIndex` is given the result of a
  query whose `job_name = $1` matches nothing (`app/manager.go:111` passes the
  empty string), so what the search returns is any choice of schedulable jobs;
- `HandleFinishedJob` is called by tests only, so a slot is given back by the
  refresh and by a restart, and nothing else;
- the loop of a run does not exclude what it has selected, so a job can come
  twice and is counted twice.

A trigger that finds its name pending is dropped (`service.go:44`); the cold
scheduler is what makes up for it.  No liveness is stated: a job that no search
returns, or a counter that failures have driven to its limit before the next
refresh, waits, and the code promises nothing about it.

### Run

`scheduler`: three jobs of two names that share a tenant, one name with a rule
on a tenant's control value (`$tenant_$env`), limits 1 and 2, a pool of two, two
disturbances (requests, refreshes, checker rounds, failures and restarts count as
one each).  Two jobs
of different names that compete for one tenant are the least that lets two runs
meet at the gate; two disturbances let a refresh or a request race a failure.

- `NeverUndercounted`: the counters are never behind the jobs that hold a slot.
  The exception is stated: a refresh that replaces the counters by a count older
  than the last admissions (`raced`).
- `AdmitsWithinLimit`: but for such a refresh the gate never lets more jobs of a
  name or of a tenant hold a slot than its rule says.  Rules on control values
  are left out of it, since the code does not enforce them: see `promises`.

That a row follows the state machine holds of the requests' check only, since all
writers save a row by its id whatever it holds by then; `FollowsStateMachine` and
`EveryRuleEnforced` of `SchedulerProps` are what the documents promise, and the
run `promises` (below) refutes both.

Runs may stop when disturbances are spent, so deadlock is not checked.

### Proved

In `SchedulerProofs`, for any jobs, names, tenants, environments, rules and
bounds: `TypeCorrect` (`TypeOK`), `CountersKeepUp` (`NeverUndercounted`) and
`GateKeepsLimits` (`AdmitsWithinLimit`).  `TypeOK` alone is not inductive: a run
may take up any job that it has selected.  `SchedInv` adds `SelectsItsOwn`: a
run selects rows there are, of its own name.

Counters and gate share one lemma, `Admission`, which is what a step can do to
both: nobody takes a slot and the counters stay; or the counters are replaced
(a refresh or restart), with `raced` set unless they cover the jobs that then
hold a slot; or the gate approves one job, adds one to each of its keys and that
job is the only new holder.  `NeverUndercounted` follows case by case,
and `AdmitsWithinLimit` from it: if the counter is below the limit, so is the
number of holders, which grows by one.

## 7. The smaller programs

`MCPrograms` checks twenty-one programs in one configuration.  They share no variable
and no process: the variable `program`, chosen at the start, says which of them
takes steps, so the states are the sum of theirs and not the product, and an
invariant of one is constant in the others.  Each program ends at its bounds,
so deadlock is not checked.  Constants of different programs have different
names, and an action's map entry is of the program's own code.

| module | code | one step is | bounds |
|---|---|---|---|
| `Pipeline` | `event-driven-pipeline` consumer, processor, breaker | an access to an atomic, a call to Redis, NATS or the handler | 2 events, 2 workers, buffer 1, threshold 2, 1 mishap (a stop, a lost ack, a refused dead letter) |
| `Lru` | `cache-service` `lru.go` | a method under the mutex | 3 keys, 2 values, capacity 2 |
| `CacheStrategies` | `aside.go`, `writethrough.go`, singleflight | a call of the cache or store | 3 clients, 1 key |
| `Lease` | `redis/lease.go`, `app/manager.go` | a Redis call, a tick | 3 instances, TTL of 4 ticks refreshed every 2, 9 ticks |
| `EventSink` | `k8s-event-sink` `dedup.go`, `processor.go`, `sqlite/store.go` | a section of the mutex, a save | 4 occurrences of one key, 2 row IDs |
| `Firewall` | `xdp-firewall` `engine.go`, `helpers.go` | a save, a map update | 3 rules, 2 of which share a kernel entry, 1 error or crash |
| `RabbitWorker` | `rabbitmq-worker` pool, consumer | a delivery, processing, ack or nack | 3 tasks, one malformed, 2 workers, 2 failures of each task, 1 closing |
| `Saga` | `orchestrator.go` | a step, a whole compensation | 4 steps, the last without compensation |
| `Triage` | `graph/engine.go` | a call to the database or Slack | 2 requests at once, 5 in all |
| `DriftDetector` | poller, tracker, daemon | a fetch, an update, an alert, the truncation and the write of the file | 2 resources, 2 upsets |
| `Reaper` | engine, executor, commands | a scan of a region, an AWS call | 2 accounts, 1 region, 2 identifiers, 1 change |
| `FanOut` | `06-message-queue`, `platform-console` watcher | a lock, a send, a close | 2 subscribers, 2 publishers, 3 messages |
| `ChatHub` | `03-websocket-chat` hub | a channel operation | 2 clients, 2 rooms, 2 messages |
| `Limiters` | `04-rate-limiter`, sidecar bucket | `Allow`, a tick | limit 2, 7 ticks |
| `Balancer` | `05-load-balancer` | a backend looked at, an atomic | 3 backends, 2 requests, 3 changes of health |
| `Crdt` | `14-crdt` | an update, a merge | 3 replicas, 2 updates, 2 payloads, timestamps that may be equal |
| `CommitLog` | `15-commit-log` | a write to a file | 2 connections, 3 records, 1 crash, 1 failed write |
| `LsmTree`, `KVMap` | `lsm.go` | a method | 2 keys, 2 values, 5 writes, flush at 2 |
| `BTree` | `btree.go` | an insertion, all splits included | degree 2, 10 keys in any order |
| `GreetingController` | `k8s-controller` Reconcile and its watches | a call of `Reconcile`, an event of a watch | 1 Greeting, 2 messages, 2 undelivered events, 3 edits (the data cleared, the owner removed), failures or restarts |
| `LongPoll` | `ws_sse.go` long-poll part | a section of the mutex, a select | 3 pollers, 3 messages |

What `programs` checks:

- `BoundedLoss`: the consumer acknowledges before an event is handled
  (`consumer.go:59`); what is lost was in memory at a stop or was refused by the
  dead letter queue, at most a buffer and one event per worker for each stop and
  one for each refusal.  With two events the number is no bound in this run, where
  the first half says everything; the number is what `LossIsBounded` proves.
  `HalfOpenIsOnTrial`: with its failures at the threshold the breaker is half open
  only while some worker's attempt is on the way to open or close it, whatever
  order the workers reach its three atomics in (the load of the state, the load of
  the time and the swap are three steps).
- `KeepsRecent`; `AgreeUnlessRaced`: cache and store disagree only over the two
  calls that wrote them last, when one of these did so while the other was under
  way.  A disagreement ends with the next call that writes alone, and a race
  excuses nothing later.  Under cache-aside a set alone leaves the old value in
  the cache (`aside.go:36` does not invalidate).
- `ExclusiveUnlessOverslept`: two instances run at once only after one was
  silent for the whole TTL.  The refresh does not look at who holds the key
  (`lease.go:67`), so one such lapse is enough for any number of pairs later.
- `NothingDroppedSilently`: every occurrence is in a row, was in a row that a later
  one of the same ID replaced (`sqlite/store.go:49`), is in the open window or on
  its way; or its save was refused by the database, or after the signal by the
  context or the end of the process.  None is in the rows of two IDs.
- `GrantedRulesHold`: a rule whose block succeeded last is in file, kernel and
  memory, and one whose unblock did is in none, whatever operations on other rules
  failed half-way.  Two things take a granted rule away, and both are named: a
  `Reconcile` that did not read it (then the next save drops it), and the deletion
  of the kernel entry of another rule of the same mask (`helpers.go:22`), by an
  unblock or by `Reconcile`.
- `SagaUndone`: what failed compensations leave behind, and nothing else.
- `RedecidedOnlyInRace`: one opening of a ticket has two decisions only of requests
  that had both loaded it before either was saved; a race on one opening excuses
  nothing on the next.
- `KnownIsTold`: the tracker knows what its alerts have told, of every resource
  but those that a lost alert, or a restart over a file that is stale, cut or
  empty, has left behind and that no alert has named since.
- `DoneOncePerChannel`: a task is done again only after a channel has closed, and
  only tasks that cannot be parsed are dead-lettered.
- `WorkerFinishes`: every well-formed task of the worker is settled
  (`GoodTasksFinish`) after two failures at most; one that fails for ever is
  redelivered for ever, see `promises`.  `ControllerConverges`: when users stop,
  the controller's ConfigMap carries its Greeting's message, or is gone with it,
  for good (`Converges`), unless a user has made it or cleared its data.
  The cases are a cache that is behind, a create or update that conflicts, a
  call that fails, a restart, and a Greeting that is deleted and made again while
  the garbage collector has yet to delete the old ConfigMap: `Reconcile` may then
  write the message to the old one, and only the event of its deletion, which
  `Owns` turns into another `Reconcile`, makes the new one.
- `NeverSendsOnClosed`: both orders of removing and closing are safe, as the
  sender holds the read lock.  `MembersHearTheRoom`: who is in a room when a message
  is published and stays until it is broadcast hears it or has a full channel;
  everyone hears its own room only, and in order.
- `RateKept`, `NoFalse503`, `CountsWhatItSaw`, `PromisedReadsBack`, `PollsCanWake`,
  `TreeIsSound`: the algorithms against a definition of what they compute.
  `RateKept` gives a fixed window twice its limit around a boundary; round robin
  may refuse with a healthy backend when others move its index.
- `LsmIsAMap`: the LSM tree implements `KVMap`.  The map has the last write and
  the number of writes in its state, so a put or delete must change the answer of
  its own key to its own value, and a flush or compaction, which is a stutter, can
  bring nothing back.
- `DestroysOnlyPlanned`: dry runs, failed scans and refusals destroy nothing, and
  every call is for an identifier on the confirmed list.

`reaper_accounts` refutes `DestroysWhatItFound`, which `commands.go:69` says: the
executor is made with the first account's credentials (`executor.go:57` changes
the region only), so a finding of another account is looked for in the first
one.  An idle snapshot and a used one of the same name show it.  Only database
snapshots have names that two accounts may share; other identifiers are unique,
and then the call fails and nothing is reaped.

### What the documents promise

`promises` (`MCPromises`) refutes twenty statements of READMEs, design documents
and comments.  Each is a formula in the module of its program, next to the
property that does hold:

| promise | what happens instead |
|---|---|
| `NoAckedEventIsLost`, `ProcessedOnce`, `FailedTrialReopens` (event-driven-pipeline) | a stop loses events that were acknowledged on buffering; a redelivery is handled beside the first copy; a trial that fails below the threshold leaves the breaker half open |
| `WriteThroughNeverStale` (cache-service) | two sets reach store and cache in different orders |
| `OffsetsReadBack` (15-commit-log) | an index write fails, the record is acknowledged and cannot be read |
| `LeakyRateIsExact` (04-rate-limiter) | as many requests as the queue holds pass at one instant |
| `SameUpdatesSameValue` (14-crdt) | two writes with one timestamp: each replica keeps its own |
| `LeaversAreDeleted` (03-websocket-chat) | `select` takes a leave before the join it follows |
| `FlushAccountsForAll` (k8s-event-sink) | events after the flush has listed the keys |
| `ResumeIsIdempotent` (triage-engine) | two decisions load before either saves |
| `ExhaustedAreDeadLettered` (rabbitmq-worker) | requeueing is not counted, so retries are never exhausted |
| `BatchIsAtomic`, `ReconciledKernelMatches` (xdp-firewall) | the second insert fails and nothing is undone; `Reconcile` deletes a masked entry whose rule is in the file |
| `EveryChangeIsTold`, `ShutdownPersists` (tf-drift-detector) | an alert fails after its drift counts as known; `Persist` fails and the shutdown says it did not |
| `DriftIsRepaired`, `LinkedToGreeting`, `DrivesOn` (k8s-controller) | a ConfigMap that a user has made is written to and never owned, so its changes wake nobody; one without data ends the process |
| `EveryRuleEnforced`, `FollowsStateMachine` (distributed-scheduler) | the gate counts under other keys than the refresh; a cancelled job is published |

The run has one property, `SomePromiseKept`: whatever happens, one of the twenty
is kept.  It is weaker than each of them, and the behaviour TLC finds breaks them
all.  To find it in one search the programs take their turns in the order of
`Programs`: `turn` goes on when every promise of the program whose turn it is has
been broken, and `broken` has their names.  A program takes its own steps only,
those of its module, from its own initial state, so the part of the trace in which
it has the turn is a behaviour of that program alone.  `Current`, the VIEW, leaves
out the states of the programs whose turn it is not: those before have ended and
those after are at their start.  Bounds are those of `programs` or smaller, but for
a second mishap of the pipeline, a second error of the firewall and a fourth edit of
the cluster; the scheduler has two jobs.

### Fairness and bounds

Fairness is weak and for `WorkerFinishes` and `ControllerConverges` alone.
`RabbitRuns`, the steps of broker and workers taken together: the broker delivers what it has to a channel with
room, workers are goroutines in a loop, and failures of processing and closings
of the channel are bounded; which task comes next is left to chance.
`ReconcileGreeting`, `SeeGreeting`, `SeeMap` and `Collect`, each by itself: the
controller's worker, its two watches and the cluster's garbage collector are
separate loops, none of which waits for the others.  The fairness is stated over
the variables of the program concerned.

Bounds are small because each program has one critical encounter: two writers of
one key, one crash between two writes, one lapse of the lease and then a third
instance.  Five writes at a memtable of two give two tables, a tombstone in one
of them and a compaction; ten keys at degree two give a tree of height two with
splits of inner nodes; seven ticks are more than two windows.

### Proved

In `StructureProofs`, for any values of the constants that the named assumptions
admit (limits, windows, capacities and the like are positive):

- `LimitersKeepRates`, that `LimitersSpec` implies `RateKept`.  `LimitersInv`
  has a count for each algorithm of what was let through from the i-th request
  on (`Since`).  `TokenInv`: those tokens and what is in the bucket are no more
  than a full bucket and the refill since.  `LeakyInv`: they are in the queue or
  went with a tick of the ticker, one of which it may hold back.  `FixedInv`:
  they are in the counter of this window or within the limit of an earlier one.
  `SlidingInv`: the log is the end of the history of what was let through, what
  has left the log is a window old, and so is the `Limit`-th request before each.
  For the first three the bound is arithmetic with whole divisions (`Division`,
  `Multiples`); for the sliding window a period is walked back `Limit` requests
  at a time (`SlidingAllowStep`).
- `CacheKeepsRecent`, that `LruSpec` implies `KeepsRecent`.  `LruInv`: the list
  is in the order of last use (`Before` compares places in the history), each
  entry has the value last set unless it has expired, and a key that the list
  does not have was deleted, has expired, or lies more than `Capacity` keys back
  in the history.  The last part is what an eviction must give: the last of a
  full list is the key used longest ago, so as many keys as the list is long
  were used after it.
- `ImplementsMap`, that `LsmSpec` (the tree by itself) implies `LsmIsAMap`.  The
  invariant `LsmInv` is only that memtable and tables hold entries of the given
  keys; the argument is in three lemmas on what a read finds: `FlushReads` (an
  empty memtable over a list that begins with `t` reads like `t` over the rest),
  `WithReads`, and `CompactReads` (a tombstone reads like no entry, so the newest
  entries that are none are enough).  A newest table exists by the least-number
  principle (`LeastOf`).

`Reap` and `SlidingAllow` drop what is old from a list and keep the order of the
rest.  Both are stated with the increasing function from the places of the new
list to the places kept, of which there is exactly one: the proofs need no more
of a filter than that.

In `ProgramProofs`, for any values of the constants that the named assumptions
admit.  A theorem is about the program by itself, `XSpec`, whose next-state
relation `XNext` is the one `MCPrograms` runs.

| theorem | states | what the inductive invariant adds, and why |
|---|---|---|
| `OneInstanceRuns` | `ExclusiveUnlessOverslept` | `LeaseInv`: whoever runs holds the key, and the ticks the key has left and those its holder has been silent make the TTL.  So the key cannot expire before somebody has overslept |
| `DisagreementIsARace` | `AgreeUnlessRaced` | `StrategiesInv`: what each half-done call carries is what the store holds, unless somebody has changed it since the call began (`HalfDone`) |
| `TicketsDecidedOnce` | `RedecidedOnlyInRace` | `TriageInv`: a row that waits has no decision yet, and a request about to save over a decision made since it loaded is recorded as its rival |
| `NoOccurrenceVanishes` | `NothingDroppedSilently` | `SinkInv`: an open window has its first occurrence elsewhere too, so that a summary of one need not be sent, and the rows, saves under way and window of two IDs share none (`Apart`) |
| `SagaAllOrNothing` | `SagaUndone` | `SagaInv`: on the way forward the effects are `1..step-1`; on the way back what is left beyond the step is excused |
| `AcknowledgedReadsBack` | `PromisedReadsBack` | `CommitLogInv`: one connection at a time is between lock and unlock (`OneWriter`), what it has written so far is the end of the file (`Progress`), and the offset of a segment is the number of index entries and of those it missed (`Counted`).  A crash or a failed write may leave a header alone or some bytes, which no index entry points to |
| `HalfOpenIsTried` | `HalfOpenIsOnTrial` | itself, with the types of the breaker and of the workers: who swaps it to half open is on trial, as is who brings the failures to the threshold |
| `LossIsBounded` | `BoundedLoss` | `PipelineInv`, that who clears the failures, closes the breaker or marks the key has handled the event; `HandHasRoom` counts what buffer and workers hold |
| `MembersAreServed` | `MembersHearTheRoom` | `ChatInv`: the queue is the messages not broadcast yet, in order; who was in the room when one of them was published and has not left is there still |
| `MergesCountOnce` | `CountsWhatItSaw` | `CrdtInv`: of a replica's own updates every other has seen a beginning (`History`), so of two such sets one contains the other and the maximum of two counts is the count of the union |
| `GrantsHold` | `GrantedRulesHold` | `FirewallInv`: how far a half-done operation has come in file and kernel (`HalfWay`), by masked entries |
| `OnlyThePlanIsDestroyed` | `DestroysOnlyPlanned` | `ReaperInv`: past the question every scan is done, and what is left to execute is part of the plan |
| `OncePerChannel` | `DoneOncePerChannel` | `RabbitInv`: a task is in one place; `Accounted`: successes and the workers that still process the task for a closed channel are no more than the closings while the task may come to a worker again, and one more at most after that |
| `AlertsTellWhatIsKnown` | `KnownIsTold` | `DriftInv`: the same while an alert is on its way, and that the state file has what is known, but for the resources it lacks the last record of (`unwritten`) |
| `ClosedChannelsGetNothing` | `NeverSendsOnClosed` | `FanOutInv`: whom a publisher has left to send to is in the list, the list has no one twice, and its channels are open |
| `NoPollHangs` | `PollsCanWake` | `PollInv`: who removes his channel does so because his time is over |
| `RefusalsAreExplained` | `NoFalse503` | `BalancerInv`: the index was last at a backend that is healthy all along before an undisturbed search began (`Looked`; `Since` counts the steps back); `ConnsCounted` for the connections |

`NeverSendsOnClosed` and `PollsCanWake` use `RemoveAtProperties`, what is left of
a sequence without one place.

Model-checked only: `TreeIsSound`, as the B-tree is recursive, and `WorkerFinishes`
and `ControllerConverges`, which are liveness.

Seen on the way, without a document that says otherwise, hence no finding:

- a late heartbeat reply compares the reply's term with that of its request and
  takes a Raft node back to an older term; every such step is in `RaftKV`;
- `watcher.go` ends its goroutine when Kubernetes closes the watch, and
  subscribers then wait for ever.

## 8. Not modelled

- `from-scratch/`: 01 and 02 (TCP and HTTP servers: parsing and I/O); 07, 08 and
  09 (a map with expiry, a list of lines, a table of tasks, each behind one lock
  and with operations that do not meet); 10 (HTTP handlers on one connection to
  07, which they share without a lock: concurrent requests can read each other's
  replies, and nothing says they cannot); 11 (a gateway of pass-through
  middleware); 12 and 13 (hashing: their properties are statistical); 16 to 23
  (tokenizers, vectors, prompts, a command line).
- `service-mesh-sidecar`: the proxy is a reverse proxy of the standard library;
  its breaker is the pipeline's with the same three atomics.
- `realtime-dashboard`: one goroutine owns the list of clients.  WebSocket frames
  and server-sent events are encodings.
- `gocker`, `secure-api`, `grpc-service`, `otel-tracing`, `cli-tui`: calls to the
  kernel, a token library or a terminal; what they keep is a list behind one
  mutex.
- `system-design/` connection pool and backpressure: programs that print what
  `database/sql` and channels do.
- HTTP routes, configuration, logging, metrics, generated `pb/` code.
- `go/`, a tutorial of about ten thousand lines in independent examples, and the
  guides in `system-design/` and `devops/`.

The map therefore covers about an eighth of the repository's lines.  The rest is
for the larger part lessons and printing, which have no state that outlives a
function and no second actor; what has such a state is modelled.

## 9. What the provers do not reach

Liveness and ENABLED stay with TLC.  The library's induction theorems cannot be
instantiated by the installed backends, so a fact about a recursive function is
proved only where a least counterexample will do (`IterateExists` and
`IterateUnique` in `LedgerProofs`, from which the two folds follow; `LeastOf` in
`StructureProofs`; `LinksMatch` in `RaftSafety`).  A module with RECURSIVE operators, as
`BTree`, can have no theorem.
