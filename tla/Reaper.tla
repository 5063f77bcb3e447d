------------------------------- MODULE Reaper -------------------------------
(***************************************************************************)
(* aws-resource-reaper: a scan of every account and region, concurrent up  *)
(* to a limit, its findings, the operator's confirmation, and the deletion *)
(* of what was found.  The cloud is external: resources fall idle, come    *)
(* into use and vanish while the tool runs, and it may refuse a call.      *)
(* Identifiers such as a snapshot's name are unique in an account only.    *)
(*                                                                         *)
(* A definition named X_Y is X with the fault Y, to test the properties.   *)
(***************************************************************************)
EXTENDS Naturals, Sequences, FiniteSets

CONSTANTS AccountList,  \* cfg.Accounts, a sequence
          AwsRegion, ResourceId,
          Advice,       \* the identifiers of instances: Recommend only
          Concurrency, MaxChanges   \* the semaphore; a bound

ASSUME ReaperAssumption == /\ Advice \subseteq ResourceId /\ Concurrency \in Nat \ {0}
                           /\ AccountList # <<>> /\ MaxChanges \in Nat

Accounts == {AccountList[i] : i \in DOMAIN AccountList}
Pairs == Accounts \X AwsRegion

VARIABLES
  cloud,      \* [account, region, id -> none, used or idle]
  command,    \* the command line: scan or execute, and the dry-run flag
  stage,      \* scan, ask, execute, done or failed
  job,        \* [pair -> new, running, done]
  results,    \* resources found
  findings,   \* what is left to execute
  plan,       \* history: the findings the operator has confirmed
  destroyed,  \* history: what this program's calls have deleted
  changes
reaperVars == <<cloud, command, stage, job, results, findings, plan, destroyed, changes>>

Slots == Accounts \X AwsRegion \X ResourceId

ReaperInit ==
  /\ cloud \in [Slots -> {"none", "used", "idle"}]
  /\ command \in [name : {"scan", "execute"}, dryRun : BOOLEAN]
  /\ stage = "scan" /\ job = [p \in Pairs |-> "new"]
  /\ results = {} /\ findings = {} /\ plan = {} /\ destroyed = {} /\ changes = 0

Turn(s) ==
  /\ changes < MaxChanges /\ changes' = changes + 1
  /\ \E state \in {"none", "used", "idle"} \ {cloud[s]} : cloud' = [cloud EXCEPT ![s] = state]
  /\ UNCHANGED <<command, stage, job, results, findings, plan, destroyed>>

Before(p) == {q \in Pairs : \E i, j \in DOMAIN AccountList :
                AccountList[i] = q[1] /\ AccountList[j] = p[1] /\ i < j}

\* Accounts in order, the regions of one in any, each with the semaphore held.
ScanStarts(p) ==
  /\ stage = "scan" /\ job[p] = "new"
  /\ \A q \in Before(p) : job[q] # "new"
  /\ Cardinality({q \in Pairs : job[q] = "running"}) < Concurrency
  /\ job' = [job EXCEPT ![p] = "running"]
  /\ UNCHANGED <<cloud, command, stage, results, findings, plan, destroyed, changes>>

ScanEnds(p) ==
  /\ stage = "scan" /\ job[p] = "running"
  /\ job' = [job EXCEPT ![p] = "done"]
  /\ results' = results \cup {s \in Slots : s[1] = p[1] /\ s[2] = p[2] /\ cloud[s] = "idle"}
  /\ UNCHANGED <<cloud, command, stage, findings, plan, destroyed, changes>>

\* The first error cancels the others, and Scan returns no resources.
ScanFails(p) ==
  /\ stage = "scan" /\ job[p] = "running"
  /\ stage' = "failed" /\ results' = {}
  /\ UNCHANGED <<cloud, command, job, findings, plan, destroyed, changes>>

\* countDestructive
Destructive == {s \in results : s[3] \notin Advice}

Report ==
  /\ stage = "scan" /\ \A p \in Pairs : job[p] = "done"
  /\ stage' = IF command.name = "execute" /\ ~command.dryRun /\ Destructive # {}
              THEN "ask" ELSE "done"
  /\ UNCHANGED <<cloud, command, job, results, findings, plan, destroyed, changes>>

Confirm(yes) ==
  /\ stage = "ask"
  /\ IF yes THEN stage' = "execute" /\ findings' = results /\ plan' = results
     ELSE stage' = "done" /\ UNCHANGED <<findings, plan>>
  /\ UNCHANGED <<cloud, command, job, results, destroyed, changes>>

\* Recommend: advisory only.
Advise(s) ==
  /\ stage = "execute" /\ s \in findings /\ s[3] \in Advice
  /\ findings' = findings \ {s}
  /\ UNCHANGED <<cloud, command, stage, job, results, plan, destroyed, changes>>

\* e.AwsConfig, the first account's whatever the finding's, with its region.
TargetOf(s) == <<AccountList[1], s[2], s[3]>>

Execute_EveryFinding(s) ==
  /\ stage = "execute" /\ s \in findings
  /\ findings' = findings \ {s}
  /\ LET t == TargetOf(s)
     IN \/ /\ cloud[t] # "none"
           /\ cloud' = [cloud EXCEPT ![t] = "none"] /\ destroyed' = destroyed \cup {t}
        \/ UNCHANGED <<cloud, destroyed>>
  /\ UNCHANGED <<command, stage, job, results, plan, changes>>

\* A call that fails is logged.
Execute(s) ==
  /\ stage = "execute" /\ s \in findings /\ s[3] \notin Advice
  /\ findings' = findings \ {s}
  /\ LET t == TargetOf(s)
     IN \/ /\ cloud[t] # "none"
           /\ cloud' = [cloud EXCEPT ![t] = "none"] /\ destroyed' = destroyed \cup {t}
        \/ UNCHANGED <<cloud, destroyed>>
  /\ UNCHANGED <<command, stage, job, results, plan, changes>>

ReaperNext ==
  \/ \E s \in Slots : Turn(s) \/ Advise(s) \/ Execute(s)
  \/ \E p \in Pairs : ScanStarts(p) \/ ScanEnds(p) \/ ScanFails(p)
  \/ Report
  \/ \E yes \in BOOLEAN : Confirm(yes)
ReaperSpec == ReaperInit /\ [][ReaperNext]_reaperVars

-----------------------------------------------------------------------------
\* Nothing is destroyed by a dry run, without the operator's consent or after
\* a scan that failed anywhere, and no more than one resource of a region for
\* each identifier listed there that is not advice (engine.go 27-67,
\* executor.go 27-92).
DestroysOnlyPlanned ==
  /\ destroyed # {} => command = [name |-> "execute", dryRun |-> FALSE] /\ stage = "execute"
                     /\ \A p \in Pairs : job[p] = "done"
  /\ \A d \in destroyed : d[3] \notin Advice /\ \E s \in plan : d = TargetOf(s)

\* "The executor re-scopes per resource region using the finding's AccountID"
\* (commands.go:69): what is destroyed is what was found.
DestroysWhatItFound == destroyed \subseteq plan
=============================================================================
