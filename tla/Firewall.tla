------------------------------ MODULE Firewall ------------------------------
(***************************************************************************)
(* xdp-firewall: the rules are in a file (saved whole, by rename), in the  *)
(* kernel's map and in memory.  Each operation goes through the three in   *)
(* an order of its own, under the engine's mutex, and stops at the first   *)
(* error.  The kernel's map is keyed by the masked prefix, so two rules    *)
(* may share one entry.  Reconcile makes kernel and memory follow the file *)
(* before the API is served; a map that outlives the process is allowed    *)
(* for, as Reconcile does.                                                 *)
(*                                                                         *)
(* A definition named X_Y is X with the fault Y, to test the properties.   *)
(***************************************************************************)
EXTENDS Naturals

CONSTANTS Cidr,
          Masked,      \* a rule's entry in the kernel: the rule with its host bits cleared
          MaxErrors    \* bound: failing steps and crashes

ASSUME FirewallAssumption ==
  /\ MaxErrors \in Nat
  /\ Masked \in [Cidr -> Cidr] /\ \A c \in Cidr : Masked[Masked[c]] = Masked[c]

VARIABLES
  file, kernel, memory,   \* rules; the kernel's are masked
  work,       \* the operation under the mutex, or the last one
  granted,    \* history: what the last operation on each CIDR, having
              \* succeeded, was: "block" or "unblock"; "unsure" otherwise
  forgotten,  \* history: rules of the file that a Reconcile did not give to memory
  swept,      \* history: entries deleted with a rule of that mask still in memory
  errors
firewallVars == <<file, kernel, memory, work, granted, forgotten, swept, errors>>

NoRules == [file |-> {}, kernel |-> {}, memory |-> {}]
NoWork == [op |-> "none", at |-> "idle", cidrs |-> {}, rules |-> {}, todo |-> {}, before |-> NoRules]
Starting == [NoWork EXCEPT !.at = "start"]

FirewallInit ==
  /\ file = {} /\ kernel = {} /\ memory = {}
  /\ work = Starting
  /\ granted = [c \in Cidr |-> "unsure"]
  /\ forgotten = {} /\ swept = {} /\ errors = 0

Err == errors < MaxErrors /\ errors' = errors + 1

Operate(op, cidrs, rules) ==
  /\ work.at = "idle"
  /\ work' = [op |-> op, at |-> "save", cidrs |-> cidrs, rules |-> rules, todo |-> cidrs,
              before |-> IF op = "batch" THEN [file |-> file, kernel |-> kernel, memory |-> memory]
                         ELSE NoRules]
  /\ granted' = [c \in Cidr |-> IF c \in cidrs THEN "unsure" ELSE granted[c]]
  /\ UNCHANGED <<file, kernel, forgotten, swept, errors>>

BlockCIDR_SavesOld(c) == Operate("block", {c}, memory) /\ UNCHANGED memory

\* The file with the new rule, the kernel, and last the memory.
BlockCIDR(c) == Operate("block", {c}, memory \cup {c}) /\ UNCHANGED memory

UnblockCIDR(c) == /\ memory' = memory \ {c}
                  /\ Operate("unblock", {c}, memory \ {c})

BatchBlock(cs) == /\ memory' = memory \cup cs
                  /\ Operate("batch", cs, memory \cup cs)

SaveRules ==
  /\ work.at = "save"
  /\ file' = work.rules
  /\ work' = [work EXCEPT !.at = "kernel"]
  /\ UNCHANGED <<kernel, memory, granted, forgotten, swept, errors>>

\* Insert, or Delete: the entry is that of every rule of the mask.
UpdateKernel(c) ==
  /\ work.at = "kernel" /\ c \in work.todo
  /\ IF work.op = "unblock"
     THEN /\ Masked[c] \in kernel /\ kernel' = kernel \ {Masked[c]}
          /\ swept' = IF \E d \in memory : Masked[d] = Masked[c] THEN swept \cup {Masked[c]} ELSE swept
     ELSE kernel' = kernel \cup {Masked[c]} /\ swept' = swept \ {Masked[c]}
  /\ work' = [work EXCEPT !.todo = @ \ {c}]
  /\ UNCHANGED <<file, memory, granted, forgotten, errors>>

Succeed ==
  /\ work.at = "kernel" /\ work.todo = {}
  /\ memory' = IF work.op = "block" THEN memory \cup work.cidrs ELSE memory
  /\ granted' = [c \in Cidr |-> IF c \notin work.cidrs THEN granted[c]
                                ELSE IF work.op = "unblock" THEN "unblock" ELSE "block"]
  /\ forgotten' = forgotten \ work.cidrs
  /\ work' = NoWork
  /\ UNCHANGED <<file, kernel, swept, errors>>

\* The save, or an insertion or deletion, fails, as the deletion of an entry
\* that is not there does: the operation ends there.
StepFails ==
  /\ work.at = "save" \/ (work.at = "kernel" /\ work.todo # {})
  /\ \/ Err
     \/ /\ work.at = "kernel" /\ work.op = "unblock"
        /\ \E c \in work.todo : Masked[c] \notin kernel
        /\ UNCHANGED errors
  /\ work' = [work EXCEPT !.at = "idle"]
  /\ UNCHANGED <<file, kernel, memory, granted, forgotten, swept>>

\* The adapter makes a new map in every process; one kept by the kernel, as
\* README.md 88 has it, is allowed for.
CrashFirewall ==
  /\ Err
  /\ kernel' \in {kernel, {}} /\ memory' = {} /\ work' = Starting
  /\ UNCHANGED <<file, granted, forgotten, swept>>

Entries(rules) == {Masked[c] : c \in rules}

\* Of the rules read, those the kernel does not list as they are written are
\* inserted; then what it listed and the file does not have is deleted.
Reconcile ==
  /\ work.at = "start"
  /\ kernel' = (kernel \cup Entries(file \ kernel)) \ (kernel \ file)
  /\ memory' = file
  /\ swept' = (swept \ kernel') \cup (Entries(file) \ kernel')
  /\ forgotten' = forgotten \ file
  /\ work' = [NoWork EXCEPT !.op = "reconcile"]
  /\ UNCHANGED <<file, granted, errors>>

\* A file that cannot be read counts as empty.
ReconcileNothing ==
  /\ work.at = "start" /\ Err
  /\ kernel' = {} /\ memory' = {} /\ work' = NoWork
  /\ forgotten' = forgotten \cup file
  /\ UNCHANGED <<file, granted, swept>>

\* The kernel refuses to list, insert or delete: a warning, and the API is
\* served all the same, with no rule in memory.
ReconcileFails ==
  /\ work.at = "start" /\ Err
  /\ \E inserted \in SUBSET (file \ kernel), deleted \in SUBSET (kernel \ file) :
       /\ deleted # {} => inserted = file \ kernel
       /\ kernel' = (kernel \cup Entries(inserted)) \ deleted
  /\ forgotten' = forgotten \cup file
  /\ work' = NoWork
  /\ UNCHANGED <<file, memory, granted, swept>>

FirewallNext ==
  \/ \E c \in Cidr : BlockCIDR(c) \/ UnblockCIDR(c) \/ UpdateKernel(c)
  \/ \E cs \in SUBSET Cidr : BatchBlock(cs)
  \/ SaveRules \/ Succeed \/ StepFails
  \/ CrashFirewall \/ Reconcile \/ ReconcileNothing \/ ReconcileFails
FirewallSpec == FirewallInit /\ [][FirewallNext]_firewallVars

-----------------------------------------------------------------------------
\* A rule whose block succeeded last is in file, memory and kernel, and one
\* whose unblock did is in none of them, but for an entry it shares with another
\* rule; whatever operations on other rules failed half-way and however often
\* the process stopped.  Two things take a granted rule away: a Reconcile that
\* did not read it, as the next save writes the file without it, and an entry
\* deleted for another rule of its mask (engine.go 27-134, helpers.go 17-28).
GrantedRulesHold ==
  \A c \in Cidr :
    /\ granted[c] = "block" /\ c \notin forgotten =>
         c \in file /\ (work.at = "start" \/ (c \in memory /\ Masked[c] \in kernel \cup swept))
    /\ granted[c] = "unblock" =>
         /\ c \notin file \cup memory
         /\ Masked[c] \in kernel => \E d \in Cidr \ {c} : Masked[d] = Masked[c] /\ granted[d] # "unblock"

\* engine.go 60: BatchBlock adds multiple CIDRs atomically.
BatchIsAtomic ==
  work.at = "idle" /\ work.op = "batch" => work.before = [file |-> file, kernel |-> kernel, memory |-> memory]

\* design-decisions.md 55: reconciliation ensures that the kernel's state always
\* matches the intended state in rules.json.
ReconciledKernelMatches ==
  work.at = "idle" /\ work.op = "reconcile" => kernel = Entries(file)
=============================================================================
