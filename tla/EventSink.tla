----------------------------- MODULE EventSink -----------------------------
(***************************************************************************)
(* k8s-event-sink: the deduplication window of one key, the informer's     *)
(* goroutine, the timers and the flush at the end, and the rows they save. *)
(* A timer knows its key only and is never stopped.  A row is replaced by  *)
(* the next one of its ID, and a save that fails is logged and forgotten.  *)
(*                                                                         *)
(* A definition named X_Y is X with the fault Y, to test the properties.   *)
(***************************************************************************)
EXTENDS Naturals, FiniteSets

CONSTANTS
  Ident,            \* event IDs under the key: one per first timestamp
  MaxOccurrences    \* bound

ASSUME EventSinkAssumption == MaxOccurrences \in Nat

VARIABLES
  window,      \* occurrences counted by the open bucket, {} when there is none
  first,       \* ID of the event that opened the bucket
  timers,      \* timers that have not fired
  phase,       \* run: running, signalled, flushing (the keys are listed), closing, ended
  saving,      \* calls of OnForward that have not saved yet
  rows,        \* the table: the occurrences the row of an ID stands for
  occurred,    \* history: occurrences that passed the filter
  overwritten, \* history: occurrences of rows that were replaced
  failed,      \* history: occurrences of saves that failed on the database
  cut          \* history: occurrences the end of the process left unsaved
sinkVars == <<window, first, timers, phase, saving, rows, occurred, overwritten, failed, cut>>
sinkHistory == <<occurred, overwritten, failed, cut>>

SinkInit ==
  /\ window = {} /\ first \in Ident /\ timers = 0 /\ phase = "running"
  /\ saving = {} /\ rows = [i \in Ident |-> {}]
  /\ occurred = 0 /\ overwritten = {} /\ failed = {} /\ cut = {}

\* onEvent: the context of all callers but Flush ends with the signal.
Forward(who, i, of) ==
  IF who = "flush" \/ phase = "running"
  THEN saving' = saving \union {[by |-> who, id |-> i, of |-> of]} /\ UNCHANGED cut
  ELSE cut' = cut \union of /\ UNCHANGED saving

OnTheWay == UNION {s.of : s \in saving}
Busy(who) == \E s \in saving : s.by = who

\* DedupEngine.Process, by the informer, which handles one event at a time:
\* the first is forwarded, the others counted.
ProcessEvent(i) ==
  /\ phase # "ended" /\ occurred < MaxOccurrences /\ ~Busy("informer")
  /\ occurred' = occurred + 1
  /\ window' = window \union {occurred + 1}
  /\ IF window = {}
     THEN /\ timers' = timers + 1 /\ first' = i
          /\ Forward("informer", i, {occurred + 1})
     ELSE UNCHANGED <<timers, first, saving, cut>>
  /\ UNCHANGED <<phase, rows, overwritten, failed>>

Summary_MoreThanTwo == IF Cardinality(window) > 2 THEN window ELSE {}

\* The occurrences of the summary: one of count 1 is not sent.
Summary == IF \E o, p \in window : o # p THEN window ELSE {}

ExpireKey(who) ==
  /\ window' = {}
  /\ IF Summary = {} THEN UNCHANGED <<saving, cut>> ELSE Forward(who, first, Summary)
  /\ UNCHANGED <<first, rows, occurred, overwritten, failed>>

Fire == timers > 0 /\ phase # "ended" /\ timers' = timers - 1 /\ ExpireKey("timer") /\ UNCHANGED phase

SinkSignal ==
  /\ phase = "running" /\ phase' = "signalled"
  /\ UNCHANGED <<window, first, timers, saving, rows, sinkHistory>>

\* Flush: the keys, and then expire for each; the informer goes on.
ListKeys ==
  /\ phase = "signalled" /\ phase' = IF window # {} THEN "flushing" ELSE "closing"
  /\ UNCHANGED <<window, first, timers, saving, rows, sinkHistory>>

FlushKey == phase = "flushing" /\ phase' = "closing" /\ ExpireKey("flush") /\ UNCHANGED timers

\* Save: INSERT OR REPLACE.
SaveRow(s) ==
  /\ phase # "ended" /\ saving' = saving \ {s}
  /\ rows' = [rows EXCEPT ![s.id] = s.of]
  /\ overwritten' = overwritten \union (rows[s.id] \ s.of)
  /\ UNCHANGED <<window, first, timers, phase, occurred, failed, cut>>

\* An error of Save is logged: the database's, or that of a cancelled context.
SaveFails(s) ==
  /\ phase # "ended" /\ saving' = saving \ {s}
  /\ \/ failed' = failed \union s.of /\ UNCHANGED cut
     \/ s.by # "flush" /\ phase # "running" /\ cut' = cut \union s.of /\ UNCHANGED failed
  /\ UNCHANGED <<window, first, timers, phase, rows, occurred, overwritten>>

\* run returns after Flush and waits for nobody.
EndProcess ==
  /\ phase = "closing" /\ ~Busy("flush") /\ phase' = "ended"
  /\ cut' = cut \union window \union OnTheWay
  /\ window' = {} /\ saving' = {}
  /\ UNCHANGED <<first, timers, rows, occurred, overwritten, failed>>

SinkNext ==
  \/ (\E i \in Ident : ProcessEvent(i)) \/ Fire \/ SinkSignal \/ ListKeys \/ FlushKey \/ EndProcess
  \/ \E s \in saving : SaveRow(s) \/ SaveFails(s)
SinkSpec == SinkInit /\ [][SinkNext]_sinkVars

-----------------------------------------------------------------------------
InRows == UNION {rows[i] : i \in Ident}

\* Every occurrence is in a saved row, in a row that a later one of its ID
\* replaced, in the open bucket or on its way to the table, however timers, the
\* flush and new events take turns on the key; or its save was refused by the
\* database, or, after the signal only, cut short.  None is counted in the rows
\* of two IDs (dedup.go 36-90, processor.go 45-60, store.go 47-58).
NothingDroppedSilently ==
  /\ 1..occurred \subseteq InRows \union overwritten \union window \union OnTheWay
                           \union failed \union cut
  /\ phase = "running" => cut = {}
  /\ \A i, j \in Ident : i # j => rows[i] \intersect rows[j] = {}

\* design-decisions.md 71: flushing on shutdown ensures that every suppressed
\* event is accounted for: once Flush has returned no open bucket has one
\* (main.go 133-137; the informer goes on, and the process ends with them).
FlushAccountsForAll == phase = "closing" => Summary = {}
=============================================================================
