--------------------------- MODULE DriftDetector ---------------------------
(***************************************************************************)
(* tf-drift-detector's daemon: a cycle loads the resources Terraform       *)
(* manages, fetches each of them live, lets the tracker compare the result *)
(* with the drift it knows, and sends what is new and what is resolved to  *)
(* a webhook.  A signal cancels the context of a cycle in progress, and    *)
(* the tracker's memory is written in place when the loop has ended; a     *)
(* file cut short is read as one that knows nothing.                       *)
(*                                                                         *)
(* A definition named X_Y is X with the fault Y, to test the properties.   *)
(***************************************************************************)
EXTENDS Naturals, FiniteSets

CONSTANTS TfResource,
          MaxUpsets   \* bound: changes of the world, errors, signals and kills

ASSUME DriftAssumption == MaxUpsets \in Nat

VARIABLES
  managed,    \* the resources of the Terraform state
  apart,      \* those whose live attributes differ
  daemon,     \* idle (in select), polling, sending, writing, down or killed
  cancelled,  \* the context
  toPoll, polled,  \* a cycle: resources to fetch, and [resource -> drifted]
  known,      \* Tracker.known
  unsent,     \* the alert to send: [new, resolved]
  stateFile,
  told,       \* history: what the alerts that arrived leave their reader with
  lagging,    \* history: resources whose last change no alert has told yet: it
              \* was lost, or not sent, or taken back by a restart
  unwritten,  \* history: resources whose record the file does not have
  upsets
driftVars == <<managed, apart, daemon, cancelled, toPoll, polled, known, unsent, stateFile,
               told, lagging, unwritten, upsets>>

NoAlert == [new |-> {}, resolved |-> {}]

DriftInit ==
  /\ managed = TfResource /\ apart = {}
  /\ daemon = "idle" /\ cancelled = FALSE
  /\ toPoll = {} /\ polled = <<>> /\ known = {} /\ unsent = NoAlert /\ stateFile = {}
  /\ told = {} /\ lagging = {} /\ unwritten = {}
  /\ upsets = 0

\* The world: a resource is changed by hand, put right, or given up.
Meddle(r) ==
  /\ upsets < MaxUpsets /\ upsets' = upsets + 1
  /\ \/ apart' = (apart \ {r}) \cup ({r} \ apart) /\ UNCHANGED managed
     \/ r \in managed /\ managed' = managed \ {r} /\ UNCHANGED apart
  /\ UNCHANGED <<daemon, cancelled, toPoll, polled, known, unsent, stateFile, told,
                 lagging, unwritten>>

\* A tick, which select may prefer to a context that is done as well.
BeginCycle ==
  /\ daemon = "idle"
  /\ daemon' = "polling" /\ toPoll' = managed /\ polled' = <<>>
  /\ UNCHANGED <<managed, apart, cancelled, known, unsent, stateFile, told, lagging,
                 unwritten, upsets>>

\* A fetch that fails, and one that is cancelled always does, counts as drift.
FetchLive(r) ==
  /\ daemon = "polling" /\ r \in toPoll
  /\ toPoll' = toPoll \ {r}
  /\ \E drifted \in BOOLEAN :
       /\ drifted \/ (~cancelled /\ r \notin apart)
       /\ polled' = [x \in DOMAIN polled \cup {r} |-> IF x = r THEN drifted ELSE polled[x]]
  /\ UNCHANGED <<managed, apart, daemon, cancelled, known, unsent, stateFile, told,
                 lagging, unwritten, upsets>>

\* sem.Acquire returns the context's error: the results so far are dropped.
PollFails ==
  /\ daemon = "polling" /\ cancelled /\ toPoll # {}
  /\ daemon' = "idle" /\ toPoll' = {} /\ polled' = <<>>
  /\ UNCHANGED <<managed, apart, cancelled, known, unsent, stateFile, told, lagging,
                 unwritten, upsets>>

Drifted == {r \in DOMAIN polled : polled[r]}

Update_NeverResolves ==
  /\ daemon = "polling" /\ toPoll = {}
  /\ known' = Drifted \cup known
  /\ unsent' = [new |-> Drifted \ known, resolved |-> (known \ Drifted) \cap DOMAIN polled]
  /\ daemon' = IF unsent' = NoAlert THEN "idle" ELSE "sending"
  /\ unwritten' = unwritten \cup (known' \ known)
  /\ lagging' = lagging \cup (known \ (Drifted \cup DOMAIN polled))
  /\ polled' = <<>>
  /\ UNCHANGED <<managed, apart, cancelled, toPoll, stateFile, told, upsets>>

\* A known resource that is no longer managed is forgotten without an alert.
Update ==
  /\ daemon = "polling" /\ toPoll = {}
  /\ known' = Drifted
  /\ unsent' = [new |-> Drifted \ known, resolved |-> (known \ Drifted) \cap DOMAIN polled]
  /\ daemon' = IF unsent' = NoAlert THEN "idle" ELSE "sending"
  /\ unwritten' = unwritten \cup (known \ Drifted) \cup (Drifted \ known)
  /\ lagging' = lagging \cup (known \ (Drifted \cup DOMAIN polled))
  /\ polled' = <<>>
  /\ UNCHANGED <<managed, apart, cancelled, toPoll, stateFile, told, upsets>>

\* An alert that cannot be sent is logged, and not sent again.
SendAlert ==
  /\ daemon = "sending"
  /\ \/ /\ ~cancelled
        /\ told' = (told \ unsent.resolved) \cup unsent.new
        /\ lagging' = lagging \ (unsent.new \cup unsent.resolved)
        /\ UNCHANGED upsets
     \/ /\ cancelled \/ upsets < MaxUpsets
        /\ upsets' = IF cancelled THEN upsets ELSE upsets + 1
        /\ lagging' = lagging \cup unsent.new \cup unsent.resolved
        /\ UNCHANGED told
  /\ unsent' = NoAlert /\ daemon' = "idle"
  /\ UNCHANGED <<managed, apart, cancelled, toPoll, polled, known, stateFile, unwritten>>

Up == daemon \notin {"down", "killed"}

Signal ==
  /\ Up /\ ~cancelled /\ upsets < MaxUpsets
  /\ cancelled' = TRUE /\ upsets' = upsets + 1
  /\ UNCHANGED <<managed, apart, daemon, toPoll, polled, known, unsent, stateFile,
                 told, lagging, unwritten>>

\* The deferred Persist, at the end of the loop: the file is emptied...
Persist ==
  /\ daemon = "idle" /\ cancelled
  /\ daemon' = "writing"
  /\ stateFile' = {} /\ unwritten' = unwritten \cup known
  /\ UNCHANGED <<managed, apart, cancelled, toPoll, polled, known, unsent, told,
                 lagging, upsets>>

\* ... and written.
WriteState ==
  /\ daemon = "writing" /\ daemon' = "down"
  /\ stateFile' = known /\ unwritten' = {}
  /\ UNCHANGED <<managed, apart, cancelled, toPoll, polled, known, unsent, told,
                 lagging, upsets>>

\* The file cannot be opened, or not be written: an error on stderr.
PersistFails ==
  /\ daemon = "writing" \/ (daemon = "idle" /\ cancelled)
  /\ upsets < MaxUpsets /\ upsets' = upsets + 1
  /\ daemon' = "down"
  /\ UNCHANGED <<managed, apart, cancelled, toPoll, polled, known, unsent, stateFile,
                 told, lagging, unwritten>>

\* Killed, without the deferred call or in it.
KillDaemon ==
  /\ Up /\ upsets < MaxUpsets /\ upsets' = upsets + 1
  /\ daemon' = "killed" /\ toPoll' = {} /\ polled' = <<>> /\ unsent' = NoAlert
  /\ lagging' = lagging \cup unsent.new \cup unsent.resolved
  /\ UNCHANGED <<managed, apart, cancelled, known, stateFile, told, unwritten>>

\* tracker.New, which loads the file.
StartDaemon ==
  /\ ~Up
  /\ daemon' = "idle" /\ cancelled' = FALSE
  /\ known' = stateFile /\ lagging' = lagging \cup unwritten /\ unwritten' = {}
  /\ UNCHANGED <<managed, apart, toPoll, polled, unsent, stateFile, told, upsets>>

DriftNext ==
  \/ \E r \in TfResource : Meddle(r) \/ FetchLive(r)
  \/ BeginCycle \/ PollFails \/ Update \/ SendAlert \/ Signal
  \/ Persist \/ WriteState \/ PersistFails \/ KillDaemon \/ StartDaemon
DriftSpec == DriftInit /\ [][DriftNext]_driftVars

-----------------------------------------------------------------------------
\* Between cycles, and across restarts, the tracker knows as drifted exactly
\* what the alerts that arrived say is drifted, and an alert being sent is news
\* to its reader: of every resource whose last change was told.  A resource
\* falls lagging by an alert that was not sent or did not arrive, or by a restart
\* with a file that lacks its record, and catches up with the next alert that
\* names it (tracker.go 40-104, commands.go 53-153).
KnownIsTold ==
  \A r \in TfResource \ lagging :
    /\ daemon = "idle" => (r \in known <=> r \in told)
    /\ daemon = "sending" => /\ r \in unsent.new => r \notin told
                             /\ r \in unsent.resolved => r \in told

\* design-decisions.md 7: the team gets one alert when drift appears and one when
\* it is fixed.
EveryChangeIsTold == daemon = "idle" => known = told

\* design-decisions.md 53: the tracker writes its known-drift map on SIGTERM; and
\* commands.go 61 says so on stderr.
ShutdownPersists == daemon = "down" => stateFile = known
=============================================================================
