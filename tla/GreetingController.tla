------------------------- MODULE GreetingController -------------------------
(***************************************************************************)
(* k8s-controller: one Greeting and the ConfigMap that the controller      *)
(* keeps for it.  Reconcile reads both from the caches of the informers,   *)
(* each of which follows its watch of the API server at its own pace, and  *)
(* writes to the server, which refuses an update of an object that has     *)
(* changed since.                                                          *)
(*                                                                         *)
(* External: the API server, its garbage collector, and the work queue of  *)
(* controller-runtime, which holds the key once, hands it to one worker    *)
(* and takes it back when Reconcile returns an error.  A panic in Reconcile *)
(* ends the process, as version 0.18 does not recover it.  The resync after *)
(* ten hours is left out.                                                  *)
(*                                                                         *)
(* A definition named X_Y is X with the fault Y, to test the properties.   *)
(***************************************************************************)
EXTENDS Naturals, Sequences

CONSTANTS Greetings,    \* messages
          Gone,         \* no object
          NoData,       \* in place of a message: the ConfigMap has no data
          MaxLag,       \* bound: events that a watch has yet to deliver
          MaxEdits      \* bound: what users do, errors and restarts

ASSUME ControllerAssumption ==
  /\ MaxLag \in Nat \ {0} /\ MaxEdits \in Nat
  /\ Gone \notin [message : Greetings, uid : Nat, ready : BOOLEAN]
  /\ Gone \notin [message : Greetings \cup {NoData}, owner : Nat]
  /\ NoData \notin Greetings

VARIABLES
  greeting, configMap,    \* the objects of the API server
  seenGreeting, seenMap,  \* those of the caches
  greetingEvents, mapEvents,  \* what the watches have yet to deliver
  enqueued,               \* the work queue has the key
  reconcile,              \* the running Reconcile: where it is, its two objects,
                          \* and the kinds that have not changed since they were read
  uids, edits,
  unowned                 \* history: the ConfigMap is not owned, or was not when it
                          \* went, and the controller has made none since
controllerVars == <<greeting, configMap, seenGreeting, seenMap, greetingEvents, mapEvents,
                    enqueued, reconcile, uids, edits, unowned>>
caches == <<seenGreeting, seenMap>>
greetingAt == <<greeting, greetingEvents>>
mapAt == <<configMap, mapEvents>>

Resting == [at |-> "rest", greeting |-> Gone, existing |-> Gone, current |-> {}]
Nobodys == 0     \* owner of a ConfigMap that a user has made

ControllerInit ==
  /\ greeting = Gone /\ configMap = Gone /\ seenGreeting = Gone /\ seenMap = Gone
  /\ greetingEvents = <<>> /\ mapEvents = <<>>
  /\ enqueued = FALSE /\ reconcile = Resting
  /\ uids = 0 /\ edits = 0 /\ unowned = FALSE

Edit == edits < MaxEdits /\ edits' = edits + 1
Outdate(kind) == reconcile' = [reconcile EXCEPT !.current = @ \ {kind}]

\* A write is an event to the controller, if it runs.
Down == reconcile.at = "down"
Tell(events, o) == IF Down THEN events ELSE Append(events, o)
SetGreeting(g) == /\ greeting' = g /\ greetingEvents' = Tell(greetingEvents, g)
                  /\ Len(greetingEvents') <= MaxLag
SetMap(m) == /\ configMap' = m /\ mapEvents' = Tell(mapEvents, m)
             /\ Len(mapEvents') <= MaxLag

-----------------------------------------------------------------------------
(* The cluster.                                                            *)

ApplyGreeting(m) ==
  /\ Edit /\ Outdate("greeting")
  /\ \/ /\ greeting = Gone /\ uids' = uids + 1
        /\ SetGreeting([message |-> m, uid |-> uids', ready |-> FALSE])
     \/ /\ greeting # Gone /\ greeting.message # m /\ UNCHANGED uids
        /\ SetGreeting([greeting EXCEPT !.message = m])
  /\ UNCHANGED <<mapAt, caches, enqueued, unowned>>

DeleteGreeting ==
  /\ greeting # Gone /\ Edit
  /\ SetGreeting(Gone) /\ Outdate("greeting")
  /\ UNCHANGED <<mapAt, caches, enqueued, uids, unowned>>

Owned(map) == map # Gone /\ map.owner # Nobodys

\* A user makes, edits or deletes the ConfigMap, its owner included.
EditMap ==
  /\ Edit /\ Outdate("map")
  /\ \/ configMap # Gone /\ SetMap(Gone)
     \/ Owned(configMap) /\ SetMap([configMap EXCEPT !.owner = Nobodys])
     \/ \E m \in Greetings \cup {NoData} :
          \/ configMap = Gone /\ SetMap([message |-> m, owner |-> Nobodys])
          \/ /\ configMap # Gone /\ configMap.message # m
             /\ SetMap([configMap EXCEPT !.message = m])
  /\ unowned' = (unowned \/ (configMap' # Gone /\ ~Owned(configMap')))
  /\ UNCHANGED <<greetingAt, caches, enqueued, uids>>

\* The garbage collector deletes what has an owner that is gone.
Collect ==
  /\ Owned(configMap)
  /\ greeting # Gone => greeting.uid # configMap.owner
  /\ SetMap(Gone) /\ Outdate("map")
  /\ UNCHANGED <<greetingAt, caches, enqueued, uids, edits, unowned>>

-----------------------------------------------------------------------------
(* The watches that SetupWithManager asks for.                             *)

\* For: a change of the Greeting enqueues its name.
SeeGreeting ==
  /\ greetingEvents # <<>> /\ greetingEvents' = Tail(greetingEvents)
  /\ seenGreeting' = Head(greetingEvents) /\ enqueued' = TRUE
  /\ UNCHANGED <<greeting, mapAt, seenMap, reconcile, uids, edits, unowned>>

SeeMap_NotOwned ==
  /\ mapEvents # <<>> /\ mapEvents' = Tail(mapEvents)
  /\ seenMap' = Head(mapEvents)
  /\ UNCHANGED <<greetingAt, configMap, seenGreeting, enqueued, reconcile, uids, edits, unowned>>

\* Owns: a change of a ConfigMap enqueues the name of its owner.
SeeMap ==
  /\ mapEvents # <<>> /\ mapEvents' = Tail(mapEvents)
  /\ seenMap' = Head(mapEvents)
  /\ enqueued' = (enqueued \/ Owned(seenMap) \/ Owned(seenMap'))
  /\ UNCHANGED <<greetingAt, configMap, seenGreeting, reconcile, uids, edits, unowned>>

\* main starts again: the caches are filled, and each object is an event.
RestartController ==
  /\ Edit
  /\ seenGreeting' = greeting /\ seenMap' = configMap
  /\ greetingEvents' = <<>> /\ mapEvents' = <<>>
  /\ enqueued' = (greeting # Gone \/ Owned(configMap))
  /\ reconcile' = Resting
  /\ UNCHANGED <<greeting, configMap, uids, unowned>>

-----------------------------------------------------------------------------
(* Reconcile.  A call fails on a conflict, or for any other reason.        *)

Reconciling(there) == reconcile.at = there
Then(there) == reconcile' = [reconcile EXCEPT !.at = there]
Return == reconcile' = Resting /\ UNCHANGED enqueued
ReturnError_NotTried == reconcile' = Resting /\ UNCHANGED enqueued

ReturnError == reconcile' = Resting /\ enqueued' = TRUE

GetGreeting ==
  /\ Reconciling("rest") /\ enqueued
  /\ enqueued' = FALSE
  /\ reconcile' = IF seenGreeting = Gone THEN Resting
                  ELSE [Resting EXCEPT !.at = "get", !.greeting = seenGreeting,
                          !.current = IF greetingEvents = <<>> THEN {"greeting"} ELSE {}]
  /\ UNCHANGED <<greetingAt, mapAt, caches, uids, edits, unowned>>

GetMap ==
  /\ Reconciling("get")
  /\ reconcile' = [reconcile EXCEPT !.existing = seenMap,
                     !.current = IF mapEvents = <<>> THEN @ \cup {"map"} ELSE @,
                     !.at = IF seenMap = Gone THEN "create"
                            ELSE IF seenMap.message # reconcile.greeting.message THEN "update"
                            ELSE "status"]
  /\ UNCHANGED <<greetingAt, mapAt, caches, enqueued, uids, edits, unowned>>

\* Refused if the name is taken, which the cache may not know.
CreateMap ==
  /\ Reconciling("create")
  /\ IF configMap # Gone THEN ReturnError /\ UNCHANGED <<mapAt, unowned>>
     ELSE /\ SetMap([message |-> reconcile.greeting.message, owner |-> reconcile.greeting.uid])
          /\ unowned' = FALSE
          /\ Then("status") /\ UNCHANGED enqueued
  /\ UNCHANGED <<greetingAt, caches, uids, edits>>

UpdateMap ==
  /\ Reconciling("update") /\ reconcile.existing.message # NoData
  /\ IF "map" \notin reconcile.current THEN ReturnError /\ UNCHANGED mapAt
     ELSE /\ SetMap([reconcile.existing EXCEPT !.message = reconcile.greeting.message])
          /\ Then("status") /\ UNCHANGED enqueued
  /\ UNCHANGED <<greetingAt, caches, uids, edits, unowned>>

\* Without data the map that Reconcile assigns to is nil: it panics.
Panic ==
  /\ Reconciling("update") /\ reconcile.existing.message = NoData
  /\ reconcile' = [Resting EXCEPT !.at = "down"]
  /\ enqueued' = FALSE /\ greetingEvents' = <<>> /\ mapEvents' = <<>>
  /\ UNCHANGED <<greeting, configMap, caches, uids, edits, unowned>>

\* An update that changes nothing is no event.
UpdateStatus ==
  /\ Reconciling("status")
  /\ IF "greeting" \notin reconcile.current THEN ReturnError /\ UNCHANGED greetingAt
     ELSE /\ Return
          /\ IF greeting.ready THEN UNCHANGED greetingAt
             ELSE SetGreeting([reconcile.greeting EXCEPT !.ready = TRUE])
  /\ UNCHANGED <<mapAt, caches, uids, edits, unowned>>

CallFails ==
  /\ ~Reconciling("rest") /\ ~Down /\ Edit
  /\ ReturnError
  /\ UNCHANGED <<greetingAt, mapAt, caches, uids, unowned>>

ReconcileGreeting ==
  GetGreeting \/ GetMap \/ CreateMap \/ UpdateMap \/ Panic \/ UpdateStatus

-----------------------------------------------------------------------------
InStep == IF greeting = Gone THEN configMap = Gone
          ELSE /\ Owned(configMap) /\ greeting.ready
               /\ configMap.message = greeting.message

\* When nobody meddles any more the ConfigMap carries the Greeting's message
\* for good, and goes when the Greeting goes, whatever stale caches, conflicts,
\* failed calls, restarts and re-made Greetings came before.  Two cases are
\* out: a ConfigMap whose data was cleared, which ends the process, and one
\* that is not the controller's, which it writes to without becoming its owner,
\* until it makes one of its own (greeting_controller.go 34-104).
Converges == <>[](Down \/ unowned \/ InStep)

\* Nothing is left to do for the watches, the work queue or the collector.
AtRest ==
  /\ reconcile.at = "rest" /\ ~enqueued /\ greetingEvents = <<>> /\ mapEvents = <<>>
  /\ Owned(configMap) => greeting # Gone /\ greeting.uid = configMap.owner

\* docs/architecture.md:23, "If state drifts, controller re-reconciles": with
\* nothing left to do, the ConfigMap has the message.
DriftIsRepaired ==
  AtRest /\ greeting # Gone => configMap # Gone /\ configMap.message = greeting.message

\* README.md:46, "OwnerReference - links the ConfigMap to the Greeting so K8s
\* auto-deletes it": with nothing left to do, the ConfigMap has its owner.
LinkedToGreeting ==
  AtRest /\ greeting # Gone /\ configMap # Gone => configMap.owner = greeting.uid

\* greeting_controller.go:23, "drives the cluster toward the desired state":
\* no ConfigMap that users can make keeps the controller from it.
DrivesOn == ~Down
=============================================================================
