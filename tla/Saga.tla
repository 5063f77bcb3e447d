-------------------------------- MODULE Saga --------------------------------
(***************************************************************************)
(* saga-orchestrator: one execution.  Any action may fail, without effect, *)
(* and any compensation too; a compensation that fails is logged only.     *)
(*                                                                         *)
(* A definition named X_Y is X with the fault Y, to test the properties.   *)
(***************************************************************************)
EXTENDS Naturals, Sequences

CONSTANTS SagaSteps,      \* how many
          Uncompensated   \* the steps whose Compensate is nil

ASSUME SagaAssumption == SagaSteps \in Nat \ {0} /\ Uncompensated \subseteq 1..SagaSteps

VARIABLES
  sagaLog,    \* SagaLog: status, and the statuses of Steps
  at,         \* forward: the step to execute; back: how many of the
              \* completed ones are still to be compensated
  inEffect,   \* steps whose effect stands
  given_up    \* steps whose compensation failed
sagaVars == <<sagaLog, at, inEffect, given_up>>

SagaInit ==
  /\ sagaLog = [status |-> "pending", steps |-> <<>>]
  /\ at = [way |-> "forward", step |-> 1]
  /\ inEffect = {} /\ given_up = {}

WithStep(status) == [sagaLog EXCEPT !.steps = Append(@, status)]

StepSucceeds ==
  /\ at.way = "forward" /\ at.step <= SagaSteps
  /\ inEffect' = inEffect \cup {at.step}
  /\ sagaLog' = WithStep("success")
  /\ at' = [at EXCEPT !.step = @ + 1]
  /\ UNCHANGED given_up

StepFailed ==
  /\ at.way = "forward" /\ at.step <= SagaSteps
  /\ sagaLog' = WithStep("failed")
  /\ at' = [way |-> "back", step |-> at.step - 1]
  /\ UNCHANGED <<inEffect, given_up>>

SagaCompletes ==
  /\ at.way = "forward" /\ at.step = SagaSteps + 1 /\ sagaLog.status = "pending"
  /\ sagaLog' = [sagaLog EXCEPT !.status = "success"]
  /\ UNCHANGED <<at, inEffect, given_up>>

Compensate_StopsAtError ==
  /\ at.way = "back" /\ at.step > 0
  /\ \/ /\ inEffect' = IF at.step \in Uncompensated THEN inEffect ELSE inEffect \ {at.step}
        /\ at' = [at EXCEPT !.step = @ - 1]
        /\ UNCHANGED given_up
     \/ /\ at.step \notin Uncompensated
        /\ given_up' = given_up \cup {at.step}
        /\ at' = [at EXCEPT !.step = 0]
        /\ UNCHANGED inEffect
  /\ UNCHANGED sagaLog

\* compensate, for one of the completed steps, last first.
Compensate ==
  /\ at.way = "back" /\ at.step > 0
  /\ at' = [at EXCEPT !.step = @ - 1]
  /\ \/ /\ inEffect' = IF at.step \in Uncompensated THEN inEffect ELSE inEffect \ {at.step}
        /\ UNCHANGED given_up
     \/ /\ at.step \notin Uncompensated
        /\ given_up' = given_up \cup {at.step}
        /\ UNCHANGED inEffect
  /\ UNCHANGED sagaLog

SagaFails ==
  /\ at.way = "back" /\ at.step = 0 /\ sagaLog.status = "pending"
  /\ sagaLog' = [sagaLog EXCEPT !.status = "failed"]
  /\ UNCHANGED <<at, inEffect, given_up>>

SagaNext == StepSucceeds \/ StepFailed \/ SagaCompletes \/ Compensate \/ SagaFails
SagaSpec == SagaInit /\ [][SagaNext]_sagaVars

-----------------------------------------------------------------------------
\* A failed saga leaves no effect but those of steps without a compensation and
\* of steps whose compensation failed, which stops none of the others; a
\* successful one has them all; and no effect is undone before those that came
\* after it (orchestrator.go 52-102).
SagaUndone ==
  /\ sagaLog.status = "failed" => inEffect \subseteq Uncompensated \cup given_up
  /\ sagaLog.status = "success" => inEffect = 1..SagaSteps
  /\ \A i \in 1..Len(sagaLog.steps), j \in inEffect \ (Uncompensated \cup given_up) :
       i < j => i \in inEffect
=============================================================================
