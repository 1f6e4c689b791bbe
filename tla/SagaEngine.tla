----------------------------- MODULE SagaEngine -----------------------------
(***************************************************************************)
(* The coordinator: any number of instances claim orders from the shared   *)
(* table, drive each through its forward steps in parallel, compensate the *)
(* recorded ones when one fails, and may stall, crash or be overtaken at   *)
(* any point (worker.ts, saga.ts, api.ts), against the services' promise.  *)
(***************************************************************************)
EXTENDS SagaStore, StepService, FiniteSets, Naturals

CONSTANTS
  BatchSize,    \* CLAIM_BATCH_SIZE
  Concurrency,  \* ORDER_CONCURRENCY
  Slow,         \* phases in which a live coordinator may outlast its lease
  Faulty,       \* may calls and statements fail other than by injection?
  Mortal        \* instances that may crash; a restart is another Instance

ASSUME EngineAssumption ==
  /\ BatchSize \in Nat \ {0} /\ Concurrency \in Nat \ {0}
  /\ Slow \subseteq {"queued", "driving", "retrying"}
  /\ Faulty \in BOOLEAN /\ Mortal \subseteq Instance

(* An execution of runSaga for a claimed order, or of retryCompensation    *)
(* for the UI's Retry button: at most one of each per instance and order.  *)
Role == {"worker", "api"}
Task == Instance \X Role \X Order
Inst(t) == t[1]
Ord(t)  == t[3]
Forced(t) == t[2] = "api"

VARIABLES
  up,   \* instances that are running
  pc,   \* where a task stands
  leg   \* per task and service, the executeStep call of the current phase

taskVars == <<up, pc, leg>>
vars == <<storeVars, serviceVars, taskVars>>

PC  == {"idle", "queued", "resume", "plan", "forward", "compensate", "arm", "undo"}
Leg == {"off", "todo", "call", "ok", "failed"}
NoLegs == [s \in Service |-> "off"]

TypeOK ==
  /\ StoreTypeOK
  /\ ServiceTypeOK
  /\ up \subseteq Instance
  /\ pc \in [Task -> PC]
  /\ leg \in [Task -> [Service -> Leg]]

Init ==
  /\ StoreInit
  /\ ServiceInit
  /\ up = Instance
  /\ pc = [t \in Task |-> "idle"]
  /\ leg = [t \in Task |-> NoLegs]

Busy(t)     == pc[t] # "idle"
Started(t)  == pc[t] \in {"plan", "forward", "compensate", "arm", "undo"}
Running(t)  == pc[t] \in {"forward", "undo"}
Settled(t)  == \A s \in Service : leg[t][s] \notin {"todo", "call"}
AnyFailedForward(t) == pc[t] = "forward" /\ \E s \in Service : leg[t][s] = "failed"
AnyFailed(t) == \E s \in Service : leg[t][s] = "failed"
StepOf(t, s) == IF pc[t] = "forward" THEN Do(s) ELSE Undo(s)

(* assertNoInjectedFailure, which comes before any replay.                 *)
FlagFails(t, s) ==
  IF pc[t] = "forward" THEN failAt[Ord(t)] = s
                       ELSE compFailAt[Ord(t)] = s /\ ~Forced(t)

Goto(t, where) == pc' = [pc EXCEPT ![t] = where]
Legs(t, all)   == leg' = [leg EXCEPT ![t] = all]
Leave(t)       == Goto(t, "idle") /\ Legs(t, NoLegs)

-----------------------------------------------------------------------------
(* The claim loop: the next batch is claimed when the last one is done.    *)
Claim(i, batch) ==
  /\ i \in up
  /\ \A o \in Order : ~Busy(<<i, "worker", o>>)
  /\ batch # {} /\ Cardinality(batch) <= BatchSize
  /\ ClaimRows(i, batch)
  /\ pc' = [t \in Task |->
       IF t \notin {<<i, "worker", o>> : o \in batch} THEN pc[t]
       ELSE IF status[Ord(t)] = "COMPENSATING" THEN "resume" ELSE "queued"]
  /\ UNCHANGED <<serviceVars, up, leg>>

HasSlot(i) ==
  Cardinality({o \in Order : Started(<<i, "worker", o>>)}) < Concurrency

(* runSaga begins: initSteps, or straight to compensate on recovery.       *)
StartForward(t) ==
  /\ pc[t] = "queued" /\ HasSlot(Inst(t))
  /\ row' = [row EXCEPT ![Ord(t)] = InitSteps(Ord(t), ForwardSteps)]
  /\ Goto(t, "plan")
  /\ UNCHANGED <<orderVars, csvVars, serviceVars, up, leg>>

ResumeCompensation(t) ==
  /\ pc[t] = "resume" /\ HasSlot(Inst(t))
  /\ Goto(t, "compensate")
  /\ UNCHANGED <<storeVars, serviceVars, up, leg>>

(* getStepStatuses decides which forward steps are called.                 *)
Plan(t) ==
  /\ pc[t] = "plan"
  /\ Legs(t, [s \in Service |->
       IF s \in SucceededForward(Ord(t)) THEN "off" ELSE "todo"])
  /\ Goto(t, "forward")
  /\ UNCHANGED <<storeVars, serviceVars, up>>

-----------------------------------------------------------------------------
(* executeStep, one branch of Promise.allSettled.  A slip would make a     *)
(* failed call all over again.                                             *)
SetLegAgain(t, s, now) ==
  leg' = [leg EXCEPT ![t][s] = IF now = "failed" THEN "todo" ELSE now]

SetLeg(t, s, now) == leg' = [leg EXCEPT ![t][s] = now]

SendStep(t, s) ==
  /\ Running(t) /\ leg[t][s] = "todo"
  /\ MarkStepRunning(Ord(t), StepOf(t, s))
  /\ IF FlagFails(t, s) THEN UNCHANGED posted ELSE Post(Ord(t), StepOf(t, s))
  /\ SetLeg(t, s, "call")
  /\ UNCHANGED <<orderVars, csvVars, record, effect, up, pc>>

(* A 2xx answer needs the service to have done the step; a slip would take *)
(* any answer for one.                                                     *)
AnswerableAnyhow(t, s) == leg[t][s] = "call"
Answerable(t, s) ==
  leg[t][s] = "call" /\ ~FlagFails(t, s) /\ StepOf(t, s) \in record[Ord(t)]

StepSucceeds(t, s) ==
  /\ Running(t) /\ Answerable(t, s)
  /\ MarkStepResult(Ord(t), StepOf(t, s), "SUCCEEDED")
  /\ SetLeg(t, s, "ok")
  /\ UNCHANGED <<orderVars, csvVars, serviceVars, up, pc>>

(* Retries exhausted, an error not worth one, or a statement of the        *)
(* bookkeeping failed: the catch branch.                                   *)
StepFails(t, s) ==
  /\ Running(t)
  /\ \/ leg[t][s] = "call" /\ (FlagFails(t, s) \/ Faulty)
     \/ leg[t][s] = "todo" /\ Faulty
  /\ MarkStepResult(Ord(t), StepOf(t, s), "FAILED")
  /\ SetLeg(t, s, "failed")
  /\ UNCHANGED <<orderVars, csvVars, serviceVars, up, pc>>

(* The catch branch fails too and executeStep rejects, with the row as it  *)
(* was, or written by a statement whose reply was lost.                    *)
StepRejects(t, s) ==
  /\ Running(t) /\ Faulty
  /\ leg[t][s] \in {"todo", "call"}
  /\ \/ UNCHANGED row
     \/ leg[t][s] = "todo" /\ MarkStepRunning(Ord(t), StepOf(t, s))
     \/ Answerable(t, s) /\ MarkStepResult(Ord(t), StepOf(t, s), "SUCCEEDED")
  /\ SetLeg(t, s, "failed")
  /\ UNCHANGED <<orderVars, csvVars, serviceVars, up, pc>>

-----------------------------------------------------------------------------
FinishForward(t) ==
  /\ pc[t] = "forward" /\ Settled(t)
  /\ IF AnyFailed(t)
     THEN /\ SetOrderStatus(Inst(t), Ord(t), "COMPENSATING", FALSE)
          /\ Goto(t, "compensate") /\ Legs(t, NoLegs)
     ELSE /\ SetOrderStatus(Inst(t), Ord(t), "PLACED", TRUE)
          /\ Leave(t)
  /\ UNCHANGED <<row, csvVars, serviceVars, up>>

(* compensate reads which forward steps succeeded, and only then arms the  *)
(* undo rows and marks the unneeded ones SKIPPED, whatever they held.      *)
ReadSucceeded(t) ==
  /\ pc[t] = "compensate"
  /\ Legs(t, [s \in Service |->
       IF s \in SucceededForward(Ord(t)) THEN "todo" ELSE "off"])
  /\ Goto(t, "arm")
  /\ UNCHANGED <<storeVars, serviceVars, up>>

ArmUndo(t) ==
  LET unneeded == {Undo(s) : s \in {u \in Service : leg[t][u] = "off"}}
      armed    == InitSteps(Ord(t), CompensationSteps)
  IN  /\ pc[t] = "arm"
      /\ row' = [row EXCEPT ![Ord(t)] =
           [st \in Step |-> IF st \in unneeded THEN "SKIPPED" ELSE armed[st]]]
      /\ Goto(t, "undo")
      /\ UNCHANGED <<orderVars, csvVars, serviceVars, up, leg>>

FinishCompensation(t) ==
  /\ pc[t] = "undo" /\ Settled(t)
  /\ SetOrderStatus(Inst(t), Ord(t),
       IF AnyFailed(t) THEN "NEEDS_ATTENTION" ELSE "CANCELLED", TRUE)
  /\ Leave(t)
  /\ UNCHANGED <<row, csvVars, serviceVars, up>>

(* A statement of the driver itself throws between the steps: the task is  *)
(* over and the order keeps its lease until that lapses.                   *)
SagaAborts(t) ==
  /\ Faulty /\ Busy(t) /\ (Running(t) => Settled(t))
  /\ Leave(t)
  /\ UNCHANGED <<storeVars, serviceVars, up>>

(* startHeartbeat: runSaga only, and from its first line to its last.      *)
Heartbeat(t) ==
  /\ Started(t) /\ ~Forced(t)
  /\ lease[Ord(t)] = "expired"
  /\ RenewLease(Inst(t), Ord(t))
  /\ UNCHANGED <<serviceVars, taskVars>>

-----------------------------------------------------------------------------
(* The UI's two buttons.                                                   *)
Retry(i, o) ==
  /\ i \in up /\ ~Busy(<<i, "api", o>>)
  /\ ClaimForRetry(i, o)
  /\ Goto(<<i, "api", o>>, "compensate")
  /\ UNCHANGED <<serviceVars, up, leg>>

Ship(o) == MarkShipped(o) /\ UNCHANGED <<serviceVars, taskVars>>

(* The environment: services, clocks and crashes.                          *)
ServiceExecutes(o, s) ==
  /\ ExecuteDo(o, s) \/ ExecuteUndo(o, s)
  /\ UNCHANGED <<storeVars, taskVars>>

Phase(t) == IF pc[t] \in {"queued", "resume"} THEN "queued"
            ELSE IF Forced(t) THEN "retrying" ELSE "driving"

Attended(o) == {t \in Task : Ord(t) = o /\ Inst(t) = leaseOwner[o] /\ Busy(t)}

(* The lease passes its expiry: unattended, or in spite of a slow owner.   *)
Lapse(o) ==
  /\ \A t \in Attended(o) : Phase(t) \in Slow
  /\ LeaseLapses(o)
  /\ UNCHANGED <<serviceVars, taskVars>>

(* Requests already sent outlive the instance that sent them.              *)
Crash(i) ==
  /\ i \in up \cap Mortal
  /\ up' = up \ {i}
  /\ pc' = [t \in Task |-> IF Inst(t) = i THEN "idle" ELSE pc[t]]
  /\ leg' = [t \in Task |-> IF Inst(t) = i THEN NoLegs ELSE leg[t]]
  /\ UNCHANGED <<storeVars, serviceVars>>

-----------------------------------------------------------------------------
Progress(t) ==
  \/ StartForward(t) \/ ResumeCompensation(t) \/ Plan(t)
  \/ FinishForward(t) \/ ReadSucceeded(t) \/ ArmUndo(t) \/ FinishCompensation(t)
  \/ \E s \in Service :
       SendStep(t, s) \/ StepSucceeds(t, s) \/ StepFails(t, s) \/ StepRejects(t, s)

Next ==
  \/ \E i \in Instance, batch \in SUBSET Order : Claim(i, batch)
  \/ \E t \in Task : Progress(t) \/ SagaAborts(t) \/ Heartbeat(t)
  \/ \E i \in Instance, o \in Order : Retry(i, o)
  \/ \E o \in Order : Ship(o) \/ Lapse(o)
  \/ \E o \in Order, s \in Service : ServiceExecutes(o, s)
  \/ \E i \in Instance : Crash(i)

Spec == Init /\ [][Next]_vars

(* What the code's scheduling justifies: a task goes on (each call ends by *)
(* its timeouts), the poll loop claims oldest first, an unrenewed lease    *)
(* passes, and an outage of the coordinator's own database ends.  Nothing  *)
(* is assumed of requests, heartbeats, people or crashes.                  *)
ClaimOf(o) ==
  \E i \in Instance, batch \in SUBSET Order : o \in batch /\ Claim(i, batch)

OutagesEnd == <>[][\A t \in Task : ~SagaAborts(t)]_vars

Fairness ==
  /\ \A t \in Task : WF_vars(Progress(t))
  /\ \A o \in Order : SF_vars(ClaimOf(o)) /\ WF_vars(Attended(o) = {} /\ Lapse(o))
  /\ OutagesEnd

FairSpec == Spec /\ Fairness
=============================================================================
