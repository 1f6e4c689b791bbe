----------------------------- MODULE SagaProofs -----------------------------
(***************************************************************************)
(* Theorems about SagaEngine for any number of instances, orders and       *)
(* services, every BatchSize, Concurrency, Slow, Faulty and Mortal.        *)
(***************************************************************************)
EXTENDS SagaProperties, FiniteSetTheorems, TLAPS

-----------------------------------------------------------------------------
(* Facts about the vocabulary.                                             *)
LEMMA StepFacts ==
  /\ \A s \in Service : Do(s) \in Step /\ Undo(s) \in Step
  /\ \A s, u \in Service : Do(s) # Undo(u)
  /\ \A s, u \in Service : (Do(s) = Do(u) => s = u) /\ (Undo(s) = Undo(u) => s = u)
  /\ \A st \in Step : \E s \in Service : st = Do(s) \/ st = Undo(s)
BY DEF Step, ForwardSteps, CompensationSteps, Do, Undo

(* A task names its instance, its role and its order.                      *)
LEMMA TaskFacts ==
  /\ \A t \in Task : Inst(t) \in Instance /\ Ord(t) \in Order
  /\ \A i \in Instance, o \in Order :
       /\ <<i, "worker", o>> \in Task /\ <<i, "api", o>> \in Task
       /\ Inst(<<i, "api", o>>) = i /\ Ord(<<i, "api", o>>) = o
       /\ Inst(<<i, "worker", o>>) = i /\ Ord(<<i, "worker", o>>) = o
BY DEF Task, Role, Inst, Ord

(* The step of a leg is a step.                                            *)
LEMMA StepOfType ==
  ASSUME NEW t \in Task, NEW s \in Service
  PROVE  StepOf(t, s) \in Step
BY StepFacts DEF StepOf

(* What setOrderStatus and Post leave, as far as types go.                 *)
LEMMA SetOrderStatusType ==
  ASSUME StoreTypeOK, NEW i, NEW o \in Order, NEW new \in OrderStatus, NEW clear \in BOOLEAN,
         SetOrderStatus(i, o, new, clear)
  PROVE  /\ status' \in [Order -> OrderStatus]
         /\ leaseOwner' \in [Order -> Instance \cup {Nobody}]
         /\ lease' \in [Order -> LeaseState]
<1>1. CASE leaseOwner[o] = i
  <2>1. status' = [status EXCEPT ![o] = new]
    BY <1>1 DEF SetOrderStatus
  <2>2. leaseOwner' = [leaseOwner EXCEPT ![o] = IF clear THEN Nobody ELSE @]
    BY <1>1 DEF SetOrderStatus
  <2>3. lease' = [lease EXCEPT ![o] = IF clear THEN "null" ELSE @]
    BY <1>1 DEF SetOrderStatus
  <2> QED
    BY <2>1, <2>2, <2>3 DEF StoreTypeOK, LeaseState
<1>2. CASE leaseOwner[o] # i
  BY <1>2 DEF SetOrderStatus, orderVars, StoreTypeOK
<1> QED
  BY <1>1, <1>2

(* Posting a step keeps the type of the posted steps.                      *)
LEMMA PostType ==
  ASSUME ServiceTypeOK, NEW o \in Order, NEW st \in Step, Post(o, st)
  PROVE  posted' \in [Order -> SUBSET Step]
BY DEF ServiceTypeOK, Post

-----------------------------------------------------------------------------
(* Every variable keeps its type, whatever stalls, fails or crashes.       *)
LEMMA TypeInit == Init => TypeOK
BY DEF Init, StoreInit, ServiceInit, TypeOK, StoreTypeOK, ServiceTypeOK,
       OrderStatus, LeaseState, RowStatus, Effect, PC, Leg, NoLegs

(* Every step of the engine keeps the types.                               *)
LEMMA TypeNext == TypeOK /\ [Next]_vars => TypeOK'
<1> SUFFICES ASSUME TypeOK, [Next]_vars PROVE TypeOK'
  OBVIOUS
<1> USE StepFacts, TaskFacts DEF TypeOK, StoreTypeOK, ServiceTypeOK
<1>1. ASSUME NEW i \in Instance, NEW batch \in SUBSET Order, Claim(i, batch)
      PROVE  TypeOK'
  BY <1>1 DEF Claim, ClaimRows, orderVars, csvVars, serviceVars, OrderStatus, LeaseState, PC
<1>2. ASSUME NEW t \in Task, StartForward(t) PROVE TypeOK'
  BY <1>2 DEF StartForward, InitSteps, Goto, orderVars, csvVars, serviceVars, RowStatus, PC
<1>3. ASSUME NEW t \in Task, ResumeCompensation(t) PROVE TypeOK'
  BY <1>3 DEF ResumeCompensation, Goto, storeVars, serviceVars, PC
<1>4. ASSUME NEW t \in Task, Plan(t) PROVE TypeOK'
  BY <1>4 DEF Plan, Goto, Legs, storeVars, serviceVars, PC, Leg
<1>5. ASSUME NEW t \in Task, NEW s \in Service, SendStep(t, s) PROVE TypeOK'
  <2> DEFINE o == Ord(t)  st == StepOf(t, s)
  <2> o \in Order /\ st \in Step
    BY StepOfType
  <2> HIDE DEF o, st
  <2>1. row' \in [Order -> [Step -> RowStatus \cup {"ABSENT"}]]
    <3> row' = [row EXCEPT ![o][st] = IF @ = "SUCCEEDED" THEN @ ELSE "RUNNING"]
      BY <1>5 DEF SendStep, MarkStepRunning, o, st
    <3> QED  BY DEF RowStatus
  <2>2. posted' \in [Order -> SUBSET Step]
    <3>1. UNCHANGED posted \/ Post(o, st)
      BY <1>5 DEF SendStep, o, st
    <3> QED
      BY <3>1, PostType
  <2>3. leg' \in [Task -> [Service -> Leg]]
    BY <1>5 DEF SendStep, SetLeg, Leg
  <2> QED
    BY <1>5, <2>1, <2>2, <2>3 DEF SendStep, orderVars, csvVars
<1>6. ASSUME NEW t \in Task, NEW s \in Service, StepSucceeds(t, s) PROVE TypeOK'
  BY <1>6, StepOfType DEF StepSucceeds, MarkStepResult, SetLeg, orderVars, csvVars, serviceVars, RowStatus, Leg
<1>7. ASSUME NEW t \in Task, NEW s \in Service, StepFails(t, s) PROVE TypeOK'
  BY <1>7, StepOfType DEF StepFails, MarkStepResult, SetLeg, orderVars, csvVars, serviceVars, RowStatus, Leg
<1>8. ASSUME NEW t \in Task, NEW s \in Service, StepRejects(t, s) PROVE TypeOK'
  <2>1. row' \in [Order -> [Step -> RowStatus \cup {"ABSENT"}]]
    <3>1. CASE UNCHANGED row
      BY <3>1
    <3>2. CASE MarkStepResult(Ord(t), StepOf(t, s), "SUCCEEDED")
      BY <3>2, StepOfType DEF MarkStepResult, RowStatus
    <3>3. CASE MarkStepRunning(Ord(t), StepOf(t, s))
      BY <3>3, StepOfType DEF MarkStepRunning, RowStatus
    <3> QED  BY <1>8, <3>1, <3>2, <3>3 DEF StepRejects
  <2>2. leg' \in [Task -> [Service -> Leg]]
    BY <1>8 DEF StepRejects, SetLeg, Leg
  <2> QED
    BY <1>8, <2>1, <2>2 DEF StepRejects, orderVars, csvVars, serviceVars
<1>9. ASSUME NEW t \in Task, FinishForward(t) PROVE TypeOK'
  <2>1. CASE AnyFailed(t)
    <3>1. pc' \in [Task -> PC] /\ leg' \in [Task -> [Service -> Leg]]
      <4>1. Goto(t, "compensate") /\ Legs(t, NoLegs)
        BY <1>9, <2>1 DEF FinishForward
      <4> QED
        BY <4>1 DEF Goto, Legs, NoLegs, PC, Leg
    <3>2. SetOrderStatus(Inst(t), Ord(t), "COMPENSATING", FALSE)
      BY <1>9, <2>1 DEF FinishForward
    <3>3. UNCHANGED <<row, csvVars, serviceVars, up>>
      BY <1>9 DEF FinishForward
    <3>4. /\ status' \in [Order -> OrderStatus]
          /\ leaseOwner' \in [Order -> Instance \cup {Nobody}]
          /\ lease' \in [Order -> LeaseState]
      BY <3>2, SetOrderStatusType DEF OrderStatus
    <3> QED
      BY <3>1, <3>3, <3>4 DEF csvVars, serviceVars
  <2>2. CASE ~AnyFailed(t)
    <3>1. pc' \in [Task -> PC] /\ leg' \in [Task -> [Service -> Leg]]
      <4>1. Leave(t)
        BY <1>9, <2>2 DEF FinishForward
      <4> QED
        BY <4>1 DEF Leave, Goto, Legs, NoLegs, PC, Leg
    <3>2. SetOrderStatus(Inst(t), Ord(t), "PLACED", TRUE)
      BY <1>9, <2>2 DEF FinishForward
    <3>3. UNCHANGED <<row, csvVars, serviceVars, up>>
      BY <1>9 DEF FinishForward
    <3>4. /\ status' \in [Order -> OrderStatus]
          /\ leaseOwner' \in [Order -> Instance \cup {Nobody}]
          /\ lease' \in [Order -> LeaseState]
      BY <3>2, SetOrderStatusType DEF OrderStatus
    <3> QED
      BY <3>1, <3>3, <3>4 DEF csvVars, serviceVars
  <2> QED
    BY <2>1, <2>2
<1>10. ASSUME NEW t \in Task, ReadSucceeded(t) PROVE TypeOK'
  BY <1>10 DEF ReadSucceeded, Goto, Legs, storeVars, serviceVars, PC, Leg
<1>11. ASSUME NEW t \in Task, ArmUndo(t) PROVE TypeOK'
  BY <1>11 DEF ArmUndo, InitSteps, Goto, orderVars, csvVars, serviceVars, RowStatus, PC
<1>12. ASSUME NEW t \in Task, FinishCompensation(t) PROVE TypeOK'
  BY <1>12, SetOrderStatusType DEF FinishCompensation, Goto, Legs, Leave, NoLegs, csvVars,
    serviceVars, OrderStatus, PC, Leg
<1>13. ASSUME NEW t \in Task, SagaAborts(t) PROVE TypeOK'
  BY <1>13 DEF SagaAborts, Goto, Legs, Leave, NoLegs, storeVars, serviceVars, PC, Leg
<1>14. ASSUME NEW t \in Task, Heartbeat(t) PROVE TypeOK'
  BY <1>14 DEF Heartbeat, RenewLease, csvVars, serviceVars, taskVars, LeaseState
<1>15. ASSUME NEW i \in Instance, NEW o \in Order, Retry(i, o) PROVE TypeOK'
  BY <1>15 DEF Retry, ClaimForRetry, Goto, csvVars, serviceVars, OrderStatus, LeaseState, PC
<1>16. ASSUME NEW o \in Order, Ship(o) PROVE TypeOK'
  BY <1>16 DEF Ship, MarkShipped, csvVars, serviceVars, taskVars, OrderStatus
<1>17. ASSUME NEW o \in Order, Lapse(o) PROVE TypeOK'
  BY <1>17 DEF Lapse, LeaseLapses, csvVars, serviceVars, taskVars, LeaseState
<1>18. ASSUME NEW o \in Order, NEW s \in Service, ServiceExecutes(o, s) PROVE TypeOK'
  <2>1. CASE ExecuteDo(o, s)
    BY <1>18, <2>1 DEF ServiceExecutes, ExecuteDo, Executes, storeVars, taskVars, Effect
  <2>2. CASE ExecuteUndo(o, s)
    BY <1>18, <2>2 DEF ServiceExecutes, ExecuteUndo, Executes, UndoEffect, storeVars, taskVars, Effect
  <2> QED
    BY <1>18, <2>1, <2>2 DEF ServiceExecutes
<1>19. ASSUME NEW i \in Instance, Crash(i) PROVE TypeOK'
  BY <1>19 DEF Crash, NoLegs, storeVars, serviceVars, PC, Leg
<1>20. CASE UNCHANGED vars
  BY <1>20 DEF vars, storeVars, serviceVars, taskVars
<1>21. QED
  BY <1>1, <1>2, <1>3, <1>4, <1>5, <1>6, <1>7, <1>8, <1>9, <1>10, <1>11, <1>12, <1>13, <1>14,
     <1>15, <1>16, <1>17, <1>18, <1>19, <1>20 DEF Next, Progress

(* Type correctness of the whole engine: the rows, the records and the     *)
(* tasks.                                                                  *)
THEOREM TypeCorrect == Spec => []TypeOK
BY TypeInit, TypeNext, PTL DEF Spec

-----------------------------------------------------------------------------
(* An order is active exactly while it has an owner and a deadline.  Only  *)
(* the statements on saga_orders matter; the fence of setOrderStatus is    *)
(* what keeps a zombie from stamping COMPENSATING on a settled order.      *)
LEMMA FencedStatusKeepsNoOrphan ==
  ASSUME TypeOK, NoOrphan, NEW i \in Instance, NEW o \in Order, NEW new \in OrderStatus,
         NEW clear \in BOOLEAN, (new \in ActiveStatus) <=> ~clear,
         SetOrderStatus(i, o, new, clear)
  PROVE  NoOrphan'
<1>1. CASE leaseOwner[o] = i
  <2>1. /\ status' = [status EXCEPT ![o] = new]
        /\ leaseOwner' = [leaseOwner EXCEPT ![o] = IF clear THEN Nobody ELSE @]
        /\ lease' = [lease EXCEPT ![o] = IF clear THEN "null" ELSE @]
    BY <1>1 DEF SetOrderStatus
  <2>2. leaseOwner[o] # Nobody /\ lease[o] # "null"
    BY <1>1, NobodyAssumption DEF NoOrphan
  <2> QED
    BY <2>1, <2>2 DEF NoOrphan, TypeOK, StoreTypeOK
<1>2. CASE leaseOwner[o] # i
  BY <1>2 DEF SetOrderStatus, orderVars, NoOrphan
<1> QED
  BY <1>1, <1>2

(* Status, owner and deadline are only ever written together.              *)
LEMMA NoOrphanNext == TypeOK /\ NoOrphan /\ [Next]_vars => NoOrphan'
<1> SUFFICES ASSUME TypeOK, NoOrphan, [Next]_vars PROVE NoOrphan'
  OBVIOUS
<1>1. CASE UNCHANGED orderVars
  BY <1>1 DEF orderVars, NoOrphan
<1>2. ASSUME NEW i \in Instance, NEW batch \in SUBSET Order, Claim(i, batch)
      PROVE  NoOrphan'
  BY <1>2, NobodyAssumption DEF Claim, ClaimRows, NoOrphan, ActiveStatus, TypeOK, StoreTypeOK
<1>3. ASSUME NEW t \in Task, FinishForward(t) PROVE NoOrphan'
  <2>1. \/ SetOrderStatus(Inst(t), Ord(t), "COMPENSATING", FALSE)
        \/ SetOrderStatus(Inst(t), Ord(t), "PLACED", TRUE)
    BY <1>3 DEF FinishForward
  <2> QED
    BY <2>1, TaskFacts, FencedStatusKeepsNoOrphan DEF OrderStatus, ActiveStatus
<1>4. ASSUME NEW t \in Task, FinishCompensation(t) PROVE NoOrphan'
  <2>1. \E new \in {"NEEDS_ATTENTION", "CANCELLED"} : SetOrderStatus(Inst(t), Ord(t), new, TRUE)
    BY <1>4 DEF FinishCompensation
  <2> QED
    BY <2>1, TaskFacts, FencedStatusKeepsNoOrphan DEF OrderStatus, ActiveStatus
<1>5. ASSUME NEW t \in Task, Heartbeat(t) PROVE NoOrphan'
  BY <1>5, TaskFacts DEF Heartbeat, RenewLease, NoOrphan, TypeOK, StoreTypeOK
<1>6. ASSUME NEW i \in Instance, NEW o \in Order, Retry(i, o) PROVE NoOrphan'
  BY <1>6, NobodyAssumption DEF Retry, ClaimForRetry, NoOrphan, ActiveStatus, TypeOK, StoreTypeOK
<1>7. ASSUME NEW o \in Order, Ship(o) PROVE NoOrphan'
  BY <1>7 DEF Ship, MarkShipped, NoOrphan, ActiveStatus, TypeOK, StoreTypeOK
<1>8. ASSUME NEW o \in Order, Lapse(o) PROVE NoOrphan'
  BY <1>8 DEF Lapse, LeaseLapses, NoOrphan, TypeOK, StoreTypeOK
<1>9. ASSUME NEW t \in Task, NEW s \in Service,
             SendStep(t, s) \/ StepSucceeds(t, s) \/ StepFails(t, s) \/ StepRejects(t, s)
      PROVE  UNCHANGED orderVars
  BY <1>9 DEF SendStep, StepSucceeds, StepFails, StepRejects
<1>10. ASSUME NEW t \in Task,
              \/ StartForward(t) \/ ResumeCompensation(t) \/ Plan(t)
              \/ ReadSucceeded(t) \/ ArmUndo(t) \/ SagaAborts(t)
       PROVE  UNCHANGED orderVars
  BY <1>10 DEF StartForward, ResumeCompensation, Plan, ReadSucceeded, ArmUndo, SagaAborts,
               storeVars, orderVars
<1>11. ASSUME NEW o \in Order, NEW s \in Service, ServiceExecutes(o, s)
       PROVE  UNCHANGED orderVars
  BY <1>11 DEF ServiceExecutes, storeVars, orderVars
<1>12. ASSUME NEW i \in Instance, Crash(i) PROVE UNCHANGED orderVars
  BY <1>12 DEF Crash, storeVars, orderVars
<1>13. CASE UNCHANGED vars
  BY <1>13, <1>1 DEF vars, storeVars, orderVars
<1> QED
  BY <1>1, <1>2, <1>3, <1>4, <1>5, <1>6, <1>7, <1>8, <1>9, <1>10, <1>11, <1>12, <1>13
  DEF Next, Progress

(* No order is ever active without a lease, or settled with one.           *)
THEOREM NoOrphanHolds == Spec => []NoOrphan
<1>1. ASSUME Init PROVE NoOrphan
  <2>1. /\ status = [o \in Order |-> "PENDING"]
        /\ leaseOwner = [o \in Order |-> Nobody]
        /\ lease = [o \in Order |-> "null"]
    BY <1>1 DEF Init, StoreInit
  <2> QED
    BY <2>1 DEF NoOrphan, ActiveStatus
<1> QED
  BY <1>1, TypeInit, TypeNext, NoOrphanNext, PTL DEF Spec

-----------------------------------------------------------------------------
(* Records, requests and effects, whoever drives.  A row is set SUCCEEDED  *)
(* only on an answer, an undo is sent only for a leg that compensate made  *)
(* from such a row, and the service records only what was sent.            *)
LEMMA ExecutionInit == Init => ExecutionInv
BY StepFacts DEF Init, StoreInit, ServiceInit, ExecutionInv, SucceededMeansExecuted, EffectOfRecord

(* Leaves of the step lemma: rows are re-armed, SKIPPED, RUNNING, FAILED   *)
(* or as they were; or SUCCEEDED and recorded.                             *)
LEMMA RowsKeepExecution ==
  ASSUME TypeOK, ExecutionInv, UNCHANGED serviceVars,
         \A o \in Order, st \in Step :
           row'[o][st] = "SUCCEEDED" => row[o][st] = "SUCCEEDED" \/ st \in record[o],
         \A t \in Task, s \in Service :
           pc'[t] \in {"arm", "undo"} /\ leg'[t][s] = "todo" =>
             \/ pc[t] \in {"arm", "undo"} /\ leg[t][s] = "todo"
             \/ s \in SucceededForward(Ord(t))
  PROVE  ExecutionInv'
<1>1. SucceededMeansExecuted'
  BY DEF ExecutionInv, SucceededMeansExecuted, serviceVars
<1>2. \A t \in Task, s \in Service :
        pc'[t] \in {"arm", "undo"} /\ leg'[t][s] = "todo" => Do(s) \in record'[Ord(t)]
  BY StepFacts, TaskFacts DEF ExecutionInv, SucceededMeansExecuted, SucceededForward, serviceVars
<1> QED
  BY <1>1, <1>2 DEF ExecutionInv, EffectOfRecord, serviceVars

(* Every step keeps rows, requests and records in agreement.               *)
LEMMA ExecutionNext == TypeOK /\ ExecutionInv /\ [Next]_vars => ExecutionInv'
<1> SUFFICES ASSUME TypeOK, ExecutionInv, [Next]_vars PROVE ExecutionInv'
  OBVIOUS
<1>1. ASSUME NEW t \in Task, NEW s \in Service, SendStep(t, s) PROVE ExecutionInv'
  <2> DEFINE o == Ord(t)  st == StepOf(t, s)
  <2>1. o \in Order /\ st \in Step
    BY TaskFacts, StepOfType
  <2>2. row' = [row EXCEPT ![o][st] = IF @ = "SUCCEEDED" THEN @ ELSE "RUNNING"]
    BY <1>1 DEF SendStep, MarkStepRunning
  <2>3. UNCHANGED <<record, effect, pc>> /\ leg' = [leg EXCEPT ![t][s] = "call"]
    BY <1>1 DEF SendStep, SetLeg
  <2>4. posted' = posted \/ posted' = [posted EXCEPT ![o] = @ \cup {st}]
    BY <1>1 DEF SendStep, Post
  <2>5. \A u \in Service : st = Undo(u) => Do(u) \in record[o]
    BY <1>1, StepFacts DEF SendStep, StepOf, Running, ExecutionInv
  <2> HIDE DEF o, st
  <2>6. SucceededMeansExecuted'
    BY <2>1, <2>2, <2>3 DEF ExecutionInv, SucceededMeansExecuted, TypeOK, StoreTypeOK
  <2>7. \A p \in Order : posted[p] \subseteq posted'[p] /\ record'[p] \subseteq posted'[p]
    BY <2>1, <2>3, <2>4 DEF ExecutionInv, TypeOK, ServiceTypeOK
  <2>8. ASSUME NEW p \in Order, NEW u \in Service, Undo(u) \in posted'[p]
        PROVE  Do(u) \in record'[p]
    <3>1. posted \in [Order -> SUBSET Step]
      BY DEF TypeOK, ServiceTypeOK
    <3>2. Undo(u) \in posted[p] \/ (p = o /\ st = Undo(u))
      BY <2>1, <2>4, <2>8, <3>1
    <3>3. Undo(u) \in posted[p] => Do(u) \in record[p]
      BY DEF ExecutionInv
    <3> QED
      BY <2>3, <2>5, <3>2, <3>3
  <2>9. \A v \in Task, u \in Service :
          pc'[v] \in {"arm", "undo"} /\ leg'[v][u] = "todo" => Do(u) \in record'[Ord(v)]
    BY <2>3 DEF ExecutionInv, TypeOK
  <2> QED
    BY <2>3, <2>6, <2>7, <2>8, <2>9 DEF ExecutionInv, EffectOfRecord
<1>2. ASSUME NEW t \in Task, NEW s \in Service,
             StepSucceeds(t, s) \/ StepFails(t, s) \/ StepRejects(t, s)
      PROVE  ExecutionInv'
  <2> DEFINE o == Ord(t)  st == StepOf(t, s)
  <2>1. o \in Order /\ st \in Step
    BY TaskFacts, StepOfType
  <2>2. \/ row' = row
        \/ row' = [row EXCEPT ![o][st] = "FAILED"]
        \/ row' = [row EXCEPT ![o][st] = "SUCCEEDED"] /\ st \in record[o]
        \/ row' = [row EXCEPT ![o][st] = IF @ = "SUCCEEDED" THEN @ ELSE "RUNNING"]
    BY <1>2 DEF StepSucceeds, StepFails, StepRejects, Answerable, MarkStepResult, MarkStepRunning
  <2>3. UNCHANGED <<serviceVars, pc>> /\ \E now \in {"ok", "failed"} : leg' = [leg EXCEPT ![t][s] = now]
    BY <1>2 DEF StepSucceeds, StepFails, StepRejects, SetLeg
  <2> HIDE DEF o, st
  <2>4. \A p \in Order, x \in Step :
          row'[p][x] = "SUCCEEDED" => row[p][x] = "SUCCEEDED" \/ x \in record[p]
    <3>1. row \in [Order -> [Step -> RowStatus \cup {"ABSENT"}]]
      BY DEF TypeOK, StoreTypeOK
    <3>2. CASE row' = row
      BY <3>2
    <3>3. CASE row' = [row EXCEPT ![o][st] = "FAILED"]
      BY <2>1, <3>1, <3>3
    <3>4. CASE row' = [row EXCEPT ![o][st] = "SUCCEEDED"] /\ st \in record[o]
      BY <2>1, <3>1, <3>4
    <3>5. CASE row' = [row EXCEPT ![o][st] = IF @ = "SUCCEEDED" THEN @ ELSE "RUNNING"]
      BY <2>1, <3>1, <3>5
    <3> QED
      BY <2>2, <3>2, <3>3, <3>4, <3>5
  <2>5. \A v \in Task, u \in Service : leg'[v][u] = "todo" => leg[v][u] = "todo"
    <3>1. PICK now \in {"ok", "failed"} : leg' = [leg EXCEPT ![t][s] = now]
      BY <2>3
    <3>2. leg \in [Task -> [Service -> Leg]]
      BY DEF TypeOK
    <3> QED
      BY <3>1, <3>2
  <2> QED
    BY <2>3, <2>4, <2>5, RowsKeepExecution
<1>3. ASSUME NEW t \in Task, StartForward(t) \/ ArmUndo(t) PROVE ExecutionInv'
  <2>1. \A p \in Order, x \in Step :
          row'[p][x] = "SUCCEEDED" => row[p][x] = "SUCCEEDED"
    <3>1. Ord(t) \in Order /\ row \in [Order -> [Step -> RowStatus \cup {"ABSENT"}]]
      BY TaskFacts DEF TypeOK, StoreTypeOK
    <3>2. CASE StartForward(t)
      BY <3>1, <3>2 DEF StartForward, InitSteps
    <3>3. CASE ArmUndo(t)
      <4> DEFINE skipped == {Undo(s) : s \in {u \in Service : leg[t][u] = "off"}}
      <4>1. row' = [row EXCEPT ![Ord(t)] = [st \in Step |->
                        IF st \in skipped THEN "SKIPPED"
                        ELSE InitSteps(Ord(t), CompensationSteps)[st]]]
        BY <3>3 DEF ArmUndo
      <4> HIDE DEF skipped
      <4> QED
        BY <3>1, <4>1 DEF InitSteps
    <3> QED
      BY <1>3, <3>2, <3>3
  <2>2. UNCHANGED <<serviceVars, leg>>
    BY <1>3 DEF StartForward, ArmUndo
  <2>3. \A v \in Task : pc'[v] \in {"arm", "undo"} => pc[v] \in {"arm", "undo"}
    BY <1>3 DEF StartForward, ArmUndo, Goto, TypeOK
  <2> QED
    BY <2>1, <2>2, <2>3, RowsKeepExecution
<1>4. ASSUME NEW t \in Task, ReadSucceeded(t) PROVE ExecutionInv'
  <2>1. UNCHANGED <<serviceVars, row>>
    BY <1>4 DEF ReadSucceeded, storeVars
  <2>2. \A v \in Task, u \in Service :
          pc'[v] \in {"arm", "undo"} /\ leg'[v][u] = "todo" =>
            \/ pc[v] \in {"arm", "undo"} /\ leg[v][u] = "todo"
            \/ u \in SucceededForward(Ord(v))
    BY <1>4 DEF ReadSucceeded, Goto, Legs, TypeOK
  <2> QED
    BY <2>1, <2>2, RowsKeepExecution
<1>5. ASSUME UNCHANGED <<serviceVars, row>>,
             \A v \in Task : pc'[v] \in {"arm", "undo"} => pc'[v] = pc[v] /\ leg'[v] = leg[v]
      PROVE  ExecutionInv'
  BY <1>5, RowsKeepExecution
<1>6. ASSUME NEW i \in Instance, NEW batch \in SUBSET Order, Claim(i, batch)
      PROVE  ExecutionInv'
  BY <1>5, <1>6 DEF Claim, ClaimRows, TypeOK
<1>7. ASSUME NEW t \in Task,
             \/ ResumeCompensation(t) \/ Plan(t) \/ FinishForward(t)
             \/ FinishCompensation(t) \/ SagaAborts(t)
      PROVE  ExecutionInv'
  <2>1. UNCHANGED <<serviceVars, row>>
    BY <1>7 DEF ResumeCompensation, Plan, FinishForward, FinishCompensation, SagaAborts, storeVars
  <2>2. \A v \in Task : pc'[v] \in {"arm", "undo"} => pc'[v] = pc[v] /\ leg'[v] = leg[v]
    BY <1>7 DEF ResumeCompensation, Plan, FinishForward, FinishCompensation, SagaAborts,
                Goto, Legs, Leave, TypeOK
  <2> QED
    BY <1>5, <2>1, <2>2
<1>8. ASSUME NEW t \in Task, Heartbeat(t) PROVE ExecutionInv'
  BY <1>5, <1>8 DEF Heartbeat, RenewLease, taskVars
<1>9. ASSUME NEW i \in Instance, NEW o \in Order, Retry(i, o) PROVE ExecutionInv'
  BY <1>5, <1>9, TaskFacts DEF Retry, ClaimForRetry, Goto, TypeOK
<1>10. ASSUME NEW o \in Order, Ship(o) \/ Lapse(o) PROVE ExecutionInv'
  BY <1>5, <1>10 DEF Ship, MarkShipped, Lapse, LeaseLapses, taskVars
<1>11. ASSUME NEW i \in Instance, Crash(i) PROVE ExecutionInv'
  BY <1>5, <1>11 DEF Crash, storeVars
<1>12. ASSUME NEW o \in Order, NEW s \in Service, ServiceExecutes(o, s) PROVE ExecutionInv'
  <2>1. UNCHANGED <<row, posted, pc, leg>>
    BY <1>12 DEF ServiceExecutes, ExecuteDo, ExecuteUndo, Executes, storeVars, taskVars
  <2>2. PICK st \in {Do(s), Undo(s)} :
          /\ st \in posted[o] \ record[o]
          /\ record' = [record EXCEPT ![o] = @ \cup {st}]
          /\ effect' = [effect EXCEPT ![o][s] = IF st = Do(s) THEN "live" ELSE UndoEffect(@)]
    BY <1>12, StepFacts DEF ServiceExecutes, ExecuteDo, ExecuteUndo, Executes
  <2>3. st \in Step
    BY StepFacts
  <2>4. \A p \in Order : record[p] \subseteq record'[p] /\ record'[p] \subseteq posted[p]
    BY <2>2 DEF ExecutionInv, TypeOK, ServiceTypeOK
  <2>5. \A p \in Order, u \in Service : effect'[p][u] = EffectOfRecord(p, u)'
    <3>1. \A p \in Order, u \in Service : p # o \/ u # s => effect'[p][u] = EffectOfRecord(p, u)'
      BY <2>2, StepFacts DEF ExecutionInv, EffectOfRecord, TypeOK, ServiceTypeOK
    <3>2. CASE st = Do(s)
      <4>1. effect'[o][s] = "live"
        BY <2>2, <3>2 DEF TypeOK, ServiceTypeOK
      <4>2. Undo(s) \notin record'[o] /\ Do(s) \in record'[o]
        BY <2>2, <3>2, StepFacts DEF ExecutionInv, TypeOK, ServiceTypeOK
      <4> QED
        BY <3>1, <4>1, <4>2 DEF EffectOfRecord
    <3>3. CASE st = Undo(s)
      <4>1. effect[o][s] = "live"
        BY <2>2, <3>3 DEF ExecutionInv, EffectOfRecord
      <4>2. effect'[o][s] = "undone"
        BY <2>2, <3>3, <4>1, StepFacts DEF UndoEffect, TypeOK, ServiceTypeOK
      <4>3. Undo(s) \in record'[o]
        BY <2>2, <3>3 DEF TypeOK, ServiceTypeOK
      <4> QED
        BY <3>1, <4>2, <4>3 DEF EffectOfRecord
    <3> QED
      BY <2>2, <3>2, <3>3
  <2>6. SucceededMeansExecuted'
    BY <2>1, <2>4 DEF ExecutionInv, SucceededMeansExecuted
  <2>7. \A p \in Order, u \in Service : Undo(u) \in posted'[p] => Do(u) \in record'[p]
    BY <2>1, <2>4 DEF ExecutionInv
  <2>8. \A v \in Task, u \in Service :
          pc'[v] \in {"arm", "undo"} /\ leg'[v][u] = "todo" => Do(u) \in record'[Ord(v)]
    BY <2>1, <2>4, TaskFacts DEF ExecutionInv
  <2> QED
    BY <2>1, <2>4, <2>5, <2>6, <2>7, <2>8 DEF ExecutionInv
<1>13. CASE UNCHANGED vars
  BY <1>5, <1>13 DEF vars, storeVars, taskVars
<1> QED
  BY <1>1, <1>2, <1>3, <1>4, <1>6, <1>7, <1>8, <1>9, <1>10, <1>11, <1>12, <1>13 DEF Next, Progress

(* Rows, requests, records and effects agree, whoever stalls or wakes up   *)
(* late.                                                                   *)
THEOREM ExecutionHolds == Spec => []ExecutionInv
BY TypeInit, TypeNext, ExecutionInit, ExecutionNext, PTL DEF Spec

(* A step on record as SUCCEEDED was executed by its service.              *)
THEOREM SucceededMeansExecutedHolds == Spec => []SucceededMeansExecuted
<1>1. ExecutionInv => SucceededMeansExecuted
  BY DEF ExecutionInv
<1> QED
  BY <1>1, ExecutionHolds, PTL

(* No undo is recorded before its do-step.                                 *)
THEOREM NoUndoBeforeDoHolds == Spec => []NoUndoBeforeDo
<1>1. ExecutionInv => NoUndoBeforeDo
  BY DEF ExecutionInv, EffectOfRecord, NoUndoBeforeDo
<1> QED
  BY <1>1, ExecutionHolds, PTL

-----------------------------------------------------------------------------
(* Which statements touch saga_orders, and in whose name.                  *)
LEMMA OrdersMove ==
  ASSUME [Next]_vars
  PROVE  \/ UNCHANGED orderVars
         \/ \E i \in Instance, batch \in SUBSET Order : ClaimRows(i, batch)
         \/ \E t \in Task : SetOrderStatus(Inst(t), Ord(t), "COMPENSATING", FALSE)
         \/ \E t \in Task, new \in {"PLACED", "NEEDS_ATTENTION", "CANCELLED"} :
              SetOrderStatus(Inst(t), Ord(t), new, TRUE)
         \/ \E t \in Task : RenewLease(Inst(t), Ord(t))
         \/ \E i \in Instance, o \in Order : ClaimForRetry(i, o)
         \/ \E o \in Order : MarkShipped(o) \/ LeaseLapses(o)
<1>1. ASSUME NEW i \in Instance, NEW batch \in SUBSET Order, Claim(i, batch)
      PROVE  ClaimRows(i, batch)
  BY <1>1 DEF Claim
<1>2. ASSUME NEW t \in Task, FinishForward(t)
      PROVE  \/ SetOrderStatus(Inst(t), Ord(t), "COMPENSATING", FALSE)
             \/ \E new \in {"PLACED", "NEEDS_ATTENTION", "CANCELLED"} :
                  SetOrderStatus(Inst(t), Ord(t), new, TRUE)
  BY <1>2 DEF FinishForward
<1>3. ASSUME NEW t \in Task, FinishCompensation(t)
      PROVE  \E new \in {"PLACED", "NEEDS_ATTENTION", "CANCELLED"} :
               SetOrderStatus(Inst(t), Ord(t), new, TRUE)
  BY <1>3 DEF FinishCompensation
<1>4. ASSUME NEW t \in Task, Heartbeat(t) PROVE RenewLease(Inst(t), Ord(t))
  BY <1>4 DEF Heartbeat
<1>5. ASSUME NEW i \in Instance, NEW o \in Order, Retry(i, o) PROVE ClaimForRetry(i, o)
  BY <1>5 DEF Retry
<1>6. ASSUME NEW o \in Order, Ship(o) \/ Lapse(o) PROVE MarkShipped(o) \/ LeaseLapses(o)
  BY <1>6 DEF Ship, Lapse
<1>7. ASSUME NEW t \in Task, NEW s \in Service,
             SendStep(t, s) \/ StepSucceeds(t, s) \/ StepFails(t, s) \/ StepRejects(t, s)
      PROVE  UNCHANGED orderVars
  BY <1>7 DEF SendStep, StepSucceeds, StepFails, StepRejects
<1>8. ASSUME NEW t \in Task,
             \/ StartForward(t) \/ ResumeCompensation(t) \/ Plan(t)
             \/ ReadSucceeded(t) \/ ArmUndo(t) \/ SagaAborts(t)
      PROVE  UNCHANGED orderVars
  BY <1>8 DEF StartForward, ResumeCompensation, Plan, ReadSucceeded, ArmUndo, SagaAborts,
              storeVars, orderVars
<1>9. ASSUME NEW o \in Order, NEW s \in Service, ServiceExecutes(o, s)
      PROVE  UNCHANGED orderVars
  BY <1>9 DEF ServiceExecutes, storeVars, orderVars
<1>10. ASSUME NEW i \in Instance, Crash(i) PROVE UNCHANGED orderVars
  BY <1>10 DEF Crash, storeVars, orderVars
<1>11. CASE UNCHANGED vars
  BY <1>11 DEF vars, storeVars, orderVars
<1> QED
  BY <1>1, <1>2, <1>3, <1>4, <1>5, <1>6, <1>7, <1>8, <1>9, <1>10, <1>11 DEF Next, Progress

(* The fence: a status is written only where the writer holds the lease,   *)
(* and that is an active order.                                            *)
LEMMA FencedStatus ==
  ASSUME TypeOK, NoOrphan, NEW t \in Task, NEW new, NEW clear,
         SetOrderStatus(Inst(t), Ord(t), new, clear)
  PROVE  \/ UNCHANGED orderVars
         \/ /\ status[Ord(t)] \in ActiveStatus /\ leaseOwner[Ord(t)] = Inst(t)
            /\ status' = [status EXCEPT ![Ord(t)] = new]
            /\ leaseOwner' = [leaseOwner EXCEPT ![Ord(t)] = IF clear THEN Nobody ELSE @]
            /\ lease' = [lease EXCEPT ![Ord(t)] = IF clear THEN "null" ELSE @]
<1>1. CASE leaseOwner[Ord(t)] = Inst(t)
  BY <1>1, TaskFacts, NobodyAssumption DEF SetOrderStatus, NoOrphan
<1>2. CASE leaseOwner[Ord(t)] # Inst(t)
  BY <1>2 DEF SetOrderStatus
<1> QED
  BY <1>1, <1>2

(* An order that is neither waiting nor at work is moved by a person only. *)
LEMMA SettledStep ==
  ASSUME TypeOK, NoOrphan, [Next]_vars, NEW o \in Order, status'[o] # status[o],
         status[o] \notin ActiveStatus \cup {"PENDING"}
  PROVE  \/ status[o] = "PLACED" /\ status'[o] = "SHIPPED"
         \/ status[o] = "NEEDS_ATTENTION" /\ status'[o] = "COMPENSATING"
<1> DEFINE Goal == \/ status[o] = "PLACED" /\ status'[o] = "SHIPPED"
                   \/ status[o] = "NEEDS_ATTENTION" /\ status'[o] = "COMPENSATING"
<1>t. status \in [Order -> OrderStatus]
  BY DEF TypeOK, StoreTypeOK
<1>1. ~UNCHANGED orderVars
  BY DEF orderVars
<1>2. ASSUME NEW i \in Instance, NEW batch \in SUBSET Order, ClaimRows(i, batch) PROVE Goal
  <2>1. o \notin batch
    BY <1>2 DEF ClaimRows, Claimable
  <2> QED
    BY <1>2, <2>1 DEF ClaimRows
<1>3. ASSUME NEW t \in Task, NEW new, NEW clear, SetOrderStatus(Inst(t), Ord(t), new, clear)
      PROVE  Goal
  BY <1>t, <1>1, <1>3, FencedStatus
<1>4. ASSUME NEW p \in Order, (\E i \in Instance : ClaimForRetry(i, p)) \/ MarkShipped(p) PROVE Goal
  BY <1>t, <1>4 DEF ClaimForRetry, MarkShipped
<1>5. ASSUME (\E t \in Task : RenewLease(Inst(t), Ord(t))) \/ (\E p \in Order : LeaseLapses(p))
      PROVE  Goal
  BY <1>5 DEF RenewLease, LeaseLapses
<1> QED
  BY <1>1, <1>2, <1>3, <1>4, <1>5, OrdersMove

(* No zombie moves a settled order.                                        *)
THEOREM SettledStaysHolds == Spec => SettledStays
<1>1. TypeOK /\ NoOrphan /\ [Next]_vars =>
        [\A o \in Order :
           /\ status[o] \in {"CANCELLED", "SHIPPED"} => status'[o] = status[o]
           /\ status[o] = "PLACED" => status'[o] \in {"PLACED", "SHIPPED"}
           /\ status[o] = "NEEDS_ATTENTION" =>
                status'[o] \in {"NEEDS_ATTENTION", "COMPENSATING"}]_vars
  BY SettledStep DEF ActiveStatus
<1> QED
  BY <1>1, TypeCorrect, NoOrphanHolds, PTL DEF Spec, SettledStays

-----------------------------------------------------------------------------
(* Leases pass from hand to hand as Dispatch has it.                       *)
Stand == [o \in Order |-> Coarse(o)]

(* An order that is given a status stands where that status says; and all  *)
(* stand where they stood as long as no status is written.                 *)
LEMMA StandMoves ==
  ASSUME TypeOK, NEW o \in Order, NEW new \in OrderStatus, status' = [status EXCEPT ![o] = new]
  PROVE  Stand' = [Stand EXCEPT ![o] =
           IF new = "PENDING" THEN "PENDING" ELSE IF new \in ActiveStatus THEN "IN_PROGRESS" ELSE "ENDED"]
<1>1. \A p \in Order : status'[p] = IF p = o THEN new ELSE status[p]
  BY DEF TypeOK, StoreTypeOK
<1> QED
  BY <1>1 DEF Stand, Coarse

LEMMA StandKept == ASSUME UNCHANGED status PROVE UNCHANGED Stand
BY DEF Stand, Coarse

(* The engine deals with leases as Dispatch has it, stalled or not.        *)
AtWork == {t \in Task : Busy(t)}

LEMMA DispatchSteps ==
  /\ \A i \in Instance, batch \in SUBSET Order : Hands!Assign(i, batch) => Hands!DispatchNext
  /\ \A i \in Instance, o \in Order : Hands!Renew(i, o) \/ Hands!Reopen(i, o) => Hands!DispatchNext
  /\ \A i \in Instance, o \in Order, r \in Role : Hands!End(i, r, o) => Hands!DispatchNext
  /\ \A o \in Order : Hands!Lapse(o) => Hands!DispatchNext
  /\ Hands!LetGo => Hands!DispatchNext
BY DEF Hands!DispatchNext, Role

(* A task is at work until it leaves, or its instance is gone.             *)
LEMMA MovesOn ==
  ASSUME TypeOK, NEW t \in Task, NEW where \in PC, Goto(t, where)
  PROVE  /\ where = "idle" => AtWork' = AtWork \ {t}
         /\ where # "idle" => AtWork' = AtWork \cup {t}
BY DEF TypeOK, Goto, AtWork, Busy

LEMMA StaysAtWork == ASSUME UNCHANGED pc PROVE UNCHANGED AtWork
BY DEF AtWork, Busy

(* A saga that comes to its end: it ends its order, or lost it before.     *)
LEMMA SagaEnds ==
  ASSUME TypeOK, NoOrphan, NEW t \in Task, Busy(t), Leave(t),
         NEW new \in {"PLACED", "NEEDS_ATTENTION", "CANCELLED"},
         SetOrderStatus(Inst(t), Ord(t), new, TRUE)
  PROVE  Hands!DispatchNext
<1>1. AtWork' = AtWork \ {t} /\ t \in AtWork
  BY MovesOn DEF Leave, PC, AtWork
<1>2. PICK r \in Role : t = <<Inst(t), r, Ord(t)>> /\ Inst(t) \in Instance /\ Ord(t) \in Order
  BY DEF Task, Inst, Ord
<1>3. CASE UNCHANGED orderVars
  <2>1. Hands!LetGo
    BY <1>1, <1>3, StandKept DEF Hands!LetGo, orderVars, Stand, AtWork
  <2> QED
    BY <2>1, DispatchSteps
<1>4. CASE ~UNCHANGED orderVars
  <2>1. /\ status[Ord(t)] \in ActiveStatus /\ leaseOwner[Ord(t)] = Inst(t)
        /\ status' = [status EXCEPT ![Ord(t)] = new]
        /\ leaseOwner' = [leaseOwner EXCEPT ![Ord(t)] = Nobody]
        /\ lease' = [lease EXCEPT ![Ord(t)] = "null"]
    BY <1>4, FencedStatus
  <2>2. Stand' = [Stand EXCEPT ![Ord(t)] = "ENDED"]
    BY <1>2, <2>1, StandMoves DEF OrderStatus, ActiveStatus
  <2>3. Stand[Ord(t)] = "IN_PROGRESS"
    BY <1>2, <2>1 DEF Stand, Coarse, ActiveStatus
  <2>4. Hands!End(Inst(t), r, Ord(t))
    BY <1>1, <1>2, <2>1, <2>2, <2>3 DEF Hands!End, Stand, AtWork
  <2> QED
    BY <1>2, <2>4, DispatchSteps
<1> QED
  BY <1>3, <1>4

LEMMA PassedOnStep ==
  ASSUME TypeOK, NoOrphan, [Next]_vars
  PROVE  Hands!DispatchNext \/ UNCHANGED <<Stand, leaseOwner, lease, AtWork>>
<1> DEFINE Goal == Hands!DispatchNext \/ UNCHANGED <<Stand, leaseOwner, lease, AtWork>>
<1>t. /\ status \in [Order -> OrderStatus] /\ lease \in [Order -> LeaseState]
      /\ leaseOwner \in [Order -> Instance \cup {Nobody}] /\ pc \in [Task -> PC]
  BY DEF TypeOK, StoreTypeOK
<1>1. UNCHANGED orderVars /\ AtWork' \subseteq AtWork => Goal
  <2>1. UNCHANGED orderVars /\ AtWork' \subseteq AtWork => Hands!LetGo
    BY StandKept DEF orderVars, Hands!LetGo, Stand, AtWork
  <2> QED
    BY <2>1, DispatchSteps
<1>2. ASSUME NEW i \in Instance, NEW batch \in SUBSET Order, Claim(i, batch) PROVE Goal
  <2>1. ClaimRows(i, batch)
    BY <1>2 DEF Claim
  <2>2. \A o \in batch : Stand[o] = "PENDING" \/ (Stand[o] = "IN_PROGRESS" /\ lease[o] = "expired")
    BY <2>1 DEF ClaimRows, Claimable, Stand, Coarse
  <2>3. Stand' = [o \in Order |-> IF o \in batch THEN "IN_PROGRESS" ELSE Stand[o]]
    <3>1. \A o \in Order : Coarse(o)' = IF o \in batch THEN "IN_PROGRESS" ELSE Coarse(o)
      BY <2>1 DEF ClaimRows, Claimable, Coarse, ActiveStatus
    <3> QED
      BY <3>1 DEF Stand
  <2>4. AtWork' = AtWork \cup {<<i, "worker", o>> : o \in batch}
    <3>1. \A t \in Task : pc'[t] = IF t \notin {<<i, "worker", o>> : o \in batch} THEN pc[t]
                                   ELSE IF status[Ord(t)] = "COMPENSATING" THEN "resume" ELSE "queued"
      BY <1>2 DEF Claim
    <3>2. \A t \in Task : Busy(t)' <=> Busy(t) \/ t \in {<<i, "worker", o>> : o \in batch}
      BY <3>1 DEF Busy
    <3>3. {<<i, "worker", o>> : o \in batch} \subseteq Task
      BY TaskFacts
    <3> QED
      BY <3>2, <3>3 DEF AtWork
  <2>5. Hands!Assign(i, batch)
    BY <2>1, <2>2, <2>3, <2>4 DEF ClaimRows, Hands!Assign, Stand, AtWork
  <2> QED
    BY <2>5, DispatchSteps
<1>3. ASSUME NEW t \in Task,
             \/ StartForward(t) \/ ResumeCompensation(t) \/ Plan(t) \/ ReadSucceeded(t) \/ ArmUndo(t)
             \/ SagaAborts(t)
      PROVE  Goal
  <2>1. PICK where \in PC : Goto(t, where) /\ Busy(t) /\ UNCHANGED orderVars
    BY <1>3 DEF StartForward, ResumeCompensation, Plan, ReadSucceeded, ArmUndo, SagaAborts,
                Leave, PC, Busy, storeVars, orderVars
  <2>2. t \in AtWork
    BY <2>1 DEF AtWork
  <2>3. AtWork' \subseteq AtWork
    BY <2>1, <2>2, MovesOn
  <2> QED
    BY <1>1, <2>1, <2>3
<1>4. ASSUME NEW t \in Task, NEW s \in Service,
             SendStep(t, s) \/ StepSucceeds(t, s) \/ StepFails(t, s) \/ StepRejects(t, s)
      PROVE  Goal
  <2>1. UNCHANGED orderVars /\ UNCHANGED pc
    BY <1>4 DEF SendStep, StepSucceeds, StepFails, StepRejects
  <2> QED
    BY <1>1, <2>1, StaysAtWork
<1>5. ASSUME NEW t \in Task, FinishForward(t) PROVE Goal
  <2>1. CASE AnyFailed(t)
    <3>1. /\ SetOrderStatus(Inst(t), Ord(t), "COMPENSATING", FALSE)
          /\ Goto(t, "compensate") /\ t \in AtWork
      BY <1>5, <2>1 DEF FinishForward, AtWork, Busy
    <3>2. UNCHANGED AtWork
      BY <3>1, MovesOn DEF PC
    <3>3. UNCHANGED <<Stand, leaseOwner, lease>>
      <4>1. CASE UNCHANGED orderVars
        BY <4>1, StandKept DEF orderVars
      <4>2. CASE ~UNCHANGED orderVars
        <5>1. /\ status[Ord(t)] \in ActiveStatus /\ Ord(t) \in Order
              /\ status' = [status EXCEPT ![Ord(t)] = "COMPENSATING"]
              /\ leaseOwner' = [leaseOwner EXCEPT ![Ord(t)] = IF FALSE THEN Nobody ELSE @]
              /\ lease' = [lease EXCEPT ![Ord(t)] = IF FALSE THEN "null" ELSE @]
          BY <3>1, <4>2, FencedStatus, TaskFacts
        <5>2. UNCHANGED <<leaseOwner, lease>>
          BY <1>t, <5>1
        <5>3. UNCHANGED Stand
          BY <1>t, <5>1 DEF Stand, Coarse, ActiveStatus
        <5> QED
          BY <5>2, <5>3
      <4> QED
        BY <4>1, <4>2
    <3> QED
      BY <3>2, <3>3
  <2>2. CASE ~AnyFailed(t)
    BY <1>5, <2>2, SagaEnds DEF FinishForward, Busy
  <2> QED
    BY <2>1, <2>2
<1>6. ASSUME NEW t \in Task, FinishCompensation(t) PROVE Goal
  <2>1. \E new \in {"NEEDS_ATTENTION", "CANCELLED"} : SetOrderStatus(Inst(t), Ord(t), new, TRUE)
    BY <1>6 DEF FinishCompensation
  <2> QED
    BY <1>6, <2>1, SagaEnds DEF FinishCompensation, Busy
<1>7. ASSUME NEW t \in Task, Heartbeat(t) PROVE Goal
  <2>1. /\ RenewLease(Inst(t), Ord(t)) /\ UNCHANGED pc
        /\ t = <<Inst(t), "worker", Ord(t)>> /\ t \in AtWork
    BY <1>7 DEF Heartbeat, taskVars, Started, Forced, AtWork, Busy, Task, Role, Inst, Ord
  <2>2. Hands!Renew(Inst(t), Ord(t))
    BY <2>1, StandKept, StaysAtWork DEF RenewLease, Hands!Renew, Stand, AtWork
  <2> QED
    BY <2>2, DispatchSteps, TaskFacts
<1>8. ASSUME NEW i \in Instance, NEW o \in Order, Retry(i, o) PROVE Goal
  <2>1. ClaimForRetry(i, o) /\ Goto(<<i, "api", o>>, "compensate")
    BY <1>8 DEF Retry
  <2>2. Stand' = [Stand EXCEPT ![o] = "IN_PROGRESS"]
    BY <2>1, StandMoves DEF ClaimForRetry, OrderStatus, ActiveStatus
  <2>3. Stand[o] = "ENDED"
    BY <2>1 DEF ClaimForRetry, Stand, Coarse, ActiveStatus
  <2>4. AtWork' = AtWork \cup {<<i, "api", o>>}
    BY <2>1, MovesOn, TaskFacts DEF PC
  <2>5. Hands!Reopen(i, o)
    BY <2>1, <2>2, <2>3, <2>4 DEF ClaimForRetry, Hands!Reopen, Stand, AtWork
  <2> QED
    BY <2>5, DispatchSteps
<1>9. ASSUME NEW o \in Order, Ship(o) PROVE Goal
  <2>1. UNCHANGED Stand
    BY <1>t, <1>9 DEF Ship, MarkShipped, Stand, Coarse, ActiveStatus
  <2> QED
    BY <1>9, <2>1, StaysAtWork DEF Ship, MarkShipped, taskVars
<1>10. ASSUME NEW o \in Order, Lapse(o) PROVE Goal
  <2>1. LeaseLapses(o) /\ UNCHANGED pc
    BY <1>10 DEF Lapse, taskVars
  <2>2. Hands!Lapse(o)
    BY <2>1, StandKept, StaysAtWork DEF LeaseLapses, Hands!Lapse, Stand, AtWork
  <2> QED
    BY <2>2, DispatchSteps
<1>11. ASSUME NEW o \in Order, NEW s \in Service, ServiceExecutes(o, s) PROVE Goal
  BY <1>1, <1>11, StaysAtWork DEF ServiceExecutes, storeVars, orderVars, taskVars
<1>12. ASSUME NEW i \in Instance, Crash(i) PROVE Goal
  <2>1. AtWork' \subseteq AtWork /\ UNCHANGED orderVars
    BY <1>t, <1>12 DEF Crash, AtWork, Busy, storeVars, orderVars
  <2> QED
    BY <1>1, <2>1
<1>13. CASE UNCHANGED vars
  BY <1>1, <1>13, StaysAtWork DEF vars, storeVars, orderVars, taskVars
<1> QED
  BY <1>2, <1>3, <1>4, <1>5, <1>6, <1>7, <1>8, <1>9, <1>10, <1>11, <1>12, <1>13 DEF Next, Progress

(* Whoever stalls or dies, an order changes hands, is renewed and is ended *)
(* only as Dispatch has it.                                                *)
THEOREM PassedOnHolds == Spec => PassedOn
<1>1. TypeOK /\ NoOrphan /\ [Next]_vars => [Hands!DispatchNext]_(Hands!dispatchVars)
  BY PassedOnStep DEF Stand, AtWork, Hands!dispatchVars
<1> QED
  BY <1>1, TypeCorrect, NoOrphanHolds, PTL DEF Spec, PassedOn

-----------------------------------------------------------------------------
(* The work left of a task, for any finite number of services.             *)
LEMMA CallsLeftType ==
  ASSUME IsFiniteSet(Service), NEW t
  PROVE  CallsLeft(t) \in Nat /\ Cardinality(Service) \in Nat
<1>1. \A stand : LegsAt(t, stand) \in Nat
  <2> TAKE stand
  <2>1. IsFiniteSet({s \in Service : leg[t][s] = stand})
    BY FS_Subset
  <2> QED
    BY <2>1, FS_CardinalityType DEF LegsAt
<1>2. LegsAt(t, "todo") \in Nat /\ LegsAt(t, "call") \in Nat
  BY <1>1
<1> QED
  BY <1>2, FS_CardinalityType DEF CallsLeft

LEMMA CallsLeftTypeNext ==
  ASSUME IsFiniteSet(Service), NEW t
  PROVE  CallsLeft(t)' \in Nat
<1>1. \A stand : LegsAt(t, stand)' \in Nat
  <2> TAKE stand
  <2>1. IsFiniteSet({s \in Service : leg'[t][s] = stand})
    BY FS_Subset
  <2> QED
    BY <2>1, FS_CardinalityType DEF LegsAt
<1>2. LegsAt(t, "todo")' \in Nat /\ LegsAt(t, "call")' \in Nat
  BY <1>1
<1> QED
  BY <1>2 DEF CallsLeft

(* A leg that moves leaves one count and joins another.                    *)
LEMMA LegsMove ==
  ASSUME IsFiniteSet(Service), TypeOK, NEW t \in Task, NEW s \in Service, NEW old \in Leg, NEW now \in Leg,
         leg[t][s] = old, leg' = [leg EXCEPT ![t][s] = now], old # now
  PROVE  /\ LegsAt(t, old)' = LegsAt(t, old) - 1
         /\ LegsAt(t, now)' = LegsAt(t, now) + 1
         /\ \A stand : stand \notin {old, now} => LegsAt(t, stand)' = LegsAt(t, stand)
         /\ \A stand : LegsAt(t, stand) \in Nat
<1> DEFINE At(stand) == {u \in Service : leg[t][u] = stand}
           Then(stand) == {u \in Service : leg'[t][u] = stand}
<1>1. \A u \in Service : leg'[t][u] = IF u = s THEN now ELSE leg[t][u]
  BY DEF TypeOK
<1>2. \A stand : IsFiniteSet(At(stand)) /\ Cardinality(At(stand)) \in Nat
  <2> TAKE stand
  <2>1. IsFiniteSet(At(stand))
    BY FS_Subset
  <2> QED
    BY <2>1, FS_CardinalityType
<1>3. Cardinality(Then(old)) = Cardinality(At(old)) - 1
  <2>1. Then(old) = At(old) \ {s} /\ s \in At(old)
    BY <1>1
  <2> HIDE DEF At, Then
  <2> QED
    BY <1>2, <2>1, FS_RemoveElement
<1>4. Cardinality(Then(now)) = Cardinality(At(now)) + 1
  <2>1. Then(now) = At(now) \cup {s} /\ s \notin At(now)
    BY <1>1
  <2> HIDE DEF At, Then
  <2> QED
    BY <1>2, <2>1, FS_AddElement
<1>5. \A stand : stand \notin {old, now} => Then(stand) = At(stand)
  BY <1>1
<1>6. \A stand : LegsAt(t, stand) = Cardinality(At(stand)) /\ LegsAt(t, stand)' = Cardinality(Then(stand))
  BY DEF LegsAt
<1> HIDE DEF At, Then
<1> QED
  BY <1>2, <1>3, <1>4, <1>5, <1>6

(* The legs a phase starts with: some to do, and none of them called yet.  *)
LEMMA FreshLegs ==
  ASSUME IsFiniteSet(Service), TypeOK, NEW t \in Task, NEW off \in SUBSET Service,
         leg' = [leg EXCEPT ![t] = [s \in Service |-> IF s \in off THEN "off" ELSE "todo"]]
  PROVE  CallsLeft(t)' <= 2 * Cardinality(Service)
<1>1. leg'[t] = [s \in Service |-> IF s \in off THEN "off" ELSE "todo"]
  BY DEF TypeOK
<1>2. {s \in Service : leg'[t][s] = "call"} = {} /\ {s \in Service : leg'[t][s] = "todo"} \subseteq Service
  BY <1>1
<1>3. LegsAt(t, "call")' = 0
  BY <1>2, FS_EmptySet DEF LegsAt
<1>4. LegsAt(t, "todo")' <= Cardinality(Service) /\ LegsAt(t, "todo")' \in Nat
  <2>1. /\ IsFiniteSet({s \in Service : leg'[t][s] = "todo"})
        /\ Cardinality({s \in Service : leg'[t][s] = "todo"}) <= Cardinality(Service)
    BY <1>2, FS_Subset
  <2> QED
    BY <2>1, FS_CardinalityType DEF LegsAt
<1> QED
  BY <1>3, <1>4, FS_CardinalityType DEF CallsLeft

(* A task that stands where it stood has as much to do as before.          *)
LEMMA WorkKept ==
  ASSUME NEW t, pc'[t] = pc[t], leg'[t] = leg[t]
  PROVE  WorkLeft(t)' = WorkLeft(t)
BY DEF WorkLeft, CallsLeft, LegsAt

(* Each step of a task's own ...                                           *)
LEMMA ProgressTakesWork ==
  ASSUME IsFiniteSet(Service), TypeOK, NEW t \in Task, Progress(t)
  PROVE  WorkLeft(t)' < WorkLeft(t)
<1>t. pc \in [Task -> PC] /\ leg \in [Task -> [Service -> Leg]]
  BY DEF TypeOK
<1>n. /\ CallsLeft(t) \in Nat /\ CallsLeft(t)' \in Nat /\ Cardinality(Service) \in Nat
  BY CallsLeftType, CallsLeftTypeNext
<1>1. CASE StartForward(t)
  BY <1>1, <1>t, <1>n DEF StartForward, Goto, WorkLeft
<1>2. CASE ResumeCompensation(t)
  BY <1>2, <1>t, <1>n DEF ResumeCompensation, Goto, WorkLeft
<1>3. CASE Plan(t)
  <2>1. CallsLeft(t)' <= 2 * Cardinality(Service)
    BY <1>3, FreshLegs DEF Plan, Legs, SucceededForward
  <2> QED
    BY <1>3, <1>t, <1>n, <2>1 DEF Plan, Goto, WorkLeft
<1>4. CASE FinishForward(t)
  <2>1. pc[t] = "forward" /\ pc'[t] \in {"compensate", "idle"}
    BY <1>4, <1>t DEF FinishForward, Leave, Goto
  <2> QED
    BY <1>n, <2>1 DEF WorkLeft
<1>5. CASE ReadSucceeded(t)
  <2>1. leg' = [leg EXCEPT ![t] = [s \in Service |->
                  IF s \in Service \ SucceededForward(Ord(t)) THEN "off" ELSE "todo"]]
    BY <1>5 DEF ReadSucceeded, Legs
  <2>2. CallsLeft(t)' <= 2 * Cardinality(Service)
    BY <2>1, FreshLegs
  <2> QED
    BY <1>5, <1>t, <1>n, <2>2 DEF ReadSucceeded, Goto, WorkLeft
<1>6. CASE ArmUndo(t)
  <2>1. CallsLeft(t)' = CallsLeft(t)
    BY <1>6 DEF ArmUndo, CallsLeft, LegsAt
  <2> QED
    BY <1>6, <1>t, <1>n, <2>1 DEF ArmUndo, Goto, WorkLeft
<1>7. CASE FinishCompensation(t)
  BY <1>7, <1>t, <1>n DEF FinishCompensation, Leave, Goto, WorkLeft
<1>8. ASSUME NEW s \in Service,
             SendStep(t, s) \/ StepSucceeds(t, s) \/ StepFails(t, s) \/ StepRejects(t, s)
      PROVE  WorkLeft(t)' < WorkLeft(t)
  <2>1. PICK old \in {"todo", "call"}, now \in {"call", "ok", "failed"} :
          leg[t][s] = old /\ leg' = [leg EXCEPT ![t][s] = now] /\ old # now
    BY <1>8 DEF SendStep, StepSucceeds, StepFails, StepRejects, SetLeg, Answerable
  <2>2. UNCHANGED pc /\ pc[t] \in {"forward", "undo"}
    BY <1>8 DEF SendStep, StepSucceeds, StepFails, StepRejects, Running
  <2>3. /\ LegsAt(t, old)' = LegsAt(t, old) - 1
        /\ LegsAt(t, now)' = LegsAt(t, now) + 1
        /\ \A stand : stand \notin {old, now} => LegsAt(t, stand)' = LegsAt(t, stand)
        /\ \A stand : LegsAt(t, stand) \in Nat
    <3>1. old \in Leg /\ now \in Leg
      BY DEF Leg
    <3> QED
      BY <2>1, <3>1, LegsMove, Zenon
  <2>4. CallsLeft(t)' < CallsLeft(t)
    <3>1. CASE old = "todo" /\ now = "call"
      BY <2>3, <3>1 DEF CallsLeft
    <3>2. CASE old = "todo" /\ now # "call"
      BY <2>1, <2>3, <3>2 DEF CallsLeft
    <3>3. CASE old = "call"
      BY <2>1, <2>3, <3>3 DEF CallsLeft
    <3> QED
      BY <2>1, <3>1, <3>2, <3>3
  <2> QED
    BY <1>n, <2>2, <2>4 DEF WorkLeft
<1> QED
  BY <1>1, <1>2, <1>3, <1>4, <1>5, <1>6, <1>7, <1>8 DEF Progress

(* ... leaves it less to do, and nothing else gives a task at work more,   *)
(* whatever stalls, fails or crashes.                                      *)
THEOREM SagaRunsOutHolds == ASSUME IsFiniteSet(Service) PROVE Spec => SagaRunsOut
<1>1. ASSUME TypeOK, TypeOK', [Next]_vars, NEW t \in Task, Busy(t)
      PROVE  WorkLeft(t)' <= WorkLeft(t)
  <2>t. pc \in [Task -> PC] /\ leg \in [Task -> [Service -> Leg]] /\ pc' \in [Task -> PC]
    BY <1>1 DEF TypeOK
  <2>n. WorkLeft(t) \in Nat /\ WorkLeft(t)' \in Nat
    <3>1. CallsLeft(t) \in Nat /\ CallsLeft(t)' \in Nat /\ Cardinality(Service) \in Nat
      BY CallsLeftType, CallsLeftTypeNext, Zenon
    <3> QED
      BY <2>t, <3>1 DEF WorkLeft, PC
  <2>1. CASE pc'[t] = pc[t] /\ leg'[t] = leg[t]
    BY <2>1, <2>n, WorkKept
  <2>2. CASE Progress(t)
    <3>1. WorkLeft(t)' < WorkLeft(t)
      BY <1>1, <2>2, ProgressTakesWork, Zenon
    <3> QED
      BY <2>n, <3>1
  <2>3. CASE pc'[t] = "idle"
    <3>1. WorkLeft(t)' = 0
      BY <2>3 DEF WorkLeft
    <3> QED
      BY <2>n, <3>1
  <2>4. ASSUME NEW u \in Task, u # t, Progress(u) \/ SagaAborts(u)
        PROVE  pc'[t] = pc[t] /\ leg'[t] = leg[t]
    BY <2>t, <2>4 DEF Progress, StartForward, ResumeCompensation, Plan, FinishForward, ReadSucceeded,
       ArmUndo, FinishCompensation, SendStep, StepSucceeds, StepFails, StepRejects, SagaAborts,
       Leave, Goto, Legs, SetLeg
  <2>5. ASSUME SagaAborts(t) PROVE pc'[t] = "idle"
    BY <2>t, <2>5 DEF SagaAborts, Leave, Goto
  <2>6. ASSUME NEW i \in Instance, NEW batch \in SUBSET Order, Claim(i, batch)
        PROVE  pc'[t] = pc[t] /\ leg'[t] = leg[t]
    BY <1>1, <2>6 DEF Claim, Busy
  <2>7. ASSUME NEW i \in Instance, NEW o \in Order, Retry(i, o)
        PROVE  pc'[t] = pc[t] /\ leg'[t] = leg[t]
    BY <1>1, <2>t, <2>7 DEF Retry, Busy, Goto
  <2>8. ASSUME NEW i \in Instance, Crash(i)
        PROVE  pc'[t] = "idle" \/ (pc'[t] = pc[t] /\ leg'[t] = leg[t])
    BY <2>8 DEF Crash
  <2>9. ASSUME UNCHANGED taskVars PROVE pc'[t] = pc[t] /\ leg'[t] = leg[t]
    BY <2>9 DEF taskVars
  <2>10. \/ UNCHANGED taskVars
         \/ \E u \in Task : Progress(u) \/ SagaAborts(u)
         \/ \E i \in Instance, batch \in SUBSET Order : Claim(i, batch)
         \/ \E i \in Instance, o \in Order : Retry(i, o)
         \/ \E i \in Instance : Crash(i)
    BY <1>1 DEF Next, vars, Heartbeat, Ship, Lapse, ServiceExecutes
  <2> QED
    BY <2>1, <2>2, <2>3, <2>4, <2>5, <2>6, <2>7, <2>8, <2>9, <2>10
<1>2. TypeOK /\ TypeOK' /\ [Next]_vars =>
        [\A t \in Task :
           /\ Progress(t) => WorkLeft(t)' < WorkLeft(t)
           /\ Busy(t) => WorkLeft(t)' <= WorkLeft(t)]_vars
  BY <1>1, ProgressTakesWork
<1> QED
  BY <1>2, TypeCorrect, PTL DEF Spec, SagaRunsOut
=============================================================================
