---------------------------- MODULE PromptProofs ----------------------------
(***************************************************************************)
(* Theorems about SagaEngine when no live coordinator outlasts its lease   *)
(* (Slow = {}), for any number of instances, orders and services, with     *)
(* every other fault: failed calls and statements, lost answers, crashes.  *)
(***************************************************************************)
EXTENDS SagaProofs

Forwarding == {"queued", "plan", "forward"}

(* Who drives an order holds its lease, so an order that is not active, or *)
(* whose lease is not live, has no driver at all.                          *)
LEMMA NoDriver ==
  ASSUME TypeOK, NoOrphan, DriverInv, NEW o \in Order,
         status[o] \notin ActiveStatus \/ lease[o] # "live"
  PROVE  \A t \in Task : Ord(t) = o => ~Busy(t)
BY TaskFacts, NobodyAssumption DEF DriverInv, NoOrphan

(* Steps of one task that leave the order alone.                           *)
LEMMA DriverFrame ==
  ASSUME DriverInv, UNCHANGED orderVars,
         \A t \in Task : Busy(t)' => Busy(t) /\ (pc'[t] \in Forwarding <=> pc[t] \in Forwarding)
  PROVE  DriverInv'
BY DEF DriverInv, OneDriver, orderVars, Forwarding

(* Nobody drives anything at first.                                        *)
LEMMA DriverInit == Init => DriverInv
BY DEF Init, DriverInv, OneDriver, Busy

-----------------------------------------------------------------------------
(* No step gives an order a second driver or takes a driver its lease.     *)
LEMMA DriverNext ==
  ASSUME Slow = {} PROVE TypeOK /\ NoOrphan /\ DriverInv /\ [Next]_vars => DriverInv'
<1> SUFFICES ASSUME TypeOK, NoOrphan, DriverInv, [Next]_vars PROVE DriverInv'
  OBVIOUS
<1>t. /\ pc \in [Task -> PC] /\ status \in [Order -> OrderStatus]
      /\ leaseOwner \in [Order -> Instance \cup {Nobody}] /\ lease \in [Order -> LeaseState]
  BY DEF TypeOK, StoreTypeOK
<1>1. ASSUME NEW i \in Instance, NEW batch \in SUBSET Order, Claim(i, batch)
      PROVE  DriverInv'
  <2>1. \A t \in Task : Ord(t) \in batch => ~Busy(t)
    BY <1>1, NoDriver DEF Claim, ClaimRows, Claimable, ActiveStatus
  <2>2. \A o \in Order :
          /\ status'[o] = IF o \in batch /\ status[o] # "COMPENSATING"
                          THEN "IN_PROGRESS" ELSE status[o]
          /\ leaseOwner'[o] = IF o \in batch THEN i ELSE leaseOwner[o]
          /\ lease'[o] = IF o \in batch THEN "live" ELSE lease[o]
    BY <1>1 DEF Claim, ClaimRows
  <2>3. \A t \in Task :
          /\ Ord(t) \notin batch => pc'[t] = pc[t]
          /\ Ord(t) \in batch /\ pc'[t] # "idle" =>
               /\ t = <<i, "worker", Ord(t)>>
               /\ pc'[t] = IF status[Ord(t)] = "COMPENSATING" THEN "resume" ELSE "queued"
    <3>1. \A t \in Task :
            t \in {<<i, "worker", o>> : o \in batch}
              <=> Ord(t) \in batch /\ t = <<i, "worker", Ord(t)>>
      BY TaskFacts
    <3>2. \A t \in Task : pc'[t] =
            IF t \notin {<<i, "worker", o>> : o \in batch} THEN pc[t]
            ELSE IF status[Ord(t)] = "COMPENSATING" THEN "resume" ELSE "queued"
      BY <1>1 DEF Claim
    <3> QED
      BY <2>1, <3>1, <3>2 DEF Busy
  <2>4. OneDriver'
    BY <2>2, <2>3 DEF DriverInv, OneDriver, Busy
  <2>5. \A t \in Task : Busy(t)' =>
          /\ leaseOwner'[Ord(t)] = Inst(t) /\ lease'[Ord(t)] = "live"
          /\ status'[Ord(t)] = IF pc'[t] \in {"queued", "plan", "forward"}
                               THEN "IN_PROGRESS" ELSE "COMPENSATING"
    <3> SUFFICES ASSUME NEW t \in Task, pc'[t] # "idle"
                 PROVE  /\ leaseOwner'[Ord(t)] = Inst(t) /\ lease'[Ord(t)] = "live"
                        /\ status'[Ord(t)] = IF pc'[t] \in {"queued", "plan", "forward"}
                                             THEN "IN_PROGRESS" ELSE "COMPENSATING"
      BY DEF Busy
    <3>1. CASE Ord(t) \in batch
      <4>1. Inst(t) = i
        BY <2>3, <3>1 DEF Inst
      <4>2. /\ leaseOwner'[Ord(t)] = i /\ lease'[Ord(t)] = "live"
            /\ status[Ord(t)] = "COMPENSATING" => status'[Ord(t)] = "COMPENSATING"
            /\ status[Ord(t)] # "COMPENSATING" => status'[Ord(t)] = "IN_PROGRESS"
        BY <2>2, <3>1, TaskFacts
      <4>3. pc'[t] = IF status[Ord(t)] = "COMPENSATING" THEN "resume" ELSE "queued"
        BY <2>3, <3>1
      <4> QED
        BY <4>1, <4>2, <4>3
    <3>2. CASE Ord(t) \notin batch
      BY <2>2, <2>3, <3>2, TaskFacts DEF DriverInv, Busy
    <3> QED
      BY <3>1, <3>2
  <2> QED
    BY <2>4, <2>5 DEF DriverInv
<1>2. ASSUME NEW t \in Task,
             \/ StartForward(t) \/ ResumeCompensation(t) \/ Plan(t)
             \/ ReadSucceeded(t) \/ ArmUndo(t) \/ SagaAborts(t)
      PROVE  DriverInv'
  <2>1. UNCHANGED orderVars
    BY <1>2 DEF StartForward, ResumeCompensation, Plan, ReadSucceeded, ArmUndo, SagaAborts,
                storeVars, orderVars
  <2>2. \A u \in Task : Busy(u)' => Busy(u) /\ (pc'[u] \in Forwarding <=> pc[u] \in Forwarding)
    BY <1>2, <1>t DEF StartForward, ResumeCompensation, Plan, ReadSucceeded, ArmUndo, SagaAborts,
                      Leave, Goto, Busy, Forwarding
  <2> QED
    BY <2>1, <2>2, DriverFrame
<1>3. ASSUME UNCHANGED <<orderVars, pc>> PROVE DriverInv'
  BY <1>3, DriverFrame DEF Busy
<1>4. ASSUME NEW t \in Task, NEW s \in Service,
             SendStep(t, s) \/ StepSucceeds(t, s) \/ StepFails(t, s) \/ StepRejects(t, s)
      PROVE  DriverInv'
  BY <1>3, <1>4 DEF SendStep, StepSucceeds, StepFails, StepRejects
<1>5. ASSUME NEW t \in Task, NEW new, NEW clear \in BOOLEAN,
             pc[t] # "idle", SetOrderStatus(Inst(t), Ord(t), new, clear),
             IF clear THEN pc' = [pc EXCEPT ![t] = "idle"]
                      ELSE pc' = [pc EXCEPT ![t] = "compensate"] /\ new = "COMPENSATING"
      PROVE  DriverInv'
  <2>1. \A u \in Task : Ord(u) = Ord(t) /\ Busy(u) => u = t
    BY <1>5 DEF DriverInv, OneDriver, Busy
  <2>2. \A o \in Order : o # Ord(t) =>
          status'[o] = status[o] /\ leaseOwner'[o] = leaseOwner[o] /\ lease'[o] = lease[o]
    BY <1>5, <1>t DEF SetOrderStatus, orderVars
  <2>3. /\ leaseOwner[Ord(t)] = Inst(t) /\ lease[Ord(t)] = "live"
    BY <1>5 DEF DriverInv, Busy
  <2>4. ~clear => /\ status'[Ord(t)] = "COMPENSATING" /\ leaseOwner'[Ord(t)] = Inst(t)
                  /\ lease'[Ord(t)] = "live"
    BY <1>5, <1>t, <2>3, TaskFacts DEF SetOrderStatus
  <2>5. \A u \in Task : u # t => pc'[u] = pc[u]
    BY <1>5, <1>t
  <2>6. pc'[t] = IF clear THEN "idle" ELSE "compensate"
    BY <1>5, <1>t
  <2>7. OneDriver'
    BY <2>1, <2>5 DEF DriverInv, OneDriver, Busy
  <2> QED
    BY <2>1, <2>2, <2>4, <2>5, <2>6, <2>7, TaskFacts DEF DriverInv, Busy
<1>6. ASSUME NEW t \in Task, FinishForward(t) PROVE DriverInv'
  <2>1. CASE AnyFailed(t)
    <3>1. SetOrderStatus(Inst(t), Ord(t), "COMPENSATING", FALSE) /\ Goto(t, "compensate")
      BY <1>6, <2>1 DEF FinishForward
    <3> QED
      BY <1>5, <1>6, <3>1 DEF FinishForward, Goto
  <2>2. CASE ~AnyFailed(t)
    <3>1. SetOrderStatus(Inst(t), Ord(t), "PLACED", TRUE) /\ Leave(t)
      BY <1>6, <2>2 DEF FinishForward
    <3> QED
      BY <1>5, <1>6, <3>1 DEF FinishForward, Leave, Goto
  <2> QED
    BY <2>1, <2>2
<1>7. ASSUME NEW t \in Task, FinishCompensation(t) PROVE DriverInv'
  <2>1. pc[t] # "idle" /\ Leave(t)
        /\ \E new \in OrderStatus : SetOrderStatus(Inst(t), Ord(t), new, TRUE)
    BY <1>7 DEF FinishCompensation, OrderStatus
  <2> QED
    BY <1>5, <2>1 DEF Leave, Goto
<1>8. ASSUME NEW t \in Task, Heartbeat(t) PROVE DriverInv'
  BY <1>8 DEF Heartbeat, Started, Busy, DriverInv
<1>9. ASSUME NEW i \in Instance, NEW o \in Order, Retry(i, o) PROVE DriverInv'
  <2> DEFINE t == <<i, "api", o>>
  <2>1. t \in Task /\ Inst(t) = i /\ Ord(t) = o
    BY TaskFacts
  <2>2. \A u \in Task : Ord(u) = o => ~Busy(u)
    BY <1>9, NoDriver DEF Retry, ClaimForRetry, ActiveStatus
  <2>3. /\ status'[o] = "COMPENSATING" /\ leaseOwner'[o] = i /\ lease'[o] = "live"
        /\ \A p \in Order : p # o =>
             status'[p] = status[p] /\ leaseOwner'[p] = leaseOwner[p] /\ lease'[p] = lease[p]
    BY <1>9, <1>t DEF Retry, ClaimForRetry
  <2>4. pc' = [pc EXCEPT ![t] = "compensate"]
    BY <1>9 DEF Retry, Goto
  <2> HIDE DEF t
  <2>5. pc'[t] = "compensate" /\ \A u \in Task : u # t => pc'[u] = pc[u]
    BY <1>t, <2>1, <2>4
  <2>6. OneDriver'
    BY <2>1, <2>2, <2>5 DEF DriverInv, OneDriver, Busy
  <2> QED
    BY <2>1, <2>2, <2>3, <2>5, <2>6, TaskFacts DEF DriverInv, Busy
<1>10. ASSUME NEW o \in Order, Ship(o) PROVE DriverInv'
  <2>1. \A u \in Task : Ord(u) = o => ~Busy(u)
    BY <1>10, NoDriver DEF Ship, MarkShipped, ActiveStatus
  <2> QED
    BY <1>10, <1>t, <2>1, TaskFacts DEF Ship, MarkShipped, taskVars, DriverInv, OneDriver, Busy
<1>11. ASSUME Slow = {}, NEW o \in Order, Lapse(o) PROVE DriverInv'
  <2>1. \A u \in Task : Ord(u) = o => ~Busy(u)
    BY <1>11 DEF Lapse, Attended, DriverInv
  <2> QED
    BY <1>11, <1>t, <2>1, TaskFacts DEF Lapse, LeaseLapses, taskVars, DriverInv, OneDriver, Busy
<1>12. ASSUME NEW o \in Order, NEW s \in Service, ServiceExecutes(o, s) PROVE DriverInv'
  BY <1>3, <1>12 DEF ServiceExecutes, storeVars, orderVars, taskVars
<1>13. ASSUME NEW i \in Instance, Crash(i) PROVE DriverInv'
  <2>1. UNCHANGED orderVars
    BY <1>13 DEF Crash, storeVars, orderVars
  <2>2. \A u \in Task : Busy(u)' => Busy(u) /\ (pc'[u] \in Forwarding <=> pc[u] \in Forwarding)
    BY <1>13 DEF Crash, Busy
  <2> QED
    BY <2>1, <2>2, DriverFrame
<1>14. CASE UNCHANGED vars
  BY <1>3, <1>14 DEF vars, storeVars, orderVars, taskVars
<1> QED
  BY <1>1, <1>2, <1>4, <1>6, <1>7, <1>8, <1>9, <1>10, <1>11, <1>12, <1>13, <1>14 DEF Next, Progress

(* A busy task holds a live lease and is alone on its order.               *)
THEOREM DriverHolds == ASSUME Slow = {} PROVE Spec => []DriverInv
BY TypeCorrect, NoOrphanHolds, DriverInit, DriverNext, PTL DEF Spec

(* Never do two tasks drive one order.                                     *)
THEOREM OneDriverHolds == ASSUME Slow = {} PROVE Spec => []OneDriver
<1>1. DriverInv => OneDriver
  BY DEF DriverInv
<1> QED
  BY <1>1, DriverHolds, PTL

-----------------------------------------------------------------------------
(* What the legs and the settled statuses stand for.                       *)
LEMMA ProgressInit == Init => ProgressInv
BY StepFacts DEF Init, StoreInit, ServiceInit, NoLegs, ProgressInv, LegOf, SettledOf, SucceededForward

(* A step that touches no phase in which legs count.                       *)
LEMMA LegFrame ==
  ASSUME TypeOK, \A t \in Task : LegOf(t), NEW t \in Task,
         SucceededForward(Ord(t))' = SucceededForward(Ord(t)),
         record[Ord(t)] \subseteq record'[Ord(t)],
         pc'[t] \in {"forward", "arm", "undo"} => pc'[t] = pc[t] /\ leg'[t] = leg[t]
  PROVE  LegOf(t)'
BY DEF LegOf

(* What is known of an order outlasts a step that leaves its requests and  *)
(* do-rows alone and does not place or cancel it.                          *)
LEMMA SettledFrame ==
  ASSUME NEW o \in Order, SettledOf(o),
         record[o] \subseteq record'[o],
         posted'[o] = posted[o], SucceededForward(o)' = SucceededForward(o),
         \/ status'[o] = status[o]
         \/ status[o] \notin RollingBack /\ status'[o] = "IN_PROGRESS"
         \/ status'[o] \in {"COMPENSATING", "NEEDS_ATTENTION"}
  PROVE  SettledOf(o)'
BY DEF SettledOf, RollingBack

(* One task works on its order and nobody else does.                       *)
LEMMA ProgressOfDriver ==
  ASSUME TypeOK, DriverInv, ProgressInv, NEW t \in Task, Busy(t),
         \A u \in Task : u # t => pc'[u] = pc[u] /\ leg'[u] = leg[u],
         \A o \in Order : o # Ord(t) => /\ row'[o] = row[o] /\ status'[o] = status[o]
                                       /\ posted'[o] = posted[o],
         UNCHANGED record, LegOf(t)', SettledOf(Ord(t))'
  PROVE  ProgressInv'
<1>1. ASSUME NEW u \in Task, u # t PROVE LegOf(u)'
  <2>1. CASE Ord(u) = Ord(t)
    <3>1. pc'[u] = "idle"
      BY <1>1, <2>1 DEF DriverInv, OneDriver, Busy
    <3> QED
      BY <3>1 DEF LegOf
  <2>2. CASE Ord(u) # Ord(t)
    <3>1. SucceededForward(Ord(u))' = SucceededForward(Ord(u))
      BY <2>2, TaskFacts DEF SucceededForward
    <3> QED
      BY <1>1, <3>1, LegFrame DEF ProgressInv
  <2> QED
    BY <2>1, <2>2
<1>2. ASSUME NEW o \in Order, o # Ord(t) PROVE SettledOf(o)'
  <2>1. SucceededForward(o)' = SucceededForward(o)
    BY <1>2 DEF SucceededForward
  <2> QED
    BY <1>2, <2>1, SettledFrame DEF ProgressInv
<1> QED
  BY <1>1, <1>2 DEF ProgressInv

(* An order that goes on being worked on stays in good order as long as    *)
(* only what compensate found succeeded is asked to be undone.             *)
LEMMA ActiveSettled ==
  ASSUME NEW o \in Order, SettledOf(o), status'[o] = status[o], status[o] \in ActiveStatus,
         \A s \in Service : Undo(s) \in posted'[o] =>
           \/ Undo(s) \in posted[o] /\ (s \in SucceededForward(o) => s \in SucceededForward(o)')
           \/ status[o] = "COMPENSATING" /\ s \in SucceededForward(o)'
  PROVE  SettledOf(o)'
BY DEF SettledOf, RollingBack, ActiveStatus

(* The four ways a leg moves.                                              *)
LEMMA ProgressLegs ==
  ASSUME TypeOK, DriverInv, ProgressInv, NEW t \in Task, NEW s \in Service,
         SendStep(t, s) \/ StepSucceeds(t, s) \/ StepFails(t, s) \/ StepRejects(t, s)
  PROVE  ProgressInv'
<1> DEFINE o == Ord(t)  st == StepOf(t, s)
<1>1. /\ row \in [Order -> [Step -> RowStatus \cup {"ABSENT"}]] /\ leg \in [Task -> [Service -> Leg]]
      /\ posted \in [Order -> SUBSET Step] /\ o \in Order /\ st \in Step
  BY TaskFacts, StepOfType DEF TypeOK, StoreTypeOK, ServiceTypeOK
<1>2. /\ pc[t] \in {"forward", "undo"} /\ Busy(t) /\ UNCHANGED <<orderVars, record, pc>>
      /\ pc[t] = "forward" => st = Do(s) /\ status[o] = "IN_PROGRESS"
      /\ pc[t] = "undo" => st = Undo(s) /\ status[o] = "COMPENSATING"
  BY DEF SendStep, StepSucceeds, StepFails, StepRejects, Running, Busy, serviceVars, StepOf, DriverInv
<1>3. PICK now \in {"call", "ok", "failed"} :
        /\ leg' = [leg EXCEPT ![t][s] = now]
        /\ leg[t][s] \in {"todo", "call"}
        /\ now = "call" => row' = [row EXCEPT ![o][st] = IF @ = "SUCCEEDED" THEN @ ELSE "RUNNING"]
        /\ now = "ok" => row' = [row EXCEPT ![o][st] = "SUCCEEDED"] /\ st \in record[o]
  BY DEF SendStep, StepSucceeds, StepFails, StepRejects, SetLeg, Answerable, MarkStepRunning, MarkStepResult
<1>4. \E result : row' = row \/ row' = [row EXCEPT ![o][st] = result]
  BY DEF SendStep, StepSucceeds, StepFails, StepRejects, MarkStepRunning, MarkStepResult
<1>5. posted' = posted \/ posted' = [posted EXCEPT ![o] = @ \cup {st}]
  BY DEF SendStep, StepSucceeds, StepFails, StepRejects, Post, serviceVars
<1> HIDE DEF o, st
<1>6. /\ \A p \in Order : p # o => row'[p] = row[p] /\ posted'[p] = posted[p]
      /\ \A x \in Step : x # st => row'[o][x] = row[o][x] /\ (x \in posted'[o] <=> x \in posted[o])
  BY <1>1, <1>4, <1>5
<1>7. /\ \A u \in Task : u # t => leg'[u] = leg[u]
      /\ \A u \in Service : u # s => leg'[t][u] = leg[t][u]
      /\ leg'[t][s] = now
  BY <1>1, <1>3
<1>8. \A u \in Service : u # s \/ pc[t] = "undo" =>
        (u \in SucceededForward(o)' <=> u \in SucceededForward(o))
  BY <1>2, <1>6, StepFacts DEF SucceededForward
<1>9. LegOf(t)'
  <2>1. now = "ok" => st \in record'[o] /\ row'[o][st] = "SUCCEEDED"
    BY <1>1, <1>2, <1>3
  <2>2. now = "ok" /\ pc[t] = "forward" => s \in SucceededForward(o)'
    BY <2>1, <1>2 DEF SucceededForward
  <2>3. now = "call" => (s \in SucceededForward(o)' <=> s \in SucceededForward(o))
    BY <1>1, <1>3, <1>6, StepFacts DEF SucceededForward
  <2>4. LegOf(t)
    BY DEF ProgressInv
  <2> QED
    BY <1>2, <1>3, <1>7, <1>8, <2>1, <2>2, <2>3, <2>4 DEF LegOf, o
<1>10. SettledOf(o)'
  <2>1. CASE pc[t] = "forward"
    <3>1. \A u \in Service : Undo(u) \notin posted'[o]
      BY <1>1, <1>2, <1>6, <2>1, StepFacts DEF ProgressInv, SettledOf, RollingBack
    <3> QED
      BY <1>1, <1>2, <2>1, <3>1, ActiveSettled DEF ProgressInv, ActiveStatus, orderVars
  <2>2. CASE pc[t] = "undo"
    <3>1. s \in SucceededForward(o)
      BY <1>2, <1>3, <2>2 DEF ProgressInv, LegOf, o
    <3>2. \A u \in Service : Undo(u) \in posted'[o] =>
            (Undo(u) \in posted[o] \/ u = s) /\ (u \in SucceededForward(o)' <=> u \in SucceededForward(o))
      BY <1>2, <1>6, <1>8, <2>2, StepFacts
    <3> QED
      BY <1>1, <1>2, <2>2, <3>1, <3>2, ActiveSettled DEF ProgressInv, ActiveStatus, orderVars
  <2> QED
    BY <1>2, <2>1, <2>2
<1> QED
  BY <1>2, <1>6, <1>7, <1>9, <1>10, ProgressOfDriver DEF orderVars, o

(* Every step keeps what the legs of the driver say of rows, records and   *)
(* effects.                                                                *)
LEMMA ProgressNext ==
  TypeOK /\ NoOrphan /\ DriverInv /\ ExecutionInv /\ ProgressInv /\ [Next]_vars => ProgressInv'
<1> SUFFICES ASSUME TypeOK, NoOrphan, DriverInv, ExecutionInv, ProgressInv, [Next]_vars
             PROVE  ProgressInv'
  OBVIOUS
<1>t. /\ pc \in [Task -> PC] /\ leg \in [Task -> [Service -> Leg]]
      /\ status \in [Order -> OrderStatus] /\ row \in [Order -> [Step -> RowStatus \cup {"ABSENT"}]]
  BY DEF TypeOK, StoreTypeOK
<1>1. ASSUME \A o \in Order : /\ SucceededForward(o)' = SucceededForward(o)
                              /\ record[o] \subseteq record'[o] /\ posted'[o] = posted[o],
             \A t \in Task : pc'[t] \in {"forward", "arm", "undo"} =>
                             pc'[t] = pc[t] /\ leg'[t] = leg[t],
             \A o \in Order : \/ status'[o] = status[o]
                              \/ status[o] \notin RollingBack /\ status'[o] = "IN_PROGRESS"
                              \/ status'[o] = "COMPENSATING"
                              \/ status[o] = "PLACED" /\ status'[o] = "SHIPPED"
      PROVE  ProgressInv'
  <2>1. \A t \in Task : LegOf(t)'
    BY <1>1, LegFrame, TaskFacts DEF ProgressInv
  <2>2. ASSUME NEW o \in Order, status[o] = "PLACED", status'[o] = "SHIPPED" PROVE SettledOf(o)'
    BY <1>1, <2>2 DEF ProgressInv, SettledOf, RollingBack
  <2>3. \A o \in Order : SettledOf(o)'
    BY <1>1, <2>2, SettledFrame DEF ProgressInv
  <2> QED
    BY <2>1, <2>3 DEF ProgressInv
<1>2. ASSUME UNCHANGED row PROVE \A o \in Order : SucceededForward(o)' = SucceededForward(o)
  BY <1>2 DEF SucceededForward
<1>3. ASSUME NEW i \in Instance, NEW batch \in SUBSET Order, Claim(i, batch)
      PROVE  ProgressInv'
  <2>1. \A t \in Task : pc'[t] \in {"forward", "arm", "undo"} => pc'[t] = pc[t]
    BY <1>3 DEF Claim
  <2>2. \A o \in Order :
          \/ status'[o] = status[o]
          \/ status[o] \notin RollingBack /\ status'[o] = "IN_PROGRESS"
    <3>1. \A o \in Order : status'[o] =
            IF o \in batch /\ status[o] # "COMPENSATING" THEN "IN_PROGRESS" ELSE status[o]
      BY <1>3 DEF Claim, ClaimRows
    <3>2. \A o \in batch : status[o] \in {"PENDING", "IN_PROGRESS", "COMPENSATING"}
      BY <1>3 DEF Claim, ClaimRows, Claimable, ActiveStatus
    <3> QED
      BY <3>1, <3>2 DEF RollingBack
  <2>3. UNCHANGED <<row, posted, record, leg>>
    BY <1>3 DEF Claim, ClaimRows, serviceVars
  <2> QED
    BY <1>1, <1>2, <2>1, <2>2, <2>3
<1>4. ASSUME NEW t \in Task, StartForward(t) PROVE ProgressInv'
  <2>1. \A o \in Order : SucceededForward(o)' = SucceededForward(o)
    BY <1>4, <1>t, TaskFacts, StepFacts DEF StartForward, InitSteps, SucceededForward
  <2> QED
    BY <1>1, <1>4, <1>t, <2>1 DEF StartForward, Goto, serviceVars, orderVars
<1>5. ASSUME NEW t \in Task, ResumeCompensation(t) \/ SagaAborts(t) PROVE ProgressInv'
  <2>1. UNCHANGED <<row, posted, record, status>>
    BY <1>5 DEF ResumeCompensation, SagaAborts, storeVars, serviceVars
  <2>2. \A u \in Task : pc'[u] \in {"forward", "arm", "undo"} => pc'[u] = pc[u] /\ leg'[u] = leg[u]
    BY <1>5, <1>t DEF ResumeCompensation, SagaAborts, Leave, Goto, Legs
  <2> QED
    BY <1>1, <1>2, <2>1, <2>2
<1>6. ASSUME NEW t \in Task, Plan(t) \/ ReadSucceeded(t) PROVE ProgressInv'
  <2>1. Busy(t) /\ UNCHANGED <<storeVars, serviceVars>>
    BY <1>6 DEF Plan, ReadSucceeded, Busy
  <2>2. /\ \A u \in Task : u # t => pc'[u] = pc[u] /\ leg'[u] = leg[u]
        /\ \/ /\ pc'[t] = "forward"
              /\ \A s \in Service :
                   leg'[t][s] = IF s \in SucceededForward(Ord(t)) THEN "off" ELSE "todo"
           \/ /\ pc'[t] = "arm"
              /\ \A s \in Service :
                   leg'[t][s] = IF s \in SucceededForward(Ord(t)) THEN "todo" ELSE "off"
    BY <1>6, <1>t DEF Plan, ReadSucceeded, Goto, Legs
  <2>3. LegOf(t)'
    BY <2>1, <2>2, <1>2, TaskFacts DEF LegOf, storeVars
  <2>4. SettledOf(Ord(t))'
    BY <2>1, <1>2, TaskFacts, SettledFrame DEF ProgressInv, storeVars, serviceVars
  <2> QED
    BY <2>1, <2>2, <2>3, <2>4, ProgressOfDriver DEF storeVars, serviceVars
<1>7. ASSUME NEW t \in Task, ArmUndo(t) PROVE ProgressInv'
  <2>1. /\ pc[t] = "arm" /\ UNCHANGED <<orderVars, serviceVars, leg>>
        /\ pc' = [pc EXCEPT ![t] = "undo"] /\ Ord(t) \in Order
    BY <1>7, TaskFacts DEF ArmUndo, Goto
  <2>2. /\ \A p \in Order : p # Ord(t) => row'[p] = row[p]
        /\ \A s \in Service : row'[Ord(t)][Do(s)] = row[Ord(t)][Do(s)]
    <3> DEFINE skipped == {Undo(s) : s \in {u \in Service : leg[t][u] = "off"}}
    <3>1. row' = [row EXCEPT ![Ord(t)] = [st \in Step |->
                      IF st \in skipped THEN "SKIPPED"
                      ELSE InitSteps(Ord(t), CompensationSteps)[st]]]
      BY <1>7 DEF ArmUndo
    <3>2. \A s \in Service : Do(s) \in Step /\ Do(s) \notin skipped /\ Do(s) \notin CompensationSteps
      BY StepFacts DEF CompensationSteps
    <3> HIDE DEF skipped
    <3> QED
      BY <1>t, <2>1, <3>1, <3>2 DEF InitSteps
  <2>3. SucceededForward(Ord(t))' = SucceededForward(Ord(t))
    BY <2>2 DEF SucceededForward
  <2>4. LegOf(t)'
    BY <1>t, <2>1, <2>3 DEF ProgressInv, LegOf
  <2>5. SettledOf(Ord(t))'
    BY <2>1, <2>3, SettledFrame DEF ProgressInv, orderVars, serviceVars
  <2> QED
    BY <1>t, <2>1, <2>2, <2>4, <2>5, ProgressOfDriver DEF Busy, orderVars, serviceVars
<1>8. ASSUME NEW t \in Task, Busy(t), NEW new \in OrderStatus, NEW clear \in BOOLEAN,
             SetOrderStatus(Inst(t), Ord(t), new, clear),
             pc'[t] \notin {"forward", "arm", "undo"},
             \A u \in Task : u # t => pc'[u] = pc[u] /\ leg'[u] = leg[u],
             UNCHANGED <<row, serviceVars>>,
             status'[Ord(t)] = new => SettledOf(Ord(t))'
      PROVE  ProgressInv'
  <2>1. status' = [status EXCEPT ![Ord(t)] = new]
    BY <1>8 DEF SetOrderStatus, DriverInv
  <2>2. /\ status'[Ord(t)] = new
        /\ \A p \in Order : p # Ord(t) => status'[p] = status[p]
    BY <1>t, <2>1, TaskFacts
  <2>3. LegOf(t)'
    BY <1>8 DEF LegOf
  <2> QED
    BY <1>8, <2>2, <2>3, ProgressOfDriver DEF serviceVars
<1>9. ASSUME NEW t \in Task, FinishForward(t) PROVE ProgressInv'
  <2>1. pc[t] = "forward" /\ Settled(t) /\ UNCHANGED <<row, serviceVars>>
    BY <1>9 DEF FinishForward
  <2>2. CASE AnyFailed(t)
    <3>1. /\ SetOrderStatus(Inst(t), Ord(t), "COMPENSATING", FALSE)
          /\ Goto(t, "compensate") /\ Legs(t, NoLegs)
      BY <1>9, <2>2 DEF FinishForward
    <3>2. /\ pc'[t] = "compensate"
          /\ \A u \in Task : u # t => pc'[u] = pc[u] /\ leg'[u] = leg[u]
      BY <1>t, <3>1 DEF Goto, Legs
    <3>3. status'[Ord(t)] = "COMPENSATING" => SettledOf(Ord(t))'
      BY <1>2, <2>1, TaskFacts, SettledFrame DEF ProgressInv, serviceVars
    <3> QED
      BY <1>8, <2>1, <3>1, <3>2, <3>3 DEF Busy, OrderStatus
  <2>3. CASE ~AnyFailed(t)
    <3>1. SetOrderStatus(Inst(t), Ord(t), "PLACED", TRUE) /\ Leave(t)
      BY <1>9, <2>3 DEF FinishForward
    <3>2. /\ pc'[t] = "idle"
          /\ \A u \in Task : u # t => pc'[u] = pc[u] /\ leg'[u] = leg[u]
      BY <1>t, <3>1 DEF Leave, Goto, Legs
    <3>3. \A s \in Service : leg[t][s] \in {"off", "ok"}
      BY <1>t, <2>1, <2>3 DEF Settled, AnyFailed, Leg
    <3>4. \A s \in Service : Do(s) \in record[Ord(t)]
      BY <2>1, <3>3, TaskFacts, StepFacts
      DEF ProgressInv, LegOf, SucceededForward, ExecutionInv, SucceededMeansExecuted
    <3>5. \A s \in Service : Undo(s) \notin posted[Ord(t)]
      BY <2>1, TaskFacts DEF DriverInv, Busy, ProgressInv, SettledOf, RollingBack
    <3>6. status'[Ord(t)] = "PLACED" => SettledOf(Ord(t))'
      BY <2>1, <3>4, <3>5 DEF SettledOf, serviceVars
    <3> QED
      BY <1>8, <2>1, <3>1, <3>2, <3>6 DEF Busy, OrderStatus
  <2> QED
    BY <2>2, <2>3
<1>10. ASSUME NEW t \in Task, FinishCompensation(t) PROVE ProgressInv'
  <2>1. pc[t] = "undo" /\ Settled(t) /\ Leave(t) /\ UNCHANGED <<row, serviceVars>>
    BY <1>10 DEF FinishCompensation
  <2>2. /\ pc'[t] = "idle"
        /\ \A u \in Task : u # t => pc'[u] = pc[u] /\ leg'[u] = leg[u]
    BY <1>t, <2>1 DEF Leave, Goto, Legs
  <2>3. CASE AnyFailed(t)
    <3>1. SetOrderStatus(Inst(t), Ord(t), "NEEDS_ATTENTION", TRUE)
      BY <1>10, <2>3 DEF FinishCompensation
    <3>2. status'[Ord(t)] = "NEEDS_ATTENTION" => SettledOf(Ord(t))'
      BY <1>2, <2>1, TaskFacts, SettledFrame DEF ProgressInv, serviceVars
    <3> QED
      BY <1>8, <2>1, <2>2, <3>1, <3>2 DEF Busy, OrderStatus
  <2>4. CASE ~AnyFailed(t)
    <3>1. SetOrderStatus(Inst(t), Ord(t), "CANCELLED", TRUE)
      BY <1>10, <2>4 DEF FinishCompensation
    <3>2. \A s \in Service : leg[t][s] \in {"off", "ok"}
      BY <1>t, <2>1, <2>4 DEF Settled, AnyFailed, Leg
    <3>3. \A s \in SucceededForward(Ord(t)) : Undo(s) \in record[Ord(t)]
      BY <2>1, <3>2, TaskFacts DEF ProgressInv, LegOf, SucceededForward
    <3>4. status'[Ord(t)] = "CANCELLED" => SettledOf(Ord(t))'
      BY <1>2, <2>1, <3>3, TaskFacts DEF ProgressInv, SettledOf, RollingBack, serviceVars
    <3> QED
      BY <1>8, <2>1, <2>2, <3>1, <3>4 DEF Busy, OrderStatus
  <2> QED
    BY <2>3, <2>4
<1>11. ASSUME NEW t \in Task, Heartbeat(t) PROVE ProgressInv'
  BY <1>11 DEF Heartbeat, Started, Busy, DriverInv
<1>12. ASSUME NEW i \in Instance, NEW o \in Order, Retry(i, o) PROVE ProgressInv'
  <2>1. UNCHANGED <<row, posted, record, leg>>
        /\ \A t \in Task : pc'[t] \in {"forward", "arm", "undo"} => pc'[t] = pc[t]
    BY <1>12, <1>t DEF Retry, ClaimForRetry, Goto, serviceVars
  <2>2. \A p \in Order : status'[p] = status[p] \/ status'[p] = "COMPENSATING"
    BY <1>12, <1>t DEF Retry, ClaimForRetry
  <2> QED
    BY <1>1, <1>2, <2>1, <2>2
<1>13. ASSUME NEW o \in Order, Ship(o) PROVE ProgressInv'
  <2>1. UNCHANGED <<row, posted, record, leg, pc>>
    BY <1>13 DEF Ship, MarkShipped, serviceVars, taskVars
  <2>2. \A p \in Order : \/ status'[p] = status[p]
                         \/ status[p] = "PLACED" /\ status'[p] = "SHIPPED"
    <3>1. status[o] = "PLACED" /\ status' = [status EXCEPT ![o] = "SHIPPED"]
      BY <1>13 DEF Ship, MarkShipped
    <3> QED
      BY <1>t, <3>1
  <2> QED
    BY <1>1, <1>2, <2>1, <2>2
<1>14. ASSUME NEW o \in Order, Lapse(o) PROVE ProgressInv'
  BY <1>1, <1>2, <1>14 DEF Lapse, LeaseLapses, serviceVars, taskVars
<1>15. ASSUME NEW o \in Order, NEW s \in Service, ServiceExecutes(o, s) PROVE ProgressInv'
  <2>1. /\ UNCHANGED <<row, posted, status, pc, leg>>
        /\ \E st : record' = [record EXCEPT ![o] = @ \cup {st}]
    BY <1>15 DEF ServiceExecutes, ExecuteDo, ExecuteUndo, Executes, storeVars, taskVars
  <2>2. \A p \in Order : record[p] \subseteq record'[p]
    BY <2>1 DEF TypeOK, ServiceTypeOK
  <2> QED
    BY <1>1, <1>2, <2>1, <2>2
<1>16. ASSUME NEW i \in Instance, Crash(i) PROVE ProgressInv'
  <2>1. /\ UNCHANGED <<row, posted, record, status>>
        /\ \A t \in Task : pc'[t] \in {"forward", "arm", "undo"} => pc'[t] = pc[t] /\ leg'[t] = leg[t]
    BY <1>16 DEF Crash, storeVars, serviceVars
  <2> QED
    BY <1>1, <1>2, <2>1
<1>17. CASE UNCHANGED vars
  BY <1>1, <1>2, <1>17 DEF vars, storeVars, serviceVars, taskVars
<1> QED
  BY <1>3, <1>4, <1>5, <1>6, <1>7, <1>9, <1>10, <1>11, <1>12, <1>13, <1>14, <1>15, <1>16, <1>17,
     ProgressLegs DEF Next, Progress

(* What a driver knows of its order, and what a settled order has, is      *)
(* true.                                                                   *)
THEOREM ProgressHolds == ASSUME Slow = {} PROVE Spec => []ProgressInv
BY TypeCorrect, NoOrphanHolds, DriverHolds, ExecutionHolds, ProgressInit, ProgressNext, PTL DEF Spec

(* A placed or shipped order has all its effects, for good.                *)
THEOREM PlacedMeansDoneHolds == ASSUME Slow = {} PROVE Spec => []PlacedMeansDone
<1>1. ExecutionInv /\ ProgressInv => PlacedMeansDone
  BY DEF ExecutionInv, EffectOfRecord, ProgressInv, SettledOf, RollingBack, PlacedMeansDone
<1> QED
  BY <1>1, ExecutionHolds, ProgressHolds, PTL

(* A cancelled order has undone all that its rows say succeeded.           *)
THEOREM CancelledMeansKnownUndoneHolds ==
  ASSUME Slow = {} PROVE Spec => []CancelledMeansKnownUndone
<1>1. ExecutionInv /\ ProgressInv => CancelledMeansKnownUndone
  BY DEF ExecutionInv, EffectOfRecord, ProgressInv, SettledOf, SucceededForward,
         CancelledMeansKnownUndone
<1> QED
  BY <1>1, ExecutionHolds, ProgressHolds, PTL

-----------------------------------------------------------------------------
(* Who changes rows, and with what phase.                                  *)
LEMMA RowsByDriver ==
  ASSUME TypeOK, [Next]_vars, NEW o \in Order, row'[o] # row[o]
  PROVE  \E t \in Task : /\ Ord(t) = o /\ Busy(t)
                         /\ pc[t] \notin Forwarding => \A s \in Service : row'[o][Do(s)] = row[o][Do(s)]
<1>t. row \in [Order -> [Step -> RowStatus \cup {"ABSENT"}]]
  BY DEF TypeOK, StoreTypeOK
<1>1. ASSUME NEW t \in Task, StartForward(t)
      PROVE  Ord(t) = o /\ Busy(t) /\ pc[t] \in Forwarding
  BY <1>1, <1>t, TaskFacts DEF StartForward, Busy, Forwarding
<1>2. ASSUME NEW t \in Task, ArmUndo(t)
      PROVE  Ord(t) = o /\ Busy(t) /\ \A s \in Service : row'[o][Do(s)] = row[o][Do(s)]
  <2> DEFINE skipped == {Undo(s) : s \in {u \in Service : leg[t][u] = "off"}}
  <2>1. row' = [row EXCEPT ![Ord(t)] = [st \in Step |->
                    IF st \in skipped THEN "SKIPPED"
                    ELSE InitSteps(Ord(t), CompensationSteps)[st]]]
    BY <1>2 DEF ArmUndo
  <2>2. \A s \in Service : Do(s) \in Step /\ Do(s) \notin skipped /\ Do(s) \notin CompensationSteps
    BY StepFacts DEF CompensationSteps
  <2>3. pc[t] = "arm"
    BY <1>2 DEF ArmUndo
  <2> HIDE DEF skipped
  <2> QED
    BY <1>t, <2>1, <2>2, <2>3, TaskFacts DEF InitSteps, Busy
<1>3. ASSUME NEW t \in Task, NEW s \in Service,
             SendStep(t, s) \/ StepSucceeds(t, s) \/ StepFails(t, s) \/ StepRejects(t, s)
      PROVE  /\ Ord(t) = o /\ Busy(t)
             /\ pc[t] \notin Forwarding => \A u \in Service : row'[o][Do(u)] = row[o][Do(u)]
  <2>1. Busy(t) /\ Ord(t) \in Order /\ StepOf(t, s) \in Step
    BY <1>3, TaskFacts, StepOfType DEF SendStep, StepSucceeds, StepFails, StepRejects, Running, Busy
  <2>2. \E result : row' = row \/ row' = [row EXCEPT ![Ord(t)][StepOf(t, s)] = result]
    BY <1>3 DEF SendStep, StepSucceeds, StepFails, StepRejects, MarkStepRunning, MarkStepResult
  <2>3. pc[t] \notin Forwarding => \A u \in Service : Do(u) # StepOf(t, s)
    BY StepFacts DEF StepOf, Forwarding
  <2> QED
    BY <1>t, <2>1, <2>2, <2>3, StepFacts
<1>4. ASSUME UNCHANGED row PROVE FALSE
  BY <1>4
<1>5. ASSUME NEW i \in Instance, NEW batch \in SUBSET Order, Claim(i, batch) PROVE FALSE
  BY <1>4, <1>5 DEF Claim, ClaimRows
<1>6. ASSUME NEW t \in Task,
             \/ ResumeCompensation(t) \/ Plan(t) \/ FinishForward(t) \/ ReadSucceeded(t)
             \/ FinishCompensation(t) \/ SagaAborts(t) \/ Heartbeat(t)
      PROVE  FALSE
  BY <1>4, <1>6 DEF ResumeCompensation, Plan, FinishForward, ReadSucceeded, FinishCompensation,
                    SagaAborts, Heartbeat, RenewLease, storeVars
<1>7. ASSUME NEW i \in Instance, NEW p \in Order, Retry(i, p) PROVE FALSE
  BY <1>4, <1>7 DEF Retry, ClaimForRetry
<1>8. ASSUME NEW p \in Order, Ship(p) \/ Lapse(p) PROVE FALSE
  BY <1>4, <1>8 DEF Ship, MarkShipped, Lapse, LeaseLapses
<1>9. ASSUME NEW p \in Order, NEW s \in Service, ServiceExecutes(p, s) PROVE FALSE
  BY <1>4, <1>9 DEF ServiceExecutes, storeVars
<1>10. ASSUME NEW i \in Instance, Crash(i) PROVE FALSE
  BY <1>4, <1>10 DEF Crash, storeVars
<1>11. CASE UNCHANGED vars
  BY <1>4, <1>11 DEF vars, storeVars
<1> QED
  BY <1>1, <1>2, <1>3, <1>5, <1>6, <1>7, <1>8, <1>9, <1>10, <1>11 DEF Next, Progress

(* Nobody writes the rows of an order without a lease.                     *)
THEOREM UnleasedRowsFrozenHolds == ASSUME Slow = {} PROVE Spec => UnleasedRowsFrozen
<1>1. TypeOK /\ DriverInv /\ [Next]_vars
        => [\A o \in Order : leaseOwner[o] = Nobody => row'[o] = row[o]]_vars
  <2> SUFFICES ASSUME TypeOK, DriverInv, [Next]_vars, NEW o \in Order, leaseOwner[o] = Nobody
               PROVE  row'[o] = row[o]
    OBVIOUS
  <2> QED
    BY RowsByDriver, TaskFacts, NobodyAssumption DEF DriverInv
<1> QED
  BY <1>1, TypeCorrect, DriverHolds, PTL DEF Spec, UnleasedRowsFrozen
=============================================================================
