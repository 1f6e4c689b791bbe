-------------------------- MODULE LifecycleProofs --------------------------
(***************************************************************************)
(* With prompt coordinators (Slow = {}) the engine implements              *)
(* OrderLifecycle, and an order that began to roll back never turns back.  *)
(* If nothing fails but what the CSV's flags inject (Faulty = FALSE), its  *)
(* orders end as those flags say.  All of it follows from the invariants   *)
(* of PromptProofs, action by action.                                      *)
(***************************************************************************)
EXTENDS PromptProofs

Known == [o \in Order |-> SucceededForward(o)]

(* The invariants in use, together.                                        *)
Inv == TypeOK /\ NoOrphan /\ DriverInv /\ ExecutionInv /\ ProgressInv

(* All that is known of prompt coordinators, in one invariant.             *)
LEMMA InvHolds == ASSUME Slow = {} PROVE Spec => []Inv
BY TypeCorrect, NoOrphanHolds, DriverHolds, ExecutionHolds, ProgressHolds, PTL DEF Inv

(* The types the leaves below use.                                         *)
LEMMA TypeFacts ==
  ASSUME TypeOK
  PROVE  /\ pc \in [Task -> PC] /\ leg \in [Task -> [Service -> Leg]]
         /\ status \in [Order -> OrderStatus] /\ lease \in [Order -> LeaseState]
         /\ row \in [Order -> [Step -> RowStatus \cup {"ABSENT"}]]
         /\ posted \in [Order -> SUBSET Step] /\ record \in [Order -> SUBSET Step]
         /\ effect \in [Order -> [Service -> Effect]]
BY DEF TypeOK, StoreTypeOK, ServiceTypeOK

(* The rows that SUCCEEDED going forward change in executeStep's forward   *)
(* branches only.                                                          *)
LEMMA KnownUnchanged ==
  ASSUME UNCHANGED row PROVE UNCHANGED Known
BY DEF Known, SucceededForward

(* A fenced write by the owner sets the status of its order and of no      *)
(* other.                                                                  *)
LEMMA SetOrderStatusMoves ==
  ASSUME Inv, NEW t \in Task, Busy(t), NEW new, NEW clear, SetOrderStatus(Inst(t), Ord(t), new, clear)
  PROVE  status' = [status EXCEPT ![Ord(t)] = new]
BY DEF Inv, DriverInv, SetOrderStatus

-----------------------------------------------------------------------------
(* Step simulation.                                                        *)
LEMMA StepLearns ==
  ASSUME Inv, NEW t \in Task, NEW s \in Service,
         SendStep(t, s) \/ StepSucceeds(t, s) \/ StepFails(t, s) \/ StepRejects(t, s)
  PROVE  \/ UNCHANGED <<status, effect, Known>>
         \/ Lifecycle!Learn(Ord(t), s)
<1> DEFINE o == Ord(t)  st == StepOf(t, s)
<1>1. /\ o \in Order /\ st \in Step /\ row \in [Order -> [Step -> RowStatus \cup {"ABSENT"}]]
  BY TaskFacts, StepOfType, TypeFacts DEF Inv
<1>2. /\ pc[t] \in {"forward", "undo"} /\ Busy(t) /\ UNCHANGED <<status, effect>>
      /\ pc[t] = "forward" => st = Do(s) /\ status[o] = "IN_PROGRESS"
      /\ pc[t] = "undo" => st = Undo(s)
      /\ leg[t][s] \in {"todo", "call"}
  BY DEF SendStep, StepSucceeds, StepFails, StepRejects, Running, Busy, serviceVars, orderVars,
         StepOf, Inv, DriverInv, Answerable
<1>3. PICK result :
        /\ row' = row \/ row' = [row EXCEPT ![o][st] = result]
        /\ result = "SUCCEEDED" => st \in record[o] \/ row[o][st] = "SUCCEEDED"
  BY DEF SendStep, StepSucceeds, StepFails, StepRejects, MarkStepRunning, MarkStepResult, Answerable
<1> HIDE DEF o, st
<1>4. \A p \in Order, u \in Service : p # o \/ Do(u) # st =>
        (u \in SucceededForward(p)' <=> u \in SucceededForward(p))
  BY <1>1, <1>3, StepFacts DEF SucceededForward
<1>5. \A p \in Order : p # o => SucceededForward(p)' = SucceededForward(p)
  BY <1>4 DEF SucceededForward
<1>6. CASE SucceededForward(o)' = SucceededForward(o)
  BY <1>2, <1>5, <1>6 DEF Known
<1>7. CASE SucceededForward(o)' # SucceededForward(o)
  <2>1. /\ pc[t] = "forward" /\ st = Do(s)
    <3>1. \E u \in Service : Do(u) = st
      BY <1>4, <1>7, <1>1 DEF SucceededForward
    <3> QED
      BY <3>1, <1>2, StepFacts
  <2>2. s \notin SucceededForward(o)
    BY <1>2, <2>1 DEF Inv, ProgressInv, LegOf, o
  <2>3. SucceededForward(o)' = SucceededForward(o) \cup {s}
    <3>1. \A u \in Service : u # s => (u \in SucceededForward(o)' <=> u \in SucceededForward(o))
      BY <1>1, <1>4, <2>1, StepFacts
    <3>2. s \in SucceededForward(o)'
      BY <1>7, <2>2, <3>1 DEF SucceededForward
    <3> QED
      BY <3>1, <3>2 DEF SucceededForward
  <2>4. Do(s) \in record[o]
    <3>1. row'[o][st] = "SUCCEEDED" /\ row[o][st] # "SUCCEEDED"
      BY <2>1, <2>2, <2>3 DEF SucceededForward
    <3> QED
      BY <1>1, <1>3, <2>1, <3>1
  <2>5. effect[o][s] = "live"
    <3>1. Undo(s) \notin record[o]
      BY <1>1, <1>2, <2>1 DEF Inv, ProgressInv, SettledOf, RollingBack, ExecutionInv
    <3> QED
      BY <1>1, <2>4, <3>1 DEF Inv, ExecutionInv, EffectOfRecord
  <2>6. Known' = [Known EXCEPT ![o] = @ \cup {s}]
    BY <1>1, <1>5, <2>3 DEF Known
  <2> QED
    BY <1>2, <2>1, <2>5, <2>6 DEF Lifecycle!Learn, Known, o
<1> QED
  BY <1>6, <1>7

(* A service executing a step changes one effect of one order, or none.    *)
LEMMA ServiceMoves ==
  ASSUME Inv, NEW o \in Order, NEW s \in Service, ServiceExecutes(o, s)
  PROVE  Lifecycle!Happen(o, s) \/ Lifecycle!Reverse(o, s)
<1>1. UNCHANGED <<status, Known>> /\ effect \in [Order -> [Service -> Effect]]
  BY KnownUnchanged, TypeFacts DEF ServiceExecutes, storeVars, Inv
<1>2. CASE ExecuteDo(o, s)
  <2>1. Do(s) \in posted[o] \ record[o] /\ effect' = [effect EXCEPT ![o][s] = "live"]
    BY <1>2 DEF ExecuteDo, Executes
  <2>2. status[o] \notin {"PENDING", "PLACED", "SHIPPED"}
    BY <2>1 DEF Inv, ProgressInv, SettledOf
  <2>3. effect[o][s] = "none"
    BY <2>1 DEF Inv, ExecutionInv, EffectOfRecord
  <2> QED
    BY <1>1, <2>1, <2>2, <2>3 DEF Lifecycle!Happen, Known
<1>3. CASE ExecuteUndo(o, s)
  <2>1. /\ Undo(s) \in posted[o] \ record[o]
        /\ effect' = [effect EXCEPT ![o][s] = UndoEffect(@)]
    BY <1>3 DEF ExecuteUndo, Executes
  <2>2. s \in SucceededForward(o) /\ status[o] \in {"COMPENSATING", "NEEDS_ATTENTION"}
    BY <2>1 DEF Inv, ProgressInv, SettledOf, RollingBack
  <2>3. effect[o][s] = "live"
    BY <2>1 DEF Inv, ExecutionInv, EffectOfRecord
  <2>4. effect' = [effect EXCEPT ![o][s] = "undone"]
    BY <1>1, <2>1, <2>3 DEF UndoEffect
  <2> QED
    BY <1>1, <2>2, <2>3, <2>4 DEF Lifecycle!Reverse, Known
<1> QED
  BY <1>2, <1>3 DEF ServiceExecutes

(* Every step of the engine is a step of the life cycle, or none.          *)
LEMMA StepSimulation == Inv /\ [Next]_vars => [Lifecycle!Next]_(Lifecycle!vars)
<1> SUFFICES ASSUME Inv, [Next]_vars PROVE Lifecycle!Next \/ UNCHANGED <<status, effect, Known>>
  BY DEF Lifecycle!vars, Known
<1>t. /\ pc \in [Task -> PC] /\ leg \in [Task -> [Service -> Leg]]
      /\ status \in [Order -> OrderStatus] /\ row \in [Order -> [Step -> RowStatus \cup {"ABSENT"}]]
  BY TypeFacts DEF Inv
<1>1. ASSUME NEW i \in Instance, NEW batch \in SUBSET Order, Claim(i, batch)
      PROVE  Lifecycle!Next
  <2> DEFINE fresh == {o \in batch : status[o] = "PENDING"}
  <2>1. /\ \A o \in batch : status[o] \in {"PENDING", "IN_PROGRESS", "COMPENSATING"}
        /\ status' = [o \in Order |->
             IF o \in batch /\ status[o] # "COMPENSATING" THEN "IN_PROGRESS" ELSE status[o]]
        /\ UNCHANGED <<row, effect>>
    BY <1>1 DEF Claim, ClaimRows, Claimable, ActiveStatus, serviceVars
  <2>2. status' = [o \in Order |-> IF o \in fresh THEN "IN_PROGRESS" ELSE status[o]]
    BY <2>1
  <2>3. Lifecycle!Begin(fresh)
    BY <2>1, <2>2, KnownUnchanged DEF Lifecycle!Begin, Known
  <2> QED
    BY <2>3 DEF Lifecycle!Next
<1>2. ASSUME NEW t \in Task, StartForward(t) \/ ArmUndo(t) PROVE UNCHANGED <<status, effect, Known>>
  <2>1. UNCHANGED <<status, effect>>
    BY <1>2 DEF StartForward, ArmUndo, orderVars, serviceVars
  <2>2. \A o \in Order, s \in Service :
          row'[o][Do(s)] = "SUCCEEDED" <=> row[o][Do(s)] = "SUCCEEDED"
    <3>1. CASE StartForward(t)
      BY <1>t, <3>1, TaskFacts, StepFacts DEF StartForward, InitSteps
    <3>2. CASE ArmUndo(t)
      <4>1. \A o \in Order : pc[t] \notin Forwarding
        BY <3>2 DEF ArmUndo, Forwarding
      <4>2. \A u \in Task : Busy(u) /\ Ord(u) = Ord(t) => u = t
        BY <4>1, <3>2 DEF ArmUndo, Inv, DriverInv, OneDriver, Busy
      <4>3. \A o \in Order : o # Ord(t) => row'[o] = row[o]
        BY <1>t, <3>2 DEF ArmUndo
      <4>4. Ord(t) \in Order /\ Inv /\ [Next]_vars
        BY TaskFacts
      <4>5. \A s \in Service : row'[Ord(t)][Do(s)] = row[Ord(t)][Do(s)]
        BY <3>2, <4>2, <4>4, RowsByDriver DEF Inv, ArmUndo, Forwarding
      <4> QED
        BY <4>3, <4>5
    <3> QED
      BY <1>2, <3>1, <3>2
  <2> QED
    BY <2>1, <2>2 DEF Known, SucceededForward
<1>3. ASSUME NEW t \in Task,
             \/ ResumeCompensation(t) \/ Plan(t) \/ ReadSucceeded(t) \/ SagaAborts(t) \/ Heartbeat(t)
      PROVE  UNCHANGED <<status, effect, Known>>
  BY <1>3, KnownUnchanged DEF ResumeCompensation, Plan, ReadSucceeded, SagaAborts, Heartbeat,
                              RenewLease, storeVars, serviceVars
<1>4. ASSUME NEW t \in Task, NEW s \in Service,
             SendStep(t, s) \/ StepSucceeds(t, s) \/ StepFails(t, s) \/ StepRejects(t, s)
      PROVE  Lifecycle!Next \/ UNCHANGED <<status, effect, Known>>
  BY <1>4, StepLearns, TaskFacts DEF Lifecycle!Next
<1>5. ASSUME NEW t \in Task, FinishForward(t) PROVE Lifecycle!Next
  <2>1. /\ pc[t] = "forward" /\ Busy(t) /\ Settled(t) /\ UNCHANGED <<row, effect>>
        /\ Ord(t) \in Order /\ status[Ord(t)] = "IN_PROGRESS"
    BY <1>5, TaskFacts DEF FinishForward, serviceVars, Busy, Inv, DriverInv
  <2>2. CASE AnyFailed(t)
    <3>1. status' = [status EXCEPT ![Ord(t)] = "COMPENSATING"]
      BY <1>5, <2>1, <2>2, SetOrderStatusMoves DEF FinishForward
    <3>2. Lifecycle!RollBack(Ord(t))
      BY <2>1, <3>1, KnownUnchanged DEF Lifecycle!RollBack, Lifecycle!Move, Known
    <3> QED
      BY <2>1, <3>2 DEF Lifecycle!Next
  <2>3. CASE ~AnyFailed(t)
    <3>1. status' = [status EXCEPT ![Ord(t)] = "PLACED"]
      BY <1>5, <2>1, <2>3, SetOrderStatusMoves DEF FinishForward
    <3>2. \A s \in Service : leg[t][s] \in {"off", "ok"}
      BY <1>t, <2>1, <2>3 DEF Settled, AnyFailed, Leg
    <3>3. Known[Ord(t)] = Service
      BY <2>1, <3>2 DEF Inv, ProgressInv, LegOf, Known, SucceededForward
    <3>4. Lifecycle!Place(Ord(t))
      BY <2>1, <3>1, <3>3, KnownUnchanged DEF Lifecycle!Place, Lifecycle!Move, Known
    <3> QED
      BY <2>1, <3>4 DEF Lifecycle!Next
  <2> QED
    BY <2>2, <2>3
<1>6. ASSUME NEW t \in Task, FinishCompensation(t) PROVE Lifecycle!Next
  <2>1. /\ pc[t] = "undo" /\ Busy(t) /\ Settled(t) /\ UNCHANGED <<row, effect>>
        /\ Ord(t) \in Order /\ status[Ord(t)] = "COMPENSATING"
    BY <1>6, TaskFacts DEF FinishCompensation, serviceVars, Busy, Inv, DriverInv
  <2>2. CASE AnyFailed(t)
    <3>1. status' = [status EXCEPT ![Ord(t)] = "NEEDS_ATTENTION"]
      BY <1>6, <2>1, <2>2, SetOrderStatusMoves DEF FinishCompensation
    <3>2. Lifecycle!Flag(Ord(t))
      BY <2>1, <3>1, KnownUnchanged DEF Lifecycle!Flag, Lifecycle!Move, Known
    <3> QED
      BY <2>1, <3>2 DEF Lifecycle!Next
  <2>3. CASE ~AnyFailed(t)
    <3>1. status' = [status EXCEPT ![Ord(t)] = "CANCELLED"]
      BY <1>6, <2>1, <2>3, SetOrderStatusMoves DEF FinishCompensation
    <3>2. \A s \in Service : leg[t][s] \in {"off", "ok"}
      BY <1>t, <2>1, <2>3 DEF Settled, AnyFailed, Leg
    <3>3. \A s \in SucceededForward(Ord(t)) : Undo(s) \in record[Ord(t)]
      BY <2>1, <3>2 DEF Inv, ProgressInv, LegOf, SucceededForward
    <3>4. \A s \in Known[Ord(t)] : effect[Ord(t)][s] = "undone"
      BY <2>1, <3>3 DEF Inv, ExecutionInv, EffectOfRecord, Known, SucceededForward
    <3>5. Lifecycle!Cancel(Ord(t))
      BY <2>1, <3>1, <3>4, KnownUnchanged DEF Lifecycle!Cancel, Lifecycle!Move, Known
    <3> QED
      BY <2>1, <3>5 DEF Lifecycle!Next
  <2> QED
    BY <2>2, <2>3
<1>7. ASSUME NEW i \in Instance, NEW o \in Order, Retry(i, o) PROVE Lifecycle!Next
  <2>1. Lifecycle!Retry(o)
    BY <1>7, KnownUnchanged DEF Retry, ClaimForRetry, serviceVars, Lifecycle!Retry, Lifecycle!Move, Known
  <2> QED
    BY <2>1 DEF Lifecycle!Next
<1>8. ASSUME NEW o \in Order, Ship(o) PROVE Lifecycle!Next
  <2>1. Lifecycle!Ship(o)
    BY <1>8, KnownUnchanged DEF Ship, MarkShipped, serviceVars, Lifecycle!Ship, Lifecycle!Move, Known
  <2> QED
    BY <2>1 DEF Lifecycle!Next
<1>9. ASSUME NEW o \in Order, Lapse(o) PROVE UNCHANGED <<status, effect, Known>>
  BY <1>9, KnownUnchanged DEF Lapse, LeaseLapses, serviceVars
<1>10. ASSUME NEW o \in Order, NEW s \in Service, ServiceExecutes(o, s) PROVE Lifecycle!Next
  BY <1>10, ServiceMoves DEF Lifecycle!Next
<1>11. ASSUME NEW i \in Instance, Crash(i) PROVE UNCHANGED <<status, effect, Known>>
  BY <1>11, KnownUnchanged DEF Crash, storeVars, serviceVars
<1>12. CASE UNCHANGED vars
  BY <1>12, KnownUnchanged DEF vars, storeVars, serviceVars
<1> QED
  BY <1>1, <1>2, <1>3, <1>4, <1>5, <1>6, <1>7, <1>8, <1>9, <1>10, <1>11, <1>12 DEF Next, Progress

(* The engine implements the life cycle.                                   *)
THEOREM Refinement == ASSUME Slow = {} PROVE Spec => Implements
<1>1. Init => Lifecycle!Init
  BY StepFacts DEF Init, StoreInit, ServiceInit, Lifecycle!Init, SucceededForward
<1> QED
  BY <1>1, InvHolds, StepSimulation, PTL DEF Spec, Implements, Lifecycle!Spec

-----------------------------------------------------------------------------
(* No turning back: for the status and what is known the life cycle itself *)
(* says so; requests are the engine's.                                     *)
LEMMA LifecycleOnward ==
  ASSUME TypeOK, Lifecycle!Next, NEW o \in Order, status[o] \in RollingBack
  PROVE  status'[o] \in RollingBack /\ SucceededForward(o)' = SucceededForward(o)
<1>t. status \in [Order -> OrderStatus] /\ Known \in [Order -> SUBSET Service]
  BY TypeFacts DEF Known, SucceededForward
<1>1. ASSUME UNCHANGED Known PROVE SucceededForward(o)' = SucceededForward(o)
  <2>1. Known'[o] = SucceededForward(o)' /\ Known[o] = SucceededForward(o)
    BY DEF Known
  <2> QED
    BY <1>1, <2>1
<1>2. ASSUME NEW batch \in SUBSET Order, Lifecycle!Begin(batch)
      PROVE  status'[o] \in RollingBack /\ SucceededForward(o)' = SucceededForward(o)
  <2>1. UNCHANGED Known /\ status'[o] = status[o]
    BY <1>2 DEF Lifecycle!Begin, Known, RollingBack
  <2> QED
    BY <1>1, <2>1
<1>3. ASSUME NEW p \in Order, NEW from, NEW to \in RollingBack \cup {"PLACED", "SHIPPED"},
             Lifecycle!Move(p, from, to), from \in RollingBack => to \in RollingBack
      PROVE  status'[o] \in RollingBack /\ SucceededForward(o)' = SucceededForward(o)
  <2>1. /\ UNCHANGED Known /\ status[p] = from
        /\ status' = [status EXCEPT ![p] = to]
    BY <1>3 DEF Lifecycle!Move, Known
  <2>2. status'[o] \in RollingBack
    BY <1>t, <1>3, <2>1
  <2> QED
    BY <1>1, <2>1, <2>2
<1>4. ASSUME NEW p \in Order,
             \/ Lifecycle!Place(p) \/ Lifecycle!RollBack(p) \/ Lifecycle!Cancel(p)
             \/ Lifecycle!Flag(p) \/ Lifecycle!Retry(p) \/ Lifecycle!Ship(p)
      PROVE  status'[o] \in RollingBack /\ SucceededForward(o)' = SucceededForward(o)
  BY <1>3, <1>4 DEF Lifecycle!Place, Lifecycle!RollBack, Lifecycle!Cancel, Lifecycle!Flag,
                    Lifecycle!Retry, Lifecycle!Ship, RollingBack
<1>5. ASSUME NEW p \in Order, NEW s \in Service, Lifecycle!Happen(p, s) \/ Lifecycle!Reverse(p, s)
      PROVE  status'[o] \in RollingBack /\ SucceededForward(o)' = SucceededForward(o)
  <2>1. UNCHANGED <<status, Known>>
    BY <1>5 DEF Lifecycle!Happen, Lifecycle!Reverse, Known
  <2> QED
    BY <1>1, <2>1
<1>6. ASSUME NEW p \in Order, NEW s \in Service, Lifecycle!Learn(p, s)
      PROVE  status'[o] \in RollingBack /\ SucceededForward(o)' = SucceededForward(o)
  <2>1. /\ status[p] = "IN_PROGRESS" /\ UNCHANGED status
        /\ Known' = [Known EXCEPT ![p] = @ \cup {s}]
    BY <1>6 DEF Lifecycle!Learn, Known
  <2>2. p # o
    BY <2>1 DEF RollingBack
  <2>3. Known'[o] = Known[o]
    BY <1>t, <2>1, <2>2
  <2>4. Known'[o] = SucceededForward(o)' /\ Known[o] = SucceededForward(o)
    BY DEF Known
  <2> QED
    BY <2>1, <2>3, <2>4
<1> QED
  BY <1>2, <1>4, <1>5, <1>6 DEF Lifecycle!Next

(* Requests are sent by executeStep only.                                  *)
LEMMA RequestsBySend ==
  ASSUME [Next]_vars
  PROVE  UNCHANGED posted \/ \E t \in Task, s \in Service : SendStep(t, s)
<1>3. ASSUME NEW t \in Task, Progress(t) \/ SagaAborts(t) \/ Heartbeat(t)
      PROVE  UNCHANGED posted \/ \E s \in Service : SendStep(t, s)
  BY <1>3 DEF Progress, StartForward, ResumeCompensation, Plan, FinishForward, ReadSucceeded, ArmUndo,
     FinishCompensation, StepSucceeds, StepFails, StepRejects, SagaAborts, Heartbeat, serviceVars
<1>4. ASSUME NEW i \in Instance, NEW batch \in SUBSET Order, Claim(i, batch) PROVE UNCHANGED posted
  BY <1>4 DEF Claim, serviceVars
<1>5. ASSUME NEW i \in Instance, NEW p \in Order, Retry(i, p) PROVE UNCHANGED posted
  BY <1>5 DEF Retry, serviceVars
<1>6. ASSUME NEW p \in Order, Ship(p) \/ Lapse(p) PROVE UNCHANGED posted
  BY <1>6 DEF Ship, Lapse, serviceVars
<1>7. ASSUME NEW p \in Order, NEW s \in Service, ServiceExecutes(p, s) PROVE UNCHANGED posted
  BY <1>7 DEF ServiceExecutes, ExecuteDo, ExecuteUndo, Executes
<1>8. ASSUME NEW i \in Instance, Crash(i) PROVE UNCHANGED posted
  BY <1>8 DEF Crash, serviceVars
<1>9. CASE UNCHANGED vars
  BY <1>9 DEF vars, serviceVars
<1> QED
  BY <1>3, <1>4, <1>5, <1>6, <1>7, <1>8, <1>9 DEF Next

(* A step that sends no do-request leaves the sent ones as they are.       *)
LEMMA RequestsOnward ==
  ASSUME Inv, [Next]_vars, NEW o \in Order, status[o] \in RollingBack
  PROVE  posted'[o] \cap ForwardSteps = posted[o] \cap ForwardSteps
<1>1. CASE UNCHANGED posted
  BY <1>1
<1>2. ASSUME NEW t \in Task, NEW s \in Service, SendStep(t, s)
      PROVE  posted'[o] \cap ForwardSteps = posted[o] \cap ForwardSteps
  <2>1. /\ posted' = posted \/ posted' = [posted EXCEPT ![Ord(t)] = @ \cup {StepOf(t, s)}]
        /\ posted \in [Order -> SUBSET Step]
    BY <1>2, TypeFacts DEF SendStep, Post, Inv
  <2>2. CASE Ord(t) = o
    <3>1. StepOf(t, s) = Undo(s)
      BY <1>2, <2>2 DEF SendStep, StepOf, Running, Busy, Inv, DriverInv, RollingBack
    <3>2. Undo(s) \notin ForwardSteps
      BY StepFacts DEF ForwardSteps
    <3> QED
      BY <2>1, <2>2, <3>1, <3>2
  <2>3. CASE Ord(t) # o
    BY <2>1, <2>3
  <2> QED
    BY <2>2, <2>3
<1> QED
  BY <1>1, <1>2, RequestsBySend

LEMMA Onward ==
  ASSUME Inv, [Next]_vars, NEW o \in Order, status[o] \in RollingBack
  PROVE  /\ status'[o] \in RollingBack
         /\ posted'[o] \cap ForwardSteps = posted[o] \cap ForwardSteps
         /\ SucceededForward(o)' = SucceededForward(o)
<1>1. CASE Lifecycle!Next
  BY <1>1, LifecycleOnward, RequestsOnward DEF Inv
<1>2. CASE UNCHANGED Lifecycle!vars
  <2>1. status' = status /\ Known' = Known
    BY <1>2 DEF Lifecycle!vars, Known
  <2>2. Known'[o] = SucceededForward(o)' /\ Known[o] = SucceededForward(o)
    BY DEF Known
  <2> QED
    BY <2>1, <2>2, RequestsOnward
<1> QED
  BY <1>1, <1>2, StepSimulation

(* A rollback goes on to its end.                                          *)
THEOREM NoTurningBackHolds == ASSUME Slow = {} PROVE Spec => NoTurningBack
<1>1. Inv /\ [Next]_vars =>
        [\A o \in Order : status[o] \in RollingBack =>
           /\ status'[o] \in RollingBack
           /\ posted'[o] \cap ForwardSteps = posted[o] \cap ForwardSteps
           /\ SucceededForward(o)' = SucceededForward(o)]_vars
  BY Onward
<1> QED
  BY <1>1, InvHolds, PTL DEF Spec, NoTurningBack

-----------------------------------------------------------------------------
(* The outcome the flags foretell.                                         *)

(* Nothing rewrites an order's flags.                                      *)
LEMMA FlagsStay == ASSUME [Next]_vars PROVE UNCHANGED <<failAt, compFailAt>>
<1>1. ASSUME NEW t \in Task, Progress(t) \/ SagaAborts(t) \/ Heartbeat(t)
      PROVE  UNCHANGED <<failAt, compFailAt>>
  BY <1>1 DEF Progress, StartForward, ResumeCompensation, Plan, FinishForward, ReadSucceeded, ArmUndo,
     FinishCompensation, SendStep, StepSucceeds, StepFails, StepRejects, SagaAborts, Heartbeat,
     RenewLease, storeVars, csvVars
<1>2. ASSUME NEW i \in Instance, NEW batch \in SUBSET Order, Claim(i, batch)
      PROVE  UNCHANGED <<failAt, compFailAt>>
  BY <1>2 DEF Claim, ClaimRows, csvVars
<1>3. ASSUME NEW i \in Instance, NEW o \in Order, Retry(i, o) PROVE UNCHANGED <<failAt, compFailAt>>
  BY <1>3 DEF Retry, ClaimForRetry, csvVars
<1>4. ASSUME NEW o \in Order, Ship(o) \/ Lapse(o) PROVE UNCHANGED <<failAt, compFailAt>>
  BY <1>4 DEF Ship, MarkShipped, Lapse, LeaseLapses, csvVars
<1>5. ASSUME NEW o \in Order, NEW s \in Service, ServiceExecutes(o, s)
      PROVE  UNCHANGED <<failAt, compFailAt>>
  BY <1>5 DEF ServiceExecutes, storeVars
<1>6. ASSUME NEW i \in Instance, Crash(i) PROVE UNCHANGED <<failAt, compFailAt>>
  BY <1>6 DEF Crash, storeVars
<1>7. CASE UNCHANGED vars
  BY <1>7 DEF vars, storeVars
<1> QED
  BY <1>1, <1>2, <1>3, <1>4, <1>5, <1>6, <1>7 DEF Next

(* Who may change the status of an order, and to what.                     *)
LEMMA StatusWriters ==
  ASSUME Inv, [Next]_vars, NEW o \in Order, status'[o] # status[o]
  PROVE  \/ \E t \in Task : /\ Ord(t) = o /\ FinishForward(t)
                            /\ status'[o] = IF AnyFailed(t) THEN "COMPENSATING" ELSE "PLACED"
         \/ \E t \in Task : /\ Ord(t) = o /\ FinishCompensation(t)
                            /\ status'[o] = IF AnyFailed(t) THEN "NEEDS_ATTENTION" ELSE "CANCELLED"
         \/ status'[o] \in {"IN_PROGRESS", "SHIPPED"}
         \/ status[o] = "NEEDS_ATTENTION" /\ status'[o] = "COMPENSATING"
<1> DEFINE Goal ==
         \/ \E t \in Task : /\ Ord(t) = o /\ FinishForward(t)
                            /\ status'[o] = IF AnyFailed(t) THEN "COMPENSATING" ELSE "PLACED"
         \/ \E t \in Task : /\ Ord(t) = o /\ FinishCompensation(t)
                            /\ status'[o] = IF AnyFailed(t) THEN "NEEDS_ATTENTION" ELSE "CANCELLED"
         \/ status'[o] \in {"IN_PROGRESS", "SHIPPED"}
         \/ status[o] = "NEEDS_ATTENTION" /\ status'[o] = "COMPENSATING"
<1>t. status \in [Order -> OrderStatus]
  BY TypeFacts DEF Inv
<1>1. ASSUME NEW i \in Instance, NEW batch \in SUBSET Order, Claim(i, batch) PROVE Goal
  BY <1>1 DEF Claim, ClaimRows
<1>2. ASSUME NEW t \in Task, FinishForward(t) PROVE Goal
  <2>1. status' = [status EXCEPT ![Ord(t)] = IF AnyFailed(t) THEN "COMPENSATING" ELSE "PLACED"]
    BY <1>2, SetOrderStatusMoves DEF FinishForward, Busy
  <2> QED
    BY <1>t, <1>2, <2>1
<1>3. ASSUME NEW t \in Task, FinishCompensation(t) PROVE Goal
  <2>1. status' = [status EXCEPT ![Ord(t)] = IF AnyFailed(t) THEN "NEEDS_ATTENTION" ELSE "CANCELLED"]
    BY <1>3, SetOrderStatusMoves DEF FinishCompensation, Busy
  <2> QED
    BY <1>t, <1>3, <2>1
<1>4. ASSUME NEW i \in Instance, NEW p \in Order, Retry(i, p) PROVE Goal
  BY <1>t, <1>4 DEF Retry, ClaimForRetry
<1>5. ASSUME NEW p \in Order, Ship(p) PROVE Goal
  BY <1>t, <1>5 DEF Ship, MarkShipped
<1>6. ASSUME NEW t \in Task, Progress(t) \/ SagaAborts(t) \/ Heartbeat(t),
             ~FinishForward(t), ~FinishCompensation(t)
      PROVE  UNCHANGED status
  BY <1>6 DEF Progress, StartForward, ResumeCompensation, Plan, ReadSucceeded, ArmUndo, SendStep,
     StepSucceeds, StepFails, StepRejects, SagaAborts, Heartbeat, RenewLease, storeVars, orderVars
<1>7. ASSUME NEW p \in Order, Lapse(p) PROVE UNCHANGED status
  BY <1>7 DEF Lapse, LeaseLapses
<1>8. ASSUME NEW p \in Order, NEW s \in Service, ServiceExecutes(p, s) PROVE UNCHANGED status
  BY <1>8 DEF ServiceExecutes, storeVars
<1>9. ASSUME NEW i \in Instance, Crash(i) PROVE UNCHANGED status
  BY <1>9 DEF Crash, storeVars
<1>10. CASE UNCHANGED vars
  BY <1>10 DEF vars, storeVars
<1> QED
  BY <1>1, <1>2, <1>3, <1>4, <1>5, <1>6, <1>7, <1>8, <1>9, <1>10 DEF Next

(* Where a leg may come to stand as failed: where it stood so and its task *)
(* has not moved, or where its flag says so.                               *)
LEMMA LegsFail ==
  ASSUME TypeOK, Faulty = FALSE, [Next]_vars, NEW t \in Task, NEW s \in Service, leg'[t][s] = "failed"
  PROVE  \/ leg[t][s] = "failed" /\ (pc'[t] = pc[t] \/ ~Running(t))
         \/ Running(t) /\ pc'[t] = pc[t] /\ FlagFails(t, s)
<1> DEFINE Goal == \/ leg[t][s] = "failed" /\ (pc'[t] = pc[t] \/ ~Running(t))
                   \/ Running(t) /\ pc'[t] = pc[t] /\ FlagFails(t, s)
<1>t. /\ pc \in [Task -> PC] /\ leg \in [Task -> [Service -> Leg]]
      /\ NoLegs[s] = "off"
  BY TypeFacts DEF NoLegs
<1>1. ASSUME NEW i \in Instance, NEW batch \in SUBSET Order, Claim(i, batch) PROVE Goal
  <2>1. t \in {<<i, "worker", o>> : o \in batch} => ~Busy(t)
    BY <1>1 DEF Claim
  <2> QED
    BY <1>1, <2>1 DEF Claim, Busy, Running
<1>2. ASSUME NEW u \in Task, FinishForward(u) \/ FinishCompensation(u) \/ SagaAborts(u) PROVE Goal
  <2>1. leg' = [leg EXCEPT ![u] = NoLegs] /\ \E where : pc' = [pc EXCEPT ![u] = where]
    BY <1>2 DEF FinishForward, FinishCompensation, SagaAborts, Leave, Legs, Goto
  <2> QED
    BY <1>t, <2>1
<1>3. ASSUME NEW u \in Task, StartForward(u) \/ ResumeCompensation(u) \/ ArmUndo(u) PROVE Goal
  BY <1>t, <1>3 DEF StartForward, ResumeCompensation, ArmUndo, Goto, Running
<1>4. ASSUME NEW u \in Task, Plan(u) \/ ReadSucceeded(u) PROVE Goal
  <2>1. /\ \E all \in [Service -> {"off", "todo"}] : leg' = [leg EXCEPT ![u] = all]
        /\ \E where : pc' = [pc EXCEPT ![u] = where]
    BY <1>4 DEF Plan, ReadSucceeded, Legs, Goto
  <2> QED
    BY <1>t, <2>1
<1>5. ASSUME NEW u \in Task, NEW v \in Service,
             SendStep(u, v) \/ StepSucceeds(u, v) \/ StepFails(u, v) \/ StepRejects(u, v)
      PROVE  Goal
  <2>1. /\ UNCHANGED pc /\ Running(u)
        /\ \E now \in {"call", "ok", "failed"} :
             leg' = [leg EXCEPT ![u][v] = now] /\ (now = "failed" => FlagFails(u, v))
    BY <1>5 DEF SendStep, StepSucceeds, StepFails, StepRejects, SetLeg
  <2> QED
    BY <1>t, <2>1
<1>6. ASSUME NEW i \in Instance, NEW o \in Order, Retry(i, o) PROVE Goal
  <2>1. <<i, "api", o>> \in Task
    BY <1>6 DEF Task, Role
  <2> QED
    BY <1>t, <1>6, <2>1 DEF Retry, Goto, Busy, Running
<1>7. ASSUME NEW i \in Instance, Crash(i) PROVE Goal
  BY <1>t, <1>7 DEF Crash
<1>8. CASE UNCHANGED taskVars
  BY <1>8 DEF taskVars
<1>9. \/ UNCHANGED taskVars
      \/ \E u \in Task : Progress(u) \/ SagaAborts(u)
      \/ \E i \in Instance, batch \in SUBSET Order : Claim(i, batch)
      \/ \E i \in Instance, o \in Order : Retry(i, o)
      \/ \E i \in Instance : Crash(i)
  BY DEF Next, vars, Heartbeat, Ship, Lapse, ServiceExecutes
<1> QED
  BY <1>1, <1>2, <1>3, <1>4, <1>5, <1>6, <1>7, <1>8, <1>9 DEF Progress

(* Only what the flags fail, fails.                                        *)
LEMMA OutcomeNext ==
  ASSUME Faulty = FALSE PROVE Inv /\ OutcomeInv /\ [Next]_vars => OutcomeInv'
<1> SUFFICES ASSUME Inv, OutcomeInv, [Next]_vars PROVE OutcomeInv'
  OBVIOUS
<1>t. /\ posted \in [Order -> SUBSET Step] /\ leg \in [Task -> [Service -> Leg]]
      /\ failAt' = failAt /\ compFailAt' = compFailAt
  BY TypeFacts, FlagsStay DEF Inv
<1>1. ASSUME NEW o \in Order, failAt[o] # Nobody PROVE Do(failAt[o]) \notin posted'[o]
  <2>1. ASSUME NEW t \in Task, NEW s \in Service, SendStep(t, s), Ord(t) = o
        PROVE  posted' = posted \/ (posted' = [posted EXCEPT ![o] = @ \cup {StepOf(t, s)}]
                                    /\ StepOf(t, s) # Do(failAt[o]))
    <3>1. failAt[o] \in Service
      BY <1>1 DEF Inv, TypeOK, StoreTypeOK
    <3> QED
      BY <1>1, <2>1, <3>1, StepFacts DEF SendStep, Post, FlagFails, StepOf
  <2>2. ASSUME NEW t \in Task, NEW s \in Service, SendStep(t, s), Ord(t) # o
        PROVE  posted'[o] = posted[o]
    BY <1>t, <2>2 DEF SendStep, Post
  <2> QED
    BY <1>t, <1>1, <2>1, <2>2, RequestsBySend DEF OutcomeInv
<1>2. ASSUME NEW o \in Order, status'[o] \in RollingBack
      PROVE  failAt[o] # Nobody /\ Service \ {failAt[o]} \subseteq SucceededForward(o)'
  <2>1. CASE status[o] \in RollingBack
    BY <2>1, Onward DEF OutcomeInv
  <2>2. CASE status[o] \notin RollingBack
    <3>1. PICK t \in Task : Ord(t) = o /\ FinishForward(t) /\ AnyFailed(t)
      <4>1. ASSUME NEW t \in Task, Ord(t) = o, FinishCompensation(t) PROVE FALSE
        BY <2>2, <4>1 DEF FinishCompensation, Inv, DriverInv, Busy, RollingBack
      <4> QED
        BY <1>2, <2>2, <4>1, StatusWriters DEF RollingBack
    <3>2. /\ pc[t] = "forward" /\ UNCHANGED row
          /\ \A s \in Service : leg[t][s] \notin {"todo", "call"}
      BY <3>1 DEF FinishForward, Settled
    <3>3. \A s \in Service : leg[t][s] = "failed" => failAt[o] = s
      BY <3>1, <3>2 DEF OutcomeInv, FlagFails
    <3>4. failAt[o] \in Service
      BY <3>1, <3>3 DEF AnyFailed
    <3>5. \A s \in Service \ {failAt[o]} : leg[t][s] \in {"off", "ok"}
      BY <1>t, <3>2, <3>3 DEF Leg
    <3>6. Service \ {failAt[o]} \subseteq SucceededForward(o)
      BY <3>1, <3>2, <3>5 DEF Inv, ProgressInv, LegOf
    <3> QED
      BY <3>2, <3>4, <3>6, NobodyAssumption DEF SucceededForward
  <2> QED
    BY <2>1, <2>2
<1>3. ASSUME NEW o \in Order, status'[o] = "NEEDS_ATTENTION"
      PROVE  compFailAt[o] \notin {Nobody, failAt[o]}
  <2>1. CASE status[o] = "NEEDS_ATTENTION"
    BY <2>1 DEF OutcomeInv
  <2>2. CASE status[o] # "NEEDS_ATTENTION"
    <3>1. PICK t \in Task : Ord(t) = o /\ FinishCompensation(t) /\ AnyFailed(t)
      BY <1>3, <2>2, StatusWriters
    <3>2. PICK s \in Service : leg[t][s] = "failed"
      BY <3>1 DEF AnyFailed
    <3>3. pc[t] = "undo" /\ compFailAt[o] = s
      BY <3>1, <3>2 DEF FinishCompensation, OutcomeInv, FlagFails
    <3>4. s \in SucceededForward(o)
      BY <3>1, <3>2, <3>3 DEF Inv, ProgressInv, LegOf
    <3>5. Do(s) \in posted[o]
      BY <3>4, StepFacts DEF Inv, ExecutionInv, SucceededMeansExecuted, SucceededForward
    <3>6. failAt[o] # s
      BY <3>5, NobodyAssumption DEF OutcomeInv
    <3> QED
      BY <3>3, <3>6, NobodyAssumption
  <2> QED
    BY <2>1, <2>2
<1>4. ASSUME NEW t \in Task, NEW s \in Service, leg'[t][s] = "failed"
      PROVE  Running(t)' /\ FlagFails(t, s)'
  <2>1. Running(t) /\ FlagFails(t, s) /\ pc'[t] = pc[t]
    BY <1>4, LegsFail DEF OutcomeInv, Inv
  <2> QED
    BY <1>t, <2>1 DEF Running, FlagFails
<1> QED
  BY <1>t, <1>1, <1>2, <1>3, <1>4 DEF OutcomeInv

(* The flags alone make an order fail.                                     *)
THEOREM OutcomeHolds == ASSUME Slow = {}, Faulty = FALSE PROVE Spec => []OutcomeInv
<1>1. Init => OutcomeInv
  BY StepFacts DEF Init, StoreInit, ServiceInit, NoLegs, OutcomeInv, RollingBack
<1> QED
  BY <1>1, OutcomeNext, InvHolds, PTL DEF Spec

(* Every order ends as its flags say, and is left as its status says.      *)
THEOREM OutcomeAsInjectedHolds ==
  ASSUME Slow = {}, Faulty = FALSE PROVE Spec => []OutcomeAsInjected
<1>1. Inv /\ OutcomeInv => OutcomeAsInjected
  <2> SUFFICES ASSUME Inv, OutcomeInv, NEW o \in Order
               PROVE  /\ status[o] \in {"PLACED", "SHIPPED"} => Outcome(o) = "PLACED"
                      /\ status[o] = "NEEDS_ATTENTION" => Outcome(o) = "NEEDS_ATTENTION"
                      /\ status[o] = "CANCELLED" =>
                           /\ Outcome(o) # "PLACED"
                           /\ \A s \in Service :
                                effect[o][s] = IF s = failAt[o] THEN "none" ELSE "undone"
    BY DEF OutcomeAsInjected
  <2>1. ASSUME status[o] \in {"PLACED", "SHIPPED"} PROVE Outcome(o) = "PLACED"
    <3>1. \A s \in Service : Do(s) \in posted[o]
      BY <2>1 DEF Inv, ProgressInv, SettledOf, ExecutionInv
    <3>2. failAt[o] = Nobody
      BY <3>1 DEF OutcomeInv, Inv, TypeOK, StoreTypeOK
    <3> QED
      BY <3>2 DEF Outcome
  <2>2. ASSUME status[o] = "NEEDS_ATTENTION" PROVE Outcome(o) = "NEEDS_ATTENTION"
    BY <2>2 DEF Outcome, OutcomeInv, RollingBack
  <2>3. ASSUME status[o] = "CANCELLED"
        PROVE  /\ Outcome(o) # "PLACED"
               /\ \A s \in Service : effect[o][s] = IF s = failAt[o] THEN "none" ELSE "undone"
    <3>1. failAt[o] # Nobody /\ Service \ {failAt[o]} \subseteq SucceededForward(o)
      BY <2>3 DEF OutcomeInv, RollingBack
    <3>2. \A s \in Service \ {failAt[o]} : Undo(s) \in record[o]
      BY <2>3, <3>1 DEF Inv, ProgressInv, SettledOf
    <3>3. Do(failAt[o]) \notin posted[o] /\ failAt[o] \in Service
      BY <3>1 DEF OutcomeInv, Inv, TypeOK, StoreTypeOK
    <3>4. Do(failAt[o]) \notin record[o] /\ Undo(failAt[o]) \notin record[o]
      BY <3>3 DEF Inv, ExecutionInv
    <3> QED
      BY <3>1, <3>2, <3>4 DEF Inv, ExecutionInv, EffectOfRecord, Outcome
  <2> QED
    BY <2>1, <2>2, <2>3
<1> QED
  BY <1>1, OutcomeHolds, InvHolds, PTL

(* So the comment of 01-saga.sql is right about the CANCELLED orders of a  *)
(* healthy system: it takes a failure the flags did not inject to leave a  *)
(* cancelled order with a step not undone.                                 *)
THEOREM CleanCancelHolds ==
  ASSUME Slow = {}, Faulty = FALSE PROVE Spec => []CancelledMeansUndone
<1>1. OutcomeAsInjected => CancelledMeansUndone
  BY DEF OutcomeAsInjected, CancelledMeansUndone
<1> QED
  BY <1>1, OutcomeAsInjectedHolds, PTL
=============================================================================
