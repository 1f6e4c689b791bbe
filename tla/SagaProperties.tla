--------------------------- MODULE SagaProperties ---------------------------
(***************************************************************************)
(* What must hold of SagaEngine.  The first group holds however long a     *)
(* coordinator stalls; the second needs coordinators that never outlast    *)
(* their lease (Slow = {}); the third is what a healthy run must produce.  *)
(***************************************************************************)
EXTENDS SagaEngine

-----------------------------------------------------------------------------
(* An order being worked on always names an owner and a deadline, so that  *)
(* the claim query finds it again; a settled one names neither, so that    *)
(* no fenced write and no renewal can match it (claimBatch, renewLease,    *)
(* setOrderStatus, claimForRetry, markShipped).                            *)
NoOrphan ==
  \A o \in Order :
    /\ (status[o] \in ActiveStatus) <=> (leaseOwner[o] # Nobody)
    /\ (status[o] \in ActiveStatus) <=> (lease[o] # "null")

(* A row says SUCCEEDED only for a step the service really executed, even  *)
(* after stalls, takeovers and duplicate drivers (executeStep).            *)
SucceededMeansExecuted ==
  \A o \in Order, st \in Step : row[o][st] = "SUCCEEDED" => st \in record[o]

(* No undo is ever recorded before its do-step: a refund that found        *)
(* nothing to refund would let the late charge stand for ever              *)
(* (getSucceededForwardSteps decides what compensate calls).               *)
NoUndoBeforeDo ==
  \A o \in Order, s \in Service :
    Undo(s) \in record[o] => effect[o][s] = "undone"

(* Whoever wakes up late, what is settled stays so: only a person ships a  *)
(* placed order or retries a flagged one, and nothing else moves any more  *)
(* (the lease_owner fence of setOrderStatus, and clearing the lease).      *)
SettledStays ==
  [][\A o \in Order :
       /\ status[o] \in {"CANCELLED", "SHIPPED"} => status'[o] = status[o]
       /\ status[o] = "PLACED" => status'[o] \in {"PLACED", "SHIPPED"}
       /\ status[o] = "NEEDS_ATTENTION" =>
            status'[o] \in {"NEEDS_ATTENTION", "COMPENSATING"}]_vars

(* Stalled or not, the sagas deal with the leases as the intake's claim    *)
(* loops do: an order changes hands only after its lease has lapsed, is    *)
(* renewed and ended only by a saga of its holder's, and taken up again    *)
(* only once ended; a saga that lost its order is over without touching it *)
(* (claimBatch, renewLease, setOrderStatus, claimForRetry).                *)
Coarse(o) == IF status[o] = "PENDING" THEN "PENDING"
             ELSE IF status[o] \in ActiveStatus THEN "IN_PROGRESS" ELSE "ENDED"
Hands == INSTANCE Dispatch WITH
  Worker <- Instance, status <- [o \in Order |-> Coarse(o)],
  atWork <- {t \in Task : Busy(t)}
PassedOn == [][Hands!DispatchNext]_(Hands!dispatchVars)

(* No saga goes round in circles: whatever it runs into, each step of a    *)
(* task's own leaves it less to do, and nobody gives a task at work more   *)
(* (runSaga, compensate: no phase is entered twice, no call made twice).   *)
LegsAt(t, stand) == Cardinality({s \in Service : leg[t][s] = stand})
CallsLeft(t) == 2 * LegsAt(t, "todo") + LegsAt(t, "call")
WorkLeft(t) ==
  LET n == Cardinality(Service)
  IN  CASE pc[t] = "idle"       -> 0
        [] pc[t] = "undo"       -> 1 + CallsLeft(t)
        [] pc[t] = "arm"        -> 2 + CallsLeft(t)
        [] pc[t] = "compensate" -> 3 + 2 * n
        [] pc[t] = "resume"     -> 4 + 2 * n
        [] pc[t] = "forward"    -> 4 + 2 * n + CallsLeft(t)
        [] pc[t] = "plan"       -> 5 + 4 * n
        [] pc[t] = "queued"     -> 6 + 4 * n
SagaRunsOut ==
  [][\A t \in Task :
       /\ Progress(t) => WorkLeft(t)' < WorkLeft(t)
       /\ Busy(t) => WorkLeft(t)' <= WorkLeft(t)]_vars

-----------------------------------------------------------------------------
(* At most one task drives an order: the claim query, the lease and the    *)
(* retry guard together (claimBatch, claimForRetry, startHeartbeat).       *)
OneDriver ==
  \A t, u \in Task : Busy(t) /\ Busy(u) /\ Ord(t) = Ord(u) => t = u

(* A placed or shipped order has all its effects, and keeps them: no late  *)
(* or recovered compensation reaches it (runSaga, compensate).             *)
PlacedMeansDone ==
  \A o \in Order : status[o] \in {"PLACED", "SHIPPED"} =>
    \A s \in Service : effect[o][s] = "live"

(* A cancelled order has undone everything its rows say succeeded.         *)
CancelledMeansKnownUndone ==
  \A o \in Order : status[o] = "CANCELLED" =>
    \A s \in SucceededForward(o) : effect[o][s] = "undone"

(* Once nobody holds an order's lease its step rows never change: every    *)
(* write comes from the owner (markStepRunning, markStepResult, initSteps).*)
UnleasedRowsFrozen ==
  [][\A o \in Order : leaseOwner[o] = Nobody => row'[o] = row[o]]_vars

(* An order that began to roll back never moves forward again: neither its *)
(* status, nor a new do-request, nor a do-row recorded as succeeded later  *)
(* than compensation read them (runSaga's recovery branch).                *)
RollingBack == {"COMPENSATING", "NEEDS_ATTENTION", "CANCELLED"}
NoTurningBack ==
  [][\A o \in Order : status[o] \in RollingBack =>
       /\ status'[o] \in RollingBack
       /\ posted'[o] \cap ForwardSteps = posted[o] \cap ForwardSteps
       /\ SucceededForward(o)' = SucceededForward(o)]_vars

(* The engine implements OrderLifecycle, its step rows being what is known.*)
Lifecycle == INSTANCE OrderLifecycle WITH
  known <- [o \in Order |-> SucceededForward(o)]
Implements == Lifecycle!Spec

-----------------------------------------------------------------------------
(* What the CSV's flags foretell of an order (README, acceptance check).   *)
Outcome(o) ==
  CASE failAt[o] = Nobody -> "PLACED"
    [] failAt[o] # Nobody /\ compFailAt[o] \notin {Nobody, failAt[o]} -> "NEEDS_ATTENTION"
    [] OTHER -> "CANCELLED"

(* Without faults other than the injected ones and crashes, an order ends  *)
(* as its flags say, or as a person made it from there, and a cancelled    *)
(* one is clean: nothing is left live and nothing that failed happened.    *)
OutcomeAsInjected ==
  \A o \in Order :
    /\ status[o] \in {"PLACED", "SHIPPED"} => Outcome(o) = "PLACED"
    /\ status[o] = "NEEDS_ATTENTION" => Outcome(o) = "NEEDS_ATTENTION"
    /\ status[o] = "CANCELLED" =>
         /\ Outcome(o) # "PLACED"
         /\ \A s \in Service :
              effect[o][s] = IF s = failAt[o] THEN "none" ELSE "undone"

(* Every ingested order gets there, whatever crashes, as long as one       *)
(* instance survives.                                                      *)
ReachesOutcome ==
  \A o \in Order : status[o] = "PENDING" ~> status[o] = Outcome(o)

(* Whatever fails, an order somebody took up is settled one way or another:*)
(* finished, or flagged for a human.  Nothing hangs (runConcurrently).     *)
EverySettles ==
  \A o \in Order : status[o] \in ActiveStatus ~> status[o] \notin ActiveStatus

(* Services that answer in the end, for the runs without faults.           *)
HealthySpec ==
  /\ FairSpec
  /\ \A o \in Order, s \in Service : WF_vars(ServiceExecutes(o, s))

-----------------------------------------------------------------------------
(* What a comment of the code promises and the code does not keep.         *)

(* 01-saga.sql: CANCELLED means "cleanly undone", whatever failed.         *)
CancelledMeansUndone ==
  \A o \in Order : status[o] = "CANCELLED" =>
    \A s \in Service : effect[o][s] # "live"

-----------------------------------------------------------------------------
(* Inductive strengthenings, for the proofs in SagaProofs.                 *)

(* What is recorded was asked for, what is undone was done, an undo that   *)
(* is about to be called has its do-step recorded, and the effects are     *)
(* those the records tell.                                                 *)
EffectOfRecord(o, s) ==
  IF Undo(s) \in record[o] THEN "undone"
  ELSE IF Do(s) \in record[o] THEN "live" ELSE "none"

ExecutionInv ==
  /\ SucceededMeansExecuted
  /\ \A o \in Order : record[o] \subseteq posted[o]
  /\ \A o \in Order, s \in Service : Undo(s) \in posted[o] => Do(s) \in record[o]
  /\ \A t \in Task, s \in Service :
       pc[t] \in {"arm", "undo"} /\ leg[t][s] = "todo" => Do(s) \in record[Ord(t)]
  /\ \A o \in Order, s \in Service : effect[o][s] = EffectOfRecord(o, s)

(* With prompt coordinators: a busy task holds a live lease, is the only   *)
(* one on its order, and the order's status tells its phase.               *)
DriverInv ==
  /\ OneDriver
  /\ \A t \in Task : Busy(t) =>
       /\ leaseOwner[Ord(t)] = Inst(t) /\ lease[Ord(t)] = "live"
       /\ status[Ord(t)] = IF pc[t] \in {"queued", "plan", "forward"}
                           THEN "IN_PROGRESS" ELSE "COMPENSATING"

(* ... going forward, a leg that is off or ok stands for a row that        *)
(* SUCCEEDED, and one yet to be decided for a row that did not; going      *)
(* back, exactly the rows that SUCCEEDED have a leg, and ok is recorded.   *)
LegOf(t) ==
  \A s \in Service :
    /\ pc[t] = "forward" /\ leg[t][s] \in {"off", "ok"} => s \in SucceededForward(Ord(t))
    /\ pc[t] = "forward" /\ leg[t][s] \in {"todo", "call"} => s \notin SucceededForward(Ord(t))
    /\ pc[t] \in {"arm", "undo"} => (leg[t][s] = "off" <=> s \notin SucceededForward(Ord(t)))
    /\ pc[t] = "undo" /\ leg[t][s] = "ok" => Undo(s) \in record[Ord(t)]
    /\ pc[t] = "arm" => leg[t][s] # "ok"

(* Nothing is requested before the order is taken up, undos only in a      *)
(* rollback and for steps known to have succeeded; and a settled order has *)
(* what its status says on record.                                         *)
SettledOf(o) ==
  \A s \in Service :
    /\ status[o] = "PENDING" => Do(s) \notin posted[o]
    /\ status[o] \notin RollingBack => Undo(s) \notin posted[o]
    /\ Undo(s) \in posted[o] => s \in SucceededForward(o)
    /\ status[o] \in {"PLACED", "SHIPPED"} => Do(s) \in record[o]
    /\ status[o] = "CANCELLED" /\ s \in SucceededForward(o) => Undo(s) \in record[o]

(* With prompt coordinators and no failures but the injected ones: a step  *)
(* the flags fail going forward is never requested, a leg fails by its     *)
(* flag only, and an order rolls back, or is flagged, only if and only     *)
(* after its flags made it, with every other step known to be done.        *)
OutcomeInv ==
  /\ \A o \in Order : failAt[o] # Nobody => Do(failAt[o]) \notin posted[o]
  /\ \A o \in Order : status[o] \in RollingBack =>
       failAt[o] # Nobody /\ Service \ {failAt[o]} \subseteq SucceededForward(o)
  /\ \A o \in Order :
       status[o] = "NEEDS_ATTENTION" => compFailAt[o] \notin {Nobody, failAt[o]}
  /\ \A t \in Task, s \in Service :
       leg[t][s] = "failed" => Running(t) /\ FlagFails(t, s)

ProgressInv == (\A t \in Task : LegOf(t)) /\ (\A o \in Order : SettledOf(o))
=============================================================================
