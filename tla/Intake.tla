-------------------------------- MODULE Intake --------------------------------
(***************************************************************************)
(* Orders from the file to their end: ingest runs, claim loops and manual  *)
(* retries at work on one table.                                           *)
(***************************************************************************)
EXTENDS Ingest, WorkerLoop

vars == <<tableVars, ingestVars, loopVars>>

IntakeTypeOK == TableTypeOK /\ IngestTypeOK /\ LoopTypeOK

IntakeInit == TableInit /\ IngestInit /\ LoopInit

(* A lease's time passes: the order is forgotten, or its driver stalls or  *)
(* has not reached it yet, which holds no heartbeat.                       *)
Attended(o) == \E w \in Worker : life[w] = "up" /\ o \in todo[w] \cup doing[w]
Lapse(o) == LeaseLapses(o) /\ UNCHANGED <<ingestVars, loopVars>>

IntakeNext ==
  \/ \E p \in Loader : IngestNext(p) /\ UNCHANGED loopVars
  \/ \E w \in Worker :
       /\ LoopNext(w) \/ (w \in Mortal /\ Crash(w))
       /\ UNCHANGED ingestVars
  \/ \E o \in Order : Lapse(o)

IntakeSpec == IntakeInit /\ [][IntakeNext]_vars

(* Processes that are up go on; an unattended lease runs out; errors and   *)
(* stalls of the loops come to an end.  Nothing is assumed of retries.     *)
IntakeFairness ==
  /\ \A p \in Loader : WF_vars(Load(p) /\ UNCHANGED loopVars)
  /\ \A w \in Worker : WF_vars(LoopStep(w) /\ UNCHANGED ingestVars)
  /\ \A o \in Order : WF_vars(~Attended(o) /\ Lapse(o))
  /\ <>[][/\ \A w \in Worker : ~(Disturbed(w) /\ UNCHANGED ingestVars)
          /\ \A o \in Order : ~(Attended(o) /\ Lapse(o))]_vars
FairIntake == IntakeSpec /\ IntakeFairness

-----------------------------------------------------------------------------
(* A loader that says "ingest complete" has every row of its file in the   *)
(* table, whoever put it there (ingestOrders).                             *)
FinishedMeansLoaded ==
  \A p \in Loader : reading[p] = "done" => \A o \in Rows(1, Len(File)) : status[o] # "absent"

(* rowsInserted is the number of rows that carry the loader's batchId: no  *)
(* order is counted by two loads, and none is taken over by a reload       *)
(* (flush).                                                                *)
CountsAreTrue ==
  \A p \in Loader :
    reading[p] # "failed" => inserted[p] = Cardinality({o \in Order : source[o] = p})

(* An order arrives once, has one holder at a time, changes hands only     *)
(* after its lease has lapsed, is renewed and ended only by a run of its   *)
(* holder's and taken up again only once ended, whatever overlaps, fails,  *)
(* stops or crashes (claimBatch, claimForRetry, the fence on lease_owner). *)
AtWork ==
  {run \in Worker \X {"worker", "api"} \X Order :
     LET w == run[1]  o == run[3]
     IN  IF run[2] = "api" THEN o \in retrying[w]
                           ELSE phase[w] = "work" /\ o \in todo[w] \cup doing[w]}
Promise == INSTANCE Dispatch WITH atWork <- AtWork
Dispatched == Promise!DispatchSpec

(* A stopped process leaves no order of its loop's in the middle of a saga *)
(* and no row locked, unless a claim was under way when it was told to     *)
(* stop: stop() does not know of that batch.  Nor does it of retries, and  *)
(* they are cut wherever they are (stop, shutdown).                        *)
StopDrains ==
  [][\A w \in Worker :
       life[w] = "up" /\ life'[w] = "exited" /\ signal[w] # "claiming" =>
         todo[w] = {} /\ doing[w] = {} /\ Locked(w) = {}]_vars

(* As long as one loader and one worker live on, every order of the file   *)
(* is ended, and ended again however often it is taken up: a retry that is *)
(* cut or stalls is finished by the claim loops (the poll and the leases). *)
EveryOrderEnds == \A o \in Rows(1, Len(File)) : []<>(status[o] = "ENDED")
=============================================================================
