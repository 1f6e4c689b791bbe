------------------------------ MODULE WorkerLoop ------------------------------
(***************************************************************************)
(* A coordinator process: its claim loop (worker.ts), the transaction a    *)
(* claim runs in (withTransaction, db.ts), the retries people ask of its   *)
(* API (api.ts) and its shutdown (index.ts).  A saga is taken for what     *)
(* SagaEngine shows of it: it drives an order for a while, the loop's own  *)
(* under a heartbeat, then ends it, gives up on it or throws.              *)
(***************************************************************************)
EXTENDS OrderTable

CONSTANTS
  ClaimSize,   \* CLAIM_BATCH_SIZE
  Concurrency, \* ORDER_CONCURRENCY
  MaxTries,    \* maxDeadlockRetries
  Stoppable,   \* workers that are sent SIGTERM or SIGINT
  Asked        \* retries people ask for, by the process asked and the order

ASSUME WorkerAssumption ==
  /\ ClaimSize \in Nat \ {0} /\ Concurrency \in Nat \ {0} /\ MaxTries \in Nat \ {0}
  /\ Stoppable \subseteq Worker /\ Asked \subseteq Worker \X Order

VARIABLES
  life,     \* "up", "crashed" or "exited"
  phase,    \* "begin" and "stamp" within a claim, "sleep", "work", "ended"
  attempt,  \* of withTransaction
  todo,     \* orders of the batch the cursor has not reached
  doing,    \* orders in the slots of mapWithConcurrency
  retrying, \* orders of the retry requests under way
  signal    \* "none", or what the loop was at when stop() was called
claimVars == <<life, phase, attempt, todo, doing, signal>>
loopVars  == <<claimVars, retrying>>

LoopTypeOK ==
  /\ life \in [Worker -> {"up", "crashed", "exited"}]
  /\ phase \in [Worker -> {"begin", "stamp", "sleep", "work", "ended"}]
  /\ attempt \in [Worker -> 1..MaxTries]
  /\ todo \in [Worker -> SUBSET Order] /\ doing \in [Worker -> SUBSET Order]
  /\ retrying \in [Worker -> SUBSET Order]
  /\ signal \in [Worker -> {"none", "claiming", "idle", "busy"}]
  /\ \A w \in Worker : Cardinality(doing[w]) <= Concurrency /\ todo[w] \cap doing[w] = {}

LoopInit ==
  /\ life = [w \in Worker |-> "up"] /\ phase = [w \in Worker |-> "begin"]
  /\ attempt = [w \in Worker |-> 1]
  /\ todo = [w \in Worker |-> {}] /\ doing = [w \in Worker |-> {}]
  /\ retrying = [w \in Worker |-> {}]
  /\ signal = [w \in Worker |-> "none"]

At(w, where) == life[w] = "up" /\ phase[w] = where
Goto(w, where) == phase' = [phase EXCEPT ![w] = where]
(* while (running)                                                         *)
GoOn(w) == Goto(w, IF signal[w] = "none" THEN "begin" ELSE "ended")
Attempt(w, k) == attempt' = [attempt EXCEPT ![w] = k]

Capped(k, most) == IF k < most THEN k ELSE most

(* ORDER BY id LIMIT ?                                                     *)
Oldest(rows, batch) ==
  /\ batch \subseteq rows /\ Cardinality(batch) = Capped(Cardinality(rows), ClaimSize)
  /\ \A o \in batch, p \in rows \ batch : o < p

-----------------------------------------------------------------------------
(* claimBatch, its SELECT ... FOR UPDATE SKIP LOCKED; with no row found    *)
(* the transaction is over.                                                *)
Select(w) ==
  /\ At(w, "begin")
  /\ \E batch \in SUBSET Order :
       /\ Oldest({o \in Order : Claimable(o) /\ lock[o] = Nobody}, batch)
       /\ todo' = [todo EXCEPT ![w] = batch]
       /\ lock' = [o \in Order |-> IF o \in batch THEN w ELSE lock[o]]
       /\ IF batch = {}
          THEN Goto(w, "sleep") /\ Attempt(w, 1)
          ELSE Goto(w, "stamp") /\ UNCHANGED attempt
  /\ UNCHANGED <<status, source, leaseOwner, lease, life, doing, signal, retrying>>

(* ... its UPDATE and COMMIT, and the batch is at work.                    *)
Stamp(w) ==
  /\ At(w, "stamp")
  /\ StampLease(w, todo[w])
  /\ Goto(w, "work") /\ Attempt(w, 1)
  /\ UNCHANGED <<life, todo, doing, signal, retrying>>

(* COMMIT was carried out and its reply lost: the claim throws, and the    *)
(* leased batch is in nobody's hands.                                      *)
StampUnheard(w) ==
  /\ At(w, "stamp")
  /\ StampLease(w, todo[w])
  /\ todo' = [todo EXCEPT ![w] = {}]
  /\ Goto(w, "sleep") /\ Attempt(w, 1)
  /\ UNCHANGED <<life, doing, signal, retrying>>

Rollback(w) ==
  /\ Unlock(w) /\ todo' = [todo EXCEPT ![w] = {}]
  /\ UNCHANGED <<status, source, leaseOwner, lease>>

(* withTransaction: a deadlock or a lock wait timeout is tried again.      *)
Deadlock(w) ==
  /\ At(w, "begin") \/ At(w, "stamp")
  /\ Rollback(w)
  /\ IF attempt[w] < MaxTries
     THEN Goto(w, "begin") /\ Attempt(w, attempt[w] + 1)
     ELSE Goto(w, "sleep") /\ Attempt(w, 1)
  /\ UNCHANGED <<life, doing, signal, retrying>>

(* Any other error of a claim, and the loop backs off.                     *)
ClaimFails(w) ==
  /\ At(w, "begin") \/ At(w, "stamp")
  /\ Rollback(w)
  /\ Goto(w, "sleep") /\ Attempt(w, 1)
  /\ UNCHANGED <<life, doing, signal, retrying>>

Wake(w) ==
  /\ At(w, "sleep") /\ GoOn(w)
  /\ UNCHANGED <<tableVars, life, attempt, todo, doing, signal, retrying>>

(* mapWithConcurrency: a free slot takes the next item of the batch.       *)
Take(w, o) ==
  /\ At(w, "work") /\ o \in todo[w] /\ \A p \in todo[w] : o <= p
  /\ Cardinality(doing[w]) < Concurrency
  /\ todo' = [todo EXCEPT ![w] = @ \ {o}]
  /\ doing' = [doing EXCEPT ![w] = @ \cup {o}]
  /\ UNCHANGED <<tableVars, life, phase, attempt, signal, retrying>>

(* A slot is done with o; when the last one is, so is the batch.           *)
Leave(w, o) ==
  /\ At(w, "work") /\ o \in doing[w]
  /\ doing' = [doing EXCEPT ![w] = @ \ {o}]
  /\ IF todo[w] = {} /\ doing[w] = {o} THEN GoOn(w) ELSE UNCHANGED phase
  /\ UNCHANGED <<life, attempt, todo, signal, retrying>>

Renew(w, o)  == life[w] = "up" /\ o \in doing[w] /\ Heartbeat(w, o) /\ UNCHANGED loopVars
Finish(w, o) == Leave(w, o) /\ EndOrder(w, o)

(* processOne: runSaga threw, or saw its lease lost; o stays as it is.     *)
Throws(w, o) == Leave(w, o) /\ UNCHANGED tableVars

(* The UI's Retry button: the route claims the order and compensates, by   *)
(* no heartbeat, while the loop goes on beside it.  Retries of one order   *)
(* that overlap in one process are taken for one.                          *)
Retry(w, o) ==
  /\ life[w] = "up" /\ <<w, o>> \in Asked /\ o \notin retrying[w]
  /\ TakeUp(w, o)
  /\ retrying' = [retrying EXCEPT ![w] = @ \cup {o}]
  /\ UNCHANGED claimVars

RetryOver(w, o) ==
  /\ life[w] = "up" /\ o \in retrying[w]
  /\ retrying' = [retrying EXCEPT ![w] = @ \ {o}]
  /\ UNCHANGED claimVars
RetryEnds(w, o)   == RetryOver(w, o) /\ EndOrder(w, o)
RetryThrows(w, o) == RetryOver(w, o) /\ UNCHANGED tableVars

(* SIGTERM: stop() clears running and awaits inFlight, the batch it knows. *)
Stop(w) ==
  /\ w \in Stoppable /\ life[w] = "up" /\ signal[w] = "none"
  /\ signal' = [signal EXCEPT ![w] =
       CASE phase[w] = "work" -> "busy" [] phase[w] = "sleep" -> "idle" [] OTHER -> "claiming"]
  /\ UNCHANGED <<tableVars, life, phase, attempt, todo, doing, retrying>>

Gone(w, how) ==
  /\ life' = [life EXCEPT ![w] = how]
  /\ todo' = [todo EXCEPT ![w] = {}] /\ doing' = [doing EXCEPT ![w] = {}]
  /\ retrying' = [retrying EXCEPT ![w] = {}]
  /\ signal' = [signal EXCEPT ![w] = "none"]
  /\ Goto(w, "ended") /\ Attempt(w, 1) /\ Unlock(w)
  /\ UNCHANGED <<status, source, leaseOwner, lease>>

(* A slip of stop: it does not await the batch at work.                    *)
ExitHasty(w) == life[w] = "up" /\ signal[w] # "none" /\ Gone(w, "exited")

(* shutdown: stop() has resolved, the pool is closed, process.exit.        *)
(* server.close() is not awaited, so a retry under way is cut.             *)
Exit(w) ==
  /\ life[w] = "up" /\ signal[w] # "none"
  /\ signal[w] = "busy" => phase[w] = "ended"
  /\ Gone(w, "exited")

Crash(w) == life[w] = "up" /\ Gone(w, "crashed")

-----------------------------------------------------------------------------
LoopStep(w) ==
  \/ Select(w) \/ Stamp(w) \/ Wake(w) \/ Exit(w)
  \/ \E o \in Order : Take(w, o) \/ Finish(w, o)
LoopNext(w) ==
  \/ LoopStep(w) \/ Stop(w)
  \/ StampUnheard(w) \/ Deadlock(w) \/ ClaimFails(w)
  \/ \E o \in Order : Throws(w, o) \/ Renew(w, o)
  \/ \E o \in Order : Retry(w, o) \/ RetryEnds(w, o) \/ RetryThrows(w, o)

(* An error that costs an order time: a claim that fails with nothing to   *)
(* claim looks like one that finds nothing.                                *)
Available(w) == {o \in Order : Claimable(o) /\ lock[o] \in {Nobody, w}}
Disturbed(w) ==
  \/ StampUnheard(w)
  \/ Available(w) # {} /\ (Deadlock(w) \/ ClaimFails(w))
  \/ \E o \in Order : Throws(w, o)
=============================================================================
