----------------------------- MODULE IntakeProofs -----------------------------
(***************************************************************************)
(* For any file, any number of loaders and workers, and any batch sizes:   *)
(* the intake is typed, implements Dispatch, counts what it inserted,      *)
(* loads all it says it loaded, and stops where it may.                    *)
(***************************************************************************)
EXTENDS Intake, FiniteSetTheorems, TLAPS

LEMMA Constants ==
  /\ LastId \in Nat /\ Nobody \notin Worker /\ Nobody \notin Loader
  /\ File \in Seq(Order) /\ Len(File) \in Nat /\ FlushSize \in Nat /\ FlushSize > 0
  /\ Concurrency \in Nat /\ Concurrency > 0 /\ MaxTries \in Nat /\ MaxTries > 0
BY TableAssumption, IngestAssumption, WorkerAssumption

LEMMA OrderFinite ==
  ASSUME NEW rows \in SUBSET Order
  PROVE  /\ IsFiniteSet(rows) /\ Cardinality(rows) \in Nat
         /\ Cardinality(rows) <= LastId
<1>1. LastId \in Nat
  BY Constants
<1>2. IsFiniteSet(1..LastId) /\ Cardinality(1..LastId) = IF 1 > LastId THEN 0 ELSE LastId - 1 + 1
  BY <1>1, FS_Interval
<1>3. IsFiniteSet(Order) /\ Cardinality(Order) = LastId
  BY <1>1, <1>2 DEF Order
<1>4. IsFiniteSet(rows) /\ Cardinality(rows) <= Cardinality(Order)
  BY <1>3, FS_Subset
<1> QED
  BY <1>3, <1>4, FS_CardinalityType

(* A claim and the locks it holds belong together, and what is locked may  *)
(* still be claimed when it is stamped.                                    *)
ClaimInv ==
  /\ \A w \in Worker :
       /\ phase[w] \notin {"stamp", "work"} => todo[w] = {}
       /\ phase[w] # "work" => doing[w] = {}
       /\ life[w] # "up" => phase[w] = "ended"
       /\ signal[w] = "idle" => phase[w] \in {"sleep", "ended"}
       /\ phase[w] = "stamp" => \A o \in todo[w] : lock[o] = w
  /\ \A o \in Order : lock[o] # Nobody =>
       phase[lock[o]] = "stamp" /\ o \in todo[lock[o]] /\ Claimable(o)

(* What a loader has flushed is in the table, and it goes on as far as the *)
(* file does.                                                              *)
LoadInv ==
  \A p \in Loader :
    /\ reading[p] = "open" => read[p] - flushed[p] < FlushSize
    /\ reading[p] \in {"last", "done"} => read[p] = Len(File)
    /\ reading[p] = "done" => flushed[p] = read[p]
    /\ \A o \in Rows(1, flushed[p]) : status[o] # "absent"

IntakeInv == IntakeTypeOK /\ ClaimInv /\ LoadInv /\ CountsAreTrue

-----------------------------------------------------------------------------
(* The statements on the table, one by one: what each does to the types    *)
(* and to the abstract dispatcher.                                         *)
Dispatching == [Promise!DispatchNext]_(Promise!dispatchVars)
NoneVanish  == \A o \in Order : status[o] # "absent" => status'[o] # "absent"
Sound       == TableTypeOK' /\ NoneVanish /\ Dispatching

LEMMA DispatchSteps ==
  /\ Promise!LetGo => Promise!DispatchNext
  /\ \A rows \in SUBSET Order : Promise!Arrive(rows) => Promise!DispatchNext
  /\ \A w \in Worker, rows \in SUBSET Order : Promise!Assign(w, rows) => Promise!DispatchNext
  /\ \A o \in Order : Promise!Lapse(o) => Promise!DispatchNext
  /\ \A w \in Worker, o \in Order : Promise!Renew(w, o) \/ Promise!Reopen(w, o) => Promise!DispatchNext
  /\ \A w \in Worker, role \in {"worker", "api"}, o \in Order :
       Promise!End(w, role, o) => Promise!DispatchNext
BY DEF Promise!DispatchNext

LEMMA InsertIgnoreSound ==
  ASSUME TableTypeOK, NEW p \in Loader, NEW rows \in SUBSET Order, InsertIgnore(p, rows),
         UNCHANGED AtWork
  PROVE  Sound /\ \A o \in rows : status'[o] # "absent"
<1> DEFINE new == Missing(rows)
<1>1. /\ status' = [o \in Order |-> IF o \in new THEN "PENDING" ELSE status[o]]
      /\ source' = [o \in Order |-> IF o \in new THEN p ELSE source[o]]
      /\ UNCHANGED <<leaseOwner, lease, lock>>
      /\ new \in SUBSET rows /\ (\A o \in rows : o \in new <=> status[o] = "absent")
  BY DEF InsertIgnore, Missing
<1> HIDE DEF new
<1>2. TableTypeOK'
  BY <1>1, Constants DEF TableTypeOK
<1>3. NoneVanish /\ \A o \in rows : status'[o] # "absent"
  BY <1>1 DEF TableTypeOK, NoneVanish
<1>4. Promise!Arrive(new)
  <2>1. \A o \in new : status[o] = "absent"
    BY DEF new, Missing
  <2> QED
    BY <1>1, <2>1 DEF Promise!Arrive
<1> HIDE DEF new
<1> QED
  BY <1>1, <1>2, <1>3, <1>4, DispatchSteps DEF Sound, Dispatching

LEMMA StampSound ==
  ASSUME TableTypeOK, NEW w \in Worker, NEW rows \in SUBSET Order, \A o \in rows : Claimable(o),
         StampLease(w, rows), AtWork' \in {AtWork, AtWork \cup {<<w, "worker", o>> : o \in rows}}
  PROVE  Sound /\ UNCHANGED source
<1>1. /\ status' = [o \in Order |-> IF o \in rows THEN "IN_PROGRESS" ELSE status[o]]
      /\ leaseOwner' = [o \in Order |-> IF o \in rows THEN w ELSE leaseOwner[o]]
      /\ lease' = [o \in Order |-> IF o \in rows THEN "live" ELSE lease[o]]
      /\ lock' = [o \in Order |-> IF lock[o] = w THEN Nobody ELSE lock[o]]
      /\ UNCHANGED source
  BY DEF StampLease, Unlock
<1>2. \A o \in rows : status[o] = "PENDING" \/ (status[o] = "IN_PROGRESS" /\ lease[o] = "expired")
  BY DEF Claimable
<1>3. TableTypeOK'
  BY <1>1, <1>2, Constants DEF TableTypeOK
<1>4. NoneVanish
  BY <1>1 DEF NoneVanish
<1>5. Promise!Assign(w, rows)
  BY <1>1, <1>2 DEF Promise!Assign
<1> QED
  BY <1>1, <1>3, <1>4, <1>5, DispatchSteps DEF Sound, Dispatching

LEMMA LockingSound ==
  ASSUME TableTypeOK, UNCHANGED <<status, source, leaseOwner, lease>>,
         lock' \in [Order -> Worker \cup {Nobody}], AtWork' \subseteq AtWork
  PROVE  Sound /\ UNCHANGED source
<1>1. Promise!LetGo
  BY DEF Promise!LetGo
<1> QED
  BY <1>1, DispatchSteps DEF TableTypeOK, Sound, NoneVanish, Dispatching

LEMMA HeartbeatSound ==
  ASSUME TableTypeOK, NEW w \in Worker, NEW o \in Order, Heartbeat(w, o),
         <<w, "worker", o>> \in AtWork, UNCHANGED AtWork
  PROVE  Sound /\ UNCHANGED <<source, lock>>
<1>1. /\ leaseOwner[o] = w /\ w # Nobody /\ lease' = [lease EXCEPT ![o] = "live"]
      /\ UNCHANGED <<status, source, leaseOwner, lock>>
  BY Constants DEF Heartbeat
<1>2. TableTypeOK'
  BY <1>1 DEF TableTypeOK
<1>3. Promise!Renew(w, o)
  BY <1>1 DEF Promise!Renew
<1> QED
  BY <1>1, <1>2, <1>3, DispatchSteps DEF Sound, NoneVanish, Dispatching

LEMMA EndOrderSound ==
  ASSUME TableTypeOK, NEW w \in Worker, NEW o \in Order, EndOrder(w, o),
         NEW role \in {"worker", "api"}, <<w, role, o>> \in AtWork,
         AtWork' = AtWork \ {<<w, role, o>>}
  PROVE  Sound /\ UNCHANGED <<source, lock>>
<1>1. CASE leaseOwner[o] = w
  <2>1. /\ status' = [status EXCEPT ![o] = "ENDED"]
        /\ leaseOwner' = [leaseOwner EXCEPT ![o] = Nobody]
        /\ lease' = [lease EXCEPT ![o] = "null"] /\ UNCHANGED <<source, lock>>
    BY <1>1 DEF EndOrder
  <2>2. status[o] = "IN_PROGRESS"
    BY <1>1, Constants DEF TableTypeOK
  <2>3. TableTypeOK'
    BY <2>1, <2>2 DEF TableTypeOK
  <2>4. NoneVanish
    BY <2>1 DEF TableTypeOK, NoneVanish
  <2>5. Promise!End(w, role, o)
    BY <1>1, <2>1, <2>2 DEF Promise!End
  <2> QED
    BY <2>1, <2>3, <2>4, <2>5, DispatchSteps DEF Sound, Dispatching
<1>2. CASE leaseOwner[o] # w
  <2>1. UNCHANGED <<status, source, leaseOwner, lease, lock>>
    BY <1>2 DEF EndOrder
  <2>2. Promise!LetGo
    BY <2>1 DEF Promise!LetGo
  <2> QED
    BY <2>1, <2>2, DispatchSteps DEF TableTypeOK, Sound, NoneVanish, Dispatching
<1> QED
  BY <1>1, <1>2

LEMMA TakeUpSound ==
  ASSUME TableTypeOK, NEW w \in Worker, NEW o \in Order, TakeUp(w, o),
         AtWork' = AtWork \cup {<<w, "api", o>>}
  PROVE  Sound /\ UNCHANGED <<source, lock>>
<1>1. /\ status[o] = "ENDED" /\ w # Nobody
      /\ status' = [status EXCEPT ![o] = "IN_PROGRESS"]
      /\ leaseOwner' = [leaseOwner EXCEPT ![o] = w]
      /\ lease' = [lease EXCEPT ![o] = "live"] /\ UNCHANGED <<source, lock>>
  BY Constants DEF TakeUp
<1>2. TableTypeOK'
  BY <1>1 DEF TableTypeOK
<1>3. NoneVanish
  BY <1>1 DEF TableTypeOK, NoneVanish
<1>4. Promise!Reopen(w, o)
  BY <1>1 DEF Promise!Reopen
<1> QED
  BY <1>1, <1>2, <1>3, <1>4, DispatchSteps DEF Sound, Dispatching

LEMMA LapseSound ==
  ASSUME TableTypeOK, NEW o \in Order, LeaseLapses(o), UNCHANGED AtWork
  PROVE  Sound /\ UNCHANGED <<source, lock>>
<1>1. /\ lease[o] = "live" /\ lease' = [lease EXCEPT ![o] = "expired"]
      /\ UNCHANGED <<status, source, leaseOwner, lock>>
  BY DEF LeaseLapses
<1>2. TableTypeOK'
  BY <1>1 DEF TableTypeOK
<1>3. Promise!Lapse(o)
  BY <1>1 DEF Promise!Lapse
<1> QED
  BY <1>1, <1>2, <1>3, DispatchSteps DEF Sound, NoneVanish, Dispatching

-----------------------------------------------------------------------------
(* The runs under way.                                                     *)
LEMMA RunsAre ==
  /\ AtWork \subseteq Worker \X {"worker", "api"} \X Order
  /\ \A w \in Worker, o \in Order :
       /\ <<w, "worker", o>> \in AtWork <=> phase[w] = "work" /\ o \in todo[w] \cup doing[w]
       /\ <<w, "api", o>> \in AtWork <=> o \in retrying[w]
BY DEF AtWork

LEMMA RunsWillBe ==
  /\ AtWork' \subseteq Worker \X {"worker", "api"} \X Order
  /\ \A w \in Worker, o \in Order :
       /\ <<w, "worker", o>> \in AtWork' <=> phase'[w] = "work" /\ o \in todo'[w] \cup doing'[w]
       /\ <<w, "api", o>> \in AtWork' <=> o \in retrying'[w]
BY DEF AtWork

LEMMA SameRuns ==
  ASSUME NEW A \in SUBSET (Worker \X {"worker", "api"} \X Order),
         NEW B \in SUBSET (Worker \X {"worker", "api"} \X Order),
         \A w \in Worker, o \in Order :
           /\ <<w, "worker", o>> \in A <=> <<w, "worker", o>> \in B
           /\ <<w, "api", o>> \in A <=> <<w, "api", o>> \in B
  PROVE  A = B
<1>1. ASSUME NEW run \in Worker \X {"worker", "api"} \X Order PROVE run \in A <=> run \in B
  <2>1. PICK w \in Worker, role \in {"worker", "api"}, o \in Order : run = <<w, role, o>>
    OBVIOUS
  <2> QED
    BY <2>1
<1> QED
  BY <1>1

LEMMA OneRunLess ==
  ASSUME NEW w \in Worker, NEW role \in {"worker", "api"}, NEW o \in Order,
         \A u \in Worker, p \in Order, r \in {"worker", "api"} :
           <<u, r, p>> \in AtWork' <=> <<u, r, p>> \in AtWork /\ ~(u = w /\ r = role /\ p = o)
  PROVE  AtWork' = AtWork \ {<<w, role, o>>}
<1> DEFINE B == AtWork \ {<<w, role, o>>}
<1>1. B \in SUBSET (Worker \X {"worker", "api"} \X Order)
  BY RunsAre
<1>2. \A u \in Worker, p \in Order, r \in {"worker", "api"} : <<u, r, p>> \in AtWork' <=> <<u, r, p>> \in B
  OBVIOUS
<1> HIDE DEF B
<1>3. AtWork' = B
  BY <1>1, <1>2, SameRuns, RunsWillBe
<1> QED
  BY <1>3 DEF B

LEMMA OneRunMore ==
  ASSUME NEW w \in Worker, NEW role \in {"worker", "api"}, NEW o \in Order,
         \A u \in Worker, p \in Order, r \in {"worker", "api"} :
           <<u, r, p>> \in AtWork' <=> <<u, r, p>> \in AtWork \/ (u = w /\ r = role /\ p = o)
  PROVE  AtWork' = AtWork \cup {<<w, role, o>>}
<1> DEFINE B == AtWork \cup {<<w, role, o>>}
<1>1. B \in SUBSET (Worker \X {"worker", "api"} \X Order)
  BY RunsAre
<1>2. \A u \in Worker, p \in Order, r \in {"worker", "api"} : <<u, r, p>> \in AtWork' <=> <<u, r, p>> \in B
  OBVIOUS
<1> HIDE DEF B
<1>3. AtWork' = B
  BY <1>1, <1>2, SameRuns, RunsWillBe
<1> QED
  BY <1>3 DEF B

LEMMA RunsKept == ASSUME UNCHANGED <<phase, todo, doing, retrying>> PROVE UNCHANGED AtWork
BY DEF AtWork

LEMMA RunsShrink ==
  ASSUME \A w \in Worker :
           /\ retrying'[w] \subseteq retrying[w]
           /\ phase'[w] = "work" =>
                phase[w] = "work" /\ todo'[w] \cup doing'[w] \subseteq todo[w] \cup doing[w]
  PROVE  AtWork' \subseteq AtWork
BY DEF AtWork

-----------------------------------------------------------------------------
(* The loaders.                                                            *)
LEMMA BufferOrders ==
  ASSUME IngestTypeOK, NEW p \in Loader
  PROVE  Buffer(p) \in SUBSET Order
<1>1. File \in Seq(Order) /\ read[p] \in 0..Len(File) /\ flushed[p] \in 0..Len(File)
  BY Constants DEF IngestTypeOK
<1>2. \A k \in (flushed[p] + 1)..read[p] : k \in 1..Len(File)
  BY <1>1, Constants
<1>3. \A k \in 1..Len(File) : File[k] \in Order
  BY <1>1
<1> QED
  BY <1>2, <1>3 DEF Buffer, Rows

LEMMA FlushedRows ==
  ASSUME IngestTypeOK, NEW p \in Loader
  PROVE  Rows(1, read[p]) \subseteq Rows(1, flushed[p]) \cup Buffer(p)
<1>1. read[p] \in Nat /\ flushed[p] \in Nat
  BY Constants DEF IngestTypeOK
<1>2. \A k \in 1..read[p] : k \in 1..flushed[p] \/ k \in (flushed[p] + 1)..read[p]
  BY <1>1
<1> QED
  BY <1>2 DEF Buffer, Rows

(* The new rows are counted by the loader whose INSERT made them, and by   *)
(* no other.                                                               *)
LEMMA InsertIgnoreCounts ==
  ASSUME TableTypeOK, CountsAreTrue, NEW p \in Loader, NEW rows \in SUBSET Order,
         InsertIgnore(p, rows), reading[p] # "failed"
  PROVE  /\ inserted[p] + Cardinality(Missing(rows)) = Cardinality({o \in Order : source'[o] = p})
         /\ \A q \in Loader \ {p} : {o \in Order : source'[o] = q} = {o \in Order : source[o] = q}
<1> DEFINE new == Missing(rows)
           old == {o \in Order : source[o] = p}
<1>1. /\ source' = [o \in Order |-> IF o \in new THEN p ELSE source[o]]
      /\ new \in SUBSET Order /\ \A o \in new : status[o] = "absent"
  BY DEF InsertIgnore, Missing
<1>2. \A o \in new : source[o] = Nobody
  BY <1>1 DEF TableTypeOK
<1>3. {o \in Order : source'[o] = p} = old \cup new /\ old \cap new = {}
  BY <1>1, <1>2, Constants
<1>4. inserted[p] = Cardinality(old)
  BY DEF CountsAreTrue
<1>5. /\ IsFiniteSet(old) /\ IsFiniteSet(new)
      /\ Cardinality(old) \in Nat /\ Cardinality(new) \in Nat
  BY <1>1, OrderFinite
<1>6. Cardinality(old \cup new) = Cardinality(old) + Cardinality(new) - Cardinality(old \cap new)
  BY <1>5, FS_Union
<1>7. Cardinality(old \cap new) = 0
  BY <1>3, FS_EmptySet
<1>8. \A q \in Loader \ {p} : {o \in Order : source'[o] = q} = {o \in Order : source[o] = q}
  BY <1>1, <1>2, Constants
<1> HIDE DEF old, new
<1>9. Cardinality(old \cup new) = Cardinality(old) + Cardinality(new)
  BY <1>5, <1>6, <1>7
<1> QED
  BY <1>3, <1>4, <1>8, <1>9 DEF new

(* What a step of a loader keeps of its own.                               *)
LoaderKept == IngestTypeOK' /\ LoadInv' /\ CountsAreTrue'

LEMMA ReadingStep ==
  ASSUME IntakeInv, NEW p \in Loader, ReadRow(p) \/ EndOfFile(p) \/ LoaderDies(p)
  PROVE  LoaderKept /\ UNCHANGED tableVars
<1>1. UNCHANGED <<tableVars, flushed, inserted>>
  BY DEF ReadRow, EndOfFile, LoaderDies
<1>2. UNCHANGED <<status, source>>
  BY <1>1 DEF tableVars
<1>3. PICK n \in Nat : n = Len(File)
  BY Constants
<1>4. IngestTypeOK'
  <2> USE DEF IntakeInv, IntakeTypeOK, IngestTypeOK
  <2>1. CASE ReadRow(p)
    <3>1. read[p] < n /\ read[p] \in Nat /\ flushed[p] \in Nat /\ flushed[p] <= read[p]
      BY <1>3, <2>1 DEF ReadRow
    <3>2. read[p] - flushed[p] < FlushSize
      BY <2>1 DEF ReadRow, LoadInv
    <3>3. read' \in [Loader -> 0..n] /\ reading' \in [Loader -> {"open", "flush", "last", "done", "failed"}]
      BY <1>3, <2>1, <3>1 DEF ReadRow
    <3>4. \A q \in Loader : flushed[q] <= read'[q] /\ read'[q] - flushed[q] <= FlushSize
      BY <1>3, <2>1, <3>1, <3>2, Constants DEF ReadRow
    <3> QED
      BY <1>1, <1>3, <3>3, <3>4
  <2>2. CASE EndOfFile(p) \/ LoaderDies(p)
    BY <1>1, <2>2 DEF EndOfFile, LoaderDies
  <2> QED
    BY <2>1, <2>2
<1>5. LoadInv'
  <2> USE DEF IntakeInv, IntakeTypeOK, IngestTypeOK, LoadInv
  <2>1. \A q \in Loader : \A o \in Rows(1, flushed'[q]) : status'[o] # "absent"
    BY <1>1, <1>2
  <2>2. \A q \in Loader \ {p} : reading'[q] = reading[q] /\ read'[q] = read[q]
    BY DEF ReadRow, EndOfFile, LoaderDies
  <2>3. /\ reading'[p] = "open" => read'[p] - flushed[p] < FlushSize
        /\ reading'[p] \in {"last", "done"} => read'[p] = Len(File)
        /\ reading'[p] # "done"
    <3>1. CASE ReadRow(p)
      BY <1>3, <3>1, Constants DEF ReadRow
    <3>2. CASE EndOfFile(p) \/ LoaderDies(p)
      BY <3>2 DEF EndOfFile, LoaderDies
    <3> QED
      BY <3>1, <3>2
  <2> QED
    BY <1>1, <2>1, <2>2, <2>3 DEF Rows
<1>6. CountsAreTrue'
  BY <1>1, <1>2
     DEF IntakeInv, IntakeTypeOK, IngestTypeOK, CountsAreTrue, ReadRow, EndOfFile, LoaderDies
<1> QED
  BY <1>1, <1>4, <1>5, <1>6 DEF LoaderKept

LEMMA FlushStep ==
  ASSUME IntakeInv, NEW p \in Loader, Flush(p), UNCHANGED AtWork
  PROVE  LoaderKept /\ Sound /\ InsertIgnore(p, Buffer(p))
<1> DEFINE new == Missing(Buffer(p))
<1>1. /\ reading[p] \in {"flush", "last"} /\ InsertIgnore(p, Buffer(p))
      /\ inserted' = [inserted EXCEPT ![p] = @ + Cardinality(new)]
      /\ flushed' = [flushed EXCEPT ![p] = read[p]] /\ UNCHANGED read
      /\ reading' = [reading EXCEPT ![p] = IF reading[p] = "last" THEN "done" ELSE "open"]
  BY DEF Flush
<1>2. Sound /\ \A o \in Buffer(p) : status'[o] # "absent"
  BY <1>1, BufferOrders, InsertIgnoreSound DEF IntakeInv, IntakeTypeOK
<1>3. /\ inserted[p] + Cardinality(new) = Cardinality({o \in Order : source'[o] = p})
      /\ \A q \in Loader \ {p} : {o \in Order : source'[o] = q} = {o \in Order : source[o] = q}
  BY <1>1, BufferOrders, InsertIgnoreCounts DEF IntakeInv, IntakeTypeOK
<1>4. inserted[p] + Cardinality(new) \in 0..LastId
  <2>1. {o \in Order : source'[o] = p} \in SUBSET Order
    OBVIOUS
  <2> QED
    BY <1>3, <2>1, OrderFinite, Constants
<1> HIDE DEF new
<1>5. PICK n \in Nat : n = Len(File)
  BY Constants
<1>6. IngestTypeOK'
  BY <1>1, <1>4, <1>5, Constants DEF IntakeInv, IntakeTypeOK, IngestTypeOK
<1>7. LoadInv'
  <2>1. \A q \in Loader \ {p} : /\ reading'[q] = reading[q] /\ flushed'[q] = flushed[q]
                                /\ read'[q] = read[q]
    BY <1>1 DEF IntakeInv, IntakeTypeOK, IngestTypeOK
  <2>2. /\ flushed'[p] = read[p] /\ read'[p] = read[p] /\ read[p] \in Nat
        /\ reading'[p] = IF reading[p] = "last" THEN "done" ELSE "open"
    BY <1>1, <1>5 DEF IntakeInv, IntakeTypeOK, IngestTypeOK
  <2>3. \A q \in Loader, o \in Order : o \in Rows(1, flushed[q]) => status'[o] # "absent"
    BY <1>2 DEF Sound, NoneVanish, IntakeInv, LoadInv
  <2>4. Rows(1, read[p]) \subseteq Rows(1, flushed[p]) \cup Buffer(p)
    BY FlushedRows DEF IntakeInv, IntakeTypeOK
  <2>5. \A q \in Loader : Rows(1, flushed[q]) \subseteq Order
    <3>1. File \in Seq(Order) /\ \A q \in Loader : flushed[q] \in 0..Len(File)
      BY Constants DEF IntakeInv, IntakeTypeOK, IngestTypeOK
    <3>2. \A q \in Loader : \A k \in 1..flushed[q] : k \in 1..Len(File)
      BY <3>1, Constants
    <3> QED
      BY <3>1, <3>2 DEF Rows
  <2>6. \A o \in Rows(1, read[p]) : status'[o] # "absent"
    BY <1>2, <2>3, <2>4, <2>5
  <2>7. \A q \in Loader : \A o \in Rows(1, flushed'[q]) : status'[o] # "absent"
    BY <2>1, <2>2, <2>3, <2>5, <2>6
  <2>8. \A q \in Loader : /\ reading'[q] = "open" => read'[q] - flushed'[q] < FlushSize
                          /\ reading'[q] \in {"last", "done"} => read'[q] = Len(File)
                          /\ reading'[q] = "done" => flushed'[q] = read'[q]
    BY <1>1, <2>1, <2>2, Constants DEF IntakeInv, LoadInv
  <2> QED
    BY <2>7, <2>8 DEF LoadInv, Rows
<1>8. CountsAreTrue'
  BY <1>1, <1>3 DEF IntakeInv, IntakeTypeOK, IngestTypeOK, CountsAreTrue
<1> QED
  BY <1>1, <1>2, <1>6, <1>7, <1>8 DEF LoaderKept

LEMMA FlushUnheardStep ==
  ASSUME IntakeInv, NEW p \in Loader, FlushUnheard(p), UNCHANGED AtWork
  PROVE  LoaderKept /\ Sound /\ InsertIgnore(p, Buffer(p))
<1>1. /\ reading[p] \in {"flush", "last"} /\ InsertIgnore(p, Buffer(p))
      /\ reading' = [reading EXCEPT ![p] = "failed"] /\ UNCHANGED <<read, flushed, inserted>>
  BY DEF FlushUnheard
<1>2. Sound
  BY <1>1, BufferOrders, InsertIgnoreSound DEF IntakeInv, IntakeTypeOK
<1>3. \A q \in Loader \ {p} : {o \in Order : source'[o] = q} = {o \in Order : source[o] = q}
  BY <1>1, BufferOrders, InsertIgnoreCounts DEF IntakeInv, IntakeTypeOK
<1>4. IngestTypeOK'
  BY <1>1 DEF IntakeInv, IntakeTypeOK, IngestTypeOK
<1>5. LoadInv'
  <2>1. \A q \in Loader : \A o \in Rows(1, flushed[q]) : o \in Order
    <3>1. File \in Seq(Order) /\ \A q \in Loader : flushed[q] \in 0..Len(File)
      BY Constants DEF IntakeInv, IntakeTypeOK, IngestTypeOK
    <3>2. \A q \in Loader : \A k \in 1..flushed[q] : k \in 1..Len(File)
      BY <3>1, Constants
    <3> QED
      BY <3>1, <3>2 DEF Rows
  <2>2. \A q \in Loader : \A o \in Rows(1, flushed[q]) : status'[o] # "absent"
    BY <1>2, <2>1 DEF Sound, NoneVanish, IntakeInv, LoadInv
  <2> QED
    BY <1>1, <2>2 DEF IntakeInv, IntakeTypeOK, IngestTypeOK, LoadInv, Rows
<1>6. CountsAreTrue'
  BY <1>1, <1>3 DEF IntakeInv, IntakeTypeOK, IngestTypeOK, CountsAreTrue
<1> QED
  BY <1>1, <1>2, <1>4, <1>5, <1>6 DEF LoaderKept

(* An INSERT leaves the claims alone: what they have locked is in the      *)
(* table already, so it changes nothing of it.                             *)
LEMMA InsertIgnoreClaims ==
  ASSUME IntakeInv, NEW p \in Loader, NEW rows \in SUBSET Order, InsertIgnore(p, rows),
         UNCHANGED loopVars
  PROVE  ClaimInv' /\ LoopTypeOK'
<1>1. /\ \A o \in Order : lock[o] # Nobody => status'[o] = status[o]
      /\ UNCHANGED <<leaseOwner, lease, lock, life, phase, attempt, todo, doing, signal, retrying>>
  BY DEF InsertIgnore, Missing, loopVars, claimVars
<1> QED
  BY <1>1 DEF IntakeInv, IntakeTypeOK, ClaimInv, LoopTypeOK, Claimable

-----------------------------------------------------------------------------
(* The claim loops.                                                        *)
LEMMA DoingAdd ==
  ASSUME NEW rows \in SUBSET Order, NEW o \in Order, Cardinality(rows) < Concurrency
  PROVE  Cardinality(rows \cup {o}) <= Concurrency
<1>1. IsFiniteSet(rows) /\ Cardinality(rows) \in Nat
  BY OrderFinite
<1>2. Cardinality(rows \cup {o}) = IF o \in rows THEN Cardinality(rows) ELSE Cardinality(rows) + 1
  BY <1>1, FS_AddElement
<1> QED
  BY <1>1, <1>2, Constants

LEMMA DoingRemove ==
  ASSUME NEW rows \in SUBSET Order, NEW o, Cardinality(rows) <= Concurrency
  PROVE  Cardinality(rows \ {o}) <= Concurrency
<1>1. IsFiniteSet(rows) /\ Cardinality(rows) \in Nat
  BY OrderFinite
<1>2. Cardinality(rows \ {o}) \in Nat /\ Cardinality(rows \ {o}) <= Cardinality(rows)
  BY <1>1, FS_Subset, OrderFinite
<1> QED
  BY <1>1, <1>2, Constants

LEMMA DoingNone == Cardinality({}) <= Concurrency
BY FS_EmptySet, Constants

LoopKept == LoopTypeOK' /\ ClaimInv' /\ Sound /\ UNCHANGED source

LEMMA SelectStep ==
  ASSUME IntakeInv, NEW w \in Worker, Select(w)
  PROVE  LoopKept
<1>1. PICK batch \in SUBSET Order :
        /\ \A o \in batch : Claimable(o) /\ lock[o] = Nobody
        /\ todo' = [todo EXCEPT ![w] = batch]
        /\ lock' = [o \in Order |-> IF o \in batch THEN w ELSE lock[o]]
        /\ \/ /\ batch = {} /\ phase' = [phase EXCEPT ![w] = "sleep"]
              /\ attempt' = [attempt EXCEPT ![w] = 1]
           \/ phase' = [phase EXCEPT ![w] = "stamp"] /\ UNCHANGED attempt
  BY DEF Select, Oldest, Goto, Attempt
<1>2. /\ life[w] = "up" /\ phase[w] = "begin" /\ w # Nobody
      /\ UNCHANGED <<status, source, leaseOwner, lease, life, doing, signal, retrying>>
  BY Constants DEF Select, At
<1>3. \A o \in Order : lock[o] # w
  BY <1>2 DEF IntakeInv, ClaimInv
<1>4. todo[w] = {} /\ doing[w] = {} /\ signal[w] # "idle"
  BY <1>2 DEF IntakeInv, ClaimInv
<1>5. LoopTypeOK'
  <2> USE DEF IntakeInv, IntakeTypeOK, LoopTypeOK
  <2>1. /\ phase' \in [Worker -> {"begin", "stamp", "sleep", "work", "ended"}]
        /\ attempt' \in [Worker -> 1..MaxTries]
    <3>1. attempt' = attempt \/ attempt' = [attempt EXCEPT ![w] = 1]
      BY <1>1
    <3>2. PICK where : phase' = [phase EXCEPT ![w] = where] /\ where \in {"sleep", "stamp"}
      BY <1>1
    <3>3. attempt' \in [Worker -> 1..MaxTries]
      <4>1. 1 \in 1..MaxTries /\ attempt \in [Worker -> 1..MaxTries]
        BY Constants
      <4> HIDE DEF LoopTypeOK
      <4> QED
        BY <3>1, <4>1
    <3>4. phase' \in [Worker -> {"begin", "stamp", "sleep", "work", "ended"}]
      BY <3>2
    <3> QED
      BY <3>3, <3>4
  <2>2. todo' \in [Worker -> SUBSET Order]
    BY <1>1
  <2>3. \A u \in Worker : todo'[u] \cap doing[u] = {}
    BY <1>1, <1>4
  <2> QED
    BY <1>2, <2>1, <2>2, <2>3
<1>6. lock' \in [Order -> Worker \cup {Nobody}]
  BY <1>1 DEF IntakeInv, IntakeTypeOK, TableTypeOK
<1>7. ClaimInv'
  <2>1. \A o \in Order : Claimable(o)' <=> Claimable(o)
    BY <1>2 DEF Claimable
  <2>2. \A u \in Worker \ {w} : /\ todo'[u] = todo[u] /\ phase'[u] = phase[u]
    BY <1>1 DEF IntakeInv, IntakeTypeOK, LoopTypeOK
  <2>3. \A o \in Order : lock'[o] # Nobody =>
          phase'[lock'[o]] = "stamp" /\ o \in todo'[lock'[o]] /\ Claimable(o)
    BY <1>1, <1>2, <1>3 DEF IntakeInv, IntakeTypeOK, LoopTypeOK, TableTypeOK, ClaimInv
  <2>4. \A u \in Worker : phase'[u] = "stamp" => \A o \in todo'[u] : lock'[o] = u
    <3>1. ASSUME NEW u \in Worker \ {w}, phase[u] = "stamp", NEW o \in todo[u]
          PROVE  lock'[o] = u
      <4>1. lock[o] = u /\ o \in Order /\ u # Nobody
        BY <3>1, Constants DEF IntakeInv, IntakeTypeOK, LoopTypeOK, ClaimInv
      <4> QED
        BY <1>1, <4>1
    <3>2. ASSUME phase'[w] = "stamp", NEW o \in todo'[w]
          PROVE  lock'[o] = w
      BY <1>1, <3>2 DEF IntakeInv, IntakeTypeOK, LoopTypeOK
    <3> QED
      BY <2>2, <3>1, <3>2
  <2>5. \A u \in Worker : /\ phase'[u] \notin {"stamp", "work"} => todo'[u] = {}
                          /\ phase'[u] # "work" => doing'[u] = {}
                          /\ life'[u] # "up" => phase'[u] = "ended"
                          /\ signal'[u] = "idle" => phase'[u] \in {"sleep", "ended"}
    BY <1>1, <1>2, <1>4 DEF IntakeInv, IntakeTypeOK, LoopTypeOK, ClaimInv
  <2> QED
    BY <2>1, <2>3, <2>4, <2>5 DEF ClaimInv
<1>8. AtWork' \subseteq AtWork
  <2>1. \A u \in Worker : phase'[u] = "work" => u # w /\ phase[u] = "work" /\ todo'[u] = todo[u]
    BY <1>1 DEF IntakeInv, IntakeTypeOK, LoopTypeOK
  <2> QED
    BY <1>2, <2>1, RunsShrink
<1> QED
  BY <1>2, <1>5, <1>6, <1>7, <1>8, LockingSound DEF LoopKept, IntakeInv, IntakeTypeOK

(* A step that frees the locks of one worker, whose claim is over, leaves  *)
(* the others' claims as they are.                                         *)
LEMMA UnlockClaims ==
  ASSUME IntakeInv, NEW w \in Worker, NEW rest \in SUBSET Order,
         lock' = [o \in Order |-> IF lock[o] = w THEN Nobody ELSE lock[o]],
         phase'[w] # "stamp", NEW where, phase' = [phase EXCEPT ![w] = where],
         todo' = [todo EXCEPT ![w] = rest],
         \A o \in Order : lock[o] # w => (Claimable(o)' <=> Claimable(o))
  PROVE  /\ \A o \in Order : lock'[o] # Nobody =>
              phase'[lock'[o]] = "stamp" /\ o \in todo'[lock'[o]] /\ Claimable(o)'
         /\ \A u \in Worker : phase'[u] = "stamp" => \A o \in todo'[u] : lock'[o] = u
<1>1. \A u \in Worker \ {w} : todo'[u] = todo[u] /\ phase'[u] = phase[u]
  BY DEF IntakeInv, IntakeTypeOK, LoopTypeOK
<1>2. \A o \in Order : lock'[o] # Nobody =>
        phase'[lock'[o]] = "stamp" /\ o \in todo'[lock'[o]] /\ Claimable(o)'
  <2> SUFFICES ASSUME NEW o \in Order, lock'[o] # Nobody
               PROVE  phase'[lock'[o]] = "stamp" /\ o \in todo'[lock'[o]] /\ Claimable(o)'
    OBVIOUS
  <2>1. lock'[o] = lock[o] /\ lock[o] \in Worker \ {w}
    BY DEF IntakeInv, IntakeTypeOK, TableTypeOK
  <2>2. phase[lock[o]] = "stamp" /\ o \in todo[lock[o]] /\ Claimable(o)
    BY <2>1 DEF IntakeInv, ClaimInv
  <2> QED
    BY <1>1, <2>1, <2>2
<1>3. ASSUME NEW u \in Worker, phase'[u] = "stamp", NEW o \in todo'[u]
      PROVE  lock'[o] = u
  <2>1. u # w /\ phase[u] = "stamp" /\ o \in todo[u]
    BY <1>1, <1>3
  <2>2. lock[o] = u /\ o \in Order
    BY <2>1 DEF IntakeInv, IntakeTypeOK, LoopTypeOK, ClaimInv
  <2> QED
    BY <2>1, <2>2
<1> QED
  BY <1>2, <1>3

LEMMA StampStep ==
  ASSUME IntakeInv, NEW w \in Worker, Stamp(w) \/ StampUnheard(w)
  PROVE  LoopKept
<1>1. PICK rest \in {todo[w], {}}, where \in {"work", "sleep"} :
        /\ todo' = [todo EXCEPT ![w] = rest] /\ phase' = [phase EXCEPT ![w] = where]
        /\ where = "sleep" => rest = {}
        /\ where = "work" => rest = todo[w]
  <2>1. Stamp(w) => todo' = [todo EXCEPT ![w] = todo[w]]
    BY DEF Stamp, IntakeInv, IntakeTypeOK, LoopTypeOK
  <2> QED
    BY <2>1 DEF Stamp, StampUnheard, Goto
<1>2. /\ life[w] = "up" /\ phase[w] = "stamp" /\ StampLease(w, todo[w])
      /\ attempt' = [attempt EXCEPT ![w] = 1] /\ UNCHANGED <<life, doing, signal, retrying>>
  BY DEF Stamp, StampUnheard, At, Attempt
<1>3. /\ todo[w] \in SUBSET Order /\ rest \in SUBSET Order
      /\ \A o \in todo[w] : lock[o] = w
  BY <1>1, <1>2 DEF IntakeInv, IntakeTypeOK, LoopTypeOK, ClaimInv
<1>4. \A o \in todo[w] : Claimable(o)
  BY <1>3, Constants DEF IntakeInv, ClaimInv
<1>6. doing[w] = {} /\ signal[w] # "idle"
  BY <1>2 DEF IntakeInv, ClaimInv
<1>5. Sound /\ UNCHANGED source
  <2> DEFINE runs == {<<w, "worker", o>> : o \in todo[w]}
  <2>1. /\ \A u \in Worker \ {w} : phase'[u] = phase[u] /\ todo'[u] = todo[u]
        /\ phase'[w] = where /\ todo'[w] = rest
    BY <1>1 DEF IntakeInv, IntakeTypeOK, LoopTypeOK
  <2>2. \A u \in Worker, o \in Order :
          /\ <<u, "worker", o>> \in AtWork' <=>
               <<u, "worker", o>> \in AtWork \/ (where = "work" /\ u = w /\ o \in todo[w])
          /\ <<u, "api", o>> \in AtWork' <=> <<u, "api", o>> \in AtWork
    BY <1>1, <1>2, <1>6, <2>1, RunsAre, RunsWillBe
  <2>3. \A u \in Worker, o \in Order :
          /\ <<u, "worker", o>> \in runs <=> u = w /\ o \in todo[w]
          /\ <<u, "api", o>> \notin runs
    OBVIOUS
  <2>4. runs \subseteq Worker \X {"worker", "api"} \X Order
    BY <1>3
  <2> HIDE DEF runs
  <2>5. AtWork' = IF where = "work" THEN AtWork \cup runs ELSE AtWork
    <3> DEFINE B == IF where = "work" THEN AtWork \cup runs ELSE AtWork
    <3>1. B \in SUBSET (Worker \X {"worker", "api"} \X Order)
      BY <2>4, RunsAre
    <3>2. \A u \in Worker, o \in Order :
            /\ <<u, "worker", o>> \in AtWork' <=> <<u, "worker", o>> \in B
            /\ <<u, "api", o>> \in AtWork' <=> <<u, "api", o>> \in B
      BY <2>2, <2>3
    <3> HIDE DEF B
    <3>3. AtWork' = B
      BY <3>1, <3>2, SameRuns, RunsWillBe
    <3> QED
      BY <3>3 DEF B
  <2> QED
    BY <1>2, <1>3, <1>4, <2>5, StampSound DEF IntakeInv, IntakeTypeOK, runs
<1>7. LoopTypeOK'
  BY <1>1, <1>2, <1>3, <1>6, Constants DEF IntakeInv, IntakeTypeOK, LoopTypeOK
<1>8. lock' = [o \in Order |-> IF lock[o] = w THEN Nobody ELSE lock[o]]
  BY <1>2 DEF StampLease, Unlock
<1>9. \A o \in Order : lock[o] # w => (Claimable(o)' <=> Claimable(o))
  BY <1>2, <1>3 DEF StampLease, Claimable
<1>10. phase'[w] # "stamp"
  BY <1>1 DEF IntakeInv, IntakeTypeOK, LoopTypeOK
<1>11. /\ \A o \in Order : lock'[o] # Nobody =>
            phase'[lock'[o]] = "stamp" /\ o \in todo'[lock'[o]] /\ Claimable(o)'
       /\ \A u \in Worker : phase'[u] = "stamp" => \A o \in todo'[u] : lock'[o] = u
  BY <1>1, <1>3, <1>8, <1>9, <1>10, UnlockClaims
<1>12. \A u \in Worker : /\ phase'[u] \notin {"stamp", "work"} => todo'[u] = {}
                         /\ phase'[u] # "work" => doing'[u] = {}
                         /\ life'[u] # "up" => phase'[u] = "ended"
                         /\ signal'[u] = "idle" => phase'[u] \in {"sleep", "ended"}
  BY <1>1, <1>2, <1>6 DEF IntakeInv, IntakeTypeOK, LoopTypeOK, ClaimInv
<1> QED
  BY <1>5, <1>7, <1>11, <1>12 DEF LoopKept, ClaimInv

LEMMA FailedClaimStep ==
  ASSUME IntakeInv, NEW w \in Worker, Deadlock(w) \/ ClaimFails(w)
  PROVE  LoopKept
<1>1. PICK where \in {"begin", "sleep"} : phase' = [phase EXCEPT ![w] = where]
  BY DEF Deadlock, ClaimFails, Goto
<1>2. /\ life[w] = "up" /\ phase[w] \in {"begin", "stamp"}
      /\ lock' = [o \in Order |-> IF lock[o] = w THEN Nobody ELSE lock[o]]
      /\ todo' = [todo EXCEPT ![w] = {}]
      /\ UNCHANGED <<status, source, leaseOwner, lease, life, doing, signal, retrying>>
  BY DEF Deadlock, ClaimFails, At, Rollback, Unlock
<1>3. PICK k \in 1..MaxTries : attempt' = [attempt EXCEPT ![w] = k]
  BY Constants DEF Deadlock, ClaimFails, Attempt, IntakeInv, IntakeTypeOK, LoopTypeOK
<1>4. doing[w] = {} /\ signal[w] # "idle"
  BY <1>2 DEF IntakeInv, ClaimInv
<1>5. LoopTypeOK'
  BY <1>1, <1>2, <1>3 DEF IntakeInv, IntakeTypeOK, LoopTypeOK
<1>6. Sound /\ UNCHANGED source
  <2>1. lock' \in [Order -> Worker \cup {Nobody}]
    BY <1>2 DEF IntakeInv, IntakeTypeOK, TableTypeOK
  <2>2. \A u \in Worker : phase'[u] = "work" => phase[u] = "work" /\ todo'[u] = todo[u]
    BY <1>1, <1>2 DEF IntakeInv, IntakeTypeOK, LoopTypeOK
  <2>3. AtWork' \subseteq AtWork
    BY <1>2, <2>2, RunsShrink
  <2> QED
    BY <1>2, <2>1, <2>3, LockingSound DEF IntakeInv, IntakeTypeOK
<1>7. \A o \in Order : Claimable(o)' <=> Claimable(o)
  BY <1>2 DEF Claimable
<1>8. phase'[w] # "stamp"
  BY <1>1 DEF IntakeInv, IntakeTypeOK, LoopTypeOK
<1>9. /\ \A o \in Order : lock'[o] # Nobody =>
           phase'[lock'[o]] = "stamp" /\ o \in todo'[lock'[o]] /\ Claimable(o)'
      /\ \A u \in Worker : phase'[u] = "stamp" => \A o \in todo'[u] : lock'[o] = u
  BY <1>1, <1>2, <1>7, <1>8, UnlockClaims
<1>10. \A u \in Worker : /\ phase'[u] \notin {"stamp", "work"} => todo'[u] = {}
                         /\ phase'[u] # "work" => doing'[u] = {}
                         /\ life'[u] # "up" => phase'[u] = "ended"
                         /\ signal'[u] = "idle" => phase'[u] \in {"sleep", "ended"}
  BY <1>1, <1>2, <1>4 DEF IntakeInv, IntakeTypeOK, LoopTypeOK, ClaimInv
<1> QED
  BY <1>5, <1>6, <1>9, <1>10 DEF LoopKept, ClaimInv

LEMMA GoneStep ==
  ASSUME IntakeInv, NEW w \in Worker, life[w] = "up", NEW how \in {"crashed", "exited"}, Gone(w, how)
  PROVE  LoopKept
<1>1. /\ phase' = [phase EXCEPT ![w] = "ended"] /\ attempt' = [attempt EXCEPT ![w] = 1]
      /\ life' = [life EXCEPT ![w] = how] /\ signal' = [signal EXCEPT ![w] = "none"]
      /\ todo' = [todo EXCEPT ![w] = {}] /\ doing' = [doing EXCEPT ![w] = {}]
      /\ retrying' = [retrying EXCEPT ![w] = {}]
      /\ lock' = [o \in Order |-> IF lock[o] = w THEN Nobody ELSE lock[o]]
      /\ UNCHANGED <<status, source, leaseOwner, lease>>
  BY DEF Gone, Goto, Attempt, Unlock
<1>2. LoopTypeOK'
  <2> USE DEF IntakeInv, IntakeTypeOK, LoopTypeOK
  <2>1. \A u \in Worker : Cardinality(doing'[u]) <= Concurrency /\ todo'[u] \cap doing'[u] = {}
    BY <1>1, DoingNone
  <2>2. /\ todo' \in [Worker -> SUBSET Order] /\ doing' \in [Worker -> SUBSET Order]
        /\ retrying' \in [Worker -> SUBSET Order]
    BY <1>1
  <2> QED
    BY <1>1, <2>1, <2>2, Constants
<1>3. Sound /\ UNCHANGED source
  <2>1. lock' \in [Order -> Worker \cup {Nobody}]
    BY <1>1 DEF IntakeInv, IntakeTypeOK, TableTypeOK
  <2>2. \A u \in Worker :
          /\ retrying'[u] \subseteq retrying[u]
          /\ phase'[u] = "work" =>
               phase[u] = "work" /\ todo'[u] = todo[u] /\ doing'[u] = doing[u]
    BY <1>1 DEF IntakeInv, IntakeTypeOK, LoopTypeOK
  <2>3. AtWork' \subseteq AtWork
    BY <2>2, RunsShrink
  <2> QED
    BY <1>1, <2>1, <2>3, LockingSound DEF IntakeInv, IntakeTypeOK
<1>4. \A o \in Order : Claimable(o)' <=> Claimable(o)
  BY <1>1 DEF Claimable
<1>5. phase'[w] # "stamp"
  BY <1>1 DEF IntakeInv, IntakeTypeOK, LoopTypeOK
<1>6. /\ \A o \in Order : lock'[o] # Nobody =>
           phase'[lock'[o]] = "stamp" /\ o \in todo'[lock'[o]] /\ Claimable(o)'
      /\ \A u \in Worker : phase'[u] = "stamp" => \A o \in todo'[u] : lock'[o] = u
  BY <1>1, <1>4, <1>5, UnlockClaims
<1>7. \A u \in Worker : /\ phase'[u] \notin {"stamp", "work"} => todo'[u] = {}
                        /\ phase'[u] # "work" => doing'[u] = {}
                        /\ life'[u] # "up" => phase'[u] = "ended"
                        /\ signal'[u] = "idle" => phase'[u] \in {"sleep", "ended"}
  BY <1>1 DEF IntakeInv, IntakeTypeOK, LoopTypeOK, ClaimInv
<1> QED
  BY <1>2, <1>3, <1>6, <1>7 DEF LoopKept, ClaimInv

(* The steps of a loop that leave the table's locks alone.                 *)
LEMMA QuietClaims ==
  ASSUME IntakeInv, NEW w \in Worker, UNCHANGED lock, phase[w] # "stamp", phase'[w] # "stamp",
         \A o \in Order : lock[o] # Nobody => (Claimable(o)' <=> Claimable(o)),
         \A u \in Worker \ {w} : phase'[u] = phase[u] /\ todo'[u] = todo[u]
  PROVE  /\ \A o \in Order : lock'[o] # Nobody =>
              phase'[lock'[o]] = "stamp" /\ o \in todo'[lock'[o]] /\ Claimable(o)'
         /\ \A u \in Worker : phase'[u] = "stamp" => \A o \in todo'[u] : lock'[o] = u
<1>1. ASSUME NEW o \in Order, lock[o] # Nobody
      PROVE  phase'[lock[o]] = "stamp" /\ o \in todo'[lock[o]] /\ Claimable(o)'
  <2>1. lock[o] \in Worker /\ phase[lock[o]] = "stamp" /\ o \in todo[lock[o]] /\ Claimable(o)
    BY <1>1 DEF IntakeInv, IntakeTypeOK, TableTypeOK, ClaimInv
  <2> QED
    BY <1>1, <2>1
<1>2. ASSUME NEW u \in Worker, phase'[u] = "stamp", NEW o \in todo'[u]
      PROVE  lock[o] = u
  BY <1>2 DEF IntakeInv, ClaimInv
<1> QED
  BY <1>1, <1>2

LEMMA WakeStopStep ==
  ASSUME IntakeInv, NEW w \in Worker, Wake(w) \/ Stop(w)
  PROVE  LoopKept
<1>1. UNCHANGED <<tableVars, life, attempt, todo, doing, retrying>>
  BY DEF Wake, Stop
<1>2. UNCHANGED <<status, source, leaseOwner, lease, lock>>
  BY <1>1 DEF tableVars
<1>3. Sound /\ UNCHANGED source
  <2>1. \A u \in Worker : phase'[u] = "work" => phase[u] = "work"
    BY DEF Wake, Stop, GoOn, Goto, IntakeInv, IntakeTypeOK, LoopTypeOK
  <2>2. AtWork' \subseteq AtWork
    BY <1>1, <2>1, RunsShrink
  <2> QED
    BY <1>2, <2>2, LockingSound DEF IntakeInv, IntakeTypeOK, TableTypeOK
<1>4. LoopTypeOK'
  BY <1>1 DEF IntakeInv, IntakeTypeOK, LoopTypeOK, Wake, GoOn, Goto, Stop
<1>5. ClaimInv'
  <2>1. \A o \in Order : Claimable(o)' <=> Claimable(o)
    BY <1>2 DEF Claimable
  <2>2. CASE Wake(w)
    <3>1. PICK where \in {"begin", "ended"} :
            /\ phase' = [phase EXCEPT ![w] = where] /\ phase[w] = "sleep" /\ UNCHANGED signal
            /\ life[w] = "up" /\ (signal[w] = "idle" => where = "ended")
      BY <2>2 DEF Wake, At, GoOn, Goto
    <3>2. /\ \A u \in Worker \ {w} : phase'[u] = phase[u] /\ todo'[u] = todo[u]
          /\ phase'[w] = where /\ UNCHANGED lock
      BY <1>1, <1>2, <3>1 DEF IntakeInv, IntakeTypeOK, LoopTypeOK
    <3>3. /\ \A o \in Order : lock'[o] # Nobody =>
               phase'[lock'[o]] = "stamp" /\ o \in todo'[lock'[o]] /\ Claimable(o)'
          /\ \A u \in Worker : phase'[u] = "stamp" => \A o \in todo'[u] : lock'[o] = u
      BY <2>1, <3>1, <3>2, QuietClaims
    <3>4. \A u \in Worker : /\ phase'[u] \notin {"stamp", "work"} => todo'[u] = {}
                            /\ phase'[u] # "work" => doing'[u] = {}
                            /\ life'[u] # "up" => phase'[u] = "ended"
                            /\ signal'[u] = "idle" => phase'[u] \in {"sleep", "ended"}
      BY <1>1, <3>1, <3>2 DEF IntakeInv, ClaimInv
    <3> QED
      BY <3>3, <3>4 DEF ClaimInv
  <2>3. CASE Stop(w)
    <3>1. /\ UNCHANGED phase /\ \A u \in Worker \ {w} : signal'[u] = signal[u]
          /\ signal'[w] = "idle" => phase[w] = "sleep"
      BY <2>3 DEF Stop, IntakeInv, IntakeTypeOK, LoopTypeOK
    <3> QED
      BY <1>1, <1>2, <2>1, <3>1 DEF IntakeInv, ClaimInv
  <2> QED
    BY <2>2, <2>3
<1> QED
  BY <1>3, <1>4, <1>5 DEF LoopKept

LEMMA TakeStep ==
  ASSUME IntakeInv, NEW w \in Worker, NEW o \in Order, Take(w, o)
  PROVE  LoopKept
<1>1. /\ life[w] = "up" /\ phase[w] = "work" /\ Cardinality(doing[w]) < Concurrency
      /\ o \in todo[w]
      /\ todo' = [todo EXCEPT ![w] = @ \ {o}] /\ doing' = [doing EXCEPT ![w] = @ \cup {o}]
      /\ UNCHANGED <<status, source, leaseOwner, lease, lock, life, phase, attempt, signal, retrying>>
  BY DEF Take, At, tableVars
<1>2. Sound /\ UNCHANGED source
  <2>1. \A u \in Worker : todo'[u] \cup doing'[u] \subseteq todo[u] \cup doing[u]
    BY <1>1 DEF IntakeInv, IntakeTypeOK, LoopTypeOK
  <2>2. AtWork' \subseteq AtWork
    BY <1>1, <2>1, RunsShrink
  <2> QED
    BY <1>1, <2>2, LockingSound DEF IntakeInv, IntakeTypeOK, TableTypeOK
<1>3. LoopTypeOK'
  <2> USE DEF IntakeInv, IntakeTypeOK, LoopTypeOK
  <2>1. doing[w] \in SUBSET Order /\ Cardinality(doing[w] \cup {o}) <= Concurrency
    BY <1>1, DoingAdd
  <2>2. \A u \in Worker : Cardinality(doing'[u]) <= Concurrency /\ todo'[u] \cap doing'[u] = {}
    BY <1>1, <2>1
  <2>3. todo' \in [Worker -> SUBSET Order] /\ doing' \in [Worker -> SUBSET Order]
    BY <1>1
  <2> QED
    BY <1>1, <2>2, <2>3
<1>4. \A p \in Order : Claimable(p)' <=> Claimable(p)
  BY <1>1 DEF Claimable
<1>5. \A u \in Worker \ {w} : phase'[u] = phase[u] /\ todo'[u] = todo[u]
  BY <1>1 DEF IntakeInv, IntakeTypeOK, LoopTypeOK
<1>6. /\ \A p \in Order : lock'[p] # Nobody =>
           phase'[lock'[p]] = "stamp" /\ p \in todo'[lock'[p]] /\ Claimable(p)'
      /\ \A u \in Worker : phase'[u] = "stamp" => \A p \in todo'[u] : lock'[p] = u
  BY <1>1, <1>4, <1>5, QuietClaims
<1>7. \A u \in Worker : /\ phase'[u] \notin {"stamp", "work"} => todo'[u] = {}
                        /\ phase'[u] # "work" => doing'[u] = {}
                        /\ life'[u] # "up" => phase'[u] = "ended"
                        /\ signal'[u] = "idle" => phase'[u] \in {"sleep", "ended"}
  BY <1>1 DEF IntakeInv, IntakeTypeOK, LoopTypeOK, ClaimInv
<1> QED
  BY <1>2, <1>3, <1>6, <1>7 DEF LoopKept, ClaimInv

LEMMA LeaveStep ==
  ASSUME IntakeInv, NEW w \in Worker, NEW o \in Order, Finish(w, o) \/ Throws(w, o)
  PROVE  LoopKept
<1>1. /\ life[w] = "up" /\ phase[w] = "work" /\ o \in doing[w]
      /\ doing' = [doing EXCEPT ![w] = @ \ {o}]
      /\ UNCHANGED <<life, attempt, todo, signal, retrying>>
  BY DEF Finish, Throws, Leave, At
<1>2. PICK where \in {"begin", "ended", "work"} :
        /\ phase' = [phase EXCEPT ![w] = where]
        /\ where # "work" => todo[w] = {} /\ doing[w] = {o}
        /\ signal[w] = "idle" => where # "begin"
  <2>1. phase = [phase EXCEPT ![w] = "work"]
    BY <1>1 DEF IntakeInv, IntakeTypeOK, LoopTypeOK
  <2> QED
    BY <2>1 DEF Finish, Throws, Leave, GoOn, Goto
<1>7. /\ AtWork' = AtWork \ {<<w, "worker", o>>}
      /\ <<w, "worker", o>> \in AtWork
  <2>1. /\ \A u \in Worker \ {w} : phase'[u] = phase[u] /\ doing'[u] = doing[u]
        /\ phase'[w] = where /\ doing'[w] = doing[w] \ {o}
    BY <1>1, <1>2 DEF IntakeInv, IntakeTypeOK, LoopTypeOK
  <2>2. todo[w] \cap doing[w] = {}
    BY DEF IntakeInv, IntakeTypeOK, LoopTypeOK
  <2>3. \A u \in Worker, p \in Order :
          /\ <<u, "worker", p>> \in AtWork' <=>
               <<u, "worker", p>> \in AtWork /\ ~(u = w /\ p = o)
          /\ <<u, "api", p>> \in AtWork' <=> <<u, "api", p>> \in AtWork
    BY <1>1, <1>2, <2>1, <2>2, RunsAre, RunsWillBe
  <2> QED
    BY <1>1, <1>2, <2>3, RunsAre, OneRunLess
<1>3. /\ Sound /\ UNCHANGED <<source, lock>>
      /\ \A p \in Order : lock[p] # Nobody => (Claimable(p)' <=> Claimable(p))
  <2>1. CASE Throws(w, o)
    <3>1. UNCHANGED <<status, source, leaseOwner, lease, lock>>
      BY <2>1 DEF Throws, tableVars
    <3> QED
      BY <1>7, <3>1, LockingSound DEF IntakeInv, IntakeTypeOK, TableTypeOK, Claimable
  <2>2. CASE Finish(w, o)
    <3>1. EndOrder(w, o) /\ lock[o] = Nobody
      BY <2>2 DEF Finish, EndOrder
    <3>2. \A p \in Order \ {o} : status'[p] = status[p] /\ lease'[p] = lease[p]
      BY <3>1 DEF EndOrder, IntakeInv, IntakeTypeOK, TableTypeOK
    <3> QED
      BY <1>7, <3>1, <3>2, EndOrderSound DEF IntakeInv, IntakeTypeOK, Claimable
  <2> QED
    BY <2>1, <2>2
<1>4. LoopTypeOK'
  <2> USE DEF IntakeInv, IntakeTypeOK, LoopTypeOK
  <2>1. doing[w] \in SUBSET Order /\ Cardinality(doing[w] \ {o}) <= Concurrency
    BY <1>1, DoingRemove
  <2>2. \A u \in Worker : Cardinality(doing'[u]) <= Concurrency /\ todo'[u] \cap doing'[u] = {}
    BY <1>1, <2>1
  <2>3. doing' \in [Worker -> SUBSET Order]
    BY <1>1
  <2> QED
    BY <1>1, <1>2, <2>2, <2>3
<1>5. /\ \A u \in Worker \ {w} : phase'[u] = phase[u] /\ todo'[u] = todo[u]
      /\ phase'[w] = where
  BY <1>1, <1>2 DEF IntakeInv, IntakeTypeOK, LoopTypeOK
<1>6. /\ \A p \in Order : lock'[p] # Nobody =>
           phase'[lock'[p]] = "stamp" /\ p \in todo'[lock'[p]] /\ Claimable(p)'
      /\ \A u \in Worker : phase'[u] = "stamp" => \A p \in todo'[u] : lock'[p] = u
  BY <1>1, <1>3, <1>5, QuietClaims
<1>8. \A u \in Worker : /\ phase'[u] \notin {"stamp", "work"} => todo'[u] = {}
                        /\ phase'[u] # "work" => doing'[u] = {}
                        /\ life'[u] # "up" => phase'[u] = "ended"
                        /\ signal'[u] = "idle" => phase'[u] \in {"sleep", "ended"}
  BY <1>1, <1>2 DEF IntakeInv, IntakeTypeOK, LoopTypeOK, ClaimInv
<1> QED
  BY <1>3, <1>4, <1>6, <1>8 DEF LoopKept, ClaimInv

(* A lease that is renewed or lapses under a claim changes nothing for it: *)
(* a heartbeat waits for the lock, and only a live lease lapses.           *)
LEMMA LeaseStep ==
  ASSUME IntakeInv, UNCHANGED loopVars, NEW o \in Order,
         (\E w \in Worker : o \in doing[w] /\ Heartbeat(w, o)) \/ LeaseLapses(o)
  PROVE  LoopKept
<1>1. UNCHANGED <<life, phase, attempt, todo, doing, signal, retrying>>
  BY DEF loopVars, claimVars
<1>2. Sound /\ UNCHANGED <<source, lock>>
  <2>1. \A w \in Worker : o \in doing[w] => <<w, "worker", o>> \in AtWork
    BY RunsAre DEF IntakeInv, ClaimInv
  <2> QED
    BY <1>1, <2>1, RunsKept, HeartbeatSound, LapseSound DEF IntakeInv, IntakeTypeOK
<1>3. /\ \A p \in Order \ {o} : lease'[p] = lease[p]
      /\ UNCHANGED status /\ (lock[o] = Nobody \/ lease[o] = "live")
      /\ lock[o] # Nobody => lease'[o] = "expired"
  BY DEF Heartbeat, LeaseLapses, IntakeInv, IntakeTypeOK, TableTypeOK
<1>4. LoopTypeOK'
  BY <1>1 DEF IntakeInv, IntakeTypeOK, LoopTypeOK
<1>5. ClaimInv'
  <2>1. \A p \in Order : lock[p] # Nobody /\ Claimable(p) => Claimable(p)'
    BY <1>3 DEF Claimable
  <2> QED
    BY <1>1, <1>2, <2>1 DEF IntakeInv, ClaimInv
<1> QED
  BY <1>2, <1>4, <1>5 DEF LoopKept

(* A retry waits for the locks, as a heartbeat does, and is none of the    *)
(* loop's business.                                                        *)
LEMMA RetryStep ==
  ASSUME IntakeInv, NEW w \in Worker, NEW o \in Order,
         Retry(w, o) \/ RetryEnds(w, o) \/ RetryThrows(w, o)
  PROVE  LoopKept
<1>1. UNCHANGED <<life, phase, attempt, todo, doing, signal>>
  BY DEF Retry, RetryEnds, RetryThrows, RetryOver, claimVars
<1>2. retrying' \in [Worker -> SUBSET Order]
  BY DEF Retry, RetryEnds, RetryThrows, RetryOver, IntakeInv, IntakeTypeOK, LoopTypeOK
<1>3. CASE Retry(w, o)
  <2>1. TakeUp(w, o) /\ retrying' = [retrying EXCEPT ![w] = @ \cup {o}]
    BY <1>3 DEF Retry
  <2>2. \A u \in Worker, p \in Order :
          /\ <<u, "worker", p>> \in AtWork' <=> <<u, "worker", p>> \in AtWork
          /\ <<u, "api", p>> \in AtWork' <=> <<u, "api", p>> \in AtWork \/ (u = w /\ p = o)
    <3>1. \A u \in Worker : retrying'[u] = IF u = w THEN retrying[u] \cup {o} ELSE retrying[u]
      BY <2>1 DEF IntakeInv, IntakeTypeOK, LoopTypeOK
    <3> QED
      BY <1>1, <3>1, RunsAre, RunsWillBe
  <2>3. AtWork' = AtWork \cup {<<w, "api", o>>}
    BY <2>2, OneRunMore
  <2>4. /\ Sound /\ UNCHANGED <<source, lock>>
        /\ \A p \in Order : lock[p] # Nobody => status'[p] = status[p] /\ lease'[p] = lease[p]
    BY <2>1, <2>3, TakeUpSound DEF IntakeInv, IntakeTypeOK, TableTypeOK, TakeUp
  <2> QED
    BY <1>1, <1>2, <2>4 DEF LoopKept, IntakeInv, IntakeTypeOK, LoopTypeOK, ClaimInv, Claimable
<1>4. CASE RetryEnds(w, o) \/ RetryThrows(w, o)
  <2>1. o \in retrying[w] /\ retrying' = [retrying EXCEPT ![w] = @ \ {o}]
    BY <1>4 DEF RetryEnds, RetryThrows, RetryOver
  <2>2. \A u \in Worker, p \in Order :
          /\ <<u, "worker", p>> \in AtWork' <=> <<u, "worker", p>> \in AtWork
          /\ <<u, "api", p>> \in AtWork' <=> <<u, "api", p>> \in AtWork /\ ~(u = w /\ p = o)
    <3>1. \A u \in Worker : retrying'[u] = IF u = w THEN retrying[u] \ {o} ELSE retrying[u]
      BY <2>1 DEF IntakeInv, IntakeTypeOK, LoopTypeOK
    <3> QED
      BY <1>1, <3>1, RunsAre, RunsWillBe
  <2>3. AtWork' = AtWork \ {<<w, "api", o>>} /\ <<w, "api", o>> \in AtWork
    BY <2>1, <2>2, RunsAre, OneRunLess
  <2>4. /\ Sound /\ UNCHANGED <<source, lock>>
        /\ \A p \in Order : lock[p] # Nobody => status'[p] = status[p] /\ lease'[p] = lease[p]
    <3>1. CASE RetryThrows(w, o)
      <4>1. UNCHANGED <<status, source, leaseOwner, lease, lock>>
        BY <3>1 DEF RetryThrows, tableVars
      <4> QED
        BY <2>3, <4>1, LockingSound DEF IntakeInv, IntakeTypeOK, TableTypeOK
    <3>2. CASE RetryEnds(w, o)
      <4>1. EndOrder(w, o) /\ lock[o] = Nobody
        BY <3>2 DEF RetryEnds, EndOrder
      <4>2. \A p \in Order \ {o} : status'[p] = status[p] /\ lease'[p] = lease[p]
        BY <4>1 DEF EndOrder, IntakeInv, IntakeTypeOK, TableTypeOK
      <4> QED
        BY <2>3, <4>1, <4>2, EndOrderSound DEF IntakeInv, IntakeTypeOK
    <3> QED
      BY <1>4, <3>1, <3>2
  <2> QED
    BY <1>1, <1>2, <2>4 DEF LoopKept, IntakeInv, IntakeTypeOK, LoopTypeOK, ClaimInv, Claimable
<1> QED
  BY <1>3, <1>4

-----------------------------------------------------------------------------
(* What the loops do is nothing to the loaders.                            *)
LEMMA LoadersUndisturbed ==
  ASSUME IntakeInv, LoopKept, UNCHANGED ingestVars
  PROVE  LoaderKept
<1>1. UNCHANGED <<reading, read, flushed, inserted>> /\ NoneVanish /\ UNCHANGED source
  BY DEF ingestVars, LoopKept, Sound
<1>2. IngestTypeOK'
  BY <1>1 DEF IntakeInv, IntakeTypeOK, IngestTypeOK
<1>3. LoadInv'
  <2>1. \A p \in Loader : \A o \in Rows(1, flushed[p]) : o \in Order
    <3>1. File \in Seq(Order) /\ \A p \in Loader : flushed[p] \in 0..Len(File)
      BY Constants DEF IntakeInv, IntakeTypeOK, IngestTypeOK
    <3>2. \A p \in Loader : \A k \in 1..flushed[p] : k \in 1..Len(File)
      BY <3>1, Constants
    <3> QED
      BY <3>1, <3>2 DEF Rows
  <2>2. \A p \in Loader : \A o \in Rows(1, flushed[p]) : status'[o] # "absent"
    BY <1>1, <2>1 DEF NoneVanish, IntakeInv, LoadInv
  <2> QED
    BY <1>1, <2>2 DEF IntakeInv, LoadInv, Rows
<1>4. CountsAreTrue'
  BY <1>1 DEF IntakeInv, CountsAreTrue
<1> QED
  BY <1>2, <1>3, <1>4 DEF LoaderKept

LEMMA IntakeStep ==
  ASSUME IntakeInv, [IntakeNext]_vars
  PROVE  IntakeInv' /\ Dispatching
<1>1. LoopKept /\ LoaderKept => IntakeInv' /\ Dispatching
  BY DEF LoopKept, LoaderKept, Sound, IntakeInv, IntakeTypeOK
<1>2. CASE UNCHANGED vars
  <2>1. /\ UNCHANGED <<status, source, leaseOwner, lease, lock>>
        /\ UNCHANGED <<reading, read, flushed, inserted>>
        /\ UNCHANGED <<life, phase, attempt, todo, doing, signal, retrying>>
    BY <1>2 DEF vars, tableVars, ingestVars, loopVars, claimVars
  <2>2. IntakeTypeOK'
    BY <2>1 DEF IntakeInv, IntakeTypeOK, TableTypeOK, IngestTypeOK, LoopTypeOK
  <2>3. ClaimInv' /\ LoadInv' /\ CountsAreTrue'
    BY <2>1 DEF IntakeInv, ClaimInv, LoadInv, CountsAreTrue, Claimable, Rows
  <2> QED
    BY <2>1, <2>2, <2>3, RunsKept DEF IntakeInv, Dispatching, Promise!dispatchVars
<1>3. ASSUME NEW p \in Loader, IngestNext(p), UNCHANGED loopVars
      PROVE  IntakeInv' /\ Dispatching
  <2>a. UNCHANGED <<life, phase, attempt, todo, doing, signal, retrying>> /\ UNCHANGED AtWork
    BY <1>3, RunsKept DEF loopVars, claimVars
  <2>1. CASE ReadRow(p) \/ EndOfFile(p) \/ LoaderDies(p)
    <3>1. LoaderKept /\ UNCHANGED <<status, source, leaseOwner, lease, lock>>
      BY <2>1, ReadingStep DEF tableVars
    <3>3. LoopKept
      BY <2>a, <3>1, LockingSound
         DEF LoopKept, IntakeInv, IntakeTypeOK, TableTypeOK, LoopTypeOK, ClaimInv, Claimable
    <3> QED
      BY <1>1, <3>1, <3>3
  <2>2. CASE Flush(p) \/ FlushUnheard(p)
    <3>1. LoaderKept /\ Sound /\ InsertIgnore(p, Buffer(p))
      BY <2>2, <2>a, FlushStep, FlushUnheardStep
    <3>2. ClaimInv' /\ LoopTypeOK'
      BY <1>3, <3>1, BufferOrders, InsertIgnoreClaims DEF IntakeInv, IntakeTypeOK
    <3> QED
      BY <3>1, <3>2 DEF LoaderKept, Sound, IntakeInv, IntakeTypeOK
  <2> QED
    BY <1>3, <2>1, <2>2 DEF IngestNext, Load
<1>4. ASSUME NEW w \in Worker, LoopNext(w) \/ Crash(w), UNCHANGED ingestVars
      PROVE  IntakeInv' /\ Dispatching
  <2>1. CASE Select(w) \/ Stamp(w) \/ StampUnheard(w) \/ Deadlock(w) \/ ClaimFails(w)
    BY <1>1, <1>4, <2>1, SelectStep, StampStep, FailedClaimStep, LoadersUndisturbed
  <2>2. CASE Wake(w) \/ Stop(w) \/ Exit(w) \/ Crash(w)
    BY <1>1, <1>4, <2>2, WakeStopStep, GoneStep, LoadersUndisturbed DEF Exit, Crash
  <2>3. ASSUME NEW o \in Order, Take(w, o) \/ Finish(w, o) \/ Throws(w, o)
        PROVE  IntakeInv' /\ Dispatching
    BY <1>1, <1>4, <2>3, TakeStep, LeaveStep, LoadersUndisturbed
  <2>4. ASSUME NEW o \in Order, Renew(w, o)
        PROVE  IntakeInv' /\ Dispatching
    BY <1>1, <1>4, <2>4, LeaseStep, LoadersUndisturbed DEF Renew
  <2>5. ASSUME NEW o \in Order, Retry(w, o) \/ RetryEnds(w, o) \/ RetryThrows(w, o)
        PROVE  IntakeInv' /\ Dispatching
    BY <1>1, <1>4, <2>5, RetryStep, LoadersUndisturbed
  <2> QED
    BY <1>4, <2>1, <2>2, <2>3, <2>4, <2>5 DEF LoopNext, LoopStep
<1>5. ASSUME NEW o \in Order, Lapse(o)
      PROVE  IntakeInv' /\ Dispatching
  BY <1>1, <1>5, LeaseStep, LoadersUndisturbed DEF Lapse
<1> QED
  BY <1>2, <1>3, <1>4, <1>5 DEF IntakeNext

LEMMA IntakeStarts ==
  ASSUME IntakeInit
  PROVE  IntakeInv /\ Promise!DispatchInit
<1> USE DEF IntakeInit, TableInit, IngestInit, LoopInit
<1>1. TableTypeOK
  BY DEF TableTypeOK
<1>2. IngestTypeOK
  BY Constants DEF IngestTypeOK
<1>3. LoopTypeOK
  BY DoingNone, Constants DEF LoopTypeOK
<1>4. ClaimInv
  BY DEF ClaimInv
<1>5. LoadInv
  BY Constants DEF LoadInv, Rows
<1>6. CountsAreTrue
  <2>1. \A p \in Loader : {o \in Order : source[o] = p} = {}
    BY Constants
  <2> QED
    BY <2>1, FS_EmptySet DEF CountsAreTrue
<1>7. Promise!DispatchInit
  <2>1. AtWork = {}
    <3>1. {} \in SUBSET (Worker \X {"worker", "api"} \X Order)
      OBVIOUS
    <3> QED
      BY <3>1, RunsAre, SameRuns
  <2> QED
    BY <2>1 DEF Promise!DispatchInit
<1> QED
  BY <1>1, <1>2, <1>3, <1>4, <1>5, <1>6, <1>7 DEF IntakeInv, IntakeTypeOK

LEMMA IntakeInvHolds == IntakeSpec => []IntakeInv
BY IntakeStarts, IntakeStep, PTL DEF IntakeSpec

-----------------------------------------------------------------------------
(* Types, and with them: a slot limit that holds, batches that fit, and an *)
(* order that is leased exactly while it is in progress.                   *)
THEOREM IntakeTyped == IntakeSpec => []IntakeTypeOK
BY IntakeInvHolds, PTL DEF IntakeInv

(* Whatever overlaps, fails, stops or crashes, orders are dispatched as    *)
(* Dispatch says: once in, one holder at a time, ended by a run of the     *)
(* holder's, and taken up again only once ended.                           *)
THEOREM IntakeDispatches == IntakeSpec => Dispatched
BY IntakeStarts, IntakeStep, IntakeInvHolds, PTL
   DEF IntakeSpec, Dispatched, Promise!DispatchSpec, Dispatching

(* rowsInserted is the number of rows with the loader's batchId.           *)
THEOREM CountsHold == IntakeSpec => []CountsAreTrue
BY IntakeInvHolds, PTL DEF IntakeInv

(* "ingest complete" is only said with the whole file in the table.        *)
THEOREM CompleteIsComplete == IntakeSpec => []FinishedMeansLoaded
<1>1. IntakeInv => FinishedMeansLoaded
  BY DEF IntakeInv, LoadInv, FinishedMeansLoaded
<1> QED
  BY <1>1, IntakeInvHolds, PTL

(* A process that was not claiming when it was told to stop leaves neither *)
(* an order of its loop's half way nor a row locked; a retry it may.       *)
THEOREM StopsDrained == IntakeSpec => StopDrains
<1> DEFINE Drained == \A w \in Worker :
      life[w] = "up" /\ life'[w] = "exited" /\ signal[w] # "claiming" =>
        todo[w] = {} /\ doing[w] = {} /\ Locked(w) = {}
<1>1. IntakeInv /\ [IntakeNext]_vars => [Drained]_vars
  <2> SUFFICES ASSUME IntakeInv, IntakeNext, NEW w \in Worker,
                      life[w] = "up", life'[w] = "exited", signal[w] # "claiming"
               PROVE  todo[w] = {} /\ doing[w] = {} /\ Locked(w) = {}
    OBVIOUS
  <2>1. Exit(w)
    <3>1. life' # life
      OBVIOUS
    <3>2. PICK u \in Worker : LoopNext(u) \/ Crash(u)
      BY <3>1 DEF IntakeNext, Lapse, loopVars, claimVars
    <3>3. Exit(u) \/ Crash(u)
      BY <3>1, <3>2 DEF LoopNext, LoopStep, Select, Stamp, StampUnheard, Deadlock, ClaimFails,
                        Wake, Stop, Take, Finish, Throws, Renew, Leave, Retry, RetryEnds,
                        RetryThrows, RetryOver, loopVars, claimVars
    <3>4. u = w
      <4>1. PICK how : life' = [life EXCEPT ![u] = how]
        BY <3>3 DEF Exit, Crash, Gone
      <4> QED
        BY <4>1 DEF IntakeInv, IntakeTypeOK, LoopTypeOK
    <3>5. ~Crash(w)
      BY DEF Crash, Gone, IntakeInv, IntakeTypeOK, LoopTypeOK
    <3> QED
      BY <3>3, <3>4, <3>5
  <2>2. phase[w] \in {"sleep", "ended"}
    BY <2>1 DEF Exit, IntakeInv, IntakeTypeOK, LoopTypeOK, ClaimInv
  <2> QED
    BY <2>2, Constants DEF IntakeInv, ClaimInv, Locked
<1> QED
  BY <1>1, IntakeInvHolds, PTL DEF IntakeSpec, StopDrains
=============================================================================
