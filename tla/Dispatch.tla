------------------------------- MODULE Dispatch -------------------------------
(***************************************************************************)
(* What the intake promises the sagas: an order arrives once, is leased to *)
(* one worker at a time, changes hands only after its lease has lapsed, is *)
(* renewed and ended only by a run of its holder's, and may be taken up    *)
(* once more after its end.  A run that has lost its order may go on, but  *)
(* is over without a trace.  Abstract; the intake implements it, and so    *)
(* does the engine.                                                        *)
(***************************************************************************)
CONSTANTS Order, Worker, Nobody

VARIABLES
  status,     \* absent, PENDING, IN_PROGRESS or ENDED
  leaseOwner, \* who may drive it
  lease,      \* null, live or expired
  atWork      \* <<worker, role, order>>: runs under way, rightly or not
dispatchVars == <<status, leaseOwner, lease, atWork>>

DispatchInit ==
  /\ status = [o \in Order |-> "absent"]
  /\ leaseOwner = [o \in Order |-> Nobody]
  /\ lease = [o \in Order |-> "null"]
  /\ atWork = {}

Arrive(rows) ==
  /\ \A o \in rows : status[o] = "absent"
  /\ status' = [o \in Order |-> IF o \in rows THEN "PENDING" ELSE status[o]]
  /\ UNCHANGED <<leaseOwner, lease, atWork>>

(* The worker may not hear of what it was assigned.                        *)
Assign(w, rows) ==
  /\ \A o \in rows :
       status[o] = "PENDING" \/ (status[o] = "IN_PROGRESS" /\ lease[o] = "expired")
  /\ status' = [o \in Order |-> IF o \in rows THEN "IN_PROGRESS" ELSE status[o]]
  /\ leaseOwner' = [o \in Order |-> IF o \in rows THEN w ELSE leaseOwner[o]]
  /\ lease' = [o \in Order |-> IF o \in rows THEN "live" ELSE lease[o]]
  /\ atWork' \in {atWork, atWork \cup {<<w, "worker", o>> : o \in rows}}

(* Only the loop's runs have a heartbeat.                                  *)
Renew(w, o) ==
  /\ leaseOwner[o] = w /\ <<w, "worker", o>> \in atWork
  /\ lease' = [lease EXCEPT ![o] = "live"]
  /\ UNCHANGED <<status, leaseOwner, atWork>>

Lapse(o) ==
  /\ lease[o] = "live" /\ lease' = [lease EXCEPT ![o] = "expired"]
  /\ UNCHANGED <<status, leaseOwner, atWork>>

(* The run that ends an order is over with it.                             *)
End(w, role, o) ==
  /\ status[o] = "IN_PROGRESS" /\ leaseOwner[o] = w /\ <<w, role, o>> \in atWork
  /\ status' = [status EXCEPT ![o] = "ENDED"]
  /\ leaseOwner' = [leaseOwner EXCEPT ![o] = Nobody]
  /\ lease' = [lease EXCEPT ![o] = "null"]
  /\ atWork' = atWork \ {<<w, role, o>>}

(* Runs that throw, die with their process, or find their order gone.      *)
LetGo == atWork' \subseteq atWork /\ UNCHANGED <<status, leaseOwner, lease>>

(* A person has an ended order taken up once more.                         *)
Reopen(w, o) ==
  /\ status[o] = "ENDED"
  /\ status' = [status EXCEPT ![o] = "IN_PROGRESS"]
  /\ leaseOwner' = [leaseOwner EXCEPT ![o] = w]
  /\ lease' = [lease EXCEPT ![o] = "live"]
  /\ atWork' = atWork \cup {<<w, "api", o>>}

DispatchNext ==
  \/ LetGo
  \/ \E rows \in SUBSET Order : Arrive(rows) \/ \E w \in Worker : Assign(w, rows)
  \/ \E o \in Order : Lapse(o)
  \/ \E w \in Worker, o \in Order :
       Renew(w, o) \/ Reopen(w, o) \/ \E role \in {"worker", "api"} : End(w, role, o)

DispatchSpec == DispatchInit /\ [][DispatchNext]_dispatchVars
=============================================================================
