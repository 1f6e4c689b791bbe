--------------------------- MODULE OrderLifecycle ---------------------------
(***************************************************************************)
(* What the whole system promises of an order, whoever drives it: its      *)
(* status, what has really happened at the services, and which of that is  *)
(* known, i.e. on record as succeeded.  No instance, lease, row, call or   *)
(* crash appears here; SagaEngine implements it.                           *)
(***************************************************************************)
CONSTANTS Order, Service

VARIABLES
  status,  \* the order's status
  effect,  \* per service: nothing happened, it is live, it was undone
  known    \* services whose do-step is on record as succeeded

vars == <<status, effect, known>>

Init ==
  /\ status = [o \in Order |-> "PENDING"]
  /\ effect = [o \in Order |-> [s \in Service |-> "none"]]
  /\ known = [o \in Order |-> {}]

Move(o, from, to) ==
  /\ status[o] = from
  /\ status' = [status EXCEPT ![o] = to]
  /\ UNCHANGED <<effect, known>>

(* Orders are taken up in batches.                                         *)
Begin(batch) ==
  /\ \A o \in batch : status[o] = "PENDING"
  /\ status' = [o \in Order |-> IF o \in batch THEN "IN_PROGRESS" ELSE status[o]]
  /\ UNCHANGED <<effect, known>>

(* A do-step happens, perhaps late: even after the order was given up, but *)
(* never before it began and never once it is placed.                      *)
Happen(o, s) ==
  /\ status[o] \notin {"PENDING", "PLACED", "SHIPPED"}
  /\ effect[o][s] = "none"
  /\ effect' = [effect EXCEPT ![o][s] = "live"]
  /\ UNCHANGED <<status, known>>

Learn(o, s) ==
  /\ status[o] = "IN_PROGRESS" /\ effect[o][s] = "live"
  /\ known' = [known EXCEPT ![o] = @ \cup {s}]
  /\ UNCHANGED <<status, effect>>

Place(o)    == known[o] = Service /\ Move(o, "IN_PROGRESS", "PLACED")
RollBack(o) == Move(o, "IN_PROGRESS", "COMPENSATING")

(* Only what is known to have happened is undone, and only in a rollback.  *)
Reverse(o, s) ==
  /\ status[o] \in {"COMPENSATING", "NEEDS_ATTENTION"}
  /\ s \in known[o] /\ effect[o][s] = "live"
  /\ effect' = [effect EXCEPT ![o][s] = "undone"]
  /\ UNCHANGED <<status, known>>

Cancel(o) ==
  /\ \A s \in known[o] : effect[o][s] = "undone"
  /\ Move(o, "COMPENSATING", "CANCELLED")

Flag(o)  == Move(o, "COMPENSATING", "NEEDS_ATTENTION")
Retry(o) == Move(o, "NEEDS_ATTENTION", "COMPENSATING")
Ship(o)  == Move(o, "PLACED", "SHIPPED")

Next ==
  \/ \E batch \in SUBSET Order : Begin(batch)
  \/ \E o \in Order :
       \/ Place(o) \/ RollBack(o) \/ Cancel(o) \/ Flag(o) \/ Retry(o) \/ Ship(o)
       \/ \E s \in Service : Happen(o, s) \/ Learn(o, s) \/ Reverse(o, s)

Spec == Init /\ [][Next]_vars
=============================================================================
