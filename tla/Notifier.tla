------------------------------- MODULE Notifier -------------------------------
(***************************************************************************)
(* The notification job (notifier.ts, index.ts): any number of instances   *)
(* rescue abandoned claims, page through the coordinator's SHIPPED orders, *)
(* claim what is new and send, while orders go on becoming SHIPPED and     *)
(* instances stall, fail and die between any two statements.               *)
(***************************************************************************)
EXTENDS Naturals, FiniteSets

CONSTANTS
  LastId,     \* saga_orders.id runs from 1 to LastId
  Node,       \* notification processes; a restart is another one
  BatchSize,  \* NOTIFICATION_BATCH_SIZE: page size and LIMIT
  Mortal,     \* processes that may die
  NoOne       \* NULL in claimed_by

ASSUME NotifierAssumption ==
  LastId \in Nat /\ BatchSize \in Nat \ {0} /\ Mortal \subseteq Node /\ NoOne \notin Node

Order == 1..LastId

VARIABLES
  shipped,  \* orders the coordinator has SHIPPED
  note,     \* notifications.status, "absent" before the INSERT
  owner,    \* notifications.claimed_by
  stale,    \* is claimed_at older than NOTIFICATION_STALE_MS?
  attempts, \* notifications.attempts, counted to 2
  up,       \* processes alive
  phase,    \* where the job of a process stands
  page,     \* the page it asks for
  total,    \* COUNT(*) of that page's answer
  seen,     \* ids listed and not yet claimed
  mine,     \* ids to be sent
  known,    \* history: what was SHIPPED when paging began
  raced     \* history: did an order ship between the COUNT and its page?

noteVars == <<note, owner, stale, attempts>>
listVars == <<page, total, seen, known, raced>>
vars == <<shipped, noteVars, up, phase, listVars, mine>>

Phase == {"idle", "sweep", "select", "count", "page", "work"}

NotifierTypeOK ==
  /\ shipped \subseteq Order /\ up \subseteq Node
  /\ note \in [Order -> {"absent", "CLAIMED", "SENT"}]
  /\ owner \in [Order -> Node \cup {NoOne}]
  /\ \A o \in Order : owner[o] = NoOne <=> note[o] = "absent"
  /\ stale \in [Order -> BOOLEAN] /\ attempts \in [Order -> 0..2]
  /\ phase \in [Node -> Phase]
  /\ page \in [Node -> Nat \ {0}] /\ total \in [Node -> 0..LastId]
  /\ seen \in [Node -> SUBSET Order] /\ mine \in [Node -> SUBSET Order]
  /\ known \in [Node -> SUBSET Order] /\ raced \in [Node -> BOOLEAN]

NotifierInit ==
  /\ shipped = {} /\ up = Node
  /\ note = [o \in Order |-> "absent"] /\ owner = [o \in Order |-> NoOne]
  /\ stale = [o \in Order |-> FALSE] /\ attempts = [o \in Order |-> 0]
  /\ phase = [n \in Node |-> "idle"]
  /\ page = [n \in Node |-> 1] /\ total = [n \in Node |-> 0]
  /\ seen = [n \in Node |-> {}] /\ mine = [n \in Node |-> {}]
  /\ known = [n \in Node |-> {}] /\ raced = [n \in Node |-> FALSE]

At(n, where)   == n \in up /\ phase[n] = where
Goto(n, where) == phase' = [phase EXCEPT ![n] = where]

(* LIMIT without ORDER BY: any rows, but as many as there are.             *)
Limited(rows) ==
  {batch \in SUBSET rows :
     Cardinality(batch) = IF Cardinality(rows) < BatchSize THEN Cardinality(rows) ELSE BatchSize}

(* listOrders: ORDER BY id DESC LIMIT ? OFFSET ?.                          *)
Place(o) == Cardinality({p \in shipped : p >= o})
PageOf(number) ==
  {o \in shipped : (number - 1) * BatchSize < Place(o) /\ Place(o) <= number * BatchSize}

-----------------------------------------------------------------------------
(* tick or POST /api/notifications/run: one job at a time in a process.    *)
Start(n) ==
  /\ At(n, "idle") /\ Goto(n, "sweep")
  /\ UNCHANGED <<shipped, noteVars, up, listVars, mine>>

(* A slip of the sweep: the comparison of claimed_at is the wrong way round. *)
SweepYoung(n) ==
  /\ At(n, "sweep")
  /\ \E batch \in Limited({o \in Order : note[o] = "CLAIMED" /\ ~stale[o]}) :
       owner' = [o \in Order |-> IF o \in batch THEN n ELSE owner[o]]
  /\ Goto(n, "select")
  /\ UNCHANGED <<shipped, note, stale, attempts, up, listVars, mine>>

(* reclaimStale, its UPDATE: check and takeover in one statement.          *)
Sweep(n) ==
  /\ At(n, "sweep")
  /\ \E batch \in Limited({o \in Order : note[o] = "CLAIMED" /\ stale[o]}) :
       /\ owner' = [o \in Order |-> IF o \in batch THEN n ELSE owner[o]]
       /\ stale' = [o \in Order |-> stale[o] /\ o \notin batch]
  /\ Goto(n, "select")
  /\ UNCHANGED <<shipped, note, attempts, up, listVars, mine>>

(* ... and its SELECT, which also finds claims an earlier run of this      *)
(* process left behind.                                                    *)
Select(n) ==
  /\ At(n, "select")
  /\ \E batch \in Limited({o \in Order : note[o] = "CLAIMED" /\ owner[o] = n}) :
       mine' = [mine EXCEPT ![n] = batch]
  /\ Goto(n, "count")
  /\ known' = [known EXCEPT ![n] = shipped]
  /\ UNCHANGED <<shipped, noteVars, up, page, total, seen, raced>>

(* listOrders counts in one statement ...                                  *)
Count(n) ==
  /\ At(n, "count") /\ Goto(n, "page")
  /\ total' = [total EXCEPT ![n] = Cardinality(shipped)]
  /\ UNCHANGED <<shipped, noteVars, up, page, seen, known, raced, mine>>

(* A slip of the paging loop: it stops a page early.                       *)
FetchShort(n) ==
  /\ At(n, "page")
  /\ seen' = [seen EXCEPT ![n] = @ \cup PageOf(page[n])]
  /\ total' = [total EXCEPT ![n] = 0] /\ raced' = [raced EXCEPT ![n] = FALSE]
  /\ IF (page[n] + 1) * BatchSize >= total[n] \/ PageOf(page[n]) = {}
     THEN /\ Goto(n, "work")
          /\ page' = [page EXCEPT ![n] = 1] /\ known' = [known EXCEPT ![n] = {}]
     ELSE /\ Goto(n, "count")
          /\ page' = [page EXCEPT ![n] = @ + 1] /\ UNCHANGED known
  /\ UNCHANGED <<shipped, noteVars, up, mine>>

(* ... and lists in the next; fetchShippedOrderIds goes on until the count *)
(* of the last answer is covered or a page is empty.                       *)
Fetch(n) ==
  /\ At(n, "page")
  /\ seen' = [seen EXCEPT ![n] = @ \cup PageOf(page[n])]
  /\ total' = [total EXCEPT ![n] = 0] /\ raced' = [raced EXCEPT ![n] = FALSE]
  /\ IF page[n] * BatchSize >= total[n] \/ PageOf(page[n]) = {}
     THEN /\ Goto(n, "work")
          /\ page' = [page EXCEPT ![n] = 1] /\ known' = [known EXCEPT ![n] = {}]
     ELSE /\ Goto(n, "count")
          /\ page' = [page EXCEPT ![n] = @ + 1] /\ UNCHANGED known
  /\ UNCHANGED <<shipped, noteVars, up, mine>>

(* claim: INSERT IGNORE under UNIQUE(order_id); affectedRows tells who won.*)
Claim(n, o) ==
  /\ At(n, "work") /\ o \in seen[n]
  /\ seen' = [seen EXCEPT ![n] = @ \ {o}]
  /\ IF note[o] = "absent"
     THEN /\ note' = [note EXCEPT ![o] = "CLAIMED"] /\ owner' = [owner EXCEPT ![o] = n]
          /\ mine' = [mine EXCEPT ![n] = @ \cup {o}]
     ELSE UNCHANGED <<note, owner, mine>>
  /\ UNCHANGED <<shipped, stale, attempts, up, phase, page, total, known, raced>>

(* A slip of send: no fence on the owner and the status.                   *)
SendUnfenced(n, o) ==
  /\ At(n, "work") /\ seen[n] = {} /\ o \in mine[n]
  /\ mine' = [mine EXCEPT ![n] = @ \ {o}]
  /\ note' = [note EXCEPT ![o] = "SENT"]
  /\ attempts' = [attempts EXCEPT ![o] = IF @ < 2 THEN @ + 1 ELSE 2]
  /\ UNCHANGED <<shipped, owner, stale, up, phase, listVars>>

(* send: the UPDATE is the sending, fenced on status and claimed_by.       *)
Send(n, o) ==
  /\ At(n, "work") /\ seen[n] = {} /\ o \in mine[n]
  /\ mine' = [mine EXCEPT ![n] = @ \ {o}]
  /\ IF note[o] = "CLAIMED" /\ owner[o] = n
     THEN /\ note' = [note EXCEPT ![o] = "SENT"]
          /\ attempts' = [attempts EXCEPT ![o] = IF @ < 2 THEN @ + 1 ELSE 2]
     ELSE UNCHANGED <<note, attempts>>
  /\ UNCHANGED <<shipped, owner, stale, up, phase, listVars>>

(* A send throws and is caught: the row is left CLAIMED.                   *)
SendFails(n, o) ==
  /\ At(n, "work") /\ seen[n] = {} /\ o \in mine[n]
  /\ mine' = [mine EXCEPT ![n] = @ \ {o}]
  /\ UNCHANGED <<shipped, noteVars, up, phase, listVars>>

Finish(n) ==
  /\ At(n, "work") /\ seen[n] = {} /\ mine[n] = {}
  /\ Goto(n, "idle")
  /\ UNCHANGED <<shipped, noteVars, up, listVars, mine>>

(* The job's local variables are gone.                                     *)
Forget(n) ==
  /\ Goto(n, "idle")
  /\ page' = [page EXCEPT ![n] = 1] /\ total' = [total EXCEPT ![n] = 0]
  /\ seen' = [seen EXCEPT ![n] = {}] /\ mine' = [mine EXCEPT ![n] = {}]
  /\ known' = [known EXCEPT ![n] = {}] /\ raced' = [raced EXCEPT ![n] = FALSE]
  /\ UNCHANGED <<shipped, noteVars>>

(* Any other statement or request throws: the run ends, and the schedule   *)
(* goes on.  What was claimed so far stays CLAIMED.                        *)
JobFails(n) ==
  /\ n \in up /\ phase[n] # "idle" /\ (phase[n] = "work" => seen[n] # {})
  /\ Forget(n) /\ UNCHANGED up

Dies(n) == n \in up \cap Mortal /\ up' = up \ {n} /\ Forget(n)

(* The coordinator's markShipped, for any order at any time.               *)
Ship(o) ==
  /\ o \notin shipped /\ shipped' = shipped \cup {o}
  /\ raced' = [n \in Node |-> raced[n] \/ phase[n] = "page"]
  /\ UNCHANGED <<noteVars, up, phase, page, total, seen, known, mine>>

(* claimed_at passes the limit.  With an owner at work on the claim that   *)
(* is a stall.                                                             *)
Attended(o) ==
  LET n == owner[o] IN
  n \in up /\ (o \in mine[n] \/ phase[n] \in {"sweep", "select"})
GrowsStale(o) ==
  /\ note[o] = "CLAIMED" /\ ~stale[o]
  /\ stale' = [stale EXCEPT ![o] = TRUE]
  /\ UNCHANGED <<shipped, note, owner, attempts, up, phase, listVars, mine>>

-----------------------------------------------------------------------------
Advance(n) ==
  \/ Start(n) \/ Sweep(n) \/ Select(n) \/ Count(n) \/ Fetch(n) \/ Finish(n)
  \/ \E o \in Order : Claim(n, o) \/ Send(n, o)

NotifierNext ==
  \/ \E n \in Node : Advance(n) \/ JobFails(n) \/ Dies(n)
  \/ \E n \in Node, o \in Order : SendFails(n, o)
  \/ \E o \in Order : Ship(o) \/ GrowsStale(o)

NotifierSpec == NotifierInit /\ [][NotifierNext]_vars

(* The schedule fires and runs go on; an abandoned claim grows old; errors *)
(* and stalls come to an end.                                              *)
Outage(n) == JobFails(n) \/ \E o \in Order : SendFails(n, o)
NotifierFairness ==
  /\ \A n \in Node : WF_vars(Advance(n))
  /\ \A o \in Order : WF_vars(~Attended(o) /\ GrowsStale(o))
  /\ <>[][\A n \in Node, o \in Order :
            ~JobFails(n) /\ ~SendFails(n, o) /\ ~(Attended(o) /\ GrowsStale(o))]_vars
FairNotifier == NotifierSpec /\ NotifierFairness

-----------------------------------------------------------------------------
(* However many instances race, stall and die, the row of an order is sent *)
(* once, and only of a shipped order: the job implements Outbox (claim,    *)
(* send, reclaimStale).                                                    *)
Promise == INSTANCE Outbox WITH sent <- attempts
ExactlyOnce == Promise!OutboxSafe

(* Paging by offset, newest first, while orders ship: an order that was    *)
(* SHIPPED when the listing began is listed, unless one shipped between    *)
(* the last page's COUNT and its SELECT (listOrders).                      *)
NoneSkipped ==
  [][\A n \in Node : phase[n] = "page" /\ phase'[n] = "work" /\ ~raced[n] =>
       known[n] \subseteq seen'[n]]_vars

(* No shipped order is missed for ever, as long as one instance survives   *)
(* (the sweep, the schedule).                                              *)
NeverMissed == \A o \in Order : o \in shipped ~> note[o] = "SENT"
=============================================================================
