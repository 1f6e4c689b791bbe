---------------------------- MODULE NotifierProofs ----------------------------
(***************************************************************************)
(* For any number of processes, orders and pages: the state of the         *)
(* notification job is well typed, and the job implements Outbox, so that  *)
(* no order is notified twice.                                             *)
(***************************************************************************)
EXTENDS Notifier, FiniteSetTheorems, WellFoundedInduction, TLAPS

(* Inductive: a row is sent once its status says so, and everything listed *)
(* or claimed is SHIPPED.                                                  *)
SendInv ==
  /\ \A o \in Order : attempts[o] = IF note[o] = "SENT" THEN 1 ELSE 0
  /\ \A o \in Order : note[o] # "absent" => o \in shipped
  /\ \A n \in Node : seen[n] \subseteq shipped

(* SHIPPED orders can be counted.                                          *)
LEMMA CountInRange ==
  ASSUME NEW S \in SUBSET Order PROVE Cardinality(S) \in 0..LastId
<1>1. IsFiniteSet(Order) /\ Cardinality(Order) = LastId
  BY FS_Interval, NotifierAssumption DEF Order
<1>2. Cardinality(S) <= Cardinality(Order) /\ Cardinality(S) \in Nat
  BY <1>1, FS_Subset, FS_CardinalityType
<1> QED
  BY <1>1, <1>2, NotifierAssumption

LEMMA NoOneIsNoNode == NoOne \notin Node
BY NotifierAssumption

(* One step of a process keeps the types.                                  *)
LEMMA AdvanceTyped ==
  ASSUME NotifierTypeOK, NEW n \in Node, Advance(n)
  PROVE  NotifierTypeOK'
<1> USE NoOneIsNoNode DEF NotifierTypeOK, Phase, noteVars, listVars, At, Goto
<1>1. CASE Start(n)
  BY <1>1 DEF Start
<1>2. CASE Sweep(n)
  BY <1>2 DEF Sweep, Limited
<1>3. CASE Select(n)
  BY <1>3 DEF Select, Limited
<1>4. CASE Count(n)
  <2>1. Cardinality(shipped) \in 0..LastId
    BY CountInRange
  <2> QED
    BY <1>4, <2>1 DEF Count
<1>5. CASE Fetch(n)
  <2>1. PageOf(page[n]) \subseteq Order /\ 0 \in 0..LastId
    BY NotifierAssumption DEF PageOf
  <2>2. seen' \in [Node -> SUBSET Order] /\ total' \in [Node -> 0..LastId]
    BY <1>5, <2>1 DEF Fetch
  <2>3. phase' \in [Node -> Phase] /\ page' \in [Node -> Nat \ {0}]
    BY <1>5 DEF Fetch
  <2>4. known' \in [Node -> SUBSET Order] /\ raced' \in [Node -> BOOLEAN]
    BY <1>5 DEF Fetch
  <2> QED
    BY <1>5, <2>2, <2>3, <2>4 DEF Fetch
<1>6. CASE Finish(n)
  BY <1>6 DEF Finish
<1>7. ASSUME NEW o \in Order, Claim(n, o) PROVE NotifierTypeOK'
  BY <1>7 DEF Claim
<1>8. ASSUME NEW o \in Order, Send(n, o) PROVE NotifierTypeOK'
  BY <1>8 DEF Send
<1> QED
  BY <1>1, <1>2, <1>3, <1>4, <1>5, <1>6, <1>7, <1>8 DEF Advance

(* The types of the job's state, for any number of instances and orders    *)
(* (runNotificationJob).                                                   *)
THEOREM NotifierTyped == NotifierSpec => []NotifierTypeOK
<1>1. NotifierInit => NotifierTypeOK
  BY NoOneIsNoNode, NotifierAssumption DEF NotifierInit, NotifierTypeOK, Phase
<1>2. NotifierTypeOK /\ [NotifierNext]_vars => NotifierTypeOK'
  <2> SUFFICES ASSUME NotifierTypeOK, [NotifierNext]_vars PROVE NotifierTypeOK'
    OBVIOUS
  <2> USE NoOneIsNoNode DEF NotifierTypeOK, Phase, noteVars, listVars, At, Goto
  <2>1. ASSUME NEW n \in Node, Advance(n) PROVE NotifierTypeOK'
    BY <2>1, AdvanceTyped
  <2>2. ASSUME NEW n \in Node, JobFails(n) \/ Dies(n) PROVE NotifierTypeOK'
    <3>1. Forget(n) /\ up' \subseteq Node
      BY <2>2 DEF JobFails, Dies
    <3>2. 0 \in 0..LastId
      BY NotifierAssumption
    <3> QED
      BY <3>1, <3>2 DEF Forget
  <2>3. ASSUME NEW n \in Node, NEW o \in Order, SendFails(n, o) PROVE NotifierTypeOK'
    BY <2>3 DEF SendFails
  <2>4. ASSUME NEW o \in Order, Ship(o) PROVE NotifierTypeOK'
    BY <2>4 DEF Ship
  <2>5. ASSUME NEW o \in Order, GrowsStale(o) PROVE NotifierTypeOK'
    BY <2>5 DEF GrowsStale
  <2>6. CASE UNCHANGED vars
    BY <2>6 DEF vars
  <2> QED
    BY <2>1, <2>2, <2>3, <2>4, <2>5, <2>6 DEF NotifierNext
<1> QED
  BY <1>1, <1>2, PTL DEF NotifierSpec

-----------------------------------------------------------------------------
(* What a step does to the rows and to what has been listed.               *)
LEMMA SendInvStep ==
  ASSUME NotifierTypeOK, SendInv, [NotifierNext]_vars PROVE SendInv'
<1> USE DEF NotifierTypeOK, SendInv, noteVars, listVars, Goto
<1>1. ASSUME NEW n \in Node, Start(n) \/ Select(n) \/ Count(n) \/ Finish(n) PROVE SendInv'
  BY <1>1 DEF Start, Select, Count, Finish
<1>2. ASSUME NEW n \in Node, Sweep(n) PROVE SendInv'
  BY <1>2 DEF Sweep
<1>3. ASSUME NEW n \in Node, Fetch(n) PROVE SendInv'
  BY <1>3 DEF Fetch, PageOf
<1>4. ASSUME NEW n \in Node, NEW o \in Order, Claim(n, o) PROVE SendInv'
  BY <1>4 DEF Claim
<1>5. ASSUME NEW n \in Node, NEW o \in Order, Send(n, o) PROVE SendInv'
  BY <1>5 DEF Send
<1>6. ASSUME NEW n \in Node, JobFails(n) \/ Dies(n) PROVE SendInv'
  BY <1>6 DEF JobFails, Dies, Forget
<1>7. ASSUME NEW n \in Node, NEW o \in Order, SendFails(n, o) PROVE SendInv'
  BY <1>7 DEF SendFails
<1>8. ASSUME NEW o \in Order, Ship(o) \/ GrowsStale(o) PROVE SendInv'
  BY <1>8 DEF Ship, GrowsStale
<1>9. CASE UNCHANGED vars
  BY <1>9 DEF vars
<1> QED
  BY <1>1, <1>2, <1>3, <1>4, <1>5, <1>6, <1>7, <1>8, <1>9 DEF NotifierNext, Advance

(* A row counts one send exactly when it is SENT, and only shipped orders  *)
(* are listed or have a row (claim, send).                                 *)
THEOREM SendInvHolds == NotifierSpec => []SendInv
<1>1. NotifierInit => SendInv
  BY DEF NotifierInit, SendInv
<1> QED
  BY <1>1, SendInvStep, NotifierTyped, PTL DEF NotifierSpec

(* The job implements Outbox: every send is of a shipped order that had    *)
(* none before, whoever races for it, stalls or dies (claim, send).        *)
THEOREM SentOnce == NotifierSpec => ExactlyOnce
<1>1. NotifierInit => Promise!OutboxInit
  BY DEF NotifierInit, Promise!OutboxInit
<1>2. NotifierTypeOK /\ SendInv /\ [NotifierNext]_vars => [Promise!OutboxNext]_Promise!outboxVars
  <2> SUFFICES ASSUME NotifierTypeOK, SendInv, [NotifierNext]_vars
               PROVE  [Promise!OutboxNext]_Promise!outboxVars
    OBVIOUS
  <2> USE DEF Promise!outboxVars, noteVars
  <2>1. ASSUME NEW n \in Node, Start(n) \/ Sweep(n) \/ Select(n) \/ Count(n) \/ Fetch(n)
                               \/ Finish(n) \/ JobFails(n) \/ Dies(n)
        PROVE  UNCHANGED Promise!outboxVars
    BY <2>1 DEF Start, Sweep, Select, Count, Fetch, Finish, JobFails, Dies, Forget
  <2>2. ASSUME NEW n \in Node, NEW o \in Order, Claim(n, o) \/ SendFails(n, o)
        PROVE  UNCHANGED Promise!outboxVars
    BY <2>2 DEF Claim, SendFails
  <2>3. ASSUME NEW n \in Node, NEW o \in Order, Send(n, o)
        PROVE  Promise!Notify(o) \/ UNCHANGED Promise!outboxVars
    <3>1. CASE note[o] = "CLAIMED" /\ owner[o] = n
      <4>1. attempts[o] = 0 /\ o \in shipped
        BY <3>1 DEF SendInv
      <4> QED
        BY <2>3, <3>1, <4>1 DEF Send, Promise!Notify
    <3>2. CASE ~(note[o] = "CLAIMED" /\ owner[o] = n)
      BY <2>3, <3>2 DEF Send
    <3> QED
      BY <3>1, <3>2
  <2>4. ASSUME NEW o \in Order, Ship(o) PROVE Promise!MarkShipped(o)
    BY <2>4 DEF Ship, Promise!MarkShipped
  <2>5. ASSUME NEW o \in Order, GrowsStale(o) PROVE UNCHANGED Promise!outboxVars
    BY <2>5 DEF GrowsStale
  <2>6. CASE UNCHANGED vars
    BY <2>6 DEF vars
  <2> QED
    BY <2>1, <2>2, <2>3, <2>4, <2>5, <2>6
       DEF NotifierNext, Advance, Promise!OutboxNext
<1> QED
  BY <1>1, <1>2, NotifierTyped, SendInvHolds, PTL
     DEF NotifierSpec, ExactlyOnce, Promise!OutboxSafe

-----------------------------------------------------------------------------
(* Paging by offset.  Places are counted from the newest order on, so      *)
(* whatever ships later only pushes an order further back.                 *)
LEMMA SubsetsOfOrder ==
  ASSUME NEW S \in SUBSET Order PROVE IsFiniteSet(S) /\ Cardinality(S) \in Nat
<1>1. IsFiniteSet(1..LastId)
  BY FS_Interval, NotifierAssumption
<1>2. IsFiniteSet(S)
  BY <1>1, FS_Subset DEF Order
<1> QED
  BY <1>2, FS_CardinalityType

LEMMA OrdersAreNumbers == Order \subseteq Nat
BY NotifierAssumption DEF Order

LEMMA RankInRange ==
  ASSUME NEW S \in SUBSET Order, NEW o \in S
  PROVE  /\ Cardinality({p \in S : p >= o}) \in Nat
         /\ 1 <= Cardinality({p \in S : p >= o})
         /\ Cardinality({p \in S : p >= o}) <= Cardinality(S)
<1> DEFINE upto == {p \in S : p >= o}
<1>1. IsFiniteSet(S) /\ IsFiniteSet(upto) /\ Cardinality(upto) \in Nat
  BY SubsetsOfOrder
<1>2. o \in upto
  BY OrdersAreNumbers
<1>3. Cardinality(upto) # 0
  BY <1>1, <1>2, FS_EmptySet
<1>4. Cardinality(upto) <= Cardinality(S)
  BY <1>1, FS_Subset
<1> QED
  BY <1>1, <1>3, <1>4

LEMMA PlaceInRange ==
  ASSUME NotifierTypeOK, NEW o \in shipped
  PROVE  Place(o) \in Nat /\ 1 <= Place(o) /\ Place(o) <= Cardinality(shipped)
BY RankInRange DEF Place, NotifierTypeOK

LEMMA PlaceGrows ==
  ASSUME NotifierTypeOK, NotifierTypeOK', NEW o \in shipped, shipped \subseteq shipped'
  PROVE  Place(o) <= Place(o)' /\ Place(o)' \in Nat
<1> DEFINE before == {p \in shipped : p >= o}  after == {p \in shipped' : p >= o}
<1>1. before \subseteq after /\ after \subseteq Order
  BY DEF NotifierTypeOK
<1>2. Cardinality(before) <= Cardinality(after) /\ Cardinality(after) \in Nat
  BY <1>1, SubsetsOfOrder, FS_Subset
<1> QED
  BY <1>2 DEF Place

LEMMA Smallest ==
  ASSUME NEW T \in SUBSET Nat, T # {} PROVE \E x \in T : \A y \in T : x <= y
<1>1. PICK x \in T : \A y \in T : <<y, x>> \notin OpToRel(<, Nat)
  BY NatLessThanWellFounded, WFMin
<1>2. \A y \in T : ~(y < x)
  BY <1>1 DEF OpToRel
<1> QED
  BY <1>2

(* Places have no gaps: where there is an order beyond a page, the page is *)
(* not empty.                                                              *)
LEMMA PagesHaveNoGaps ==
  ASSUME NotifierTypeOK, NEW number \in Nat \ {0},
         NEW o \in shipped, Place(o) > number * BatchSize
  PROVE  PageOf(number) # {}
<1> DEFINE limit == number * BatchSize
<1>1. limit \in Nat /\ limit >= 1 /\ (number - 1) * BatchSize < limit
  BY NotifierAssumption
<1> HIDE DEF limit
<1>2. shipped \subseteq Order /\ Order \subseteq Nat
  BY NotifierAssumption DEF NotifierTypeOK, Order
<1> DEFINE beyond == {p \in shipped : Place(p) > limit}
           places == {Place(p) : p \in beyond}
<1>3. PICK v \in places : \A u \in places : v <= u
  <2>1. places \subseteq Nat
    BY PlaceInRange
  <2>2. places # {}
    BY DEF limit
  <2> QED
    BY <2>1, <2>2, Smallest
<1>4. PICK m \in beyond : v = Place(m)
  BY <1>3
<1> DEFINE newer == {p \in shipped : p > m}
           upto  == {p \in shipped : p >= m}
<1>5. /\ IsFiniteSet(newer) /\ Cardinality(newer) \in Nat
      /\ Cardinality(newer) = Place(m) - 1
  <2>1. newer = upto \ {m} /\ m \in upto
    <3>1. m \in Nat /\ m \in shipped
      BY <1>2
    <3>2. \A p \in Nat : p > m <=> (p >= m /\ p # m)
      BY <3>1
    <3>3. \A p \in shipped : p \in newer <=> (p \in upto /\ p # m)
      BY <1>2, <3>2
    <3>4. m \in upto
      BY <3>1
    <3> QED
      BY <3>3, <3>4
  <2>2. IsFiniteSet(upto) /\ Cardinality(upto) \in Nat /\ IsFiniteSet(newer)
    BY <1>2, SubsetsOfOrder
  <2>3. Cardinality(newer) = Cardinality(upto) - 1
    BY <2>1, <2>2, FS_RemoveElement
  <2> QED
    BY <2>2, <2>3, SubsetsOfOrder, <1>2 DEF Place
<1>6. Place(m) > limit /\ Place(m) \in Nat
  BY <1>4, PlaceInRange
<1>7. newer # {}
  BY <1>1, <1>5, <1>6, FS_EmptySet
<1>8. PICK next \in newer : \A p \in newer : next <= p
  <2>1. newer \subseteq Nat
    BY <1>2
  <2> QED
    BY <1>7, <2>1, Smallest
<1>9. Place(next) = Place(m) - 1
  <2>1. next \in Nat /\ m \in Nat /\ next > m
    BY <1>2, <1>8
  <2>2. \A p \in shipped : p >= next <=> p > m
    <3>1. ASSUME NEW p \in shipped, p > m PROVE p >= next
      BY <1>2, <1>8, <2>1, <3>1
    <3>2. ASSUME NEW p \in shipped, p >= next PROVE p > m
      BY <1>2, <2>1, <3>2
    <3> QED
      BY <3>1, <3>2
  <2>3. {p \in shipped : p >= next} = newer
    BY <2>2
  <2> QED
    BY <1>5, <2>3 DEF Place
<1>10. next \notin beyond
  <2>1. ASSUME next \in beyond PROVE FALSE
    <3>1. v <= Place(next)
      BY <1>3, <2>1
    <3> QED
      BY <3>1, <1>4, <1>6, <1>9
  <2> QED
    BY <2>1
<1>11. Place(next) = limit
  <2>1. ~(Place(next) > limit)
    BY <1>10
  <2> QED
    BY <1>1, <1>6, <1>9, <2>1
<1>12. next \in PageOf(number)
  BY <1>1, <1>11 DEF PageOf, limit
<1> QED
  BY <1>12

(* Inductive: what was SHIPPED when paging began and has not been listed   *)
(* lies beyond the pages asked for so far, and the count of the answer     *)
(* under way is out of date only if an order shipped since.                *)
PagingInv ==
  \A n \in Node :
    /\ phase[n] \in {"idle", "sweep", "select", "work"} => page[n] = 1
    /\ phase[n] \in {"count", "page"} =>
         \A o \in known[n] : /\ o \in shipped
                             /\ o \in seen[n] \/ Place(o) > (page[n] - 1) * BatchSize
    /\ phase[n] = "page" /\ ~raced[n] => total[n] = Cardinality(shipped)

LEMMA PageArithmetic ==
  ASSUME NEW number \in Nat \ {0}
  PROVE  /\ (number + 1 - 1) * BatchSize = number * BatchSize
         /\ number * BatchSize \in Nat /\ (number - 1) * BatchSize \in Nat
         /\ (1 - 1) * BatchSize = 0
BY NotifierAssumption

(* The page the process reads holds every known order not listed before    *)
(* and not beyond it.                                                      *)
LEMMA FetchLists ==
  ASSUME NotifierTypeOK, PagingInv, NEW n \in Node, Fetch(n), NEW o \in known[n]
  PROVE  o \in seen'[n] \/ Place(o) > page[n] * BatchSize
<1>1. /\ o \in shipped
      /\ o \in seen[n] \/ Place(o) > (page[n] - 1) * BatchSize
      /\ seen'[n] = seen[n] \cup PageOf(page[n])
      /\ page[n] \in Nat \ {0}
  BY DEF PagingInv, Fetch, At, NotifierTypeOK
<1>2. Place(o) \in Nat
  BY <1>1, PlaceInRange
<1>3. page[n] * BatchSize \in Nat
  BY <1>1, PageArithmetic
<1> QED
  BY <1>1, <1>2, <1>3 DEF PageOf

LEMMA PagingInvStep ==
  ASSUME NotifierTypeOK, NotifierTypeOK', PagingInv, [NotifierNext]_vars PROVE PagingInv'
<1>1. ASSUME NEW n \in Node, Select(n) PROVE PagingInv'
  <2>1. \A o \in shipped : Place(o) > (1 - 1) * BatchSize
    BY PlaceInRange, PageArithmetic
  <2>2. \A o \in shipped : Place(o)' = Place(o)
    BY <1>1 DEF Select, Place
  <2> QED
    BY <1>1, <2>1, <2>2 DEF Select, PagingInv, At, Goto, NotifierTypeOK
<1>2. ASSUME NEW n \in Node, Count(n) PROVE PagingInv'
  <2>1. \A o \in shipped : Place(o)' = Place(o)
    BY <1>2 DEF Count, Place
  <2> QED
    BY <1>2, <2>1 DEF Count, PagingInv, At, Goto, NotifierTypeOK
<1>3. ASSUME NEW n \in Node, Fetch(n) PROVE PagingInv'
  <2>1. \A o \in shipped : Place(o)' = Place(o)
    BY <1>3 DEF Fetch, Place
  <2>2. page[n] \in Nat \ {0} /\ (page[n] + 1 - 1) * BatchSize = page[n] * BatchSize
    BY PageArithmetic DEF NotifierTypeOK
  <2>3. \A o \in known[n] : o \in shipped /\ (o \in seen'[n] \/ Place(o) > page[n] * BatchSize)
    BY <1>3, FetchLists DEF PagingInv, Fetch, At
  <2>4. \A m \in Node \ {n} :
          phase'[m] = phase[m] /\ page'[m] = page[m] /\ known'[m] = known[m]
          /\ seen'[m] = seen[m] /\ raced'[m] = raced[m] /\ total'[m] = total[m]
    BY <1>3 DEF Fetch, Goto, NotifierTypeOK
  <2>5. shipped' = shipped /\ phase'[n] \in {"work", "count"}
        /\ (phase'[n] = "count" => page'[n] = page[n] + 1 /\ known'[n] = known[n])
        /\ (phase'[n] = "work" => page'[n] = 1)
    BY <1>3 DEF Fetch, Goto, NotifierTypeOK
  <2> QED
    BY <2>1, <2>2, <2>3, <2>4, <2>5 DEF PagingInv
<1>4. ASSUME NEW n \in Node, Start(n) \/ Sweep(n) \/ Finish(n) PROVE PagingInv'
  <2>1. \A o \in shipped : Place(o)' = Place(o)
    BY <1>4 DEF Start, Sweep, Finish, Place
  <2>2. UNCHANGED <<shipped, page, total, seen, known, raced>>
    BY <1>4 DEF Start, Sweep, Finish, listVars
  <2>3. /\ \A m \in Node \ {n} : phase'[m] = phase[m]
        /\ phase[n] \in {"idle", "sweep", "work"} /\ phase'[n] \in {"idle", "sweep", "select"}
    BY <1>4 DEF Start, Sweep, Finish, At, Goto, NotifierTypeOK
  <2> QED
    BY <2>1, <2>2, <2>3 DEF PagingInv
<1>5. ASSUME NEW n \in Node, JobFails(n) \/ Dies(n) PROVE PagingInv'
  <2>1. Forget(n)
    BY <1>5 DEF JobFails, Dies
  <2>2. \A o \in shipped : Place(o)' = Place(o)
    BY <2>1 DEF Forget, Place
  <2> QED
    BY <2>1, <2>2 DEF Forget, PagingInv, Goto, NotifierTypeOK
<1>6. ASSUME NEW n \in Node, NEW o \in Order, Claim(n, o) PROVE PagingInv'
  <2>1. \A p \in shipped : Place(p)' = Place(p)
    BY <1>6 DEF Claim, Place
  <2> QED
    BY <1>6, <2>1 DEF Claim, PagingInv, At, NotifierTypeOK
<1>7. ASSUME NEW n \in Node, NEW o \in Order, Send(n, o) \/ SendFails(n, o) PROVE PagingInv'
  <2>1. \A p \in shipped : Place(p)' = Place(p)
    BY <1>7 DEF Send, SendFails, Place
  <2> QED
    BY <1>7, <2>1 DEF Send, SendFails, PagingInv, listVars
<1>8. ASSUME NEW o \in Order, Ship(o) PROVE PagingInv'
  <2>1. shipped \subseteq shipped'
    BY <1>8 DEF Ship
  <2>2. \A p \in shipped : Place(p) <= Place(p)' /\ Place(p) \in Nat /\ Place(p)' \in Nat
    BY <2>1, PlaceGrows, PlaceInRange
  <2>3. \A n \in Node : (page[n] - 1) * BatchSize \in Nat
    BY PageArithmetic DEF NotifierTypeOK
  <2>4. \A n \in Node : raced'[n] = (raced[n] \/ phase[n] = "page")
    BY <1>8 DEF Ship
  <2>5. \A n \in Node, p \in shipped :
          Place(p) > (page[n] - 1) * BatchSize => Place(p)' > (page[n] - 1) * BatchSize
    BY <2>2, <2>3
  <2> QED
    BY <1>8, <2>1, <2>4, <2>5 DEF Ship, PagingInv
<1>9. ASSUME NEW o \in Order, GrowsStale(o) PROVE PagingInv'
  BY <1>9 DEF GrowsStale, PagingInv, Place, listVars
<1>10. CASE UNCHANGED vars
  BY <1>10 DEF vars, noteVars, listVars, PagingInv, Place
<1> QED
  BY <1>1, <1>2, <1>3, <1>4, <1>5, <1>6, <1>7, <1>8, <1>9, <1>10 DEF NotifierNext, Advance

LEMMA PagingInvHolds == NotifierSpec => []PagingInv
<1>1. NotifierInit => PagingInv
  BY DEF NotifierInit, PagingInv
<1> QED
  BY <1>1, PagingInvStep, NotifierTyped, PTL DEF NotifierSpec

(* Whatever ships while the list is read, an order that was SHIPPED when   *)
(* paging began is listed, unless one shipped between the COUNT and the    *)
(* SELECT of the last page (fetchShippedOrderIds, listOrders).             *)
THEOREM ListsWhatWasShipped == NotifierSpec => NoneSkipped
<1> DEFINE Complete == \A n \in Node : phase[n] = "page" /\ phase'[n] = "work" /\ ~raced[n] =>
                         known[n] \subseteq seen'[n]
<1>1. NotifierTypeOK /\ PagingInv /\ [NotifierNext]_vars => Complete
  <2> SUFFICES ASSUME NotifierTypeOK, PagingInv, [NotifierNext]_vars, NEW n \in Node,
                      phase[n] = "page", phase'[n] = "work", ~raced[n], NEW o \in known[n]
               PROVE  o \in seen'[n]
    OBVIOUS
  <2>1. Fetch(n)
    BY DEF NotifierNext, Advance, Start, Sweep, Select, Count, Fetch, Finish, Claim, Send,
           SendFails, JobFails, Dies, Forget, Ship, GrowsStale, At, Goto, vars, NotifierTypeOK
  <2>2. page[n] * BatchSize >= total[n] \/ PageOf(page[n]) = {}
    BY <2>1 DEF Fetch, Goto, NotifierTypeOK
  <2>3. o \in shipped /\ total[n] = Cardinality(shipped) /\ page[n] \in Nat \ {0}
    BY DEF PagingInv, NotifierTypeOK
  <2>4. ~(Place(o) > page[n] * BatchSize)
    <3>1. CASE page[n] * BatchSize >= total[n]
      <4>1. Place(o) \in Nat /\ Place(o) <= Cardinality(shipped)
            /\ page[n] * BatchSize \in Nat /\ Cardinality(shipped) \in Nat
        BY <2>3, PlaceInRange, PageArithmetic, SubsetsOfOrder DEF NotifierTypeOK
      <4> QED
        BY <2>3, <3>1, <4>1
    <3>2. CASE PageOf(page[n]) = {}
      BY <2>3, <3>2, PagesHaveNoGaps
    <3> QED
      BY <2>2, <3>1, <3>2
  <2> QED
    BY <2>1, <2>4, FetchLists
<1>2. NotifierSpec => [][Complete]_vars
  BY <1>1, NotifierTyped, PagingInvHolds, PTL DEF NotifierSpec
<1> QED
  BY <1>2 DEF NoneSkipped
=============================================================================
