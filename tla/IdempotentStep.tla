---------------------------- MODULE IdempotentStep ----------------------------
(***************************************************************************)
(* One order at one worker service: HTTP requests for its do-step and its  *)
(* undo-step run through registerStep and runIdempotent side by side, in   *)
(* any number of service processes that may stall or die half-way.  One    *)
(* row of idempotency_records and one cache entry per step, one domain row.*)
(***************************************************************************)
EXTENDS Naturals, FiniteSets

CONSTANTS
  Request,   \* handler invocations that may be under way at once
  Injected,  \* steps the CSV flags make fail
  Faulty,    \* may statements fail and processes die?
  Stalls     \* may a live handler outlast the staleness limit (60 s)?

ASSUME StepAssumption ==
  Injected \subseteq {"do", "undo"} /\ Faulty \in BOOLEAN /\ Stalls \in BOOLEAN

Key == {"do", "undo"}

VARIABLES
  claim,    \* idempotency_records.status, or "absent"
  stale,    \* is created_at older than staleMs?
  cache,    \* completed results held by Redis
  domain,   \* the domain row: absent, live, or undone
  asked,    \* history: steps a request has got past the injected failures
  done,     \* history: how often a step's work was committed, counted to 2
  pc, key,  \* where each request stands, and the step it is for
  reply     \* its answer, delivered when pc is back at "free"

recordVars  == <<claim, stale>>
requestVars == <<pc, key, reply>>
vars == <<claim, stale, cache, domain, asked, done, pc, key, reply>>

PC    == {"free", "lookup", "claim", "inspect", "takeover", "work", "warm", "release"}
Reply == {"none", "ok", "busy", "error", "rule", "lost"}

TypeOK ==
  /\ claim \in [Key -> {"absent", "IN_PROGRESS", "COMPLETED"}]
  /\ stale \in [Key -> BOOLEAN] /\ cache \in [Key -> BOOLEAN]
  /\ domain \in {"none", "live", "undone"}
  /\ asked \subseteq Key /\ done \in [Key -> 0..2]
  /\ pc \in [Request -> PC] /\ key \in [Request -> Key] /\ reply \in [Request -> Reply]

Init ==
  /\ claim = [k \in Key |-> "absent"]
  /\ stale = [k \in Key |-> FALSE] /\ cache = [k \in Key |-> FALSE]
  /\ domain = "none" /\ asked = {}
  /\ done = [k \in Key |-> 0]
  /\ pc = [r \in Request |-> "free"] /\ key = [r \in Request |-> "do"]
  /\ reply = [r \in Request |-> "none"]

Goto(r, where)  == pc' = [pc EXCEPT ![r] = where] /\ UNCHANGED <<key, reply>>
Answer(r, what) == /\ pc' = [pc EXCEPT ![r] = "free"]
                   /\ reply' = [reply EXCEPT ![r] = what] /\ UNCHANGED key

-----------------------------------------------------------------------------
(* A request arrives; an injected failure comes before anything else, and  *)
(* only the UI's forced retry of an undo-step gets past one.               *)
Receive(r, k, forced) ==
  /\ pc[r] = "free"
  /\ key' = [key EXCEPT ![r] = k]
  /\ IF k \in Injected /\ ~(k = "undo" /\ forced)
     THEN reply' = [reply EXCEPT ![r] = "error"] /\ UNCHANGED <<pc, asked>>
     ELSE /\ pc' = [pc EXCEPT ![r] = "lookup"]
          /\ reply' = [reply EXCEPT ![r] = "none"]
          /\ asked' = asked \cup {k}
  /\ UNCHANGED <<recordVars, cache, domain, done>>

(* A miss, or Redis is down.                                               *)
CacheMiss(r) ==
  /\ pc[r] = "lookup" /\ Goto(r, "claim")
  /\ UNCHANGED <<recordVars, cache, domain, asked, done>>

CacheHit(r) ==
  /\ pc[r] = "lookup" /\ cache[key[r]] /\ Answer(r, "ok")
  /\ UNCHANGED <<recordVars, cache, domain, asked, done>>

(* The INSERT wins or meets the primary key.                               *)
Claim(r) ==
  /\ pc[r] = "claim"
  /\ IF claim[key[r]] = "absent"
     THEN /\ claim' = [claim EXCEPT ![key[r]] = "IN_PROGRESS"]
          /\ stale' = [stale EXCEPT ![key[r]] = FALSE]
          /\ Goto(r, "work")
     ELSE Goto(r, "inspect") /\ UNCHANGED recordVars
  /\ UNCHANGED <<cache, domain, asked, done>>

(* Slips of runIdempotent the runs must notice: any record is replayed; a  *)
(* claim is taken over at once, or never.                                  *)
InspectHasty(r) ==
  /\ pc[r] = "inspect" /\ Goto(r, "warm")
  /\ UNCHANGED <<recordVars, cache, domain, asked, done>>

AbandonedAtOnce(k) == claim[k] = "IN_PROGRESS"
AbandonedNever(k)  == FALSE

Inspect(r) ==
  /\ pc[r] = "inspect"
  /\ Goto(r, IF claim[key[r]] = "COMPLETED" THEN "warm" ELSE "takeover")
  /\ UNCHANGED <<recordVars, cache, domain, asked, done>>

(* One UPDATE decides staleness and takes over; no row means 409.          *)
Abandoned(k) == claim[k] = "IN_PROGRESS" /\ stale[k]
Takeover(r) ==
  /\ pc[r] = "takeover"
  /\ IF Abandoned(key[r])
     THEN stale' = [stale EXCEPT ![key[r]] = FALSE] /\ Goto(r, "work")
     ELSE Answer(r, "busy") /\ UNCHANGED stale
  /\ UNCHANGED <<claim, cache, domain, asked, done>>

(* The do-steps INSERT a row that is unique per order; the undo-steps      *)
(* UPDATE it if it is live and do nothing otherwise.                       *)
CanWork(k)    == k = "do" => domain = "none"
DomainAfter(k) ==
  IF k = "do" THEN "live" ELSE IF domain = "live" THEN "undone" ELSE domain

(* Work and record commit in one transaction; the UPDATE of the record     *)
(* names the key only, and its affected rows are not looked at.            *)
Commit(r) ==
  /\ pc[r] = "work" /\ CanWork(key[r])
  /\ domain' = DomainAfter(key[r])
  /\ done' = [done EXCEPT ![key[r]] = IF @ < 2 THEN @ + 1 ELSE @]
  /\ claim' = [claim EXCEPT ![key[r]] = IF @ = "absent" THEN @ ELSE "COMPLETED"]
  /\ UNCHANGED <<stale, cache, asked>>

Work(r) == Commit(r) /\ Goto(r, "warm")

(* The commit took effect but its reply was lost.                          *)
CommitLost(r) ==
  /\ Faulty /\ Commit(r)
  /\ pc' = [pc EXCEPT ![r] = "release"] /\ reply' = [reply EXCEPT ![r] = "error"]
  /\ UNCHANGED key

(* The work throws and is rolled back: a duplicate domain row, a business  *)
(* rule, a failed statement.                                               *)
WorkFails(r, why) ==
  /\ pc[r] = "work" /\ (~CanWork(key[r]) \/ Faulty)
  /\ pc' = [pc EXCEPT ![r] = "release"] /\ reply' = [reply EXCEPT ![r] = why]
  /\ UNCHANGED <<recordVars, cache, domain, asked, done, key>>

(* The DELETE of "our" claim knows no owner, only the status.              *)
Release(r) ==
  /\ pc[r] = "release"
  /\ pc' = [pc EXCEPT ![r] = "free"]
  /\ claim' = [claim EXCEPT ![key[r]] = IF @ = "IN_PROGRESS" THEN "absent" ELSE @]
  /\ UNCHANGED <<stale, cache, domain, asked, done, key, reply>>

Warm(r) ==
  /\ pc[r] = "warm" /\ Answer(r, "ok")
  /\ cache' = [cache EXCEPT ![key[r]] = TRUE]
  /\ UNCHANGED <<recordVars, domain, asked, done>>

(* A statement outside the transaction fails; or the INSERT or the         *)
(* takeover worked and only its reply was lost.                            *)
StatementFails(r) ==
  /\ Faulty /\ pc[r] \in {"claim", "inspect", "takeover"}
  /\ Answer(r, "error")
  /\ \/ UNCHANGED recordVars
     \/ /\ pc[r] = "claim" /\ claim[key[r]] = "absent"
        /\ claim' = [claim EXCEPT ![key[r]] = "IN_PROGRESS"]
        /\ stale' = [stale EXCEPT ![key[r]] = FALSE]
     \/ /\ pc[r] = "takeover" /\ Abandoned(key[r])
        /\ stale' = [stale EXCEPT ![key[r]] = FALSE] /\ UNCHANGED claim
  /\ UNCHANGED <<cache, domain, asked, done>>

(* The DELETE fails: the claim stays, and the error of the work is the     *)
(* answer all the same.                                                    *)
ReleaseFails(r) ==
  /\ Faulty /\ pc[r] = "release"
  /\ pc' = [pc EXCEPT ![r] = "free"]
  /\ UNCHANGED <<recordVars, cache, domain, asked, done, key, reply>>

(* The process dies; an open transaction dies with it.                     *)
Dies(r) ==
  /\ Faulty /\ pc[r] # "free"
  /\ Answer(r, "lost")
  /\ UNCHANGED <<recordVars, cache, domain, asked, done>>

(* Time passes: over a claim, and over a cache entry's TTL.                *)
Holding(k) == {r \in Request : key[r] = k /\ pc[r] \in {"work", "release"}}
GrowsStale(k) ==
  /\ claim[k] = "IN_PROGRESS" /\ ~stale[k]
  /\ Stalls \/ Holding(k) = {}
  /\ stale' = [stale EXCEPT ![k] = TRUE]
  /\ UNCHANGED <<claim, cache, domain, asked, done, requestVars>>

CacheForgets(k) ==
  /\ cache[k] /\ cache' = [cache EXCEPT ![k] = FALSE]
  /\ UNCHANGED <<recordVars, domain, asked, done, requestVars>>

Handle(r) ==
  \/ CacheMiss(r) \/ CacheHit(r) \/ Claim(r) \/ Inspect(r) \/ Takeover(r)
  \/ Work(r) \/ CommitLost(r) \/ WorkFails(r, "error") \/ WorkFails(r, "rule")
  \/ Release(r) \/ ReleaseFails(r) \/ Warm(r) \/ StatementFails(r) \/ Dies(r)

Next ==
  \/ \E r \in Request : Handle(r) \/ \E k \in Key, forced \in BOOLEAN : Receive(r, k, forced)
  \/ \E k \in Key : GrowsStale(k) \/ CacheForgets(k)

Spec == Init /\ [][Next]_vars

-----------------------------------------------------------------------------
(* "Never do a step twice": the work of a step is committed at most once,  *)
(* however many requests race, die and take over (runIdempotent).          *)
AtMostOnce == \A k \in Key : done[k] <= 1

(* The money is moved exactly once even beside handlers that stall: what   *)
(* the records cannot stop then, the unique domain row does.               *)
ChargedOnce == done["do"] <= 1

(* Work and record go together: whatever was done is on record, so that    *)
(* every further request replays it (the transaction in runIdempotent).    *)
RecordedWork == \A k \in Key : done[k] > 0 <=> claim[k] = "COMPLETED"

(* Redis never asserts what MySQL does not hold, even when the database    *)
(* forgets a reply (cache.set comes after the commit).                     *)
CacheTruthful == \A k \in Key : cache[k] => claim[k] = "COMPLETED"

(* A request answered ok was done, by it or by a twin.                     *)
OkMeansDone ==
  \A r \in Request : pc[r] = "free" /\ reply[r] = "ok" => done[key[r]] > 0

(* The promise the coordinator's model rests on.                           *)
StepName(k) == <<IF k = "do" THEN "FORWARD" ELSE "COMPENSATION", "it">>
Promise == INSTANCE StepService WITH
  Order <- {"it"}, Service <- {"it"},
  posted <- [o \in {"it"} |-> {StepName(k) : k \in asked}],
  record <- [o \in {"it"} |-> {StepName(k) : k \in {j \in Key : claim[j] = "COMPLETED"}}],
  effect <- [o \in {"it"} |-> [s \in {"it"} |-> domain]]
KeepsPromise == Promise!ServiceSpec

(* Handlers go on, claims age, and the faults end.                         *)
Fault(r) ==
  \/ CommitLost(r) \/ StatementFails(r) \/ ReleaseFails(r) \/ Dies(r)
  \/ CanWork(key[r]) /\ (WorkFails(r, "error") \/ WorkFails(r, "rule"))

FairSpec ==
  /\ Spec
  /\ \A r \in Request : WF_vars(Handle(r))
  /\ \A k \in Key : WF_vars(GrowsStale(k))
  /\ <>[][\A r \in Request : ~Fault(r)]_vars

(* No claim blocks its step for ever: a step that is asked for again and   *)
(* again gets done, whatever died in the middle of it (the staleness path).*)
NeverBlocked ==
  \A k \in Key \ (Injected \cap {"do"}) :
    []<><<\E r \in Request : Receive(r, k, TRUE)>>_vars => <>(claim[k] = "COMPLETED")

=============================================================================
