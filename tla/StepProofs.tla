----------------------------- MODULE StepProofs -----------------------------
(***************************************************************************)
(* Theorems about IdempotentStep for any number of concurrent requests,    *)
(* any injected steps and any faults: what holds however long a handler    *)
(* stalls, and what needs every handler to beat the staleness limit.       *)
(* Then about StepCall, for any number of tries.                           *)
(***************************************************************************)
EXTENDS StepCall, TLAPS

-----------------------------------------------------------------------------
(* Every variable keeps its type.                                          *)
LEMMA TypeInit == Init => TypeOK
BY DEF Init, TypeOK, Key, PC, Reply

(* Every step of a handler, of time and of the cache keeps the types.      *)
LEMMA TypeNext == TypeOK /\ [Next]_vars => TypeOK'
<1> SUFFICES ASSUME TypeOK, [Next]_vars PROVE TypeOK'
  OBVIOUS
<1> USE DEF TypeOK, PC, Reply, recordVars, requestVars, Goto, Answer
<1>0. \A r \in Request : key[r] \in Key
  OBVIOUS
<1>1. ASSUME NEW r \in Request, NEW k \in Key, NEW forced \in BOOLEAN, Receive(r, k, forced)
      PROVE  TypeOK'
  <2>1. /\ key' = [key EXCEPT ![r] = k]
        /\ UNCHANGED <<claim, stale, cache, domain, done>>
    BY <1>1 DEF Receive
  <2>2. /\ pc' = pc \/ pc' = [pc EXCEPT ![r] = "lookup"]
        /\ \E what \in {"error", "none"} : reply' = [reply EXCEPT ![r] = what]
        /\ asked' = asked \/ asked' = asked \cup {k}
    BY <1>1 DEF Receive
  <2> QED
    BY <2>1, <2>2
<1>2. ASSUME NEW r \in Request, CacheMiss(r) PROVE TypeOK'
  BY <1>2 DEF CacheMiss
<1>3. ASSUME NEW r \in Request, CacheHit(r) PROVE TypeOK'
  BY <1>3 DEF CacheHit
<1>4. ASSUME NEW r \in Request, Claim(r) PROVE TypeOK'
  <2>1. CASE claim[key[r]] = "absent"
    BY <1>0, <1>4, <2>1 DEF Claim
  <2>2. CASE claim[key[r]] # "absent"
    BY <1>4, <2>2 DEF Claim
  <2> QED
    BY <2>1, <2>2
<1>5. ASSUME NEW r \in Request, Inspect(r) PROVE TypeOK'
  BY <1>5 DEF Inspect
<1>6. ASSUME NEW r \in Request, Takeover(r) PROVE TypeOK'
  <2>1. CASE Abandoned(key[r])
    BY <1>0, <1>6, <2>1 DEF Takeover
  <2>2. CASE ~Abandoned(key[r])
    BY <1>6, <2>2 DEF Takeover
  <2> QED
    BY <2>1, <2>2
<1>7. ASSUME NEW r \in Request, Commit(r)
      PROVE  /\ claim' \in [Key -> {"absent", "IN_PROGRESS", "COMPLETED"}]
             /\ domain' \in {"none", "live", "undone"} /\ done' \in [Key -> 0..2]
             /\ UNCHANGED <<stale, cache, asked>>
  BY <1>0, <1>7 DEF Commit, DomainAfter
<1>8. ASSUME NEW r \in Request, Work(r) PROVE TypeOK'
  BY <1>7, <1>8 DEF Work
<1>9. ASSUME NEW r \in Request, CommitLost(r) PROVE TypeOK'
  BY <1>7, <1>9 DEF CommitLost
<1>10. ASSUME NEW r \in Request, NEW why \in {"error", "rule"}, WorkFails(r, why) PROVE TypeOK'
  BY <1>10 DEF WorkFails
<1>11. ASSUME NEW r \in Request, Release(r) PROVE TypeOK'
  BY <1>0, <1>11 DEF Release
<1>12. ASSUME NEW r \in Request, Warm(r) PROVE TypeOK'
  BY <1>0, <1>12 DEF Warm
<1>13. ASSUME NEW r \in Request, StatementFails(r) PROVE TypeOK'
  <2>1. Answer(r, "error") /\ UNCHANGED <<cache, domain, asked, done>>
    BY <1>13 DEF StatementFails
  <2>2. /\ \/ claim' = claim
           \/ claim' = [claim EXCEPT ![key[r]] = "IN_PROGRESS"]
        /\ \/ stale' = stale
           \/ stale' = [stale EXCEPT ![key[r]] = FALSE]
    BY <1>13 DEF StatementFails
  <2>3. claim' \in [Key -> {"absent", "IN_PROGRESS", "COMPLETED"}] /\ stale' \in [Key -> BOOLEAN]
    BY <1>0, <2>2
  <2> QED
    BY <2>1, <2>3
<1>14. ASSUME NEW r \in Request, ReleaseFails(r) \/ Dies(r) PROVE TypeOK'
  BY <1>14 DEF ReleaseFails, Dies
<1>15. ASSUME NEW k \in Key, GrowsStale(k) PROVE TypeOK'
  BY <1>15 DEF GrowsStale
<1>16. ASSUME NEW k \in Key, CacheForgets(k) PROVE TypeOK'
  BY <1>16 DEF CacheForgets
<1>17. CASE UNCHANGED vars
  BY <1>17 DEF vars
<1> QED
  BY <1>1, <1>2, <1>3, <1>4, <1>5, <1>6, <1>8, <1>9, <1>10, <1>11, <1>12, <1>13, <1>14, <1>15,
     <1>16, <1>17 DEF Next, Handle

(* Type correctness.                                                       *)
THEOREM StepTypeCorrect == Spec => []TypeOK
BY TypeInit, TypeNext, PTL DEF Spec

-----------------------------------------------------------------------------
(* However long handlers stall: whatever is recorded, cached or answered   *)
(* was done, and the unique domain row admits one do-step.                 *)
LedgerInv ==
  /\ done["do"] <= 1 /\ (done["do"] > 0 => domain # "none")
  /\ \A k \in Key : claim[k] = "COMPLETED" \/ cache[k] => done[k] > 0
  /\ \A r \in Request : pc[r] = "warm" \/ reply[r] = "ok" => done[key[r]] > 0

(* Nothing is done at first.                                               *)
LEMMA LedgerInit == Init => LedgerInv
BY DEF Init, LedgerInv, Key

(* No step records, caches or answers what was not done, or does a do-     *)
(* step twice.                                                             *)
LEMMA LedgerNext == TypeOK /\ LedgerInv /\ [Next]_vars => LedgerInv'
<1> SUFFICES ASSUME TypeOK, LedgerInv, [Next]_vars PROVE LedgerInv'
  OBVIOUS
<1> USE DEF recordVars, requestVars, Goto, Answer
<1>0. /\ pc \in [Request -> PC] /\ key \in [Request -> Key] /\ reply \in [Request -> Reply]
      /\ claim \in [Key -> {"absent", "IN_PROGRESS", "COMPLETED"}]
      /\ done \in [Key -> 0..2] /\ cache \in [Key -> BOOLEAN] /\ "do" \in Key
      /\ \A r \in Request : key[r] \in Key
  BY DEF TypeOK, Key
(* Steps that do no work: a record, an entry or an answer is as good as    *)
(* what it was made from.                                                  *)
<1>1. ASSUME UNCHANGED <<domain, done>>,
             \A k \in Key : claim'[k] = "COMPLETED" => claim[k] = "COMPLETED",
             \A k \in Key : cache'[k] => done[k] > 0,
             \A r \in Request : pc'[r] = "warm" \/ reply'[r] = "ok" => done[key'[r]] > 0
      PROVE  LedgerInv'
  BY <1>1 DEF LedgerInv
<1>2. ASSUME NEW r \in Request, NEW k \in Key, NEW forced \in BOOLEAN, Receive(r, k, forced)
      PROVE  LedgerInv'
  BY <1>0, <1>1, <1>2 DEF Receive, LedgerInv
<1>3. ASSUME NEW r \in Request, CacheMiss(r) \/ CacheHit(r) PROVE LedgerInv'
  BY <1>0, <1>1, <1>3 DEF CacheMiss, CacheHit, LedgerInv
<1>4. ASSUME NEW r \in Request, Claim(r) PROVE LedgerInv'
  BY <1>0, <1>1, <1>4 DEF Claim, LedgerInv
<1>5. ASSUME NEW r \in Request, Inspect(r) PROVE LedgerInv'
  BY <1>0, <1>1, <1>5 DEF Inspect, LedgerInv
<1>6. ASSUME NEW r \in Request, Takeover(r) PROVE LedgerInv'
  BY <1>0, <1>1, <1>6 DEF Takeover, LedgerInv
<1>7. ASSUME NEW r \in Request, Work(r) \/ CommitLost(r) PROVE LedgerInv'
  <2>1. Commit(r) /\ UNCHANGED key
    BY <1>7 DEF Work, CommitLost
  <2>2. done' = [done EXCEPT ![key[r]] = IF @ < 2 THEN @ + 1 ELSE @]
    BY <2>1 DEF Commit
  <2>3. done'[key[r]] > 0 /\ \A k \in Key : done[k] > 0 => done'[k] > 0
    BY <1>0, <2>2
  <2>4. done'["do"] <= 1 /\ (done'["do"] > 0 => domain' # "none")
    <3>1. CASE key[r] = "do"
      BY <1>0, <2>1, <2>2, <3>1 DEF Commit, CanWork, DomainAfter, LedgerInv
    <3>2. CASE key[r] # "do"
      BY <1>0, <2>1, <2>2, <3>2 DEF Commit, DomainAfter, LedgerInv
    <3> QED
      BY <3>1, <3>2
  <2>5. \A k \in Key : claim'[k] = "COMPLETED" \/ cache'[k] => done'[k] > 0
    <3>1. \A k \in Key : k # key[r] => claim'[k] = claim[k]
      BY <1>0, <2>1 DEF Commit
    <3> QED
      BY <2>1, <2>3, <3>1 DEF Commit, LedgerInv
  <2>6. \A q \in Request : pc'[q] = "warm" \/ reply'[q] = "ok" =>
          q = r \/ pc[q] = "warm" \/ reply[q] = "ok"
    BY <1>0, <1>7 DEF Work, CommitLost
  <2> QED
    BY <1>0, <2>1, <2>3, <2>4, <2>5, <2>6 DEF LedgerInv
<1>8. ASSUME NEW r \in Request, NEW why \in {"error", "rule"}, WorkFails(r, why) PROVE LedgerInv'
  BY <1>0, <1>1, <1>8 DEF WorkFails, LedgerInv
<1>9. ASSUME NEW r \in Request, Release(r) PROVE LedgerInv'
  BY <1>0, <1>1, <1>9 DEF Release, LedgerInv
<1>10. ASSUME NEW r \in Request, Warm(r) PROVE LedgerInv'
  BY <1>0, <1>1, <1>10 DEF Warm, LedgerInv
<1>11. ASSUME NEW r \in Request, StatementFails(r) PROVE LedgerInv'
  BY <1>0, <1>1, <1>11 DEF StatementFails, LedgerInv
<1>12. ASSUME NEW r \in Request, ReleaseFails(r) \/ Dies(r) PROVE LedgerInv'
  BY <1>0, <1>1, <1>12 DEF ReleaseFails, Dies, LedgerInv
<1>13. ASSUME NEW k \in Key, GrowsStale(k) \/ CacheForgets(k) PROVE LedgerInv'
  BY <1>0, <1>1, <1>13 DEF GrowsStale, CacheForgets, LedgerInv
<1>14. CASE UNCHANGED vars
  BY <1>1, <1>14 DEF vars, LedgerInv
<1> QED
  BY <1>2, <1>3, <1>4, <1>5, <1>6, <1>7, <1>8, <1>9, <1>10, <1>11, <1>12, <1>13, <1>14
  DEF Next, Handle

(* The money moves at most once, whoever stalls.                           *)
THEOREM ChargedOnceHolds == Spec => []ChargedOnce
<1>1. LedgerInv => ChargedOnce
  BY DEF LedgerInv, ChargedOnce
<1> QED
  BY <1>1, TypeInit, TypeNext, LedgerInit, LedgerNext, PTL DEF Spec

(* An ok answer is true, whoever stalls.                                   *)
THEOREM OkMeansDoneHolds == Spec => []OkMeansDone
<1>1. LedgerInv => OkMeansDone
  BY DEF LedgerInv, OkMeansDone
<1> QED
  BY <1>1, TypeInit, TypeNext, LedgerInit, LedgerNext, PTL DEF Spec

-----------------------------------------------------------------------------
(* Handlers that beat the staleness limit: a claim that somebody works     *)
(* under is young and his alone, so that the takeover cannot hit it and    *)
(* his DELETE cannot hit a claim of somebody else; so the record and the   *)
(* work agree.                                                             *)
Holds(r) == pc[r] \in {"work", "release"}

ClaimInv ==
  /\ \A r \in Request : Holds(r) =>
       claim[key[r]] # "absent" /\ (claim[key[r]] = "IN_PROGRESS" => ~stale[key[r]])
  /\ \A r \in Request : pc[r] = "work" => claim[key[r]] = "IN_PROGRESS"
  /\ \A r, q \in Request : Holds(r) /\ Holds(q) /\ key[r] = key[q] => r = q

RecordInv ==
  /\ \A k \in Key : done[k] <= 1 /\ (done[k] > 0 <=> claim[k] = "COMPLETED")
  /\ \A k \in Key : cache[k] => claim[k] = "COMPLETED"
  /\ \A r \in Request : pc[r] = "warm" => claim[key[r]] = "COMPLETED"
  /\ \A r \in Request : pc[r] # "free" => key[r] \in asked

PromptInv == ClaimInv /\ RecordInv

(* Nobody holds a claim at first.                                          *)
LEMMA PromptInit == Init => PromptInv
BY DEF Init, PromptInv, ClaimInv, RecordInv, Holds, Key

(* A claim under which somebody works is never taken over and never freed  *)
(* by another.                                                             *)
LEMMA ClaimNext ==
  ASSUME Stalls = FALSE, TypeOK, PromptInv, [Next]_vars
  PROVE  ClaimInv'
<1> USE DEF recordVars, requestVars, Goto, Answer, PromptInv
<1>0. /\ pc \in [Request -> PC] /\ key \in [Request -> Key]
      /\ claim \in [Key -> {"absent", "IN_PROGRESS", "COMPLETED"}] /\ stale \in [Key -> BOOLEAN]
      /\ \A r \in Request : key[r] \in Key
  BY DEF TypeOK
(* Steps that leave the claims alone and let nobody begin to hold one.     *)
<1>1. ASSUME UNCHANGED recordVars,
             \A r \in Request :
               (pc'[r] \in {"work", "release"} => Holds(r) /\ key'[r] = key[r])
               /\ (pc'[r] = "work" => pc[r] = "work")
      PROVE  ClaimInv'
  BY <1>1 DEF ClaimInv, Holds
<1>2. ASSUME NEW r \in Request, NEW k \in Key, NEW forced \in BOOLEAN, Receive(r, k, forced)
      PROVE  ClaimInv'
  BY <1>0, <1>1, <1>2 DEF Receive, Holds
<1>3. ASSUME NEW r \in Request,
             CacheMiss(r) \/ CacheHit(r) \/ Inspect(r) \/ Warm(r) \/ ReleaseFails(r) \/ Dies(r)
      PROVE  ClaimInv'
  BY <1>0, <1>1, <1>3 DEF CacheMiss, CacheHit, Inspect, Warm, ReleaseFails, Dies, Holds
<1>4. ASSUME NEW r \in Request, Claim(r) PROVE ClaimInv'
  <2>1. CASE claim[key[r]] = "absent"
    BY <1>0, <1>4, <2>1 DEF Claim, ClaimInv, Holds
  <2>2. CASE claim[key[r]] # "absent"
    BY <1>0, <1>1, <1>4, <2>2 DEF Claim, Holds
  <2> QED
    BY <2>1, <2>2
<1>5. ASSUME NEW r \in Request, Takeover(r) PROVE ClaimInv'
  <2>1. CASE Abandoned(key[r])
    BY <1>0, <1>5, <2>1 DEF Takeover, Abandoned, ClaimInv, Holds
  <2>2. CASE ~Abandoned(key[r])
    BY <1>0, <1>1, <1>5, <2>2 DEF Takeover, Holds
  <2> QED
    BY <2>1, <2>2
<1>6. ASSUME NEW r \in Request, Work(r) \/ CommitLost(r) PROVE ClaimInv'
  <2>1. /\ pc[r] = "work" /\ UNCHANGED <<key, stale>>
        /\ claim' = [claim EXCEPT ![key[r]] = "COMPLETED"]
    BY <1>0, <1>6 DEF Work, CommitLost, Commit, ClaimInv
  <2>2. pc' = [pc EXCEPT ![r] = "warm"] \/ pc' = [pc EXCEPT ![r] = "release"]
    BY <1>6 DEF Work, CommitLost
  <2> QED
    BY <1>0, <2>1, <2>2 DEF ClaimInv, Holds
<1>7. ASSUME NEW r \in Request, NEW why \in {"error", "rule"}, WorkFails(r, why) PROVE ClaimInv'
  BY <1>0, <1>1, <1>7 DEF WorkFails, Holds
<1>8. ASSUME NEW r \in Request, Release(r) PROVE ClaimInv'
  BY <1>0, <1>8 DEF Release, ClaimInv, Holds
<1>9. ASSUME NEW r \in Request, StatementFails(r) PROVE ClaimInv'
  <2>1. /\ pc' = [pc EXCEPT ![r] = "free"] /\ UNCHANGED key
        /\ pc[r] \in {"claim", "inspect", "takeover"}
    BY <1>9 DEF StatementFails
  <2>2. CASE UNCHANGED recordVars
    BY <1>0, <1>1, <2>1, <2>2 DEF Holds
  <2>3. CASE /\ pc[r] = "claim" /\ claim[key[r]] = "absent"
             /\ claim' = [claim EXCEPT ![key[r]] = "IN_PROGRESS"]
             /\ stale' = [stale EXCEPT ![key[r]] = FALSE]
    BY <1>0, <2>1, <2>3 DEF ClaimInv, Holds
  <2>4. CASE /\ pc[r] = "takeover" /\ Abandoned(key[r])
             /\ stale' = [stale EXCEPT ![key[r]] = FALSE] /\ UNCHANGED claim
    BY <1>0, <2>1, <2>4 DEF ClaimInv, Holds
  <2> QED
    BY <1>9, <2>2, <2>3, <2>4 DEF StatementFails
<1>10. ASSUME NEW k \in Key, GrowsStale(k) PROVE ClaimInv'
  <2>1. \A r \in Request : key[r] = k => ~Holds(r)
    BY <1>10 DEF GrowsStale, Holding, Holds
  <2> QED
    BY <1>0, <1>10, <2>1 DEF GrowsStale, ClaimInv, Holds
<1>11. ASSUME NEW k \in Key, CacheForgets(k) PROVE ClaimInv'
  BY <1>1, <1>11 DEF CacheForgets, Holds
<1>12. CASE UNCHANGED vars
  BY <1>1, <1>12 DEF vars, Holds
<1> QED
  BY <1>2, <1>3, <1>4, <1>5, <1>6, <1>7, <1>8, <1>9, <1>10, <1>11, <1>12 DEF Next, Handle

(* Steps that neither work nor forget what is done.                        *)
LEMMA RecordFrame ==
  ASSUME RecordInv, UNCHANGED done, asked \subseteq asked',
         \A k \in Key : claim'[k] = "COMPLETED" <=> claim[k] = "COMPLETED",
         \A k \in Key : cache'[k] => claim[k] = "COMPLETED",
         \A r \in Request : key[r] \in Key /\ key'[r] \in Key,
         \A r \in Request : pc'[r] = "warm" => claim[key'[r]] = "COMPLETED",
         \A r \in Request : pc'[r] # "free" => key'[r] \in asked'
  PROVE  RecordInv'
BY DEF RecordInv

(* Work and record change together.                                        *)
LEMMA RecordNext ==
  ASSUME TypeOK, PromptInv, [Next]_vars
  PROVE  RecordInv'
<1> USE DEF recordVars, requestVars, Goto, Answer, PromptInv
<1>0. /\ pc \in [Request -> PC] /\ key \in [Request -> Key]
      /\ claim \in [Key -> {"absent", "IN_PROGRESS", "COMPLETED"}]
      /\ cache \in [Key -> BOOLEAN] /\ done \in [Key -> 0..2]
      /\ \A r \in Request : key[r] \in Key
  BY DEF TypeOK
<1>1. ASSUME NEW r \in Request, NEW k \in Key, NEW forced \in BOOLEAN, Receive(r, k, forced)
      PROVE  RecordInv'
  <2>1. key' = [key EXCEPT ![r] = k] /\ UNCHANGED <<claim, cache, done>>
    BY <1>1 DEF Receive
  <2>2. \/ pc' = pc /\ pc[r] = "free" /\ asked' = asked
        \/ pc' = [pc EXCEPT ![r] = "lookup"] /\ asked' = asked \cup {k}
    BY <1>1 DEF Receive
  <2> QED
    BY <1>0, <2>1, <2>2, RecordFrame DEF RecordInv
<1>2. ASSUME NEW r \in Request, CacheMiss(r) \/ CacheHit(r) \/ ReleaseFails(r) \/ Dies(r)
      PROVE  RecordInv'
  BY <1>0, <1>2, RecordFrame DEF CacheMiss, CacheHit, ReleaseFails, Dies, RecordInv
<1>3. ASSUME NEW r \in Request, Claim(r) PROVE RecordInv'
  BY <1>0, <1>3, RecordFrame DEF Claim, RecordInv
<1>4. ASSUME NEW r \in Request, Inspect(r) PROVE RecordInv'
  BY <1>0, <1>4, RecordFrame DEF Inspect, RecordInv
<1>5. ASSUME NEW r \in Request, Takeover(r) PROVE RecordInv'
  BY <1>0, <1>5, RecordFrame DEF Takeover, RecordInv
<1>6. ASSUME NEW r \in Request, Work(r) \/ CommitLost(r) PROVE RecordInv'
  <2>1. /\ pc[r] = "work" /\ UNCHANGED <<key, cache, asked>>
        /\ claim[key[r]] = "IN_PROGRESS"
        /\ claim' = [claim EXCEPT ![key[r]] = "COMPLETED"]
        /\ done' = [done EXCEPT ![key[r]] = IF @ < 2 THEN @ + 1 ELSE @]
    BY <1>0, <1>6 DEF Work, CommitLost, Commit, ClaimInv
  <2>2. pc' = [pc EXCEPT ![r] = "warm"] \/ pc' = [pc EXCEPT ![r] = "release"]
    BY <1>6 DEF Work, CommitLost
  <2>3. done[key[r]] = 0
    BY <1>0, <2>1 DEF RecordInv
  <2>4. \A k \in Key : done'[k] <= 1 /\ (done'[k] > 0 <=> claim'[k] = "COMPLETED")
    BY <1>0, <2>1, <2>3 DEF RecordInv
  <2> QED
    BY <1>0, <2>1, <2>2, <2>4 DEF RecordInv
<1>7. ASSUME NEW r \in Request, NEW why \in {"error", "rule"}, WorkFails(r, why) PROVE RecordInv'
  BY <1>0, <1>7, RecordFrame DEF WorkFails, RecordInv
<1>8. ASSUME NEW r \in Request, Release(r) PROVE RecordInv'
  BY <1>0, <1>8, RecordFrame DEF Release, RecordInv
<1>9. ASSUME NEW r \in Request, Warm(r) PROVE RecordInv'
  BY <1>0, <1>9, RecordFrame DEF Warm, RecordInv
<1>10. ASSUME NEW r \in Request, StatementFails(r) PROVE RecordInv'
  <2>1. /\ pc' = [pc EXCEPT ![r] = "free"] /\ UNCHANGED <<key, cache, done, asked>>
    BY <1>10 DEF StatementFails
  <2>2. \/ claim' = claim
        \/ claim[key[r]] = "absent" /\ claim' = [claim EXCEPT ![key[r]] = "IN_PROGRESS"]
    BY <1>10 DEF StatementFails
  <2> QED
    BY <1>0, <2>1, <2>2, RecordFrame DEF RecordInv
<1>11. ASSUME NEW k \in Key, GrowsStale(k) \/ CacheForgets(k) PROVE RecordInv'
  BY <1>0, <1>11, RecordFrame DEF GrowsStale, CacheForgets, RecordInv
<1>12. CASE UNCHANGED vars
  BY <1>0, <1>12, RecordFrame DEF vars, RecordInv
<1> QED
  BY <1>1, <1>2, <1>3, <1>4, <1>5, <1>6, <1>7, <1>8, <1>9, <1>10, <1>11, <1>12 DEF Next, Handle

(* The strengthening of the three theorems below.                          *)
THEOREM PromptHolds == ASSUME Stalls = FALSE PROVE Spec => []PromptInv
<1>1. TypeOK /\ PromptInv /\ [Next]_vars => PromptInv'
  BY ClaimNext, RecordNext DEF PromptInv
<1> QED
  BY <1>1, TypeInit, TypeNext, PromptInit, PTL DEF Spec

(* No step is ever done twice.                                             *)
THEOREM AtMostOnceHolds == ASSUME Stalls = FALSE PROVE Spec => []AtMostOnce
<1>1. PromptInv => AtMostOnce
  BY DEF PromptInv, RecordInv, AtMostOnce
<1> QED
  BY <1>1, PromptHolds, PTL

(* What is done is on record, and nothing else is.                         *)
THEOREM RecordedWorkHolds == ASSUME Stalls = FALSE PROVE Spec => []RecordedWork
<1>1. PromptInv => RecordedWork
  BY DEF PromptInv, RecordInv, RecordedWork
<1> QED
  BY <1>1, PromptHolds, PTL

(* The cache asserts nothing that the database does not hold.              *)
THEOREM CacheTruthfulHolds == ASSUME Stalls = FALSE PROVE Spec => []CacheTruthful
<1>1. PromptInv => CacheTruthful
  BY DEF PromptInv, RecordInv, CacheTruthful
<1> QED
  BY <1>1, PromptHolds, PTL

-----------------------------------------------------------------------------
(* The records, the domain row and the requests keep the promise of        *)
(* StepService, which the coordinator's model rests on.                    *)
OnRecord == {StepName(k) : k \in {j \in Key : claim[j] = "COMPLETED"}}

(* The initial states map to those of the promise.                         *)
LEMMA PromiseInit == Init => Promise!ServiceInit
BY DEF Init, Promise!ServiceInit

(* A step that leaves the completed records and the domain row alone posts *)
(* a step or stutters.                                                     *)
LEMMA PromiseFrame ==
  ASSUME UNCHANGED domain,
         \A k \in Key : claim'[k] = "COMPLETED" <=> claim[k] = "COMPLETED",
         asked' = asked \/ \E k \in Key : asked' = asked \cup {k}
  PROVE  [Promise!ServiceNext]_(Promise!serviceVars)
<1>1. OnRecord' = OnRecord
  BY DEF OnRecord
<1>2. CASE asked' = asked
  BY <1>1, <1>2 DEF OnRecord, Promise!serviceVars
<1>3. ASSUME NEW k \in Key, asked' = asked \cup {k}
      PROVE  Promise!ServiceNext
  <2>1. {StepName(j) : j \in asked'} = {StepName(j) : j \in asked} \cup {StepName(k)}
    BY <1>3
  <2>2. StepName(k) \in Promise!Step
    BY DEF StepName, Promise!Step, Promise!ForwardSteps, Promise!CompensationSteps,
           Promise!Do, Promise!Undo, Key
  <2>3. Promise!Post("it", StepName(k))
    BY <2>1 DEF Promise!Post
  <2> QED
    BY <1>1, <2>2, <2>3 DEF Promise!ServiceNext, OnRecord
<1> QED
  BY <1>2, <1>3

(* Every step executes or posts a step as promised, or changes nothing     *)
(* promised.                                                               *)
LEMMA PromiseNext ==
  ASSUME Stalls = FALSE, TypeOK, PromptInv, [Next]_vars
  PROVE  [Promise!ServiceNext]_(Promise!serviceVars)
<1> USE DEF recordVars, requestVars, Goto, Answer, PromptInv
<1>0. /\ pc \in [Request -> PC] /\ key \in [Request -> Key]
      /\ claim \in [Key -> {"absent", "IN_PROGRESS", "COMPLETED"}]
      /\ \A r \in Request : key[r] \in Key
  BY DEF TypeOK
<1>1. ASSUME NEW r \in Request, NEW k \in Key, NEW forced \in BOOLEAN, Receive(r, k, forced)
      PROVE  [Promise!ServiceNext]_(Promise!serviceVars)
  <2>1. UNCHANGED <<claim, domain>> /\ (asked' = asked \/ asked' = asked \cup {k})
    BY <1>1 DEF Receive
  <2> QED
    BY <2>1, PromiseFrame
<1>2. ASSUME NEW r \in Request,
             \/ CacheMiss(r) \/ CacheHit(r) \/ Claim(r) \/ Inspect(r) \/ Takeover(r)
             \/ WorkFails(r, "error") \/ WorkFails(r, "rule")
             \/ Release(r) \/ ReleaseFails(r) \/ Warm(r) \/ StatementFails(r) \/ Dies(r)
      PROVE  [Promise!ServiceNext]_(Promise!serviceVars)
  <2>1. UNCHANGED <<domain, asked>>
    BY <1>2 DEF CacheMiss, CacheHit, Claim, Inspect, Takeover, WorkFails, Release, Warm,
                StatementFails, ReleaseFails, Dies
  <2>2. \/ UNCHANGED claim
        \/ claim[key[r]] = "absent" /\ claim' = [claim EXCEPT ![key[r]] = "IN_PROGRESS"]
        \/ claim' = [claim EXCEPT ![key[r]] = IF @ = "IN_PROGRESS" THEN "absent" ELSE @]
    BY <1>2 DEF CacheMiss, CacheHit, Claim, Inspect, Takeover, WorkFails, Release, Warm,
                StatementFails, ReleaseFails, Dies
  <2>3. \A k \in Key : claim'[k] = "COMPLETED" <=> claim[k] = "COMPLETED"
    BY <1>0, <2>2
  <2> QED
    BY <2>1, <2>3, PromiseFrame
<1>3. ASSUME NEW r \in Request, Work(r) \/ CommitLost(r)
      PROVE  Promise!ServiceNext
  <2> DEFINE k == key[r]
  <2>1. /\ pc[r] = "work" /\ UNCHANGED asked /\ claim[k] = "IN_PROGRESS" /\ k \in asked
        /\ claim' = [claim EXCEPT ![k] = "COMPLETED"]
    BY <1>0, <1>3 DEF Work, CommitLost, Commit, ClaimInv, RecordInv
  <2>2. domain' = DomainAfter(k)
    BY <1>3 DEF Work, CommitLost, Commit
  <2>3. k \in Key
    BY <1>0
  <2> HIDE DEF k
  <2>4. \A j \in Key : claim'[j] = "COMPLETED" <=> (claim[j] = "COMPLETED" \/ j = k)
    BY <1>0, <2>1, <2>3
  <2>5. OnRecord' = OnRecord \cup {StepName(k)}
    BY <2>3, <2>4 DEF OnRecord
  <2>6. StepName(k) \in {StepName(j) : j \in asked} \ OnRecord
    <3>1. \A j \in Key : StepName(j) = StepName(k) => j = k
      BY <2>3 DEF StepName, Key
    <3> QED
      BY <2>1, <2>3, <3>1 DEF OnRecord
  <2>7. Promise!Executes("it", StepName(k))
    BY <2>1, <2>5, <2>6 DEF Promise!Executes, OnRecord
  <2>8. ASSUME NEW old, NEW new
        PROVE  [o \in {"it"} |-> [s \in {"it"} |-> new]] =
               [[o \in {"it"} |-> [s \in {"it"} |-> old]] EXCEPT !["it"]["it"] = new]
    OBVIOUS
  <2>9. CASE k = "do"
    <3>1. StepName(k) = Promise!Do("it") /\ domain' = "live"
      BY <2>2, <2>9 DEF Promise!Do, StepName, DomainAfter
    <3>2. Promise!ExecuteDo("it", "it")
      BY <2>7, <2>8, <3>1 DEF Promise!ExecuteDo
    <3> QED
      BY <3>2 DEF Promise!ServiceNext
  <2>10. CASE k = "undo"
    <3>1. StepName(k) = Promise!Undo("it") /\ domain' = Promise!UndoEffect(domain)
      BY <2>2, <2>10 DEF Promise!Undo, Promise!UndoEffect, StepName, DomainAfter
    <3>2. Promise!ExecuteUndo("it", "it")
      <4> DEFINE f == [o \in {"it"} |-> [s \in {"it"} |-> domain]]
                 g == [o \in {"it"} |-> [s \in {"it"} |-> domain']]
      <4>1. f["it"]["it"] = domain
        OBVIOUS
      <4>2. g = [f EXCEPT !["it"]["it"] = Promise!UndoEffect(domain)]
        BY <2>8, <3>1
      <4>3. f' = g
        OBVIOUS
      <4>4. Promise!ExecuteUndo("it", "it") <=>
              /\ Promise!Executes("it", Promise!Undo("it"))
              /\ f' = [f EXCEPT !["it"]["it"] = Promise!UndoEffect(f["it"]["it"])]
        BY Zenon DEF Promise!ExecuteUndo
      <4>5. f' = [f EXCEPT !["it"]["it"] = Promise!UndoEffect(f["it"]["it"])]
        BY <4>1, <4>2, <4>3
      <4>6. Promise!Executes("it", Promise!Undo("it"))
        BY <2>7, <3>1 DEF Promise!Executes
      <4> HIDE DEF f, g
      <4> QED
        BY <4>4, <4>5, <4>6
    <3> QED
      BY <3>2 DEF Promise!ServiceNext
  <2> QED
    BY <2>3, <2>9, <2>10 DEF Key
<1>4. ASSUME NEW k \in Key, GrowsStale(k) \/ CacheForgets(k)
      PROVE  [Promise!ServiceNext]_(Promise!serviceVars)
  BY <1>4, PromiseFrame DEF GrowsStale, CacheForgets
<1>5. CASE UNCHANGED vars
  BY <1>5, PromiseFrame DEF vars
<1> QED
  BY <1>1, <1>2, <1>3, <1>4, <1>5 DEF Next, Handle

(* runIdempotent keeps the promise.                                        *)
THEOREM KeepsPromiseHolds == ASSUME Stalls = FALSE PROVE Spec => KeepsPromise
<1>1. TypeOK /\ PromptInv /\ [Next]_vars => [Promise!ServiceNext]_(Promise!serviceVars)
  BY PromiseNext
<1> QED
  BY <1>1, PromiseInit, StepTypeCorrect, PromptHolds, PTL DEF Spec, KeepsPromise, Promise!ServiceSpec
-----------------------------------------------------------------------------
(* The coordinator's end of the call.  To the service a call is nothing    *)
(* but requests for the do-step.                                           *)
LEMMA CallIsService ==
  /\ CallInit => Init
  /\ [CallNext]_allVars => [Next]_serviceVars
<1>1. [CallNext]_allVars => [Next]_serviceVars
  <2> SUFFICES ASSUME CallNext PROVE Next \/ UNCHANGED serviceVars
    BY DEF allVars
  <2>1. CASE Serve
    BY <2>1 DEF Serve, Next
  <2>2. ASSUME NEW r \in Request, Send(r) PROVE Next
    BY <2>2 DEF Send, Next, Key
  <2>3. CASE Call
    BY <2>2, <2>3 DEF Call, MarkRunning, Refused, Hear, TimesOut, Audit, AuditFails, Wake,
                      Report, ReportFails
  <2> QED
    BY <2>1, <2>3 DEF CallNext
<1> QED
  BY <1>1 DEF CallInit

(* A done step stays done.                                                 *)
LEMMA DoneStays ==
  ASSUME TypeOK, [Next]_vars, done["do"] > 0
  PROVE  done'["do"] > 0
<1>1. CASE UNCHANGED done
  BY <1>1
<1>2. ASSUME NEW r \in Request, Commit(r)
      PROVE  done'["do"] > 0
  <2>1. done' = [done EXCEPT ![key[r]] = IF @ < 2 THEN @ + 1 ELSE @]
    BY <1>2 DEF Commit
  <2> QED
    BY <2>1 DEF TypeOK
<1>3. UNCHANGED done \/ \E r \in Request : Commit(r)
  BY DEF vars, Next, Handle, Receive, CacheMiss, CacheHit, Claim, Inspect, Takeover, Work,
         CommitLost, WorkFails, Release, Warm, StatementFails,
         ReleaseFails, Dies, GrowsStale, CacheForgets
<1> QED
  BY <1>1, <1>2, <1>3

(* Where the call stands, whatever fails: only do-requests are out, an ok  *)
(* is heard of work that was done, and another try is slept for only while *)
(* one is left.                                                            *)
PlaceInv ==
  /\ \A r \in Request : key[r] = "do"
  /\ phase = "start" => attempt = 0 /\ row = "PENDING"
  /\ phase = "wait" => slot \in Request
  /\ phase \in {"send", "wait", "audit", "sleep", "report"} => attempt >= 1
  /\ phase = "audit" => verdict # "none"
  /\ phase = "sleep" => attempt < MaxAttempts
  /\ verdict = "ok" \/ row = "SUCCEEDED" => done["do"] > 0

(* What is on paper, as long as the coordinator's own statements work.     *)
PaperInv ==
  /\ \A n \in DOMAIN log :
       log[n][1] = n /\ (log[n][2] = "SUCCEEDED" => n = Len(log))
  /\ phase = "start" => attempt = 0 /\ log = <<>>
  /\ phase \in {"send", "wait", "audit"} => Len(log) = attempt - 1
  /\ phase \in {"sleep", "report", "done"} => Len(log) = attempt /\ attempt >= 1
  /\ phase \in {"send", "wait", "audit", "sleep"} => \A n \in DOMAIN log : log[n][2] # "SUCCEEDED"
  /\ phase \in {"report", "done"} => (log[Len(log)][2] = "SUCCEEDED" <=> verdict = "ok")
  /\ phase \in {"report", "done"} => attempt = MaxAttempts \/ verdict \in {"ok", "rule", "unknown"}
  /\ phase = "done" => attempts = attempt /\ row = IF verdict = "ok" THEN "SUCCEEDED" ELSE "FAILED"
  /\ phase # "done" => attempts = 0 /\ row \in {"PENDING", "RUNNING"}

CallInv == CallTypeOK /\ PlaceInv /\ (~spoilt => PaperInv)

LEMMA CallStarts == CallInit => CallInv
<1> SUFFICES ASSUME CallInit PROVE CallInv
  OBVIOUS
<1>1. CallTypeOK
  <2>1. MaxAttempts \in Nat /\ log \in Seq((1..MaxAttempts) \X Outcome)
    BY CallAssumption DEF CallInit
  <2>2. attempt \in 0..MaxAttempts /\ attempts \in 0..MaxAttempts
    BY <2>1 DEF CallInit
  <2>3. phase \in Phase /\ verdict \in Verdict /\ slot \in Request \cup {NoRequest}
    BY DEF CallInit, Phase, Verdict
  <2>4. row \in {"PENDING", "RUNNING", "SUCCEEDED", "FAILED"} /\ spoilt \in BOOLEAN
    BY DEF CallInit
  <2> QED
    BY <2>1, <2>2, <2>3, <2>4 DEF CallTypeOK
<1>2. PlaceInv
  BY DEF CallInit, Init, PlaceInv
<1>3. PaperInv
  BY DEF CallInit, PaperInv
<1> QED
  BY <1>1, <1>2, <1>3 DEF CallInv

LEMMA CallTypeNext ==
  ASSUME CallInv, [CallNext]_allVars
  PROVE  CallTypeOK'
<1> USE CallAssumption DEF CallTypeOK, Phase, Verdict, Broken, Enter, Judge
<1>1. CallTypeOK /\ PlaceInv
  BY DEF CallInv
<1>2. attempt \in 1..MaxAttempts => <<attempt, OutcomeOf(verdict)>> \in (1..MaxAttempts) \X Outcome
  BY DEF OutcomeOf, Outcome
<1>3. CASE UNCHANGED callVars
  BY <1>1, <1>3 DEF callVars
<1>4. CASE MarkRunning \/ Refused \/ TimesOut
  BY <1>1, <1>4 DEF MarkRunning, Refused, TimesOut
<1>5. CASE Hear
  BY <1>1, <1>5 DEF Hear, Heard, JudgeReply
<1>6. ASSUME NEW r \in Request, Send(r) PROVE CallTypeOK'
  BY <1>1, <1>6 DEF Send
<1>7. CASE Audit
  <2>1. attempt \in 1..MaxAttempts /\ log' = Append(log, <<attempt, OutcomeOf(verdict)>>)
    BY <1>1, <1>7 DEF Audit, Logged, PlaceInv
  <2>2. log' \in Seq((1..MaxAttempts) \X Outcome)
    BY <1>1, <1>2, <2>1
  <2> QED
    BY <1>1, <1>7, <2>2 DEF Audit
<1>8. CASE AuditFails
  <2>1. /\ attempt \in 1..MaxAttempts
        /\ log' = log \/ log' = Append(log, <<attempt, OutcomeOf(verdict)>>)
    BY <1>1, <1>8 DEF AuditFails, Logged, PlaceInv
  <2>2. log' \in Seq((1..MaxAttempts) \X Outcome)
    <3>1. log \in Seq((1..MaxAttempts) \X Outcome)
      BY <1>1
    <3>2. Append(log, <<attempt, OutcomeOf(verdict)>>) \in Seq((1..MaxAttempts) \X Outcome)
      BY <1>2, <2>1, <3>1
    <3> QED
      BY <2>1, <3>1, <3>2
  <2> QED
    BY <1>1, <1>8, <2>2 DEF AuditFails
<1>9. CASE Wake
  BY <1>1, <1>9 DEF Wake, PlaceInv
<1>10. CASE Report
  BY <1>1, <1>10 DEF Report
<1>11. CASE ReportFails
  BY <1>1, <1>11 DEF ReportFails
<1> QED
  BY <1>3, <1>4, <1>5, <1>6, <1>7, <1>8, <1>9, <1>10, <1>11
     DEF CallNext, Call, Serve, allVars, callVars

LEMMA PlaceNext ==
  ASSUME TypeOK, LedgerInv, CallInv, [CallNext]_allVars
  PROVE  PlaceInv'
<1> USE CallAssumption DEF Broken, Enter, Judge
<1>1. CallTypeOK /\ PlaceInv
  BY DEF CallInv
<1>2. done["do"] > 0 => done'["do"] > 0
  BY CallIsService, DoneStays DEF serviceVars, vars
<1>3. \A r \in Request : key'[r] = "do"
  <2>1. CASE UNCHANGED key
    BY <1>1, <2>1 DEF PlaceInv
  <2>2. ASSUME NEW r \in Request, Receive(r, "do", FALSE)
        PROVE  \A q \in Request : key'[q] = "do"
    BY <1>1, <2>2 DEF Receive, TypeOK, PlaceInv
  <2>3. UNCHANGED key \/ \E r \in Request : Receive(r, "do", FALSE)
    BY DEF allVars, serviceVars, vars, CallNext, Call, Serve, MarkRunning, Send, Refused, Hear,
           TimesOut, Audit, AuditFails, Wake, Report, ReportFails, Handle, CacheMiss, CacheHit,
           Claim, Inspect, Takeover, Work, CommitLost, WorkFails, Release, Warm, StatementFails,
           ReleaseFails,
           Dies, GrowsStale, CacheForgets, requestVars, Goto, Answer
  <2> QED
    BY <2>1, <2>2, <2>3
<1>4. CASE UNCHANGED callVars
  BY <1>1, <1>2, <1>3, <1>4 DEF PlaceInv, callVars
<1>5. CASE MarkRunning \/ Refused \/ TimesOut
  BY <1>1, <1>2, <1>3, <1>5 DEF PlaceInv, CallTypeOK, MarkRunning, Refused, TimesOut
<1>6. CASE Hear
  <2>1. slot \in Request /\ key[slot] = "do"
    BY <1>1, <1>6 DEF Hear, PlaceInv
  <2>2. verdict' = "ok" => done["do"] > 0
    BY <1>6, <2>1 DEF Hear, Heard, JudgeReply, LedgerInv
  <2>3. verdict' # "none"
    BY <1>6 DEF Hear, Heard, JudgeReply
  <2> QED
    BY <1>1, <1>2, <1>3, <1>6, <2>2, <2>3 DEF Hear, PlaceInv
<1>7. ASSUME NEW r \in Request, Send(r) PROVE PlaceInv'
  BY <1>1, <1>2, <1>3, <1>7 DEF PlaceInv, Send
<1>8. CASE Audit
  BY <1>1, <1>2, <1>3, <1>8 DEF PlaceInv, CallTypeOK, Audit, WillRetry
<1>9. CASE AuditFails
  BY <1>1, <1>2, <1>3, <1>9 DEF PlaceInv, AuditFails
<1>10. CASE Wake
  BY <1>1, <1>2, <1>3, <1>10 DEF PlaceInv, CallTypeOK, Wake
<1>11. CASE Report \/ ReportFails
  BY <1>1, <1>2, <1>3, <1>11 DEF PlaceInv, Report, ReportFails
<1> QED
  BY <1>4, <1>5, <1>6, <1>7, <1>8, <1>9, <1>10, <1>11
     DEF CallNext, Call, Serve, allVars, callVars

LEMMA PaperNext ==
  ASSUME CallInv, [CallNext]_allVars, ~spoilt'
  PROVE  PaperInv'
<1> USE CallAssumption DEF Broken, Enter, Judge
<1>1. CASE UNCHANGED callVars
  BY <1>1 DEF CallInv, PaperInv, callVars
<1>2. ~AuditFails /\ ~ReportFails
  BY DEF AuditFails, ReportFails
<1>3. CASE Call
  <2>1. CallTypeOK /\ PlaceInv /\ PaperInv
    BY <1>2, <1>3 DEF CallInv, Call, MarkRunning, Send, Refused, Hear, TimesOut, Audit, Wake, Report
  <2>2. CASE MarkRunning
    BY <2>1, <2>2 DEF MarkRunning, PaperInv
  <2>3. CASE Refused \/ Hear \/ TimesOut \/ \E r \in Request : Send(r)
    BY <2>1, <2>3 DEF Refused, Hear, TimesOut, Send, PaperInv
  <2>4. CASE Audit
    <3> DEFINE entry == <<attempt, OutcomeOf(verdict)>>
    <3>1. /\ phase = "audit" /\ log' = Append(log, entry) /\ Len(log) = attempt - 1
          /\ phase' = IF WillRetry THEN "sleep" ELSE "report"
          /\ UNCHANGED <<attempt, verdict, row, attempts>> /\ verdict # "none"
      BY <2>1, <2>4 DEF Audit, Logged, PaperInv, PlaceInv
    <3>2. log \in Seq((1..MaxAttempts) \X Outcome) /\ attempt \in 1..MaxAttempts
      BY <2>1, <3>1 DEF CallTypeOK, PlaceInv
    <3> HIDE DEF entry
    <3>3. /\ Len(log') = attempt /\ DOMAIN log' = 1..attempt /\ DOMAIN log = 1..(attempt - 1)
          /\ log'[attempt] = entry /\ \A n \in 1..(attempt - 1) : log'[n] = log[n]
      BY <3>1, <3>2
    <3>4. entry[1] = attempt /\ (entry[2] = "SUCCEEDED" <=> verdict = "ok")
      BY DEF entry, OutcomeOf
    <3>5. \A n \in DOMAIN log : log[n][1] = n /\ log[n][2] # "SUCCEEDED"
      BY <2>1, <3>1 DEF PaperInv
    <3>6. \A n \in DOMAIN log' : log'[n][1] = n /\ (log'[n][2] = "SUCCEEDED" => n = Len(log'))
      BY <3>2, <3>3, <3>4, <3>5
    <3>7. WillRetry => \A n \in DOMAIN log' : log'[n][2] # "SUCCEEDED"
      BY <3>2, <3>3, <3>4, <3>5 DEF WillRetry
    <3>8. ~WillRetry => attempt = MaxAttempts \/ verdict \in {"ok", "rule", "unknown"}
      BY <2>1, <3>1, <3>2 DEF WillRetry, CallTypeOK, Verdict
    <3> QED
      BY <2>1, <3>1, <3>2, <3>3, <3>4, <3>6, <3>7, <3>8 DEF PaperInv
  <2>5. CASE Wake
    BY <2>1, <2>5 DEF Wake, PaperInv, CallTypeOK
  <2>6. CASE Report
    BY <2>1, <2>6 DEF Report, PaperInv, CallTypeOK
  <2> QED
    BY <1>2, <1>3, <2>2, <2>3, <2>4, <2>5, <2>6 DEF Call
<1> QED
  BY <1>1, <1>3 DEF CallNext, Serve, allVars, callVars

LEMMA CallInvHolds == CallSpec => [](CallInv /\ LedgerInv)
<1>1. TypeOK /\ LedgerInv /\ CallInv /\ [CallNext]_allVars => TypeOK' /\ LedgerInv' /\ CallInv'
  <2>1. [CallNext]_allVars => [Next]_vars
    BY CallIsService DEF serviceVars
  <2> QED
    BY <2>1, TypeNext, LedgerNext, CallTypeNext, PlaceNext, PaperNext DEF CallInv
<1> QED
  BY <1>1, CallIsService, TypeInit, LedgerInit, CallStarts, PTL DEF CallSpec

(* Every counter of a call stays within its bound, whatever is lost.       *)
THEOREM CallTyped == CallSpec => []CallTypeOK
BY CallInvHolds, PTL DEF CallInv

(* The audit trail lists every try once, in order, with its outcome.       *)
THEOREM AuditTellsAllHolds == CallSpec => []AuditTellsAll
<1>1. CallInv => AuditTellsAll
  <2> SUFFICES ASSUME CallInv, ~spoilt
               PROVE  /\ \A n \in DOMAIN log :
                           log[n][1] = n /\ (log[n][2] = "SUCCEEDED" => n = Len(log))
                      /\ phase = "done" =>
                           /\ attempts = Len(log) /\ log # <<>>
                           /\ (row = "SUCCEEDED") <=> (log[Len(log)][2] = "SUCCEEDED")
    BY DEF AuditTellsAll
  <2>1. PaperInv
    BY DEF CallInv
  <2> QED
    BY <2>1 DEF PaperInv
<1> QED
  BY <1>1, CallInvHolds, PTL

(* Without trouble of its own the coordinator gives up after the last try, *)
(* on a business rule, or on an error that the classification of errors    *)
(* does not know and so does not retry.                                    *)
THEOREM NoGivingUpEarlyHolds == CallSpec => []NoGivingUpEarly
<1>1. CallInv => NoGivingUpEarly
  BY DEF CallInv, PaperInv, NoGivingUpEarly
<1> QED
  BY <1>1, CallInvHolds, PTL

(* What a row calls SUCCEEDED is done and on record at the service.        *)
THEOREM SucceededOnRecordHolds ==
  ASSUME Stalls = FALSE PROVE CallSpec => []SucceededOnRecord
<1>1. CallSpec => Spec
  BY CallIsService, PTL DEF CallSpec, Spec, serviceVars
<1>2. CallInv /\ LedgerInv /\ PromptInv => SucceededOnRecord
  BY DEF CallInv, PlaceInv, LedgerInv, PromptInv, RecordInv, SucceededOnRecord, Key
<1> QED
  BY <1>1, <1>2, CallInvHolds, PromptHolds, PTL

-----------------------------------------------------------------------------
(* The tries as the rest of the coordinator sees them.  Nothing is done,   *)
(* and nobody at the service is at work, before the first try is sent, or  *)
(* if the flags fail the step.                                             *)
StartInv ==
  /\ "do" \in asked => attempt >= 1 /\ "do" \notin Injected
  /\ done["do"] > 0 => "do" \in asked

LEMMA StartNext ==
  ASSUME TypeOK, PromptInv, CallInv, StartInv, [CallNext]_allVars
  PROVE  StartInv'
<1>t. CallTypeOK /\ PlaceInv /\ attempt \in Nat
  BY CallAssumption DEF CallInv, CallTypeOK
<1>1. attempt >= 1 => attempt' >= 1
  <2>1. attempt' \in {1, attempt, attempt + 1}
    BY DEF CallNext, Call, Serve, allVars, callVars, MarkRunning, Send, Refused, Hear, TimesOut,
           Audit, AuditFails, Wake, Report, ReportFails
  <2> QED
    BY <1>t, <2>1
<1>2. ASSUME "do" \in asked' PROVE attempt' >= 1 /\ "do" \notin Injected
  <2>1. CASE "do" \in asked
    BY <1>1, <2>1 DEF StartInv
  <2>2. CASE asked' # asked
    <3>1. PICK r \in Request : Send(r)
      BY <2>2 DEF allVars, serviceVars, vars, CallNext, Call, Serve, MarkRunning, Refused, Hear,
         TimesOut, Audit, AuditFails, Wake, Report, ReportFails, Handle, CacheMiss, CacheHit, Claim,
         Inspect, Takeover, Work, CommitLost, Commit, WorkFails, Release, Warm, StatementFails,
         ReleaseFails, Dies,
         GrowsStale, CacheForgets
    <3> QED
      BY <1>t, <1>1, <2>2, <3>1 DEF Send, Receive, PlaceInv
  <2> QED
    BY <1>2, <2>1, <2>2
<1>3. ASSUME done'["do"] > 0 PROVE "do" \in asked'
  <2>1. asked \subseteq asked'
    BY DEF allVars, serviceVars, vars, CallNext, Call, Serve, MarkRunning, Refused, Hear, Send, Receive,
       TimesOut, Audit, AuditFails, Wake, Report, ReportFails, Handle, CacheMiss, CacheHit, Claim,
       Inspect, Takeover, Work, CommitLost, Commit, WorkFails, Release, Warm, StatementFails,
       ReleaseFails, Dies,
       GrowsStale, CacheForgets
  <2>2. CASE UNCHANGED done
    BY <1>3, <2>1, <2>2 DEF StartInv
  <2>3. ASSUME NEW r \in Request, Commit(r) PROVE "do" \in asked'
    <3>1. key[r] = "do" /\ pc[r] # "free"
      BY <1>t, <2>3 DEF Commit, PlaceInv
    <3> QED
      BY <2>1, <3>1 DEF PromptInv, RecordInv
  <2>4. UNCHANGED done \/ \E r \in Request : Commit(r)
    BY DEF allVars, serviceVars, vars, CallNext, Call, Serve, MarkRunning, Refused, Hear, Send, Receive,
       TimesOut, Audit, AuditFails, Wake, Report, ReportFails, Handle, CacheMiss, CacheHit, Claim,
       Inspect, Takeover, Work, CommitLost, WorkFails, Release, Warm, StatementFails,
       ReleaseFails, Dies,
       GrowsStale, CacheForgets
  <2> QED
    BY <2>2, <2>3, <2>4
<1> QED
  BY <1>1, <1>2, <1>3 DEF StartInv

(* Together with what is known of the requests.                            *)
LEMMA StartHolds ==
  ASSUME Stalls = FALSE PROVE CallSpec => [](TypeOK /\ PromptInv /\ CallInv /\ StartInv)
<1>1. CallSpec => Spec
  BY CallIsService, PTL DEF CallSpec, Spec, serviceVars
<1>2. CallInit => StartInv
  BY DEF CallInit, Init, StartInv, Key
<1> QED
  BY <1>1, <1>2, StartNext, CallInvHolds, StepTypeCorrect, PromptHolds, PTL DEF CallSpec

-----------------------------------------------------------------------------
(* A call makes a bounded number of steps of its own.                      *)
LEMMA TriesNext ==
  ASSUME CallInv, CallInv', [CallNext]_allVars
  PROVE  0 <= StepsToEnd' /\ (Call => StepsToEnd' < StepsToEnd)
<1>t. CallTypeOK /\ PlaceInv /\ CallTypeOK' /\ MaxAttempts \in Nat \ {0}
  BY CallAssumption DEF CallInv
<1>1. attempt \in 0..MaxAttempts /\ attempt' \in 0..MaxAttempts /\ phase' \in Phase
  BY <1>t DEF CallTypeOK
<1>2. 0 <= StepsToEnd'
  BY <1>t, <1>1 DEF StepsToEnd, Phase
<1>3. ASSUME Call PROVE StepsToEnd' < StepsToEnd
  <2>1. CASE MarkRunning
    BY <1>t, <1>1, <2>1 DEF MarkRunning, PlaceInv, StepsToEnd, Enter
  <2>2. CASE Refused \/ Hear \/ TimesOut \/ \E r \in Request : Send(r)
    <3>1. attempt' = attempt
      BY <2>2 DEF Send, Refused, Hear, TimesOut
    <3>2. (phase = "send" /\ phase' \in {"wait", "audit"}) \/ (phase = "wait" /\ phase' = "audit")
      BY <2>2 DEF Send, Refused, Hear, TimesOut, Enter
    <3>3. CASE phase' = "wait"
      BY <1>t, <1>1, <3>1, <3>2, <3>3 DEF StepsToEnd
    <3>4. CASE phase' = "audit"
      BY <1>t, <1>1, <3>1, <3>2, <3>4 DEF StepsToEnd
    <3> QED
      BY <3>2, <3>3, <3>4
  <2>3. CASE Audit
    BY <1>t, <1>1, <2>3 DEF Audit, StepsToEnd, Enter
  <2>4. CASE AuditFails
    <3>1. CASE verdict = "ok"
      BY <1>t, <1>1, <2>4, <3>1 DEF AuditFails, Broken, StepsToEnd, Enter
    <3>2. CASE verdict # "ok"
      BY <1>t, <1>1, <2>4, <3>2 DEF AuditFails, StepsToEnd, Enter
    <3> QED
      BY <3>1, <3>2
  <2>5. CASE Wake
    BY <1>t, <1>1, <2>5 DEF Wake, StepsToEnd, Enter
  <2>6. CASE Report \/ ReportFails
    BY <1>t, <1>1, <2>6 DEF Report, ReportFails, PlaceInv, StepsToEnd, Enter
  <2> QED
    BY <1>3, <2>1, <2>2, <2>3, <2>4, <2>5, <2>6 DEF Call
<1> QED
  BY <1>2, <1>3

(* However long the service stalls, and whatever fails.                    *)
THEOREM TriesRunOutHolds == CallSpec => TriesRunOut
<1>1. CallInv /\ CallInv' /\ [CallNext]_allVars =>
        [0 <= StepsToEnd' /\ (Call => StepsToEnd' < StepsToEnd)]_allVars
  BY TriesNext
<1> QED
  BY <1>1, CallInvHolds, PTL DEF CallSpec, TriesRunOut
-----------------------------------------------------------------------------
(* The refinement: a call's tries are one engine step each, or none.       *)
EngineStep ==
  \/ Engine!SendStep(TheTask, "it") \/ Engine!StepSucceeds(TheTask, "it")
  \/ Engine!StepFails(TheTask, "it") \/ Engine!StepRejects(TheTask, "it")
  \/ Engine!ServiceExecutes("it", "it")

(* The engine's state, made of the call's.                                 *)
RowOf(x)  == [o \in {"it"} |-> [st \in {DoStep} |-> x]]
LegsOf(x) == [t \in TheTasks |-> [s \in {"it"} |-> IF t = TheTask THEN x ELSE "off"]]
SetOf(x)  == [o \in {"it"} |-> x]
WorkOf(x) == [o \in {"it"} |-> [s \in {"it"} |-> x]]
Posted == IF attempt = 0 \/ "do" \in Injected THEN {} ELSE {DoStep}
Record == IF claim["do"] = "COMPLETED" THEN {DoStep} ELSE {}

LEMMA EngineState ==
  ASSUME NEW x, NEW y
  PROVE  /\ RowOf(y) = [RowOf(x) EXCEPT !["it"][DoStep] = y] /\ RowOf(x)["it"][DoStep] = x
         /\ LegsOf(y) = [LegsOf(x) EXCEPT ![TheTask]["it"] = y] /\ LegsOf(x)[TheTask]["it"] = x
         /\ SetOf(y) = [SetOf(x) EXCEPT !["it"] = y] /\ SetOf(x)["it"] = x
         /\ WorkOf(y) = [WorkOf(x) EXCEPT !["it"]["it"] = y]
<1>1. LegsOf(y) = [LegsOf(x) EXCEPT ![TheTask]["it"] = y] /\ LegsOf(x)[TheTask]["it"] = x
  <2>1. TheTask \in TheTasks /\ DOMAIN LegsOf(x)[TheTask] = {"it"}
    BY DEF LegsOf, TheTasks
  <2> QED
    BY <2>1 DEF LegsOf
<1> QED
  BY <1>1 DEF RowOf, SetOf, WorkOf

(* The actions of the engine, said of the call.                            *)
LEMMA Sends ==
  ASSUME LegNow = "todo", LegNow' = "call", row # "SUCCEEDED", row' = "RUNNING",
         Posted' = IF "do" \in Injected THEN Posted ELSE Posted \cup {DoStep},
         UNCHANGED <<Record, domain>>
  PROVE  Engine!SendStep(TheTask, "it")
<1>1. Engine!Running(TheTask) /\ Engine!Ord(TheTask) = "it" /\ Engine!StepOf(TheTask, "it") = DoStep
  BY DEF Engine!Running, Engine!Ord, Engine!StepOf, Engine!Do, TheTask, TheTasks, DoStep
<1>2. Engine!FlagFails(TheTask, "it") <=> "do" \in Injected
  BY DEF Engine!FlagFails, Engine!Ord, TheTask, TheTasks
<1>3. Engine!MarkStepRunning("it", DoStep)
  BY EngineState DEF Engine!MarkStepRunning, RowOf
<1>4. Engine!SetLeg(TheTask, "it", "call")
  BY EngineState DEF Engine!SetLeg, LegsOf
<1>5. IF "do" \in Injected THEN SetOf(Posted)' = SetOf(Posted) ELSE Engine!Post("it", DoStep)
  BY EngineState DEF Engine!Post, SetOf, Posted
<1>6. LegsOf(LegNow)[TheTask]["it"] = "todo"
  BY EngineState
<1>7. UNCHANGED <<SetOf(Record), WorkOf(domain)>>
  BY DEF SetOf, WorkOf
<1> QED
  BY <1>1, <1>2, <1>3, <1>4, <1>5, <1>6, <1>7
  DEF Engine!SendStep, Engine!orderVars, Engine!csvVars, SetOf, Posted, Record, LegsOf, WorkOf

(* The three verdicts: all leave the requests and the service alone.       *)
LEMMA Verdicts ==
  ASSUME LegNow \in {"todo", "call"}, UNCHANGED <<Posted, Record, domain>>
  PROVE  /\ (/\ LegNow = "call" /\ LegNow' = "ok" /\ row' = "SUCCEEDED"
             /\ Record = {DoStep} /\ "do" \notin Injected)
            => Engine!StepSucceeds(TheTask, "it")
         /\ (LegNow' = "failed" /\ row' = "FAILED") => Engine!StepFails(TheTask, "it")
         /\ (/\ LegNow' = "failed"
             /\ \/ row' = row
                \/ LegNow = "todo" /\ row # "SUCCEEDED" /\ row' = "RUNNING"
                \/ LegNow = "call" /\ row' = "SUCCEEDED" /\ Record = {DoStep} /\ "do" \notin Injected)
            => Engine!StepRejects(TheTask, "it")
<1>1. Engine!Running(TheTask) /\ Engine!Ord(TheTask) = "it" /\ Engine!StepOf(TheTask, "it") = DoStep
  BY DEF Engine!Running, Engine!Ord, Engine!StepOf, Engine!Do, TheTask, TheTasks, DoStep
<1>2. Engine!FlagFails(TheTask, "it") <=> "do" \in Injected
  BY DEF Engine!FlagFails, Engine!Ord, TheTask, TheTasks
<1>3. LegsOf(LegNow)[TheTask]["it"] = LegNow
  BY EngineState
<1>4. UNCHANGED <<SetOf(Posted), SetOf(Record), WorkOf(domain)>>
  BY DEF SetOf, WorkOf
<1>5. ASSUME NEW now, LegNow' = now PROVE Engine!SetLeg(TheTask, "it", now)
  BY <1>5, EngineState DEF Engine!SetLeg, LegsOf
<1>6. ASSUME NEW result, row' = result PROVE Engine!MarkStepResult("it", DoStep, result)
  BY <1>6, EngineState DEF Engine!MarkStepResult, RowOf
<1>7. ASSUME LegNow = "call", Record = {DoStep}, "do" \notin Injected PROVE Engine!Answerable(TheTask, "it")
  BY <1>1, <1>2, <1>3, <1>7, EngineState DEF Engine!Answerable, LegsOf, SetOf, Record
<1>8. ASSUME LegNow = "call", LegNow' = "ok", row' = "SUCCEEDED", Record = {DoStep}, "do" \notin Injected
      PROVE  Engine!StepSucceeds(TheTask, "it")
  BY <1>1, <1>4, <1>5, <1>6, <1>7, <1>8
  DEF Engine!StepSucceeds, Engine!orderVars, Engine!csvVars, Engine!serviceVars, SetOf, Posted, Record, WorkOf
<1>9. ASSUME LegNow' = "failed", row' = "FAILED" PROVE Engine!StepFails(TheTask, "it")
  BY <1>1, <1>3, <1>4, <1>5, <1>6, <1>9
  DEF Engine!StepFails, Engine!orderVars, Engine!csvVars, Engine!serviceVars, SetOf, Posted, Record,
      WorkOf, LegsOf
<1>10. ASSUME LegNow' = "failed",
              \/ row' = row
              \/ LegNow = "todo" /\ row # "SUCCEEDED" /\ row' = "RUNNING"
              \/ LegNow = "call" /\ row' = "SUCCEEDED" /\ Record = {DoStep} /\ "do" \notin Injected
       PROVE  Engine!StepRejects(TheTask, "it")
  <2>1. \/ RowOf(row)' = RowOf(row)
        \/ LegNow = "todo" /\ Engine!MarkStepRunning("it", DoStep)
        \/ Engine!Answerable(TheTask, "it") /\ Engine!MarkStepResult("it", DoStep, "SUCCEEDED")
    <3>1. ASSUME row # "SUCCEEDED", row' = "RUNNING" PROVE Engine!MarkStepRunning("it", DoStep)
      BY <3>1, EngineState DEF Engine!MarkStepRunning, RowOf
    <3> QED
      BY <1>6, <1>7, <1>10, <3>1 DEF RowOf
  <2> QED
    BY <1>1, <1>3, <1>4, <1>5, <1>10, <2>1
    DEF Engine!StepRejects, Engine!orderVars, Engine!csvVars, Engine!serviceVars, SetOf, Posted, Record,
        WorkOf, LegsOf, RowOf
<1> QED
  BY <1>8, <1>9, <1>10

(* The service executes the step.                                          *)
LEMMA Executed ==
  ASSUME UNCHANGED <<row, LegNow, Posted>>, Posted = {DoStep}, Record = {}, Record' = {DoStep}, domain' = "live"
  PROVE  Engine!ServiceExecutes("it", "it")
<1>1. Engine!Do("it") = DoStep
  BY DEF Engine!Do, DoStep
<1>2. /\ SetOf(Record)' = [SetOf(Record) EXCEPT !["it"] = @ \cup {DoStep}] /\ SetOf(Record)["it"] = {}
      /\ SetOf(Posted)["it"] = {DoStep} /\ UNCHANGED SetOf(Posted)
      /\ WorkOf(domain)' = [WorkOf(domain) EXCEPT !["it"]["it"] = "live"]
  BY DEF SetOf, WorkOf
<1>3. Engine!Executes("it", DoStep)
  BY <1>2 DEF Engine!Executes, SetOf, Posted, Record
<1>4. Engine!ExecuteDo("it", "it")
  BY <1>1, <1>2, <1>3 DEF Engine!ExecuteDo, WorkOf
<1>5. UNCHANGED <<RowOf(row), LegsOf(LegNow)>>
  BY DEF RowOf, LegsOf
<1> QED
  BY <1>4, <1>5
  DEF Engine!ServiceExecutes, Engine!storeVars, Engine!taskVars, Engine!csvVars, RowOf, LegsOf

(* Nothing the engine knows of.                                            *)
LEMMA Unseen ==
  ASSUME UNCHANGED <<row, LegNow, Posted, Record, domain>>
  PROVE  UNCHANGED Engine!vars
<1>1. UNCHANGED <<RowOf(row), LegsOf(LegNow), SetOf(Posted), SetOf(Record), WorkOf(domain)>>
  BY DEF RowOf, LegsOf, SetOf, WorkOf
<1> QED
  BY <1>1 DEF Engine!vars, Engine!storeVars, Engine!serviceVars, Engine!taskVars,
              RowOf, LegsOf, SetOf, WorkOf, Posted, Record

(* Each step of a call is a step of the engine, or it sees nothing of it.  *)
LEMMA EngineNext ==
  ASSUME TypeOK, PromptInv, CallInv, StartInv, [CallNext]_allVars
  PROVE  EngineStep \/ UNCHANGED Engine!vars
<1> USE DEF Enter, Judge
<1>t. /\ CallTypeOK /\ PlaceInv /\ attempt \in Nat /\ "do" \in Key
      /\ claim \in [Key -> {"absent", "IN_PROGRESS", "COMPLETED"}]
  BY CallAssumption DEF CallInv, CallTypeOK, TypeOK, Key
(* An ok verdict stands on a record, of a step that no flag fails.         *)
<1>k. verdict = "ok" => Record = {DoStep} /\ "do" \notin Injected
  BY <1>t DEF PlaceInv, PromptInv, RecordInv, StartInv, Record
<1>1. CASE MarkRunning
  <2>1. /\ LegNow = "todo" /\ LegNow' = "call" /\ row = "PENDING" /\ row' = "RUNNING"
        /\ attempt = 0 /\ attempt' = 1 /\ UNCHANGED <<claim, domain>>
    BY <1>1, <1>t DEF MarkRunning, PlaceInv, LegNow, serviceVars, vars
  <2>2. /\ Posted' = IF "do" \in Injected THEN Posted ELSE Posted \cup {DoStep}
        /\ UNCHANGED <<Record, domain>>
    BY <2>1 DEF Posted, Record
  <2> QED
    BY <2>1, <2>2, Sends DEF EngineStep
<1>2. CASE Refused \/ Hear \/ TimesOut \/ Audit \/ AuditFails \/ Wake \/ \E r \in Request : Send(r)
  <2>1. /\ phase \in {"send", "wait", "audit", "sleep"}
        /\ phase' \in {"send", "wait", "audit", "sleep", "report"}
        /\ UNCHANGED <<claim, domain, row>> /\ attempt' \in {attempt, attempt + 1}
    BY <1>2 DEF Refused, Hear, TimesOut, Audit, AuditFails, Wake, Send, Receive, serviceVars, vars,
                recordVars
  <2>2. attempt # 0 /\ attempt' # 0
    BY <1>t, <2>1 DEF PlaceInv
  <2>3. UNCHANGED <<row, LegNow, Posted, Record, domain>>
    BY <2>1, <2>2 DEF LegNow, Posted, Record
  <2> QED
    BY <2>3, Unseen
<1>3. CASE Report
  <2>1. /\ LegNow = "call" /\ LegNow' = IF verdict = "ok" THEN "ok" ELSE "failed"
        /\ row' = IF verdict = "ok" THEN "SUCCEEDED" ELSE "FAILED"
        /\ UNCHANGED <<Posted, Record, domain>>
    BY <1>3 DEF Report, LegNow, Posted, Record, serviceVars, vars
  <2> QED
    BY <1>k, <2>1, Verdicts DEF EngineStep
<1>4. CASE ReportFails
  <2>1. /\ phase \in {"start", "report"} /\ UNCHANGED <<Posted, Record, domain>>
        /\ LegNow = (IF phase = "start" THEN "todo" ELSE "call") /\ LegNow' = "failed"
    BY <1>4 DEF ReportFails, LegNow, Posted, Record, serviceVars, vars
  <2>2. \/ row' = row \/ row' = "FAILED"
        \/ LegNow = "todo" /\ row # "SUCCEEDED" /\ row' = "RUNNING"
        \/ LegNow = "call" /\ row' = "SUCCEEDED" /\ verdict = "ok"
    BY <1>t, <1>4, <2>1 DEF ReportFails, PlaceInv
  <2> QED
    BY <1>k, <2>1, <2>2, Verdicts DEF EngineStep
<1>5. ASSUME NEW r \in Request, Commit(r), UNCHANGED callVars
      PROVE  EngineStep
  <2>1. /\ key[r] = "do" /\ claim["do"] = "IN_PROGRESS" /\ "do" \in asked
        /\ claim' = [claim EXCEPT !["do"] = "COMPLETED"] /\ domain' = "live"
    BY <1>t, <1>5 DEF Commit, PlaceInv, PromptInv, ClaimInv, RecordInv, DomainAfter
  <2>2. Posted = {DoStep} /\ Record = {} /\ Record' = {DoStep}
    BY <1>t, <2>1 DEF StartInv, Posted, Record
  <2>3. UNCHANGED <<row, LegNow, Posted>>
    BY <1>5 DEF callVars, LegNow, Posted
  <2> QED
    BY <2>1, <2>2, <2>3, Executed DEF EngineStep
<1>6. ASSUME UNCHANGED domain, claim'["do"] = "COMPLETED" <=> claim["do"] = "COMPLETED", UNCHANGED callVars
      PROVE  UNCHANGED Engine!vars
  <2>1. UNCHANGED <<row, LegNow, Posted, Record, domain>>
    BY <1>6 DEF callVars, LegNow, Posted, Record
  <2> QED
    BY <2>1, Unseen
<1>7. CASE Serve
  <2>1. ASSUME NEW r \in Request, Handle(r), ~Commit(r)
        PROVE  UNCHANGED domain /\ (claim'["do"] = "COMPLETED" <=> claim["do"] = "COMPLETED")
    <3>1. /\ UNCHANGED domain
          /\ \/ UNCHANGED claim
             \/ claim[key[r]] = "absent" /\ claim' = [claim EXCEPT ![key[r]] = "IN_PROGRESS"]
             \/ claim' = [claim EXCEPT ![key[r]] = IF @ = "IN_PROGRESS" THEN "absent" ELSE @]
      BY <2>1 DEF Handle, CacheMiss, CacheHit, Claim, Inspect, Takeover, Work, CommitLost, WorkFails,
         Release, Warm, StatementFails, ReleaseFails, Dies, recordVars
    <3>2. key[r] = "do"
      BY <1>t DEF PlaceInv
    <3> QED
      BY <1>t, <3>1, <3>2
  <2>2. ASSUME NEW k \in Key, GrowsStale(k) \/ CacheForgets(k) PROVE UNCHANGED <<claim, domain>>
    BY <2>2 DEF GrowsStale, CacheForgets, recordVars
  <2> QED
    BY <1>5, <1>6, <1>7, <2>1, <2>2 DEF Serve
<1>8. CASE UNCHANGED allVars
  BY <1>6, <1>8 DEF allVars, serviceVars, vars
<1> QED
  BY <1>1, <1>2, <1>3, <1>4, <1>7, <1>8 DEF CallNext, Call

(* So the atomic executeStep of SagaEngine stands for all the tries.       *)
THEOREM MakesEngineStepsHolds == ASSUME Stalls = FALSE PROVE CallSpec => MakesEngineSteps
<1>1. TypeOK /\ PromptInv /\ CallInv /\ StartInv /\ [CallNext]_allVars => [EngineStep]_(Engine!vars)
  BY EngineNext
<1> QED
  BY <1>1, StartHolds, PTL DEF CallSpec, MakesEngineSteps, EngineStep
=============================================================================
