------------------------------- MODULE StepCall -------------------------------
(***************************************************************************)
(* One executeStep of the coordinator, down to its tries: markStepRunning, *)
(* callStep under withRetry with a time limit per try and one audit row    *)
(* per try, markStepResult; against the service of IdempotentStep, whose   *)
(* handlers outlive the tries that gave up on them.                        *)
(***************************************************************************)
EXTENDS IdempotentStep, Sequences

CONSTANTS
  MaxAttempts,  \* STEP_MAX_ATTEMPTS
  Bookkeeping,  \* may the coordinator's own statements fail?
  NoRequest

ASSUME CallAssumption ==
  MaxAttempts \in Nat \ {0} /\ Bookkeeping \in BOOLEAN /\ NoRequest \notin Request

VARIABLES
  phase,    \* where executeStep stands
  attempt,  \* withRetry's loop counter
  slot,     \* the request the current try waits for
  verdict,  \* how the current try ended
  log,      \* saga_step_attempts: attempt_no and outcome per row
  row,      \* saga_steps.status of the step
  attempts, \* saga_steps.attempts
  spoilt    \* history: did one of the coordinator's own statements fail?

callVars == <<phase, attempt, slot, verdict, log, row, attempts, spoilt>>
serviceVars == vars
allVars == <<serviceVars, callVars>>

Phase   == {"start", "send", "wait", "audit", "sleep", "report", "done"}
Verdict == {"none", "ok", "transient", "timeout", "rule", "unknown"}
Outcome == {"SUCCEEDED", "FAILED", "TIMEOUT"}

CallTypeOK ==
  /\ phase \in Phase /\ verdict \in Verdict
  /\ attempt \in 0..MaxAttempts /\ attempts \in 0..MaxAttempts
  /\ slot \in Request \cup {NoRequest}
  /\ log \in Seq((1..MaxAttempts) \X Outcome)
  /\ row \in {"PENDING", "RUNNING", "SUCCEEDED", "FAILED"}
  /\ spoilt \in BOOLEAN

CallInit ==
  /\ Init
  /\ phase = "start" /\ attempt = 0 /\ slot = NoRequest /\ verdict = "none"
  /\ log = <<>> /\ row = "PENDING" /\ attempts = 0 /\ spoilt = FALSE

Enter(where) == phase' = where
Judge(how)   == verdict' = how

-----------------------------------------------------------------------------
MarkRunning ==
  /\ phase = "start" /\ Enter("send")
  /\ row' = "RUNNING" /\ attempt' = 1
  /\ UNCHANGED <<serviceVars, slot, verdict, log, attempts, spoilt>>

(* What a try ends in when no whole answer arrives or a statement fails:   *)
(* an error with a code isRetryableError knows, or one it does not know,   *)
(* an answer that is not JSON among them.                                  *)
Broken == {"transient", "unknown"}

(* fetch: the request reaches a handler, or there is no connection.        *)
Send(r) ==
  /\ phase = "send" /\ Enter("wait")
  /\ Receive(r, "do", FALSE) /\ slot' = r
  /\ UNCHANGED <<attempt, verdict, log, row, attempts, spoilt>>

Refused ==
  /\ Faulty /\ phase = "send" /\ Enter("audit") /\ verdict' \in Broken
  /\ UNCHANGED <<serviceVars, attempt, slot, log, row, attempts, spoilt>>

(* isRetryableError of an HttpError: 409 and 5xx are worth another try,    *)
(* 422 is not.  A slip takes the 409 of a twin at work for its success.    *)
JudgeReplyHasty(what) ==
  CASE what \in {"ok", "busy"} -> "ok" [] what = "rule" -> "rule" [] OTHER -> "transient"

JudgeReply(what) ==
  CASE what = "ok"   -> "ok"
    [] what = "rule" -> "rule"
    [] OTHER         -> "transient"

(* A process that died answers nothing; any answer may come in pieces.     *)
Heard(what) ==
  IF what = "lost" THEN Broken
  ELSE {JudgeReply(what)} \cup (IF Faulty THEN Broken ELSE {})

Hear ==
  /\ phase = "wait" /\ pc[slot] = "free" /\ Enter("audit")
  /\ verdict' \in Heard(reply[slot])
  /\ UNCHANGED <<serviceVars, attempt, slot, log, row, attempts, spoilt>>

(* Without a time limit the loop hears only of what has been answered.     *)
TimesOutIfAnswered ==
  /\ phase = "wait" /\ pc[slot] = "free" /\ Enter("audit") /\ Judge("timeout")
  /\ UNCHANGED <<serviceVars, attempt, slot, log, row, attempts, spoilt>>

(* AbortSignal.timeout: the coordinator stops waiting, the handler does not.*)
TimesOut ==
  /\ phase = "wait" /\ Enter("audit") /\ Judge("timeout")
  /\ UNCHANGED <<serviceVars, attempt, slot, log, row, attempts, spoilt>>

OutcomeOf(how) ==
  CASE how = "ok" -> "SUCCEEDED" [] how = "timeout" -> "TIMEOUT" [] OTHER -> "FAILED"

(* A slip of the loop bound, and the bound itself.                         *)
WillRetryShort == attempt + 1 < MaxAttempts /\ verdict \in {"transient", "timeout"}
WillRetry == attempt < MaxAttempts /\ verdict \in {"transient", "timeout"}
Logged    == log' = Append(log, <<attempt, OutcomeOf(verdict)>>)

(* onAttempt writes the audit row; then the loop returns, throws or waits. *)
Audit ==
  /\ phase = "audit" /\ Logged
  /\ Enter(IF WillRetry THEN "sleep" ELSE "report")
  /\ UNCHANGED <<serviceVars, attempt, slot, verdict, row, attempts, spoilt>>

(* ... and when it throws, perhaps after the INSERT: a success turns into  *)
(* a failed try that is audited again, a failure ends the call.            *)
AuditFails ==
  /\ Bookkeeping /\ spoilt' = TRUE /\ phase = "audit"
  /\ Logged \/ UNCHANGED log
  /\ IF verdict = "ok"
     THEN verdict' \in Broken /\ UNCHANGED phase
     ELSE Enter("report") /\ UNCHANGED verdict
  /\ UNCHANGED <<serviceVars, attempt, slot, row, attempts>>

(* A slip that forgets which try this is.                                  *)
WakeSame ==
  /\ phase = "sleep" /\ Enter("send") /\ UNCHANGED attempt
  /\ Judge("none") /\ slot' = NoRequest
  /\ UNCHANGED <<serviceVars, log, row, attempts, spoilt>>

Wake ==
  /\ phase = "sleep" /\ Enter("send") /\ attempt' = attempt + 1
  /\ Judge("none") /\ slot' = NoRequest
  /\ UNCHANGED <<serviceVars, log, row, attempts, spoilt>>

(* markStepResult.                                                         *)
Report ==
  /\ phase = "report" /\ Enter("done")
  /\ row' = IF verdict = "ok" THEN "SUCCEEDED" ELSE "FAILED"
  /\ attempts' = IF attempt > attempts THEN attempt ELSE attempts
  /\ UNCHANGED <<serviceVars, attempt, slot, verdict, log, spoilt>>

(* A statement of executeStep's own fails, done or not: a failure is then  *)
(* recorded instead, or nothing is and executeStep rejects.                *)
ReportFails ==
  LET intended == IF phase = "start" THEN "RUNNING"
                  ELSE IF verdict = "ok" THEN "SUCCEEDED" ELSE "FAILED"
  IN  /\ Bookkeeping /\ spoilt' = TRUE /\ phase \in {"start", "report"} /\ Enter("done")
      /\ row' \in {row, intended, "FAILED"}
      /\ attempts' \in IF row' = row THEN {attempts} ELSE {attempts, attempt}
      /\ Judge("unknown")
      /\ UNCHANGED <<serviceVars, attempt, slot, log>>

Call ==
  \/ MarkRunning \/ Refused \/ Hear \/ TimesOut \/ Audit \/ AuditFails \/ Wake
  \/ Report \/ ReportFails \/ \E r \in Request : Send(r)

Serve ==
  /\ \/ \E r \in Request : Handle(r)
     \/ \E k \in Key : GrowsStale(k) \/ CacheForgets(k)
  /\ UNCHANGED callVars

CallNext == Call \/ Serve
CallSpec == CallInit /\ [][CallNext]_allVars

(* The coordinator's event loop runs and its timers fire; nothing is       *)
(* assumed of the service.                                                 *)
FairCall == CallSpec /\ WF_allVars(Call)

-----------------------------------------------------------------------------
(* A row says SUCCEEDED only for work that is done and on record at the    *)
(* service, whatever twin did it and whichever of the bookkeeping failed   *)
(* (callStep, isRetryableError, markStepResult).                           *)
SucceededOnRecord ==
  row = "SUCCEEDED" => claim["do"] = "COMPLETED" /\ domain # "none"

(* The audit trail tells the whole story: every try once and in order, a   *)
(* success only as the last, and as many as the step row counts (onAttempt,*)
(* recordAttempt, markStepResult), unless the coordinator's own statements *)
(* failed.                                                                 *)
AuditTellsAll == ~spoilt =>
  /\ \A n \in DOMAIN log :
       log[n][1] = n /\ (log[n][2] = "SUCCEEDED" => n = Len(log))
  /\ phase = "done" =>
       /\ attempts = Len(log) /\ log # <<>>
       /\ (row = "SUCCEEDED") <=> (log[Len(log)][2] = "SUCCEEDED")

(* A step is given up only after all its tries, or on a business rule no   *)
(* retry can change, or on an error the classification does not know; a    *)
(* time limit, a 409, a 5xx or a known network error always uses up the    *)
(* tries (withRetry, isRetryableError), unless the coordinator's own       *)
(* statements failed.                                                      *)
NoGivingUpEarly ==
  row = "FAILED" /\ ~spoilt => attempt = MaxAttempts \/ verdict \in {"rule", "unknown"}

(* Every call ends, even against a service that never answers: it is what  *)
(* Promise.allSettled waits for (the time limit per try, maxAttempts).     *)
CallEnds == (phase = "start") ~> (phase = "done")

(* ... because its tries run out: each of the call's own steps leaves it   *)
(* fewer to make, whatever the service does meanwhile, so there are never  *)
(* more than six for each try and one (withRetry).                         *)
StepsToEnd ==
  6 * (MaxAttempts - attempt) +
  (CASE phase = "start" -> 1 [] phase = "send" -> 5 [] phase = "wait" -> 4
     [] phase = "audit" -> (IF verdict = "ok" THEN 3 ELSE 2)
     [] phase = "sleep" -> 1 [] phase = "report" -> 1 [] phase = "done" -> 0)
TriesRunOut == [][0 <= StepsToEnd' /\ (Call => StepsToEnd' < StepsToEnd)]_allVars

(* The tries of one call are, to the rest of the coordinator, what the     *)
(* atomic steps of SagaEngine say: a send, then one verdict and the row    *)
(* written with it, with the service executing at any moment between.      *)
DoStep == <<"FORWARD", "it">>
LegNow == IF phase = "start" THEN "todo" ELSE IF phase # "done" THEN "call"
          ELSE IF verdict = "ok" THEN "ok" ELSE "failed"
TheTask == <<"i", "worker", "it">>
TheTasks == {TheTask, <<"i", "api", "it">>}

Engine == INSTANCE SagaEngine WITH
  Instance <- {"i"}, Order <- {"it"}, Service <- {"it"}, Nobody <- "nobody",
  BatchSize <- 1, Concurrency <- 1, Slow <- {}, Faulty <- TRUE, Mortal <- {},
  status <- [o \in {"it"} |-> "IN_PROGRESS"],
  leaseOwner <- [o \in {"it"} |-> "i"], lease <- [o \in {"it"} |-> "live"],
  row <- [o \in {"it"} |-> [st \in {DoStep} |-> row]],
  failAt <- [o \in {"it"} |-> IF "do" \in Injected THEN "it" ELSE "nobody"],
  compFailAt <- [o \in {"it"} |-> "nobody"],
  posted <- [o \in {"it"} |-> IF attempt = 0 \/ "do" \in Injected THEN {} ELSE {DoStep}],
  record <- [o \in {"it"} |-> IF claim["do"] = "COMPLETED" THEN {DoStep} ELSE {}],
  effect <- [o \in {"it"} |-> [s \in {"it"} |-> domain]],
  up <- {"i"},
  pc <- [t \in TheTasks |-> IF t = TheTask THEN "forward" ELSE "idle"],
  leg <- [t \in TheTasks |-> [s \in {"it"} |-> IF t = TheTask THEN LegNow ELSE "off"]]

MakesEngineSteps ==
  [][\/ Engine!SendStep(TheTask, "it") \/ Engine!StepSucceeds(TheTask, "it")
     \/ Engine!StepFails(TheTask, "it") \/ Engine!StepRejects(TheTask, "it")
     \/ Engine!ServiceExecutes("it", "it")]_(Engine!vars)
=============================================================================
