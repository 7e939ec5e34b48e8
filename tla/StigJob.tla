------------------------------ MODULE StigJob ------------------------------
(***************************************************************************)
(* One STIG Condenser job in the cloud deployment: the API handlers that   *)
(* start and cancel it, the Step Functions execution named after it, and   *)
(* the stage Lambdas that execution invokes.  They share one DynamoDB      *)
(* record and two S3 objects.  Jobs do not interact, so one job is the     *)
(* whole story.                                                            *)
(*                                                                         *)
(* A step is one call to a shared service: one JobStore operation (atomic, *)
(* which DynamoJobStore.tla justifies), one S3 write, one Step Functions   *)
(* request.  Everything a handler does between two such calls is local.    *)
(*                                                                         *)
(* Stopping or retrying an execution does not stop a Lambda that already   *)
(* runs: an invocation no longer awaited is a zombie that keeps stepping.  *)
(***************************************************************************)
EXTENDS Naturals, JobLifecycle

CONSTANTS
    Starters,         \* slots for concurrent POST /jobs requests
    Cancellers,       \* slots for concurrent POST /jobs/{id}/cancel requests
    Workers,          \* slots for concurrent stage Lambda invocations
    MaxRetries,       \* MaxAttempts of the state machine's Retry blocks
    MaxApiFaults,     \* bound: API crashes and uncertain AWS calls
    MaxWorkerFaults,  \* bound: Lambda kills, raises and transient errors
    MaxLostReplies    \* bound: conditional writes that land but look lost

ASSUME BoundsAreNatural ==
    /\ MaxRetries \in Nat
    /\ MaxApiFaults \in Nat
    /\ MaxWorkerFaults \in Nat
    /\ MaxLostReplies \in Nat

Calls == Starters \cup Cancellers

VARIABLES
    rec,           \* the job record: status, phase, ai, intent
    findings,      \* findings.json exists
    report,        \* report.xlsx exists
    exec,          \* the state the execution is in; "none" before it exists
    input,         \* the input the execution was created with
    tries,         \* retries already spent in the current task state
    wk,            \* stage Lambda invocations
    call,          \* API requests
    told,          \* history: terminal statuses some response has reported
    apiFaults,     \* fault budget left to the API
    workerFaults,  \* fault budget left to the workers
    lostReplies    \* lost-reply budget left to the store's writers

files  == <<findings, report>>
store  == <<rec, findings, report>>
flow   == <<exec, input, tries>>
api    == <<call, told, apiFaults>>
faults == <<apiFaults, workerFaults, lostReplies>>
vars   == <<store, flow, wk, api, workerFaults, lostReplies>>

-----------------------------------------------------------------------------
(* Vocabulary *)

Phases  == {"none", "parsing", "parsed", "exporting"}
AiGates == {"none", "requested", "disabled", "failed"}
Inputs  == {"none", "aiOn", "aiOff"}

Tasks    == {"Parse", "Enrich", "Export", "MarkError"}
Live     == Tasks \cup {"AiEnabled"}
Finished == {"Succeeded", "Failed", "Aborted"}

ParsePcs  == {"enter", "reread", "reguard", "work", "put", "commit", "error",
              "recheck"}
ExportPcs == {"settle", "settle_write", "read", "patch", "patch_lost", "work",
              "commit", "error", "recheck"}
WorkerPcs == ParsePcs \cup ExportPcs \cup {"write", "ok", "fail", "idle"}

Replies  == {"200", "202", "404", "409", "500"}
CallPcs  == {"idle", "read", "queue", "reread", "backfill", "refused", "recheck",
             "start1", "start2", "describe", "unseen", "unconfirmed", "ended",
             "giveup", "final", "stop_late", "stop", "stop_failed", "write"}
            \cup Replies

Records     == [status : Statuses \cup {"absent"}, phase : Phases, ai : AiGates,
                intent : Inputs]
Invocations == [stage : Tasks \cup {"idle"}, pc : WorkerPcs, saw : Phases,
                awaited : BOOLEAN]
Requests    == [pc : CallPcs, inp : Inputs]

NoWork == [stage |-> "idle", pc |-> "idle", saw |-> "none", awaited |-> FALSE]

(* The aiEnabled flag of the input persisted with a launch intent. *)
ExecutionInput(ai) == IF ai = "requested" THEN "aiOn" ELSE "aiOff"

Terminal == rec.status \in TERMINAL_STATUSES

Init ==
    /\ \/ rec = [status |-> "absent", phase |-> "none", ai |-> "none",
                 intent |-> "none"]
       \* a row an older build queued before launch intents were persisted
       \/ \E gate \in {"requested", "disabled"} :
            rec = [status |-> "queued", phase |-> "none", ai |-> gate,
                   intent |-> "none"]
    /\ findings = FALSE
    /\ report = FALSE
    /\ exec = "none"
    /\ input = "none"
    /\ tries = 0
    /\ wk = [w \in Workers |-> NoWork]
    /\ call = [c \in Calls |-> [pc |-> "idle", inp |-> "none"]]
    /\ told = {}
    /\ apiFaults = MaxApiFaults
    /\ workerFaults = MaxWorkerFaults
    /\ lostReplies = MaxLostReplies

-----------------------------------------------------------------------------
(* API requests: POST /uploads, POST /jobs, POST /jobs/{id}/cancel *)

Goto(c, l) ==
    /\ call' = [call EXCEPT ![c].pc = l]
    /\ UNCHANGED told

(* A response that carries the record's status; told remembers a final one. *)
Reply(c, code, status) ==
    /\ call' = [call EXCEPT ![c].pc = code]
    /\ told' = told \cup ({status} \cap TERMINAL_STATUSES)

SpendApiFault == apiFaults > 0 /\ apiFaults' = apiFaults - 1
LoseReply == lostReplies > 0 /\ lostReplies' = lostReplies - 1

(* POST /uploads creates the record before any client knows its id. *)
PostUploads ==
    /\ rec.status = "absent"
    /\ rec' = [rec EXCEPT !.status = "pending"]
    /\ UNCHANGED <<files, flow, wk, api, workerFaults, lostReplies>>

NewCall(c) ==
    /\ call[c].pc \in {"idle"} \cup Replies
    /\ call' = [call EXCEPT ![c] = [pc |-> "read", inp |-> "none"]]
    /\ UNCHANGED <<store, flow, wk, told, faults>>

(* The API Lambda dies, times out, or a store call raises: the client sees  *)
(* a 5xx and nothing else changes.                                          *)
ApiFault(c) ==
    /\ call[c].pc \notin {"idle"} \cup Replies
    /\ SpendApiFault
    /\ call' = [call EXCEPT ![c].pc = "500"]
    /\ UNCHANGED <<store, flow, wk, told, workerFaults, lostReplies>>

(* StopExecution ends a live execution; its invocations become zombies. *)
StopExecution ==
    /\ exec' = IF exec \in Live THEN "Aborted" ELSE exec
    /\ wk' = [w \in Workers |-> [wk[w] EXCEPT !.awaited = FALSE]]
    /\ UNCHANGED <<input, tries>>

Launch_FreshGate(c) ==     \* mutant: the gate is evaluated again
    /\ \E gate \in {"requested", "disabled"} :
         call' = [call EXCEPT ![c] = [pc |-> "recheck", inp |-> ExecutionInput(gate)]]
    /\ UNCHANGED told

(* _post_jobs with a queued record in hand: take its persisted input. *)
Launch(c) ==
    /\ call' = [call EXCEPT ![c] =
          IF rec.intent # "none"
          THEN [pc |-> "recheck", inp |-> rec.intent]
          ELSE [pc |-> "backfill", inp |-> ExecutionInput(rec.ai)]]
    /\ UNCHANGED told

StartRead_PendingOnly(c) ==     \* mutant: a queued job is refused
    /\ call[c].pc = "read"
    /\ \/ rec.status = "pending" /\ Goto(c, "queue")
       \/ rec.status # "pending" /\ Reply(c, "409", rec.status)
    /\ UNCHANGED <<store, flow, wk, faults>>

StartRead(c) ==
    /\ call[c].pc = "read"
    /\ \/ rec.status = "absent"  /\ Reply(c, "404", "none")
       \/ rec.status = "pending" /\ Goto(c, "queue")
       \/ rec.status = "queued"  /\ Launch(c)
       \/ rec.status \notin {"absent", "pending", "queued"}
            /\ Reply(c, "409", rec.status)
    /\ UNCHANGED <<store, flow, wk, faults>>

(* The conditional transition arbitrates between starters and cancellers; *)
(* the launch intent is persisted with it.                                *)
StartQueue(c) ==
    /\ call[c].pc = "queue"
    /\ \E gate \in {"requested", "disabled"} :
         rec' = IF Legal(rec.status, "queued")
                THEN [rec EXCEPT !.status = "queued", !.ai = gate,
                                 !.intent = ExecutionInput(gate)]
                ELSE rec
    /\ Goto(c, "reread")
    /\ UNCHANGED <<files, flow, wk, faults>>

StartReread(c) ==
    /\ call[c].pc = "reread"
    /\ \/ rec.status = "queued" /\ Launch(c)
       \/ rec.status # "queued" /\ Reply(c, "409", rec.status)
    /\ UNCHANGED <<store, flow, wk, faults>>

StartBackfill(c) ==
    /\ call[c].pc = "backfill"
    /\ \/ /\ rec.status = "queued"
          /\ rec' = [rec EXCEPT !.intent = call[c].inp]
          /\ Goto(c, "recheck")
       \/ /\ rec.status # "queued"
          /\ UNCHANGED rec
          /\ Goto(c, "refused")
    /\ UNCHANGED <<files, flow, wk, faults>>

StartRefused(c) ==
    /\ call[c].pc = "refused"
    /\ Reply(c, "409", rec.status)
    /\ UNCHANGED <<store, flow, wk, faults>>

StartRecheck(c) ==
    /\ call[c].pc = "recheck"
    /\ \/ rec.status = "queued" /\ Goto(c, "start1")
       \/ rec.status # "queued" /\ Reply(c, "409", rec.status)
    /\ UNCHANGED <<store, flow, wk, faults>>

(* What StartExecution does when it takes effect: a new execution, or the  *)
(* original response for the same running name and input.                  *)
CreateExecution(inp) ==
    \/ /\ exec = "none"
       /\ exec' = "Parse"
       /\ input' = inp
    \/ /\ exec \in Live /\ input = inp
       /\ UNCHANGED <<exec, input>>

StartExec(c) ==
    /\ call[c].pc \in {"start1", "start2"}
    /\ \/ /\ CreateExecution(call[c].inp)
          /\ Goto(c, "final")
          /\ UNCHANGED apiFaults
       \/ /\ exec \in Finished \/ (exec \in Live /\ input # call[c].inp)
          /\ Goto(c, "describe")             \* ExecutionAlreadyExists
          /\ UNCHANGED <<exec, input, apiFaults>>
       \/ /\ SpendApiFault                   \* uncertain: it may have landed
          /\ CreateExecution(call[c].inp) \/ UNCHANGED <<exec, input>>
          /\ Goto(c, IF call[c].pc = "start1" THEN "start2" ELSE "describe")
    /\ UNCHANGED <<store, tries, wk, workerFaults, lostReplies>>

(* DescribeExecution is eventually consistent: a fault is an answer older  *)
(* than the execution, or no answer.                                       *)
StartDescribe(c) ==
    /\ call[c].pc = "describe"
    /\ \/ exec = "none"        /\ Goto(c, "unseen") /\ UNCHANGED apiFaults
       \/ exec \in Live        /\ Goto(c, "final")  /\ UNCHANGED apiFaults
       \/ exec \in Finished    /\ Goto(c, "ended")  /\ UNCHANGED apiFaults
       \/ SpendApiFault        /\ \E l \in {"unseen", "unconfirmed", "final"} :
                                    Goto(c, l)
    /\ UNCHANGED <<store, flow, wk, workerFaults, lostReplies>>

StartUnseen(c) ==
    /\ call[c].pc = "unseen"
    /\ \/ Terminal  /\ Reply(c, "409", rec.status)
       \/ ~Terminal /\ Goto(c, "final")
    /\ UNCHANGED <<store, flow, wk, faults>>

StartUnconfirmed(c) ==
    /\ call[c].pc = "unconfirmed"
    /\ \/ rec.status = "cancelled"            /\ Goto(c, "stop_late")
       \/ rec.status \in {"complete", "error"} /\ Reply(c, "409", rec.status)
       \/ ~Terminal                            /\ Goto(c, "final")
    /\ UNCHANGED <<store, flow, wk, faults>>

(* The execution is over: either a stage got going or the launch failed. *)
StartEnded(c) ==
    /\ call[c].pc = "ended"
    /\ \/ rec.status \in {"running", "complete"} /\ Reply(c, "202", "none")
       \/ rec.status \in {"error", "cancelled"}  /\ Reply(c, "409", rec.status)
       \/ rec.status = "queued"                  /\ Goto(c, "giveup")
    /\ UNCHANGED <<store, flow, wk, faults>>

StartGiveup(c) ==
    /\ call[c].pc = "giveup"
    /\ rec' = IF Legal(rec.status, "error")
              THEN [rec EXCEPT !.status = "error"] ELSE rec
    /\ Reply(c, "500", "none")
    /\ UNCHANGED <<files, flow, wk, faults>>

StartFinal_NoReconcile(c) ==     \* mutant: accepted without a last look
    /\ call[c].pc = "final"
    /\ Reply(c, "202", "none")
    /\ UNCHANGED <<store, flow, wk, faults>>

(* Cancellation can win between the queue commit and StartExecution. *)
StartFinal(c) ==
    /\ call[c].pc = "final"
    /\ \/ rec.status = "cancelled" /\ Goto(c, "stop_late")
       \/ rec.status = "error"     /\ Reply(c, "409", "error")
       \/ rec.status \notin {"cancelled", "error"} /\ Reply(c, "202", "none")
    /\ UNCHANGED <<store, flow, wk, faults>>

StartStopLate(c) ==
    /\ call[c].pc = "stop_late"
    /\ \/ StopExecution /\ UNCHANGED apiFaults
       \/ SpendApiFault /\ UNCHANGED <<flow, wk>>
    /\ Reply(c, "409", "cancelled")
    /\ UNCHANGED <<store, workerFaults, lostReplies>>

CancelRead(c) ==
    /\ call[c].pc = "read"
    /\ \/ rec.status = "absent"              /\ Reply(c, "404", "none")
       \/ Terminal                           /\ Reply(c, "200", rec.status)
       \/ rec.status # "absent" /\ ~Terminal /\ Goto(c, "stop")
    /\ UNCHANGED <<store, flow, wk, faults>>

(* ExecutionDoesNotExist is not an error; any other exception is, and the  *)
(* stop may still have landed.                                             *)
CancelStop(c) ==
    /\ call[c].pc = "stop"
    /\ \/ StopExecution /\ Goto(c, "write") /\ UNCHANGED apiFaults
       \/ /\ SpendApiFault
          /\ StopExecution \/ UNCHANGED <<flow, wk>>
          /\ Goto(c, "stop_failed")
    /\ UNCHANGED <<store, workerFaults, lostReplies>>

CancelStopFailed(c) ==
    /\ call[c].pc = "stop_failed"
    /\ \/ Terminal  /\ Reply(c, "200", rec.status)
       \/ ~Terminal /\ Reply(c, "500", "none")
    /\ UNCHANGED <<store, flow, wk, faults>>

CancelWrite_Unguarded(c) ==     \* mutant: a plain status write
    /\ call[c].pc = "write"
    /\ rec' = [rec EXCEPT !.status = "cancelled"]
    /\ Reply(c, "200", "cancelled")
    /\ UNCHANGED <<files, flow, wk, faults>>

CancelWrite(c) ==
    /\ call[c].pc = "write"
    /\ \/ /\ Legal(rec.status, "cancelled")
          /\ rec' = [rec EXCEPT !.status = "cancelled"]
          /\ \/ Reply(c, "200", "cancelled") /\ UNCHANGED lostReplies
             \/ Goto(c, "reread") /\ LoseReply
       \/ /\ ~Legal(rec.status, "cancelled")
          /\ Goto(c, "reread")
          /\ UNCHANGED <<rec, lostReplies>>
    /\ UNCHANGED <<files, flow, wk, apiFaults, workerFaults>>

CancelReread(c) ==
    /\ call[c].pc = "reread"
    /\ \/ Terminal  /\ Reply(c, "200", rec.status)
       \/ ~Terminal /\ Reply(c, "409", "none")
    /\ UNCHANGED <<store, flow, wk, faults>>

StarterStep(c) ==
    \/ StartRead(c) \/ StartQueue(c) \/ StartReread(c) \/ StartBackfill(c)
    \/ StartRefused(c) \/ StartRecheck(c) \/ StartExec(c) \/ StartDescribe(c)
    \/ StartUnseen(c) \/ StartUnconfirmed(c) \/ StartEnded(c) \/ StartGiveup(c)
    \/ StartFinal(c) \/ StartStopLate(c)

CancellerStep(c) ==
    \/ CancelRead(c) \/ CancelStop(c) \/ CancelStopFailed(c) \/ CancelWrite(c)
    \/ CancelReread(c)

-----------------------------------------------------------------------------
(* Stage Lambdas *)

At(w, stage, l) == wk[w].stage = stage /\ wk[w].pc = l

Jump(w, l) == wk' = [wk EXCEPT ![w].pc = l]

ParseAlreadySucceeded ==
    \/ rec.status = "complete"
    \/ rec.status = "running" /\ rec.phase \in {"parsed", "exporting"}

(* One guarded JobStore write.  It can land and still look lost: the SDK    *)
(* resends a request whose response it missed, the resend's condition fails *)
(* on the version the first one wrote, and the reread record, changed by    *)
(* that very write, no longer meets the guard.                              *)
WorkerWrite(w, guard, new, won, lost) ==
    \/ guard  /\ rec' = new    /\ Jump(w, won)  /\ UNCHANGED lostReplies
    \/ guard  /\ rec' = new    /\ Jump(w, lost) /\ LoseReply /\ new # rec
    \/ ~guard /\ UNCHANGED rec /\ Jump(w, lost) /\ UNCHANGED lostReplies

(* update_if_status({running}, expected_fields={phase}, phase=to) *)
GuardedPatch(w, phase, to, won, lost) ==
    WorkerWrite(w, rec.status = "running" /\ rec.phase = phase,
                [rec EXCEPT !.phase = to], won, lost)

GuardedTransition_PhaseOnly(w, phase, to, won, lost) ==     \* mutant: any status
    WorkerWrite(w, rec.phase = phase, [rec EXCEPT !.status = to], won, lost)

(* transition(to, expected_fields={phase}) *)
GuardedTransition(w, phase, to, won, lost) ==
    WorkerWrite(w, Legal(rec.status, to) /\ rec.phase = phase,
                [rec EXCEPT !.status = to], won, lost)

ParseEnter(w) ==
    /\ At(w, "Parse", "enter")
    /\ WorkerWrite(w, Legal(rec.status, "running"),
                   [rec EXCEPT !.status = "running", !.phase = "parsing"],
                   "work", "reread")
    /\ UNCHANGED files

(* A Lambda retry re-enters a job that is already running. *)
ParseReread(w) ==
    /\ At(w, "Parse", "reread")
    /\ \/ ParseAlreadySucceeded /\ Jump(w, "ok")
       \/ /\ ~ParseAlreadySucceeded
          /\ rec.status # "running" \/ rec.phase \notin {"none", "parsing"}
          /\ Jump(w, "fail")
       \/ /\ rec.status = "running" /\ rec.phase \in {"none", "parsing"}
          /\ wk' = [wk EXCEPT ![w].pc = "reguard", ![w].saw = rec.phase]
    /\ UNCHANGED <<store, lostReplies>>

ParseReguard(w) ==
    /\ At(w, "Parse", "reguard")
    /\ GuardedPatch(w, wk[w].saw, "parsing", "work", "recheck")
    /\ UNCHANGED files

(* Names, sizes, downloads and the parsers: they succeed or raise. *)
ParseWork(w) ==
    /\ At(w, "Parse", "work")
    /\ Jump(w, "put") \/ Jump(w, "error")
    /\ UNCHANGED <<store, lostReplies>>

ParsePut(w) ==
    /\ At(w, "Parse", "put")
    /\ findings' = TRUE
    /\ Jump(w, "commit")
    /\ UNCHANGED <<rec, report, lostReplies>>

ParseCommit(w) ==
    /\ At(w, "Parse", "commit")
    /\ GuardedPatch(w, "parsing", "parsed", "ok", "recheck")
    /\ UNCHANGED files

ExportSettle_Skipped(w) ==     \* mutant: the gate is left alone
    /\ At(w, "Export", "settle")
    /\ Jump(w, "read")
    /\ UNCHANGED <<store, lostReplies>>

(* _settle_ai_gate reads, then writes under a status guard. *)
ExportSettle(w) ==
    /\ At(w, "Export", "settle")
    /\ Jump(w, IF rec.ai = "requested" THEN "settle_write" ELSE "read")
    /\ UNCHANGED <<store, lostReplies>>

ExportSettleWrite(w) ==
    /\ At(w, "Export", "settle_write")
    /\ rec' = IF rec.status \in {"running", "complete"}
              THEN [rec EXCEPT !.ai = "failed"] ELSE rec
    /\ Jump(w, "read")
    /\ UNCHANGED <<files, lostReplies>>

ExportRead(w) ==
    /\ At(w, "Export", "read")
    /\ \/ rec.status = "complete" /\ Jump(w, "ok")
       \/ /\ rec.status = "running" /\ rec.phase \in {"none", "parsed", "exporting"}
          /\ wk' = [wk EXCEPT ![w].pc = "patch", ![w].saw = rec.phase]
       \/ /\ rec.status # "complete"
          /\ rec.status # "running" \/ rec.phase = "parsing"
          /\ Jump(w, "fail")
    /\ UNCHANGED <<store, lostReplies>>

ExportPatch(w) ==
    /\ At(w, "Export", "patch")
    /\ GuardedPatch(w, wk[w].saw, "exporting", "work", "patch_lost")
    /\ UNCHANGED files

(* The guarded patch lost: a job that is still exporting counts as success. *)
ExportPatchLost(w) ==
    /\ At(w, "Export", "patch_lost")
    /\ Jump(w, IF \/ rec.status = "complete"
                  \/ rec.status = "running" /\ rec.phase = "exporting"
               THEN "ok" ELSE "fail")
    /\ UNCHANGED <<store, lostReplies>>

(* An exception may come before the upload or after it. *)
ExportWork(w) ==
    /\ At(w, "Export", "work")
    /\ \/ findings /\ report' = TRUE /\ Jump(w, "commit")
       \/ findings /\ report' = TRUE /\ Jump(w, "error")
       \/ UNCHANGED report /\ Jump(w, "error")
    /\ UNCHANGED <<rec, findings, lostReplies>>

ExportCommit(w) ==
    /\ At(w, "Export", "commit")
    /\ GuardedTransition(w, "exporting", "complete", "ok", "recheck")
    /\ UNCHANGED files

StageError_AnyPhase(w, stage, phase) ==     \* mutant: no expected_fields
    /\ At(w, stage, "error")
    /\ GuardedTransition(w, rec.phase, "error", "fail", "recheck")
    /\ UNCHANGED files

(* _record_stage_error for the phase the stage works in. *)
StageError(w, stage, phase) ==
    /\ At(w, stage, "error")
    /\ GuardedTransition(w, phase, "error", "fail", "recheck")
    /\ UNCHANGED files

(* The write lost: succeed only if a newer attempt already did. *)
StageRecheck(w, stage, succeeded) ==
    /\ At(w, stage, "recheck")
    /\ Jump(w, IF succeeded THEN "ok" ELSE "fail")
    /\ UNCHANGED <<store, lostReplies>>

EnrichWrite(w) ==
    /\ At(w, "Enrich", "write")
    /\ \E gate \in {"disabled", "failed"} :
         rec' = IF rec.status = "running" THEN [rec EXCEPT !.ai = gate] ELSE rec
    /\ Jump(w, "ok")
    /\ UNCHANGED <<files, lostReplies>>

MarkWrite(w) ==
    /\ At(w, "MarkError", "write")
    /\ rec' = IF Legal(rec.status, "error")
              THEN [rec EXCEPT !.status = "error"] ELSE rec
    /\ Jump(w, "ok")
    /\ UNCHANGED <<files, lostReplies>>

LambdaStep(w) ==
    /\ \/ ParseEnter(w) \/ ParseReread(w) \/ ParseReguard(w) \/ ParseWork(w)
       \/ ParsePut(w) \/ ParseCommit(w)
       \/ StageError(w, "Parse", "parsing")
       \/ StageRecheck(w, "Parse", ParseAlreadySucceeded)
       \/ ExportSettle(w) \/ ExportSettleWrite(w) \/ ExportRead(w)
       \/ ExportPatch(w) \/ ExportPatchLost(w) \/ ExportWork(w) \/ ExportCommit(w)
       \/ StageError(w, "Export", "exporting")
       \/ StageRecheck(w, "Export", rec.status = "complete")
       \/ EnrichWrite(w) \/ MarkWrite(w)
    /\ UNCHANGED <<flow, api, workerFaults>>

(* An out-of-memory kill, a timeout, or an exception the stage lets out     *)
(* (ConcurrentJobUpdateError, a failed put_bytes): no error path runs.      *)
LambdaDies(w) ==
    /\ wk[w].pc \notin {"idle", "ok", "fail"}
    /\ workerFaults > 0
    /\ workerFaults' = workerFaults - 1
    /\ Jump(w, "fail")
    /\ UNCHANGED <<store, flow, api, lostReplies>>

-----------------------------------------------------------------------------
(* The execution: the state machine of infra/modules/orchestration *)

Awaiting == \E w \in Workers : wk[w].awaited

Entry(stage) ==
    CASE stage = "Parse"  -> "enter"
      [] stage = "Export" -> "settle"
      [] OTHER            -> "write"

Next_(stage) ==
    CASE stage = "Parse"  -> "AiEnabled"
      [] stage = "Enrich" -> "Export"
      [] stage = "Export" -> "Succeeded"
      [] OTHER            -> "Failed"

Catch_NoMarker(stage) ==     \* mutant: failures go straight to Failed
    IF stage = "Enrich" THEN "Export" ELSE "Failed"

Catch(stage) ==
    CASE stage \in {"Parse", "Export"} -> "MarkError"
      [] stage = "Enrich"              -> "Export"
      [] OTHER                         -> "Failed"

Invoke(w) ==
    /\ exec \in Tasks
    /\ ~Awaiting
    /\ wk[w] = NoWork
    /\ wk' = [wk EXCEPT ![w] = [stage |-> exec, pc |-> Entry(exec),
                                saw |-> "none", awaited |-> TRUE]]
    /\ UNCHANGED <<store, flow, api, workerFaults, lostReplies>>

TaskDone(w) ==
    /\ wk[w].awaited
    /\ \/ wk[w].pc = "ok"   /\ exec' = Next_(exec)
       \/ wk[w].pc = "fail" /\ exec' = Catch(exec)
    /\ tries' = 0
    /\ wk' = [wk EXCEPT ![w] = NoWork]
    /\ UNCHANGED <<store, input, api, workerFaults, lostReplies>>

(* A transient Lambda error, retried while attempts are left.  The failed   *)
(* attempt may never have run, or may go on running as a zombie.            *)
TransientError(w) ==
    /\ wk[w].awaited
    /\ workerFaults > 0
    /\ workerFaults' = workerFaults - 1
    /\ IF tries < MaxRetries
       THEN tries' = tries + 1 /\ UNCHANGED exec
       ELSE tries' = 0 /\ exec' = Catch(exec)
    /\ \/ wk' = [wk EXCEPT ![w].awaited = FALSE]
       \/ wk' = [wk EXCEPT ![w] = NoWork]
    /\ UNCHANGED <<store, input, api, lostReplies>>

AiEnabled ==
    /\ exec = "AiEnabled"
    /\ exec' = IF input = "aiOn" THEN "Enrich" ELSE "Export"
    /\ UNCHANGED <<store, input, tries, wk, api, workerFaults, lostReplies>>

(* Nobody reads a zombie's result. *)
Reap(w) ==
    /\ ~wk[w].awaited
    /\ wk[w].pc \in {"ok", "fail"}
    /\ wk' = [wk EXCEPT ![w] = NoWork]
    /\ UNCHANGED <<store, flow, api, workerFaults, lostReplies>>

-----------------------------------------------------------------------------

Execution(w) == Invoke(w) \/ TaskDone(w) \/ LambdaStep(w) \/ Reap(w)

Next ==
    \/ PostUploads
    \/ \E c \in Starters : StarterStep(c)
    \/ \E c \in Cancellers : CancellerStep(c)
    \/ \E c \in Calls : NewCall(c) \/ ApiFault(c)
    \/ \E w \in Workers : Execution(w) \/ LambdaDies(w) \/ TransientError(w)
    \/ AiEnabled

Spec == Init /\ [][Next]_vars

(* Step Functions and Lambda keep going; an API request that arrived runs   *)
(* to its response (or dies); the results page re-POSTs a queued job for as *)
(* long as it stays queued (useJob.ts).  The operator owes nothing.         *)
Fairness ==
    /\ WF_vars(\E w \in Workers : Invoke(w))
    /\ \A w \in Workers : WF_vars(TaskDone(w)) /\ WF_vars(LambdaStep(w))
                          /\ WF_vars(Reap(w))
    /\ WF_vars(AiEnabled)
    /\ \A c \in Starters : WF_vars(StarterStep(c))
    /\ \A c \in Cancellers : WF_vars(CancellerStep(c))
    /\ \A c \in Starters : WF_vars(rec.status = "queued" /\ NewCall(c))

FairSpec == Spec /\ Fairness

-----------------------------------------------------------------------------
(* Properties *)

(* The values the variables take: a job record, an execution and the call   *)
(* and invocation slots as the handlers of app/lambdas leave them.          *)
TypeOK ==
    /\ rec \in Records
    /\ findings \in BOOLEAN
    /\ report \in BOOLEAN
    /\ exec \in {"none"} \cup Live \cup Finished
    /\ input \in Inputs
    /\ tries \in 0..MaxRetries
    /\ wk \in [Workers -> Invocations]
    /\ call \in [Calls -> Requests]
    /\ told \subseteq TERMINAL_STATUSES
    /\ apiFaults \in 0..MaxApiFaults
    /\ workerFaults \in 0..MaxWorkerFaults
    /\ lostReplies \in 0..MaxLostReplies

(* Every final status the API ever reported (a cancel answered 200, a start *)
(* refused with 409) is still the record's status: no zombie stage, marker  *)
(* or second request contradicts an answer an operator has acted on.        *)
ToldTheTruth == \A s \in told : rec.status = s

(* _post_jobs reconciles after StartExecution so that it never answers 202  *)
(* once some response has said the job is cancelled or failed.              *)
NoAcceptAfterStop ==
    [][\A c \in Starters :
          call'[c].pc = "202" /\ call[c].pc # "202"
             => told \cap {"cancelled", "error"} = {}]_vars

(* A complete job has its two artifacts and a resolved AI gate, whichever   *)
(* of the duplicate exporters committed it.                                 *)
CompleteIsWhole ==
    rec.status = "complete" => findings /\ report /\ rec.ai # "requested"

(* However many requests race, crash and retry, the one execution runs with *)
(* the input the record persists, and the AI gate of a job launched without *)
(* AI still says so (spec 4.1: never silently, never "failed").             *)
OneLaunchIntent ==
    exec # "none" =>
        /\ input = rec.intent
        /\ input = "aiOff" => rec.ai = "disabled"
        /\ \A w \in Workers : wk[w].stage = "Enrich" => input = "aiOn"

(* Once the execution has moved past Parse, no late duplicate of the parser *)
(* fails the job or drags its phase back, and no phase is ever left behind. *)
ProgressIsKept ==
    [][/\ exec \in {"AiEnabled", "Enrich"} /\ rec.status' = "error"
             => rec.status = "error"
       /\ rec.phase = "parsed"    => rec.phase' \in {"parsed", "exporting"}
       /\ rec.phase = "exporting" => rec.phase' = "exporting"]_vars

(* The job as JobServer has it: "none" before the record, launched once the *)
(* execution exists, and the fault left undone until an intent is persisted.*)
Server == INSTANCE JobServer WITH
    Jobs      <- {"job"},
    MaxFaults <- 1,
    record    <- [j \in {"job"} |-> IF rec.status = "absent" THEN "none" ELSE rec.status],
    launched  <- IF exec = "none" THEN {} ELSE {"job"},
    faults    <- IF rec.intent = "none" THEN 1 ELSE 0

(* Handlers, execution and Lambdas, in whatever order their calls fall, move *)
(* record and launch only as the one-step API that the browser's model       *)
(* (UseJob) talks to: nothing runs unlaunched and no ended job moves.        *)
ServesAsPromised ==
    /\ Server!ServerInit \/ rec.status = "queued"     \* an older build's row
    /\ [][Server!ServerNext]_(Server!serverVars)

(* A queued job leaves the queue: the persisted intent lets a later POST    *)
(* launch it even when the request that queued it died.                     *)
QueuedJobLeaves == rec.status = "queued" ~> rec.status # "queued"

(* A job whose execution was created reaches a terminal status; the marker  *)
(* catches what the stages cannot record themselves.  Only a cancel request *)
(* that fails after it stopped the execution leaves the record to a later   *)
(* cancel.                                                                  *)
LaunchedJobSettles ==
    exec # "none" ~> Terminal \/ (exec = "Aborted" /\ apiFaults < MaxApiFaults)

(* A succeeded execution leaves a terminal record behind (the state machine *)
(* runs no marker after Export reports success).                            *)
SucceededJobSettles == exec = "Succeeded" ~> Terminal

(* A stopped execution leaves a terminal record behind (Step Functions runs *)
(* no Catch, hence no marker, for a stopped execution).                     *)
StoppedJobSettles == exec = "Aborted" ~> Terminal

=============================================================================
