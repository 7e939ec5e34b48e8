--------------------------- MODULE StigJob_proofs ---------------------------
(***************************************************************************)
(* What holds of a STIG job for any number of concurrent requests, Lambda  *)
(* invocations, retries and faults.                                        *)
(***************************************************************************)
EXTENDS StigJob, TLAPS

-----------------------------------------------------------------------------
(* Types *)

(* The literals the actions write. *)
LEMMA Literals ==
    /\ TERMINAL_STATUSES \cup {"pending", "queued", "running"} \subseteq Statuses
    /\ {"none", "parsing", "parsed", "exporting"} \subseteq Phases
    /\ {"requested", "disabled", "failed"} \subseteq AiGates
    /\ {"none", "aiOn", "aiOff"} \subseteq Inputs
    /\ {"enter", "reread", "reguard", "work", "put", "commit", "error",
        "recheck", "settle", "settle_write", "read", "patch", "patch_lost",
        "write", "ok", "fail"} \subseteq WorkerPcs
    /\ {"read", "queue", "reread", "backfill", "refused", "recheck", "start1",
        "start2", "describe", "unseen", "unconfirmed", "ended", "giveup",
        "final", "stop_late", "stop", "stop_failed", "write",
        "200", "202", "404", "409", "500"} \subseteq CallPcs
    /\ NoWork \in Invocations
    /\ \A g : ExecutionInput(g) \in Inputs
  BY DEF TERMINAL_STATUSES, Statuses, Phases, AiGates, Inputs, WorkerPcs,
         ParsePcs, ExportPcs, CallPcs, Replies, NoWork, Invocations,
         ExecutionInput

LEMMA InitType == Init => TypeOK
  <1> SUFFICES ASSUME Init PROVE TypeOK
    OBVIOUS
  <1>1. rec \in Records
    BY DEF Init, Records, Statuses, Phases, AiGates, Inputs
  <1>2. wk \in [Workers -> Invocations]
    BY Literals DEF Init
  <1>3. call \in [Calls -> Requests]
    BY DEF Init, Requests, CallPcs, Inputs
  <1>4. tries \in 0..MaxRetries /\ apiFaults \in 0..MaxApiFaults
        /\ workerFaults \in 0..MaxWorkerFaults /\ lostReplies \in 0..MaxLostReplies
    BY BoundsAreNatural DEF Init
  <1>5. told \subseteq TERMINAL_STATUSES /\ exec = "none" /\ input \in Inputs
    BY DEF Init, Inputs
  <1> QED
    BY <1>1, <1>2, <1>3, <1>4, <1>5 DEF Init, TypeOK

LEMMA GotoType ==
    ASSUME TypeOK, NEW c \in Calls, NEW l \in CallPcs,
           \/ Goto(c, l)
           \/ \E s : Reply(c, l, s)
    PROVE  call' \in [Calls -> Requests] /\ told' \subseteq TERMINAL_STATUSES
  BY DEF TypeOK, Requests, Goto, Reply

LEMMA LaunchType ==
    ASSUME TypeOK, NEW c \in Calls, Launch(c)
    PROVE  call' \in [Calls -> Requests] /\ told' \subseteq TERMINAL_STATUSES
  <1>1. rec.intent \in Inputs
    BY DEF TypeOK, Records
  <1>2. /\ [pc |-> "recheck", inp |-> rec.intent] \in Requests
        /\ [pc |-> "backfill", inp |-> ExecutionInput(rec.ai)] \in Requests
    BY <1>1, Literals DEF Requests
  <1> QED
    BY <1>2 DEF TypeOK, Launch

LEMMA StopExecutionType ==
    ASSUME TypeOK, StopExecution
    PROVE  /\ exec' \in {"none"} \cup Live \cup Finished
           /\ wk' \in [Workers -> Invocations]
           /\ UNCHANGED <<input, tries>>
  BY DEF TypeOK, StopExecution, Finished, Invocations

LEMMA StarterType ==
    ASSUME TypeOK, NEW c \in Starters, StarterStep(c)
    PROVE  TypeOK'
  <1> USE Literals, GotoType, BoundsAreNatural
      DEF store, files, flow, faults, api
  <1> c \in Calls
    BY DEF Calls
  <1>1. CASE StartRead(c)
    BY <1>1, LaunchType DEF StartRead, TypeOK
  <1>2. CASE StartQueue(c)
    BY <1>2 DEF StartQueue, Records, TypeOK
  <1>3. CASE StartReread(c)
    BY <1>3, LaunchType DEF StartReread, TypeOK
  <1>4. CASE StartBackfill(c)
    <2>1. call[c].inp \in Inputs
      BY DEF TypeOK, Requests
    <2> QED
      BY <1>4, <2>1 DEF StartBackfill, Records, TypeOK
  <1>5. CASE StartRefused(c)
    BY <1>5 DEF StartRefused, TypeOK
  <1>6. CASE StartRecheck(c)
    BY <1>6 DEF StartRecheck, TypeOK
  <1>7. CASE StartExec(c)
    <2>1. call[c].inp \in Inputs
      BY DEF TypeOK, Requests
    <2>2. exec' \in {"none"} \cup Live \cup Finished /\ input' \in Inputs
      BY <1>7, <2>1 DEF StartExec, CreateExecution, TypeOK, Live, Tasks
    <2>3. apiFaults' \in 0..MaxApiFaults
      BY <1>7 DEF StartExec, SpendApiFault, TypeOK
    <2>4. call' \in [Calls -> Requests] /\ told' \subseteq TERMINAL_STATUSES
      BY <1>7 DEF StartExec
    <2> QED
      BY <1>7, <2>2, <2>3, <2>4 DEF StartExec, TypeOK
  <1>8. CASE StartDescribe(c)
    BY <1>8 DEF StartDescribe, SpendApiFault, TypeOK
  <1>9. CASE StartUnseen(c)
    BY <1>9 DEF StartUnseen, TypeOK
  <1>10. CASE StartUnconfirmed(c)
    BY <1>10 DEF StartUnconfirmed, TypeOK
  <1>11. CASE StartEnded(c)
    BY <1>11 DEF StartEnded, TypeOK
  <1>12. CASE StartGiveup(c)
    BY <1>12 DEF StartGiveup, Records, TypeOK, TERMINAL_STATUSES
  <1>13. CASE StartFinal(c)
    BY <1>13 DEF StartFinal, TypeOK
  <1>14. CASE StartStopLate(c)
    BY <1>14, StopExecutionType DEF StartStopLate, SpendApiFault, TypeOK
  <1> QED
    BY <1>1, <1>2, <1>3, <1>4, <1>5, <1>6, <1>7, <1>8, <1>9, <1>10, <1>11,
       <1>12, <1>13, <1>14 DEF StarterStep

LEMMA CancellerType ==
    ASSUME TypeOK, NEW c \in Cancellers, CancellerStep(c)
    PROVE  TypeOK'
  <1> USE Literals, GotoType, BoundsAreNatural
      DEF store, files, flow, faults, api
  <1> c \in Calls
    BY DEF Calls
  <1>1. CASE CancelRead(c)
    BY <1>1 DEF CancelRead, TypeOK
  <1>2. CASE CancelStop(c)
    BY <1>2, StopExecutionType DEF CancelStop, SpendApiFault, TypeOK
  <1>3. CASE CancelStopFailed(c)
    BY <1>3 DEF CancelStopFailed, TypeOK
  <1>4. CASE CancelWrite(c)
    BY <1>4 DEF CancelWrite, Records, LoseReply, TypeOK, TERMINAL_STATUSES
  <1>5. CASE CancelReread(c)
    BY <1>5 DEF CancelReread, TypeOK
  <1> QED
    BY <1>1, <1>2, <1>3, <1>4, <1>5 DEF CancellerStep

(* A guarded write leaves a record, a worker in one of two places and the  *)
(* budget in its range.                                                    *)
LEMMA WorkerWriteType ==
    ASSUME TypeOK, NEW w \in Workers, NEW guard \in BOOLEAN, NEW new \in Records,
           NEW won \in WorkerPcs, NEW lost \in WorkerPcs,
           WorkerWrite(w, guard, new, won, lost)
    PROVE  /\ rec' \in Records
           /\ wk' \in [Workers -> Invocations]
           /\ lostReplies' \in 0..MaxLostReplies
  BY BoundsAreNatural DEF TypeOK, Records, Invocations, WorkerWrite, Jump, LoseReply

LEMMA JumpType ==
    ASSUME TypeOK, NEW w \in Workers, NEW l \in WorkerPcs, Jump(w, l)
    PROVE  wk' \in [Workers -> Invocations]
  BY DEF TypeOK, Invocations, Jump

LEMMA LambdaType ==
    ASSUME TypeOK, NEW w \in Workers, LambdaStep(w)
    PROVE  TypeOK'
  <1> SUFFICES /\ rec' \in Records
               /\ wk' \in [Workers -> Invocations]
               /\ findings' \in BOOLEAN /\ report' \in BOOLEAN
               /\ lostReplies' \in 0..MaxLostReplies
    BY DEF LambdaStep, TypeOK, flow, api
  <1>a. /\ rec \in Records /\ wk \in [Workers -> Invocations]
        /\ findings \in BOOLEAN /\ report \in BOOLEAN
        /\ lostReplies \in 0..MaxLostReplies
        /\ rec.phase \in Phases
    BY DEF TypeOK, Records
  <1>b. \A t \in Statuses : Legal(rec.status, t) \in BOOLEAN
    BY DEF Legal
  <1>c. {"running", "error", "complete"} \subseteq Statuses
    BY Literals DEF TERMINAL_STATUSES
  <1> USE Literals DEF files, store
  <1>1. CASE ParseEnter(w)
    BY <1>1, <1>a, <1>b, <1>c, WorkerWriteType DEF ParseEnter, Records
  <1>2. CASE ParseReread(w)
    BY <1>2, <1>a, JumpType DEF ParseReread, Invocations
  <1>3. CASE ParseReguard(w)
    BY <1>3, <1>a, WorkerWriteType DEF ParseReguard, Records, GuardedPatch
  <1>4. CASE ParseWork(w)
    BY <1>4, <1>a, JumpType DEF ParseWork
  <1>5. CASE ParsePut(w)
    BY <1>5, <1>a, JumpType DEF ParsePut
  <1>6. CASE ParseCommit(w)
    BY <1>6, <1>a, WorkerWriteType DEF ParseCommit, Records, GuardedPatch
  <1>7. ASSUME NEW stage, NEW phase, StageError(w, stage, phase)
        PROVE  /\ rec' \in Records /\ wk' \in [Workers -> Invocations]
               /\ UNCHANGED files /\ lostReplies' \in 0..MaxLostReplies
    BY <1>7, <1>a, <1>b, <1>c, WorkerWriteType DEF StageError, Records, GuardedTransition
  <1>8. ASSUME NEW stage, NEW done, StageRecheck(w, stage, done)
        PROVE  wk' \in [Workers -> Invocations] /\ UNCHANGED <<store, lostReplies>>
    BY <1>8, JumpType DEF StageRecheck
  <1>9. CASE ExportSettle(w)
    BY <1>9, <1>a, JumpType DEF ExportSettle
  <1>10. CASE ExportSettleWrite(w)
    BY <1>10, <1>a, JumpType DEF ExportSettleWrite, Records
  <1>11. CASE ExportRead(w)
    BY <1>11, <1>a, JumpType DEF ExportRead, Invocations
  <1>12. CASE ExportPatch(w)
    BY <1>12, <1>a, WorkerWriteType DEF ExportPatch, Records, GuardedPatch
  <1>13. CASE ExportPatchLost(w)
    BY <1>13, <1>a, JumpType DEF ExportPatchLost
  <1>14. CASE ExportWork(w)
    BY <1>14, <1>a, JumpType DEF ExportWork
  <1>15. CASE ExportCommit(w)
    BY <1>15, <1>a, <1>b, <1>c, WorkerWriteType DEF ExportCommit, Records, GuardedTransition
  <1>16. CASE EnrichWrite(w)
    BY <1>16, <1>a, JumpType DEF EnrichWrite, Records
  <1>17. CASE MarkWrite(w)
    BY <1>17, <1>a, <1>c, JumpType DEF MarkWrite, Records
  <1> QED
    BY <1>a, <1>1, <1>2, <1>3, <1>4, <1>5, <1>6, <1>7, <1>8, <1>9, <1>10, <1>11,
       <1>12, <1>13, <1>14, <1>15, <1>16, <1>17 DEF LambdaStep

LEMMA StepType == TypeOK /\ [Next]_vars => TypeOK'
  <1> SUFFICES ASSUME TypeOK, [Next]_vars PROVE TypeOK'
    OBVIOUS
  <1> USE Literals, BoundsAreNatural
      DEF store, files, flow, faults, api
  <1>1. CASE PostUploads
    BY <1>1 DEF PostUploads, Records, TypeOK
  <1>2. ASSUME NEW c \in Calls, NewCall(c) PROVE TypeOK'
    <2>1. [pc |-> "read", inp |-> "none"] \in Requests
      BY DEF Requests
    <2> QED
      BY <1>2, <2>1 DEF NewCall, TypeOK
  <1>3. ASSUME NEW c \in Calls, ApiFault(c) PROVE TypeOK'
    BY <1>3 DEF ApiFault, SpendApiFault, TypeOK, Requests
  <1>4. ASSUME NEW w \in Workers, Invoke(w) PROVE TypeOK'
    <2>1. [stage |-> exec, pc |-> Entry(exec), saw |-> "none", awaited |-> TRUE]
             \in Invocations
      BY <1>4 DEF Invoke, Entry, Tasks, Invocations
    <2> QED
      BY <1>4, <2>1 DEF Invoke, TypeOK
  <1>5. ASSUME NEW w \in Workers, TaskDone(w) PROVE TypeOK'
    <2>1. exec' \in {"none"} \cup Live \cup Finished
      BY <1>5 DEF TaskDone, Next_, Catch, Live, Tasks, Finished
    <2> QED
      BY <1>5, <2>1 DEF TaskDone, TypeOK
  <1>6. ASSUME NEW w \in Workers, Reap(w) PROVE TypeOK'
    BY <1>6 DEF Reap, TypeOK
  <1>7. ASSUME NEW w \in Workers, LambdaDies(w) PROVE TypeOK'
    BY <1>7, JumpType DEF LambdaDies, TypeOK
  <1>8. ASSUME NEW w \in Workers, TransientError(w) PROVE TypeOK'
    <2>1. exec' \in {"none"} \cup Live \cup Finished
      BY <1>8 DEF TransientError, Catch, Live, Tasks, Finished, TypeOK
    <2>2. tries' \in 0..MaxRetries /\ workerFaults' \in 0..MaxWorkerFaults
      BY <1>8 DEF TransientError, TypeOK
    <2>3. wk' \in [Workers -> Invocations]
      <3>1. CASE wk' = [wk EXCEPT ![w].awaited = FALSE]
        BY <3>1 DEF TypeOK, Invocations
      <3>2. CASE wk' = [wk EXCEPT ![w] = NoWork]
        BY <3>2 DEF TypeOK
      <3> QED
        BY <1>8, <3>1, <3>2 DEF TransientError
    <2> QED
      BY <1>8, <2>1, <2>2, <2>3 DEF TransientError, TypeOK
  <1>9. CASE AiEnabled
    BY <1>9 DEF AiEnabled, Live, Tasks, TypeOK
  <1>10. CASE UNCHANGED vars
    BY <1>10 DEF vars, TypeOK
  <1> QED
    BY <1>1, <1>2, <1>3, <1>4, <1>5, <1>6, <1>7, <1>8, <1>9, <1>10,
       StarterType, CancellerType, LambdaType DEF Next, Execution

(* Records, executions, invocations and requests keep their types           *)
(* (app/lambdas, app/core/stages.py and the state machine).                 *)
THEOREM TypeCorrect == Spec => []TypeOK
  BY InitType, StepType, PTL DEF Spec

-----------------------------------------------------------------------------
(* The inductive invariant *)

(* Parse is behind this record: it is over, or a parser committed. *)
Parsed == Terminal \/ (rec.status = "running" /\ rec.phase \in {"parsed", "exporting"})

(* A request that stops a late execution has seen the cancellation. *)
StopLateSawCancel ==
    \A c \in Calls : call[c].pc = "stop_late" => rec.status = "cancelled"

(* A request that gives up has seen the execution end. *)
EndedSawTheEnd ==
    \A c \in Calls : call[c].pc \in {"ended", "giveup"} => exec \in Finished

(* The execution awaits at most one invocation, the one of its task. *)
OneAwaited ==
    /\ \A w \in Workers : wk[w].awaited => exec \in Tasks /\ wk[w].stage = exec
    /\ \A v, w \in Workers : wk[v].awaited /\ wk[w].awaited => v = w

(* Invocations and states of the execution that come after Parse. *)
ParseFirst ==
    /\ exec \in {"AiEnabled", "Enrich", "Export", "Succeeded"} => Parsed
    /\ \A w \in Workers :
          \/ wk[w].stage \in {"Enrich", "Export"}
          \/ wk[w].stage = "Parse" /\ wk[w].pc = "ok"
          => Parsed

(* Invocations of the late stages appear with their state, not before it. *)
StagesInOrder ==
    exec \in {"none", "Parse", "AiEnabled", "Enrich"} =>
        \A w \in Workers : wk[w].stage \notin {"Export", "MarkError"}

(* No phase is recorded before a parser enters. *)
PhaseMeansBegun == rec.phase # "none" => rec.status = "running" \/ Terminal

(* An exporter past _settle_ai_gate works on a resolved gate. *)
GateSettled ==
    \A w \in Workers :
        wk[w].stage = "Export"
          /\ wk[w].pc \in {"read", "patch", "patch_lost", "work", "commit"}
        => rec.ai # "requested" \/ rec.status \in {"error", "cancelled"}

ReportUploaded ==
    /\ report => findings
    /\ \A w \in Workers :
          wk[w].stage = "Export" /\ wk[w].pc = "commit" => report

(* A parser that found the job running saw a phase that Parse may enter. *)
SawEarlyPhase ==
    \A w \in Workers :
        wk[w].stage = "Parse" /\ wk[w].pc = "reguard"
          => wk[w].saw \in {"none", "parsing"}

IInv ==
    /\ TypeOK
    /\ ToldTheTruth
    /\ StopLateSawCancel
    /\ EndedSawTheEnd
    /\ OneAwaited
    /\ ParseFirst
    /\ StagesInOrder
    /\ GateSettled
    /\ ReportUploaded
    /\ SawEarlyPhase
    /\ PhaseMeansBegun
    /\ CompleteIsWhole

-----------------------------------------------------------------------------
(* What a step does to the record, to the answers and to an invocation *)

RecordStep ==
    \/ rec' = rec
    \/ rec.status = "absent" /\ rec' = [rec EXCEPT !.status = "pending"]
    \/ /\ rec.status = "pending"
       /\ \E gate \in {"requested", "disabled"} :
            rec' = [rec EXCEPT !.status = "queued", !.ai = gate,
                               !.intent = ExecutionInput(gate)]
    \/ /\ rec.status = "queued"
       /\ \E c \in Starters :
            call[c].pc = "backfill" /\ rec' = [rec EXCEPT !.intent = call[c].inp]
    \/ /\ rec.status = "queued"
       /\ \E w \in Workers : wk[w].stage = "Parse"
       /\ rec' = [rec EXCEPT !.status = "running", !.phase = "parsing"]
    \/ /\ rec.status \in {"pending", "queued", "running"}
       /\ rec' = [rec EXCEPT !.status = "cancelled"]
    \/ /\ rec.status \in {"queued", "running"}
       /\ \/ \E c \in Calls : call[c].pc = "giveup"
          \/ \E w \in Workers : wk[w].stage \in {"Export", "MarkError"}
          \/ \E w \in Workers : wk[w].stage = "Parse" /\ rec.phase = "parsing"
       /\ rec' = [rec EXCEPT !.status = "error"]
    \/ /\ rec.status = "running" /\ rec.phase = "exporting"
       /\ \E w \in Workers : At(w, "Export", "commit")
       /\ rec' = [rec EXCEPT !.status = "complete"]
    \/ /\ rec.status = "running"
       /\ \E w \in Workers :
            \/ /\ At(w, "Parse", "reguard") /\ rec.phase = wk[w].saw
               /\ rec' = [rec EXCEPT !.phase = "parsing"]
            \/ /\ At(w, "Parse", "commit") /\ rec.phase = "parsing"
               /\ rec' = [rec EXCEPT !.phase = "parsed"]
            \/ /\ At(w, "Export", "patch")
               /\ rec' = [rec EXCEPT !.phase = "exporting"]
    \/ \E w \in Workers :
          \/ /\ At(w, "Enrich", "write") /\ rec.status = "running"
             /\ \E g \in {"disabled", "failed"} : rec' = [rec EXCEPT !.ai = g]
          \/ /\ At(w, "Export", "settle_write")
             /\ rec.status \in {"running", "complete"}
             /\ rec' = [rec EXCEPT !.ai = "failed"]

LEMMA RecordSteps == TypeOK /\ [Next]_vars => RecordStep
  <1> SUFFICES ASSUME TypeOK, [Next]_vars PROVE RecordStep
    OBVIOUS
  <1> USE DEF store, files, flow, faults, api
  <1>1. CASE PostUploads
    BY <1>1 DEF PostUploads, RecordStep
  <1>2. ASSUME NEW c \in Calls, NewCall(c) \/ ApiFault(c) PROVE RecordStep
    BY <1>2 DEF NewCall, ApiFault, RecordStep
  <1>3. ASSUME NEW w \in Workers,
               \/ Invoke(w) \/ TaskDone(w) \/ Reap(w) \/ LambdaDies(w)
               \/ TransientError(w)
        PROVE  RecordStep
    BY <1>3 DEF Invoke, TaskDone, Reap, LambdaDies, TransientError, RecordStep
  <1>4. CASE AiEnabled
    BY <1>4 DEF AiEnabled, RecordStep
  <1>5. CASE UNCHANGED vars
    BY <1>5 DEF vars, RecordStep
  <1>6. ASSUME NEW c \in Starters, StarterStep(c) PROVE RecordStep
    <2>1. CASE StartQueue(c)
      BY <2>1 DEF StartQueue, Legal, RecordStep
    <2>2. CASE StartBackfill(c)
      BY <2>2 DEF StartBackfill, RecordStep
    <2>3. CASE StartGiveup(c)
      BY <2>3 DEF StartGiveup, Legal, RecordStep, Calls
    <2>4. CASE ~StartQueue(c) /\ ~StartBackfill(c) /\ ~StartGiveup(c)
      <3>1. rec' = rec
        BY <1>6, <2>4 DEF StarterStep, StartRead, StartReread, StartRefused,
            StartRecheck, StartExec, StartDescribe, StartUnseen,
            StartUnconfirmed, StartEnded, StartFinal, StartStopLate
      <3> QED
        BY <3>1 DEF RecordStep
    <2> QED
      BY <2>1, <2>2, <2>3, <2>4
  <1>7. ASSUME NEW c \in Cancellers, CancellerStep(c) PROVE RecordStep
    BY <1>7 DEF CancellerStep, CancelRead, CancelStop, CancelStopFailed,
        CancelWrite, CancelReread, Legal, RecordStep
  <1>8. ASSUME NEW w \in Workers, LambdaStep(w) PROVE RecordStep
    <2>1. CASE ParseEnter(w)
      <3>1. \/ rec' = rec
            \/ /\ rec.status = "queued" /\ wk[w].stage = "Parse"
               /\ rec' = [rec EXCEPT !.status = "running", !.phase = "parsing"]
        BY <2>1 DEF ParseEnter, WorkerWrite, Legal, At
      <3> QED
        BY <3>1 DEF RecordStep
    <2>2. CASE ParseReguard(w)
      BY <2>2 DEF ParseReguard, GuardedPatch, WorkerWrite, RecordStep
    <2>3. CASE ParseCommit(w)
      BY <2>3 DEF ParseCommit, GuardedPatch, WorkerWrite, RecordStep
    <2>4. ASSUME StageError(w, "Parse", "parsing") \/ StageError(w, "Export", "exporting")
          PROVE  RecordStep
      <3>1. \/ rec' = rec
            \/ /\ rec.status \in {"queued", "running"}
               /\ rec' = [rec EXCEPT !.status = "error"]
               /\ \/ wk[w].stage = "Parse" /\ rec.phase = "parsing"
                  \/ wk[w].stage = "Export"
        BY <2>4 DEF StageError, GuardedTransition, WorkerWrite, Legal, At
      <3> QED
        BY <3>1 DEF RecordStep
    <2>5. CASE ExportSettleWrite(w)
      BY <2>5 DEF ExportSettleWrite, RecordStep
    <2>6. CASE ExportPatch(w)
      BY <2>6 DEF ExportPatch, GuardedPatch, WorkerWrite, RecordStep
    <2>7. CASE ExportCommit(w)
      BY <2>7 DEF ExportCommit, GuardedTransition, WorkerWrite, Legal, RecordStep
    <2>8. CASE EnrichWrite(w)
      BY <2>8 DEF EnrichWrite, RecordStep
    <2>9. CASE MarkWrite(w)
      <3>1. \/ rec' = rec
            \/ /\ rec.status \in {"queued", "running"}
               /\ rec' = [rec EXCEPT !.status = "error"]
               /\ wk[w].stage = "MarkError"
        BY <2>9 DEF MarkWrite, Legal, At
      <3> QED
        BY <3>1 DEF RecordStep
    <2>10. ASSUME \/ ParseReread(w) \/ ParseWork(w) \/ ParsePut(w)
                  \/ ExportSettle(w) \/ ExportRead(w) \/ ExportPatchLost(w)
                  \/ ExportWork(w)
                  \/ \E stage, done : StageRecheck(w, stage, done)
           PROVE  RecordStep
      BY <2>10 DEF ParseReread, ParseWork, ParsePut, ExportSettle, ExportRead,
          ExportPatchLost, ExportWork, StageRecheck, RecordStep
    <2> QED
      BY <1>8, <2>1, <2>2, <2>3, <2>4, <2>5, <2>6, <2>7, <2>8, <2>9, <2>10
         DEF LambdaStep
  <1> QED
    BY <1>1, <1>2, <1>3, <1>4, <1>5, <1>6, <1>7, <1>8 DEF Next, Execution

(* Terminal statuses have no outgoing edge: _ALLOWED_STATUS_TRANSITIONS. *)
LEMMA TerminalIsFinal ==
    ASSUME TypeOK, [Next]_vars, Terminal PROVE rec'.status = rec.status
  <1>1. RecordStep /\ rec.status \in {"complete", "error", "cancelled"}
    BY RecordSteps DEF Terminal, TERMINAL_STATUSES
  <1> QED
    BY <1>1 DEF RecordStep, TypeOK, Records

(* What a step does to one invocation. *)
WorkStep(w) ==
    \/ /\ wk'[w].stage = wk[w].stage /\ wk'[w].saw = wk[w].saw
       /\ wk'[w].pc \in {wk[w].pc, "fail"}
    \/ wk'[w] = NoWork
    \/ Invoke(w)
    \/ LambdaStep(w)

LEMMA WorkSteps == TypeOK /\ [Next]_vars => \A w \in Workers : WorkStep(w)
  <1> SUFFICES ASSUME TypeOK, [Next]_vars, NEW w \in Workers PROVE WorkStep(w)
    OBVIOUS
  <1>0. wk \in [Workers -> Invocations]
    BY DEF TypeOK
  <1>1. CASE wk' = wk
    BY <1>1 DEF WorkStep
  <1>2. CASE wk' = [v \in Workers |-> [wk[v] EXCEPT !.awaited = FALSE]]
    BY <1>0, <1>2 DEF WorkStep, Invocations
  <1>3. ASSUME NEW v \in Workers, LambdaStep(v) PROVE wk'[w] = wk[w] \/ v = w
    <2>1. \/ \E l : Jump(v, l)
          \/ \E l, p : wk' = [wk EXCEPT ![v].pc = l, ![v].saw = p]
      BY <1>3 DEF LambdaStep, ParseEnter, ParseReread, ParseReguard, ParseWork,
           ParsePut, ParseCommit, StageError, StageRecheck, ExportSettle,
           ExportSettleWrite, ExportRead, ExportPatch, ExportPatchLost,
           ExportWork, ExportCommit, EnrichWrite, MarkWrite, GuardedPatch,
           GuardedTransition, WorkerWrite
    <2> QED
      BY <1>0, <2>1 DEF Jump
  <1>4. ASSUME NEW v \in Workers, Invoke(v) PROVE wk'[w] = wk[w] \/ v = w
    BY <1>0, <1>4 DEF Invoke
  <1>5. ASSUME NEW v \in Workers, TaskDone(v) \/ Reap(v)
        PROVE  wk'[w] \in {wk[w], NoWork}
    BY <1>0, <1>5 DEF TaskDone, Reap
  <1>6. ASSUME NEW v \in Workers, LambdaDies(v)
        PROVE  WorkStep(w)
    BY <1>0, <1>6 DEF LambdaDies, Jump, WorkStep, Invocations
  <1>7. ASSUME NEW v \in Workers, TransientError(v)
        PROVE  WorkStep(w)
    <2>1. CASE wk' = [wk EXCEPT ![v].awaited = FALSE]
      BY <1>0, <2>1 DEF WorkStep, Invocations
    <2>2. CASE wk' = [wk EXCEPT ![v] = NoWork]
      BY <1>0, <2>2 DEF WorkStep
    <2> QED
      BY <1>7, <2>1, <2>2 DEF TransientError
  <1>8. ASSUME NEW c \in Starters, StarterStep(c)
        PROVE  wk' = wk \/ wk' = [v \in Workers |-> [wk[v] EXCEPT !.awaited = FALSE]]
    BY <1>8 DEF StarterStep, StartRead, StartQueue, StartReread, StartBackfill,
        StartRefused, StartRecheck, StartExec, StartDescribe, StartUnseen,
        StartUnconfirmed, StartEnded, StartGiveup, StartFinal, StartStopLate,
        StopExecution
  <1>9. ASSUME NEW c \in Cancellers, CancellerStep(c)
        PROVE  wk' = wk \/ wk' = [v \in Workers |-> [wk[v] EXCEPT !.awaited = FALSE]]
    BY <1>9 DEF CancellerStep, CancelRead, CancelStop, CancelStopFailed,
        CancelWrite, CancelReread, StopExecution
  <1>10. ASSUME NEW c \in Calls, NewCall(c) \/ ApiFault(c) PROVE wk' = wk
    BY <1>10 DEF NewCall, ApiFault
  <1>11. ASSUME PostUploads \/ AiEnabled \/ UNCHANGED vars PROVE wk' = wk
    BY <1>11 DEF PostUploads, AiEnabled, vars
  <1>12. wk'[w] = wk[w] => WorkStep(w)
    BY DEF WorkStep
  <1>13. wk'[w] = NoWork \/ Invoke(w) \/ LambdaStep(w) => WorkStep(w)
    BY DEF WorkStep
  <1> QED
    BY <1>1, <1>2, <1>3, <1>4, <1>5, <1>6, <1>7, <1>8, <1>9, <1>10, <1>11,
       <1>12, <1>13 DEF Next, Execution

(* What a step does to one request. *)
CallStep(c) ==
    call'[c] = call[c] \/ StarterStep(c) \/ CancellerStep(c) \/ NewCall(c) \/ ApiFault(c)

LEMMA CallSteps == TypeOK /\ [Next]_vars => \A c \in Calls : CallStep(c)
  <1> SUFFICES ASSUME TypeOK, [Next]_vars, NEW c \in Calls PROVE CallStep(c)
    OBVIOUS
  <1>0. call \in [Calls -> Requests]
    BY DEF TypeOK
  <1>1. ASSUME NEW d \in Calls, NEW l, Goto(d, l) \/ \E s : Reply(d, l, s)
        PROVE  call'[c] = call[c] \/ c = d
    BY <1>0, <1>1 DEF Goto, Reply
  <1>2. ASSUME NEW d \in Calls, Launch(d) PROVE call'[c] = call[c] \/ c = d
    BY <1>0, <1>2 DEF Launch
  <1>3. ASSUME NEW d \in Starters, StarterStep(d) PROVE call'[c] = call[c] \/ c = d
    <2>1. d \in Calls
      BY DEF Calls
    <2> QED
      BY <1>1, <1>2, <1>3, <2>1
         DEF StarterStep, StartRead, StartQueue, StartReread, StartBackfill,
           StartRefused, StartRecheck, StartExec, StartDescribe, StartUnseen,
           StartUnconfirmed, StartEnded, StartGiveup, StartFinal, StartStopLate
  <1>4. ASSUME NEW d \in Cancellers, CancellerStep(d) PROVE call'[c] = call[c] \/ c = d
    <2>1. d \in Calls
      BY DEF Calls
    <2> QED
      BY <1>1, <1>4, <2>1 DEF CancellerStep, CancelRead, CancelStop,
           CancelStopFailed, CancelWrite, CancelReread
  <1>5. ASSUME NEW d \in Calls, NewCall(d) \/ ApiFault(d)
        PROVE  call'[c] = call[c] \/ c = d
    BY <1>0, <1>5 DEF NewCall, ApiFault
  <1>6. ASSUME NEW w \in Workers,
               \/ Invoke(w) \/ TaskDone(w) \/ Reap(w) \/ LambdaDies(w)
               \/ TransientError(w) \/ LambdaStep(w)
        PROVE  call' = call
    BY <1>6 DEF Invoke, TaskDone, Reap, LambdaDies, TransientError, LambdaStep, api
  <1>7. ASSUME PostUploads \/ AiEnabled \/ UNCHANGED vars PROVE call' = call
    BY <1>7 DEF PostUploads, AiEnabled, vars, api
  <1> QED
    BY <1>3, <1>4, <1>5, <1>6, <1>7 DEF CallStep, Next, Execution

(* What a step does to the execution. *)
ExecStep ==
    \/ exec' = exec
    \/ exec = "none" /\ exec' = "Parse"
    \/ exec \in Live /\ exec' = "Aborted"
    \/ \E w \in Workers : wk[w].awaited /\ wk[w].pc = "ok" /\ exec' = Next_(exec)
    \/ \E w \in Workers : wk[w].awaited /\ exec' = Catch(exec)
    \/ exec = "AiEnabled" /\ exec' \in {"Enrich", "Export"}

LEMMA ExecSteps == [Next]_vars => ExecStep
  <1> SUFFICES ASSUME [Next]_vars PROVE ExecStep
    OBVIOUS
  <1> USE DEF ExecStep, flow
  <1>1. ASSUME NEW c \in Starters, StarterStep(c) PROVE ExecStep
    BY <1>1 DEF StarterStep, StartRead, StartQueue, StartReread, StartBackfill,
        StartRefused, StartRecheck, StartExec, CreateExecution, StartDescribe,
        StartUnseen, StartUnconfirmed, StartEnded, StartGiveup, StartFinal,
        StartStopLate, StopExecution
  <1>2. ASSUME NEW c \in Cancellers, CancellerStep(c) PROVE ExecStep
    BY <1>2 DEF CancellerStep, CancelRead, CancelStop, CancelStopFailed,
        CancelWrite, CancelReread, StopExecution
  <1>3. ASSUME NEW c \in Calls, NewCall(c) \/ ApiFault(c) PROVE ExecStep
    BY <1>3 DEF NewCall, ApiFault
  <1>4. ASSUME NEW w \in Workers,
               Invoke(w) \/ Reap(w) \/ LambdaDies(w) \/ LambdaStep(w)
        PROVE  ExecStep
    BY <1>4 DEF Invoke, Reap, LambdaDies, LambdaStep
  <1>5. ASSUME NEW w \in Workers, TaskDone(w) \/ TransientError(w) PROVE ExecStep
    BY <1>5 DEF TaskDone, TransientError
  <1>6. ASSUME PostUploads \/ AiEnabled \/ UNCHANGED vars PROVE ExecStep
    BY <1>6 DEF PostUploads, AiEnabled, vars
  <1> QED
    BY <1>1, <1>2, <1>3, <1>4, <1>5, <1>6 DEF Next, Execution

(* What a step does to the artifacts. *)
LEMMA FileSteps ==
    ASSUME TypeOK, [Next]_vars
    PROVE  (findings => findings') /\ (report => report')
           /\ (report' => report \/ findings)
  <1> USE DEF store, files
  <1>1. ASSUME NEW c \in Starters, StarterStep(c) PROVE UNCHANGED files
    BY <1>1 DEF StarterStep, StartRead, StartQueue, StartReread, StartBackfill,
        StartRefused, StartRecheck, StartExec, StartDescribe, StartUnseen,
        StartUnconfirmed, StartEnded, StartGiveup, StartFinal, StartStopLate
  <1>2. ASSUME NEW c \in Cancellers, CancellerStep(c) PROVE UNCHANGED files
    BY <1>2 DEF CancellerStep, CancelRead, CancelStop, CancelStopFailed,
        CancelWrite, CancelReread
  <1>3. ASSUME NEW c \in Calls, NewCall(c) \/ ApiFault(c) PROVE UNCHANGED files
    BY <1>3 DEF NewCall, ApiFault
  <1>4. ASSUME NEW w \in Workers, \/ Invoke(w) \/ Reap(w) \/ LambdaDies(w)
                                 \/ TaskDone(w) \/ TransientError(w)
        PROVE  UNCHANGED files
    BY <1>4 DEF Invoke, Reap, LambdaDies, TaskDone, TransientError
  <1>5. ASSUME PostUploads \/ AiEnabled \/ UNCHANGED vars PROVE UNCHANGED files
    BY <1>5 DEF PostUploads, AiEnabled, vars
  <1>6. ASSUME NEW w \in Workers, LambdaStep(w)
        PROVE  \/ UNCHANGED files
               \/ findings' = TRUE /\ report' = report
               \/ findings' = findings /\ findings /\ report' = TRUE
    BY <1>6 DEF LambdaStep, ParseEnter, ParseReread, ParseReguard, ParseWork,
        ParsePut, ParseCommit, StageError, StageRecheck, ExportSettle,
        ExportSettleWrite, ExportRead, ExportPatch, ExportPatchLost, ExportWork,
        ExportCommit, EnrichWrite, MarkWrite
  <1>7. \/ UNCHANGED files
        \/ findings' = TRUE /\ report' = report
        \/ findings' = findings /\ findings /\ report' = TRUE
    BY <1>1, <1>2, <1>3, <1>4, <1>5, <1>6 DEF Next, Execution
  <1>8. CASE UNCHANGED files
    BY <1>8
  <1>9. CASE findings' = TRUE /\ report' = report
    BY <1>9
  <1>10. CASE findings' = findings /\ findings /\ report' = TRUE
    BY <1>10
  <1> QED
    BY <1>7, <1>8, <1>9, <1>10

-----------------------------------------------------------------------------
(* The invariant is inductive *)

LEMMA ParsedIsStable ==
    ASSUME IInv, [Next]_vars, Parsed PROVE Parsed'
  <1>1. RecordStep /\ rec \in Records
    BY RecordSteps DEF IInv, TypeOK
  <1>2. CASE Terminal
    BY <1>2, TerminalIsFinal DEF IInv, Parsed, Terminal
  <1>3. CASE rec.status = "running" /\ rec.phase \in {"parsed", "exporting"}
    BY <1>1, <1>3 DEF RecordStep, Records, IInv, SawEarlyPhase, At, Parsed,
                      Terminal, TERMINAL_STATUSES
  <1> QED
    BY <1>2, <1>3 DEF Parsed

LEMMA ToldStep == IInv /\ [Next]_vars => ToldTheTruth'
  <1> SUFFICES ASSUME IInv, [Next]_vars PROVE ToldTheTruth'
    OBVIOUS
  <1> USE DEF store, files, flow, faults, api, Goto, Reply
  <1>1. told' \subseteq told \cup ({rec'.status} \cap TERMINAL_STATUSES)
    <2>1. ASSUME NEW c \in Starters, StarterStep(c)
          PROVE  told' \subseteq told \cup ({rec'.status} \cap TERMINAL_STATUSES)
      <3>1. CASE StartStopLate(c)
        BY <3>1 DEF StartStopLate, IInv, StopLateSawCancel, Calls
      <3>2. CASE StartQueue(c) \/ StartBackfill(c) \/ StartGiveup(c)
        BY <3>2 DEF StartQueue, StartBackfill, StartGiveup, TERMINAL_STATUSES
      <3>3. CASE \/ StartRead(c) \/ StartReread(c) \/ StartRefused(c)
                 \/ StartRecheck(c) \/ StartExec(c) \/ StartDescribe(c)
        BY <3>3 DEF StartRead, StartReread, StartRefused, StartRecheck,
            StartExec, StartDescribe, Launch, TERMINAL_STATUSES
      <3>4. CASE \/ StartUnseen(c) \/ StartUnconfirmed(c) \/ StartEnded(c)
                 \/ StartFinal(c)
        BY <3>4 DEF StartUnseen, StartUnconfirmed, StartEnded, StartFinal,
            TERMINAL_STATUSES
      <3> QED
        BY <2>1, <3>1, <3>2, <3>3, <3>4 DEF StarterStep
    <2>2. ASSUME NEW c \in Cancellers, CancellerStep(c)
          PROVE  told' \subseteq told \cup ({rec'.status} \cap TERMINAL_STATUSES)
      <3>1. CASE CancelWrite(c)
        BY <3>1 DEF CancelWrite, IInv, TypeOK, Records
      <3>2. CASE ~CancelWrite(c)
        BY <2>2, <3>2 DEF CancellerStep, CancelRead, CancelStop,
            CancelStopFailed, CancelReread, TERMINAL_STATUSES
      <3> QED
        BY <3>1, <3>2
    <2>3. ASSUME NEW c \in Calls, NewCall(c) \/ ApiFault(c) PROVE told' = told
      BY <2>3 DEF NewCall, ApiFault
    <2>4. ASSUME NEW w \in Workers,
                 \/ Invoke(w) \/ Reap(w) \/ LambdaDies(w) \/ TaskDone(w)
                 \/ TransientError(w) \/ LambdaStep(w)
          PROVE  told' = told
      BY <2>4 DEF Invoke, Reap, LambdaDies, TaskDone, TransientError, LambdaStep
    <2>5. ASSUME PostUploads \/ AiEnabled \/ UNCHANGED vars PROVE told' = told
      BY <2>5 DEF PostUploads, AiEnabled, vars
    <2> QED
      BY <2>1, <2>2, <2>3, <2>4, <2>5 DEF Next, Execution
  <1>2. \A s \in told : rec'.status = s
    <2> SUFFICES ASSUME NEW s \in told PROVE rec'.status = s
      OBVIOUS
    <2>1. rec.status = s /\ Terminal
      BY DEF IInv, ToldTheTruth, TypeOK, Terminal
    <2> QED
      BY <2>1, TerminalIsFinal DEF IInv
  <1> QED
    BY <1>1, <1>2 DEF ToldTheTruth

LEMMA StopLateStep == IInv /\ [Next]_vars => StopLateSawCancel'
  <1> SUFFICES ASSUME IInv, [Next]_vars, NEW c \in Calls, call'[c].pc = "stop_late"
               PROVE  rec'.status = "cancelled"
    BY DEF StopLateSawCancel
  <1>1. CASE rec.status = "cancelled"
    BY <1>1, TerminalIsFinal DEF IInv, Terminal, TERMINAL_STATUSES
  <1>2. rec.status = "cancelled"
    <2>1. CallStep(c) /\ call \in [Calls -> Requests]
      BY CallSteps DEF IInv, TypeOK
    <2>2. CASE call'[c] = call[c]
      BY <2>2 DEF IInv, StopLateSawCancel
    <2>3. CASE NewCall(c) \/ ApiFault(c)
      BY <2>1, <2>3 DEF NewCall, ApiFault, Requests
    <2>4. CASE CancellerStep(c)
      BY <2>1, <2>4 DEF CancellerStep, CancelRead, CancelStop, CancelStopFailed,
          CancelWrite, CancelReread, Goto, Reply, Requests
    <2>5. CASE StarterStep(c)
      BY <2>1, <2>5 DEF StarterStep, StartRead, StartQueue, StartReread,
          StartBackfill, StartRefused, StartRecheck, StartExec, StartDescribe,
          StartUnseen, StartUnconfirmed, StartEnded, StartGiveup, StartFinal,
          StartStopLate, Launch, Goto, Reply, Requests
    <2> QED
      BY <2>1, <2>2, <2>3, <2>4, <2>5 DEF CallStep
  <1> QED
    BY <1>1, <1>2

LEMMA EndedStep == IInv /\ [Next]_vars => EndedSawTheEnd'
  <1> SUFFICES ASSUME IInv, [Next]_vars, NEW c \in Calls,
                      call'[c].pc \in {"ended", "giveup"}
               PROVE  exec' \in Finished
    BY DEF EndedSawTheEnd
  <1>1. ASSUME exec \in Finished PROVE exec' \in Finished
    BY <1>1, ExecSteps DEF ExecStep, IInv, OneAwaited, Finished, Tasks, Live
  <1>2. exec \in Finished
    <2>1. CallStep(c) /\ call \in [Calls -> Requests]
      BY CallSteps DEF IInv, TypeOK
    <2>2. CASE call'[c] = call[c]
      BY <2>2 DEF IInv, EndedSawTheEnd
    <2>3. CASE NewCall(c) \/ ApiFault(c)
      BY <2>1, <2>3 DEF NewCall, ApiFault, Requests
    <2>4. CASE CancellerStep(c)
      BY <2>1, <2>4 DEF CancellerStep, CancelRead, CancelStop, CancelStopFailed,
          CancelWrite, CancelReread, Goto, Reply, Requests
    <2>5. CASE StarterStep(c)
      BY <2>1, <2>5 DEF StarterStep, StartRead, StartQueue, StartReread,
          StartBackfill, StartRefused, StartRecheck, StartExec, StartDescribe,
          StartUnseen, StartUnconfirmed, StartEnded, StartGiveup, StartFinal,
          StartStopLate, Launch, Goto, Reply, Requests, IInv, EndedSawTheEnd
    <2> QED
      BY <2>1, <2>2, <2>3, <2>4, <2>5 DEF CallStep
  <1> QED
    BY <1>1, <1>2

LEMMA LambdaKeeps ==
    ASSUME TypeOK, NEW w \in Workers, LambdaStep(w)
    PROVE  /\ wk'[w].stage = wk[w].stage /\ wk'[w].awaited = wk[w].awaited
           /\ \A v \in Workers : v # w => wk'[v] = wk[v]
           /\ exec' = exec
  <1>1. \/ \E l : Jump(w, l)
        \/ \E l, p : wk' = [wk EXCEPT ![w].pc = l, ![w].saw = p]
    BY DEF LambdaStep, ParseEnter, ParseReread, ParseReguard, ParseWork,
         ParsePut, ParseCommit, StageError, StageRecheck, ExportSettle,
         ExportSettleWrite, ExportRead, ExportPatch, ExportPatchLost,
         ExportWork, ExportCommit, EnrichWrite, MarkWrite, GuardedPatch,
         GuardedTransition, WorkerWrite
  <1>2. wk \in [Workers -> Invocations]
    BY DEF TypeOK
  <1>3. exec' = exec
    BY DEF LambdaStep, flow
  <1> QED
    BY <1>1, <1>2, <1>3 DEF Jump, Invocations

LEMMA OneAwaitedStep == IInv /\ [Next]_vars => OneAwaited'
  <1> SUFFICES ASSUME IInv, [Next]_vars PROVE OneAwaited'
    OBVIOUS
  <1>0. wk \in [Workers -> Invocations] /\ OneAwaited /\ TypeOK
    BY DEF IInv, TypeOK
  <1>1. ASSUME UNCHANGED wk, exec' = exec \/ (exec = "none" /\ exec' = "Parse")
        PROVE  OneAwaited'
    BY <1>0, <1>1 DEF OneAwaited, Tasks
  <1>2. ASSUME StopExecution PROVE OneAwaited'
    BY <1>0, <1>2 DEF StopExecution, OneAwaited, Invocations
  <1> USE DEF flow
  <1>3. ASSUME NEW c \in Starters, StarterStep(c)
        PROVE  \/ StopExecution
               \/ UNCHANGED wk /\ (exec' = exec \/ (exec = "none" /\ exec' = "Parse"))
    BY <1>3 DEF StarterStep, StartRead, StartQueue, StartReread, StartBackfill,
        StartRefused, StartRecheck, StartExec, CreateExecution, StartDescribe,
        StartUnseen, StartUnconfirmed, StartEnded, StartGiveup, StartFinal,
        StartStopLate
  <1>4. ASSUME NEW c \in Cancellers, CancellerStep(c)
        PROVE  StopExecution \/ UNCHANGED <<wk, exec>>
    BY <1>4 DEF CancellerStep, CancelRead, CancelStop, CancelStopFailed,
        CancelWrite, CancelReread
  <1>5. ASSUME NEW c \in Calls, NewCall(c) \/ ApiFault(c)
        PROVE  UNCHANGED <<wk, exec>>
    BY <1>5 DEF NewCall, ApiFault
  <1>6. ASSUME NEW w \in Workers, Invoke(w) PROVE OneAwaited'
    BY <1>0, <1>6 DEF Invoke, Awaiting, OneAwaited
  <1>7. ASSUME NEW w \in Workers, TaskDone(w) \/ TransientError(w) PROVE OneAwaited'
    <2>1. \A v \in Workers : ~wk'[v].awaited
      BY <1>0, <1>7 DEF TaskDone, TransientError, OneAwaited, NoWork, Invocations
    <2> QED
      BY <2>1 DEF OneAwaited
  <1>8. ASSUME NEW w \in Workers, Reap(w) PROVE OneAwaited'
    BY <1>0, <1>8 DEF Reap, NoWork, OneAwaited
  <1>9. ASSUME NEW w \in Workers, LambdaDies(w) PROVE OneAwaited'
    BY <1>0, <1>9 DEF LambdaDies, Jump, OneAwaited, Invocations
  <1>10. ASSUME NEW w \in Workers, LambdaStep(w) PROVE OneAwaited'
    BY <1>0, <1>10, LambdaKeeps DEF OneAwaited
  <1>11. ASSUME PostUploads \/ UNCHANGED vars PROVE UNCHANGED <<wk, exec>>
    BY <1>11 DEF PostUploads, vars
  <1>12. CASE AiEnabled
    BY <1>0, <1>12 DEF AiEnabled, OneAwaited, Tasks
  <1> QED
    BY <1>1, <1>2, <1>3, <1>4, <1>5, <1>6, <1>7, <1>8, <1>9, <1>10, <1>11, <1>12
       DEF Next, Execution

LEMMA ParseFirstStep == IInv /\ [Next]_vars => ParseFirst'
  <1> SUFFICES ASSUME IInv, [Next]_vars PROVE ParseFirst'
    OBVIOUS
  <1>0. Parsed => Parsed'
    BY ParsedIsStable
  <1>1. ASSUME exec' \in {"AiEnabled", "Enrich", "Export", "Succeeded"} PROVE Parsed
    <2>1. ExecStep
      BY ExecSteps
    <2>2. ASSUME NEW w \in Workers, wk[w].awaited, wk[w].pc = "ok",
                 exec' = Next_(exec)
          PROVE  Parsed
      BY <1>1, <2>2 DEF IInv, OneAwaited, ParseFirst, Next_, Tasks
    <2>3. ASSUME exec' = Catch(exec) PROVE Parsed
      BY <1>1, <2>3 DEF IInv, ParseFirst, Catch
    <2> QED
      BY <1>1, <2>1, <2>2, <2>3 DEF ExecStep, IInv, ParseFirst
  <1>2. ASSUME NEW w \in Workers,
               \/ wk'[w].stage \in {"Enrich", "Export"}
               \/ wk'[w].stage = "Parse" /\ wk'[w].pc = "ok"
        PROVE  Parsed'
    <2>1. WorkStep(w) /\ wk \in [Workers -> Invocations]
      BY WorkSteps DEF IInv, TypeOK
    <2>2. CASE wk'[w].stage = wk[w].stage /\ wk'[w].pc \in {wk[w].pc, "fail"}
      BY <1>0, <1>2, <2>2 DEF IInv, ParseFirst
    <2>3. CASE wk'[w] = NoWork
      BY <1>2, <2>3 DEF NoWork
    <2>4. CASE Invoke(w)
      BY <1>0, <1>2, <2>1, <2>4 DEF Invoke, Entry, IInv, ParseFirst
    <2>5. CASE LambdaStep(w)
      <3>1. wk'[w].stage = wk[w].stage /\ TypeOK
        BY <2>5, LambdaKeeps DEF IInv
      <3>2. CASE wk[w].stage \in {"Enrich", "Export"}
        BY <1>0, <3>2 DEF IInv, ParseFirst
      <3>3. CASE wk[w].stage = "Parse" /\ wk'[w].pc = "ok"
        <4>1. CASE ParseAlreadySucceeded
          BY <1>0, <4>1 DEF ParseAlreadySucceeded, Parsed, Terminal, TERMINAL_STATUSES
        <4>2. CASE ParseCommit(w)
          BY <2>1, <3>3, <4>2 DEF ParseCommit, GuardedPatch, WorkerWrite, Jump,
              Invocations, IInv, TypeOK, Records, Parsed
        <4>3. CASE ~ParseAlreadySucceeded /\ ~ParseCommit(w)
          BY <2>1, <2>5, <3>3, <4>3
             DEF LambdaStep, ParseEnter, ParseReread, ParseReguard, ParseWork,
               ParsePut, StageError, StageRecheck, ExportSettle,
               ExportSettleWrite, ExportRead, ExportPatch, ExportPatchLost,
               ExportWork, ExportCommit, EnrichWrite, MarkWrite, GuardedPatch,
               GuardedTransition, WorkerWrite, Jump, Invocations, At
        <4> QED
          BY <4>1, <4>2, <4>3
      <3> QED
        BY <1>2, <3>1, <3>2, <3>3
    <2> QED
      BY <2>1, <2>2, <2>3, <2>4, <2>5 DEF WorkStep
  <1> QED
    BY <1>0, <1>1, <1>2 DEF ParseFirst

LEMMA StagesInOrderStep == IInv /\ [Next]_vars => StagesInOrder'
  <1> SUFFICES ASSUME IInv, [Next]_vars, NEW w \in Workers,
                      exec' \in {"none", "Parse", "AiEnabled", "Enrich"},
                      wk'[w].stage \in {"Export", "MarkError"}
               PROVE  FALSE
    BY DEF StagesInOrder
  <1>1. exec \in {"none", "Parse", "AiEnabled", "Enrich"}
    BY ExecSteps DEF ExecStep, IInv, OneAwaited, TypeOK, Next_, Catch, Tasks,
        Live, Finished
  <1>2. wk[w].stage \notin {"Export", "MarkError"}
    BY <1>1 DEF IInv, StagesInOrder
  <1>3. WorkStep(w) /\ wk \in [Workers -> Invocations] /\ TypeOK
    BY WorkSteps DEF IInv, TypeOK
  <1>4. CASE Invoke(w)
    BY <1>1, <1>3, <1>4 DEF Invoke
  <1>5. CASE LambdaStep(w)
    BY <1>2, <1>3, <1>5, LambdaKeeps
  <1> QED
    BY <1>2, <1>3, <1>4, <1>5 DEF WorkStep, NoWork

LEMMA GateSettledStep == IInv /\ [Next]_vars => GateSettled'
  <1> DEFINE Past == {"read", "patch", "patch_lost", "work", "commit"}
             Resolved == rec.ai # "requested" \/ rec.status \in {"error", "cancelled"}
  <1> SUFFICES ASSUME IInv, [Next]_vars, NEW w \in Workers,
                      wk'[w].stage = "Export", wk'[w].pc \in Past
               PROVE  Resolved'
    BY DEF GateSettled
  <1>1. WorkStep(w) /\ wk \in [Workers -> Invocations] /\ TypeOK
    BY WorkSteps DEF IInv, TypeOK
  <1>2. ASSUME Parsed, Resolved PROVE Resolved'
    BY <1>2, RecordSteps DEF IInv, TypeOK, Records, RecordStep, Parsed, Terminal,
        TERMINAL_STATUSES, Legal
  <1>3. ASSUME wk[w].stage = "Export" PROVE Parsed
    BY <1>3 DEF IInv, ParseFirst
  <1>4. CASE wk'[w].stage = wk[w].stage /\ wk'[w].pc \in {wk[w].pc, "fail"}
    BY <1>2, <1>3, <1>4 DEF IInv, GateSettled
  <1>5. CASE wk'[w] = NoWork
    BY <1>5 DEF NoWork
  <1>6. CASE Invoke(w)
    BY <1>1, <1>6 DEF Invoke, Entry
  <1>7. CASE LambdaStep(w)
    <2>1. wk[w].stage = "Export"
      BY <1>1, <1>7, LambdaKeeps
    <2>2. CASE wk[w].pc \in Past
      BY <1>2, <1>3, <2>1, <2>2 DEF IInv, GateSettled
    <2>3. CASE ExportSettle(w)
      BY <1>1, <2>3 DEF ExportSettle, Jump, Invocations, store
    <2>4. CASE ExportSettleWrite(w)
      <3>1. rec.status = "running" \/ Terminal
        BY <1>3, <2>1 DEF Parsed
      <3> QED
        BY <1>1, <2>4, <3>1 DEF ExportSettleWrite, Terminal, TERMINAL_STATUSES,
            TypeOK, Records
    <2>5. CASE wk[w].pc \notin Past /\ ~ExportSettle(w) /\ ~ExportSettleWrite(w)
      BY <1>1, <1>7, <2>1, <2>5
         DEF LambdaStep, ParseEnter, ParseReread, ParseReguard, ParseWork,
           ParsePut, ParseCommit, StageError, StageRecheck, ExportRead,
           ExportPatch, ExportPatchLost, ExportWork, ExportCommit, EnrichWrite,
           MarkWrite, GuardedPatch, GuardedTransition, WorkerWrite, Jump,
           Invocations, At
    <2> QED
      BY <2>2, <2>3, <2>4, <2>5
  <1> QED
    BY <1>1, <1>4, <1>5, <1>6, <1>7 DEF WorkStep

LEMMA ReportUploadedStep == IInv /\ [Next]_vars => ReportUploaded'
  <1> SUFFICES ASSUME IInv, [Next]_vars PROVE ReportUploaded'
    OBVIOUS
  <1>t. TypeOK
    BY DEF IInv
  <1>0. (findings => findings') /\ (report => report')
        /\ (report' => report \/ findings)
    BY <1>t, FileSteps
  <1>a. report => findings
    BY DEF IInv, ReportUploaded
  <1>1. report' => findings'
    BY <1>0, <1>a
  <1>2. ASSUME NEW w \in Workers, wk'[w].stage = "Export", wk'[w].pc = "commit"
        PROVE  report'
    <2>1. WorkStep(w) /\ wk \in [Workers -> Invocations] /\ TypeOK
      BY WorkSteps DEF IInv, TypeOK
    <2>2. CASE wk'[w].stage = wk[w].stage /\ wk'[w].pc \in {wk[w].pc, "fail"}
      <3>1. report
        BY <1>2, <2>2 DEF IInv, ReportUploaded
      <3> QED
        BY <1>0, <3>1
    <2>3. CASE Invoke(w)
      BY <1>2, <2>1, <2>3 DEF Invoke, Entry
    <2>4. CASE LambdaStep(w)
      <3>1. wk[w].stage = "Export"
        BY <1>2, <2>1, <2>4, LambdaKeeps
      <3>2. ExportWork(w)
        BY <1>2, <2>1, <2>4, <3>1
           DEF LambdaStep, ParseEnter, ParseReread, ParseReguard, ParseWork,
             ParsePut, ParseCommit, StageError, StageRecheck, ExportSettle,
             ExportSettleWrite, ExportRead, ExportPatch, ExportPatchLost,
             ExportCommit, EnrichWrite, MarkWrite, GuardedPatch,
             GuardedTransition, WorkerWrite, Jump, Invocations, At
      <3> QED
        BY <1>2, <2>1, <3>2 DEF ExportWork, Jump, Invocations
    <2> QED
      BY <1>2, <2>1, <2>2, <2>3, <2>4 DEF WorkStep, NoWork
  <1> QED
    BY <1>1, <1>2 DEF ReportUploaded

LEMMA SawEarlyPhaseStep == IInv /\ [Next]_vars => SawEarlyPhase'
  <1> SUFFICES ASSUME IInv, [Next]_vars, NEW w \in Workers,
                      wk'[w].stage = "Parse", wk'[w].pc = "reguard"
               PROVE  wk'[w].saw \in {"none", "parsing"}
    BY DEF SawEarlyPhase
  <1>1. WorkStep(w) /\ wk \in [Workers -> Invocations] /\ TypeOK
    BY WorkSteps DEF IInv, TypeOK
  <1>2. CASE wk'[w].stage = wk[w].stage /\ wk'[w].saw = wk[w].saw
             /\ wk'[w].pc \in {wk[w].pc, "fail"}
    BY <1>2 DEF IInv, SawEarlyPhase
  <1>3. CASE Invoke(w)
    BY <1>1, <1>3 DEF Invoke, Entry
  <1>4. CASE LambdaStep(w)
    <2>1. ParseReread(w)
      BY <1>1, <1>4
         DEF LambdaStep, ParseEnter, ParseReguard, ParseWork, ParsePut,
           ParseCommit, StageError, StageRecheck, ExportSettle,
           ExportSettleWrite, ExportRead, ExportPatch, ExportPatchLost,
           ExportWork, ExportCommit, EnrichWrite, MarkWrite, GuardedPatch,
           GuardedTransition, WorkerWrite, Jump, Invocations, At
    <2> QED
      BY <1>1, <2>1 DEF ParseReread, Jump, Invocations
  <1> QED
    BY <1>1, <1>2, <1>3, <1>4 DEF WorkStep, NoWork

LEMMA PhaseStep == IInv /\ [Next]_vars => PhaseMeansBegun'
  <1> SUFFICES ASSUME IInv, [Next]_vars PROVE PhaseMeansBegun'
    OBVIOUS
  <1>1. RecordStep /\ rec \in Records
    BY RecordSteps DEF IInv, TypeOK
  <1> QED
    BY <1>1 DEF RecordStep, Records, IInv, PhaseMeansBegun, Terminal,
        TERMINAL_STATUSES

LEMMA WholeStep == IInv /\ [Next]_vars => CompleteIsWhole'
  <1> SUFFICES ASSUME IInv, [Next]_vars, rec'.status = "complete"
               PROVE  findings' /\ report' /\ rec'.ai # "requested"
    BY DEF CompleteIsWhole
  <1>t. TypeOK
    BY DEF IInv
  <1>0. (findings => findings') /\ (report => report')
        /\ (report' => report \/ findings)
    BY <1>t, FileSteps
  <1>1. RecordStep /\ rec \in Records
    BY RecordSteps DEF IInv, TypeOK
  <1>2. CASE rec.status = "complete"
    <2>1. findings /\ report /\ rec.ai # "requested"
      BY <1>2 DEF IInv, CompleteIsWhole
    <2>2. rec'.ai # "requested"
      BY <1>1, <1>2, <2>1 DEF RecordStep, Records
    <2>3. findings' /\ report'
      BY <1>0, <2>1
    <2> QED
      BY <2>2, <2>3
  <1>3. CASE rec.status # "complete"
    <2>1. /\ rec.status = "running" /\ rec'.ai = rec.ai
          /\ \E w \in Workers : At(w, "Export", "commit")
      BY <1>1, <1>3 DEF RecordStep, Records
    <2>2. report /\ findings /\ rec.ai # "requested"
      BY <2>1 DEF At, IInv, ReportUploaded, GateSettled
    <2>3. findings' /\ report'
      BY <1>0, <2>2
    <2> QED
      BY <2>1, <2>2, <2>3
  <1> QED
    BY <1>2, <1>3

LEMMA InitIInv == Init => IInv
  BY InitType
     DEF Init, IInv, ToldTheTruth, StopLateSawCancel, EndedSawTheEnd, OneAwaited,
       ParseFirst, StagesInOrder, GateSettled, ReportUploaded, SawEarlyPhase,
       PhaseMeansBegun, CompleteIsWhole, NoWork

LEMMA StepIInv == IInv /\ [Next]_vars => IInv'
  BY StepType, ToldStep, StopLateStep, EndedStep, OneAwaitedStep, ParseFirstStep,
     StagesInOrderStep, GateSettledStep, ReportUploadedStep, SawEarlyPhaseStep,
     PhaseStep, WholeStep DEF IInv

LEMMA Invariance == Spec => []IInv
  BY InitIInv, StepIInv, PTL DEF Spec

-----------------------------------------------------------------------------
(* The theorems *)

(* A final status the API has reported never changes afterwards.            *)
THEOREM Truthful == Spec => []ToldTheTruth
  <1>1. IInv => ToldTheTruth
    BY DEF IInv
  <1> QED
    BY <1>1, Invariance, PTL

(* A complete job has its findings, its report and a resolved AI gate.      *)
THEOREM WholeReport == Spec => []CompleteIsWhole
  <1>1. IInv => CompleteIsWhole
    BY DEF IInv
  <1> QED
    BY <1>1, Invariance, PTL

(* A start is never accepted once a cancellation or a failure was told.     *)
THEOREM NoLateAccept == Spec => NoAcceptAfterStop
  <1> DEFINE A == \A c \in Starters :
                    call'[c].pc = "202" /\ call[c].pc # "202"
                      => told \cap {"cancelled", "error"} = {}
  <1>1. IInv /\ [Next]_vars => [A]_vars
    <2> SUFFICES ASSUME IInv, [Next]_vars, NEW c \in Starters,
                        call'[c].pc = "202", call[c].pc # "202"
                 PROVE  told \cap {"cancelled", "error"} = {}
      OBVIOUS
    <2>0. CallStep(c) /\ call \in [Calls -> Requests] /\ c \in Calls
      BY CallSteps DEF IInv, TypeOK, Calls
    <2>1. CASE NewCall(c) \/ ApiFault(c)
      BY <2>0, <2>1 DEF NewCall, ApiFault, Requests
    <2>2. CASE CancellerStep(c)
      BY <2>0, <2>2 DEF CancellerStep, CancelRead, CancelStop, CancelStopFailed,
          CancelWrite, CancelReread, Goto, Reply, Requests
    <2>3. CASE StarterStep(c)
      <3>1. rec.status \notin {"cancelled", "error"}
        BY <2>0, <2>3 DEF StarterStep, StartRead, StartQueue, StartReread,
            StartBackfill, StartRefused, StartRecheck, StartExec, StartDescribe,
            StartUnseen, StartUnconfirmed, StartEnded, StartGiveup, StartFinal,
            StartStopLate, Launch, Goto, Reply, Requests
      <3> QED
        BY <3>1 DEF IInv, ToldTheTruth
    <2> QED
      BY <2>0, <2>1, <2>2, <2>3 DEF CallStep
  <1> QED
    BY <1>1, Invariance, PTL DEF Spec, NoAcceptAfterStop

(* What Parse and Export achieved is never taken back.                      *)
THEOREM Progress == Spec => ProgressIsKept
  <1> DEFINE A == /\ exec \in {"AiEnabled", "Enrich"} /\ rec.status' = "error"
                       => rec.status = "error"
                  /\ rec.phase = "parsed"    => rec.phase' \in {"parsed", "exporting"}
                  /\ rec.phase = "exporting" => rec.phase' = "exporting"
  <1>1. IInv /\ [Next]_vars => A
    <2> SUFFICES ASSUME IInv, [Next]_vars PROVE A
      OBVIOUS
    <2>0. RecordStep /\ rec \in Records
      BY RecordSteps DEF IInv, TypeOK
    <2>1. ASSUME exec \in {"AiEnabled", "Enrich"}, rec'.status = "error"
          PROVE  rec.status = "error"
      <3>1. Parsed /\ \A w \in Workers : wk[w].stage \notin {"Export", "MarkError"}
        BY <2>1 DEF IInv, ParseFirst, StagesInOrder
      <3>2. \A c \in Calls : call[c].pc # "giveup"
        BY <2>1 DEF IInv, EndedSawTheEnd, Finished
      <3> QED
        BY <2>0, <2>1, <3>1, <3>2 DEF RecordStep, Records, Parsed, Terminal,
            TERMINAL_STATUSES
    <2>2. /\ rec.phase = "parsed"    => rec'.phase \in {"parsed", "exporting"}
          /\ rec.phase = "exporting" => rec'.phase = "exporting"
      BY <2>0 DEF RecordStep, Records, IInv, SawEarlyPhase, PhaseMeansBegun,
          Terminal, TERMINAL_STATUSES, At
    <2> QED
      BY <2>1, <2>2
  <1>2. IInv /\ [Next]_vars => [A]_vars
    BY <1>1
  <1> QED
    BY <1>2, Invariance, PTL DEF Spec, ProgressIsKept

-----------------------------------------------------------------------------
(* The launch intent *)

(* The record's intent and gate agree, and a queued job has one intent that *)
(* its gate determines, persisted or not.                                   *)
IntentOfRecord ==
    /\ rec.status \in {"absent", "pending"} => rec.intent = "none"
    /\ rec.status = "queued" => /\ rec.ai \in {"requested", "disabled"}
                               /\ rec.intent \in {"none", ExecutionInput(rec.ai)}
    /\ rec.intent = "aiOff" => rec.ai = "disabled"

(* A request about to launch holds the persisted intent, or the one it is   *)
(* about to persist.                                                        *)
IntentOfRequest(c) ==
    /\ call[c].pc \in {"recheck", "start1", "start2"} =>
          call[c].inp # "none" /\ call[c].inp = rec.intent
    /\ call[c].pc = "backfill" =>
          /\ call[c].inp \in {"aiOn", "aiOff"}
          /\ rec.status \notin {"absent", "pending"}
          /\ rec.status = "queued" => call[c].inp = ExecutionInput(rec.ai)

IntentOfExecution ==
    /\ exec # "none" => rec.intent # "none" /\ input = rec.intent
    /\ exec = "Enrich" => input = "aiOn"

IntentOfWorker(w) ==
    /\ wk[w].stage # "idle" => exec # "none"
    /\ wk[w].stage = "Enrich" => input = "aiOn"
    /\ At(w, "Export", "settle_write") => rec.intent # "aiOff"

Intent ==
    /\ IntentOfRecord
    /\ \A c \in Calls : IntentOfRequest(c)
    /\ IntentOfExecution
    /\ \A w \in Workers : IntentOfWorker(w)

(* A persisted intent is never replaced. *)
LEMMA IntentIsKept ==
    ASSUME IInv, Intent, [Next]_vars, rec.intent # "none"
    PROVE  rec'.intent = rec.intent
  <1>1. RecordStep /\ rec \in Records
    BY RecordSteps DEF IInv, TypeOK
  <1>2. ASSUME NEW c \in Starters, rec.status = "queued", call[c].pc = "backfill"
        PROVE  call[c].inp = rec.intent
    BY <1>2 DEF Intent, IntentOfRecord, IntentOfRequest, Calls
  <1> QED
    BY <1>1, <1>2 DEF RecordStep, Records, Intent, IntentOfRecord

LEMMA IntentOfRecordStep ==
    ASSUME IInv, Intent, [Next]_vars
    PROVE  IntentOfRecord'
  <1>1. RecordStep /\ rec \in Records
    BY RecordSteps DEF IInv, TypeOK
  <1>2. ASSUME NEW c \in Starters, rec.status = "queued", call[c].pc = "backfill"
        PROVE  call[c].inp = ExecutionInput(rec.ai)
    BY <1>2 DEF Intent, IntentOfRequest, Calls
  <1>3. ASSUME NEW w \in Workers, At(w, "Enrich", "write") \/ At(w, "Export", "settle_write")
        PROVE  rec.intent # "aiOff"
    BY <1>3 DEF Intent, IntentOfWorker, IntentOfExecution, At
  <1> QED
    BY <1>1, <1>2, <1>3 DEF RecordStep, Records, Intent, IntentOfRecord,
        ExecutionInput

LEMMA InputSteps ==
    ASSUME TypeOK, OneAwaited, [Next]_vars
    PROVE  \/ input' = input /\ (exec' = "none" <=> exec = "none")
           \/ /\ exec = "none" /\ exec' = "Parse"
              /\ \E c \in Starters : /\ call[c].pc \in {"start1", "start2"}
                                     /\ input' = call[c].inp
              /\ wk' = wk /\ rec' = rec
  <1> DEFINE P == \/ input' = input /\ (exec' = "none" <=> exec = "none")
                  \/ /\ exec = "none" /\ exec' = "Parse"
                     /\ \E c \in Starters : /\ call[c].pc \in {"start1", "start2"}
                                            /\ input' = call[c].inp
                     /\ wk' = wk /\ rec' = rec
  <1> USE DEF flow, store
  <1>1. ASSUME NEW c \in Starters, StarterStep(c) PROVE P
    <2>1. CASE StartExec(c)
      BY <2>1 DEF StartExec, CreateExecution, Live, Tasks
    <2>2. CASE ~StartExec(c)
      BY <1>1, <2>2 DEF StarterStep, StartRead, StartQueue, StartReread,
          StartBackfill, StartRefused, StartRecheck, StartDescribe, StartUnseen,
          StartUnconfirmed, StartEnded, StartGiveup, StartFinal, StartStopLate,
          StopExecution, Live, Tasks
    <2> QED
      BY <2>1, <2>2
  <1>2. ASSUME NEW c \in Cancellers, CancellerStep(c) PROVE P
    BY <1>2 DEF CancellerStep, CancelRead, CancelStop, CancelStopFailed,
        CancelWrite, CancelReread, StopExecution, Live, Tasks
  <1>3. ASSUME NEW c \in Calls, NewCall(c) \/ ApiFault(c) PROVE P
    BY <1>3 DEF NewCall, ApiFault
  <1>4. ASSUME NEW w \in Workers,
               Invoke(w) \/ Reap(w) \/ LambdaDies(w) \/ LambdaStep(w)
        PROVE  P
    BY <1>4 DEF Invoke, Reap, LambdaDies, LambdaStep
  <1>5. CASE PostUploads \/ AiEnabled \/ UNCHANGED vars
    BY <1>5 DEF PostUploads, AiEnabled, vars
  <1>6. ASSUME NEW w \in Workers, TaskDone(w) \/ TransientError(w) PROVE P
    BY <1>6 DEF TaskDone, TransientError, OneAwaited, Tasks, Next_, Catch
  <1> QED
    BY <1>1, <1>2, <1>3, <1>4, <1>5, <1>6 DEF Next, Execution

LEMMA IntentOfExecutionStep ==
    ASSUME IInv, Intent, [Next]_vars
    PROVE  IntentOfExecution'
  <1>0. TypeOK /\ OneAwaited /\ IntentOfExecution
    BY DEF IInv, Intent
  <1>1. CASE input' = input /\ (exec' = "none" <=> exec = "none")
    <2>1. ASSUME exec' = "Enrich", exec # "Enrich" PROVE input = "aiOn"
      <3>1. AiEnabled
        <4>1. ExecStep /\ exec' # exec
          BY <2>1, ExecSteps
        <4>2. exec = "AiEnabled"
          BY <1>0, <2>1, <4>1 DEF ExecStep, Next_, Catch, OneAwaited, Tasks
        <4>3. \A w \in Workers : ~wk[w].awaited
          BY <1>0, <4>2 DEF OneAwaited, Tasks
        <4>4. ASSUME NEW c \in Starters, StarterStep(c) PROVE FALSE
          BY <2>1, <4>2, <4>4 DEF StarterStep, StartRead, StartQueue, StartReread,
              StartBackfill, StartRefused, StartRecheck, StartExec,
              CreateExecution, StartDescribe, StartUnseen, StartUnconfirmed,
              StartEnded, StartGiveup, StartFinal, StartStopLate, StopExecution,
              flow
        <4>5. ASSUME NEW c \in Cancellers, CancellerStep(c) PROVE FALSE
          BY <2>1, <4>2, <4>5 DEF CancellerStep, CancelRead, CancelStop,
              CancelStopFailed, CancelWrite, CancelReread, StopExecution, flow
        <4>6. ASSUME NEW c \in Calls, NewCall(c) \/ ApiFault(c) PROVE FALSE
          BY <2>1, <4>6 DEF NewCall, ApiFault, flow
        <4>7. ASSUME NEW w \in Workers,
                     \/ Invoke(w) \/ Reap(w) \/ LambdaDies(w) \/ LambdaStep(w)
                     \/ TaskDone(w) \/ TransientError(w)
              PROVE  FALSE
          BY <2>1, <4>3, <4>7 DEF Invoke, Reap, LambdaDies, LambdaStep, TaskDone,
              TransientError, flow
        <4>8. ASSUME PostUploads \/ UNCHANGED vars PROVE FALSE
          BY <2>1, <4>8 DEF PostUploads, vars, flow
        <4> QED
          BY <4>4, <4>5, <4>6, <4>7, <4>8 DEF Next, Execution
      <3> QED
        BY <2>1, <3>1 DEF AiEnabled
    <2>2. exec # "none" => rec'.intent = rec.intent
      BY <1>0, IntentIsKept DEF IntentOfExecution
    <2> QED
      BY <1>0, <1>1, <2>1, <2>2 DEF IntentOfExecution
  <1>2. ASSUME exec' = "Parse", rec' = rec,
               NEW c \in Starters, call[c].pc \in {"start1", "start2"},
               input' = call[c].inp
        PROVE  IntentOfExecution'
    BY <1>2 DEF IntentOfExecution, Intent, IntentOfRequest, Calls
  <1> QED
    BY <1>0, <1>1, <1>2, InputSteps

LEMMA IntentOfWorkerStep ==
    ASSUME IInv, Intent, [Next]_vars, NEW w \in Workers
    PROVE  IntentOfWorker(w)'
  <1>0. /\ TypeOK /\ OneAwaited /\ IntentOfExecution /\ IntentOfWorker(w)
        /\ wk \in [Workers -> Invocations] /\ WorkStep(w)
    BY WorkSteps DEF IInv, Intent, TypeOK
  <1>1. ASSUME wk[w].stage # "idle"
        PROVE  exec' # "none" /\ input' = input /\ rec'.intent = rec.intent
    BY <1>0, <1>1, InputSteps, IntentIsKept DEF IntentOfWorker, IntentOfExecution
  <1>2. CASE wk'[w].stage = wk[w].stage /\ wk'[w].pc \in {wk[w].pc, "fail"}
    BY <1>0, <1>1, <1>2 DEF IntentOfWorker, At
  <1>3. CASE wk'[w] = NoWork
    BY <1>3 DEF IntentOfWorker, NoWork, At
  <1>4. CASE Invoke(w)
    BY <1>0, <1>4 DEF Invoke, Entry, IntentOfWorker, IntentOfExecution, At, flow,
        Tasks
  <1>5. CASE LambdaStep(w)
    <2>1. wk'[w].stage = wk[w].stage /\ wk[w].stage # "idle"
      <3>1. wk[w].stage # "idle"
        BY <1>5 DEF LambdaStep, ParseEnter, ParseReread, ParseReguard, ParseWork,
            ParsePut, ParseCommit, StageError, StageRecheck, ExportSettle,
            ExportSettleWrite, ExportRead, ExportPatch, ExportPatchLost,
            ExportWork, ExportCommit, EnrichWrite, MarkWrite, At
      <3> QED
        BY <1>0, <1>5, <3>1, LambdaKeeps
    <2>2. ASSUME At(w, "Export", "settle_write")', ~At(w, "Export", "settle_write")
          PROVE  rec.intent # "aiOff"
      <3>1. ExportSettle(w)
        BY <1>0, <1>5, <2>2
           DEF LambdaStep, ParseEnter, ParseReread, ParseReguard, ParseWork,
             ParsePut, ParseCommit, StageError, StageRecheck, ExportSettleWrite,
             ExportRead, ExportPatch, ExportPatchLost, ExportWork, ExportCommit,
             EnrichWrite, MarkWrite, GuardedPatch, GuardedTransition,
             WorkerWrite, Jump, Invocations, At
      <3>2. rec.ai = "requested"
        BY <1>0, <2>2, <3>1 DEF ExportSettle, Jump, Invocations, At
      <3> QED
        BY <3>2 DEF Intent, IntentOfRecord
    <2> QED
      BY <1>0, <1>1, <2>1, <2>2 DEF IntentOfWorker, At
  <1> QED
    BY <1>0, <1>2, <1>3, <1>4, <1>5 DEF WorkStep

LEMMA IntentOfRequestStep ==
    ASSUME IInv, Intent, [Next]_vars, NEW c \in Calls
    PROVE  IntentOfRequest(c)'
  <1>0. /\ TypeOK /\ IntentOfRecord /\ IntentOfRequest(c)
        /\ call \in [Calls -> Requests] /\ CallStep(c)
        /\ RecordStep /\ rec \in Records
    BY CallSteps, RecordSteps DEF IInv, Intent, TypeOK
  <1>1. CASE call'[c] = call[c]
    <2>1. call[c].pc \in {"recheck", "start1", "start2"} => rec'.intent = rec.intent
      BY <1>0, IntentIsKept DEF IntentOfRequest
    <2>2. ASSUME call[c].pc = "backfill"
          PROVE  /\ rec'.status \notin {"absent", "pending"}
                 /\ rec'.status = "queued" => call[c].inp = ExecutionInput(rec'.ai)
      BY <1>0, <2>2 DEF RecordStep, Records, IntentOfRequest
    <2> QED
      BY <1>0, <1>1, <2>1, <2>2 DEF IntentOfRequest
  <1>2. CASE NewCall(c) \/ ApiFault(c)
    BY <1>0, <1>2 DEF NewCall, ApiFault, Requests, IntentOfRequest
  <1>3. CASE CancellerStep(c)
    BY <1>0, <1>3 DEF CancellerStep, CancelRead, CancelStop, CancelStopFailed,
        CancelWrite, CancelReread, Goto, Reply, Requests, IntentOfRequest
  <1>4. CASE StarterStep(c)
    <2>1. CASE StartRead(c) \/ StartReread(c)
      <3>1. CASE Launch(c) /\ rec.status = "queued"
        BY <1>0, <2>1, <3>1 DEF StartRead, StartReread, Launch, IntentOfRequest,
            IntentOfRecord, ExecutionInput, store
      <3>2. CASE ~(Launch(c) /\ rec.status = "queued")
        BY <1>0, <2>1, <3>2 DEF StartRead, StartReread, Goto, Reply, Requests,
            IntentOfRequest
      <3> QED
        BY <3>1, <3>2
    <2>2. CASE StartBackfill(c)
      BY <1>0, <2>2 DEF StartBackfill, Goto, Requests, Records, IntentOfRequest
    <2>3. CASE StartRecheck(c) \/ StartExec(c)
      BY <1>0, <2>3 DEF StartRecheck, StartExec, Goto, Reply, Requests, store,
          IntentOfRequest
    <2>4. CASE \/ StartQueue(c) \/ StartRefused(c) \/ StartDescribe(c)
               \/ StartUnseen(c) \/ StartUnconfirmed(c) \/ StartEnded(c)
               \/ StartGiveup(c) \/ StartFinal(c) \/ StartStopLate(c)
      BY <1>0, <2>4 DEF StartQueue, StartRefused, StartDescribe, StartUnseen,
          StartUnconfirmed, StartEnded, StartGiveup, StartFinal, StartStopLate,
          Goto, Reply, Requests, IntentOfRequest
    <2> QED
      BY <1>4, <2>1, <2>2, <2>3, <2>4 DEF StarterStep
  <1> QED
    BY <1>0, <1>1, <1>2, <1>3, <1>4 DEF CallStep

LEMMA InitIntent == Init => Intent
  <1> SUFFICES ASSUME Init PROVE Intent
    OBVIOUS
  <1>1. IntentOfRecord
    BY DEF Init, IntentOfRecord
  <1>2. \A c \in Calls : IntentOfRequest(c)
    BY DEF Init, IntentOfRequest
  <1>3. IntentOfExecution /\ \A w \in Workers : IntentOfWorker(w)
    BY DEF Init, IntentOfExecution, IntentOfWorker, NoWork, At
  <1> QED
    BY <1>1, <1>2, <1>3 DEF Intent

LEMMA StepIntent == IInv /\ Intent /\ [Next]_vars => Intent'
  BY IntentOfRecordStep, IntentOfRequestStep, IntentOfExecutionStep,
     IntentOfWorkerStep DEF Intent

(* Whatever races, crashes and retries, one execution runs, with the input  *)
(* the record persists; without AI the gate says disabled to the end.       *)
THEOREM OneIntent == Spec => []OneLaunchIntent
  <1>1. Spec => []Intent
    BY InitIntent, StepIntent, Invariance, PTL DEF Spec
  <1>2. Intent => OneLaunchIntent
    <2> SUFFICES ASSUME Intent, exec # "none"
                 PROVE  /\ input = rec.intent
                        /\ input = "aiOff" => rec.ai = "disabled"
                        /\ \A w \in Workers : wk[w].stage = "Enrich" => input = "aiOn"
      BY DEF OneLaunchIntent
    <2> QED
      BY DEF Intent, IntentOfRecord, IntentOfExecution, IntentOfWorker
  <1> QED
    BY <1>1, <1>2, PTL

-----------------------------------------------------------------------------
(* What the browser is promised *)

(* Without an execution no stage has touched the record. *)
Unlaunched == exec = "none" => rec.status \in {"absent", "pending", "queued", "cancelled"}

LEMMA UnlaunchedStep ==
    ASSUME IInv, Intent, Unlaunched, [Next]_vars
    PROVE  Unlaunched'
  <1>1. RecordStep /\ rec \in Records
    BY RecordSteps DEF IInv, TypeOK
  <1>2. exec' = "none" => exec = "none"
    BY InputSteps DEF IInv
  <1>3. ASSUME exec = "none"
        PROVE  /\ \A w \in Workers : wk[w].stage = "idle"
               /\ \A c \in Calls : call[c].pc # "giveup"
    BY <1>3 DEF Intent, IntentOfWorker, IInv, EndedSawTheEnd, Finished
  <1> QED
    BY <1>1, <1>2, <1>3 DEF Unlaunched, RecordStep, Records, At

Promised == IInv /\ Intent /\ Unlaunched

LEMMA PromisedHolds == Spec => []Promised
  <1>1. Init => Unlaunched
    BY DEF Init, Unlaunched
  <1>2. IInv /\ Intent /\ Unlaunched /\ [Next]_vars => Unlaunched'
    BY UnlaunchedStep
  <1> QED
    BY <1>1, <1>2, InitIntent, StepIntent, Invariance, PTL DEF Spec, Promised

(* The job as JobServer has it. *)
Record == [j \in {"job"} |-> IF rec.status = "absent" THEN "none" ELSE rec.status]
Launched == IF exec = "none" THEN {} ELSE {"job"}
Left == IF rec.intent = "none" THEN 1 ELSE 0

(* A launch or a change of status is a step of JobServer; nothing else      *)
(* shows.                                                                   *)
LEMMA PromisedStep ==
    ASSUME Promised, [Next]_vars
    PROVE  [Server!ServerNext]_(Server!serverVars)
  <1>1. RecordStep /\ rec \in Records /\ rec'.status \in Statuses \cup {"absent"}
    <2>1. TypeOK'
      BY StepType DEF Promised, IInv
    <2> QED
      BY <2>1, RecordSteps DEF Promised, IInv, TypeOK, Records
  <1>2. rec.intent # "none" => rec'.intent = rec.intent
    BY IntentIsKept DEF Promised
  <1>3. ASSUME exec = "none"
        PROVE  /\ rec.status \in {"absent", "pending", "queued", "cancelled"}
               /\ \A w \in Workers : wk[w].stage = "idle"
               /\ \A c \in Calls : call[c].pc # "giveup"
    BY <1>3 DEF Promised, Unlaunched, Intent, IntentOfWorker, IInv, EndedSawTheEnd, Finished
  <1> DEFINE Same == Record' = Record /\ Launched' = Launched /\ Left' = Left
             To(s) == Record' = [Record EXCEPT !["job"] = s]
             r == Record["job"]
             Moves == \/ r = "queued" /\ (To("running") \/ To("error"))
                      \/ r = "running" /\ (To("complete") \/ To("error"))
  <1>4. CASE input' = input /\ (exec' = "none" <=> exec = "none")
    <2>1. Launched' = Launched
      BY <1>4 DEF Launched
    <2>2. CASE rec'.status = rec.status
      <3>1. Record' = Record
        BY <2>2 DEF Record
      <3>2. CASE Left' = Left
        <4>1. Same
          BY <2>1, <3>1, <3>2
        <4> QED
          BY <4>1 DEF Record, Launched, Left, Server!serverVars
      <3>3. CASE Left' # Left
        <4>1. rec.status = "queued" /\ Left = 1 /\ Left' = 0
          BY <1>1, <1>2, <2>2, <3>3 DEF Left, RecordStep, Records
        <4>2. r = "queued" /\ To("queued")
          BY <3>1, <4>1 DEF Record
        <4>3. Server!PostJobs("job", "ok")
          BY <2>1, <4>1, <4>2 DEF Record, Launched, Left, Server!PostJobs, Server!To, Server!Fail
        <4> QED
          BY <4>3 DEF Server!ServerNext, Server!Answers
      <3> QED
        BY <3>2, <3>3
    <2>3. CASE rec'.status # rec.status
      <3>1. \/ rec.status = "absent" /\ rec'.status = "pending" /\ rec'.intent = rec.intent
            \/ rec.status = "pending" /\ rec'.status = "queued" /\ rec'.intent # "none"
            \/ /\ rec.status \in {"pending", "queued", "running"} /\ rec'.status = "cancelled"
               /\ rec'.intent = rec.intent
            \/ /\ exec # "none" /\ rec'.intent = rec.intent
               /\ \/ rec.status = "queued" /\ rec'.status \in {"running", "error"}
                  \/ rec.status = "running" /\ rec'.status \in {"complete", "error"}
        BY <1>1, <1>3, <2>3 DEF RecordStep, Records, ExecutionInput, At
      <3>2. CASE rec.status = "absent" /\ rec'.status = "pending" /\ rec'.intent = rec.intent
        <4>1. r = "none" /\ To("pending") /\ Left' = Left
          BY <3>2 DEF Record, Left
        <4>2. Server!PostUploads("job", "ok")
          BY <2>1, <4>1 DEF Record, Launched, Left, Server!PostUploads, Server!To
        <4> QED
          BY <4>2 DEF Server!ServerNext, Server!Answers
      <3>3. CASE rec.status = "pending" /\ rec'.status = "queued" /\ rec'.intent # "none"
        <4>1. r = "pending" /\ To("queued") /\ Left = 1 /\ Left' = 0
          BY <3>3 DEF Record, Left, Promised, Intent, IntentOfRecord
        <4>2. Server!PostJobs("job", "ok")
          BY <2>1, <4>1 DEF Record, Launched, Left, Server!PostJobs, Server!To, Server!Fail
        <4> QED
          BY <4>2 DEF Server!ServerNext, Server!Answers
      <3>4. CASE /\ rec.status \in {"pending", "queued", "running"} /\ rec'.status = "cancelled"
                 /\ rec'.intent = rec.intent
        <4>1. r \in {"pending", "queued", "running"} /\ To("cancelled") /\ Left' = Left
          BY <3>4 DEF Record, Left
        <4>2. Server!PostCancel("job", "cancelled")
          BY <2>1, <4>1 DEF Record, Launched, Left, Server!PostCancel, Server!To, Server!Terminal
        <4> QED
          BY <4>2 DEF Server!ServerNext, Server!Answers, Server!Terminal
      <3>5. CASE /\ exec # "none" /\ rec'.intent = rec.intent
                 /\ \/ rec.status = "queued" /\ rec'.status \in {"running", "error"}
                    \/ rec.status = "running" /\ rec'.status \in {"complete", "error"}
        <4>1. Moves /\ Left' = Left /\ "job" \in Launched
          BY <3>5 DEF Record, Left, Launched
        <4>2. Server!Execute("job")
          BY <2>1, <4>1 DEF Record, Launched, Left, Server!Execute, Server!To
        <4> QED
          BY <4>2 DEF Server!ServerNext
      <3> QED
        BY <3>1, <3>2, <3>3, <3>4, <3>5
    <2> QED
      BY <2>2, <2>3
  <1>5. ASSUME exec = "none", exec' = "Parse", rec' = rec,
               NEW c \in Starters, call[c].pc \in {"start1", "start2"}
        PROVE  [Server!ServerNext]_(Server!serverVars)
    <2>1. rec.intent # "none"
      BY <1>5 DEF Promised, Intent, IntentOfRequest, Calls
    <2>2. rec.status \in {"queued", "cancelled"}
      BY <1>3, <1>5, <2>1 DEF Promised, Intent, IntentOfRecord
    <2>3. /\ Record' = Record /\ To(r) /\ r \in {"queued", "cancelled"} /\ Left' = Left
          /\ Launched' = Launched \cup {"job"}
      BY <1>5, <2>2 DEF Record, Left, Launched
    <2>4. CASE r = "queued"
      <3>1. Server!PostJobs("job", "ok")
        BY <2>3, <2>4 DEF Record, Launched, Left, Server!PostJobs, Server!To
      <3> QED
        BY <3>1 DEF Server!ServerNext, Server!Answers
    <2>5. CASE r = "cancelled"
      <3>1. Server!PostJobs("job", "failed")
        BY <2>3, <2>5 DEF Record, Launched, Left, Server!PostJobs
      <3> QED
        BY <3>1 DEF Server!ServerNext, Server!Answers
    <2> QED
      BY <2>3, <2>4, <2>5
  <1> QED
    BY <1>4, <1>5, InputSteps DEF Promised, IInv

(* Whatever the handlers, the execution and the Lambdas interleave, lose and *)
(* retry, the job's record and launch move only as the one-step API that     *)
(* UseJob (useJob.ts over api.py) is modelled against.                       *)
THEOREM Serves == Spec => ServesAsPromised
  <1>1. Init => Server!ServerInit \/ rec.status = "queued"
    BY DEF Init, Server!ServerInit
  <1>2. Promised /\ [Next]_vars => [Server!ServerNext]_(Server!serverVars)
    BY PromisedStep
  <1> QED
    BY <1>1, <1>2, PromisedHolds, PTL DEF Spec, ServesAsPromised

=============================================================================
