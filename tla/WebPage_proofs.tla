---------------------------- MODULE WebPage_proofs ----------------------------
(* That the container's threads keep out of each other's directories, and     *)
(* that a complete job has its workbook: for any number of jobs, fetches,     *)
(* downloads and faults.                                                      *)
EXTENDS WebPage, TLAPS

---------------------------------------------------------------------------
(* The invariant: what the table and the directories are while a thread is at *)
(* each of its places, and what a handler suspended between two locks may     *)
(* still rely on.                                                             *)
EntryFollowsWorker ==
    \A j \in Jobs :
        /\ wk[j] \in {"none", "saving"} => jobs[j].status = "none"
        /\ wk[j] \in {"parse", "ready", "export", "commit"} => jobs[j].status = "running"
        /\ jobs[j].status = "complete" => wk[j] = "done"

DirFollowsWorker ==
    \A j \in Jobs :
        /\ wk[j] = "none" => dir[j] = Gone
        /\ wk[j] = "commit" => "book" \in dir[j]

\* the sweeper has looked at the status: no worker starts in that directory now
SweepsOrphans == sweep # NoJob => ~Working(sweep) /\ wk[sweep] # "none"

HandlersKnow ==
    \A s \in Slots :
        /\ req[s].mine => req[s].job \in Jobs
        /\ req[s].op = "process" \/ req[s].pc = "saving" => s = "process"
        /\ req[s].pc = "saving" => req[s].job \in Jobs /\ wk[req[s].job] = "saving"
        /\ req[s].pc = "flag" => req[s].job \in Jobs /\ wk[req[s].job] \notin {"none", "saving"}
        /\ req[s].pc \in {"sending", "popping"} =>
             req[s].job \in Jobs /\ wk[req[s].job] = "done"

ServerInv ==
    /\ ServerTypeOK
    /\ EntryFollowsWorker
    /\ DirFollowsWorker
    /\ SweepsOrphans
    /\ HandlersKnow
    /\ WorkerKeepsItsFiles
    /\ ResultIsReal

IInv == TypeOK /\ ServerInv

---------------------------------------------------------------------------
(* Requests                                                                  *)
\* An answer ends the handler and leaves the request's caller as it was.
LEMMA AnswerEnds ==
    ASSUME req \in [Slots -> Requests], NEW s \in Slots, NEW a \in Answers, Answer(s, a)
    PROVE  /\ req' \in [Slots -> Requests]
           /\ \A t \in Slots \ {s} : req'[t] = req[t]
           /\ req'[s].pc \in {"answered", "idle"}
           /\ req'[s].mine => req[s].mine /\ req'[s].job = req[s].job
           /\ req'[s].op \in {req[s].op, "none"}
<1>1. req[s] \in Requests
  OBVIOUS
<1>2. Idle \in Requests /\ Idle.pc = "idle" /\ ~Idle.mine /\ Idle.op = "none"
  BY DEF Idle, Requests, Answers, Statuses
<1>3. [req[s] EXCEPT !.pc = "answered", !.answer = a] \in Requests
  BY <1>1 DEF Requests
<1>4. Answered(req[s], a) \in {Idle, [req[s] EXCEPT !.pc = "answered", !.answer = a]}
  BY DEF Answered
<1>5. req' = [req EXCEPT ![s] = Answered(req[s], a)]
  BY DEF Answer
<1>6. req'[s] = Answered(req[s], a) /\ \A t \in Slots \ {s} : req'[t] = req[t]
  BY <1>5
<1>7. Answered(req[s], a) \in Requests
  BY <1>2, <1>3, <1>4
<1>8. req' \in [Slots -> Requests]
  BY <1>5, <1>7
<1>9. LET r == [req[s] EXCEPT !.pc = "answered", !.answer = a]
      IN  r.pc = "answered" /\ r.mine = req[s].mine /\ r.job = req[s].job /\ r.op = req[s].op
  BY <1>1 DEF Requests
<1>. QED
  BY <1>2, <1>4, <1>6, <1>8, <1>9

\* Moving a handler on keeps everything but its place.
LEMMA MovesOn ==
    ASSUME req \in [Slots -> Requests], NEW s \in Slots,
           NEW label \in {"flag", "sending", "popping"}, At(s, label)
    PROVE  /\ req' \in [Slots -> Requests]
           /\ \A t \in Slots \ {s} : req'[t] = req[t]
           /\ req'[s].pc = label
           /\ req'[s].mine = req[s].mine /\ req'[s].job = req[s].job /\ req'[s].op = req[s].op
BY DEF At, Requests

\* What a handler that was answered may rely on, and the others go on relying on.
LEMMA AnsweredKnows ==
    ASSUME ServerInv, NEW s \in Slots, NEW a \in Answers, Answer(s, a),
           \A j \in Jobs : wk'[j] = wk[j]
    PROVE  HandlersKnow' /\ req' \in [Slots -> Requests]
<1>1. /\ req' \in [Slots -> Requests]
      /\ \A t \in Slots \ {s} : req'[t] = req[t]
      /\ req'[s].pc \in {"answered", "idle"}
      /\ req'[s].mine => req[s].mine /\ req'[s].job = req[s].job
      /\ req'[s].op \in {req[s].op, "none"}
  BY AnswerEnds DEF ServerInv, ServerTypeOK
<1>. QED
  BY <1>1 DEF ServerInv, HandlersKnow

---------------------------------------------------------------------------
(* The worker                                                                *)
Entries == [Jobs -> [status : Statuses, cancelled : BOOLEAN]]
Directories == [Jobs -> SUBSET Contents]
Threads == [Jobs -> ThreadStates]

\* A thread that is past the start of its job changes its own entry, directory
\* and place only: what it must leave behind for the invariant to hold.
LEMMA ThreadKeeps ==
    ASSUME ServerInv, NEW j \in Jobs, UNCHANGED <<sweep, cookie, req, faults>>,
           jobs' \in Entries, dir' \in Directories, wk' \in Threads,
           \A k \in Jobs \ {j} : jobs'[k] = jobs[k] /\ dir'[k] = dir[k] /\ wk'[k] = wk[k],
           wk[j] \notin {"none", "saving", "done"},
           wk'[j] \notin {"none", "saving"},
           wk'[j] \in {"parse", "ready", "export", "commit"} =>
               jobs'[j].status = "running" /\ "files" \in dir'[j] /\ Working(j),
           wk'[j] = "commit" => "book" \in dir'[j],
           jobs'[j].status = "complete" => wk'[j] = "done" /\ (dir'[j] = Gone \/ "book" \in dir'[j])
    PROVE  ServerInv'
<1>1. ServerTypeOK'
  BY DEF ServerInv, ServerTypeOK, Entries, Directories, Threads
<1>3. EntryFollowsWorker' /\ DirFollowsWorker' /\ ResultIsReal'
  BY DEF ServerInv, EntryFollowsWorker, DirFollowsWorker, ResultIsReal
<1>4. WorkerKeepsItsFiles'
  BY DEF ServerInv, WorkerKeepsItsFiles, Working
<1>5. SweepsOrphans'
  BY DEF ServerInv, ServerTypeOK, SweepsOrphans, Working
<1>6. HandlersKnow'
  BY DEF ServerInv, HandlersKnow
<1>. QED
  BY <1>1, <1>3, <1>4, <1>5, <1>6 DEF ServerInv

LEMMA RunJobKeeps ==
    ASSUME ServerInv, NEW j \in Jobs, RunJob(j)
    PROVE  ServerInv'
<1>1. /\ jobs \in Entries /\ dir \in Directories /\ wk \in Threads
      /\ UNCHANGED <<sweep, cookie, req, faults>>
  BY DEF ServerInv, ServerTypeOK, RunJob, Entries, Directories, Threads
<1>2. /\ wk[j] \in {"parse", "ready", "export", "commit"} => jobs[j].status = "running"
      /\ jobs[j].status = "complete" => wk[j] = "done"
      /\ Working(j) => "files" \in dir[j]
      /\ wk[j] = "commit" => "book" \in dir[j]
  BY DEF ServerInv, EntryFollowsWorker, DirFollowsWorker, WorkerKeepsItsFiles
<1>3. ASSUME NEW w \in ThreadStates, ToState(j, w)
      PROVE  wk' \in Threads /\ wk'[j] = w /\ \A k \in Jobs \ {j} : wk'[k] = wk[k]
  BY <1>1, <1>3 DEF ToState, Threads
<1>4. ASSUME NEW status \in Statuses, SetStatus(j, status)
      PROVE  jobs' \in Entries /\ jobs'[j].status = status /\ \A k \in Jobs \ {j} : jobs'[k] = jobs[k]
  BY <1>1, <1>4 DEF SetStatus, Entries
<1>5. CASE Parse(j)
  BY <1>1, <1>2, <1>3, <1>5, ThreadKeeps DEF Parse, ThreadStates, Working
<1>6. CASE LastCheck(j)
  BY <1>1, <1>2, <1>3, <1>6, ThreadKeeps DEF LastCheck, ThreadStates, Working
<1>7. CASE Export(j)
  <2>1. dir' \in Directories /\ "files" \in dir'[j] /\ \A k \in Jobs \ {j} : dir'[k] = dir[k]
    BY <1>1, <1>2, <1>7 DEF Export, Directories, Contents, Working
  <2>2. wk'[j] = "commit" => "book" \in dir'[j]
    BY <1>1, <1>7, <1>3 DEF Export, Directories, ThreadStates
  <2>. QED
    BY <1>1, <1>2, <1>3, <1>7, <2>1, <2>2, ThreadKeeps DEF Export, ThreadStates, Working
<1>8. CASE Commit(j)
  BY <1>1, <1>2, <1>3, <1>4, <1>8, ThreadKeeps DEF Commit, ThreadStates, Statuses, Terminal
<1>9. CASE RecordError(j)
  BY <1>1, <1>2, <1>3, <1>4, <1>9, ThreadKeeps DEF RecordError, ThreadStates, Statuses, Terminal
<1>10. CASE PurgeFiles(j)
  <2>1. dir' \in Directories /\ dir'[j] = Gone /\ \A k \in Jobs \ {j} : dir'[k] = dir[k]
    BY <1>1, <1>10 DEF PurgeFiles, Purge, Directories, Contents, Gone
  <2>2. jobs[j].status # "complete"
    BY <1>2, <1>10 DEF PurgeFiles
  <2>3. wk' \in Threads /\ wk'[j] \in {"done", "mark"} /\ \A k \in Jobs \ {j} : wk'[k] = wk[k]
    BY <1>3, <1>10 DEF PurgeFiles, ThreadStates
  <2>. QED
    BY <1>1, <1>10, <2>1, <2>2, <2>3, ThreadKeeps DEF PurgeFiles
<1>11. CASE MarkCancelled(j)
  BY <1>1, <1>2, <1>3, <1>4, <1>11, ThreadKeeps DEF MarkCancelled, ThreadStates, Statuses, Terminal
<1>. QED
  BY <1>5, <1>6, <1>7, <1>8, <1>9, <1>10, <1>11 DEF RunJob

---------------------------------------------------------------------------
(* The sweeper and the restart                                               *)
LEMMA SweepKeeps ==
    ASSUME ServerInv, (\E j \in Jobs : SweepRead(j)) \/ SweepRemove
    PROVE  ServerInv'
<1>1. CASE \E j \in Jobs : SweepRead(j)
  BY <1>1 DEF SweepRead, Swept, ServerInv, ServerTypeOK, EntryFollowsWorker, DirFollowsWorker,
              SweepsOrphans, HandlersKnow, WorkerKeepsItsFiles, ResultIsReal, Working
<1>2. CASE SweepRemove
  <2>1. /\ sweep \in Jobs /\ ~Working(sweep) /\ wk[sweep] # "none"
        /\ dir' = [dir EXCEPT ![sweep] = Gone]
        /\ dir' \in [Jobs -> SUBSET Contents]
        /\ dir'[sweep] = Gone /\ \A k \in Jobs \ {sweep} : dir'[k] = dir[k]
    BY <1>2 DEF SweepRemove, Purge, ServerInv, ServerTypeOK, SweepsOrphans, Gone
  <2>2. ServerTypeOK' /\ SweepsOrphans' /\ HandlersKnow' /\ EntryFollowsWorker'
    BY <1>2, <2>1 DEF SweepRemove, ServerInv, ServerTypeOK, SweepsOrphans, HandlersKnow, EntryFollowsWorker
  <2>3. DirFollowsWorker' /\ WorkerKeepsItsFiles' /\ ResultIsReal'
    BY <1>2, <2>1 DEF SweepRemove, ServerInv, DirFollowsWorker, WorkerKeepsItsFiles, ResultIsReal, Working
  <2>. QED
    BY <2>2, <2>3 DEF ServerInv
<1>. QED
  BY <1>1, <1>2

LEMMA RestartKeeps ==
    ASSUME ServerInv, Restart
    PROVE  ServerInv'
<1>1. /\ jobs' = [j \in Jobs |-> NoEntry] /\ sweep' = NoJob /\ dir' = dir
      /\ wk' = [j \in Jobs |-> IF wk[j] = "none" THEN "none" ELSE "done"]
      /\ cookie' \in {cookie, NoJob} /\ faults > 0 /\ faults' = faults - 1
  BY DEF Restart
<1>2. ASSUME NEW s \in Slots
      PROVE  /\ req'[s] \in Requests /\ req'[s].pc \in {"idle", "answered"}
             /\ req'[s].mine => req'[s].job \in Jobs
             /\ req'[s].op = "process" => s = "process"
  <2>1. req[s] \in Requests
    BY DEF ServerInv, ServerTypeOK
  <2>2. \/ req'[s] = req[s] /\ req[s].pc \in {"idle", "answered"}
        \/ req'[s] \in {Idle, [req[s] EXCEPT !.pc = "answered", !.answer = "failed"]}
    BY DEF Restart, Answered
  <2>3. Idle \in Requests /\ Idle.pc = "idle" /\ ~Idle.mine /\ Idle.op = "none"
    BY DEF Idle, Requests, Answers
  <2>4. LET r == [req[s] EXCEPT !.pc = "answered", !.answer = "failed"]
        IN  r \in Requests /\ r.pc = "answered" /\ r.mine = req[s].mine /\ r.job = req[s].job
            /\ r.op = req[s].op
    BY <2>1 DEF Requests, Answers
  <2>5. (req[s].mine => req[s].job \in Jobs) /\ (req[s].op = "process" => s = "process")
    BY DEF ServerInv, HandlersKnow
  <2>. QED
    BY <2>1, <2>2, <2>3, <2>4, <2>5
<1>3. req' \in [Slots -> Requests]
  <2>1. req' = [s \in Slots |-> req'[s]]
    BY DEF Restart
  <2>. QED
    BY <1>2, <2>1
<1>4. ServerTypeOK'
  BY <1>1, <1>3, WebJobsConstants DEF ServerInv, ServerTypeOK, NoEntry, Statuses, ThreadStates
<1>5. HandlersKnow'
  BY <1>2 DEF HandlersKnow
<1>6. EntryFollowsWorker' /\ DirFollowsWorker' /\ WorkerKeepsItsFiles' /\ ResultIsReal'
  BY <1>1 DEF ServerInv, EntryFollowsWorker, DirFollowsWorker, WorkerKeepsItsFiles, ResultIsReal,
              NoEntry, Working
<1>7. SweepsOrphans'
  BY <1>1 DEF SweepsOrphans
<1>. QED
  BY <1>4, <1>5, <1>6, <1>7 DEF ServerInv

---------------------------------------------------------------------------
(* The handlers                                                              *)
\* A step that leaves the table, the directories and the threads alone.
LEMMA TablesStay ==
    ASSUME ServerInv, UNCHANGED <<jobs, dir, wk, sweep>>, HandlersKnow',
           req' \in [Slots -> Requests], cookie' \in Jobs \cup {NoJob}, faults' \in 0..MaxFaults
    PROVE  ServerInv'
BY DEF ServerInv, ServerTypeOK, EntryFollowsWorker, DirFollowsWorker, SweepsOrphans,
       WorkerKeepsItsFiles, ResultIsReal, Working

LEMMA ReadersKeep ==
    ASSUME ServerInv, NEW s \in Slots, Status(s) \/ CancelRead(s) \/ Download(s)
    PROVE  ServerInv'
<1>1. /\ UNCHANGED <<jobs, dir, wk, sweep, cookie, faults>>
      /\ cookie \in Jobs \cup {NoJob} /\ faults \in 0..MaxFaults
      /\ req \in [Slots -> Requests]
  BY DEF Status, CancelRead, Download, ServerInv, ServerTypeOK
<1>2. Visible(s) =>
        /\ req[s].job \in Jobs
        /\ jobs[req[s].job].status \in Statuses
        /\ wk[req[s].job] \notin {"none", "saving"}
        /\ jobs[req[s].job].status = "complete" => wk[req[s].job] = "done"
  BY DEF Visible, ServerInv, ServerTypeOK, HandlersKnow, EntryFollowsWorker
<1>3. CASE \E a \in Answers : Answer(s, a)
  BY <1>1, <1>3, AnsweredKnows, TablesStay
<1>4. CASE At(s, "flag") /\ Visible(s)
  <2>1. HandlersKnow'
    BY <1>1, <1>2, <1>4, MovesOn DEF ServerInv, HandlersKnow
  <2>. QED
    BY <1>1, <1>4, <2>1, MovesOn, TablesStay
<1>5. CASE At(s, "sending") /\ Visible(s) /\ jobs[req[s].job].status = "complete"
  <2>1. HandlersKnow'
    BY <1>1, <1>2, <1>5, MovesOn DEF ServerInv, HandlersKnow
  <2>. QED
    BY <1>1, <1>5, <2>1, MovesOn, TablesStay
<1>6. CASE Status(s)
  BY <1>2, <1>3, <1>6 DEF Status, Answers
<1>7. CASE CancelRead(s)
  BY <1>2, <1>3, <1>4, <1>7 DEF CancelRead, Answers
<1>8. CASE Download(s)
  BY <1>3, <1>5, <1>8 DEF Download, Answers
<1>. QED
  BY <1>6, <1>7, <1>8

LEMMA AdmitKeeps ==
    ASSUME ServerInv, NEW s \in Slots, Admit(s)
    PROVE  ServerInv'
<1>1. UNCHANGED <<jobs, sweep, cookie, faults>> /\ req \in [Slots -> Requests]
  BY DEF Admit, ServerInv, ServerTypeOK
<1>2. CASE Answer(s, "refused") /\ UNCHANGED <<dir, wk>>
  BY <1>1, <1>2, AnsweredKnows, TablesStay DEF Answers, ServerInv, ServerTypeOK
<1>3. CASE ~(Answer(s, "refused") /\ UNCHANGED <<dir, wk>>)
  <2>1. PICK j \in Jobs :
          /\ wk[j] = "none" /\ s = "process"
          /\ dir' = [dir EXCEPT ![j] = {"files"}]
          /\ wk' = [wk EXCEPT ![j] = "saving"]
          /\ req' = [req EXCEPT ![s] = [req[s] EXCEPT !.pc = "saving", !.job = j]]
    <3>1. PICK j \in Unused : j = CHOOSE k \in Unused : TRUE
      BY <1>3 DEF Admit
    <3>. QED
      BY <1>3, <3>1 DEF Admit, Unused, Arrived, ServerInv, HandlersKnow, ToState
  <2>2. /\ dir' \in [Jobs -> SUBSET Contents] /\ wk' \in [Jobs -> ThreadStates]
        /\ dir'[j] = {"files"} /\ wk'[j] = "saving"
        /\ \A k \in Jobs \ {j} : dir'[k] = dir[k] /\ wk'[k] = wk[k]
        /\ jobs[j].status = "none"
    BY <2>1 DEF ServerInv, ServerTypeOK, EntryFollowsWorker, Contents, ThreadStates
  <2>3. /\ req' \in [Slots -> Requests] /\ \A t \in Slots \ {s} : req'[t] = req[t]
        /\ req'[s].pc = "saving" /\ req'[s].job = j
    <3>1. [req[s] EXCEPT !.pc = "saving", !.job = j] \in Requests
      BY <1>1 DEF Requests
    <3>2. LET r == [req[s] EXCEPT !.pc = "saving", !.job = j] IN r.pc = "saving" /\ r.job = j
      BY <1>1 DEF Requests
    <3>. QED
      BY <1>1, <2>1, <3>1, <3>2
  <2>4. ServerTypeOK' /\ EntryFollowsWorker' /\ DirFollowsWorker' /\ SweepsOrphans'
    BY <1>1, <2>1, <2>2, <2>3
       DEF ServerInv, ServerTypeOK, EntryFollowsWorker, DirFollowsWorker, SweepsOrphans, Working
  <2>5. WorkerKeepsItsFiles' /\ ResultIsReal'
    BY <1>1, <2>1, <2>2 DEF ServerInv, WorkerKeepsItsFiles, ResultIsReal, Working
  <2>6. HandlersKnow'
    BY <1>1, <2>1, <2>2, <2>3 DEF ServerInv, HandlersKnow
  <2>. QED
    BY <2>4, <2>5, <2>6 DEF ServerInv
<1>. QED
  BY <1>2, <1>3 DEF Admit

LEMMA StartKeeps ==
    ASSUME ServerInv, NEW s \in Slots, Start(s)
    PROVE  ServerInv'
<1>1. PICK j \in Jobs :
        /\ j = req[s].job /\ wk[j] = "saving" /\ jobs[j].status = "none" /\ "files" \in dir[j]
        /\ s = "process" /\ req[s].pc = "saving"
  BY DEF Start, ServerInv, HandlersKnow, EntryFollowsWorker, WorkerKeepsItsFiles, Working
<1>2. /\ UNCHANGED <<dir, sweep, cookie, faults>> /\ req \in [Slots -> Requests]
      /\ jobs' \in Entries /\ wk' \in Threads
      /\ \A k \in Jobs \ {j} : jobs'[k] = jobs[k] /\ wk'[k] = wk[k]
      /\ \/ jobs'[j].status = "running" /\ wk'[j] = "parse"
         \/ jobs'[j].status = "none" /\ wk'[j] = "done"
  <2>1. /\ jobs \in Entries /\ wk \in Threads /\ req \in [Slots -> Requests]
        /\ UNCHANGED <<dir, sweep, cookie, faults>>
    BY DEF Start, ServerInv, ServerTypeOK, Entries, Threads
  <2>2. \A w \in ThreadStates : ToState(j, w) =>
          wk' \in Threads /\ wk'[j] = w /\ \A k \in Jobs \ {j} : wk'[k] = wk[k]
    BY <2>1 DEF ToState, Threads
  <2>3. CASE /\ jobs' = [jobs EXCEPT ![j] = [status |-> "running", cancelled |-> FALSE]]
             /\ ToState(j, "parse")
    BY <2>1, <2>2, <2>3 DEF Entries, Statuses, ThreadStates
  <2>4. CASE UNCHANGED jobs /\ ToState(j, "done")
    BY <1>1, <2>1, <2>2, <2>4 DEF ThreadStates
  <2>. QED
    BY <1>1, <2>3, <2>4, <2>1 DEF Start
<1>3. PICK a \in Answers : Answer(s, a)
  BY DEF Start, Answers
<1>4. /\ req' \in [Slots -> Requests] /\ \A t \in Slots \ {s} : req'[t] = req[t]
      /\ req'[s].pc \in {"answered", "idle"}
      /\ req'[s].mine => req[s].mine /\ req'[s].job = req[s].job
      /\ req'[s].op \in {req[s].op, "none"}
  BY <1>2, <1>3, AnswerEnds
<1>5. ServerTypeOK' /\ EntryFollowsWorker' /\ DirFollowsWorker' /\ SweepsOrphans'
  BY <1>1, <1>2, <1>4
     DEF ServerInv, ServerTypeOK, Entries, Threads, EntryFollowsWorker, DirFollowsWorker, SweepsOrphans, Working
<1>6. WorkerKeepsItsFiles' /\ ResultIsReal'
  BY <1>1, <1>2 DEF ServerInv, WorkerKeepsItsFiles, ResultIsReal, Working
<1>7. HandlersKnow'
  BY <1>1, <1>2, <1>4 DEF ServerInv, HandlersKnow
<1>. QED
  BY <1>5, <1>6, <1>7 DEF ServerInv

LEMMA FlagKeeps ==
    ASSUME ServerInv, NEW s \in Slots, CancelFlag(s)
    PROVE  ServerInv'
<1>1. PICK j \in Jobs :
        /\ j = req[s].job /\ wk[j] \notin {"none", "saving"}
        /\ jobs' = [jobs EXCEPT ![j] =
              [status |-> IF jobs[j].status = "none" THEN "unknown" ELSE jobs[j].status,
               cancelled |-> TRUE]]
  BY DEF CancelFlag, ServerInv, HandlersKnow
<1>2. /\ jobs' \in [Jobs -> [status : Statuses, cancelled : BOOLEAN]]
      /\ jobs'[j].status = IF jobs[j].status = "none" THEN "unknown" ELSE jobs[j].status
      /\ \A k \in Jobs \ {j} : jobs'[k] = jobs[k]
  BY <1>1 DEF ServerInv, ServerTypeOK, Statuses
<1>3. UNCHANGED <<dir, wk, sweep, cookie, faults>> /\ Answer(s, "cancelling")
  BY DEF CancelFlag
<1>4. HandlersKnow' /\ req' \in [Slots -> Requests]
  BY <1>3, AnsweredKnows DEF Answers
<1>5. ServerTypeOK' /\ EntryFollowsWorker'
  BY <1>1, <1>2, <1>3, <1>4 DEF ServerInv, ServerTypeOK, EntryFollowsWorker
<1>6. DirFollowsWorker' /\ SweepsOrphans' /\ WorkerKeepsItsFiles' /\ ResultIsReal'
  BY <1>2, <1>3
     DEF ServerInv, DirFollowsWorker, SweepsOrphans, WorkerKeepsItsFiles, ResultIsReal, Working
<1>. QED
  BY <1>4, <1>5, <1>6 DEF ServerInv

LEMMA DownloadEndKeeps ==
    ASSUME ServerInv, NEW s \in Slots, DownloadClose(s) \/ DownloadPop(s)
    PROVE  ServerInv'
<1>1. PICK j \in Jobs : j = req[s].job /\ wk[j] = "done"
  BY DEF DownloadClose, DownloadPop, ServerInv, HandlersKnow
<1>2. UNCHANGED <<wk, sweep, cookie, faults>> /\ req \in [Slots -> Requests]
  BY DEF DownloadClose, DownloadPop, ServerInv, ServerTypeOK
<1>3. CASE DownloadClose(s)
  <2>1. /\ UNCHANGED jobs /\ dir' \in [Jobs -> SUBSET Contents]
        /\ dir'[j] = Gone /\ \A k \in Jobs \ {j} : dir'[k] = dir[k]
    BY <1>1, <1>3 DEF DownloadClose, Purge, Gone, ServerInv, ServerTypeOK
  <2>2. /\ req' \in [Slots -> Requests] /\ \A t \in Slots \ {s} : req'[t] = req[t]
        /\ req'[s].pc = "popping"
        /\ req'[s].mine = req[s].mine /\ req'[s].job = req[s].job /\ req'[s].op = req[s].op
    BY <1>2, <1>3, MovesOn DEF DownloadClose
  <2>3. HandlersKnow'
    BY <1>1, <1>2, <2>2 DEF ServerInv, HandlersKnow
  <2>4. ServerTypeOK' /\ EntryFollowsWorker' /\ DirFollowsWorker' /\ SweepsOrphans'
    BY <1>1, <1>2, <2>1, <2>2
       DEF ServerInv, ServerTypeOK, EntryFollowsWorker, DirFollowsWorker, SweepsOrphans, Working
  <2>5. WorkerKeepsItsFiles' /\ ResultIsReal'
    BY <1>1, <1>2, <2>1 DEF ServerInv, WorkerKeepsItsFiles, ResultIsReal, Working
  <2>. QED
    BY <2>3, <2>4, <2>5 DEF ServerInv
<1>4. CASE DownloadPop(s)
  <2>1. /\ UNCHANGED dir /\ jobs' \in [Jobs -> [status : Statuses, cancelled : BOOLEAN]]
        /\ jobs'[j].status = "none" /\ \A k \in Jobs \ {j} : jobs'[k] = jobs[k]
    BY <1>1, <1>4 DEF DownloadPop, NoEntry, Statuses, ServerInv, ServerTypeOK
  <2>2. HandlersKnow' /\ req' \in [Slots -> Requests]
    BY <1>2, <1>4, AnsweredKnows DEF DownloadPop, Answers
  <2>3. ServerTypeOK' /\ EntryFollowsWorker' /\ DirFollowsWorker' /\ SweepsOrphans'
    BY <1>1, <1>2, <2>1, <2>2
       DEF ServerInv, ServerTypeOK, EntryFollowsWorker, DirFollowsWorker, SweepsOrphans, Working
  <2>4. WorkerKeepsItsFiles' /\ ResultIsReal'
    BY <1>1, <1>2, <2>1 DEF ServerInv, WorkerKeepsItsFiles, ResultIsReal, Working
  <2>. QED
    BY <2>2, <2>3, <2>4 DEF ServerInv
<1>. QED
  BY <1>3, <1>4

LEMMA HandleKeeps ==
    ASSUME ServerInv, NEW s \in Slots, Handle(s)
    PROVE  ServerInv'
BY AdmitKeeps, StartKeeps, ReadersKeep, FlagKeeps, DownloadEndKeeps DEF Handle

---------------------------------------------------------------------------
(* The page                                                                  *)
LEMMA SendKeeps ==
    ASSUME ServerInv, NEW s \in Slots, NEW j \in Jobs \cup {NoJob},
           NEW op \in {"process", "status", "reconnect", "cancel", "download"},
           op = "process" => s = "process", Send(s, op, j)
    PROVE  ServerInv'
<1>1. Request(op, j) \in Requests /\ Request(op, j).pc = "sent" /\ Request(op, j).op = op
      /\ Request(op, j).job = j /\ (Request(op, j).mine => j \in Jobs)
  BY DEF Request, Requests, Answers, ServerInv, ServerTypeOK
<1>2. /\ req' \in [Slots -> Requests] /\ req'[s] = Request(op, j)
      /\ \A t \in Slots \ {s} : req'[t] = req[t]
      /\ UNCHANGED <<jobs, dir, wk, sweep, cookie, faults>>
  BY <1>1 DEF Send, ServerInv, ServerTypeOK
<1>3. HandlersKnow'
  BY <1>1, <1>2 DEF ServerInv, HandlersKnow
<1>. QED
  BY <1>2, <1>3, TablesStay DEF ServerInv, ServerTypeOK

LEMMA ServerStutters ==
    ASSUME ServerInv, UNCHANGED serverVars
    PROVE  ServerInv'
<1>1. HandlersKnow'
  BY DEF serverVars, ServerInv, HandlersKnow
<1>. QED
  BY <1>1, TablesStay DEF serverVars, ServerInv, ServerTypeOK

LEMMA NoFailures == 0 \in 0..MAX_POLL_FAILURES /\ MAX_POLL_FAILURES \in 0..MAX_POLL_FAILURES
BY WebPageConstants

LEMMA ReloadKeeps ==
    ASSUME IInv, Reload
    PROVE  IInv'
<1>1. /\ page' \in Pages
      /\ UNCHANGED <<jobs, dir, wk, sweep, cookie, faults>>
      /\ cookie \in Jobs \cup {NoJob} /\ faults \in 0..MaxFaults
  <2>1. UNCHANGED <<jobs, dir, wk, sweep, cookie, faults>> /\ page' = [Blank EXCEPT !.job = cookie]
    BY DEF Reload
  <2>2. cookie \in Jobs \cup {NoJob} /\ faults \in 0..MaxFaults
    BY DEF IInv, ServerInv, ServerTypeOK
  <2>. QED
    BY <2>1, <2>2, NoFailures DEF Blank, Pages
<1>2. ASSUME NEW t \in Slots
      PROVE  /\ req'[t] \in Requests
             /\ \/ req'[t].pc = req[t].pc /\ req'[t].job = req[t].job
                \/ req'[t].pc \in {"idle", "sent"}
             /\ req'[t].mine => req'[t].job \in Jobs
             /\ req'[t].op = "process" => req[t].op = "process"
  <2>1. req[t] \in Requests /\ (req[t].mine => req[t].job \in Jobs)
    BY DEF IInv, ServerInv, ServerTypeOK, HandlersKnow
  <2>2. req'[t] \in {Request("reconnect", cookie), Idle, [req[t] EXCEPT !.live = FALSE]}
    BY DEF Reload, Abandoned
  <2>3. LET r == Request("reconnect", cookie)
        IN  r \in Requests /\ r.pc = "sent" /\ r.op = "reconnect" /\ (r.mine => r.job \in Jobs)
    BY <1>1 DEF Request, Requests, Answers
  <2>4. Idle \in Requests /\ Idle.pc = "idle" /\ ~Idle.mine /\ Idle.op = "none"
    BY DEF Idle, Requests, Answers
  <2>5. LET r == [req[t] EXCEPT !.live = FALSE]
        IN  r \in Requests /\ r.pc = req[t].pc /\ r.job = req[t].job /\ r.op = req[t].op
            /\ r.mine = req[t].mine
    BY <2>1 DEF Requests
  <2>. QED
    BY <2>1, <2>2, <2>3, <2>4, <2>5
<1>3. req' \in [Slots -> Requests]
  <2>1. req' = [t \in Slots |-> req'[t]]
    BY DEF Reload
  <2>. QED
    BY <1>2, <2>1
<1>4. HandlersKnow'
  BY <1>1, <1>2 DEF IInv, ServerInv, HandlersKnow
<1>5. ServerInv'
  BY <1>1, <1>3, <1>4, TablesStay DEF IInv
<1>. QED
  BY <1>1, <1>5 DEF IInv, TypeOK, ServerInv

\* The continuation of a fetch, when its answer has been consumed.
LEMMA ConsumeKeeps ==
    ASSUME ServerInv, NEW s \in Slots, Consume(s), UNCHANGED <<jobs, dir, wk, sweep, faults>>,
           cookie' \in Jobs \cup {NoJob}
    PROVE  ServerInv'
<1>1. Idle \in Requests /\ Idle.pc = "idle" /\ ~Idle.mine /\ Idle.op = "none"
  BY DEF Idle, Requests, Answers
<1>2. /\ req' \in [Slots -> Requests] /\ req'[s] = Idle
      /\ \A t \in Slots \ {s} : req'[t] = req[t]
  BY <1>1 DEF Consume, ServerInv, ServerTypeOK
<1>3. HandlersKnow'
  BY <1>1, <1>2 DEF ServerInv, HandlersKnow
<1>. QED
  BY <1>2, <1>3, TablesStay DEF ServerInv, ServerTypeOK

\* Every continuation leaves a page that can be shown.
LEMMA PolledIsPage ==
    ASSUME NEW p \in Pages, NEW j \in Jobs \cup {NoJob}, NEW answer
    PROVE  Polled(p, j, answer) \in Pages
<1>1. ASSUME NEW q \in Pages
      PROVE  /\ ShowError(q) \in Pages /\ ShowSuccess(q, j) \in Pages /\ Fresh(q) \in Pages
             /\ [q EXCEPT !.failures = 0] \in Pages /\ [q EXCEPT !.timer = Off] \in Pages
             /\ [q EXCEPT !.failures = MAX_POLL_FAILURES] \in Pages
  BY NoFailures DEF ShowError, ShowSuccess, Fresh, Pages
<1>2. PollFailed(p) \in Pages
  <2>1. p.failures \in 0..MAX_POLL_FAILURES
    BY DEF Pages
  <2>2. CASE p.failures + 1 >= MAX_POLL_FAILURES
    BY <1>1, <2>2 DEF PollFailed
  <2>3. CASE ~(p.failures + 1 >= MAX_POLL_FAILURES)
    <3>1. p.failures + 1 \in 0..MAX_POLL_FAILURES
      BY <2>1, <2>3, WebPageConstants
    <3>2. [p EXCEPT !.failures = p.failures + 1] \in Pages
      BY <3>1 DEF Pages
    <3>. QED
      BY <2>3, <3>2 DEF PollFailed
  <2>. QED
    BY <2>2, <2>3
<1>. QED
  BY <1>1, <1>2 DEF Polled

LEMMA HearKeeps ==
    ASSUME IInv, NEW s \in Slots, Hear(s)
    PROVE  IInv'
<1>1. /\ page \in Pages /\ req[s] \in Requests /\ req[s].job \in Jobs \cup {NoJob}
      /\ page.job \in Jobs \cup {NoJob} /\ cookie \in Jobs \cup {NoJob}
  BY DEF IInv, TypeOK, ServerTypeOK, Requests, Pages
<1>2. page' \in Pages
  <2>1. CASE OnProcess(s)
    BY <1>1, <2>1 DEF OnProcess, StartPolling, ShowError, Pages
  <2>2. CASE OnStatus(s)
    BY <1>1, <2>2, PolledIsPage DEF OnStatus
  <2>3. CASE OnReconnect(s)
    BY <1>1, <2>3 DEF OnReconnect, ShowSuccess, StartPolling, Pages
  <2>4. CASE OnCancel(s)
    BY <1>1, <2>4 DEF OnCancel, Pages
  <2>. QED
    BY <2>1, <2>2, <2>3, <2>4 DEF Hear
<1>3. /\ Consume(s) /\ UNCHANGED <<jobs, dir, wk, sweep, faults>>
      /\ cookie' \in Jobs \cup {NoJob}
  BY <1>1 DEF Hear, OnProcess, OnStatus, OnReconnect, OnCancel
<1>. QED
  BY <1>2, <1>3, ConsumeKeeps DEF IInv, TypeOK, ServerInv

LEMMA UserKeeps ==
    ASSUME IInv, Submit \/ Cancel \/ Reset \/ (\E s \in Downloads : ClickDownload(s))
                 \/ (\E s \in Polls : Tick(s))
    PROVE  IInv'
<1>1. page \in Pages /\ {"process", "cancel"} \cup Polls \cup Downloads \subseteq Slots
  BY DEF IInv, TypeOK, Slots
<1>2. /\ page.job \in Jobs \cup {NoJob} /\ page.link \in Jobs \cup {NoJob}
      /\ page.timer # Off => page.timer \in Jobs \cup {NoJob}
  BY <1>1 DEF Pages
<1>3. CASE Submit
  <2>1. page' \in Pages
    BY <1>1, <1>3, NoFailures DEF Submit, Pages
  <2>2. ServerInv'
    BY <1>1, <1>3, SendKeeps DEF Submit, IInv
  <2>. QED
    BY <2>1, <2>2 DEF IInv, TypeOK, ServerInv
<1>4. CASE Cancel
  <2>1. page' \in Pages
    BY <1>1, <1>4 DEF Cancel, Pages
  <2>2. ServerInv'
    BY <1>1, <1>2, <1>4, SendKeeps DEF Cancel, IInv
  <2>. QED
    BY <2>1, <2>2 DEF IInv, TypeOK, ServerInv
<1>5. CASE Reset
  <2>1. page' \in Pages
    BY <1>1, <1>5, NoFailures DEF Reset, Fresh, Pages
  <2>2. ServerInv'
    BY <1>5, ServerStutters DEF Reset, IInv
  <2>. QED
    BY <2>1, <2>2 DEF IInv, TypeOK, ServerInv
<1>6. ASSUME NEW s \in Downloads, ClickDownload(s) PROVE IInv'
  BY <1>1, <1>2, <1>6, SendKeeps DEF ClickDownload, IInv, TypeOK, ServerInv
<1>7. ASSUME NEW s \in Polls, Tick(s) PROVE IInv'
  BY <1>1, <1>2, <1>7, SendKeeps DEF Tick, IInv, TypeOK, ServerInv
<1>. QED
  BY <1>3, <1>4, <1>5, <1>6, <1>7

LEMMA LoseKeeps ==
    ASSUME IInv, NEW s \in Slots, Lose(s)
    PROVE  IInv'
<1>1. /\ UNCHANGED <<jobs, dir, wk, sweep, cookie, page>> /\ Answer(s, "failed")
      /\ faults' \in 0..MaxFaults
  BY WebJobsConstants DEF Lose, IInv, TypeOK, ServerTypeOK
<1>. QED
  BY <1>1, AnsweredKnows, TablesStay DEF IInv, TypeOK, ServerInv, ServerTypeOK, Answers

---------------------------------------------------------------------------
(* The invariant is inductive.                                               *)
LEMMA InitIInv == Init => IInv
<1>1. SUFFICES ASSUME Init PROVE IInv
  OBVIOUS
<1>2. TypeOK
  <2>1. ServerTypeOK
    BY <1>1, WebJobsConstants
       DEF Init, ServerInit, ServerTypeOK, NoEntry, Statuses, Gone, ThreadStates, Idle, Requests, Answers
  <2>2. page \in Pages
    BY <1>1, NoFailures DEF Init, Blank, Pages
  <2>. QED
    BY <2>1, <2>2 DEF TypeOK
<1>3. EntryFollowsWorker /\ DirFollowsWorker /\ SweepsOrphans
  BY <1>1 DEF Init, ServerInit, NoEntry, Gone, EntryFollowsWorker, DirFollowsWorker, SweepsOrphans
<1>4. HandlersKnow
  BY <1>1 DEF Init, ServerInit, Idle, HandlersKnow
<1>5. WorkerKeepsItsFiles /\ ResultIsReal
  BY <1>1 DEF Init, ServerInit, NoEntry, WorkerKeepsItsFiles, Working, ResultIsReal
<1>. QED
  BY <1>2, <1>3, <1>4, <1>5 DEF IInv, ServerInv, TypeOK

LEMMA NextIInv == IInv /\ [Next]_vars => IInv'
<1>1. SUFFICES ASSUME IInv, [Next]_vars PROVE IInv'
  OBVIOUS
<1>2. ServerInv /\ page \in Pages
  BY <1>1 DEF IInv, TypeOK
<1>3. ServerInv' /\ page' \in Pages => IInv'
  BY DEF IInv, TypeOK, ServerInv
<1>4. CASE User \/ \E s \in Polls : Tick(s)
  BY <1>1, <1>4, UserKeeps, ReloadKeeps DEF User
<1>5. ASSUME NEW s \in Slots, Server(Handle(s)) \/ Hear(s) \/ Lose(s) PROVE IInv'
  BY <1>1, <1>2, <1>3, <1>5, HandleKeeps, HearKeeps, LoseKeeps DEF Server
<1>6. ASSUME NEW j \in Jobs, Server(RunJob(j)) \/ Server(SweepRead(j)) PROVE IInv'
  BY <1>2, <1>3, <1>6, RunJobKeeps, SweepKeeps DEF Server
<1>7. CASE Server(SweepRemove) \/ Server(Restart)
  BY <1>2, <1>3, <1>7, SweepKeeps, RestartKeeps DEF Server
<1>8. CASE UNCHANGED vars
  BY <1>2, <1>3, <1>8, ServerStutters DEF vars
<1>. QED
  BY <1>1, <1>4, <1>5, <1>6, <1>7, <1>8 DEF Next

\* The table, the directories, the requests and the page keep their types.
THEOREM TypeCorrect == Spec => []TypeOK
<1>1. IInv => TypeOK
  BY DEF IInv
<1>. QED
  BY <1>1, InitIInv, NextIInv, PTL DEF Spec

\* No sweep, download or purge takes a directory from under the thread that
\* works in it: the sweeper's look at a status is never too old to remove by.
THEOREM DirectoriesAreOwned == Spec => []WorkerKeepsItsFiles
<1>1. IInv => WorkerKeepsItsFiles
  BY DEF IInv, ServerInv
<1>. QED
  BY <1>1, InitIInv, NextIInv, PTL DEF Spec

\* A job that is reported complete has its workbook, until its directory goes.
THEOREM ResultsAreReal == Spec => []ResultIsReal
<1>1. IInv => ResultIsReal
  BY DEF IInv, ServerInv
<1>. QED
  BY <1>1, InitIInv, NextIInv, PTL DEF Spec
===========================================================================
