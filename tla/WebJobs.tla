------------------------------- MODULE WebJobs -------------------------------
(* The container's server (app/web.py): request handlers, one worker thread   *)
(* per job and the orphan sweeper, over the in-memory job table and the job   *)
(* directories.  One browser session makes the requests; a restart kills      *)
(* every thread and forgets the table, the directories stay.                  *)
EXTENDS Integers, FiniteSets

CONSTANTS
    Jobs,          \* the uuids
    Polls,         \* the status fetches the browser may have in flight
    Downloads,     \* and the downloads
    MaxFaults,     \* bound: restarts of the server, and requests and answers lost on the way
    NoJob          \* no job id

ASSUME WebJobsConstants ==
    /\ MaxFaults \in Nat
    /\ NoJob \notin Jobs

VARIABLES
    jobs,      \* _jobs
    dir,       \* what is in each job directory: a subset of Contents
    wk,        \* where the thread that owns a directory is
    sweep,     \* the job whose directory the sweeper is about to remove
    cookie,    \* the job id of the browser's session
    req,       \* the browser's requests
    faults     \* how many may still happen

serverVars == <<jobs, dir, wk, sweep, cookie, req, faults>>

Slots == {"process", "cancel", "reconnect"} \cup Polls \cup Downloads
Terminal == {"complete", "error", "cancelled"}

\* "none": no entry; "unknown": an entry without a status, as /api/status calls it
Statuses == {"none", "unknown", "running"} \cup Terminal
NoEntry == [status |-> "none", cancelled |-> FALSE]

Contents == {"files", "book"}
Gone == {}

\* "saving" is the process request's own thread, before there is a worker
ThreadStates == {"none", "saving", "parse", "ready", "export", "commit", "fail",
                 "purge_failed", "purge_cancelled", "mark", "done"}

Answers == {"none", "404", "refused", "failed", "started", "cancelling"} \cup Statuses
Idle == [pc |-> "idle", op |-> "none", job |-> NoJob, mine |-> FALSE,
         answer |-> "none", live |-> FALSE]

Requests == [pc : {"idle", "sent", "saving", "flag", "sending", "popping", "answered"},
             op : {"none", "process", "status", "reconnect", "cancel", "download"},
             job : Jobs \cup {NoJob}, mine : BOOLEAN, answer : Answers, live : BOOLEAN]

ServerTypeOK ==
    /\ jobs \in [Jobs -> [status : Statuses, cancelled : BOOLEAN]]
    /\ dir \in [Jobs -> SUBSET Contents]
    /\ wk \in [Jobs -> ThreadStates]
    /\ sweep \in Jobs \cup {NoJob}
    /\ cookie \in Jobs \cup {NoJob}
    /\ req \in [Slots -> Requests]
    /\ faults \in 0..MaxFaults

ServerInit ==
    /\ jobs = [j \in Jobs |-> NoEntry]
    /\ dir = [j \in Jobs |-> Gone]
    /\ wk = [j \in Jobs |-> "none"]
    /\ sweep = NoJob
    /\ cookie = NoJob
    /\ req = [s \in Slots |-> Idle]
    /\ faults = MaxFaults

---------------------------------------------------------------------------
(* The worker                                                                *)
SetStatus(j, status) == jobs' = [jobs EXCEPT ![j].status = status]
ToState(j, state) == wk' = [wk EXCEPT ![j] = state]
Purge(j) == dir' = [dir EXCEPT ![j] = Gone]

\* parse_stage and its cancel checks between files
Parse(j) ==
    /\ wk[j] = "parse"
    /\ \/ ToState(j, "ready")
       \/ ToState(j, "fail")
       \/ jobs[j].cancelled /\ ToState(j, "purge_cancelled")
    /\ UNCHANGED <<jobs, dir>>

\* mutant: the flag is looked at between files only
LastCheck_Missing(j) ==
    /\ wk[j] = "ready"
    /\ ToState(j, "export")
    /\ UNCHANGED <<jobs, dir>>

\* the last look at the flag
LastCheck(j) ==
    /\ wk[j] = "ready"
    /\ ToState(j, IF jobs[j].cancelled THEN "purge_cancelled" ELSE "export")
    /\ UNCHANGED <<jobs, dir>>

\* mutant: complete is reported before the workbook is written
Export_Late(j) ==
    /\ wk[j] = "export"
    /\ SetStatus(j, "complete")
    /\ ToState(j, "commit")
    /\ UNCHANGED dir

Export(j) ==
    /\ wk[j] = "export"
    /\ \/ /\ dir[j] # Gone
          /\ dir' = [dir EXCEPT ![j] = @ \cup {"book"}]
          /\ ToState(j, "commit")
       \/ ToState(j, "fail") /\ UNCHANGED dir
    /\ UNCHANGED jobs

Commit(j) ==
    /\ wk[j] = "commit"
    /\ SetStatus(j, "complete")
    /\ ToState(j, "done")
    /\ UNCHANGED dir

\* an error is reported before the files go, a cancellation after
RecordError(j) ==
    /\ wk[j] = "fail"
    /\ SetStatus(j, "error")
    /\ ToState(j, "purge_failed")
    /\ UNCHANGED dir

PurgeFiles(j) ==
    /\ wk[j] \in {"purge_failed", "purge_cancelled"}
    /\ Purge(j)
    /\ ToState(j, IF wk[j] = "purge_failed" THEN "done" ELSE "mark")
    /\ UNCHANGED jobs

MarkCancelled(j) ==
    /\ wk[j] = "mark"
    /\ SetStatus(j, "cancelled")
    /\ ToState(j, "done")
    /\ UNCHANGED dir

RunJob(j) ==
    /\ \/ Parse(j) \/ LastCheck(j) \/ Export(j) \/ Commit(j)
       \/ RecordError(j) \/ PurgeFiles(j) \/ MarkCancelled(j)
    /\ UNCHANGED <<sweep, cookie, req, faults>>

---------------------------------------------------------------------------
(* The sweeper                                                               *)
\* it reads the status first and the directory's age after; a directory without
\* an entry, or whose entry has no status, is an orphan.  Any directory may be
\* older than _ORPHAN_MAX_AGE_HOURS but one whose uploads are being saved: no
\* request takes that long, and nothing writes to an orphan while it is swept.
Swept(j) ==
    /\ sweep = NoJob
    /\ dir[j] # Gone /\ wk[j] # "saving"
    /\ sweep' = j
    /\ UNCHANGED <<jobs, dir, wk, cookie, req, faults>>

\* mutants: whatever the status; directories with an entry only
SweepRead_AnyStatus(j) == Swept(j)
SweepRead_KnownOnly(j) == jobs[j].status \in Terminal /\ Swept(j)

SweepRead(j) == jobs[j].status # "running" /\ Swept(j)

SweepRemove ==
    /\ sweep # NoJob
    /\ Purge(sweep)
    /\ sweep' = NoJob
    /\ UNCHANGED <<jobs, wk, cookie, req, faults>>

---------------------------------------------------------------------------
(* The request handlers                                                      *)
Arrived(s, op) == req[s].pc = "sent" /\ req[s].op = op
At(s, label) == req' = [req EXCEPT ![s].pc = label]

\* nobody waits for the answer of a download or of an abandoned fetch
Answered(r, a) ==
    IF r.live /\ r.op # "download" THEN [r EXCEPT !.pc = "answered", !.answer = a] ELSE Idle
Answer(s, a) == req' = [req EXCEPT ![s] = Answered(@, a)]

\* the session may see this job, and the table knows it
Visible(s) == req[s].mine /\ jobs[req[s].job].status # "none"

Unused == {j \in Jobs : wk[j] = "none"}

\* /api/process: refused by the rate limit or the validation, or a new directory
Admit(s) ==
    /\ Arrived(s, "process")
    /\ \/ Answer(s, "refused") /\ UNCHANGED <<dir, wk>>
       \/ /\ Unused # {}
          /\ LET j == CHOOSE k \in Unused : TRUE
             IN  /\ dir' = [dir EXCEPT ![j] = {"files"}]
                 /\ ToState(j, "saving")
                 /\ req' = [req EXCEPT ![s] = [@ EXCEPT !.pc = "saving", !.job = j]]
    /\ UNCHANGED <<jobs, sweep, cookie, faults>>

\* the uploads are saved, the entry made and the thread started; or a save
\* raises and leaves the directory behind
Start(s) ==
    LET j == req[s].job
    IN  /\ req[s].pc = "saving"
        /\ \/ /\ jobs' = [jobs EXCEPT ![j] = [status |-> "running", cancelled |-> FALSE]]
              /\ ToState(j, "parse")
              /\ Answer(s, "started")
           \/ /\ ToState(j, "done")
              /\ Answer(s, "failed")
              /\ UNCHANGED jobs
        /\ UNCHANGED <<dir, sweep, cookie, faults>>

\* /api/status; without a job id there is no such route, and the answer no JSON
Status(s) ==
    /\ Arrived(s, "status") \/ Arrived(s, "reconnect")
    /\ Answer(s, IF Visible(s) THEN jobs[req[s].job].status
                 ELSE IF req[s].job = NoJob THEN "failed" ELSE "404")
    /\ UNCHANGED <<jobs, dir, wk, sweep, cookie, faults>>

\* /api/cancel reads the status and sets the flag under two locks; setting it
\* makes the entry again if it is gone
CancelRead(s) ==
    /\ Arrived(s, "cancel")
    /\ IF ~Visible(s) THEN Answer(s, "404")
       ELSE IF jobs[req[s].job].status # "running" THEN Answer(s, jobs[req[s].job].status)
       ELSE At(s, "flag")
    /\ UNCHANGED <<jobs, dir, wk, sweep, cookie, faults>>

CancelFlag(s) ==
    LET j == req[s].job
    IN  /\ req[s].pc = "flag"
        /\ jobs' = [jobs EXCEPT ![j] = [status |-> IF @.status = "none" THEN "unknown" ELSE @.status,
                                        cancelled |-> TRUE]]
        /\ Answer(s, "cancelling")
        /\ UNCHANGED <<dir, wk, sweep, cookie, faults>>

\* /api/download opens the workbook; when the response closes, delivered or
\* not, the directory goes and then the entry
Download(s) ==
    /\ Arrived(s, "download")
    /\ IF Visible(s) /\ jobs[req[s].job].status = "complete" /\ "book" \in dir[req[s].job]
       THEN At(s, "sending") ELSE Answer(s, "404")
    /\ UNCHANGED <<jobs, dir, wk, sweep, cookie, faults>>

DownloadClose(s) ==
    /\ req[s].pc = "sending"
    /\ Purge(req[s].job)
    /\ At(s, "popping")
    /\ UNCHANGED <<jobs, wk, sweep, cookie, faults>>

DownloadPop(s) ==
    /\ req[s].pc = "popping"
    /\ jobs' = [jobs EXCEPT ![req[s].job] = NoEntry]
    /\ Answer(s, "none")
    /\ UNCHANGED <<dir, wk, sweep, cookie, faults>>

Handle(s) ==
    \/ Admit(s) \/ Start(s) \/ Status(s) \/ CancelRead(s) \/ CancelFlag(s)
    \/ Download(s) \/ DownloadClose(s) \/ DownloadPop(s)

\* the process dies and comes back; with an ephemeral key the session is void
Restart ==
    /\ faults > 0
    /\ faults' = faults - 1
    /\ jobs' = [j \in Jobs |-> NoEntry]
    /\ wk' = [j \in Jobs |-> IF wk[j] = "none" THEN "none" ELSE "done"]
    /\ sweep' = NoJob
    /\ cookie' \in {cookie, NoJob}
    /\ req' = [s \in Slots |-> IF req[s].pc \in {"idle", "answered"} THEN req[s]
                               ELSE Answered(req[s], "failed")]
    /\ UNCHANGED dir
=============================================================================
