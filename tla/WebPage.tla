------------------------------- MODULE WebPage -------------------------------
(* The container's page (app/static/app.js) and its server.  The page has a   *)
(* form, a progress, a success and an error view, one polling timer, and      *)
(* fetches whose answers come late, out of order or never.                    *)
EXTENDS WebJobs

CONSTANTS
    MAX_POLL_FAILURES    \* failed polls before the page gives up

ASSUME WebPageConstants == MAX_POLL_FAILURES \in Nat \ {0}

VARIABLE page    \* [view, job, timer, link, failures, cancelling]

vars == <<serverVars, page>>

\* view is the section shown last; job is currentJobId, timer the job polled (it
\* may be no job at all), link the one the result shown is of
Off == "off"
Blank == [view |-> "form", job |-> NoJob, timer |-> Off, link |-> NoJob,
          failures |-> 0, cancelling |-> FALSE]

Pages == [view : {"form", "progress", "success", "error"},
          job : Jobs \cup {NoJob}, timer : Jobs \cup {NoJob, Off}, link : Jobs \cup {NoJob},
          failures : 0..MAX_POLL_FAILURES, cancelling : BOOLEAN]

TypeOK == ServerTypeOK /\ page \in Pages

Init ==
    /\ ServerInit
    /\ page = Blank

Server(A) == A /\ UNCHANGED page

\* the session cookie goes with every request
Request(op, j) == [pc |-> "sent", op |-> op, job |-> j, mine |-> j # NoJob /\ j = cookie,
                   answer |-> "none", live |-> TRUE]
Send(s, op, j) ==
    /\ req[s] = Idle
    /\ req' = [req EXCEPT ![s] = Request(op, j)]
    /\ UNCHANGED <<jobs, dir, wk, sweep, cookie, faults>>

---------------------------------------------------------------------------
(* What the user and the timer do                                            *)
\* the old timer, if there is one, runs on
Submit ==
    /\ page.view = "form"
    /\ Send("process", "process", NoJob)
    /\ page' = [page EXCEPT !.view = "progress", !.failures = 0]

Tick(s) ==
    /\ page.timer # Off
    /\ Send(s, "status", page.timer)
    /\ UNCHANGED page

Cancel ==
    /\ page.view = "progress" /\ page.job # NoJob /\ ~page.cancelling
    /\ Send("cancel", "cancel", page.job)
    /\ page' = [page EXCEPT !.cancelling = TRUE]

ClickDownload(s) ==
    /\ page.view = "success"
    /\ Send(s, "download", page.link)
    /\ UNCHANGED page

\* resetUI and softReset; neither clears the timer
Fresh(p) == [p EXCEPT !.view = "form", !.job = NoJob, !.link = NoJob, !.failures = 0, !.cancelling = FALSE]

Reset ==
    /\ page.view \in {"success", "error"}
    /\ page' = Fresh(page)
    /\ UNCHANGED serverVars

\* a reload abandons the fetches and asks for the session's job; an abandoned
\* status fetch may as well not have been made
Abandoned(r) ==
    IF r.pc = "answered" \/ r.op \in {"status", "reconnect"} THEN Idle ELSE [r EXCEPT !.live = FALSE]

Reload ==
    /\ page' = [Blank EXCEPT !.job = cookie]
    /\ req' = [t \in Slots |->
                  IF t = "reconnect" /\ cookie # NoJob
                  THEN Request("reconnect", cookie)
                  ELSE Abandoned(req[t])]
    /\ UNCHANGED <<jobs, dir, wk, sweep, cookie, faults>>

---------------------------------------------------------------------------
(* What an answer does                                                       *)
ShowError(p) == [p EXCEPT !.view = "error", !.timer = Off, !.link = NoJob]
ShowSuccess(p, j) == [p EXCEPT !.view = "success", !.link = j]
StartPolling(p, j) == [p EXCEPT !.timer = j]

Heard(s, op) == req[s].pc = "answered" /\ req[s].live /\ req[s].op = op
Consume(s) == req' = [req EXCEPT ![s] = Idle]

OnProcess(s) ==
    /\ Heard(s, "process")
    /\ IF req[s].answer = "started"
       THEN /\ cookie' = req[s].job
            /\ page' = StartPolling([page EXCEPT !.job = req[s].job], req[s].job)
       ELSE page' = ShowError(page) /\ UNCHANGED cookie
    /\ Consume(s)
    /\ UNCHANGED <<jobs, dir, wk, sweep, faults>>

\* a poll whose fetch fails counts; too many in a row and the page gives up
PollFailed(p) ==
    IF p.failures + 1 >= MAX_POLL_FAILURES
    THEN ShowError([p EXCEPT !.failures = MAX_POLL_FAILURES])
    ELSE [p EXCEPT !.failures = @ + 1]

\* mutant: an answer that is not a job's status is ignored
Polled_IgnoresNotFound(p, j, answer) ==
    LET q == [p EXCEPT !.failures = 0]
    IN  CASE answer = "failed" -> PollFailed(p)
          [] answer = "complete" -> ShowSuccess([q EXCEPT !.timer = Off], j)
          [] answer = "cancelled" -> Fresh([q EXCEPT !.timer = Off])
          [] answer = "error" -> ShowError(q)
          [] OTHER -> q

\* whichever job the answer is about, it is the timer that ends
Polled(p, j, answer) ==
    LET q == [p EXCEPT !.failures = 0]
    IN  CASE answer = "failed" -> PollFailed(p)
          [] answer = "complete" -> ShowSuccess([q EXCEPT !.timer = Off], j)
          [] answer = "cancelled" -> Fresh([q EXCEPT !.timer = Off])
          [] answer \in {"error", "404"} -> ShowError(q)
          [] OTHER -> q

OnStatus(s) ==
    /\ Heard(s, "status")
    /\ page' = Polled(page, req[s].job, req[s].answer)
    /\ Consume(s)
    /\ UNCHANGED <<jobs, dir, wk, sweep, cookie, faults>>

\* the page of a reload comes back to the session's job; the handler looks at
\* the current job again, which may be another one by now
OnReconnect(s) ==
    /\ Heard(s, "reconnect")
    /\ page' = CASE req[s].answer = "complete" -> ShowSuccess(page, page.job)
                 [] req[s].answer = "running" ->
                        StartPolling([page EXCEPT !.view = "progress", !.link = NoJob], page.job)
                 [] OTHER -> page
    /\ Consume(s)
    /\ UNCHANGED <<jobs, dir, wk, sweep, cookie, faults>>

OnCancel(s) ==
    /\ Heard(s, "cancel")
    /\ page' = [page EXCEPT !.cancelling = @ /\ req[s].answer \notin {"404", "failed"}]
    /\ Consume(s)
    /\ UNCHANGED <<jobs, dir, wk, sweep, cookie, faults>>

Hear(s) == OnProcess(s) \/ OnStatus(s) \/ OnReconnect(s) \/ OnCancel(s)

\* the request does not arrive, or its answer does not
Lose(s) ==
    /\ faults > 0
    /\ req[s].pc \in {"sent", "answered"} /\ req[s].answer # "failed" /\ req[s].live
    /\ faults' = faults - 1
    /\ Answer(s, "failed")
    /\ UNCHANGED <<jobs, dir, wk, sweep, cookie, page>>

User ==
    \/ Submit \/ Cancel \/ Reset \/ Reload
    \/ \E s \in Downloads : ClickDownload(s)

Next ==
    \/ User
    \/ \E s \in Polls : Tick(s)
    \/ \E s \in Slots : Server(Handle(s)) \/ Hear(s) \/ Lose(s)
    \/ \E j \in Jobs : Server(RunJob(j)) \/ Server(SweepRead(j))
    \/ Server(SweepRemove) \/ Server(Restart)

Spec == Init /\ [][Next]_vars

(* Threads run, time passes, the sweeper comes round to every directory, the  *)
(* interval timer fires and the browser hears its answers.  The user owes     *)
(* nothing.                                                                   *)
Fairness ==
    /\ \A s \in Slots : WF_vars(Server(Handle(s))) /\ WF_vars(Hear(s))
    /\ \A j \in Jobs :
        /\ WF_vars(Server(RunJob(j)))
        /\ SF_vars(Server(SweepRead(j)))
    /\ WF_vars(Server(SweepRemove))
    /\ WF_vars(\E s \in Polls : Tick(s))

FairSpec == Spec /\ Fairness

---------------------------------------------------------------------------
(* Properties                                                                *)
Working(j) == wk[j] \in {"saving", "parse", "ready", "export", "commit"}

\* A directory is not taken from under the thread that works in it, however old
\* it looks: neither by the sweeper nor by a download or a purge.
WorkerKeepsItsFiles == \A j \in Jobs : Working(j) => "files" \in dir[j]

\* A failed or cancelled job leaves no files once its worker has ended.
FailedLeavesNothing ==
    \A j \in Jobs : jobs[j].status \in {"error", "cancelled"} /\ wk[j] = "done" => dir[j] = Gone

\* While a job is complete its directory, if it is there, holds the workbook
\* the page offers.
ResultIsReal ==
    \A j \in Jobs : jobs[j].status = "complete" => dir[j] = Gone \/ "book" \in dir[j]

\* A flag set before the worker's last look at it stops the job: it never
\* becomes complete.
CancelTakesEffect ==
    \A j \in Jobs :
        (jobs[j].cancelled /\ wk[j] \in {"parse", "ready"})
            ~> jobs[j].status \in {"cancelled", "error", "none"}

\* Every directory is removed some day, also those a failed submission or an
\* earlier process left.
DirectoriesGo == \A j \in Jobs : dir[j] # Gone ~> dir[j] = Gone

\* The page never stays in progress: it ends at a result, an error or the form,
\* whatever was lost, restarted or deleted meanwhile.
PageSettles == page.view = "progress" ~> page.view # "progress"

\* The result a page shows is of the job it submitted last.
ShowsCurrentJob == page.view = "success" => page.link = page.job
=============================================================================
