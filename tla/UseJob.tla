------------------------------- MODULE UseJob -------------------------------
(* The STIG browser client (frontend/src/useJob.ts over api.ts): one hook,    *)
(* whose functions are suspended at every await and whose answers come back   *)
(* late, in any order, to refs and state others have changed meanwhile.       *)
EXTENDS JobServer

CONSTANTS
    DEAD_POLLS,           \* failed polls in a row before contact is lost
    LAUNCH_RETRY_POLLS,   \* queued polls before the start is repeated
    Polls,                \* the polls that may be waiting at once
    None                  \* null

ASSUME UseJobConstants ==
    /\ {DEAD_POLLS, LAUNCH_RETRY_POLLS} \subseteq Nat \ {0}
    /\ None \notin Jobs
    /\ Polls \cap {"submit", "cancel", "reconnect", "mount"} = {}

VARIABLES
    call,       \* the suspended function of each kind and what it awaits
    stray,      \* requests on their way whose caller is gone
    state,      \* the React state
    stored,     \* the job id in localStorage
    refs,       \* timer (the job polled), failures, queuedPolls, inFlight
    calledOff   \* history: the jobs whose upload was called off before the start

clientVars == <<call, stray, state, stored, refs, calledOff>>
vars == <<serverVars, clientVars>>

Functions == {"submit", "cancel", "reconnect", "mount"} \cup Polls
MaybeJob == Jobs \cup {None}
Done == [await |-> "none", job |-> None, answer |-> "none"]

\* what each await waits for; uploadFile is no request to the API, and the
\* "details" are a getJob whose status is not used
Requests == {"createUploads", "startJob", "getJob", "cancelJob", "relaunch"}

\* local: the error shown is this page's, not the job's
INITIAL == [status |-> "idle", job |-> None, lost |-> FALSE, local |-> FALSE, cancelError |-> FALSE]
Still == [timer |-> None, failures |-> 0, queuedPolls |-> 0, inFlight |-> FALSE]

Promises == [await : Requests \cup {"none", "uploadFile", "details"}, job : MaybeJob,
             answer : {"none"} \cup Answers]
Screens == [status : {"idle", "uploading"} \cup Open \cup Terminal, job : MaybeJob,
            lost : BOOLEAN, local : BOOLEAN, cancelError : BOOLEAN]
Watches == [timer : MaybeJob, failures : 0..DEAD_POLLS,
            queuedPolls : 0..(LAUNCH_RETRY_POLLS - 1), inFlight : BOOLEAN]

TypeOK ==
    /\ ServerTypeOK
    /\ call \in [Functions -> Promises]
    /\ stray \subseteq {"startJob", "cancelJob"} \X Jobs
    /\ state \in Screens
    /\ stored \in MaybeJob
    /\ refs \in Watches
    /\ calledOff \subseteq Jobs

Init ==
    /\ ServerInit
    /\ call = [f \in Functions |-> Done]
    /\ stray = {}
    /\ state = INITIAL
    /\ stored = None
    /\ refs = Still
    /\ calledOff = {}

---------------------------------------------------------------------------
(* Requests and answers                                                      *)
Awaiting(f, request) == call[f].await = request
Ask(request, j) == [Done EXCEPT !.await = request, !.job = j]
Calls(f, request, j) == call' = [call EXCEPT ![f] = Ask(request, j)]
Returns(f) == call' = [call EXCEPT ![f] = Done]
Answered(f, a, j) == call' = [call EXCEPT ![f] = [@ EXCEPT !.answer = a, !.job = j]]

Serve(f) ==
    /\ call[f].answer = "none"
    /\ \E a \in Answers : \E j \in Jobs :
        /\ Answered(f, a, j)
        /\ \/ Awaiting(f, "createUploads") /\ PostUploads(j, a)
           \/ /\ j = call[f].job
              /\ \/ call[f].await \in {"startJob", "relaunch"} /\ PostJobs(j, a)
                 \/ Awaiting(f, "getJob") /\ GetJob(j, a)
                 \/ Awaiting(f, "cancelJob") /\ PostCancel(j, a)
    /\ UNCHANGED <<stray, state, stored, refs, calledOff>>

\* the request or its answer is lost
Lose(f) ==
    /\ call[f].await \in Requests /\ call[f].answer # "failed"
    /\ Fail
    /\ Answered(f, "failed", call[f].job)
    /\ UNCHANGED <<record, launched, stray, state, stored, refs, calledOff>>

\* a request nobody waits for reaches the server, or never does
ServeStray(r) ==
    /\ r \in stray
    /\ stray' = stray \ {r}
    /\ \E a \in Answers : IF r[1] = "startJob" THEN PostJobs(r[2], a) ELSE PostCancel(r[2], a)
    /\ UNCHANGED <<call, state, stored, refs, calledOff>>

---------------------------------------------------------------------------
(* The parts of the hook                                                     *)
StopPolling == [refs EXCEPT !.timer = None]
StartPolling(j) == [Still EXCEPT !.timer = j]

Settle(s, status) == [s EXCEPT !.status = status, !.lost = FALSE, !.local = FALSE, !.cancelError = FALSE]
Settles(status) ==
    /\ state' = Settle(state, status)
    /\ stored' = None
    /\ refs' = StopPolling

\* submitAbort: the upload or the start in flight is dropped, but a start that
\* was sent may still arrive
AsSent == [startJob |-> "startJob", relaunch |-> "startJob", cancelJob |-> "cancelJob"]
Travelling(fs) ==
    {<<AsSent[call[f].await], call[f].job>> :
        f \in {g \in fs : call[g].await \in DOMAIN AsSent /\ call[g].answer = "none"}}
AbortSubmit ==
    /\ stray' = stray \cup Travelling({"submit"})
    /\ calledOff' = calledOff \cup
           (IF Awaiting("submit", "uploadFile") THEN {call["submit"].job} ELSE {})

Busy == state.status \in {"uploading"} \cup Open
Finished == state.status \in Terminal

---------------------------------------------------------------------------
(* submit                                                                    *)
Submit ==
    /\ state.status = "idle"
    /\ call["submit"] = Done
    /\ Calls("submit", "createUploads", None)
    /\ state' = [INITIAL EXCEPT !.status = "uploading"]
    /\ UNCHANGED <<serverVars, stray, stored, refs, calledOff>>

\* whatever failed, the id is dropped, also when the start did arrive
SubmitFails ==
    /\ stored' = None
    /\ state' = [state EXCEPT !.job = None, !.status = "error", !.local = TRUE]
    /\ Returns("submit")
    /\ UNCHANGED refs

OnCreated ==
    /\ Awaiting("submit", "createUploads")
    /\ \/ /\ call["submit"].answer = "ok"
          /\ state' = [state EXCEPT !.job = call["submit"].job]
          /\ stored' = call["submit"].job
          /\ Calls("submit", "uploadFile", call["submit"].job)
          /\ UNCHANGED refs
       \/ call["submit"].answer = "failed" /\ SubmitFails

OnUploaded ==
    /\ Awaiting("submit", "uploadFile")
    /\ \/ Calls("submit", "startJob", call["submit"].job) /\ UNCHANGED <<state, stored, refs>>
       \/ SubmitFails

OnStarted ==
    /\ Awaiting("submit", "startJob")
    /\ \/ /\ call["submit"].answer = "ok"
          /\ state' = [state EXCEPT !.status = "queued"]
          /\ refs' = StartPolling(call["submit"].job)
          /\ Returns("submit")
          /\ UNCHANGED stored
       \/ call["submit"].answer = "failed" /\ SubmitFails

---------------------------------------------------------------------------
(* poll                                                                      *)
Tick(p) ==
    /\ refs.timer # None /\ ~refs.inFlight
    /\ call[p] = Done
    /\ refs' = [refs EXCEPT !.inFlight = TRUE]
    /\ Calls(p, "getJob", refs.timer)
    /\ UNCHANGED <<serverVars, stray, state, stored, calledOff>>

\* the finally of poll clears the flag, whichever poll holds it by now
Polled(p) == Returns(p)
Landed(r) == [r EXCEPT !.inFlight = FALSE]

\* mutant: a failed poll keeps the flag
PollFails_KeepsFlag(p) ==
    /\ Polled(p)
    /\ IF refs.failures + 1 >= DEAD_POLLS
       THEN /\ refs' = [StopPolling EXCEPT !.failures = DEAD_POLLS]
            /\ state' = [state EXCEPT !.status = "error", !.lost = TRUE]
       ELSE refs' = [refs EXCEPT !.failures = @ + 1] /\ UNCHANGED state
    /\ UNCHANGED stored

PollFails(p) ==
    /\ Polled(p)
    /\ IF refs.failures + 1 >= DEAD_POLLS
       THEN /\ refs' = Landed([StopPolling EXCEPT !.failures = DEAD_POLLS])
            /\ state' = [state EXCEPT !.status = "error", !.lost = TRUE]
       ELSE /\ refs' = Landed([refs EXCEPT !.failures = @ + 1])
            /\ UNCHANGED state
    /\ UNCHANGED stored

PollQueued(p) ==
    /\ IF refs.queuedPolls + 1 >= LAUNCH_RETRY_POLLS
       THEN /\ Calls(p, "relaunch", call[p].job)
            /\ refs' = [refs EXCEPT !.failures = 0, !.queuedPolls = 0]
       ELSE /\ Polled(p)
            /\ refs' = Landed([refs EXCEPT !.failures = 0, !.queuedPolls = @ + 1])
    /\ UNCHANGED <<state, stored>>

PollAnswered(p) ==
    LET a == call[p].answer
        heard == Landed([refs EXCEPT !.failures = 0, !.queuedPolls = 0])
    IN  CASE a = "failed" -> PollFails(p)
          [] a = "queued" -> PollQueued(p)
          [] a \in Terminal -> /\ Polled(p)
                               /\ state' = Settle(state, a)
                               /\ stored' = None
                               /\ refs' = [heard EXCEPT !.timer = None]
          [] OTHER -> Polled(p) /\ refs' = heard /\ UNCHANGED <<state, stored>>

\* the answer of the repeated start does not matter
OnRelaunched(p) == Polled(p) /\ refs' = Landed(refs) /\ UNCHANGED <<state, stored>>

OnPoll(p) ==
    /\ call[p].answer # "none"
    /\ \/ Awaiting(p, "getJob") /\ PollAnswered(p)
       \/ Awaiting(p, "relaunch") /\ OnRelaunched(p)

---------------------------------------------------------------------------
(* reconnect, cancel, reset and the mount effect                             *)
Reconnect ==
    /\ Finished /\ state.lost /\ state.job # None
    /\ call["reconnect"] = Done
    /\ Calls("reconnect", "getJob", state.job)
    /\ UNCHANGED <<serverVars, stray, state, stored, refs, calledOff>>

OnReconnect ==
    LET a == call["reconnect"].answer
    IN  /\ a # "none"
        /\ Returns("reconnect")
        /\ CASE a \in Terminal -> Settles(a)
             [] a = "failed" -> /\ state' = [state EXCEPT !.status = "error", !.lost = TRUE]
                                /\ UNCHANGED <<stored, refs>>
             [] OTHER -> /\ state' = [state EXCEPT !.status = a, !.lost = FALSE, !.local = FALSE]
                         /\ refs' = StartPolling(call["reconnect"].job)
                         /\ UNCHANGED stored

\* mutant: the upload goes on until the cancellation is answered
Cancel_WithoutAbort ==
    /\ Busy /\ state.job # None
    /\ call["cancel"] = Done
    /\ AbortSubmit
    /\ Calls("cancel", "cancelJob", state.job)
    /\ state' = [state EXCEPT !.cancelError = FALSE]
    /\ UNCHANGED <<serverVars, stored, refs>>

Cancel ==
    /\ Busy /\ state.job # None
    /\ call["cancel"] = Done
    /\ AbortSubmit
    /\ call' = [call EXCEPT !["submit"] = Done, !["cancel"] = Ask("cancelJob", state.job)]
    /\ state' = [state EXCEPT !.cancelError = FALSE]
    /\ UNCHANGED <<serverVars, stored, refs>>

\* the job may have ended first
OnCancel ==
    LET a == call["cancel"].answer
    IN  /\ Awaiting("cancel", "cancelJob") /\ a # "none"
        /\ IF a = "failed"
           THEN /\ state' = [state EXCEPT !.cancelError = TRUE]
                /\ Returns("cancel")
                /\ UNCHANGED <<stored, refs>>
           ELSE /\ refs' = StopPolling
                /\ stored' = None
                /\ IF a = "cancelled"
                   THEN state' = INITIAL /\ Returns("cancel")
                   ELSE /\ call' = [call EXCEPT !["cancel"] = [@ EXCEPT !.await = "details"]]
                        /\ UNCHANGED state

\* mutant: the card says cancelled, whatever the server said
OnDetails_ClaimsCancel ==
    /\ Awaiting("cancel", "details")
    /\ Settles("cancelled")
    /\ Returns("cancel")

OnDetails ==
    /\ Awaiting("cancel", "details")
    /\ Settles(call["cancel"].answer)
    /\ Returns("cancel")

Reset ==
    /\ Finished
    /\ AbortSubmit
    /\ call' = [call EXCEPT !["submit"] = Done]
    /\ state' = INITIAL
    /\ stored' = None
    /\ refs' = [StopPolling EXCEPT !.queuedPolls = 0]
    /\ UNCHANGED <<serverVars>>

\* only localStorage survives
Reload ==
    /\ Fail
    /\ stray' = stray \cup Travelling(Functions)
    /\ calledOff' = calledOff \cup
           (IF Awaiting("submit", "uploadFile") THEN {call["submit"].job} ELSE {})
    /\ call' = [[f \in Functions |-> Done] EXCEPT
                    !["mount"] = IF stored = None THEN Done ELSE Ask("getJob", stored)]
    /\ state' = INITIAL
    /\ refs' = Still
    /\ UNCHANGED <<record, launched, stored>>

OnMount ==
    LET a == call["mount"].answer
    IN  /\ a # "none"
        /\ Returns("mount")
        /\ IF a \in Open
           THEN /\ state' = [state EXCEPT !.job = call["mount"].job, !.status = a]
                /\ refs' = StartPolling(call["mount"].job)
                /\ UNCHANGED stored
           ELSE stored' = None /\ UNCHANGED <<state, refs>>

Hear(f) ==
    /\ \/ f = "submit" /\ (OnCreated \/ OnUploaded \/ OnStarted)
       \/ f \in Polls /\ OnPoll(f)
       \/ f = "reconnect" /\ OnReconnect
       \/ f = "cancel" /\ (OnCancel \/ OnDetails)
       \/ f = "mount" /\ OnMount
    /\ UNCHANGED <<serverVars, stray, calledOff>>

---------------------------------------------------------------------------
Next ==
    \/ Submit \/ Reconnect \/ Cancel \/ Reset \/ Reload
    \/ \E p \in Polls : Tick(p)
    \/ \E f \in Functions : Serve(f) \/ Lose(f) \/ Hear(f)
    \/ \E r \in stray : ServeStray(r)
    \/ \E j \in Jobs : Execute(j) /\ UNCHANGED clientVars

Spec == Init /\ [][Next]_vars

(* The interval timer fires, requests that are not lost are served, promises  *)
(* continue and executions end.  The user owes nothing.                       *)
FairSpec ==
    /\ Spec
    /\ WF_vars(\E p \in Polls : Tick(p))
    /\ \A f \in Functions : WF_vars(Serve(f)) /\ WF_vars(Hear(f))
    /\ \A j \in Jobs : WF_vars(Execute(j) /\ UNCHANGED clientVars)

---------------------------------------------------------------------------
(* Properties                                                                *)
\* A job called off while its files were uploading never starts, though the
\* cancellation itself may be lost, refused or overtaken.
CalledOffNeverStarts ==
    \A j \in calledOff : record[j] \in {"pending", "cancelled"} /\ j \notin launched

\* The screen shows an end, other than the browser's own troubles, only when
\* the record of a job the browser submitted has come to that end.
ShownIsTrue ==
    Finished /\ ~state.lost /\ ~state.local => \E j \in Jobs : record[j] = state.status

\* It is the end of the job on the screen.
ShownIsOwn ==
    Finished /\ ~state.lost /\ ~state.local /\ state.job # None => record[state.job] = state.status

\* A lost contact always leaves something to reconnect to.
LostKeepsHandle == state.lost => state.job # None

\* A queued job whose launch was left undone is launched, or ends, as long as
\* the browser watches it.
QueuedIsLaunched ==
    \A j \in Jobs : (refs.timer = j /\ record[j] = "queued" /\ j \notin launched)
        ~> (j \in launched \/ record[j] # "queued" \/ refs.timer # j)

\* A screen that shows a job at work ends, with the job or without contact.
ScreenSettles == state.status \in {"queued", "running"} ~> state.status \notin {"queued", "running"}

\* A failed cancellation says the job is still running, and it is watched.
CancelErrorIsTrue == state.cancelError => refs.timer # None

\* The browser can always get back to a job at work.
JobIsReachable ==
    \A j \in Jobs : record[j] \in {"queued", "running"} =>
        j \in {stored, state.job, refs.timer} \cup {call[f].job : f \in Functions}
=============================================================================
