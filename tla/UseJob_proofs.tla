----------------------------- MODULE UseJob_proofs -----------------------------
(* That what is called off never starts, and that an end shown is an end: for  *)
(* any number of jobs, overlapping polls and faults.                           *)
EXTENDS UseJob, TLAPS

---------------------------------------------------------------------------
(* The invariant.                                                            *)
\* a job that exists
Known(j) == j \in Jobs /\ record[j] # "none"

\* who may await what, of which job, and what its answer says of the record
PromiseOK(f, c) ==
    /\ c.job # None => Known(c.job)
    /\ c.await \in {"createUploads", "uploadFile", "startJob"} => f = "submit"
    /\ c.await = "relaunch" => f \in Polls
    /\ c.await \in {"cancelJob", "details"} => f = "cancel"
    /\ c.await = "getJob" => f \in Polls \cup {"reconnect", "mount"}
    /\ c.await \in {"uploadFile", "startJob", "getJob", "relaunch", "cancelJob", "details"}
         => c.job # None
    /\ c.await = "createUploads" /\ c.answer = "ok" => c.job # None
    /\ c.await = "none" => c.answer = "none"
    /\ c.await \in {"createUploads", "startJob", "relaunch"} => c.answer \in {"none", "ok", "failed"}
    /\ c.await = "getJob" => c.answer # "ok"
    /\ c.await = "cancelJob" => c.answer \in {"none", "failed"} \cup Terminal
    /\ c.await = "details" => c.answer \in Terminal
    /\ c.answer \in Terminal => c.job # None /\ record[c.job] = c.answer

CallsKnow == \A f \in Functions : PromiseOK(f, call[f])

HandlesKnown ==
    /\ state.job # None => Known(state.job)
    /\ stored # None => Known(stored)
    /\ refs.timer # None => Known(refs.timer)
    /\ \A r \in stray : Known(r[2])

\* the continuation of c sends, or may decide to send, a start of j
Starts(c, j) ==
    /\ c.job = j
    /\ \/ c.await \in {"startJob", "relaunch"}
       \/ c.await = "getJob" /\ c.answer = "queued"

NotStarted(j) ==
    /\ record[j] \in {"none", "pending", "cancelled"}
    /\ j \notin launched
    /\ <<"startJob", j>> \notin stray
    /\ \A f \in Functions : ~Starts(call[f], j)

\* submit() is about to start j
Uploads(c, j) ==
    /\ c.job = j
    /\ \/ c.await = "uploadFile"
       \/ c.await = "createUploads" /\ c.answer = "ok"
Uploading(j) == Uploads(call["submit"], j)

UploadsNotStarted == \A j \in Jobs : Uploading(j) \/ record[j] = "none" => NotStarted(j)
CalledOffStays == \A j \in calledOff : NotStarted(j) /\ record[j] # "none" /\ ~Uploading(j)

IInv ==
    /\ TypeOK
    /\ CallsKnow
    /\ HandlesKnown
    /\ UploadsNotStarted
    /\ CalledOffStays
    /\ ShownIsTrue

---------------------------------------------------------------------------
(* Steps of the server                                                       *)
\* No request makes a record vanish or changes an end.
Evolves ==
    \A j \in Jobs :
        /\ record[j] # "none" => record'[j] # "none"
        /\ record[j] \in Terminal => record'[j] = record[j]

LEMMA PromiseStays ==
    ASSUME NEW f, NEW c, PromiseOK(f, c), Evolves
    PROVE  PromiseOK(f, c)'
BY DEF PromiseOK, Known, Evolves

LEMMA HandlesStay ==
    ASSUME HandlesKnown, Evolves, UNCHANGED <<state, stored, refs>>, stray' \subseteq stray
    PROVE  HandlesKnown'
BY DEF HandlesKnown, Known, Evolves

LEMMA ShownStays ==
    ASSUME ShownIsTrue, Evolves, UNCHANGED state
    PROVE  ShownIsTrue'
BY DEF ShownIsTrue, Finished, Evolves

\* What the routes do to the records.
LEMMA RoutesTyped ==
    ASSUME ServerTypeOK, NEW j \in Jobs, NEW a \in Answers,
           PostUploads(j, a) \/ PostJobs(j, a) \/ GetJob(j, a) \/ PostCancel(j, a)
    PROVE  ServerTypeOK' /\ Evolves
<1>1. CASE PostUploads(j, a)
  BY <1>1 DEF PostUploads, To, ServerTypeOK, Evolves, Open, Terminal
<1>2. CASE PostJobs(j, a)
  BY <1>2, FaultBound DEF PostJobs, To, Fail, serverVars, ServerTypeOK, Evolves, Open, Terminal
<1>3. CASE GetJob(j, a)
  BY <1>3 DEF GetJob, serverVars, ServerTypeOK, Evolves
<1>4. CASE PostCancel(j, a)
  BY <1>4, FaultBound DEF PostCancel, To, Fail, serverVars, ServerTypeOK, Evolves, Open, Terminal
<1>. QED
  BY <1>1, <1>2, <1>3, <1>4

LEMMA ExecuteKeeps ==
    ASSUME IInv, NEW j \in Jobs, Execute(j), UNCHANGED clientVars
    PROVE  IInv'
<1>1. /\ j \in launched /\ record[j] \in {"queued", "running"}
      /\ UNCHANGED <<launched, faults>>
      /\ record' \in [Jobs -> {"none"} \cup Open \cup Terminal]
      /\ record'[j] \in {"running", "complete", "error"}
      /\ \A k \in Jobs \ {j} : record'[k] = record[k]
  BY DEF Execute, To, IInv, TypeOK, ServerTypeOK, Open, Terminal
<1>2. Evolves
  BY <1>1 DEF Evolves, Terminal
<1>3. TypeOK'
  BY <1>1 DEF IInv, TypeOK, ServerTypeOK, clientVars
<1>4. CallsKnow' /\ HandlesKnown' /\ ShownIsTrue'
  BY <1>2, PromiseStays, HandlesStay, ShownStays DEF IInv, CallsKnow, clientVars
<1>5. \A k \in Jobs : NotStarted(k) => k # j /\ NotStarted(k)'
  BY <1>1 DEF NotStarted, clientVars
<1>6. UploadsNotStarted' /\ CalledOffStays'
  BY <1>1, <1>2, <1>5
     DEF IInv, TypeOK, UploadsNotStarted, CalledOffStays, Uploading, clientVars, Evolves
<1>. QED
  BY <1>3, <1>4, <1>6 DEF IInv

\* A start is only ever served to a job that was started.
LEMMA RoutesStart ==
    ASSUME ServerTypeOK, NEW j \in Jobs, NEW k \in Jobs, NEW a \in Answers,
           record[k] \in {"none", "pending", "cancelled"}, k \notin launched,
           \/ PostUploads(j, a)
           \/ PostJobs(j, a) /\ j # k
           \/ GetJob(j, a)
           \/ PostCancel(j, a)
    PROVE  record'[k] \in {"none", "pending", "cancelled"} /\ k \notin launched'
<1>1. CASE PostUploads(j, a)
  BY <1>1 DEF PostUploads, To, ServerTypeOK
<1>2. CASE PostJobs(j, a) /\ j # k
  BY <1>2 DEF PostJobs, To, serverVars, ServerTypeOK
<1>3. CASE GetJob(j, a)
  BY <1>3 DEF GetJob, serverVars
<1>4. CASE PostCancel(j, a)
  BY <1>4 DEF PostCancel, To, serverVars, ServerTypeOK
<1>. QED
  BY <1>1, <1>2, <1>3, <1>4

LEMMA ServeKeeps ==
    ASSUME IInv, NEW f \in Functions, Serve(f)
    PROVE  IInv'
<1>. DEFINE Asked(j, a) ==
              \/ Awaiting(f, "createUploads") /\ PostUploads(j, a)
              \/ j = call[f].job /\ call[f].await \in {"startJob", "relaunch"} /\ PostJobs(j, a)
              \/ j = call[f].job /\ Awaiting(f, "getJob") /\ GetJob(j, a)
              \/ j = call[f].job /\ Awaiting(f, "cancelJob") /\ PostCancel(j, a)
<1>1. PICK a \in Answers, j \in Jobs : Answered(f, a, j) /\ Asked(j, a)
  BY DEF Serve
<1>2. /\ call[f].answer = "none" /\ UNCHANGED <<stray, state, stored, refs, calledOff>>
      /\ call \in [Functions -> Promises] /\ call[f] \in Promises /\ ServerTypeOK
  BY DEF Serve, IInv, TypeOK
<1>3. /\ call' \in [Functions -> Promises]
      /\ call'[f].answer = a /\ call'[f].job = j /\ call'[f].await = call[f].await
      /\ \A g \in Functions \ {f} : call'[g] = call[g]
  <2>1. [call[f] EXCEPT !.answer = a, !.job = j] \in Promises
    BY <1>2 DEF Promises, MaybeJob
  <2>2. LET c == [call[f] EXCEPT !.answer = a, !.job = j]
        IN  c.answer = a /\ c.job = j /\ c.await = call[f].await
    BY <1>2 DEF Promises
  <2>. QED
    BY <1>1, <1>2, <2>1, <2>2 DEF Answered
<1>4. ServerTypeOK' /\ Evolves
  BY <1>1, <1>2, RoutesTyped
<1>5. TypeOK'
  BY <1>2, <1>3, <1>4 DEF IInv, TypeOK
<1>6. PromiseOK(f, call[f])
  BY DEF IInv, CallsKnow
<1>7. PromiseOK(f, call[f])'
  <2>1. Known(j)' /\ j # None
    <3>1. CASE PostUploads(j, a)
      BY <1>2, <3>1, UseJobConstants DEF Known, PostUploads, To, ServerTypeOK
    <3>2. CASE j = call[f].job
      BY <1>4, <1>6, <3>2, UseJobConstants DEF Known, Evolves, PromiseOK
    <3>. QED
      BY <1>1, <3>1, <3>2
  <2>2. CASE Awaiting(f, "createUploads") /\ PostUploads(j, a)
    BY <1>3, <1>6, <2>1, <2>2 DEF PromiseOK, Awaiting, PostUploads, Terminal
  <2>3. CASE j = call[f].job /\ call[f].await \in {"startJob", "relaunch"} /\ PostJobs(j, a)
    BY <1>3, <1>6, <2>1, <2>3 DEF PromiseOK, PostJobs, Terminal
  <2>4. CASE j = call[f].job /\ Awaiting(f, "getJob") /\ GetJob(j, a)
    BY <1>2, <1>3, <1>6, <2>1, <2>4 DEF PromiseOK, Awaiting, GetJob, serverVars, ServerTypeOK, Terminal, Open
  <2>5. CASE j = call[f].job /\ Awaiting(f, "cancelJob") /\ PostCancel(j, a)
    <3>1. a \in {"failed"} \cup Terminal /\ (a \in Terminal => record'[j] = a)
      BY <1>2, <2>5 DEF PostCancel, To, serverVars, ServerTypeOK, Terminal
    <3>. QED
      BY <1>3, <1>6, <2>1, <2>5, <3>1 DEF PromiseOK, Awaiting
  <2>. QED
    BY <1>1, <2>2, <2>3, <2>4, <2>5
<1>8. CallsKnow'
  BY <1>3, <1>4, <1>7, PromiseStays DEF IInv, CallsKnow
<1>9. HandlesKnown' /\ ShownIsTrue'
  BY <1>2, <1>4, HandlesStay, ShownStays DEF IInv
<1>10. ASSUME NEW k \in Jobs, NotStarted(k) PROVE NotStarted(k)'
  <2>1. record'[k] \in {"none", "pending", "cancelled"} /\ k \notin launched'
    BY <1>1, <1>2, <1>10, RoutesStart DEF NotStarted, Starts
  <2>2. ~Starts(call'[f], k)
    BY <1>1, <1>2, <1>3, <1>10 DEF NotStarted, Starts, Awaiting, GetJob
  <2>. QED
    BY <1>2, <1>3, <1>10, <2>1, <2>2 DEF NotStarted
<1>11. "submit" \in Functions
  BY DEF Functions
<1>12. ASSUME NEW k \in Jobs, Uploading(k)' PROVE Uploading(k) \/ record[k] = "none"
  <2>1. CASE f = "submit" /\ call[f].await = "createUploads"
    BY <1>1, <1>3, <1>12, <2>1 DEF Uploading, Uploads, Awaiting, PostUploads
  <2>2. CASE ~(f = "submit" /\ call[f].await = "createUploads")
    BY <1>1, <1>3, <1>11, <1>12, <2>2 DEF Uploading, Uploads, Awaiting
  <2>. QED
    BY <2>1, <2>2
<1>13. UploadsNotStarted'
  BY <1>4, <1>10, <1>12 DEF IInv, UploadsNotStarted, Evolves
<1>14. CalledOffStays'
  BY <1>2, <1>4, <1>10, <1>12 DEF IInv, TypeOK, CalledOffStays, Evolves
<1>. QED
  BY <1>5, <1>8, <1>9, <1>13, <1>14 DEF IInv

LEMMA StrayKeeps ==
    ASSUME IInv, NEW r \in stray, ServeStray(r)
    PROVE  IInv'
<1>. DEFINE j == r[2]
<1>1. /\ r \in {"startJob", "cancelJob"} \X Jobs /\ j \in Jobs /\ ServerTypeOK
      /\ stray' = stray \ {r} /\ UNCHANGED <<call, state, stored, refs, calledOff>>
  BY DEF ServeStray, IInv, TypeOK
<1>2. PICK a \in Answers : \/ r[1] = "startJob" /\ PostJobs(j, a)
                           \/ r[1] # "startJob" /\ PostCancel(j, a)
  BY DEF ServeStray
<1>3. ServerTypeOK' /\ Evolves
  BY <1>1, <1>2, RoutesTyped
<1>4. TypeOK'
  BY <1>1, <1>3 DEF IInv, TypeOK
<1>5. CallsKnow' /\ HandlesKnown' /\ ShownIsTrue'
  BY <1>1, <1>3, PromiseStays, HandlesStay, ShownStays DEF IInv, CallsKnow
<1>6. ASSUME NEW k \in Jobs, NotStarted(k) PROVE NotStarted(k)'
  <2>1. r[1] = "startJob" => j # k
    BY <1>1, <1>6 DEF NotStarted
  <2>2. record'[k] \in {"none", "pending", "cancelled"} /\ k \notin launched'
    BY <1>1, <1>2, <1>6, <2>1, RoutesStart DEF NotStarted
  <2>. QED
    BY <1>1, <1>6, <2>2 DEF NotStarted
<1>7. UploadsNotStarted' /\ CalledOffStays'
  BY <1>1, <1>3, <1>6 DEF IInv, TypeOK, UploadsNotStarted, CalledOffStays, Uploading, Evolves
<1>. QED
  BY <1>4, <1>5, <1>7 DEF IInv

LEMMA LoseKeeps ==
    ASSUME IInv, NEW f \in Functions, Lose(f)
    PROVE  IInv'
<1>1. /\ UNCHANGED <<record, launched, stray, state, stored, refs, calledOff>>
      /\ call \in [Functions -> Promises] /\ call[f] \in Promises /\ call[f].await \in Requests
      /\ PromiseOK(f, call[f])
  BY DEF Lose, IInv, TypeOK, CallsKnow
<1>2. /\ call' \in [Functions -> Promises]
      /\ call'[f].answer = "failed" /\ call'[f].job = call[f].job /\ call'[f].await = call[f].await
      /\ \A g \in Functions \ {f} : call'[g] = call[g]
  <2>. DEFINE c == [call[f] EXCEPT !.answer = "failed", !.job = call[f].job]
  <2>1. c \in Promises /\ c.answer = "failed" /\ c.job = call[f].job /\ c.await = call[f].await
    BY <1>1 DEF Promises, Answers
  <2>2. call' = [call EXCEPT ![f] = c]
    BY DEF Lose, Answered
  <2>. HIDE DEF c
  <2>. QED
    BY <1>1, <2>1, <2>2
<1>3. TypeOK'
  <2>1. faults' \in 0..MaxFaults
    BY FaultBound DEF Lose, Fail, IInv, TypeOK, ServerTypeOK
  <2>. QED
    BY <1>1, <1>2, <2>1 DEF IInv, TypeOK, ServerTypeOK
<1>4. PromiseOK(f, call[f])'
  BY <1>1, <1>2 DEF PromiseOK, Known, Requests, Terminal
<1>5. CallsKnow'
  BY <1>1, <1>2, <1>4 DEF IInv, CallsKnow, PromiseOK, Known
<1>6. HandlesKnown' /\ ShownIsTrue'
  BY <1>1 DEF IInv, HandlesKnown, Known, ShownIsTrue, Finished
<1>7. \A k \in Jobs : NotStarted(k) => NotStarted(k)'
  BY <1>1, <1>2 DEF NotStarted, Starts
<1>8. \A k \in Jobs : Uploading(k)' => Uploading(k)
  BY <1>1, <1>2 DEF Uploading, Uploads, Functions
<1>9. UploadsNotStarted' /\ CalledOffStays'
  BY <1>1, <1>7, <1>8 DEF IInv, TypeOK, UploadsNotStarted, CalledOffStays
<1>. QED
  BY <1>3, <1>5, <1>6, <1>9 DEF IInv

---------------------------------------------------------------------------
(* Steps of the browser                                                      *)
\* The browser sends no start but the one submit() came to, and calls off only
\* what submit() was about to start.
LEMMA ClientKeeps ==
    ASSUME IInv, UNCHANGED <<record, launched>>, TypeOK', CallsKnow',
           \A f \in Functions, j \in Jobs :
               Starts(call'[f], j) =>
                   Starts(call[f], j) \/ (Uploading(j) /\ ~Uploading(j)' /\ j \notin calledOff'),
           \A j \in Jobs : Uploading(j)' => Uploading(j),
           \A j \in Jobs : <<"startJob", j>> \in stray' =>
               <<"startJob", j>> \in stray \/ \E f \in Functions : Starts(call[f], j),
           \A j \in calledOff' : j \in calledOff \/ (Uploading(j) /\ ~Uploading(j)')
    PROVE  UploadsNotStarted' /\ CalledOffStays'
<1>1. \A j \in Jobs : Uploading(j) => Known(j)
  BY UseJobConstants DEF IInv, CallsKnow, PromiseOK, Uploading, Uploads, Functions
<1>2. ASSUME NEW j \in Jobs, NotStarted(j), j \in calledOff' \/ Uploading(j)' \/ ~Uploading(j)
      PROVE  NotStarted(j)'
  BY <1>2 DEF NotStarted
<1>3. UploadsNotStarted'
  <2>1. ASSUME NEW j \in Jobs, Uploading(j)' PROVE NotStarted(j)'
    BY <1>2, <2>1 DEF IInv, UploadsNotStarted
  <2>2. ASSUME NEW j \in Jobs, record'[j] = "none" PROVE NotStarted(j)'
    BY <1>1, <1>2, <2>2 DEF IInv, UploadsNotStarted, Known
  <2>. QED
    BY <2>1, <2>2 DEF UploadsNotStarted
<1>4. ASSUME NEW j \in calledOff' PROVE NotStarted(j)' /\ record'[j] # "none" /\ ~Uploading(j)'
  <2>1. j \in Jobs
    BY DEF TypeOK
  <2>2. CASE j \in calledOff
    BY <1>2, <2>1, <2>2 DEF IInv, CalledOffStays
  <2>3. CASE Uploading(j) /\ ~Uploading(j)'
    BY <1>1, <1>2, <2>1, <2>3 DEF IInv, UploadsNotStarted, Known
  <2>. QED
    BY <2>2, <2>3
<1>. QED
  BY <1>3, <1>4 DEF CalledOffStays

\* A continuation changes its own promise, and what it puts into the refs, the
\* state and the storage is what they held or what it was about.
LEMMA ContinuationKeeps ==
    ASSUME IInv, NEW f \in Functions, NEW c \in Promises, call' = [call EXCEPT ![f] = c],
           UNCHANGED <<record, launched, faults, stray, calledOff>>,
           PromiseOK(f, c),
           \A j \in Jobs : Starts(c, j) =>
               Starts(call[f], j) \/ (f = "submit" /\ Uploading(j) /\ ~Uploads(c, j)),
           \A j \in Jobs : f = "submit" /\ Uploads(c, j) => Uploading(j),
           state' \in Screens, stored' \in MaybeJob, refs' \in Watches,
           state'.job \in {None, state.job, call[f].job},
           stored' \in {None, stored, call[f].job},
           refs'.timer \in {None, refs.timer, call[f].job},
           state'.status \in Terminal /\ ~state'.lost /\ ~state'.local =>
               \/ state'.status = state.status /\ ~state.lost /\ ~state.local
               \/ state'.status = call[f].answer
    PROVE  IInv'
<1>1. /\ call' \in [Functions -> Promises] /\ call'[f] = c /\ PromiseOK(f, call[f])
      /\ \A g \in Functions \ {f} : call'[g] = call[g]
  BY DEF IInv, TypeOK, CallsKnow
<1>2. TypeOK'
  BY <1>1 DEF IInv, TypeOK, ServerTypeOK
<1>3. CallsKnow'
  BY <1>1 DEF IInv, CallsKnow, PromiseOK, Known
<1>4. HandlesKnown'
  BY <1>1 DEF IInv, HandlesKnown, PromiseOK, Known
<1>5. ShownIsTrue'
  BY <1>1 DEF IInv, ShownIsTrue, Finished, PromiseOK, Known
<1>6. \A j \in Jobs : Uploading(j)' => Uploading(j)
  BY <1>1 DEF Uploading, Functions
<1>7. \A g \in Functions, j \in Jobs :
         Starts(call'[g], j) =>
             Starts(call[g], j) \/ (Uploading(j) /\ ~Uploading(j)' /\ j \notin calledOff')
  BY <1>1 DEF Uploading, IInv, CalledOffStays
<1>8. UploadsNotStarted' /\ CalledOffStays'
  BY <1>2, <1>3, <1>6, <1>7, ClientKeeps
<1>. QED
  BY <1>2, <1>3, <1>4, <1>5, <1>8 DEF IInv

LEMMA Parts ==
    ASSUME IInv
    PROVE  /\ state \in Screens /\ state.job \in MaybeJob
           /\ refs \in Watches /\ refs.timer \in MaybeJob
           /\ stored \in MaybeJob
           /\ \A f \in Functions :
                /\ call[f] \in Promises /\ call[f].job \in MaybeJob /\ PromiseOK(f, call[f])
                /\ call[f].answer \in {"none"} \cup Answers
BY DEF IInv, TypeOK, Screens, Watches, Promises, CallsKnow

LEMMA Numbers ==
    0 \in 0..DEAD_POLLS /\ DEAD_POLLS \in 0..DEAD_POLLS /\ 0 \in 0..(LAUNCH_RETRY_POLLS - 1)
BY UseJobConstants

LEMMA DonePromise ==
    ASSUME NEW f
    PROVE  /\ Done \in Promises /\ PromiseOK(f, Done)
           /\ \A j \in Jobs : ~Starts(Done, j) /\ ~Uploads(Done, j)
BY UseJobConstants DEF Done, Promises, MaybeJob, PromiseOK, Starts, Uploads, Terminal

LEMMA AskPromise ==
    ASSUME NEW request \in Requests \cup {"uploadFile"}, NEW j \in MaybeJob
    PROVE  /\ Ask(request, j) \in Promises
           /\ Ask(request, j).await = request /\ Ask(request, j).job = j
           /\ Ask(request, j).answer = "none"
BY DEF Ask, Done, Promises, MaybeJob

LEMMA WatchSteps ==
    ASSUME NEW r \in Watches, NEW j \in MaybeJob
    PROVE  /\ Still \in Watches /\ Still.timer = None
           /\ StartPolling(j) \in Watches /\ StartPolling(j).timer = j
           /\ Landed(r) \in Watches /\ Landed(r).timer = r.timer
           /\ [r EXCEPT !.timer = None] \in Watches /\ [r EXCEPT !.timer = None].timer = None
           /\ [r EXCEPT !.failures = 0] \in Watches /\ [r EXCEPT !.failures = 0].timer = r.timer
           /\ [r EXCEPT !.queuedPolls = 0] \in Watches /\ [r EXCEPT !.queuedPolls = 0].timer = r.timer
           /\ [r EXCEPT !.inFlight = TRUE] \in Watches /\ [r EXCEPT !.inFlight = TRUE].timer = r.timer
           /\ [r EXCEPT !.failures = 0, !.queuedPolls = 0] \in Watches
           /\ [r EXCEPT !.failures = 0, !.queuedPolls = 0].timer = r.timer
BY Numbers DEF Still, StartPolling, Landed, Watches, MaybeJob

\* What the browser shows when a job has ended, or its own start has failed.
LEMMA ScreenSteps ==
    ASSUME NEW s \in Screens, NEW status \in Open \cup Terminal, NEW j \in MaybeJob
    PROVE  /\ INITIAL \in Screens /\ INITIAL.status = "idle" /\ INITIAL.job = None
           /\ Settle(s, status) \in Screens
           /\ Settle(s, status).status = status /\ Settle(s, status).job = s.job
BY DEF INITIAL, Settle, Screens, MaybeJob, Open, Terminal

LEMMA SubmitHears ==
    ASSUME IInv, Hear("submit")
    PROVE  IInv'
<1>. DEFINE f == "submit"
            j == call[f].job
<1>1. /\ f \in Functions /\ call[f] \in Promises /\ j \in MaybeJob /\ PromiseOK(f, call[f])
      /\ state \in Screens /\ refs \in Watches /\ stored \in MaybeJob
  BY Parts DEF Functions
<1>2. /\ UNCHANGED <<record, launched, faults, stray, calledOff>>
      /\ OnCreated \/ OnUploaded \/ OnStarted
  BY UseJobConstants DEF Hear, serverVars
<1>3. CASE SubmitFails
  <2>1. /\ state' \in Screens /\ state'.job = None /\ state'.local
        /\ stored' = None /\ refs' = refs /\ call' = [call EXCEPT ![f] = Done]
    BY <1>1, <1>3 DEF SubmitFails, Returns, Screens, MaybeJob, Terminal
  <2>. QED
    BY <1>1, <1>2, <2>1, DonePromise, ContinuationKeeps DEF MaybeJob
<1>4. CASE OnCreated /\ ~SubmitFails
  <2>1. /\ Uploads(call[f], j) /\ j # None
        /\ state' = [state EXCEPT !.job = j] /\ stored' = j /\ refs' = refs
        /\ call' = [call EXCEPT ![f] = Ask("uploadFile", j)]
    BY <1>1, <1>4 DEF OnCreated, Calls, Awaiting, Uploads, PromiseOK
  <2>2. state' \in Screens /\ state'.job = j /\ state'.status = state.status
        /\ state'.lost = state.lost /\ state'.local = state.local
    BY <1>1, <2>1 DEF Screens
  <2>3. LET c == Ask("uploadFile", j)
        IN  c \in Promises /\ c.await = "uploadFile" /\ c.job = j /\ c.answer = "none"
    BY <1>1, AskPromise
  <2>4. PromiseOK(f, Ask("uploadFile", j))
    BY <1>1, <2>1, <2>3 DEF PromiseOK, Terminal
  <2>5. /\ \A k \in Jobs : ~Starts(Ask("uploadFile", j), k)
        /\ \A k \in Jobs : Uploads(Ask("uploadFile", j), k) => Uploading(k)
    BY <1>1, <2>1, <2>3 DEF Starts, Uploads, Uploading
  <2>. QED
    BY <1>1, <1>2, <2>1, <2>2, <2>3, <2>4, <2>5, ContinuationKeeps
<1>5. CASE OnUploaded /\ ~SubmitFails
  <2>1. /\ Uploads(call[f], j) /\ j # None
        /\ state' = state /\ stored' = stored /\ refs' = refs
        /\ call' = [call EXCEPT ![f] = Ask("startJob", j)]
    BY <1>1, <1>5 DEF OnUploaded, Calls, Awaiting, Uploads, PromiseOK
  <2>2. PromiseOK(f, Ask("startJob", j)) /\ Ask("startJob", j) \in Promises
    BY <1>1, <2>1, AskPromise DEF PromiseOK, Terminal, Requests
  <2>3. /\ \A k \in Jobs : Starts(Ask("startJob", j), k) =>
             Uploading(k) /\ ~Uploads(Ask("startJob", j), k)
        /\ \A k \in Jobs : ~Uploads(Ask("startJob", j), k)
    BY <1>1, <2>1, AskPromise DEF Starts, Uploads, Uploading, Requests
  <2>. QED
    BY <1>1, <1>2, <2>1, <2>2, <2>3, ContinuationKeeps
<1>6. CASE OnStarted /\ ~SubmitFails
  <2>1. /\ state' = [state EXCEPT !.status = "queued"] /\ stored' = stored
        /\ refs' = StartPolling(j) /\ call' = [call EXCEPT ![f] = Done]
    BY <1>6 DEF OnStarted, Returns
  <2>2. state' \in Screens /\ state'.job = state.job /\ state'.status \notin Terminal
    BY <1>1, <2>1 DEF Screens, Open, Terminal
  <2>. QED
    BY <1>1, <1>2, <2>1, <2>2, DonePromise, WatchSteps, ContinuationKeeps
<1>. QED
  BY <1>2, <1>3, <1>4, <1>5, <1>6

LEMMA AskOK ==
    ASSUME NEW f \in Functions, NEW request \in {"getJob", "relaunch", "cancelJob"},
           NEW j \in Jobs, Known(j),
           request = "getJob" => f \in Polls \cup {"reconnect", "mount"},
           request = "relaunch" => f \in Polls,
           request = "cancelJob" => f = "cancel"
    PROVE  /\ Ask(request, j) \in Promises /\ PromiseOK(f, Ask(request, j))
           /\ \A k \in Jobs : ~Uploads(Ask(request, j), k)
           /\ request # "relaunch" => \A k \in Jobs : ~Starts(Ask(request, j), k)
           /\ \A k \in Jobs : Starts(Ask(request, j), k) => k = j
<1>1. request \in Requests /\ j \in MaybeJob /\ j # None
  BY UseJobConstants DEF Requests, MaybeJob
<1>2. /\ Ask(request, j) \in Promises /\ Ask(request, j).await = request
      /\ Ask(request, j).job = j /\ Ask(request, j).answer = "none"
  BY <1>1, AskPromise
<1>. QED
  BY <1>1, <1>2 DEF PromiseOK, Uploads, Starts, Terminal

LEMMA SubmitKeeps ==
    ASSUME IInv, Submit
    PROVE  IInv'
<1>1. /\ call' = [call EXCEPT !["submit"] = Ask("createUploads", None)]
      /\ state' = [INITIAL EXCEPT !.status = "uploading"]
      /\ UNCHANGED <<record, launched, faults, stray, stored, refs, calledOff>>
  BY DEF Submit, Calls, serverVars
<1>2. state' \in Screens /\ state'.job = None /\ state'.status \notin Terminal
  BY <1>1 DEF INITIAL, Screens, MaybeJob, Terminal
<1>3. LET c == Ask("createUploads", None)
      IN  c \in Promises /\ c.await = "createUploads" /\ c.job = None /\ c.answer = "none"
  BY AskPromise DEF Requests, MaybeJob
<1>4. PromiseOK("submit", Ask("createUploads", None))
  BY <1>3 DEF PromiseOK, Terminal
<1>5. \A j \in Jobs : ~Starts(Ask("createUploads", None), j) /\ ~Uploads(Ask("createUploads", None), j)
  BY <1>3 DEF Starts, Uploads
<1>. QED
  BY <1>1, <1>2, <1>3, <1>4, <1>5, Parts, ContinuationKeeps DEF Functions

LEMMA TickKeeps ==
    ASSUME IInv, NEW p \in Polls, Tick(p)
    PROVE  IInv'
<1>. DEFINE j == refs.timer
            c == Ask("getJob", j)
<1>1. /\ call' = [call EXCEPT ![p] = c]
      /\ refs' = [refs EXCEPT !.inFlight = TRUE]
      /\ UNCHANGED <<record, launched, faults, stray, state, stored, calledOff>>
      /\ j \in Jobs /\ Known(j) /\ p \in Functions /\ p # "submit"
  BY UseJobConstants DEF Tick, Calls, serverVars, IInv, HandlesKnown, Known, Functions
<1>2. /\ c \in Promises /\ PromiseOK(p, c)
      /\ \A k \in Jobs : ~Starts(c, k) /\ ~Uploads(c, k)
  BY <1>1, AskOK
<1>3. refs' \in Watches /\ refs'.timer = refs.timer
  BY <1>1, Parts, WatchSteps
<1>. HIDE DEF c
<1>. QED
  BY <1>1, <1>2, <1>3, Parts, ContinuationKeeps

LEMMA ReconnectKeeps ==
    ASSUME IInv, Reconnect
    PROVE  IInv'
<1>. DEFINE j == state.job
            c == Ask("getJob", j)
<1>1. /\ call' = [call EXCEPT !["reconnect"] = c]
      /\ UNCHANGED <<record, launched, faults, stray, state, stored, refs, calledOff>>
      /\ j \in Jobs /\ Known(j) /\ "reconnect" \in Functions
  BY DEF Reconnect, Calls, serverVars, IInv, HandlesKnown, Known, Functions
<1>2. /\ c \in Promises /\ PromiseOK("reconnect", c)
      /\ \A k \in Jobs : ~Starts(c, k) /\ ~Uploads(c, k)
  BY <1>1, AskOK
<1>. HIDE DEF c
<1>. QED
  BY <1>1, <1>2, Parts, ContinuationKeeps

\* A continuation that ends with its promise: it starts nothing.
LEMMA EndingKeeps ==
    ASSUME IInv, NEW f \in Functions, Returns(f),
           UNCHANGED <<record, launched, faults, stray, calledOff>>,
           state' \in Screens, stored' \in MaybeJob, refs' \in Watches,
           state'.job \in {None, state.job, call[f].job},
           stored' \in {None, stored, call[f].job},
           refs'.timer \in {None, refs.timer, call[f].job},
           state'.status \in Terminal /\ ~state'.lost /\ ~state'.local =>
               \/ state'.status = state.status /\ ~state.lost /\ ~state.local
               \/ state'.status = call[f].answer
    PROVE  IInv'
<1>1. call' = [call EXCEPT ![f] = Done]
  BY DEF Returns
<1>2. /\ Done \in Promises /\ PromiseOK(f, Done)
      /\ \A j \in Jobs : ~Starts(Done, j) /\ ~Uploads(Done, j)
  BY DonePromise
<1>. QED
  BY <1>1, <1>2, ContinuationKeeps

LEMMA SettlesOK ==
    ASSUME state \in Screens, refs \in Watches, NEW status \in Open \cup Terminal, Settles(status)
    PROVE  /\ state' \in Screens /\ state'.job = state.job /\ state'.status = status
           /\ stored' = None /\ refs' \in Watches /\ refs'.timer = None
BY ScreenSteps, WatchSteps DEF Settles, StopPolling, MaybeJob

\* The counters stay below the limits at which poll() acts.
LEMMA CountSteps ==
    ASSUME NEW r \in Watches
    PROVE  /\ LET s == Landed([[r EXCEPT !.timer = None] EXCEPT !.failures = DEAD_POLLS])
              IN  s \in Watches /\ s.timer = None
           /\ r.failures + 1 < DEAD_POLLS =>
                  LET s == Landed([r EXCEPT !.failures = @ + 1])
                  IN  s \in Watches /\ s.timer = r.timer
           /\ ~(r.queuedPolls + 1 >= LAUNCH_RETRY_POLLS) =>
                  LET s == Landed([r EXCEPT !.failures = 0, !.queuedPolls = @ + 1])
                  IN  s \in Watches /\ s.timer = r.timer
<1>1. r.failures \in 0..DEAD_POLLS /\ r.queuedPolls \in 0..(LAUNCH_RETRY_POLLS - 1)
  BY DEF Watches
<1>2. r.failures + 1 < DEAD_POLLS => r.failures + 1 \in 0..DEAD_POLLS
  BY <1>1, UseJobConstants
<1>3. ~(r.queuedPolls + 1 >= LAUNCH_RETRY_POLLS) => r.queuedPolls + 1 \in 0..(LAUNCH_RETRY_POLLS - 1)
  BY <1>1, UseJobConstants
<1>. DEFINE n == r.failures + 1
            m == r.queuedPolls + 1
<1>4. r.failures + 1 < DEAD_POLLS =>
        LET s == Landed([r EXCEPT !.failures = n]) IN s \in Watches /\ s.timer = r.timer
  BY <1>2 DEF Landed, Watches
<1>5. ~(r.queuedPolls + 1 >= LAUNCH_RETRY_POLLS) =>
        LET s == Landed([r EXCEPT !.failures = 0, !.queuedPolls = m])
        IN  s \in Watches /\ s.timer = r.timer
  BY <1>3, Numbers DEF Landed, Watches
<1>6. LET s == Landed([[r EXCEPT !.timer = None] EXCEPT !.failures = DEAD_POLLS])
      IN  s \in Watches /\ s.timer = None
  BY Numbers DEF Landed, Watches, MaybeJob
<1>. QED
  BY <1>4, <1>5, <1>6

LEMMA PollHears ==
    ASSUME IInv, NEW p \in Polls, Hear(p)
    PROVE  IInv'
<1>. DEFINE j == call[p].job
            a == call[p].answer
<1>1. /\ p \in Functions /\ call[p] \in Promises /\ j \in MaybeJob /\ PromiseOK(p, call[p])
      /\ a \in {"none"} \cup Answers
      /\ state \in Screens /\ state.job \in MaybeJob /\ refs \in Watches /\ refs.timer \in MaybeJob
      /\ stored \in MaybeJob
  BY Parts DEF Functions
<1>2. UNCHANGED <<record, launched, faults, stray, calledOff>> /\ OnPoll(p) /\ p # "submit"
  BY UseJobConstants DEF Hear, serverVars
<1>3. CASE PollFails(p)
  <2>1. /\ Returns(p) /\ stored' = stored
        /\ \/ /\ refs' = Landed([StopPolling EXCEPT !.failures = DEAD_POLLS])
              /\ state' = [state EXCEPT !.status = "error", !.lost = TRUE]
           \/ /\ refs' = Landed([refs EXCEPT !.failures = @ + 1])
              /\ refs.failures + 1 < DEAD_POLLS /\ state' = state
    BY <1>1, UseJobConstants, <1>3 DEF PollFails, Polled, Watches
  <2>2. refs' \in Watches /\ refs'.timer \in {None, refs.timer}
    BY <1>1, <2>1, CountSteps DEF StopPolling
  <2>3. state' \in Screens /\ state'.job = state.job /\ (state' = state \/ state'.lost)
    BY <1>1, <2>1 DEF Screens, Terminal
  <2>. QED
    BY <1>1, <1>2, <2>1, <2>2, <2>3, EndingKeeps
<1>4. CASE a = "queued" /\ Awaiting(p, "getJob") /\ PollQueued(p)
  <2>1. state' = state /\ stored' = stored
    BY <1>4 DEF PollQueued
  <2>2. CASE refs.queuedPolls + 1 >= LAUNCH_RETRY_POLLS
    <3>. DEFINE c == Ask("relaunch", j)
    <3>1. call' = [call EXCEPT ![p] = c] /\ refs' = [refs EXCEPT !.failures = 0, !.queuedPolls = 0]
      BY <1>4, <2>2 DEF PollQueued, Calls
    <3>2. refs' \in Watches /\ refs'.timer = refs.timer
      BY <1>1, <3>1, WatchSteps
    <3>3. j \in Jobs /\ Known(j) /\ Starts(call[p], j)
      BY <1>1, <1>4 DEF PromiseOK, Known, Awaiting, Starts
    <3>4. /\ c \in Promises /\ PromiseOK(p, c)
          /\ \A k \in Jobs : ~Uploads(c, k)
          /\ \A k \in Jobs : Starts(c, k) => Starts(call[p], k)
      BY <1>1, <3>3, AskOK
    <3>. HIDE DEF c
    <3>. QED
      BY <1>1, <1>2, <2>1, <3>1, <3>2, <3>4, ContinuationKeeps
  <2>3. CASE ~(refs.queuedPolls + 1 >= LAUNCH_RETRY_POLLS)
    <3>1. Returns(p) /\ refs' = Landed([refs EXCEPT !.failures = 0, !.queuedPolls = @ + 1])
      BY <1>4, <2>3 DEF PollQueued, Polled
    <3>2. refs' \in Watches /\ refs'.timer = refs.timer
      BY <1>1, <2>3, <3>1, CountSteps
    <3>. QED
      BY <1>1, <1>2, <2>1, <3>1, <3>2, EndingKeeps
  <2>. QED
    BY <2>2, <2>3
<1>. DEFINE heard == Landed([refs EXCEPT !.failures = 0, !.queuedPolls = 0])
<1>5. heard \in Watches /\ heard.timer = refs.timer
  BY <1>1, WatchSteps
<1>6. [heard EXCEPT !.timer = None] \in Watches /\ [heard EXCEPT !.timer = None].timer = None
  BY <1>1, <1>5, WatchSteps
<1>. HIDE DEF heard
<1>7. CASE /\ a \in Terminal /\ Returns(p) /\ state' = Settle(state, a)
           /\ stored' = None /\ refs' = [heard EXCEPT !.timer = None]
  <2>1. state' \in Screens /\ state'.status = a /\ state'.job = state.job
    BY <1>1, <1>7, ScreenSteps
  <2>. QED
    BY <1>1, <1>2, <1>6, <1>7, <2>1, EndingKeeps DEF MaybeJob
<1>8. CASE Returns(p) /\ refs' = heard /\ UNCHANGED <<state, stored>>
  BY <1>1, <1>2, <1>5, <1>8, EndingKeeps
<1>9. CASE OnRelaunched(p)
  <2>1. Returns(p) /\ refs' = Landed(refs) /\ UNCHANGED <<state, stored>>
    BY <1>9 DEF OnRelaunched, Polled
  <2>2. refs' \in Watches /\ refs'.timer = refs.timer
    BY <1>1, <2>1, WatchSteps
  <2>. QED
    BY <1>1, <1>2, <2>1, <2>2, EndingKeeps
<1>10. CASE Awaiting(p, "getJob") /\ PollAnswered(p)
  <2>1. CASE a = "failed"
    BY <1>3, <1>10, <2>1 DEF PollAnswered, Terminal
  <2>2. CASE a = "queued"
    BY <1>4, <1>10, <2>2 DEF PollAnswered, Terminal
  <2>3. CASE a \in Terminal
    BY <1>7, <1>10, <2>3 DEF PollAnswered, Terminal, Polled, heard
  <2>4. CASE a \notin Terminal \cup {"failed", "queued"}
    BY <1>8, <1>10, <2>4 DEF PollAnswered, Polled, heard
  <2>. QED
    BY <2>1, <2>2, <2>3, <2>4
<1>. QED
  BY <1>2, <1>9, <1>10 DEF OnPoll

LEMMA ReconnectHears ==
    ASSUME IInv, OnReconnect, UNCHANGED <<serverVars, stray, calledOff>>
    PROVE  IInv'
<1>. DEFINE j == call["reconnect"].job
            a == call["reconnect"].answer
<1>1. /\ "reconnect" \in Functions /\ j \in MaybeJob
      /\ a \in Answers /\ a # "ok"
      /\ state \in Screens /\ refs \in Watches /\ stored \in MaybeJob
      /\ Returns("reconnect") /\ UNCHANGED <<record, launched, faults, stray, calledOff>>
  <2>1. "reconnect" \in Functions /\ "reconnect" \notin Polls
    BY UseJobConstants DEF Functions
  <2>2. PromiseOK("reconnect", call["reconnect"]) /\ call["reconnect"] \in Promises
    BY <2>1, Parts
  <2>3. call["reconnect"].await \in {"getJob", "none"}
    BY <2>1, <2>2 DEF PromiseOK, Promises, Requests
  <2>. QED
    BY <2>1, <2>2, <2>3, Parts DEF OnReconnect, serverVars, PromiseOK
<1>2. CASE a \in Terminal
  <2>1. Settles(a)
    BY <1>2 DEF OnReconnect, Terminal
  <2>2. /\ state' \in Screens /\ state'.job = state.job /\ state'.status = a
        /\ stored' = None /\ refs' \in Watches /\ refs'.timer = None
    BY <1>1, <1>2, <2>1, SettlesOK
  <2>. QED
    BY <1>1, <2>2, EndingKeeps DEF MaybeJob
<1>3. CASE a = "failed"
  <2>1. state' = [state EXCEPT !.status = "error", !.lost = TRUE] /\ UNCHANGED <<stored, refs>>
    BY <1>3 DEF OnReconnect, Terminal
  <2>2. state' \in Screens /\ state'.job = state.job /\ state'.lost
    BY <1>1, <2>1 DEF Screens, Terminal
  <2>. QED
    BY <1>1, <2>1, <2>2, EndingKeeps
<1>4. CASE a \in Open
  <2>1. /\ state' = [state EXCEPT !.status = a, !.lost = FALSE, !.local = FALSE]
        /\ refs' = StartPolling(j) /\ UNCHANGED stored
    BY <1>4 DEF OnReconnect, Terminal, Open
  <2>2. state' \in Screens /\ state'.job = state.job /\ state'.status \notin Terminal
    BY <1>1, <1>4, <2>1 DEF Screens, Terminal, Open
  <2>3. refs' \in Watches /\ refs'.timer = j
    BY <1>1, <2>1, WatchSteps
  <2>. QED
    BY <1>1, <2>1, <2>2, <2>3, EndingKeeps
<1>. QED
  BY <1>1, <1>2, <1>3, <1>4 DEF Answers

LEMMA MountHears ==
    ASSUME IInv, OnMount, UNCHANGED <<serverVars, stray, calledOff>>
    PROVE  IInv'
<1>. DEFINE j == call["mount"].job
            a == call["mount"].answer
<1>1. /\ "mount" \in Functions /\ j \in MaybeJob
      /\ state \in Screens /\ refs \in Watches /\ stored \in MaybeJob
      /\ Returns("mount") /\ UNCHANGED <<record, launched, faults, stray, calledOff>>
  BY Parts DEF OnMount, Functions, serverVars
<1>2. CASE a \in Open
  <2>1. /\ state' = [state EXCEPT !.job = j, !.status = a]
        /\ refs' = StartPolling(j) /\ UNCHANGED stored
    BY <1>2 DEF OnMount
  <2>2. state' \in Screens /\ state'.job = j /\ state'.status \notin Terminal
    BY <1>1, <1>2, <2>1 DEF Screens, Terminal, Open
  <2>3. refs' \in Watches /\ refs'.timer = j
    BY <1>1, <2>1, WatchSteps
  <2>. QED
    BY <1>1, <2>1, <2>2, <2>3, EndingKeeps
<1>3. CASE a \notin Open
  <2>1. stored' = None /\ UNCHANGED <<state, refs>>
    BY <1>3 DEF OnMount
  <2>. QED
    BY <1>1, <2>1, EndingKeeps DEF MaybeJob
<1>. QED
  BY <1>2, <1>3

LEMMA CancelHears ==
    ASSUME IInv, OnCancel \/ OnDetails, UNCHANGED <<serverVars, stray, calledOff>>
    PROVE  IInv'
<1>. DEFINE f == "cancel"
            a == call[f].answer
<1>1. /\ f \in Functions /\ f # "submit" /\ call[f] \in Promises /\ PromiseOK(f, call[f])
      /\ call \in [Functions -> Promises] /\ a \in {"none"} \cup Answers
      /\ state \in Screens /\ refs \in Watches /\ stored \in MaybeJob
      /\ UNCHANGED <<record, launched, faults, stray, calledOff>>
  BY Parts DEF Functions, serverVars, IInv, TypeOK
<1>2. CASE OnDetails
  <2>1. Settles(a) /\ Returns(f) /\ a \in Terminal
    BY <1>1, <1>2 DEF OnDetails, PromiseOK, Awaiting
  <2>2. /\ state' \in Screens /\ state'.job = state.job /\ state'.status = a
        /\ stored' = None /\ refs' \in Watches /\ refs'.timer = None
    BY <1>1, <2>1, SettlesOK
  <2>. QED
    BY <1>1, <2>1, <2>2, EndingKeeps DEF MaybeJob
<1>3. CASE OnCancel /\ a = "failed"
  <2>1. state' = [state EXCEPT !.cancelError = TRUE] /\ Returns(f) /\ UNCHANGED <<stored, refs>>
    BY <1>3 DEF OnCancel
  <2>2. /\ state' \in Screens /\ state'.job = state.job /\ state'.status = state.status
        /\ state'.lost = state.lost /\ state'.local = state.local
    BY <1>1, <2>1 DEF Screens
  <2>. QED
    BY <1>1, <2>1, <2>2, EndingKeeps
<1>4. CASE OnCancel /\ a = "cancelled"
  <2>1. refs' = StopPolling /\ stored' = None /\ state' = INITIAL /\ Returns(f)
    BY <1>4 DEF OnCancel
  <2>2. refs' \in Watches /\ refs'.timer = None
    BY <1>1, <2>1, WatchSteps DEF StopPolling, MaybeJob
  <2>3. state' \in Screens /\ state'.job = None /\ state'.status = "idle"
    BY <2>1 DEF INITIAL, Screens, MaybeJob
  <2>. QED
    BY <1>1, <2>1, <2>2, <2>3, EndingKeeps DEF MaybeJob, Terminal
<1>5. CASE OnCancel /\ a \notin {"failed", "cancelled"}
  <2>. DEFINE c == [call[f] EXCEPT !.await = "details"]
  <2>1. /\ refs' = StopPolling /\ stored' = None /\ UNCHANGED state
        /\ call' = [call EXCEPT ![f] = c]
        /\ call[f].await = "cancelJob"
    BY <1>5 DEF OnCancel, Awaiting
  <2>2. refs' \in Watches /\ refs'.timer = None
    BY <1>1, <2>1, WatchSteps DEF StopPolling, MaybeJob
  <2>3. c \in Promises /\ c.await = "details" /\ c.job = call[f].job /\ c.answer = a
    BY <1>1 DEF Promises
  <2>4. a \in Terminal
    BY <1>1, <1>5, <2>1 DEF OnCancel, PromiseOK
  <2>. HIDE DEF c
  <2>5. PromiseOK(f, c)
    BY <1>1, <2>1, <2>3, <2>4 DEF PromiseOK
  <2>6. \A k \in Jobs : ~Starts(c, k) /\ ~Uploads(c, k)
    BY <2>3 DEF Starts, Uploads
  <2>. QED
    BY <1>1, <2>1, <2>2, <2>3, <2>5, <2>6, ContinuationKeeps, Parts DEF MaybeJob
<1>. QED
  BY <1>2, <1>3, <1>4, <1>5

LEMMA Travels ==
    ASSUME IInv, NEW fs \in SUBSET Functions, NEW r \in Travelling(fs)
    PROVE  /\ r \in {"startJob", "cancelJob"} \X Jobs /\ Known(r[2])
           /\ r[1] = "startJob" => \E f \in Functions : Starts(call[f], r[2])
<1>1. PICK f \in fs : /\ call[f].await \in DOMAIN AsSent
                      /\ r = <<AsSent[call[f].await], call[f].job>>
  BY DEF Travelling
<1>2. PromiseOK(f, call[f])
  BY <1>1, Parts
<1>3. call[f].await \in {"startJob", "relaunch", "cancelJob"}
  BY <1>1 DEF AsSent
<1>4. Known(call[f].job)
  BY <1>2, <1>3 DEF PromiseOK
<1>5. AsSent[call[f].await] \in {"startJob", "cancelJob"}
      /\ (AsSent[call[f].await] = "startJob" => call[f].await \in {"startJob", "relaunch"})
  BY <1>3 DEF AsSent
<1>. QED
  BY <1>1, <1>4, <1>5 DEF Known, Starts

\* The browser drops promises: what was sent travels on, and an upload that was
\* under way is called off.
LEMMA DroppingKeeps ==
    ASSUME IInv, UNCHANGED <<record, launched>>, faults' \in 0..MaxFaults,
           call' \in [Functions -> Promises],
           \A f \in Functions : PromiseOK(f, call'[f]),
           \A f \in Functions, j \in Jobs : Starts(call'[f], j) => Starts(call[f], j),
           \A j \in Jobs : ~Uploads(call'["submit"], j),
           NEW fs \in SUBSET Functions, stray' = stray \cup Travelling(fs),
           calledOff' = calledOff \cup
               (IF Awaiting("submit", "uploadFile") THEN {call["submit"].job} ELSE {}),
           state' \in Screens, stored' \in MaybeJob, refs' \in Watches,
           state'.job \in {None, state.job}, stored' \in {None, stored},
           refs'.timer \in {None, refs.timer},
           \/ state'.status = state.status /\ state'.lost = state.lost /\ state'.local = state.local
           \/ state'.status \notin Terminal
    PROVE  IInv'
<1>1. \A j \in calledOff' : j \in calledOff \/ (j \in Jobs /\ Uploading(j))
  <2>1. ASSUME Awaiting("submit", "uploadFile")
        PROVE  call["submit"].job \in Jobs /\ Uploading(call["submit"].job)
    BY <2>1, Parts DEF Functions, Awaiting, PromiseOK, Known, Uploading, Uploads
  <2>. QED
    BY <2>1
<1>2. \A r \in Travelling(fs) :
         /\ r \in {"startJob", "cancelJob"} \X Jobs /\ Known(r[2])
         /\ r[1] = "startJob" => \E f \in Functions : Starts(call[f], r[2])
  BY Travels
<1>3. TypeOK'
  BY <1>1, <1>2 DEF IInv, TypeOK, ServerTypeOK
<1>4. CallsKnow'
  BY DEF CallsKnow, PromiseOK, Known
<1>5. HandlesKnown'
  BY <1>2 DEF IInv, HandlesKnown, Known
<1>6. ShownIsTrue'
  BY DEF IInv, ShownIsTrue, Finished
<1>7. \A j \in Jobs : ~Uploading(j)'
  BY DEF Uploading
<1>8. \A j \in Jobs : <<"startJob", j>> \in stray' =>
         <<"startJob", j>> \in stray \/ \E f \in Functions : Starts(call[f], j)
  BY <1>2
<1>9. \A j \in calledOff' : j \in calledOff \/ (Uploading(j) /\ ~Uploading(j)')
  BY <1>1, <1>7
<1>10. UploadsNotStarted' /\ CalledOffStays'
  BY <1>3, <1>4, <1>7, <1>8, <1>9, ClientKeeps
<1>. QED
  BY <1>3, <1>4, <1>5, <1>6, <1>10 DEF IInv

LEMMA CancelKeeps ==
    ASSUME IInv, Cancel
    PROVE  IInv'
<1>. DEFINE c == Ask("cancelJob", state.job)
<1>1. /\ call' = [call EXCEPT !["submit"] = Done, !["cancel"] = c]
      /\ AbortSubmit
      /\ state' = [state EXCEPT !.cancelError = FALSE]
      /\ UNCHANGED <<record, launched, faults, stored, refs>>
      /\ Known(state.job) /\ state.job \in Jobs
  BY DEF Cancel, serverVars, IInv, HandlesKnown, Known
<1>2. "submit" \in Functions /\ "cancel" \in Functions /\ "submit" # "cancel"
      /\ call \in [Functions -> Promises] /\ faults \in 0..MaxFaults
  BY DEF Functions, IInv, TypeOK, ServerTypeOK
<1>3. /\ c \in Promises /\ PromiseOK("cancel", c)
      /\ \A k \in Jobs : ~Starts(c, k)
  BY <1>1, <1>2, AskOK
<1>4. /\ Done \in Promises /\ PromiseOK("submit", Done)
      /\ \A j \in Jobs : ~Starts(Done, j) /\ ~Uploads(Done, j)
  BY DonePromise
<1>5. /\ state' \in Screens /\ state'.job = state.job /\ state'.status = state.status
      /\ state'.lost = state.lost /\ state'.local = state.local
  BY <1>1, Parts DEF Screens
<1>. HIDE DEF c
<1>6. /\ call' \in [Functions -> Promises]
      /\ call'["submit"] = Done /\ call'["cancel"] = c
      /\ \A f \in Functions \ {"submit", "cancel"} : call'[f] = call[f]
  BY <1>1, <1>2, <1>3, <1>4
<1>7. /\ \A f \in Functions : PromiseOK(f, call'[f])
      /\ \A f \in Functions, j \in Jobs : Starts(call'[f], j) => Starts(call[f], j)
      /\ \A j \in Jobs : ~Uploads(call'["submit"], j)
  BY <1>3, <1>4, <1>6, Parts
<1>8. stray' = stray \cup Travelling({"submit"}) /\ {"submit"} \in SUBSET Functions
      /\ calledOff' = calledOff \cup
               (IF Awaiting("submit", "uploadFile") THEN {call["submit"].job} ELSE {})
  BY <1>1, <1>2 DEF AbortSubmit
<1>. QED
  BY <1>1, <1>2, <1>5, <1>6, <1>7, <1>8, Parts, DroppingKeeps

LEMMA ResetKeeps ==
    ASSUME IInv, Reset
    PROVE  IInv'
<1>1. /\ call' = [call EXCEPT !["submit"] = Done]
      /\ AbortSubmit
      /\ state' = INITIAL /\ stored' = None
      /\ refs' = [StopPolling EXCEPT !.queuedPolls = 0]
      /\ UNCHANGED <<record, launched, faults>>
  BY DEF Reset, serverVars
<1>2. "submit" \in Functions /\ call \in [Functions -> Promises] /\ faults \in 0..MaxFaults
  BY DEF Functions, IInv, TypeOK, ServerTypeOK
<1>3. /\ Done \in Promises /\ PromiseOK("submit", Done)
      /\ \A j \in Jobs : ~Starts(Done, j) /\ ~Uploads(Done, j)
  BY DonePromise
<1>4. state' \in Screens /\ state'.job = None /\ state'.status \notin Terminal
  BY <1>1 DEF INITIAL, Screens, MaybeJob, Terminal
<1>5. refs' \in Watches /\ refs'.timer = None
  BY <1>1, Parts, WatchSteps DEF StopPolling, MaybeJob
<1>6. /\ call' \in [Functions -> Promises] /\ call'["submit"] = Done
      /\ \A f \in Functions \ {"submit"} : call'[f] = call[f]
  BY <1>1, <1>2, <1>3
<1>7. /\ \A f \in Functions : PromiseOK(f, call'[f])
      /\ \A f \in Functions, j \in Jobs : Starts(call'[f], j) => Starts(call[f], j)
      /\ \A j \in Jobs : ~Uploads(call'["submit"], j)
  BY <1>3, <1>6, Parts
<1>8. stray' = stray \cup Travelling({"submit"}) /\ {"submit"} \in SUBSET Functions
      /\ calledOff' = calledOff \cup
               (IF Awaiting("submit", "uploadFile") THEN {call["submit"].job} ELSE {})
  BY <1>1, <1>2 DEF AbortSubmit
<1>. QED
  BY <1>1, <1>2, <1>4, <1>5, <1>6, <1>7, <1>8, DroppingKeeps DEF MaybeJob

LEMMA ReloadKeeps ==
    ASSUME IInv, Reload
    PROVE  IInv'
<1>. DEFINE c == IF stored = None THEN Done ELSE Ask("getJob", stored)
<1>1. /\ call' = [[f \in Functions |-> Done] EXCEPT !["mount"] = c]
      /\ stray' = stray \cup Travelling(Functions)
      /\ calledOff' = calledOff \cup
               (IF Awaiting("submit", "uploadFile") THEN {call["submit"].job} ELSE {})
      /\ state' = INITIAL /\ refs' = Still
      /\ UNCHANGED <<record, launched, stored>>
  BY DEF Reload
<1>2. faults' \in 0..MaxFaults
  BY FaultBound DEF Reload, Fail, IInv, TypeOK, ServerTypeOK
<1>3. \A f : /\ Done \in Promises /\ PromiseOK(f, Done)
            /\ \A j \in Jobs : ~Starts(Done, j) /\ ~Uploads(Done, j)
  BY DonePromise
<1>4. "mount" \in Functions /\ "submit" \in Functions /\ "mount" # "submit"
  BY DEF Functions
<1>5. /\ c \in Promises /\ PromiseOK("mount", c)
      /\ \A k \in Jobs : ~Starts(c, k)
  <2>1. CASE stored = None
    BY <1>3, <2>1
  <2>2. CASE stored # None
    <3>1. stored \in Jobs /\ Known(stored)
      BY <2>2 DEF IInv, HandlesKnown, Known
    <3>. QED
      BY <1>4, <2>2, <3>1, AskOK
  <2>. QED
    BY <2>1, <2>2
<1>. HIDE DEF c
<1>6. /\ call' \in [Functions -> Promises] /\ call'["mount"] = c
      /\ \A f \in Functions \ {"mount"} : call'[f] = Done
  BY <1>1, <1>3, <1>4, <1>5
<1>7. /\ \A f \in Functions : PromiseOK(f, call'[f])
      /\ \A f \in Functions, j \in Jobs : Starts(call'[f], j) => Starts(call[f], j)
      /\ \A j \in Jobs : ~Uploads(call'["submit"], j)
  BY <1>3, <1>4, <1>5, <1>6
<1>8. state' \in Screens /\ state'.job = None /\ state'.status \notin Terminal
  BY <1>1 DEF INITIAL, Screens, MaybeJob, Terminal
<1>9. refs' \in Watches /\ refs'.timer = None
  BY <1>1, Parts, WatchSteps DEF MaybeJob
<1>. QED
  BY <1>1, <1>2, <1>6, <1>7, <1>8, <1>9, Parts, DroppingKeeps

---------------------------------------------------------------------------
(* The invariant holds.                                                      *)
LEMMA InitIInv == Init => IInv
<1>. SUFFICES ASSUME Init PROVE IInv
  OBVIOUS
<1>1. /\ record = [j \in Jobs |-> "none"] /\ launched = {} /\ faults = MaxFaults
      /\ call = [f \in Functions |-> Done] /\ stray = {} /\ calledOff = {}
      /\ state = INITIAL /\ stored = None /\ refs = Still
  BY DEF Init, ServerInit
<1>2. \A f : /\ Done \in Promises /\ PromiseOK(f, Done)
            /\ \A j \in Jobs : ~Starts(Done, j) /\ ~Uploads(Done, j)
  BY DonePromise
<1>3. Still \in Watches /\ Still.timer = None
  BY Numbers DEF Still, Watches, MaybeJob
<1>4. INITIAL \in Screens /\ INITIAL.job = None /\ INITIAL.status = "idle"
  BY DEF INITIAL, Screens, MaybeJob
<1>5. ServerTypeOK
  BY <1>1, FaultBound DEF ServerTypeOK
<1>6. TypeOK
  BY <1>1, <1>2, <1>3, <1>4, <1>5 DEF TypeOK, MaybeJob
<1>7. CallsKnow /\ HandlesKnown /\ CalledOffStays
  BY <1>1, <1>2, <1>3, <1>4 DEF CallsKnow, HandlesKnown, CalledOffStays
<1>8. UploadsNotStarted
  <2>1. "submit" \in Functions
    BY DEF Functions
  <2>. QED
    BY <1>1, <1>2, <2>1 DEF UploadsNotStarted, NotStarted, Uploading
<1>9. ShownIsTrue
  BY <1>1, <1>4 DEF ShownIsTrue, Finished, Terminal
<1>. QED
  BY <1>6, <1>7, <1>8, <1>9 DEF IInv

LEMMA HearKeeps ==
    ASSUME IInv, NEW f \in Functions, Hear(f)
    PROVE  IInv'
<1>1. CASE f = "submit"
  BY <1>1, SubmitHears
<1>2. CASE f \in Polls
  BY <1>2, PollHears
<1>3. CASE f = "reconnect"
  BY <1>3, UseJobConstants, ReconnectHears DEF Hear
<1>4. CASE f = "cancel"
  BY <1>4, UseJobConstants, CancelHears DEF Hear
<1>5. CASE f = "mount"
  BY <1>5, UseJobConstants, MountHears DEF Hear
<1>. QED
  BY <1>1, <1>2, <1>3, <1>4, <1>5 DEF Functions

LEMMA NextIInv == IInv /\ [Next]_vars => IInv'
<1>. SUFFICES ASSUME IInv, [Next]_vars PROVE IInv'
  OBVIOUS
<1>1. CASE Submit
  BY <1>1, SubmitKeeps
<1>2. CASE Reconnect
  BY <1>2, ReconnectKeeps
<1>3. CASE Cancel
  BY <1>3, CancelKeeps
<1>4. CASE Reset
  BY <1>4, ResetKeeps
<1>5. CASE Reload
  BY <1>5, ReloadKeeps
<1>6. CASE \E p \in Polls : Tick(p)
  BY <1>6, TickKeeps
<1>7. CASE \E f \in Functions : Serve(f) \/ Lose(f) \/ Hear(f)
  BY <1>7, ServeKeeps, LoseKeeps, HearKeeps
<1>8. CASE \E r \in stray : ServeStray(r)
  BY <1>8, StrayKeeps
<1>9. CASE \E j \in Jobs : Execute(j) /\ UNCHANGED clientVars
  BY <1>9, ExecuteKeeps
<1>10. CASE UNCHANGED vars
  <2>1. UNCHANGED <<record, launched, faults, call, stray, state, stored, refs, calledOff>>
    BY <1>10 DEF vars, serverVars, clientVars
  <2>2. TypeOK' /\ CallsKnow' /\ HandlesKnown' /\ ShownIsTrue'
    BY <2>1 DEF IInv, TypeOK, ServerTypeOK, CallsKnow, PromiseOK, HandlesKnown, Known, ShownIsTrue, Finished
  <2>3. UploadsNotStarted' /\ CalledOffStays'
    BY <2>1 DEF IInv, UploadsNotStarted, CalledOffStays, NotStarted, Uploading
  <2>. QED
    BY <2>2, <2>3 DEF IInv
<1>. QED
  BY <1>1, <1>2, <1>3, <1>4, <1>5, <1>6, <1>7, <1>8, <1>9, <1>10 DEF Next

LEMMA Invariant == Spec => []IInv
<1>. QED
  BY InitIInv, NextIInv, PTL DEF Spec

\* Every value stays in its set: the counters of poll() below their limits, and
\* no promise waits for what its function never asks (useJob.ts).
THEOREM TypeCorrect == Spec => []TypeOK
<1>1. IInv => TypeOK
  BY DEF IInv
<1>. QED
  BY <1>1, Invariant, PTL

\* A job whose upload was called off (cancel, reset or a reload between
\* createUploads and startJob, useJob.ts) is never started.
THEOREM CalledOffStaysOff == Spec => []CalledOffNeverStarts
<1>1. IInv => CalledOffNeverStarts
  BY DEF IInv, CalledOffStays, NotStarted, CalledOffNeverStarts
<1>. QED
  BY <1>1, Invariant, PTL

\* An end on the screen that is not the browser's own trouble is the end of a
\* job in the store, however late, lost or out of order the answers came.
THEOREM ShownTrue == Spec => []ShownIsTrue
<1>1. IInv => ShownIsTrue
  BY DEF IInv
<1>. QED
  BY <1>1, Invariant, PTL
===========================================================================
