----------------------------- MODULE RmfWorker -----------------------------
(***************************************************************************)
(* The SQS worker: one invocation takes one message and runs a parse, map, *)
(* draft or export job.  The four share a skeleton: read the job, read the *)
(* document, settle a job whose work is done, claim, refuse a document in  *)
(* the wrong status, begin, work, commit, close.  Each step is one call to *)
(* DynamoDB, S3 or SQS; the document is written back whole, from the copy  *)
(* that was read before the claim.                                         *)
(***************************************************************************)
EXTENDS RmfStore

CONSTANT EarlyRedelivery   \* worker_timeout_seconds is below 870

VARIABLES
    wk,       \* worker invocations
    deaths,   \* worker deaths left: kills, and errors outside the try block
    errors,   \* calls of the try blocks that may still raise
    dups      \* duplicate deliveries left

wkvars == <<wk, deaths, errors, dups>>

NoWork == [pc |-> "idle", msg |-> "none", job |-> "none", saw |-> "none",
           doc |-> NoDoc, todo |-> {}, texts |-> {}]

(* Past the claim: this invocation believes it holds the job's lease. *)
HoldingPcs == {"refuse", "begin", "list", "approved", "rows", "store", "commit",
               "close", "undo", "failjob"}
(* Inside the try block. *)
TryPcs    == {"list", "approved", "rows", "store", "commit", "close"}
WorkerPcs == {"idle", "job", "doc", "settle", "claim", "chain", "chainput",
              "chainsend", "ack"} \cup HoldingPcs

Holds(w, j) == wk[w].pc \in HoldingPcs /\ wk[w].job = j
Held(m) == \E w \in Workers : wk[w].msg = m
HeldMessages == {m \in Messages : Held(m)}

-----------------------------------------------------------------------------
(* What the four jobs decide on *)

(* Statuses in which the job's work has been done. *)
Past(kind) ==
    CASE kind = "parse"  -> {"parsed"}
      [] kind = "map"    -> {"mapped", "mapping_approved", "drafting", "drafted",
                             "review_approved", "exporting", "exported"}
      [] kind = "draft"  -> {"drafted", "review_approved", "exporting", "exported"}
      [] kind = "export" -> {"exported"}

Stage(kind) ==
    CASE kind = "parse" -> "parse" [] kind = "map" -> "mapping"
      [] kind = "draft" -> "drafting" [] kind = "export" -> "export"

(* Statuses from which it may run. *)
MayEnter(kind, d) ==
    CASE kind = "parse"  -> d.status \in {"uploaded", "parsing"}
      [] kind = "map"    -> d.status \in {"parsed", "mapping"}
      [] kind = "draft"  -> d.status \in {"mapping_approved", "drafting"}
      [] kind = "export" -> d.status = "exporting"

MayRetry(kind, d) ==
    kind # "export" /\ d.status = "failed" /\ d.failure = Stage(kind)

(* The document as the job writes it when it begins, commits and fails. *)
Doing(kind, d) ==
    [d EXCEPT !.failure = "none",
              !.status = CASE kind = "parse" -> "parsing" [] kind = "map" -> "mapping"
                           [] kind = "draft" -> "drafting"]

Done(kind, d) ==
    CASE kind = "parse"  -> [d EXCEPT !.status = "parsed", !.failure = "none",
                                      !.active = "none", !.count = Cardinality(Orders)]
      [] kind = "map"    -> [d EXCEPT !.status = "mapped", !.failure = "none"]
      [] kind = "draft"  -> [d EXCEPT !.status = "drafted", !.failure = "none"]
      [] kind = "export" -> [d EXCEPT !.status = "exported", !.failure = "none",
                                      !.active = "none", !.exported = TRUE]

Undone(j, d) ==
    CASE Kind(j) = "export" -> [d EXCEPT !.status = jobs[j].previous,
                                         !.failure = "export", !.active = "none"]
      [] Kind(j) = "parse"  -> [d EXCEPT !.status = "failed", !.failure = "parse",
                                         !.active = "none"]
      [] OTHER              -> [d EXCEPT !.status = "failed",
                                         !.failure = Stage(Kind(j))]

-----------------------------------------------------------------------------

Goto(w, l) == wk' = [wk EXCEPT ![w].pc = l]

(* Lambda's poller hands a visible message to an invocation. *)
Receive(w, m) ==
    /\ wk[w] = NoWork
    /\ msgs[m].state = "visible"
    /\ msgs' = [msgs EXCEPT ![m].state = "inflight", ![m].receives = @ + 1]
    /\ wk' = [wk EXCEPT ![w].pc = "job", ![w].msg = m, ![w].job = msgs[m].job]
    /\ UNCHANGED <<store, trace, deaths, errors, dups>>

ReadJob(w) ==
    /\ wk[w].pc = "job"
    /\ wk' = [wk EXCEPT ![w].pc = "doc", ![w].saw = jobs[wk[w].job].status]
    /\ UNCHANGED <<store, trace, msgs, deaths, errors, dups>>

ReadDoc(w) ==
    LET kind == Kind(wk[w].job)
        next == IF wk[w].saw = "succeeded"
                THEN IF kind = "parse" /\ doc.status = "parsed" THEN "chain" ELSE "ack"
                ELSE IF doc.status \in Past(kind) /\ (kind = "export" => doc.exported)
                THEN "settle"
                ELSE "claim"
    IN
    /\ wk[w].pc = "doc"
    /\ wk' = [wk EXCEPT ![w].pc = next, ![w].doc = doc]
    /\ UNCHANGED <<store, trace, msgs, deaths, errors, dups>>

Settle_NoHandoff(w) ==     \* mutant: a settled parse is not chained
    /\ wk[w].pc = "settle"
    /\ PutJob(wk[w].job, "succeeded")
    /\ Goto(w, "ack")
    /\ UNCHANGED <<doc, rows, file, trace, msgs, deaths, errors, dups>>

(* The job's work was committed by an invocation that died before closing   *)
(* it; a map or draft job without rows is acknowledged as it is.            *)
Settle(w) ==
    LET j == wk[w].job
        written == CASE Kind(j) = "map"   -> Listed(maps) # {}
                     [] Kind(j) = "draft" -> Listed(drafts) # {}
                     [] OTHER             -> TRUE
    IN
    /\ wk[w].pc = "settle"
    /\ IF written THEN PutJob(j, "succeeded") ELSE UNCHANGED jobs
    /\ Goto(w, IF Kind(j) = "parse" THEN "chain" ELSE "ack")
    /\ UNCHANGED <<doc, rows, file, trace, msgs, deaths, errors, dups>>

Claim(w) ==
    LET j == wk[w].job
        kind == Kind(j)
        copy == wk[w].doc
    IN
    /\ wk[w].pc = "claim"
    /\ IF Claimable(j)
       THEN /\ jobs' = [jobs EXCEPT ![j].status = "running", ![j].lease = wk[w].msg]
            /\ Goto(w, IF ~(MayEnter(kind, copy) \/ MayRetry(kind, copy)) THEN "refuse"
                       ELSE IF kind = "export" THEN "list" ELSE "begin")
       ELSE Goto(w, "ack") /\ UNCHANGED jobs
    /\ UNCHANGED <<doc, rows, file, trace, msgs, deaths, errors, dups>>

Refuse(w) ==
    /\ wk[w].pc = "refuse"
    /\ PutJob(wk[w].job, "failed")
    /\ Goto(w, "ack")
    /\ UNCHANGED <<doc, rows, file, trace, msgs, deaths, errors, dups>>

-----------------------------------------------------------------------------
(* The try block *)

(* The rows still to write; with none left, the document is ready to commit. *)
Write(w, d, todo) ==
    wk' = [wk EXCEPT ![w].todo = todo,
                     ![w].pc = IF todo = {} THEN "commit" ELSE "rows",
                     ![w].doc = IF todo = {} THEN Done(Kind(wk[w].job), d) ELSE d]

(* A parser then makes sections with fresh ids from the stored bytes. *)
Begin(w) ==
    LET kind == Kind(wk[w].job)
        d == Doing(kind, wk[w].doc)
    IN
    /\ wk[w].pc = "begin"
    /\ doc' = d
    /\ IF kind = "parse"
       THEN /\ parses < MaxParses
            /\ parses' = parses + 1
            /\ Write(w, d, Orders \X {parses'})
       ELSE /\ wk' = [wk EXCEPT ![w].pc = "list", ![w].doc = d]
            /\ UNCHANGED parses
    /\ UNCHANGED <<jobs, rows, file, signed, msgs, deaths, errors, dups>>

(* list_sections; an exporter lists the drafts, and raises unless all of    *)
(* them are approved.                                                       *)
List(w) ==
    LET kind == Kind(wk[w].job) IN
    /\ wk[w].pc = "list"
    /\ CASE kind = "map"   -> Write(w, wk[w].doc, CurrentSections)
         [] kind = "draft" -> wk' = [wk EXCEPT ![w].pc = "approved",
                                               ![w].todo = CurrentSections]
         [] kind = "export" ->
              IF AllApproved(drafts)
              THEN wk' = [wk EXCEPT ![w].pc = "store",
                                    ![w].texts = {<<s, drafts[s].text>> : s \in Listed(drafts)}]
              ELSE Goto(w, "undo")
    /\ UNCHANGED <<store, trace, msgs, deaths, errors, dups>>

(* Only approved mappings are drafted. *)
ListApproved(w) ==
    /\ wk[w].pc = "approved"
    /\ Write(w, wk[w].doc, {s \in wk[w].todo : maps[s].status = "approved"})
    /\ UNCHANGED <<store, trace, msgs, deaths, errors, dups>>

PutRow(w) ==
    LET proposed == [status |-> "proposed", text |-> "model"] IN
    /\ wk[w].pc = "rows"
    /\ \E s \in wk[w].todo :
         /\ IsFirst(s, wk[w].todo)
         /\ CASE wk[w].job = "parse" -> /\ sec' = [sec EXCEPT ![s[1]] = s[2]]
                                        /\ UNCHANGED <<maps, drafts>>
              [] wk[w].job = "map"   -> /\ maps' = [maps EXCEPT ![s] = proposed]
                                        /\ UNCHANGED <<sec, drafts>>
              [] wk[w].job = "draft" -> /\ drafts' = [drafts EXCEPT ![s] = proposed]
                                        /\ UNCHANGED <<sec, maps>>
         /\ Write(w, wk[w].doc, wk[w].todo \ {s})
    /\ UNCHANGED <<doc, jobs, file, trace, msgs, deaths, errors, dups>>

(* The exported file, under a key that depends on the document only. *)
StoreFile(w) ==
    /\ wk[w].pc = "store"
    /\ file' = wk[w].texts
    /\ Write(w, wk[w].doc, {})
    /\ UNCHANGED <<doc, jobs, rows, trace, msgs, deaths, errors, dups>>

Commit(w) ==
    /\ wk[w].pc = "commit"
    /\ doc' = wk[w].doc
    /\ Goto(w, "close")
    /\ UNCHANGED <<jobs, rows, file, trace, msgs, deaths, errors, dups>>

Close(w) ==
    /\ wk[w].pc = "close"
    /\ PutJob(wk[w].job, "succeeded")
    /\ Goto(w, IF Kind(wk[w].job) = "parse" THEN "chain" ELSE "ack")
    /\ UNCHANGED <<doc, rows, file, trace, msgs, deaths, errors, dups>>

(* A call of the try block raises, whether it took effect or not. *)
Fail(w) ==
    /\ wk[w].pc \in TryPcs
    /\ errors > 0
    /\ errors' = errors - 1
    /\ Goto(w, "undo")
    /\ UNCHANGED <<store, trace, msgs, deaths, dups>>

UndoDoc(w) ==
    /\ wk[w].pc = "undo"
    /\ doc' = Undone(wk[w].job, wk[w].doc)
    /\ Goto(w, "failjob")
    /\ UNCHANGED <<jobs, rows, file, trace, msgs, deaths, errors, dups>>

(* The message stays in flight for another attempt; a parser whose error    *)
(* was permanent (it has written no section then) ends it instead.          *)
FailJob(w) ==
    /\ wk[w].pc = "failjob"
    /\ PutJob(wk[w].job, "failed")
    /\ \/ wk' = [wk EXCEPT ![w] = NoWork]
       \/ /\ wk[w].job = "parse"
          /\ Cardinality(wk[w].todo) = Cardinality(Orders)
          /\ Goto(w, "ack")
    /\ UNCHANGED <<doc, rows, file, trace, msgs, deaths, errors, dups>>

-----------------------------------------------------------------------------
(* enqueue_mapping after a parse *)

ChainRead(w) ==
    /\ wk[w].pc = "chain"
    /\ Goto(w, IF UnderWay("map") THEN "ack"
               ELSE IF jobs["map"].status = "none" THEN "chainput" ELSE "chainsend")
    /\ UNCHANGED <<store, trace, msgs, deaths, errors, dups>>

ChainPut(w) ==
    /\ wk[w].pc = "chainput"
    /\ PutJob("map", "pending")
    /\ Goto(w, "chainsend")
    /\ UNCHANGED <<doc, rows, file, trace, msgs, deaths, errors, dups>>

ChainSend(w) ==
    /\ wk[w].pc = "chainsend"
    /\ Send("map", HeldMessages)
    /\ Goto(w, "ack")
    /\ UNCHANGED <<store, trace, deaths, errors, dups>>

(* The poller deletes the message of an invocation that reports no failure. *)
Ack(w) ==
    /\ wk[w].pc = "ack"
    /\ msgs' = [msgs EXCEPT ![wk[w].msg] = NoMessage]
    /\ wk' = [wk EXCEPT ![w] = NoWork]
    /\ UNCHANGED <<store, trace, deaths, errors, dups>>

-----------------------------------------------------------------------------
(* Failures *)

(* The invocation is killed, or an error outside the try block makes it     *)
(* report the message as failed: either way the message stays in flight.    *)
Die(w) ==
    /\ wk[w].pc # "idle"
    /\ deaths > 0
    /\ deaths' = deaths - 1
    /\ wk' = [wk EXCEPT ![w] = NoWork]
    /\ UNCHANGED <<store, trace, msgs, errors, dups>>

(* The 15-minute lease of a claim runs out: never while its claimant lives, *)
(* since no invocation lasts longer, nor while another invocation is        *)
(* between its reads and its claim, which takes it seconds.                 *)
LeaseExpires(j) ==
    /\ jobs[j].lease # "none"
    /\ \A w \in Workers : wk[w].job = j =>
          /\ wk[w].pc \notin {"doc", "settle", "claim"}
          /\ Holds(w, j) => wk[w].msg # jobs[j].lease
    /\ jobs' = [jobs EXCEPT ![j].lease = "none"]
    /\ UNCHANGED <<doc, rows, file, trace, msgs, wkvars>>

(* A message nobody works on becomes visible again, worker_timeout + 30 s   *)
(* after its receive, or is dead-lettered after its last receive.  Unless   *)
(* the timeout is short, a claim made under it has lost its lease by then.  *)
Reappear(m) ==
    /\ msgs[m].state = "inflight"
    /\ ~Held(m)
    /\ EarlyRedelivery \/ \A j \in Jobs : jobs[j].lease # m
    /\ msgs' = [msgs EXCEPT ![m].state = IF msgs[m].receives < MaxReceive
                                         THEN "visible" ELSE "dead"]
    /\ UNCHANGED <<store, trace, wkvars>>

(* A standard queue delivers at least once: a second receive of a message   *)
(* an invocation is working on.                                             *)
Duplicate(m) ==
    /\ msgs[m].state = "inflight"
    /\ Held(m)
    /\ msgs[m].receives < MaxReceive
    /\ dups > 0
    /\ dups' = dups - 1
    /\ msgs' = [msgs EXCEPT ![m].state = "visible"]
    /\ UNCHANGED <<store, trace, wk, deaths, errors>>

WorkerStep(w) ==
    \/ ReadJob(w) \/ ReadDoc(w) \/ Settle(w) \/ Claim(w) \/ Refuse(w)
    \/ Begin(w) \/ List(w) \/ ListApproved(w) \/ PutRow(w) \/ StoreFile(w)
    \/ Commit(w) \/ Close(w) \/ UndoDoc(w) \/ FailJob(w)
    \/ ChainRead(w) \/ ChainPut(w) \/ ChainSend(w) \/ Ack(w)

=============================================================================
