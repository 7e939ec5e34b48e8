------------------------------ MODULE RmfApi ------------------------------
(***************************************************************************)
(* The API requests that change a document: start or retry its parsing,    *)
(* edit and approve its mappings, edit and approve its drafts, export it.  *)
(* Each step is one call to DynamoDB or SQS.  A document is written only   *)
(* if its status still is an expected one; rows are written blindly.       *)
(***************************************************************************)
EXTENDS RmfWorker

CONSTANT Ops       \* the requests the callers make

VARIABLES
    call,        \* API requests
    calls,       \* requests left to make
    apiFaults    \* API Lambdas that may still die

apivars == <<call, calls, apiFaults>>

AllOps  == {"parse", "edit_mapping", "approve_mappings", "edit_draft",
            "approve_draft", "export"}
RowOps  == {"edit_mapping", "edit_draft", "approve_draft"}
CallPcs == {"idle", "read", "row", "list", "put", "cas", "latest", "jobread",
            "jobput", "send", "undo", "undojob"}

NoSection == <<0, 0>>
NoCall == [op |-> "none", pc |-> "idle", sec |-> NoSection, doc |-> NoDoc,
           copy |-> NoRows, todo |-> {}, job |-> "none"]

At(c, op, l)  == call[c].op = op /\ call[c].pc = l
Step(c, l)    == call' = [call EXCEPT ![c] = IF l = "idle" THEN NoCall
                                            ELSE [call[c] EXCEPT !.pc = l]]

-----------------------------------------------------------------------------

Admitted_AnyParse(op) ==     \* mutant: any document may be parsed again
    CASE op = "parse"            -> DocumentStatus
      [] op = "edit_mapping"     -> {"mapped"}
      [] op = "approve_mappings" -> {"mapped", "mapping_approved"}
      [] op = "edit_draft"       -> {"drafted", "review_approved", "exported"}
      [] op = "approve_draft"    -> {"drafted", "review_approved"}
      [] op = "export"           -> {"review_approved", "exported"}

(* The statuses from which a request goes on. *)
Admitted(op) ==
    CASE op = "parse"            -> {"upload_pending", "uploaded", "failed"}
      [] op = "edit_mapping"     -> {"mapped"}
      [] op = "approve_mappings" -> {"mapped", "mapping_approved"}
      [] op = "edit_draft"       -> {"drafted", "review_approved", "exported"}
      [] op = "approve_draft"    -> {"drafted", "review_approved"}
      [] op = "export"           -> {"review_approved", "exported"}

AfterRead(op, d) ==
    CASE op = "parse"  -> "cas"
      [] op \in RowOps -> "row"
      [] op = "export" -> "list"
      [] op = "approve_mappings" -> IF d.status = "mapped" THEN "list" ELSE "jobread"

Table(op) == IF op \in {"edit_mapping", "approve_mappings"} THEN maps ELSE drafts

NewCall(c) ==
    /\ call[c] = NoCall
    /\ calls > 0
    /\ calls' = calls - 1
    /\ \E op \in Ops, s \in Sections \cup {NoSection} :
         /\ IF op \in RowOps THEN s \in Listed(Table(op)) ELSE s = NoSection
         /\ call' = [call EXCEPT ![c] = [NoCall EXCEPT !.op = op, !.pc = "read",
                                                       !.sec = s]]
    /\ UNCHANGED <<store, trace, msgs, wkvars, apiFaults>>

ReadDocument(c) ==
    LET op == call[c].op IN
    /\ call[c].pc = "read"
    /\ IF doc.status \in Admitted(op)
       THEN call' = [call EXCEPT ![c].pc = AfterRead(op, doc), ![c].doc = doc]
       ELSE Step(c, "idle")
    /\ UNCHANGED <<store, trace, msgs, wkvars, calls, apiFaults>>

ReadRow(c) ==
    LET op == call[c].op IN
    /\ call[c].pc = "row"
    /\ call' = [call EXCEPT ![c].pc = IF op = "edit_draft" THEN "cas" ELSE "put",
                            ![c].copy[call[c].sec] = Table(op)[call[c].sec]]
    /\ UNCHANGED <<store, trace, msgs, wkvars, calls, apiFaults>>

(* approve_mappings wants one mapping per section; an export and the last   *)
(* step of approve_draft want every draft approved.                         *)
ListRows(c) ==
    LET op == call[c].op
        count == Cardinality(Listed(maps))
    IN
    /\ call[c].pc = "list"
    /\ \/ /\ op = "approve_mappings"
          /\ count > 0
          /\ call[c].doc.count > 0 => count = call[c].doc.count
          /\ call' = [call EXCEPT ![c].pc = "put", ![c].copy = maps,
                                  ![c].todo = Listed(maps)]
       \/ op = "approve_draft" /\ AllApproved(drafts) /\ Step(c, "cas")
       \/ /\ op = "export"
          /\ AllApproved(drafts)
          /\ \E x \in Exports :
               /\ jobs[x].status = "none"
               /\ \A d \in Callers : call[d].job # x
               /\ call' = [call EXCEPT ![c].pc = "cas", ![c].job = x]
       \/ /\ \/ op = "approve_mappings" /\ ~(count > 0 /\ (call[c].doc.count > 0
                                                => count = call[c].doc.count))
             \/ op # "approve_mappings" /\ ~AllApproved(drafts)
          /\ Step(c, "idle")
    /\ UNCHANGED <<store, trace, msgs, wkvars, calls, apiFaults>>

(* The row as the caller leaves it; approving freezes the text it read. *)
Approve(c, s) == [status |-> "approved", text |-> call[c].copy[s].text]
Edit(c) == [status |-> "edited", text |-> c]

PutMapping_First(c) ==     \* mutant: only the first mapping is approved
    /\ At(c, "approve_mappings", "put")
    /\ \E s \in call[c].todo :
         /\ IsFirst(s, call[c].todo)
         /\ maps' = [maps EXCEPT ![s] = Approve(c, s)]
         /\ call' = [call EXCEPT ![c].pc = "cas"]
    /\ UNCHANGED <<doc, jobs, sec, drafts, file, trace, msgs, wkvars, calls, apiFaults>>

PutMapping(c) ==
    /\ \/ /\ At(c, "edit_mapping", "put")
          /\ maps' = [maps EXCEPT ![call[c].sec] = Edit(c)]
          /\ Step(c, "idle")
       \/ /\ At(c, "approve_mappings", "put")
          /\ \E s \in call[c].todo :
               /\ IsFirst(s, call[c].todo)
               /\ maps' = [maps EXCEPT ![s] = Approve(c, s)]
               /\ call' = [call EXCEPT ![c].todo = @ \ {s},
                                       ![c].pc = IF call[c].todo = {s} THEN "cas" ELSE "put"]
    /\ UNCHANGED <<doc, jobs, sec, drafts, file, trace, msgs, wkvars, calls, apiFaults>>

PutDraft(c) ==
    LET s == call[c].sec IN
    /\ \/ /\ At(c, "edit_draft", "put")
          /\ drafts' = [drafts EXCEPT ![s] = Edit(c)]
          /\ Step(c, "idle")
          /\ UNCHANGED signed
       \/ /\ At(c, "approve_draft", "put")
          /\ drafts' = [drafts EXCEPT ![s] = Approve(c, s)]
          /\ signed' = signed \cup {<<s, call[c].copy[s].text>>}
          /\ Step(c, "list")
    /\ UNCHANGED <<doc, jobs, sec, maps, file, parses, msgs, wkvars, calls, apiFaults>>

-----------------------------------------------------------------------------
(* put_document_if_status *)

Expected_Anything(c) ==     \* mutant: the approval is a plain put
    IF call[c].op = "approve_mappings" THEN DocumentStatus
    ELSE IF call[c].op = "parse" THEN Admitted("parse") ELSE {call[c].doc.status}

(* The statuses the write expects, the document it puts, and the next step. *)
Expected(c) ==
    CASE call[c].op = "parse"            -> Admitted("parse")
      [] call[c].op = "approve_mappings" -> {"mapped"}
      [] OTHER                           -> {call[c].doc.status}

NewDocument_KeepsExport(c) ==     \* mutant: an edit leaves the status alone
    LET d == call[c].doc IN
    CASE call[c].op = "edit_draft"    -> d
      [] call[c].op = "approve_draft" -> [d EXCEPT !.status = "review_approved"]
      [] OTHER -> [d EXCEPT !.status = "exporting", !.active = call[c].job]

NewDocument(c) ==
    LET d == call[c].doc IN
    CASE call[c].op = "parse" ->
           [d EXCEPT !.status = "parsing", !.failure = "none", !.active = "parse"]
      [] call[c].op = "approve_mappings" -> [d EXCEPT !.status = "mapping_approved"]
      [] call[c].op = "edit_draft" ->
           [d EXCEPT !.status = "drafted", !.failure = "none", !.active = "none",
                     !.exported = FALSE]
      [] call[c].op = "approve_draft" ->
           [d EXCEPT !.status = "review_approved", !.failure = "none",
                     !.exported = FALSE]
      [] call[c].op = "export" ->
           [d EXCEPT !.status = "exporting", !.failure = "none", !.active = call[c].job]

AfterCas(op) ==
    CASE op \in {"parse", "export"} -> "jobput"
      [] op = "approve_mappings"    -> "jobread"
      [] op = "edit_draft"          -> "put"
      [] op = "approve_draft"       -> "idle"

PutDocument(c) ==
    LET op == call[c].op IN
    /\ call[c].pc = "cas"
    /\ IF doc.status \in Expected(c)
       THEN doc' = NewDocument(c) /\ Step(c, AfterCas(op))
       ELSE /\ Step(c, IF op = "approve_mappings" THEN "latest" ELSE "idle")
            /\ UNCHANGED doc
    /\ UNCHANGED <<jobs, rows, file, trace, msgs, wkvars, calls, apiFaults>>

(* Somebody else may have approved the mappings. *)
ReadLatest(c) ==
    /\ At(c, "approve_mappings", "latest")
    /\ Step(c, IF doc.status = "mapping_approved" THEN "jobread" ELSE "idle")
    /\ UNCHANGED <<store, trace, msgs, wkvars, calls, apiFaults>>

-----------------------------------------------------------------------------
(* Jobs *)

JobOf(c) == CASE call[c].op = "parse" -> "parse" [] call[c].op = "export" -> call[c].job
              [] OTHER -> "draft"

(* enqueue_drafting *)
ReadDraftJob(c) ==
    /\ At(c, "approve_mappings", "jobread")
    /\ Step(c, IF UnderWay("draft") THEN "idle"
               ELSE IF jobs["draft"].status = "none" THEN "jobput" ELSE "send")
    /\ UNCHANGED <<store, trace, msgs, wkvars, calls, apiFaults>>

NewJob(c, status) ==
    [status |-> status, lease |-> "none",
     previous |-> IF call[c].op = "export" THEN call[c].doc.status
                  ELSE "review_approved"]

PutNewJob(c) ==
    /\ call[c].pc = "jobput"
    /\ jobs' = [jobs EXCEPT ![JobOf(c)] = NewJob(c, "pending")]
    /\ Step(c, "send")
    /\ UNCHANGED <<doc, rows, file, trace, msgs, wkvars, calls, apiFaults>>

SendMessage(c) ==
    /\ call[c].pc = "send"
    /\ Send(JobOf(c), HeldMessages)
    /\ Step(c, "idle")
    /\ UNCHANGED <<store, trace, wkvars, calls, apiFaults>>

(* put_job or send_message raises in enqueue_parse or enqueue_export; the   *)
(* message may have been sent all the same.                                 *)
EnqueueFails(c) ==
    /\ call[c].op \in {"parse", "export"}
    /\ call[c].pc \in {"jobput", "send"}
    /\ apiFaults > 0
    /\ apiFaults' = apiFaults - 1
    /\ \/ UNCHANGED msgs
       \/ call[c].pc = "send" /\ Send(JobOf(c), HeldMessages)
    /\ Step(c, "undo")
    /\ UNCHANGED <<store, trace, wkvars, calls>>

RestoreDocument(c) ==
    /\ call[c].pc = "undo"
    /\ doc' = IF call[c].op = "parse" THEN [call[c].doc EXCEPT !.active = "none"]
              ELSE [call[c].doc EXCEPT !.active = "none", !.failure = "none"]
    /\ Step(c, "undojob")
    /\ UNCHANGED <<jobs, rows, file, trace, msgs, wkvars, calls, apiFaults>>

FailNewJob(c) ==
    /\ call[c].pc = "undojob"
    /\ jobs' = [jobs EXCEPT ![JobOf(c)] = NewJob(c, "failed")]
    /\ Step(c, "idle")
    /\ UNCHANGED <<doc, rows, file, trace, msgs, wkvars, calls, apiFaults>>

(* An API Lambda dies, or a call raises that no handler catches. *)
CallDies(c) ==
    /\ call[c] # NoCall
    /\ apiFaults > 0
    /\ apiFaults' = apiFaults - 1
    /\ Step(c, "idle")
    /\ UNCHANGED <<store, trace, msgs, wkvars, calls>>

CallStep(c) ==
    \/ ReadDocument(c) \/ ReadRow(c) \/ ListRows(c) \/ PutMapping(c) \/ PutDraft(c)
    \/ PutDocument(c) \/ ReadLatest(c) \/ ReadDraftJob(c) \/ PutNewJob(c)
    \/ SendMessage(c) \/ RestoreDocument(c) \/ FailNewJob(c)

=============================================================================
