--------------------------- MODULE RmfConversion ---------------------------
(***************************************************************************)
(* The parse worker over a project that may be deleted under it, with the  *)
(* conversion of legacy documents: the bytes go through a scratch prefix   *)
(* outside the project to a converter that runs on when its caller gives   *)
(* up or dies, and the result is stored beside the original.               *)
(***************************************************************************)
EXTENDS RmfProject

CONSTANTS
    Workers,                       \* slots for worker invocations
    Tokens,                        \* slots for scratch prefixes
    Budgets                        \* bounds: uploads, deliveries, DELETEs, faults

Backends == {"reject", "lambda"}

ASSUME ConversionConstants ==
    /\ Budgets \subseteq [backends : SUBSET Backends, posts : Nat, deliveries : Nat,
                          purges : Nat, faults : Nat, taken : BOOLEAN]
    /\ "none" \notin Tokens

VARIABLES
    deliveries,\* messages the worker may still be handed
    backend,   \* DOC_CONVERSION_BACKEND
    taken,     \* whether a send may raise and its message be delivered
    wk,        \* worker invocations
    scratch,   \* objects under each scratch prefix
    conv,      \* the converter's invocation for each prefix
    strayed    \* history: prefixes no caller could clean up

vars == <<store, queue, requests, faults, early, deliveries, backend, taken, wk, scratch, conv, strayed>>

setting == <<backend, taken>>
convert == <<deliveries, setting, scratch, conv, strayed>>

NoWork == [pc |-> "idle", doc |-> "none", row |-> NoRow, job |-> "none",
           data |-> "none", token |-> "none", ok |-> FALSE, retry |-> FALSE]

ConvertPcs == {"invoke", "wait", "fetched", "clean"}
TryPcs     == {"fetch", "stage", "copy", "parse", "sections", "commit", "close"}
                 \cup ConvertPcs
HoldingPcs == {"begin", "refuse", "fail", "failjob"} \cup TryPcs
WorkerPcs  == {"idle", "job", "doc", "settle", "claim"} \cup HoldingPcs

Goto(w, l) == wk' = [wk EXCEPT ![w].pc = l]
Keep(w, r, l) == wk' = [wk EXCEPT ![w].row = r, ![w].pc = l]
Rest(w) == wk' = [wk EXCEPT ![w] = NoWork]

-----------------------------------------------------------------------------
(* Reading the job and the document, and claiming *)

Receive(w, d) ==
    /\ wk[w] = NoWork
    /\ queue[d] > 0
    /\ deliveries > 0
    /\ deliveries' = deliveries - 1
    /\ queue' = [queue EXCEPT ![d] = @ - 1]
    /\ wk' = [wk EXCEPT ![w].pc = "job", ![w].doc = d]
    /\ UNCHANGED <<store, requests, faults, early, setting, scratch, conv, strayed>>

ReadJob(w) ==
    /\ wk[w].pc = "job"
    /\ wk' = [wk EXCEPT ![w].pc = "doc", ![w].job = job[wk[w].doc]]
    /\ UNCHANGED <<store, requests, queue, faults, early, convert>>

(* Nothing to update: the message is dropped.  A finished parse is chained. *)
ReadDoc(w) ==
    LET r == row[wk[w].doc] IN
    /\ wk[w].pc = "doc"
    /\ IF wk[w].job \in {"none", "succeeded"} \/ r = NoRow THEN Rest(w)
       ELSE Keep(w, r, IF r.status = "parsed" THEN "settle" ELSE "claim")
    /\ UNCHANGED <<store, requests, queue, faults, early, convert>>

Settle(w) ==
    /\ wk[w].pc = "settle"
    /\ PutJob(wk[w].doc, "succeeded")
    /\ Rest(w)
    /\ UNCHANGED <<meta, row, sect, obj, requests, queue, faults, convert>>

(* A lease runs out only after the invocation that held it. *)
Claimable(d) ==
    \/ job[d] \in {"pending", "failed"}
    \/ job[d] = "running" /\ \A w \in Workers : ~(wk[w].doc = d /\ wk[w].pc \in HoldingPcs)

Claim(w) ==
    LET d == wk[w].doc IN
    /\ wk[w].pc = "claim"
    /\ IF Claimable(d)
       THEN /\ PutJob(d, "running")
            /\ Goto(w, IF wk[w].row.status \in {"parsing", "failed"} THEN "begin" ELSE "refuse")
       ELSE Rest(w) /\ UNCHANGED <<job, early>>
    /\ UNCHANGED <<meta, row, sect, obj, requests, queue, faults, convert>>

Refuse(w) ==
    /\ wk[w].pc = "refuse"
    /\ PutJob(wk[w].doc, "failed")
    /\ Rest(w)
    /\ UNCHANGED <<meta, row, sect, obj, requests, queue, faults, convert>>

Begin(w) ==
    LET r == [wk[w].row EXCEPT !.status = "parsing"] IN
    /\ wk[w].pc = "begin"
    /\ PutRow(wk[w].doc, r)
    /\ Keep(w, r, "fetch")
    /\ UNCHANGED <<meta, job, sect, obj, requests, queue, faults, convert>>

-----------------------------------------------------------------------------
(* _ensure_docx *)

Sniffed_KeepsKey(r, c) ==     \* mutant: an earlier attempt's key stays on record
    [r EXCEPT !.read = c, !.format = CASE c \in Legacy -> "doc" [] c \in Native -> "docx"
                                       [] OTHER -> r.format]

(* The record says what the bytes are, before anything is converted. *)
Sniffed(r, c) ==
    [r EXCEPT !.read = c, !.converted = FALSE,
              !.format = CASE c \in Legacy -> "doc" [] c \in Native -> "docx"
                           [] OTHER -> r.format]

Fails(w, retry) == wk' = [wk EXCEPT ![w].pc = "fail", ![w].retry = retry]

Fetch(w) ==
    LET c == obj[<<"original", wk[w].doc>>] IN
    /\ wk[w].pc = "fetch"
    /\ IF c = "none" THEN Fails(w, TRUE)
       ELSE wk' = [wk EXCEPT
                     ![w].row = Sniffed(@, c), ![w].data = c,
                     ![w].retry = TRUE,
                     ![w].pc = IF c \notin Legacy THEN "parse"
                               ELSE IF backend = "lambda" THEN "stage" ELSE "fail"]
    /\ UNCHANGED <<store, requests, queue, faults, early, convert>>

Stage(w) ==
    /\ wk[w].pc = "stage"
    /\ \E t \in Tokens :
         /\ scratch[t] = {} /\ conv[t] = "none"
         /\ scratch' = [scratch EXCEPT ![t] = {"source"}]
         /\ strayed' = strayed \ {t}
         /\ wk' = [wk EXCEPT ![w].token = t, ![w].pc = "invoke"]
    /\ UNCHANGED <<store, requests, queue, faults, early, deliveries, setting, conv>>

Invoke(w) ==
    /\ wk[w].pc = "invoke"
    /\ conv' = [conv EXCEPT ![wk[w].token] = "running"]
    /\ Goto(w, "wait")
    /\ UNCHANGED <<store, requests, queue, faults, early, deliveries, setting, scratch, strayed>>

(* The converter reads the source, refuses or converts, writes the target. *)
Converter(t) ==
    /\ conv[t] = "running"
    /\ \/ /\ "source" \in scratch[t]
          /\ scratch' = [scratch EXCEPT ![t] = @ \cup {"target"}]
          /\ conv' = [conv EXCEPT ![t] = "done"]
       \/ conv' = [conv EXCEPT ![t] = "failed"] /\ UNCHANGED scratch
    /\ UNCHANGED <<store, requests, queue, faults, early, deliveries, setting, wk, strayed>>

Answer(w) ==
    /\ wk[w].pc = "wait"
    /\ conv[wk[w].token] \in {"done", "failed"}
    /\ conv' = [conv EXCEPT ![wk[w].token] = "none"]
    /\ Goto(w, IF conv[wk[w].token] = "done" THEN "fetched" ELSE "clean")
    /\ UNCHANGED <<store, requests, queue, faults, early, deliveries, setting, scratch, strayed>>

(* Lambda does not cancel an invocation whose caller gives up. *)
GiveUp(w) ==
    /\ wk[w].pc = "wait"
    /\ Fault
    /\ strayed' = strayed \cup {wk[w].token}
    /\ Goto(w, "clean")
    /\ UNCHANGED <<store, requests, queue, early, deliveries, setting, scratch, conv>>

FetchTarget(w) ==
    /\ wk[w].pc = "fetched"
    /\ wk' = [wk EXCEPT ![w].ok = TRUE, ![w].pc = "clean"]
    /\ UNCHANGED <<store, requests, queue, faults, early, convert>>

(* One of the calls raises: a failed conversion. *)
ConvertFails(w) ==
    /\ wk[w].pc \in {"stage", "invoke", "fetched"}
    /\ Fault
    /\ Goto(w, IF wk[w].pc = "stage" THEN "fail" ELSE "clean")
    /\ UNCHANGED <<store, requests, queue, early, convert>>

Clean_OnSuccess(w) ==     \* mutant: the cleanup is not in a finally block
    /\ wk[w].pc = "clean"
    /\ scratch' = IF wk[w].ok THEN [scratch EXCEPT ![wk[w].token] = {}] ELSE scratch
    /\ wk' = [wk EXCEPT ![w].pc = IF wk[w].ok THEN "copy" ELSE "fail",
                        ![w].token = "none", ![w].ok = FALSE]
    /\ UNCHANGED <<store, requests, queue, faults, early, deliveries, setting, conv, strayed>>

(* On every path, and best effort. *)
Clean(w) ==
    /\ wk[w].pc = "clean"
    /\ \/ scratch' = [scratch EXCEPT ![wk[w].token] = {}] /\ UNCHANGED <<strayed, faults>>
       \/ Fault /\ strayed' = strayed \cup {wk[w].token} /\ UNCHANGED scratch
    /\ wk' = [wk EXCEPT ![w].pc = IF wk[w].ok THEN "copy" ELSE "fail",
                        ![w].token = "none", ![w].ok = FALSE]
    /\ UNCHANGED <<store, requests, queue, early, deliveries, setting, conv>>

(* A key of its own: the original stays what was uploaded. *)
StoreConverted(w) ==
    /\ wk[w].pc = "copy"
    /\ PutObject("converted", wk[w].doc, wk[w].data)
    /\ Keep(w, [wk[w].row EXCEPT !.converted = TRUE], "parse")
    /\ UNCHANGED <<meta, row, job, sect, requests, queue, faults, convert>>

-----------------------------------------------------------------------------
(* Parsing, and the end of the job *)

(* Bytes that are no Word document are refused for good; others may be too. *)
Parse(w) ==
    /\ wk[w].pc = "parse"
    /\ \/ Fails(w, FALSE) /\ UNCHANGED <<obj, early>>
       \/ /\ wk[w].data \notin Junk
          /\ \/ UNCHANGED <<obj, early>>
             \/ PutObject("text", wk[w].doc, wk[w].data)     \* a long section
          /\ Goto(w, "sections")
    /\ UNCHANGED <<meta, row, job, sect, requests, queue, faults, convert>>

PutSections(w) ==
    /\ wk[w].pc = "sections"
    /\ sect' = [sect EXCEPT ![wk[w].doc] = @ \cup {wk[w].data}]
    /\ Goto(w, "commit")
    /\ UNCHANGED <<meta, row, job, obj, requests, queue, faults, early, convert>>

Commit(w) ==
    LET r == [wk[w].row EXCEPT !.status = "parsed"] IN
    /\ wk[w].pc = "commit"
    /\ PutRow(wk[w].doc, r)
    /\ Keep(w, r, "close")
    /\ UNCHANGED <<meta, job, sect, obj, requests, queue, faults, convert>>

Close(w) ==
    /\ wk[w].pc = "close"
    /\ PutJob(wk[w].doc, "succeeded")
    /\ Rest(w)
    /\ UNCHANGED <<meta, row, sect, obj, requests, queue, faults, convert>>

Raises(w) ==
    /\ wk[w].pc \in TryPcs \ (ConvertPcs \cup {"stage"})
    /\ Fault
    /\ Fails(w, TRUE)
    /\ UNCHANGED <<store, requests, queue, early, convert>>

Fail(w) ==
    /\ wk[w].pc = "fail"
    /\ PutRow(wk[w].doc, [wk[w].row EXCEPT !.status = "failed"])
    /\ Goto(w, "failjob")
    /\ UNCHANGED <<meta, job, sect, obj, requests, queue, faults, convert>>

(* A transient failure leaves the message for a retry, or the dead letters. *)
FailJob(w) ==
    LET d == wk[w].doc IN
    /\ wk[w].pc = "failjob"
    /\ PutJob(d, "failed")
    /\ \/ wk[w].retry /\ queue' = [queue EXCEPT ![d] = @ + 1]
       \/ UNCHANGED queue
    /\ Rest(w)
    /\ UNCHANGED <<meta, row, sect, obj, requests, faults, convert>>

Die(w) ==
    /\ wk[w] # NoWork
    /\ Fault
    /\ queue' = [queue EXCEPT ![wk[w].doc] = @ + 1]
    /\ strayed' = strayed \cup ({wk[w].token} \ {"none"})
    /\ Rest(w)
    /\ UNCHANGED <<store, requests, early, deliveries, setting, scratch, conv>>

-----------------------------------------------------------------------------
(* The surroundings *)

(* An operator enables conversion. *)
Deploy ==
    /\ backend = "reject"
    /\ backend' = "lambda"
    /\ UNCHANGED <<store, queue, requests, faults, early, deliveries, taken, wk, scratch, conv, strayed>>

(* The bucket's lifecycle rule, a day later. *)
ScratchExpires(t) ==
    /\ t \in strayed
    /\ scratch[t] # {} \/ conv[t] # "none"
    /\ conv[t] # "running"
    /\ \A w \in Workers : wk[w].token # t
    /\ scratch' = [scratch EXCEPT ![t] = {}]
    /\ conv' = [conv EXCEPT ![t] = "none"]
    /\ UNCHANGED <<store, queue, requests, faults, early, deliveries, setting, wk, strayed>>

WorkerStep(w) ==
    \/ \E d \in Docs : Receive(w, d)
    \/ ReadJob(w) \/ ReadDoc(w) \/ Settle(w) \/ Claim(w) \/ Refuse(w) \/ Begin(w)
    \/ Fetch(w) \/ Stage(w) \/ Invoke(w) \/ Answer(w) \/ GiveUp(w) \/ FetchTarget(w)
    \/ ConvertFails(w) \/ Clean(w) \/ StoreConverted(w)
    \/ Parse(w) \/ PutSections(w) \/ Commit(w) \/ Close(w) \/ Raises(w)
    \/ Fail(w) \/ FailJob(w) \/ Die(w)

Init ==
    /\ ProjectInit
    /\ \E b \in Budgets :
         /\ backend \in b.backends
         /\ posts = b.posts /\ deliveries = b.deliveries
         /\ purges = b.purges /\ faults = b.faults /\ taken = b.taken
    /\ wk = [w \in Workers |-> NoWork]
    /\ scratch = [t \in Tokens |-> {}]
    /\ conv = [t \in Tokens |-> "none"]
    /\ strayed = {}

Next ==
    \/ ProjectStep(backend, taken) /\ UNCHANGED <<wk, convert>>
    \/ \E w \in Workers : WorkerStep(w)
    \/ \E t \in Tokens : Converter(t) \/ ScratchExpires(t)
    \/ Deploy

Spec == Init /\ [][Next]_vars

-----------------------------------------------------------------------------
(* Properties *)

(* Every variable has its type. *)
TypeOK ==
    /\ meta \in {"none", "project", "count"}
    /\ row \in [Docs -> Rows]
    /\ job \in [Docs -> {"none", "pending", "running", "failed", "succeeded"}]
    /\ sect \in [Docs -> SUBSET Contents]
    /\ obj \in [Keys -> Contents \cup {"none"}]
    /\ queue \in [Docs -> Nat]
    /\ upload \in [Docs -> {"none", "put", "count", "open", "closed"}]
    /\ \A w \in Workers :
         /\ wk[w].pc \in WorkerPcs
         /\ wk[w].row \in Rows
         /\ wk[w].token \in Tokens \cup {"none"}
         /\ wk[w].pc \in ConvertPcs <=> wk[w].token # "none"
    /\ scratch \in [Tokens -> SUBSET {"source", "target"}]
    /\ conv \in [Tokens -> {"none", "running", "done", "failed"}]

(* META outlives what was there when the purge began: whichever call dies,  *)
(* the project can still be found and the deletion repeated, and what is    *)
(* left once META is gone was written by somebody else meanwhile.           *)
MetaGoesLast == meta # "project" => early = {}

(* The bytes an export of a parsed document will open are those the parse   *)
(* read, or their own conversion: the record never vouches for legacy bytes *)
(* as native, nor for the conversion of bytes that were replaced since; and *)
(* the document has their sections.  A purge may have taken either.         *)
RecordMatchesBytes ==
    \A d \in Docs : row[d].status = "parsed" =>
        /\ IF row[d].converted
           THEN obj[<<"converted", d>>] \in {row[d].read} \cup (IF begun THEN {"none"} ELSE {})
           ELSE row[d].format = "docx" => row[d].read \notin Legacy
        /\ ~begun => /\ row[d].read \in sect[d]
                     /\ row[d].format = "doc" <=> row[d].converted

(* Scratch copies of a document outlive their conversion only if the worker *)
(* died, gave up on a converter still running, or could not delete them.    *)
ScratchIsCleaned ==
    \A t \in Tokens : scratch[t] # {} =>
        t \in strayed \/ \E w \in Workers : wk[w].token = t

-----------------------------------------------------------------------------
(* What the code does not promise; see the README *)

(* Nothing is kept of a deleted project once everybody is done. *)
NothingSurvives ==
    /\ meta = "none"
    /\ \A w \in Workers : wk[w] = NoWork
    /\ \A d \in Docs : upload[d] = "closed" /\ enqueue[d] = NoRequest /\ queue[d] = 0
    => Kept = {}

(* A META row can be loaded, so that the project list can be shown. *)
ListingLoads == meta # "count"

=============================================================================
