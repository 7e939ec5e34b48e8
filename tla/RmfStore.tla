------------------------------ MODULE RmfStore ------------------------------
(***************************************************************************)
(* What the API and the worker of the RMF migrator share about one         *)
(* document: the DynamoDB rows of the document, its jobs, sections,        *)
(* control mappings and drafts, the exported file, and the SQS queue.      *)
(*                                                                         *)
(* Parsing gives every section a fresh random id, so a section is named    *)
(* by its order and the parse it came from.  A row's text stands for the   *)
(* control set of a mapping or the policy text of a draft: the model's, or *)
(* the one some caller put in its place.                                   *)
(***************************************************************************)
EXTENDS Naturals, FiniteSets

CONSTANTS
    Callers,          \* slots for concurrent API requests
    Workers,          \* slots for concurrent worker invocations
    Messages,         \* slots for messages in the queue
    Exports,          \* ids of export jobs
    Orders,           \* positions of the document's sections
    MaxParses,        \* bound: parses of the document
    MaxReceive        \* maxReceiveCount of the queue's redrive policy

ASSUME PipelineConstants ==
    /\ Orders \subseteq Nat /\ IsFiniteSet(Orders)
    /\ MaxParses \in Nat \ {0}
    /\ MaxReceive \in Nat \ {0}
    /\ Exports \cap {"none", "parse", "map", "draft"} = {}
    /\ Callers \cap {"none", "model"} = {}
    /\ "none" \notin Messages

VARIABLES
    doc,       \* the document row
    jobs,      \* the job rows
    msgs,      \* the queue
    sec,       \* the parse each section row comes from, 0 without a row
    maps,      \* mapping rows
    drafts,    \* draft rows
    file,      \* the texts in the exported file
    parses,    \* parses started
    signed     \* history: the draft texts a caller approved

rows  == <<sec, maps, drafts>>
store == <<doc, jobs, rows, file>>
trace == <<parses, signed>>

DocumentStatus ==
    {"upload_pending", "uploaded", "parsing", "parsed", "mapping", "mapped",
     "mapping_approved", "drafting", "drafted", "review_approved", "exporting",
     "exported", "failed"}

JobStatus == {"none", "pending", "running", "failed", "succeeded"}
Stages    == {"none", "parse", "mapping", "drafting", "export"}
Jobs      == {"parse", "map", "draft"} \cup Exports
Kind(j)   == IF j \in Exports THEN "export" ELSE j
Sections  == Orders \X (1..MaxParses)
Texts     == {"none", "model"} \cup Callers

Documents == [status : DocumentStatus, failure : Stages,
              active : Jobs \cup {"none"}, exported : BOOLEAN, count : Nat]
JobRows   == [status : JobStatus, previous : DocumentStatus,
              lease : Messages \cup {"none"}]
Rows      == [status : {"absent", "proposed", "edited", "approved"}, text : Texts]
Queued    == [state : {"free", "visible", "inflight", "dead"},
              job : Jobs \cup {"none"}, receives : 0..MaxReceive]

NoRow     == [status |-> "absent", text |-> "none"]
NoRows    == [s \in Sections |-> NoRow]
NoDoc     == [status |-> "upload_pending", failure |-> "none", active |-> "none",
              exported |-> FALSE, count |-> 0]
NoMessage == [state |-> "free", job |-> "none", receives |-> 0]
NoJob     == [status |-> "none", previous |-> "review_approved", lease |-> "none"]

-----------------------------------------------------------------------------
(* Rows *)

Listed(table) == {s \in Sections : table[s].status # "absent"}

CurrentSections == {<<o, sec[o]>> : o \in {o \in Orders : sec[o] # 0}}

AllApproved_AnyStatus(table) ==     \* mutant: drafts need only exist
    Listed(table) # {}

(* every generated draft is approved, and there is one *)
AllApproved(table) ==
    /\ Listed(table) # {}
    /\ \A s \in Listed(table) : table[s].status = "approved"

(* Rows are written one after the other, in document order. *)
IsFirst(s, todo) == s \in todo /\ \A t \in todo : s[1] <= t[1]

-----------------------------------------------------------------------------
(* Jobs *)

Claimable_Always(j) ==     \* mutant: no condition on the update
    TRUE

Claimable_NoLease(j) ==     \* mutant: a running job is taken at any age
    jobs[j].status \in {"pending", "failed", "running"}

(* _claim_job: a new or failed job, or one whose worker's lease timed out.  *)
Claimable(j) ==
    \/ jobs[j].status \in {"pending", "failed"}
    \/ jobs[j].status = "running" /\ jobs[j].lease = "none"

(* put_job and its siblings replace the row unconditionally. *)
PutJob(j, status) ==
    jobs' = [jobs EXCEPT ![j].status = status, ![j].lease = "none"]

(* enqueue_mapping and enqueue_drafting leave such a job alone. *)
UnderWay(j) == jobs[j].status \in {"running", "succeeded"}

-----------------------------------------------------------------------------
(* The queue *)

Send(j, holders) ==
    \E m \in Messages :
        /\ msgs[m].state = "free"
        /\ m \notin holders
        /\ msgs' = [msgs EXCEPT ![m] = [state |-> "visible", job |-> j,
                                        receives |-> 0]]

-----------------------------------------------------------------------------

(* A clean run up to some point: uploaded, mapped, or drafted. *)
Begun == {"upload_pending", "mapped", "drafted"}

FirstRows == [s \in Sections |-> IF s[2] = 1 THEN [status |-> "proposed", text |-> "model"]
                                 ELSE NoRow]
Reviewed(table, status) ==
    [s \in Sections |-> IF table[s] = NoRow THEN NoRow
                        ELSE [table[s] EXCEPT !.status = status]]

StoreInit(begin) ==
    LET past == begin # "upload_pending"
        done(yes) == [NoJob EXCEPT !.status = IF yes THEN "succeeded" ELSE "none"]
    IN
    /\ doc = [status |-> begin, failure |-> "none", active |-> "none",
              exported |-> FALSE, count |-> IF past THEN Cardinality(Orders) ELSE 0]
    /\ jobs = [j \in Jobs |-> done(\/ j \in {"parse", "map"} /\ past
                                   \/ j = "draft" /\ begin = "drafted")]
    /\ msgs = [m \in Messages |-> NoMessage]
    /\ sec = [o \in Orders |-> IF past THEN 1 ELSE 0]
    /\ maps = IF begin = "mapped" THEN FirstRows
              ELSE IF past THEN Reviewed(FirstRows, "approved") ELSE NoRows
    /\ drafts = IF begin = "drafted" THEN FirstRows ELSE NoRows
    /\ file = {}
    /\ parses = IF past THEN 1 ELSE 0
    /\ signed = {}

=============================================================================
