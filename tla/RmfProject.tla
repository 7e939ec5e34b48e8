----------------------------- MODULE RmfProject -----------------------------
(***************************************************************************)
(* A project of the RMF migrator as the deletion sees it: the META row,    *)
(* the rows of its documents, and its objects in a versioned bucket.       *)
(* Requests register documents, browsers upload bytes with a presigned     *)
(* form, requests enqueue parses, and DELETE purges all of it in many      *)
(* calls to S3 and DynamoDB, any of which may be its last.                 *)
(*                                                                         *)
(* Bytes are named by what they are.  A conversion has the name of the     *)
(* legacy bytes it was made from, sections that of the bytes parsed.       *)
(***************************************************************************)
EXTENDS Naturals, FiniteSets

CONSTANTS
    Docs,                    \* ids of documents
    Deleters,                \* slots for concurrent DELETE calls
    Native, Legacy, Junk,    \* uploads that are .docx, .doc, and neither
    PageSize                 \* versions listed at a time (MaxKeys)

Contents == Native \cup Legacy \cup Junk

ASSUME ProjectConstants ==
    /\ Native \cap Legacy = {} /\ Native \cap Junk = {} /\ Legacy \cap Junk = {}
    /\ "none" \notin Contents
    /\ PageSize \in Nat \ {0}

VARIABLES
    meta,      \* META row: absent, the project, or a bare document count
    row,       \* document rows
    job,       \* status of the parse job rows
    sect,      \* the bytes that section rows come from
    obj,       \* objects under projects/<id>/
    queue,     \* parse messages waiting
    upload,    \* registration requests, then the form they hand out
    enqueue,   \* requests to parse
    del,       \* DELETE calls
    posts,     \* uploads left
    purges,    \* DELETE calls left
    faults,    \* deaths, lost answers and failing calls left
    begun,     \* history: a purge has begun
    early      \* history: what it found, not yet deleted or replaced

store    == <<meta, row, job, sect, obj>>
requests == <<upload, enqueue, del, posts, purges, begun>>

Keys     == {"original", "converted", "text"} \X Docs
Statuses == {"absent", "pending", "parsing", "parsed", "failed"}
Rows     == [status : Statuses, format : {"docx", "doc"}, converted : BOOLEAN,
             read : Contents \cup {"none"}]     \* read: history, the bytes sniffed
NoRow    == [status |-> "absent", format |-> "docx", converted |-> FALSE,
             read |-> "none"]

(* Everything kept for the project but META. *)
Objects == {k \in Keys : obj[k] # "none"}
Items   == {<<"row", d>> : d \in {d \in Docs : row[d] # NoRow}}
             \cup {<<"job", d>> : d \in {d \in Docs : job[d] # "none"}}
Kept    == Objects \cup Items \cup {<<"sections", d>> : d \in {d \in Docs : sect[d] # {}}}

Wrote(kind, d) == early' = early \ {<<kind, d>>}

PutRow(d, r) == row' = [row EXCEPT ![d] = r] /\ Wrote("row", d)
PutJob(d, s) == job' = [job EXCEPT ![d] = s] /\ Wrote("job", d)
PutObject(kind, d, c) == obj' = [obj EXCEPT ![<<kind, d>>] = c] /\ Wrote(kind, d)

Fault == faults > 0 /\ faults' = faults - 1

-----------------------------------------------------------------------------
(* POST /projects/{id}/documents, and the form it hands out *)

(* The project exists: a bare count does not load, and the call raises. *)
Register(d) ==
    /\ upload[d] = "none"
    /\ meta = "project"
    /\ upload' = [upload EXCEPT ![d] = "put"]
    /\ UNCHANGED <<store, queue, enqueue, del, posts, purges, begun, faults, early>>

(* The format on record is the one of the name; a .doc needs a converter.   *)
RegisterRow(d, backend) ==
    /\ upload[d] = "put"
    /\ \E f \in IF backend = "lambda" THEN {"docx", "doc"} ELSE {"docx"} :
         PutRow(d, [NoRow EXCEPT !.status = "pending", !.format = f])
    /\ upload' = [upload EXCEPT ![d] = "count"]
    /\ UNCHANGED <<meta, job, sect, obj, queue, enqueue, del, posts, purges, begun, faults>>

(* An update without a condition: it makes the row when there is none. *)
RegisterCount(d) ==
    /\ upload[d] = "count"
    /\ meta' = IF meta = "none" THEN "count" ELSE meta
    /\ upload' = [upload EXCEPT ![d] = "open"]
    /\ UNCHANGED <<row, job, sect, obj, queue, enqueue, del, posts, purges, begun, faults, early>>

RegisterDies(d) ==
    /\ upload[d] \in {"put", "count"}
    /\ Fault
    /\ upload' = [upload EXCEPT ![d] = "closed"]
    /\ UNCHANGED <<store, queue, enqueue, del, posts, purges, begun, early>>

(* The form is good for five minutes and any number of uploads. *)
Post(d, c) ==
    /\ upload[d] = "open"
    /\ posts > 0
    /\ posts' = posts - 1
    /\ PutObject("original", d, c)
    /\ UNCHANGED <<meta, row, job, sect, queue, upload, enqueue, del, purges, begun, faults>>

FormExpires(d) ==
    /\ upload[d] = "open"
    /\ upload' = [upload EXCEPT ![d] = "closed"]
    /\ UNCHANGED <<store, queue, enqueue, del, posts, purges, begun, faults, early>>

-----------------------------------------------------------------------------
(* POST .../parse *)

NoRequest == [pc |-> "idle", row |-> NoRow]
Admitted  == {"pending", "failed"}

StepTo(d, l) == enqueue' = [enqueue EXCEPT ![d].pc = l]

(* A document being parsed gets its job back, others a 409: no change. *)
Enqueue(d) ==
    /\ enqueue[d] = NoRequest
    /\ row[d].status \in Admitted
    /\ obj[<<"original", d>>] # "none"
    /\ enqueue' = [enqueue EXCEPT ![d] = [pc |-> "swap", row |-> row[d]]]
    /\ UNCHANGED <<store, queue, upload, del, posts, purges, begun, faults, early>>

(* put_document_if_status: the row must still be there to have a status. *)
EnqueueRow(d) ==
    /\ enqueue[d].pc = "swap"
    /\ IF row[d].status \in Admitted
       THEN /\ PutRow(d, [enqueue[d].row EXCEPT !.status = "parsing"])
            /\ StepTo(d, "job")
       ELSE /\ enqueue' = [enqueue EXCEPT ![d] = NoRequest]
            /\ UNCHANGED <<row, early>>
    /\ UNCHANGED <<meta, job, sect, obj, queue, upload, del, posts, purges, begun, faults>>

EnqueueJob(d) ==
    /\ enqueue[d].pc = "job"
    /\ PutJob(d, "pending")
    /\ StepTo(d, "send")
    /\ UNCHANGED <<meta, row, sect, obj, queue, upload, del, posts, purges, begun, faults>>

EnqueueSend(d) ==
    /\ enqueue[d].pc = "send"
    /\ queue' = [queue EXCEPT ![d] = @ + 1]
    /\ enqueue' = [enqueue EXCEPT ![d] = NoRequest]
    /\ UNCHANGED <<store, upload, del, posts, purges, begun, faults, early>>

(* SQS may have taken the message when the call raises. *)
EnqueueFails(d, taken) ==
    /\ enqueue[d].pc \in {"job", "send"}
    /\ Fault
    /\ \/ UNCHANGED queue
       \/ taken /\ enqueue[d].pc = "send" /\ queue' = [queue EXCEPT ![d] = @ + 1]
    /\ StepTo(d, "undo")
    /\ UNCHANGED <<store, upload, del, posts, purges, begun, early>>

EnqueueUndo(d) ==
    /\ enqueue[d].pc = "undo"
    /\ PutRow(d, enqueue[d].row)
    /\ StepTo(d, "undojob")
    /\ UNCHANGED <<meta, job, sect, obj, queue, upload, del, posts, purges, begun, faults>>

EnqueueUndoJob(d) ==
    /\ enqueue[d].pc = "undojob"
    /\ PutJob(d, "failed")
    /\ enqueue' = [enqueue EXCEPT ![d] = NoRequest]
    /\ UNCHANGED <<meta, row, sect, obj, queue, upload, del, posts, purges, begun, faults>>

EnqueueDies(d) ==
    /\ enqueue[d] # NoRequest
    /\ Fault
    /\ enqueue' = [enqueue EXCEPT ![d] = NoRequest]
    /\ UNCHANGED <<store, queue, upload, del, posts, purges, begun, early>>

-----------------------------------------------------------------------------
(* DELETE /projects/{id} *)

NoPurge == [pc |-> "idle", todo |-> {}, meta |-> FALSE]

Purging(x, l, todo) == del' = [del EXCEPT ![x].pc = l, ![x].todo = todo]

(* The name confirmed, the caller allowed; without META, or with a bare     *)
(* count, there is nothing to delete or the call raises.                    *)
Delete(x) ==
    /\ del[x] = NoPurge
    /\ purges > 0
    /\ meta = "project"
    /\ purges' = purges - 1
    /\ begun' = TRUE
    /\ early' = IF begun THEN early ELSE Kept
    /\ Purging(x, "list", {})
    /\ UNCHANGED <<store, queue, upload, enqueue, posts, faults>>

(* delete_prefix lists the first page again after every deletion. *)
ListPage(x) ==
    /\ del[x].pc = "list"
    /\ IF Objects = {} THEN Purging(x, "docs", {})
       ELSE \E page \in SUBSET Objects :
              /\ Cardinality(page) = IF Cardinality(Objects) < PageSize
                                     THEN Cardinality(Objects) ELSE PageSize
              /\ Purging(x, "page", page)
    /\ UNCHANGED <<store, queue, upload, enqueue, posts, purges, begun, faults, early>>

(* Versions S3 reports as not deleted make the call raise. *)
PurgePage(x) ==
    /\ del[x].pc = "page"
    /\ \E gone \in SUBSET del[x].todo :
         /\ early' = early \ gone
         /\ obj' = [k \in Keys |-> IF k \in gone THEN "none" ELSE obj[k]]
         /\ IF gone = del[x].todo THEN Purging(x, "list", {})
            ELSE del' = [del EXCEPT ![x] = NoPurge]
    /\ UNCHANGED <<meta, row, job, sect, queue, upload, enqueue, posts, purges, begun, faults>>

ListDocuments(x) ==
    /\ del[x].pc = "docs"
    /\ Purging(x, "parts", {d \in Docs : row[d] # NoRow})
    /\ UNCHANGED <<store, queue, upload, enqueue, posts, purges, begun, faults, early>>

DeletePartition(x) ==
    /\ del[x].pc = "parts"
    /\ IF del[x].todo = {}
       THEN Purging(x, "query", {}) /\ UNCHANGED <<sect, early>>
       ELSE \E d \in del[x].todo :
              /\ early' = early \ {<<"sections", d>>}
              /\ sect' = [sect EXCEPT ![d] = {}]
              /\ Purging(x, "parts", del[x].todo \ {d})
    /\ UNCHANGED <<meta, row, job, obj, queue, upload, enqueue, posts, purges, begun, faults>>

QueryItems(x) ==
    /\ del[x].pc = "query"
    /\ del' = [del EXCEPT ![x] = [pc |-> "items", todo |-> Items, meta |-> meta # "none"]]
    /\ UNCHANGED <<store, queue, upload, enqueue, posts, purges, begun, faults, early>>

DeleteItems_MetaToo(x) ==     \* mutant: META goes with the rest of the partition
    /\ del[x].pc = "items"
    /\ meta' = IF del[x].meta THEN "none" ELSE meta
    /\ IF del[x].todo = {} THEN Purging(x, "meta", {}) /\ UNCHANGED <<row, job, early>>
       ELSE \E gone \in SUBSET del[x].todo \ {{}} :
              /\ early' = early \ gone
              /\ row' = [d \in Docs |-> IF <<"row", d>> \in gone THEN NoRow ELSE row[d]]
              /\ job' = [d \in Docs |-> IF <<"job", d>> \in gone THEN "none" ELSE job[d]]
              /\ Purging(x, "items", del[x].todo \ gone)
    /\ UNCHANGED <<sect, obj, queue, upload, enqueue, posts, purges, begun, faults>>

(* The batch writer's batches; META is kept for last. *)
DeleteItems(x) ==
    /\ del[x].pc = "items"
    /\ IF del[x].todo = {} THEN Purging(x, "meta", {}) /\ UNCHANGED <<row, job, early>>
       ELSE \E gone \in SUBSET del[x].todo \ {{}} :
              /\ early' = early \ gone
              /\ row' = [d \in Docs |-> IF <<"row", d>> \in gone THEN NoRow ELSE row[d]]
              /\ job' = [d \in Docs |-> IF <<"job", d>> \in gone THEN "none" ELSE job[d]]
              /\ Purging(x, "items", del[x].todo \ gone)
    /\ UNCHANGED <<meta, sect, obj, queue, upload, enqueue, posts, purges, begun, faults>>

DeleteMeta(x) ==
    /\ del[x].pc = "meta"
    /\ meta' = IF del[x].meta THEN "none" ELSE meta
    /\ del' = [del EXCEPT ![x] = NoPurge]
    /\ UNCHANGED <<row, job, sect, obj, queue, upload, enqueue, posts, purges, begun, faults, early>>

DeleteDies(x) ==
    /\ del[x] # NoPurge
    /\ Fault
    /\ del' = [del EXCEPT ![x] = NoPurge]
    /\ UNCHANGED <<store, queue, upload, enqueue, posts, purges, begun, early>>

DeleteStep(x) ==
    \/ ListPage(x) \/ PurgePage(x) \/ ListDocuments(x) \/ DeletePartition(x)
    \/ QueryItems(x) \/ DeleteItems(x) \/ DeleteMeta(x)

ProjectStep(backend, taken) ==
    \/ \E d \in Docs :
         \/ Register(d) \/ RegisterRow(d, backend) \/ RegisterCount(d) \/ RegisterDies(d)
         \/ \E c \in Contents : Post(d, c)
         \/ FormExpires(d)
         \/ Enqueue(d) \/ EnqueueRow(d) \/ EnqueueJob(d) \/ EnqueueSend(d)
         \/ EnqueueFails(d, taken) \/ EnqueueUndo(d) \/ EnqueueUndoJob(d) \/ EnqueueDies(d)
    \/ \E x \in Deleters : Delete(x) \/ DeleteStep(x) \/ DeleteDies(x)

ProjectInit ==
    /\ meta = "project"
    /\ row = [d \in Docs |-> NoRow]
    /\ job = [d \in Docs |-> "none"]
    /\ sect = [d \in Docs |-> {}]
    /\ obj = [k \in Keys |-> "none"]
    /\ queue = [d \in Docs |-> 0]
    /\ upload = [d \in Docs |-> "none"]
    /\ enqueue = [d \in Docs |-> NoRequest]
    /\ del = [x \in Deleters |-> NoPurge]
    /\ begun = FALSE
    /\ early = {}

=============================================================================
