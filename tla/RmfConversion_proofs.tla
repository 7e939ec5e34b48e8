------------------------ MODULE RmfConversion_proofs ------------------------
(***************************************************************************)
(* That META outlives what a purge found, that scratch copies are cleaned  *)
(* up, and that records describe the bytes that were parsed as long as one *)
(* invocation at a time writes a document: for any number of documents,    *)
(* DELETE calls, invocations, scratch prefixes and faults.                 *)
(***************************************************************************)
EXTENDS RmfConversion, TLAPS

-----------------------------------------------------------------------------
(* The invariant *)

Things == {"original", "converted", "text", "row", "job", "sections"} \X Docs

JobStates == {"none", "pending", "running", "failed", "succeeded"}
Uploads   == {"none", "put", "count", "open", "closed"}
Enqueues  == [pc : {"idle", "swap", "job", "send", "undo", "undojob"}, row : Rows]
Purges    == [pc : {"idle", "list", "page", "docs", "parts", "query", "items", "meta"},
              todo : SUBSET (Things \cup Docs), meta : BOOLEAN]
Works     == [pc : WorkerPcs, doc : Docs \cup {"none"}, row : Rows, job : JobStates,
              data : Contents \cup {"none"}, token : Tokens \cup {"none"},
              ok : BOOLEAN, retry : BOOLEAN]

StoreOK ==
    /\ meta \in {"none", "project", "count"}
    /\ row \in [Docs -> Rows]
    /\ job \in [Docs -> JobStates]
    /\ sect \in [Docs -> SUBSET Contents]
    /\ obj \in [Keys -> Contents \cup {"none"}]
    /\ queue \in [Docs -> Nat]

(* a request that will put a row back has read one *)
RequestsOK ==
    /\ upload \in [Docs -> Uploads]
    /\ enqueue \in [Docs -> Enqueues]
    /\ \A d \in Docs : enqueue[d].pc # "idle" => enqueue[d].row.status # "absent"
    /\ del \in [Deleters -> Purges]
    /\ begun \in BOOLEAN

WorkOK(i) ==
    /\ i.pc # "idle" => i.doc \in Docs
    /\ i.pc \in ConvertPcs <=> i.token # "none"
    /\ i.pc \in ConvertPcs \cup {"stage", "copy", "parse", "sections", "commit"}
         => i.data \in Contents

WorkersOK == wk \in [Workers -> Works] /\ \A w \in Workers : WorkOK(wk[w])

(* what an invocation holds no other does, and it is there *)
ScratchOK ==
    /\ scratch \in [Tokens -> SUBSET {"source", "target"}]
    /\ conv \in [Tokens -> {"none", "running", "done", "failed"}]
    /\ ScratchIsCleaned
    /\ \A t \in Tokens : conv[t] = "running" =>
          t \in strayed \/ \E w \in Workers : wk[w].token = t /\ wk[w].pc = "wait"
    /\ \A w \in Workers : wk[w].token # "none" =>
          /\ scratch[wk[w].token] # {}
          /\ \A v \in Workers : wk[v].token = wk[w].token => v = w

(* what a purge found is still there until it is taken off the list *)
EarlyIsThere ==
    /\ early \subseteq Things
    /\ \A k \in Keys : k \in early => obj[k] # "none"
    /\ \A d \in Docs : /\ <<"row", d>> \in early => row[d] # NoRow
                       /\ <<"job", d>> \in early => job[d] # "none"
                       /\ <<"sections", d>> \in early => row[d] # NoRow

PurgeKnows(r) ==
    /\ r.pc \in {"docs", "parts", "query", "items", "meta"} => \A k \in Keys : k \notin early
    /\ r.pc = "parts" => \A d \in Docs : <<"sections", d>> \in early => d \in r.todo
    /\ r.pc \in {"query", "items", "meta"} => \A d \in Docs : <<"sections", d>> \notin early
    /\ r.pc = "items" => early \subseteq r.todo
    /\ r.pc = "meta" => early = {}
PurgesKnow == \A x \in Deleters : PurgeKnows(del[x])

(* sections have a document until a purge takes the rows *)
Began == HoldingPcs \ {"begin", "refuse"}
BeforePurge ==
    ~begun =>
        /\ early = {} /\ \A x \in Deleters : del[x] = NoPurge
        /\ \A d \in Docs : sect[d] # {} => row[d] # NoRow
        /\ \A w \in Workers : wk[w].pc \in Began => row[wk[w].doc] # NoRow

PurgeOK == EarlyIsThere /\ PurgesKnow /\ BeforePurge /\ MetaGoesLast

IInv == StoreOK /\ RequestsOK /\ WorkersOK /\ ScratchOK /\ PurgeOK

-----------------------------------------------------------------------------
(* Rows and workers *)

LEMMA RowTypes ==
    /\ NoRow \in Rows /\ NoRow.status = "absent"
    /\ \A r \in Rows : r.status # "absent" => r # NoRow
    /\ \A r \in Rows, status \in Statuses :
         [r EXCEPT !.status = status] \in Rows /\ [r EXCEPT !.status = status].status = status
    /\ \A r \in Rows :
         [r EXCEPT !.converted = TRUE] \in Rows /\ [r EXCEPT !.converted = TRUE].status = r.status
    /\ \A f \in {"docx", "doc"} :
         LET r == [NoRow EXCEPT !.status = "pending", !.format = f]
         IN  r \in Rows /\ r.status = "pending"
<1>1. NoRow \in Rows /\ NoRow.status = "absent"
  BY DEF NoRow, Rows, Statuses
<1>2. \A r \in Rows, status \in Statuses :
        [r EXCEPT !.status = status] \in Rows /\ [r EXCEPT !.status = status].status = status
  BY DEF Rows
<1>3. \A r \in Rows :
        [r EXCEPT !.converted = TRUE] \in Rows /\ [r EXCEPT !.converted = TRUE].status = r.status
  BY DEF Rows
<1>4. ASSUME NEW f \in {"docx", "doc"}
      PROVE  LET r == [NoRow EXCEPT !.status = "pending", !.format = f]
             IN  r \in Rows /\ r.status = "pending"
  BY DEF NoRow, Rows, Statuses
<1>. QED
  BY <1>1, <1>2, <1>3, <1>4

LEMMA SniffedTypes ==
    ASSUME NEW r \in Rows, NEW c \in Contents
    PROVE  Sniffed(r, c) \in Rows /\ Sniffed(r, c).status = r.status
<1>. DEFINE f == CASE c \in Legacy -> "doc" [] c \in Native -> "docx" [] OTHER -> r.format
<1>1. f \in {"docx", "doc"}
  BY DEF Rows
<1>2. Sniffed(r, c) = [r EXCEPT !.read = c, !.converted = FALSE, !.format = f]
  BY DEF Sniffed
<1>. HIDE DEF f
<1>. QED
  BY <1>1, <1>2 DEF Rows

LEMMA Rests ==
    NoWork \in Works /\ WorkOK(NoWork) /\ NoWork.token = "none" /\ NoWork.pc = "idle"
BY RowTypes DEF NoWork, Works, WorkerPcs, WorkOK, ConvertPcs, HoldingPcs, TryPcs, JobStates

LEMMA AtWork ==
    ASSUME WorkersOK, NEW w \in Workers
    PROVE  /\ wk \in [Workers -> Works] /\ wk[w] \in Works /\ WorkOK(wk[w])
           /\ wk[w].row \in Rows /\ wk[w].token \in Tokens \cup {"none"}
           /\ wk[w].data \in Contents \cup {"none"}
           /\ wk[w].pc \in WorkerPcs
           /\ wk[w].pc # "idle" => wk[w].doc \in Docs
BY DEF WorkersOK, WorkOK, Works

LEMMA WorkerMovesOn ==
    ASSUME WorkersOK, NEW w \in Workers, NEW i \in Works, WorkOK(i), wk' = [wk EXCEPT ![w] = i]
    PROVE  /\ WorkersOK' /\ wk'[w] = i /\ \A v \in Workers \ {w} : wk'[v] = wk[v]
BY DEF WorkersOK, WorkOK

(* Outside the conversion an invocation has no token. *)
Plain == {"doc", "settle", "claim", "begin", "refuse", "fetch", "stage", "copy", "parse",
          "sections", "commit", "close", "fail", "failjob"}

LEMMA Goes ==
    ASSUME WorkersOK, NEW w \in Workers, NEW l \in Plain, Goto(w, l),
           wk[w].pc \in WorkerPcs \ (ConvertPcs \cup {"idle"}),
           l \in {"stage", "copy", "parse", "sections", "commit"} => wk[w].data \in Contents
    PROVE  /\ WorkersOK' /\ wk'[w].pc = l /\ wk'[w].token = "none" /\ wk'[w].doc = wk[w].doc
           /\ \A v \in Workers \ {w} : wk'[v] = wk[v]
<1>. DEFINE i == [wk[w] EXCEPT !.pc = l]
<1>1. l \in WorkerPcs \ (ConvertPcs \cup {"idle"})
  BY DEF Plain, WorkerPcs, ConvertPcs, HoldingPcs, TryPcs
<1>2. /\ i \in Works /\ i.pc = l /\ i.doc = wk[w].doc /\ i.row = wk[w].row
      /\ i.token = wk[w].token /\ i.data = wk[w].data /\ WorkOK(wk[w])
  BY <1>1, AtWork DEF Works
<1>3. wk' = [wk EXCEPT ![w] = i]
  BY DEF Goto
<1>. HIDE DEF i
<1>4. WorkOK(i) /\ i.token = "none"
  BY <1>1, <1>2 DEF WorkOK, Plain, HoldingPcs, TryPcs
<1>. QED
  BY <1>2, <1>3, <1>4, WorkerMovesOn

LEMMA Keeps ==
    ASSUME WorkersOK, NEW w \in Workers, NEW l \in Plain, NEW r \in Rows, Keep(w, r, l),
           wk[w].pc \in WorkerPcs \ (ConvertPcs \cup {"idle"}),
           l \in {"stage", "copy", "parse", "sections", "commit"} => wk[w].data \in Contents
    PROVE  /\ WorkersOK' /\ wk'[w].pc = l /\ wk'[w].token = "none" /\ wk'[w].doc = wk[w].doc
           /\ \A v \in Workers \ {w} : wk'[v] = wk[v]
<1>. DEFINE i == [wk[w] EXCEPT !.row = r, !.pc = l]
<1>1. l \in WorkerPcs \ (ConvertPcs \cup {"idle"})
  BY DEF Plain, WorkerPcs, ConvertPcs, HoldingPcs, TryPcs
<1>2. /\ i \in Works /\ i.pc = l /\ i.doc = wk[w].doc /\ i.row = r
      /\ i.token = wk[w].token /\ i.data = wk[w].data /\ WorkOK(wk[w])
  BY <1>1, AtWork DEF Works
<1>3. wk' = [wk EXCEPT ![w] = i]
  BY DEF Keep
<1>. HIDE DEF i
<1>4. WorkOK(i) /\ i.token = "none"
  BY <1>1, <1>2 DEF WorkOK, Plain, HoldingPcs, TryPcs
<1>. QED
  BY <1>2, <1>3, <1>4, WorkerMovesOn

-----------------------------------------------------------------------------
(* Writes *)

LEMMA RowWritten ==
    ASSUME row \in [Docs -> Rows], NEW d \in Docs, NEW r \in Rows, r.status # "absent", PutRow(d, r)
    PROVE  /\ row' \in [Docs -> Rows] /\ row'[d] # NoRow /\ early' \subseteq early
           /\ \A e \in Docs : row'[e] = NoRow => row[e] = NoRow
BY RowTypes DEF PutRow, Wrote

LEMMA JobWritten ==
    ASSUME job \in [Docs -> JobStates], NEW d \in Docs, NEW st \in JobStates \ {"none"}, PutJob(d, st)
    PROVE  /\ job' \in [Docs -> JobStates] /\ early' \subseteq early
           /\ \A e \in Docs : job'[e] = "none" => job[e] = "none"
BY DEF PutJob, Wrote

LEMMA ObjectWritten ==
    ASSUME obj \in [Keys -> Contents \cup {"none"}], NEW d \in Docs, NEW c \in Contents,
           NEW kind, PutObject(kind, d, c)
    PROVE  /\ obj' \in [Keys -> Contents \cup {"none"}] /\ early' \subseteq early
           /\ \A k \in Keys : obj'[k] = "none" => obj[k] = "none"
BY ProjectConstants DEF PutObject, Wrote

(* What the purge relies on survives every write but its own. *)
LEMMA WritesKeep ==
    ASSUME PurgeOK, WorkersOK, UNCHANGED <<del, begun>>, early' \subseteq early,
           meta' # "project" => meta # "project",
           \A d \in Docs : row'[d] = NoRow => row[d] = NoRow,
           \A d \in Docs : job'[d] = "none" => job[d] = "none",
           \A k \in Keys : obj'[k] = "none" => obj[k] = "none",
           \A d \in Docs : sect'[d] # {} => sect[d] # {} \/ begun \/ row[d] # NoRow,
           \A w \in Workers :
               \/ wk'[w] = wk[w] \/ wk'[w].pc \notin Began \/ begun
               \/ row'[wk'[w].doc] # NoRow
    PROVE  PurgeOK'
<1>1. EarlyIsThere'
  BY DEF PurgeOK, EarlyIsThere
<1>2. PurgesKnow'
  BY DEF PurgeOK, PurgesKnow, PurgeKnows
<1>3. \A w \in Workers : wk[w].pc \in Began => wk[w].doc \in Docs
  BY AtWork DEF Began, HoldingPcs, TryPcs, ConvertPcs
<1>4. BeforePurge'
  BY <1>3 DEF PurgeOK, BeforePurge
<1>5. MetaGoesLast'
  BY DEF PurgeOK, MetaGoesLast
<1>. QED
  BY <1>1, <1>2, <1>4, <1>5 DEF PurgeOK

LEMMA ScratchStays ==
    ASSUME ScratchOK, UNCHANGED <<scratch, conv, strayed>>,
           \A w \in Workers : wk'[w].token = wk[w].token,
           \A w \in Workers : wk[w].pc = "wait" => wk'[w].pc = "wait"
    PROVE  ScratchOK'
BY DEF ScratchOK, ScratchIsCleaned

-----------------------------------------------------------------------------
(* Requests *)

LEMMA EnqueueMoves ==
    ASSUME RequestsOK, NEW d \in Docs, NEW e \in Enqueues,
           e.pc # "idle" => e.row.status # "absent",
           enqueue' = [enqueue EXCEPT ![d] = e], UNCHANGED <<upload, del, begun>>
    PROVE  RequestsOK'
BY DEF RequestsOK

LEMMA EnqueueSteps ==
    ASSUME RequestsOK, NEW d \in Docs, enqueue[d].pc # "idle",
           NEW l \in {"job", "send", "undo", "undojob"},
           StepTo(d, l) \/ enqueue' = [enqueue EXCEPT ![d] = NoRequest],
           UNCHANGED <<upload, del, begun>>
    PROVE  RequestsOK'
<1>. DEFINE e == [enqueue[d] EXCEPT !.pc = l]
<1>1. e \in Enqueues /\ e.row = enqueue[d].row
  BY DEF RequestsOK, Enqueues
<1>2. NoRequest \in Enqueues /\ NoRequest.pc = "idle"
  BY RowTypes DEF NoRequest, Enqueues
<1>3. enqueue' = [enqueue EXCEPT ![d] = e] \/ enqueue' = [enqueue EXCEPT ![d] = NoRequest]
  BY DEF StepTo
<1>. HIDE DEF e
<1>. QED
  BY <1>1, <1>2, <1>3, EnqueueMoves DEF RequestsOK

LEMMA RequestKeeps ==
    ASSUME IInv, NEW d \in Docs,
           \/ Register(d) \/ RegisterRow(d, backend) \/ RegisterCount(d) \/ RegisterDies(d)
           \/ \E c \in Contents : Post(d, c)
           \/ FormExpires(d),
           UNCHANGED <<wk, convert>>
    PROVE  IInv'
<1>1. /\ UNCHANGED <<job, sect, queue, enqueue, del, begun, wk, scratch, conv, strayed>>
  BY DEF Register, RegisterRow, RegisterCount, RegisterDies, Post, FormExpires, store, convert
<1>2. StoreOK /\ RequestsOK /\ WorkersOK /\ ScratchOK /\ PurgeOK
  BY DEF IInv
<1>3. upload' \in [Docs -> Uploads]
  BY <1>2 DEF Register, RegisterRow, RegisterCount, RegisterDies, Post, FormExpires, RequestsOK, Uploads
<1>4. /\ meta' \in {"none", "project", "count"} /\ (meta' # "project" => meta # "project")
  BY <1>2 DEF Register, RegisterRow, RegisterCount, RegisterDies, Post, FormExpires, StoreOK, store
<1>5. /\ row' \in [Docs -> Rows] /\ \A e \in Docs : row'[e] = NoRow => row[e] = NoRow
      /\ obj' \in [Keys -> Contents \cup {"none"}] /\ \A k \in Keys : obj'[k] = "none" => obj[k] = "none"
      /\ early' \subseteq early
  <2>1. CASE RegisterRow(d, backend)
    <3>1. PICK f \in {"docx", "doc"} : PutRow(d, [NoRow EXCEPT !.status = "pending", !.format = f])
      BY <2>1 DEF RegisterRow
    <3>. QED
      BY <1>2, <2>1, <3>1, RowTypes, RowWritten DEF RegisterRow, StoreOK
  <2>2. CASE \E c \in Contents : Post(d, c)
    BY <1>2, <2>2, ObjectWritten DEF Post, StoreOK
  <2>3. CASE Register(d) \/ RegisterCount(d) \/ RegisterDies(d) \/ FormExpires(d)
    BY <1>2, <2>3 DEF Register, RegisterCount, RegisterDies, FormExpires, StoreOK, store
  <2>. QED
    BY <2>1, <2>2, <2>3
<1>6. StoreOK' /\ RequestsOK' /\ WorkersOK' /\ ScratchOK'
  BY <1>1, <1>2, <1>3, <1>4, <1>5, ScratchStays DEF StoreOK, RequestsOK, WorkersOK, WorkOK
<1>7. PurgeOK'
  BY <1>1, <1>2, <1>4, <1>5, WritesKeep
<1>. QED
  BY <1>6, <1>7 DEF IInv

LEMMA EnqueueKeeps ==
    ASSUME IInv, NEW d \in Docs,
           \/ Enqueue(d) \/ EnqueueRow(d) \/ EnqueueJob(d) \/ EnqueueSend(d)
           \/ EnqueueFails(d, taken) \/ EnqueueUndo(d) \/ EnqueueUndoJob(d) \/ EnqueueDies(d),
           UNCHANGED <<wk, convert>>
    PROVE  IInv'
<1>1. UNCHANGED <<meta, sect, obj, upload, del, begun, wk, scratch, conv, strayed>>
  BY DEF Enqueue, EnqueueRow, EnqueueJob, EnqueueSend, EnqueueFails, EnqueueUndo, EnqueueUndoJob,
         EnqueueDies, store, convert
<1>2. StoreOK /\ RequestsOK /\ WorkersOK /\ ScratchOK /\ PurgeOK
  BY DEF IInv
<1>3. RequestsOK'
  <2>1. CASE Enqueue(d)
    <3>. DEFINE e == [pc |-> "swap", row |-> row[d]]
    <3>1. e \in Enqueues /\ e.row.status # "absent"
      BY <1>2, <2>1 DEF Enqueue, StoreOK, Enqueues, Admitted
    <3>2. enqueue' = [enqueue EXCEPT ![d] = e]
      BY <2>1 DEF Enqueue
    <3>. HIDE DEF e
    <3>. QED
      BY <1>1, <1>2, <3>1, <3>2, EnqueueMoves
  <2>2. CASE ~Enqueue(d)
    <3>1. enqueue[d].pc # "idle" \/ EnqueueDies(d)
      BY <2>2 DEF EnqueueRow, EnqueueJob, EnqueueSend, EnqueueFails, EnqueueUndo, EnqueueUndoJob
    <3>2. \E l \in {"job", "send", "undo", "undojob"} :
             StepTo(d, l) \/ enqueue' = [enqueue EXCEPT ![d] = NoRequest]
      BY <2>2 DEF EnqueueRow, EnqueueJob, EnqueueSend, EnqueueFails, EnqueueUndo, EnqueueUndoJob,
                  EnqueueDies
    <3>3. CASE EnqueueDies(d)
      <4>1. enqueue' = [enqueue EXCEPT ![d] = NoRequest]
        BY <3>3 DEF EnqueueDies
      <4>2. NoRequest \in Enqueues /\ NoRequest.pc = "idle"
        BY RowTypes DEF NoRequest, Enqueues
      <4>. QED
        BY <1>1, <1>2, <4>1, <4>2, EnqueueMoves
    <3>. QED
      BY <1>1, <1>2, <3>1, <3>2, <3>3, EnqueueSteps
  <2>. QED
    BY <2>1, <2>2
<1>4. enqueue[d].pc # "idle" => enqueue[d].row \in Rows /\ enqueue[d].row.status # "absent"
  BY <1>2 DEF RequestsOK, Enqueues
<1>5. /\ row' \in [Docs -> Rows] /\ \A e \in Docs : row'[e] = NoRow => row[e] = NoRow
      /\ job' \in [Docs -> JobStates] /\ \A e \in Docs : job'[e] = "none" => job[e] = "none"
      /\ early' \subseteq early
  <2>1. CASE EnqueueRow(d)
    <3>1. CASE row[d].status \in Admitted
      BY <1>2, <1>4, <2>1, <3>1, RowTypes, RowWritten DEF EnqueueRow, StoreOK, Statuses
    <3>. QED
      BY <1>2, <2>1, <3>1 DEF EnqueueRow, StoreOK
  <2>2. CASE EnqueueUndo(d)
    BY <1>2, <1>4, <2>2, RowWritten DEF EnqueueUndo, StoreOK
  <2>3. CASE EnqueueJob(d) \/ EnqueueUndoJob(d)
    BY <1>2, <2>3, JobWritten DEF EnqueueJob, EnqueueUndoJob, StoreOK, JobStates
  <2>4. CASE Enqueue(d) \/ EnqueueSend(d) \/ EnqueueFails(d, taken) \/ EnqueueDies(d)
    BY <1>2, <2>4 DEF Enqueue, EnqueueSend, EnqueueFails, EnqueueDies, StoreOK, store
  <2>. QED
    BY <2>1, <2>2, <2>3, <2>4
<1>6. queue' \in [Docs -> Nat]
  BY <1>2 DEF Enqueue, EnqueueRow, EnqueueJob, EnqueueSend, EnqueueFails, EnqueueUndo,
              EnqueueUndoJob, EnqueueDies, StoreOK
<1>7. StoreOK' /\ WorkersOK' /\ ScratchOK'
  BY <1>1, <1>2, <1>5, <1>6, ScratchStays DEF StoreOK, WorkersOK, WorkOK
<1>8. PurgeOK'
  BY <1>1, <1>2, <1>5, WritesKeep
<1>. QED
  BY <1>3, <1>7, <1>8 DEF IInv

-----------------------------------------------------------------------------
(* DELETE *)

LEMMA PurgeTypes == NoPurge \in Purges /\ NoPurge.pc = "idle"
BY DEF NoPurge, Purges

LEMMA KeysAreThings ==
    /\ Keys \subseteq Things
    /\ \A d \in Docs : <<"row", d>> \in Things /\ <<"job", d>> \in Things
                       /\ <<"sections", d>> \in Things
    /\ \A t \in Things :
         \/ t \in Keys
         \/ \E d \in Docs : t \in {<<"row", d>>, <<"job", d>>, <<"sections", d>>}
BY DEF Keys, Things

(* One DELETE moves on to s, which knows what it must of what is left. *)
LEMMA PurgeMoves ==
    ASSUME RequestsOK, PurgesKnow, begun, UNCHANGED <<upload, enqueue, begun>>,
           NEW x \in Deleters, NEW s \in Purges, del' = [del EXCEPT ![x] = s],
           early' \subseteq early,
           s.pc \in {"docs", "parts", "query", "items", "meta"} => \A k \in Keys : k \notin early',
           s.pc = "parts" => \A d \in Docs : <<"sections", d>> \in early' => d \in s.todo,
           s.pc \in {"query", "items", "meta"} => \A d \in Docs : <<"sections", d>> \notin early',
           s.pc = "items" => early' \subseteq s.todo,
           s.pc = "meta" => early' = {}
    PROVE  RequestsOK' /\ PurgesKnow' /\ BeforePurge'
<1>1. RequestsOK' /\ del'[x] = s /\ \A y \in Deleters \ {x} : del'[y] = del[y]
  BY DEF RequestsOK
<1>2. PurgesKnow'
  BY <1>1 DEF PurgesKnow, PurgeKnows
<1>. QED
  BY <1>1, <1>2 DEF BeforePurge

LEMMA Begins ==
    ASSUME IInv, NEW x \in Deleters, del[x].pc # "idle" \/ del[x] # NoPurge
    PROVE  begun /\ del[x] \in Purges /\ PurgeKnows(del[x]) /\ del[x].todo \subseteq Things \cup Docs
<1>1. del[x] # NoPurge
  BY PurgeTypes
<1>2. begun /\ PurgeKnows(del[x])
  BY <1>1 DEF IInv, PurgeOK, BeforePurge, PurgesKnow
<1>3. del[x] \in Purges
  BY DEF IInv, RequestsOK
<1>. QED
  BY <1>2, <1>3 DEF Purges

LEMMA DeleteKeeps ==
    ASSUME IInv, NEW x \in Deleters, Delete(x), UNCHANGED <<wk, convert>>
    PROVE  IInv'
<1>1. StoreOK /\ RequestsOK /\ WorkersOK /\ ScratchOK /\ PurgeOK
  BY DEF IInv
<1>. DEFINE s == [NoPurge EXCEPT !.pc = "list", !.todo = {}]
<1>2. s \in Purges /\ s.pc = "list"
  BY DEF NoPurge, Purges
<1>3. /\ del' = [del EXCEPT ![x] = s] /\ begun' = TRUE /\ meta = "project"
      /\ early' = IF begun THEN early ELSE Kept
      /\ UNCHANGED <<meta, row, job, sect, obj, queue, upload, enqueue, wk, scratch, conv, strayed>>
  BY DEF Delete, Purging, store, convert
<1>. HIDE DEF s
<1>4. RequestsOK'
  BY <1>1, <1>2, <1>3 DEF RequestsOK
<1>5. EarlyIsThere'
  <2>1. CASE begun
    BY <1>1, <1>3, <2>1 DEF PurgeOK, EarlyIsThere
  <2>2. CASE ~begun
    <3>1. /\ Objects \subseteq Keys /\ \A k \in Keys : k \in Objects => obj[k] # "none"
      BY DEF Objects
    <3>2. \A t \in Items : \E d \in Docs : \/ t = <<"row", d>> /\ row[d] # NoRow
                                           \/ t = <<"job", d>> /\ job[d] # "none"
      BY DEF Items
    <3>3. \A d \in Docs : sect[d] # {} => row[d] # NoRow
      BY <1>1, <2>2 DEF PurgeOK, BeforePurge
    <3>4. early' = Kept
      BY <1>3, <2>2
    <3>5. Kept \subseteq Things
      BY <3>1, <3>2, KeysAreThings DEF Kept
    <3>6. \A k \in Keys : k[1] \in {"original", "converted", "text"}
      BY DEF Keys
    <3>7. \A k \in Keys : k \in Kept => k \in Objects
      BY <3>2, <3>6 DEF Kept
    <3>8. \A d \in Docs : /\ <<"row", d>> \in Kept => <<"row", d>> \in Items
                          /\ <<"job", d>> \in Kept => <<"job", d>> \in Items
                          /\ <<"sections", d>> \in Kept => sect[d] # {}
      BY <3>1, <3>2, <3>6 DEF Kept
    <3>9. \A d \in Docs : /\ <<"row", d>> \in Items => row[d] # NoRow
                          /\ <<"job", d>> \in Items => job[d] # "none"
      BY <3>2
    <3>. QED
      BY <1>3, <3>1, <3>3, <3>4, <3>5, <3>7, <3>8, <3>9 DEF EarlyIsThere
  <2>. QED
    BY <2>1, <2>2
<1>6. PurgesKnow'
  <2>1. del'[x] = s /\ \A y \in Deleters \ {x} : del'[y] = del[y]
    BY <1>1, <1>3 DEF RequestsOK
  <2>2. CASE begun
    BY <1>1, <1>2, <1>3, <2>1, <2>2 DEF PurgeOK, PurgesKnow, PurgeKnows
  <2>3. CASE ~begun
    <3>. \A y \in Deleters : del[y] = NoPurge
      BY <1>1, <2>3 DEF PurgeOK, BeforePurge
    <3>1. \A y \in Deleters : del'[y].pc \in {"idle", "list"}
      BY <1>2, <2>1, PurgeTypes
    <3>. QED
      BY <3>1 DEF PurgesKnow, PurgeKnows
  <2>. QED
    BY <2>2, <2>3
<1>7. StoreOK' /\ WorkersOK' /\ ScratchOK'
  BY <1>1, <1>3, ScratchStays DEF StoreOK, WorkersOK, WorkOK
<1>. QED
  BY <1>3, <1>4, <1>5, <1>6, <1>7 DEF IInv, PurgeOK, BeforePurge, MetaGoesLast

LEMMA ListKeeps ==
    ASSUME IInv, NEW x \in Deleters,
           \/ ListPage(x) \/ ListDocuments(x) \/ QueryItems(x) \/ DeleteDies(x),
           UNCHANGED <<wk, convert>>
    PROVE  IInv'
<1>1. StoreOK /\ RequestsOK /\ WorkersOK /\ ScratchOK /\ PurgeOK
  BY DEF IInv
<1>2. UNCHANGED <<meta, row, job, sect, obj, queue, upload, enqueue, begun, early,
                  wk, scratch, conv, strayed>>
  BY DEF ListPage, ListDocuments, QueryItems, DeleteDies, Purging, store, convert
<1>3. StoreOK' /\ WorkersOK' /\ ScratchOK' /\ EarlyIsThere' /\ MetaGoesLast'
  BY <1>1, <1>2, ScratchStays DEF StoreOK, WorkersOK, WorkOK, PurgeOK, EarlyIsThere, MetaGoesLast
<1>4. /\ begun /\ del[x] \in Purges /\ PurgeKnows(del[x])
  BY Begins DEF ListPage, ListDocuments, QueryItems, DeleteDies
<1>5. PurgesKnow /\ EarlyIsThere
  BY <1>1 DEF PurgeOK
<1>6. RequestsOK' /\ PurgesKnow' /\ BeforePurge'
  <2>1. CASE ListPage(x)
    <3>1. CASE Objects = {}
      <4>. DEFINE s == [del[x] EXCEPT !.pc = "docs", !.todo = {}]
      <4>1. s \in Purges /\ s.pc = "docs"
        BY <1>4 DEF Purges
      <4>2. del' = [del EXCEPT ![x] = s]
        BY <2>1, <3>1 DEF ListPage, Purging
      <4>3. \A k \in Keys : k \notin early
        BY <1>5, <3>1 DEF EarlyIsThere, Objects
      <4>. HIDE DEF s
      <4>. QED
        BY <1>1, <1>2, <1>4, <1>5, <4>1, <4>2, <4>3, PurgeMoves
    <3>2. CASE Objects # {}
      <4>1. PICK page \in SUBSET Objects : Purging(x, "page", page)
        BY <2>1, <3>2 DEF ListPage
      <4>. DEFINE s == [del[x] EXCEPT !.pc = "page", !.todo = page]
      <4>2. page \in SUBSET (Things \cup Docs)
        BY KeysAreThings DEF Objects
      <4>3. s \in Purges /\ s.pc = "page"
        BY <1>4, <4>2 DEF Purges
      <4>4. del' = [del EXCEPT ![x] = s]
        BY <4>1 DEF Purging
      <4>. HIDE DEF s
      <4>. QED
        BY <1>1, <1>2, <1>4, <1>5, <4>3, <4>4, PurgeMoves
    <3>. QED
      BY <3>1, <3>2
  <2>2. CASE ListDocuments(x)
    <3>. DEFINE todo == {d \in Docs : row[d] # NoRow}
                s == [del[x] EXCEPT !.pc = "parts", !.todo = todo]
    <3>1. s \in Purges /\ s.pc = "parts" /\ s.todo = todo
      BY <1>4 DEF Purges
    <3>2. del' = [del EXCEPT ![x] = s]
      BY <2>2 DEF ListDocuments, Purging
    <3>3. \A d \in Docs : <<"sections", d>> \in early => d \in todo
      BY <1>5 DEF EarlyIsThere
    <3>4. \A k \in Keys : k \notin early
      BY <1>4, <2>2 DEF ListDocuments, PurgeKnows
    <3>. HIDE DEF s, todo
    <3>. QED
      BY <1>1, <1>2, <1>4, <1>5, <3>1, <3>2, <3>3, <3>4, PurgeMoves
  <2>3. CASE QueryItems(x)
    <3>. DEFINE s == [pc |-> "items", todo |-> Items, meta |-> meta # "none"]
    <3>1. /\ \A k \in Keys : k \notin early
          /\ \A d \in Docs : <<"sections", d>> \notin early
      BY <1>4, <2>3 DEF QueryItems, PurgeKnows
    <3>2. early \subseteq Items
      <4>. SUFFICES ASSUME NEW t \in early PROVE t \in Items
        OBVIOUS
      <4>1. PICK d \in Docs : t \in {<<"row", d>>, <<"job", d>>}
        BY <1>5, <3>1, KeysAreThings DEF EarlyIsThere
      <4>. QED
        BY <1>5, <4>1 DEF EarlyIsThere, Items
    <3>3. Items \in SUBSET (Things \cup Docs) /\ (meta # "none") \in BOOLEAN
      BY KeysAreThings DEF Items
    <3>4. s \in Purges /\ s.pc = "items" /\ s.todo = Items
      BY <3>3 DEF Purges
    <3>5. del' = [del EXCEPT ![x] = s]
      BY <2>3 DEF QueryItems
    <3>. HIDE DEF s
    <3>. QED
      BY <1>1, <1>2, <1>4, <1>5, <3>1, <3>2, <3>4, <3>5, PurgeMoves
  <2>4. CASE DeleteDies(x)
    <3>1. del' = [del EXCEPT ![x] = NoPurge]
      BY <2>4 DEF DeleteDies
    <3>. QED
      BY <1>1, <1>2, <1>4, <1>5, <3>1, PurgeTypes, PurgeMoves
  <2>. QED
    BY <2>1, <2>2, <2>3, <2>4
<1>. QED
  BY <1>3, <1>6 DEF IInv, PurgeOK

(* What is taken away is taken off the list with it. *)
LEMMA TakesAway ==
    ASSUME IInv, begun, UNCHANGED <<queue, begun, wk, scratch, conv, strayed>>,
           RequestsOK', PurgesKnow', BeforePurge',
           early' \subseteq early,
           meta' \in {"none", "project", "count"}, meta' # "project" => meta # "project" \/ early = {},
           row' \in [Docs -> Rows], job' \in [Docs -> JobStates],
           sect' \in [Docs -> SUBSET Contents], obj' \in [Keys -> Contents \cup {"none"}],
           \A k \in Keys : k \in early' => obj'[k] = obj[k],
           \A d \in Docs : /\ <<"row", d>> \in early' => row'[d] = row[d]
                           /\ <<"job", d>> \in early' => job'[d] = job[d]
                           /\ <<"sections", d>> \in early' => row'[d] = row[d]
    PROVE  IInv'
<1>1. StoreOK /\ WorkersOK /\ ScratchOK /\ EarlyIsThere /\ MetaGoesLast
  BY DEF IInv, PurgeOK
<1>2. StoreOK' /\ WorkersOK' /\ ScratchOK'
  BY <1>1, ScratchStays DEF StoreOK, WorkersOK, WorkOK
<1>3. EarlyIsThere'
  BY <1>1 DEF EarlyIsThere
<1>4. MetaGoesLast'
  BY <1>1 DEF MetaGoesLast
<1>. QED
  BY <1>2, <1>3, <1>4 DEF IInv, PurgeOK

LEMMA PurgePageKeeps ==
    ASSUME IInv, NEW x \in Deleters, PurgePage(x), UNCHANGED <<wk, convert>>
    PROVE  IInv'
<1>1. StoreOK /\ RequestsOK /\ PurgesKnow
  BY DEF IInv, PurgeOK
<1>2. begun /\ del[x] \in Purges /\ PurgeKnows(del[x])
  BY Begins DEF PurgePage
<1>3. PICK gone \in SUBSET del[x].todo :
         /\ early' = early \ gone
         /\ obj' = [k \in Keys |-> IF k \in gone THEN "none" ELSE obj[k]]
         /\ IF gone = del[x].todo THEN Purging(x, "list", {})
            ELSE del' = [del EXCEPT ![x] = NoPurge]
  BY DEF PurgePage
<1>4. UNCHANGED <<meta, row, job, sect, queue, upload, enqueue, begun, wk, scratch, conv, strayed>>
  BY DEF PurgePage, convert
<1>. DEFINE s == IF gone = del[x].todo THEN [del[x] EXCEPT !.pc = "list", !.todo = {}] ELSE NoPurge
<1>5. s \in Purges /\ s.pc \in {"idle", "list"}
  BY <1>2, PurgeTypes DEF Purges
<1>6. del' = [del EXCEPT ![x] = s]
  BY <1>3 DEF Purging
<1>. HIDE DEF s
<1>7. RequestsOK' /\ PurgesKnow' /\ BeforePurge'
  BY <1>1, <1>2, <1>3, <1>4, <1>5, <1>6, PurgeMoves
<1>8. /\ obj' \in [Keys -> Contents \cup {"none"}] /\ \A k \in Keys : k \in early' => obj'[k] = obj[k]
  BY <1>1, <1>3 DEF StoreOK
<1>. QED
  BY <1>1, <1>2, <1>3, <1>4, <1>7, <1>8, TakesAway DEF StoreOK

LEMMA PartitionKeeps ==
    ASSUME IInv, NEW x \in Deleters, DeletePartition(x), UNCHANGED <<wk, convert>>
    PROVE  IInv'
<1>1. StoreOK /\ RequestsOK /\ PurgesKnow
  BY DEF IInv, PurgeOK
<1>2. /\ begun /\ del[x] \in Purges /\ PurgeKnows(del[x]) /\ del[x].pc = "parts"
      /\ del[x].todo \subseteq Things \cup Docs
  BY Begins DEF DeletePartition
<1>3. UNCHANGED <<meta, row, job, obj, queue, upload, enqueue, begun, wk, scratch, conv, strayed>>
  BY DEF DeletePartition, convert
<1>4. /\ \A k \in Keys : k \notin early
      /\ \A d \in Docs : <<"sections", d>> \in early => d \in del[x].todo
  BY <1>2 DEF PurgeKnows
<1>5. CASE del[x].todo = {}
  <2>. DEFINE s == [del[x] EXCEPT !.pc = "query", !.todo = {}]
  <2>1. s \in Purges /\ s.pc = "query"
    BY <1>2 DEF Purges
  <2>2. del' = [del EXCEPT ![x] = s] /\ UNCHANGED <<sect, early>>
    BY <1>5 DEF DeletePartition, Purging
  <2>. HIDE DEF s
  <2>3. RequestsOK' /\ PurgesKnow' /\ BeforePurge'
    BY <1>1, <1>2, <1>3, <1>4, <1>5, <2>1, <2>2, PurgeMoves
  <2>. QED
    BY <1>1, <1>2, <1>3, <2>2, <2>3, TakesAway DEF StoreOK
<1>6. CASE del[x].todo # {}
  <2>1. PICK d \in del[x].todo :
           /\ early' = early \ {<<"sections", d>>}
           /\ sect' = [sect EXCEPT ![d] = {}]
           /\ Purging(x, "parts", del[x].todo \ {d})
    BY <1>6 DEF DeletePartition
  <2>. DEFINE s == [del[x] EXCEPT !.pc = "parts", !.todo = del[x].todo \ {d}]
  <2>2. s \in Purges /\ s.pc = "parts" /\ s.todo = del[x].todo \ {d}
    BY <1>2 DEF Purges
  <2>3. del' = [del EXCEPT ![x] = s]
    BY <2>1 DEF Purging
  <2>. HIDE DEF s
  <2>4. \A e \in Docs : <<"sections", e>> \in early' => e \in s.todo
    BY <1>4, <2>1, <2>2
  <2>5. RequestsOK' /\ PurgesKnow' /\ BeforePurge'
    BY <1>1, <1>2, <1>3, <1>4, <2>1, <2>2, <2>3, <2>4, PurgeMoves
  <2>6. sect' \in [Docs -> SUBSET Contents]
    BY <1>1, <2>1 DEF StoreOK
  <2>. QED
    BY <1>1, <1>2, <1>3, <2>1, <2>5, <2>6, TakesAway DEF StoreOK
<1>. QED
  BY <1>5, <1>6

LEMMA ItemsKeep ==
    ASSUME IInv, NEW x \in Deleters, DeleteItems(x), UNCHANGED <<wk, convert>>
    PROVE  IInv'
<1>1. StoreOK /\ RequestsOK /\ PurgesKnow
  BY DEF IInv, PurgeOK
<1>2. /\ begun /\ del[x] \in Purges /\ PurgeKnows(del[x]) /\ del[x].pc = "items"
      /\ del[x].todo \subseteq Things \cup Docs
  BY Begins DEF DeleteItems
<1>3. UNCHANGED <<meta, sect, obj, queue, upload, enqueue, begun, wk, scratch, conv, strayed>>
  BY DEF DeleteItems, convert
<1>4. /\ \A k \in Keys : k \notin early
      /\ \A d \in Docs : <<"sections", d>> \notin early
      /\ early \subseteq del[x].todo
  BY <1>2 DEF PurgeKnows
<1>5. CASE del[x].todo = {}
  <2>. DEFINE s == [del[x] EXCEPT !.pc = "meta", !.todo = {}]
  <2>1. s \in Purges /\ s.pc = "meta"
    BY <1>2 DEF Purges
  <2>2. del' = [del EXCEPT ![x] = s] /\ UNCHANGED <<row, job, early>>
    BY <1>5 DEF DeleteItems, Purging
  <2>. HIDE DEF s
  <2>3. RequestsOK' /\ PurgesKnow' /\ BeforePurge'
    BY <1>1, <1>2, <1>3, <1>4, <1>5, <2>1, <2>2, PurgeMoves
  <2>. QED
    BY <1>1, <1>2, <1>3, <2>2, <2>3, TakesAway DEF StoreOK
<1>6. CASE del[x].todo # {}
  <2>1. PICK gone \in SUBSET del[x].todo \ {{}} :
           /\ early' = early \ gone
           /\ row' = [d \in Docs |-> IF <<"row", d>> \in gone THEN NoRow ELSE row[d]]
           /\ job' = [d \in Docs |-> IF <<"job", d>> \in gone THEN "none" ELSE job[d]]
           /\ Purging(x, "items", del[x].todo \ gone)
    BY <1>6 DEF DeleteItems
  <2>. DEFINE s == [del[x] EXCEPT !.pc = "items", !.todo = del[x].todo \ gone]
  <2>2. s \in Purges /\ s.pc = "items" /\ s.todo = del[x].todo \ gone
    BY <1>2 DEF Purges
  <2>3. del' = [del EXCEPT ![x] = s]
    BY <2>1 DEF Purging
  <2>. HIDE DEF s
  <2>4. early' \subseteq s.todo
    BY <1>4, <2>1, <2>2
  <2>5. RequestsOK' /\ PurgesKnow' /\ BeforePurge'
    BY <1>1, <1>2, <1>3, <1>4, <2>1, <2>2, <2>3, <2>4, PurgeMoves
  <2>6. /\ row' \in [Docs -> Rows] /\ job' \in [Docs -> JobStates]
        /\ \A d \in Docs : /\ <<"row", d>> \in early' => row'[d] = row[d]
                           /\ <<"job", d>> \in early' => job'[d] = job[d]
                           /\ <<"sections", d>> \notin early'
    BY <1>1, <1>4, <2>1, RowTypes DEF StoreOK, JobStates
  <2>. QED
    BY <1>1, <1>2, <1>3, <2>1, <2>5, <2>6, TakesAway DEF StoreOK
<1>. QED
  BY <1>5, <1>6

LEMMA MetaKeeps ==
    ASSUME IInv, NEW x \in Deleters, DeleteMeta(x), UNCHANGED <<wk, convert>>
    PROVE  IInv'
<1>1. StoreOK /\ RequestsOK /\ PurgesKnow
  BY DEF IInv, PurgeOK
<1>2. begun /\ early = {}
  BY Begins DEF DeleteMeta, PurgeKnows
<1>3. /\ UNCHANGED <<row, job, sect, obj, queue, upload, enqueue, begun, early, wk, scratch, conv, strayed>>
      /\ del' = [del EXCEPT ![x] = NoPurge] /\ meta' \in {"none", meta}
  BY DEF DeleteMeta, convert
<1>4. RequestsOK' /\ PurgesKnow' /\ BeforePurge'
  BY <1>1, <1>2, <1>3, PurgeTypes, PurgeMoves
<1>. QED
  BY <1>1, <1>2, <1>3, <1>4, TakesAway DEF StoreOK

-----------------------------------------------------------------------------
(* Steps of a worker *)

LEMMA Stops ==
    ASSUME WorkersOK, NEW w \in Workers, Rest(w)
    PROVE  /\ WorkersOK' /\ wk'[w] = NoWork /\ wk'[w].pc = "idle" /\ wk'[w].token = "none"
           /\ \A v \in Workers \ {w} : wk'[v] = wk[v]
<1>1. wk' = [wk EXCEPT ![w] = NoWork]
  BY DEF Rest
<1>. QED
  BY <1>1, Rests, WorkerMovesOn

(* A step of one worker that writes what a purge can live with. *)
LEMMA WorkerKeeps ==
    ASSUME IInv, NEW w \in Workers, WorkersOK', ScratchOK', StoreOK',
           \A v \in Workers \ {w} : wk'[v] = wk[v],
           UNCHANGED <<meta, upload, enqueue, del, begun>>,
           early' \subseteq early,
           \A d \in Docs : row'[d] = NoRow => row[d] = NoRow,
           \A d \in Docs : job'[d] = "none" => job[d] = "none",
           \A k \in Keys : obj'[k] = "none" => obj[k] = "none",
           \A d \in Docs : sect'[d] # {} => sect[d] # {} \/ begun \/ row[d] # NoRow,
           wk'[w].pc \in Began => begun \/ row'[wk'[w].doc] # NoRow
    PROVE  IInv'
<1>1. PurgeOK /\ WorkersOK /\ RequestsOK
  BY DEF IInv
<1>2. PurgeOK'
  BY <1>1, WritesKeep
<1>3. RequestsOK'
  BY <1>1 DEF RequestsOK
<1>. QED
  BY <1>2, <1>3 DEF IInv

(* the same, away from the conversion *)
LEMMA PlainKeeps ==
    ASSUME IInv, NEW w \in Workers, WorkersOK', StoreOK',
           \A v \in Workers \ {w} : wk'[v] = wk[v],
           wk[w].pc \notin ConvertPcs, wk'[w].token = "none",
           UNCHANGED <<meta, requests, scratch, conv, strayed>>,
           early' \subseteq early,
           \A d \in Docs : row'[d] = NoRow => row[d] = NoRow,
           \A d \in Docs : job'[d] = "none" => job[d] = "none",
           \A k \in Keys : obj'[k] = "none" => obj[k] = "none",
           \A d \in Docs : sect'[d] # {} => sect[d] # {} \/ begun \/ row[d] # NoRow,
           wk'[w].pc \in Began => begun \/ row'[wk'[w].doc] # NoRow
    PROVE  IInv'
<1>1. wk[w].token = "none" /\ wk[w].pc # "wait"
  BY DEF IInv, WorkersOK, WorkOK, ConvertPcs
<1>2. UNCHANGED <<upload, enqueue, del, begun>>
  BY DEF requests
<1>3. /\ \A v \in Workers : wk'[v].token = wk[v].token
      /\ \A v \in Workers : wk[v].pc = "wait" => wk'[v].pc = "wait"
  BY <1>1
<1>4. ScratchOK'
  BY <1>3, ScratchStays DEF IInv
<1>. QED
  BY <1>2, <1>4, WorkerKeeps

(* While it works on a document before any purge, its row is there. *)
LEMMA RowIsThere ==
    ASSUME IInv, NEW w \in Workers, wk[w].pc \in Began
    PROVE  begun \/ row[wk[w].doc] # NoRow
BY DEF IInv, PurgeOK, BeforePurge

LEMMA ReadingKeeps ==
    ASSUME IInv, NEW w \in Workers,
           (\E d \in Docs : Receive(w, d)) \/ ReadJob(w) \/ ReadDoc(w)
    PROVE  IInv'
<1>1. StoreOK /\ WorkersOK
  BY DEF IInv
<1>2. UNCHANGED <<meta, row, job, sect, obj, requests, early, scratch, conv, strayed>>
  BY DEF Receive, ReadJob, ReadDoc, store, convert
<1>3. wk[w].pc \in {"idle", "job", "doc"}
  BY Rests DEF Receive, ReadJob, ReadDoc
<1>4. wk[w].pc \notin ConvertPcs /\ wk[w].pc \in WorkerPcs
  BY <1>1, <1>3, AtWork DEF ConvertPcs
<1>5. StoreOK'
  <2>1. queue' \in [Docs -> Nat]
    <3>1. CASE \E d \in Docs : Receive(w, d)
      BY <1>1, <3>1 DEF Receive, StoreOK
    <3>2. CASE ReadJob(w) \/ ReadDoc(w)
      BY <1>1, <3>2 DEF ReadJob, ReadDoc, StoreOK
    <3>. QED
      BY <3>1, <3>2
  <2>. QED
    BY <1>1, <1>2, <2>1 DEF StoreOK
<1>6. /\ WorkersOK' /\ wk'[w].token = "none" /\ wk'[w].pc \notin Began
      /\ \A v \in Workers \ {w} : wk'[v] = wk[v]
  <2>1. ASSUME NEW d \in Docs, Receive(w, d) 
        PROVE  /\ WorkersOK' /\ wk'[w].token = "none" /\ wk'[w].pc \notin Began
               /\ \A v \in Workers \ {w} : wk'[v] = wk[v]
    <3>. DEFINE i == [wk[w] EXCEPT !.pc = "job", !.doc = d]
    <3>1. i \in Works /\ i.pc = "job" /\ i.doc = d /\ i.token = "none"
      BY <1>1, <2>1, AtWork, Rests DEF Receive, Works, WorkerPcs
    <3>2. wk' = [wk EXCEPT ![w] = i]
      BY <2>1 DEF Receive
    <3>. HIDE DEF i
    <3>3. WorkOK(i)
      BY <3>1 DEF WorkOK, ConvertPcs
    <3>. QED
      BY <1>1, <3>1, <3>2, <3>3, WorkerMovesOn DEF Began, HoldingPcs, TryPcs, ConvertPcs
  <2>2. CASE ReadJob(w)
    <3>. DEFINE i == [wk[w] EXCEPT !.pc = "doc", !.job = job[wk[w].doc]]
    <3>1. wk[w].doc \in Docs /\ wk[w].token = "none"
      BY <1>1, <1>4, <2>2, AtWork DEF ReadJob, WorkOK
    <3>2. i \in Works /\ i.pc = "doc" /\ i.doc \in Docs /\ i.token = "none"
      BY <1>1, <3>1, AtWork DEF Works, WorkerPcs, StoreOK
    <3>3. wk' = [wk EXCEPT ![w] = i]
      BY <2>2 DEF ReadJob
    <3>. HIDE DEF i
    <3>4. WorkOK(i)
      BY <3>2 DEF WorkOK, ConvertPcs
    <3>. QED
      BY <1>1, <3>2, <3>3, <3>4, WorkerMovesOn DEF Began, HoldingPcs, TryPcs, ConvertPcs
  <2>3. CASE ReadDoc(w)
    <3>1. CASE Rest(w)
      BY <1>1, <3>1, Stops DEF Began, HoldingPcs, TryPcs, ConvertPcs
    <3>2. CASE ~Rest(w)
      <4>1. PICK l \in {"settle", "claim"} : Keep(w, row[wk[w].doc], l)
        BY <2>3, <3>2 DEF ReadDoc
      <4>2. wk[w].pc = "doc" /\ row[wk[w].doc] \in Rows
        BY <1>1, <2>3, AtWork DEF ReadDoc, StoreOK
      <4>3. wk[w].pc \in WorkerPcs \ (ConvertPcs \cup {"idle"}) /\ l \in Plain
        BY <1>4, <4>2 DEF Plain
      <4>. QED
        BY <1>1, <4>1, <4>2, <4>3, Keeps DEF Began, HoldingPcs, TryPcs, ConvertPcs
    <3>. QED
      BY <3>1, <3>2
  <2>. QED
    BY <2>1, <2>2, <2>3
<1>. QED
  BY <1>2, <1>4, <1>5, <1>6, PlainKeeps

LEMMA JobsKeep ==
    ASSUME IInv, NEW w \in Workers,
           Settle(w) \/ Claim(w) \/ Refuse(w) \/ Close(w) \/ FailJob(w)
    PROVE  IInv'
<1>1. StoreOK /\ WorkersOK
  BY DEF IInv
<1>2. UNCHANGED <<meta, row, sect, obj, requests, scratch, conv, strayed>>
  BY DEF Settle, Claim, Refuse, Close, FailJob, convert
<1>3. wk[w].pc \in {"settle", "claim", "refuse", "close", "failjob"}
  BY DEF Settle, Claim, Refuse, Close, FailJob
<1>4. /\ wk[w].pc \in WorkerPcs \ (ConvertPcs \cup {"idle"}) /\ wk[w].doc \in Docs
  BY <1>1, <1>3, AtWork DEF ConvertPcs
<1>5. /\ job' \in [Docs -> JobStates] /\ early' \subseteq early
      /\ \A e \in Docs : job'[e] = "none" => job[e] = "none"
  <2>1. CASE \E st \in {"succeeded", "running", "failed"} : PutJob(wk[w].doc, st)
    <3>1. PICK st \in {"succeeded", "running", "failed"} : PutJob(wk[w].doc, st)
      BY <2>1
    <3>2. st \in JobStates \ {"none"}
      BY DEF JobStates
    <3>. QED
      BY <1>1, <1>4, <3>1, <3>2, JobWritten DEF StoreOK
  <2>2. CASE UNCHANGED <<job, early>>
    BY <1>1, <2>2 DEF StoreOK
  <2>. QED
    BY <2>1, <2>2 DEF Settle, Claim, Refuse, Close, FailJob
<1>6. queue' \in [Docs -> Nat]
  BY <1>1, <1>4 DEF StoreOK, Settle, Claim, Refuse, Close, FailJob
<1>7. /\ WorkersOK' /\ wk'[w].token = "none" /\ wk'[w].pc \notin Began
      /\ \A v \in Workers \ {w} : wk'[v] = wk[v]
  <2>1. CASE Rest(w)
    BY <1>1, <2>1, Stops DEF Began, HoldingPcs, TryPcs, ConvertPcs
  <2>2. CASE ~Rest(w)
    <3>1. PICK l \in {"begin", "refuse"} : Goto(w, l)
      BY <2>2 DEF Settle, Claim, Refuse, Close, FailJob
    <3>2. l \in Plain
      BY DEF Plain
    <3>. QED
      BY <1>1, <1>4, <3>1, <3>2, Goes DEF Began
  <2>. QED
    BY <2>1, <2>2
<1>8. StoreOK'
  BY <1>1, <1>2, <1>5, <1>6 DEF StoreOK
<1>. QED
  BY <1>2, <1>4, <1>5, <1>7, <1>8, PlainKeeps

LEMMA Fetched ==
    ASSUME IInv, NEW w \in Workers, Fetch(w)
    PROVE  IInv'
<1>1. StoreOK /\ WorkersOK
  BY DEF IInv
<1>2. /\ UNCHANGED <<meta, row, job, sect, obj, queue, requests, early, scratch, conv, strayed>>
      /\ wk[w].pc = "fetch"
  BY DEF Fetch, store, convert
<1>3. /\ wk[w] \in Works /\ WorkOK(wk[w]) /\ wk[w].doc \in Docs /\ wk[w].token = "none"
      /\ wk[w].pc \in Began /\ wk[w].pc \notin ConvertPcs
  BY <1>1, <1>2, AtWork DEF WorkOK, ConvertPcs, Began, HoldingPcs, TryPcs
<1>. DEFINE c == obj[<<"original", wk[w].doc>>]
            failed == [wk[w] EXCEPT !.pc = "fail", !.retry = TRUE]
            l == IF c \notin Legacy THEN "parse" ELSE IF backend = "lambda" THEN "stage" ELSE "fail"
            went == [wk[w] EXCEPT !.row = Sniffed(wk[w].row, c), !.data = c, !.retry = TRUE, !.pc = l]
            i == IF c = "none" THEN failed ELSE went
<1>4. c \in Contents \cup {"none"}
  BY <1>1, <1>3 DEF StoreOK, Keys
<1>5. c # "none" => Sniffed(wk[w].row, c) \in Rows
  BY <1>3, <1>4, SniffedTypes DEF Works
<1>6. l \in {"parse", "stage", "fail"}
  OBVIOUS
<1>7. wk' = [wk EXCEPT ![w] = i]
  BY DEF Fetch, Fails
<1>. HIDE DEF c, l
<1>8. /\ i \in Works /\ i.pc \in {"parse", "stage", "fail"} /\ i.doc = wk[w].doc /\ i.token = "none"
      /\ i.pc # "fail" => i.data \in Contents
  BY <1>3, <1>4, <1>5, <1>6 DEF Works, WorkerPcs, HoldingPcs, TryPcs
<1>. HIDE DEF i
<1>9. WorkOK(i)
  BY <1>3, <1>8 DEF WorkOK, ConvertPcs
<1>10. WorkersOK' /\ wk'[w] = i /\ \A v \in Workers \ {w} : wk'[v] = wk[v]
  BY <1>1, <1>7, <1>8, <1>9, WorkerMovesOn
<1>11. StoreOK'
  BY <1>1, <1>2 DEF StoreOK
<1>12. begun \/ row'[wk'[w].doc] # NoRow
  BY <1>2, <1>3, <1>8, <1>10, RowIsThere
<1>. QED
  BY <1>2, <1>3, <1>8, <1>10, <1>11, <1>12, PlainKeeps

LEMMA FailsMoves ==
    ASSUME WorkersOK, NEW w \in Workers, NEW retry \in BOOLEAN, Fails(w, retry),
           wk[w].pc \in WorkerPcs \ (ConvertPcs \cup {"idle"})
    PROVE  /\ WorkersOK' /\ wk'[w].pc = "fail" /\ wk'[w].token = "none" /\ wk'[w].doc = wk[w].doc
           /\ \A v \in Workers \ {w} : wk'[v] = wk[v]
<1>. DEFINE i == [wk[w] EXCEPT !.pc = "fail", !.retry = retry]
<1>1. i \in Works /\ i.pc = "fail" /\ i.doc = wk[w].doc /\ i.token = wk[w].token
  BY AtWork DEF Works, WorkerPcs, HoldingPcs
<1>2. wk' = [wk EXCEPT ![w] = i]
  BY DEF Fails
<1>. HIDE DEF i
<1>3. WorkOK(i) /\ i.token = "none"
  BY <1>1, AtWork DEF WorkOK, ConvertPcs
<1>. QED
  BY <1>1, <1>2, <1>3, WorkerMovesOn

LEMMA ParsingKeeps ==
    ASSUME IInv, NEW w \in Workers,
           \/ Begin(w) \/ StoreConverted(w) \/ Parse(w) \/ PutSections(w) \/ Commit(w)
           \/ Raises(w) \/ Fail(w)
    PROVE  IInv'
<1>1. StoreOK /\ WorkersOK
  BY DEF IInv
<1>2. UNCHANGED <<meta, job, requests, scratch, conv, strayed>>
  BY DEF Begin, StoreConverted, Parse, PutSections, Commit, Raises, Fail, convert, store
<1>3. wk[w].pc \in {"begin", "fail"} \cup (TryPcs \ (ConvertPcs \cup {"stage"}))
  BY DEF Begin, StoreConverted, Parse, PutSections, Commit, Raises, Fail, TryPcs, ConvertPcs
<1>4. /\ wk[w].pc \in WorkerPcs \ (ConvertPcs \cup {"idle"}) /\ wk[w].doc \in Docs
      /\ wk[w].row \in Rows
      /\ wk[w].pc \in {"copy", "parse", "sections"} => wk[w].data \in Contents
      /\ wk[w].pc # "begin" => wk[w].pc \in Began
  BY <1>1, <1>3, AtWork DEF ConvertPcs, TryPcs, WorkOK, Began, HoldingPcs
<1>5. wk[w].pc # "begin" => begun \/ row[wk[w].doc] # NoRow
  BY <1>4, RowIsThere
<1>6. {"parsing", "parsed", "failed"} \subseteq Statuses
  BY DEF Statuses
<1>7. /\ row' \in [Docs -> Rows] /\ obj' \in [Keys -> Contents \cup {"none"}] /\ early' \subseteq early
      /\ \A d \in Docs : row'[d] = NoRow => row[d] = NoRow
      /\ \A k \in Keys : obj'[k] = "none" => obj[k] = "none"
      /\ Begin(w) => row'[wk[w].doc] # NoRow
  <2>1. ASSUME NEW st \in {"parsing", "parsed", "failed"},
               PutRow(wk[w].doc, [wk[w].row EXCEPT !.status = st]), UNCHANGED obj
        PROVE  /\ row' \in [Docs -> Rows] /\ obj' \in [Keys -> Contents \cup {"none"}] /\ early' \subseteq early
               /\ \A d \in Docs : row'[d] = NoRow => row[d] = NoRow
               /\ \A k \in Keys : obj'[k] = "none" => obj[k] = "none"
               /\ Begin(w) => row'[wk[w].doc] # NoRow
    <3>. DEFINE r == [wk[w].row EXCEPT !.status = st]
    <3>1. r \in Rows /\ r.status # "absent"
      BY <1>4, <1>6, RowTypes
    <3>. HIDE DEF r
    <3>2. PutRow(wk[w].doc, r)
      BY <2>1 DEF r
    <3>. QED
      BY <1>1, <1>4, <2>1, <3>1, <3>2, RowWritten DEF StoreOK
  <2>2. CASE Begin(w)
    BY <2>1, <2>2 DEF Begin
  <2>3. CASE Commit(w)
    BY <2>1, <2>3 DEF Commit, Begin
  <2>4. CASE Fail(w)
    BY <2>1, <2>4 DEF Fail, Begin
  <2>5. CASE StoreConverted(w) \/ Parse(w)
    <3>1. ~Begin(w) /\ row' = row
      BY <2>5 DEF Begin, StoreConverted, Parse
    <3>2. wk[w].data \in Contents
      BY <1>4, <2>5 DEF StoreConverted, Parse
    <3>3. \/ UNCHANGED <<obj, early>>
          \/ \E kind \in {"converted", "text"} : PutObject(kind, wk[w].doc, wk[w].data)
      BY <2>5 DEF StoreConverted, Parse
    <3>. QED
      BY <1>1, <1>4, <3>1, <3>2, <3>3, ObjectWritten DEF StoreOK
  <2>6. CASE PutSections(w) \/ Raises(w)
    BY <1>1, <1>3, <2>6 DEF PutSections, Raises, Begin, StoreOK, store, TryPcs, ConvertPcs
  <2>. QED
    BY <2>2, <2>3, <2>4, <2>5, <2>6
<1>8. /\ sect' \in [Docs -> SUBSET Contents]
      /\ \A d \in Docs : sect'[d] # {} => sect[d] # {} \/ begun \/ row[d] # NoRow
  <2>1. CASE PutSections(w)
    <3>1. /\ sect' = [sect EXCEPT ![wk[w].doc] = @ \cup {wk[w].data}]
          /\ wk[w].data \in Contents /\ (begun \/ row[wk[w].doc] # NoRow)
      BY <1>4, <1>5, <2>1 DEF PutSections
    <3>. QED
      BY <1>1, <3>1 DEF StoreOK
  <2>2. CASE ~PutSections(w)
    BY <1>1, <2>2 DEF Begin, StoreConverted, Parse, Commit, Raises, Fail, StoreOK, store
  <2>. QED
    BY <2>1, <2>2
<1>9. queue' = queue
  BY DEF Begin, StoreConverted, Parse, PutSections, Commit, Raises, Fail
<1>10. /\ WorkersOK' /\ wk'[w].token = "none" /\ wk'[w].doc = wk[w].doc
       /\ \A v \in Workers \ {w} : wk'[v] = wk[v]
  <2>1. ASSUME NEW retry \in BOOLEAN, Fails(w, retry)
        PROVE  /\ WorkersOK' /\ wk'[w].token = "none" /\ wk'[w].doc = wk[w].doc
               /\ \A v \in Workers \ {w} : wk'[v] = wk[v]
    BY <1>1, <1>4, <2>1, FailsMoves
  <2>2. ASSUME NEW r \in Rows, NEW l \in {"fetch", "parse", "close"}, Keep(w, r, l),
               l = "parse" => wk[w].data \in Contents
        PROVE  /\ WorkersOK' /\ wk'[w].token = "none" /\ wk'[w].doc = wk[w].doc
               /\ \A v \in Workers \ {w} : wk'[v] = wk[v]
    <3>1. l \in Plain
      BY DEF Plain
    <3>. QED
      BY <1>1, <1>4, <2>2, <3>1, Keeps
  <2>3. ASSUME NEW l \in {"sections", "commit", "failjob"}, Goto(w, l),
               l # "failjob" => wk[w].data \in Contents
        PROVE  /\ WorkersOK' /\ wk'[w].token = "none" /\ wk'[w].doc = wk[w].doc
               /\ \A v \in Workers \ {w} : wk'[v] = wk[v]
    <3>1. l \in Plain
      BY DEF Plain
    <3>. QED
      BY <1>1, <1>4, <2>3, <3>1, Goes
  <2>4. CASE Begin(w) \/ Commit(w)
    BY <1>4, <1>6, <2>2, <2>4, RowTypes DEF Begin, Commit
  <2>5. CASE StoreConverted(w)
    BY <1>4, <2>2, <2>5, RowTypes DEF StoreConverted
  <2>6. CASE Parse(w) \/ Raises(w)
    BY <1>4, <2>1, <2>3, <2>6 DEF Parse, Raises
  <2>7. CASE PutSections(w) \/ Fail(w)
    BY <1>4, <2>3, <2>7 DEF PutSections, Fail
  <2>. QED
    BY <2>4, <2>5, <2>6, <2>7
<1>11. StoreOK'
  BY <1>1, <1>2, <1>7, <1>8, <1>9 DEF StoreOK
<1>12. begun \/ row'[wk'[w].doc] # NoRow
  <2>1. wk[w].pc = "begin" => Begin(w)
    BY DEF Begin, StoreConverted, Parse, PutSections, Commit, Raises, Fail, TryPcs, ConvertPcs
  <2>. QED
    BY <1>4, <1>5, <1>7, <1>10, <2>1
<1>13. \A d \in Docs : job'[d] = "none" => job[d] = "none"
  BY <1>2
<1>. QED
  BY <1>2, <1>4, <1>7, <1>8, <1>10, <1>11, <1>12, <1>13, PlainKeeps

-----------------------------------------------------------------------------
(* The conversion *)

LEMMA Began3 ==
    /\ ConvertPcs \cup {"stage", "copy", "fail"} \subseteq Began
    /\ ConvertPcs \cup {"stage", "copy", "fail"} \subseteq WorkerPcs \ {"idle"}
BY DEF Began, HoldingPcs, TryPcs, ConvertPcs, WorkerPcs

(* An invocation moves on to i while converting; the store stays. *)
LEMMA ConvertMoves ==
    ASSUME IInv, NEW w \in Workers, wk[w].pc \in ConvertPcs \cup {"stage"},
           NEW i \in Works, i.pc \in ConvertPcs \cup {"copy", "fail"},
           i.doc = wk[w].doc, i.data = wk[w].data, i.pc \in ConvertPcs <=> i.token # "none",
           wk' = [wk EXCEPT ![w] = i], UNCHANGED <<store, queue, requests, early>>
    PROVE  /\ wk'[w] = i /\ (\A v \in Workers \ {w} : wk'[v] = wk[v]) /\ WorkersOK'
           /\ ScratchOK' => IInv'
<1>1. StoreOK /\ WorkersOK
  BY DEF IInv
<1>2. wk[w].doc \in Docs /\ wk[w].data \in Contents
  BY <1>1, AtWork, Began3 DEF WorkOK
<1>3. WorkOK(i)
  BY <1>2 DEF WorkOK
<1>4. WorkersOK' /\ wk'[w] = i /\ \A v \in Workers \ {w} : wk'[v] = wk[v]
  BY <1>1, <1>3, WorkerMovesOn
<1>5. begun \/ row[wk[w].doc] # NoRow
  BY RowIsThere, Began3
<1>6. /\ UNCHANGED <<meta, row, job, sect, obj, queue, upload, enqueue, del, begun, early>>
  BY DEF store, requests
<1>7. StoreOK'
  BY <1>1, <1>6 DEF StoreOK
<1>8. ASSUME ScratchOK' PROVE IInv'
  BY <1>4, <1>5, <1>6, <1>7, <1>8, WorkerKeeps
<1>. QED
  BY <1>4, <1>8

LEMMA Converting ==
    ASSUME IInv, NEW w \in Workers, wk[w].pc \in ConvertPcs
    PROVE  /\ wk[w] \in Works /\ wk[w].token \in Tokens /\ wk[w].token # "none"
           /\ scratch[wk[w].token] # {}
           /\ \A v \in Workers : wk[v].token = wk[w].token => v = w
           /\ \A v \in Workers : wk[v].token \in Tokens \cup {"none"}
BY AtWork DEF IInv, WorkOK, ScratchOK

LEMMA StageKeeps ==
    ASSUME IInv, NEW w \in Workers, Stage(w)
    PROVE  IInv'
<1>1. PICK t \in Tokens :
         /\ scratch[t] = {} /\ conv[t] = "none"
         /\ scratch' = [scratch EXCEPT ![t] = {"source"}]
         /\ strayed' = strayed \ {t}
         /\ wk' = [wk EXCEPT ![w].token = t, ![w].pc = "invoke"]
  BY DEF Stage
<1>2. wk[w].pc = "stage" /\ UNCHANGED <<store, queue, requests, early, conv>>
  BY DEF Stage
<1>3. ScratchOK /\ WorkersOK
  BY DEF IInv
<1>. DEFINE i == [wk[w] EXCEPT !.token = t, !.pc = "invoke"]
<1>4. i \in Works /\ i.pc = "invoke" /\ i.doc = wk[w].doc /\ i.data = wk[w].data /\ i.token = t
  BY <1>3, AtWork, Began3 DEF Works, ConvertPcs
<1>5. wk' = [wk EXCEPT ![w] = i]
  BY <1>1
<1>. HIDE DEF i
<1>6. t # "none"
  BY ConversionConstants
<1>7. wk'[w] = i /\ (\A v \in Workers \ {w} : wk'[v] = wk[v]) /\ (ScratchOK' => IInv')
  BY <1>2, <1>4, <1>5, <1>6, ConvertMoves DEF ConvertPcs
<1>8. \A v \in Workers : wk[v].token # t /\ wk[v].token \in Tokens \cup {"none"}
  BY <1>1, <1>3, <1>6, AtWork DEF ScratchOK
<1>9. /\ scratch' \in [Tokens -> SUBSET {"source", "target"}] /\ scratch'[t] # {}
      /\ \A u \in Tokens \ {t} : scratch'[u] = scratch[u]
  BY <1>1, <1>3 DEF ScratchOK
<1>10. wk[w].token = "none"
  BY <1>2, <1>3, AtWork DEF WorkOK, ConvertPcs
<1>11. ScratchIsCleaned'
  <2>. SUFFICES ASSUME NEW u \in Tokens, scratch'[u] # {}
                PROVE  u \in strayed' \/ \E v \in Workers : wk'[v].token = u
    BY DEF ScratchIsCleaned
  <2>1. CASE u = t
    BY <1>4, <1>7, <2>1
  <2>2. CASE u # t
    <3>1. u \in strayed \/ \E v \in Workers : wk[v].token = u
      BY <1>3, <1>9, <2>2 DEF ScratchOK, ScratchIsCleaned
    <3>2. CASE u \in strayed
      BY <1>1, <2>2, <3>2
    <3>3. CASE \E v \in Workers : wk[v].token = u
      BY <1>7, <1>10, <3>3, ConversionConstants
    <3>. QED
      BY <3>1, <3>2, <3>3
  <2>. QED
    BY <2>1, <2>2
<1>12. \A u \in Tokens : conv'[u] = "running" =>
          u \in strayed' \/ \E v \in Workers : wk'[v].token = u /\ wk'[v].pc = "wait"
  <2>. SUFFICES ASSUME NEW u \in Tokens, conv'[u] = "running"
                PROVE  u \in strayed' \/ \E v \in Workers : wk'[v].token = u /\ wk'[v].pc = "wait"
    OBVIOUS
  <2>1. conv[u] = "running" /\ u # t
    BY <1>1, <1>2
  <2>2. u \in strayed \/ \E v \in Workers : wk[v].token = u /\ wk[v].pc = "wait"
    BY <1>3, <2>1 DEF ScratchOK
  <2>3. CASE u \in strayed
    BY <1>1, <2>1, <2>3
  <2>4. CASE \E v \in Workers : wk[v].token = u /\ wk[v].pc = "wait"
    <3>1. PICK v \in Workers : wk[v].token = u /\ wk[v].pc = "wait"
      BY <2>4
    <3>2. wk'[v] = wk[v]
      BY <1>2, <1>7, <3>1
    <3>. QED
      BY <3>1, <3>2
  <2>. QED
    BY <2>2, <2>3, <2>4
<1>13. \A v \in Workers : wk'[v].token # "none" =>
          /\ scratch'[wk'[v].token] # {}
          /\ \A u \in Workers : wk'[u].token = wk'[v].token => u = v
  BY <1>3, <1>4, <1>7, <1>8, <1>9 DEF ScratchOK
<1>. QED
  BY <1>2, <1>3, <1>7, <1>9, <1>11, <1>12, <1>13 DEF ScratchOK

(* The calls in between: the invocation keeps its prefix. *)
LEMMA CallsKeep ==
    ASSUME IInv, NEW w \in Workers,
           \/ Invoke(w) \/ Answer(w) \/ GiveUp(w) \/ FetchTarget(w)
           \/ ConvertFails(w) /\ wk[w].pc # "stage"
    PROVE  IInv'
<1>1. wk[w].pc \in ConvertPcs /\ UNCHANGED <<store, queue, requests, early, scratch>>
  BY DEF Invoke, Answer, GiveUp, FetchTarget, ConvertFails, ConvertPcs, convert
<1>2. PICK l \in ConvertPcs, ok \in BOOLEAN : wk' = [wk EXCEPT ![w] = [wk[w] EXCEPT !.pc = l, !.ok = ok]]
  <2>1. wk[w] \in Works
    BY <1>1, Converting
  <2>2. \A l : [wk[w] EXCEPT !.pc = l] = [wk[w] EXCEPT !.pc = l, !.ok = wk[w].ok]
    BY <2>1 DEF Works
  <2>3. wk[w].ok \in BOOLEAN
    BY <2>1 DEF Works
  <2>4. CASE FetchTarget(w)
    BY <2>4 DEF FetchTarget, ConvertPcs
  <2>5. CASE ~FetchTarget(w)
    <3>1. PICK l \in ConvertPcs : wk' = [wk EXCEPT ![w] = [wk[w] EXCEPT !.pc = l]]
      BY <2>5 DEF Invoke, Answer, GiveUp, ConvertFails, ConvertPcs, Goto
    <3>. QED
      BY <2>2, <2>3, <3>1
  <2>. QED
    BY <2>4, <2>5
<1>. DEFINE i == [wk[w] EXCEPT !.pc = l, !.ok = ok]
<1>3. i \in Works /\ i.pc = l /\ i.doc = wk[w].doc /\ i.data = wk[w].data /\ i.token = wk[w].token
  BY <1>1, Converting, Began3 DEF Works
<1>4. wk' = [wk EXCEPT ![w] = i]
  BY <1>2
<1>. HIDE DEF i
<1>5. wk[w].token \in Tokens /\ wk[w].token # "none"
  BY <1>1, Converting
<1>6. wk'[w] = i /\ (\A v \in Workers \ {w} : wk'[v] = wk[v]) /\ (ScratchOK' => IInv')
  BY <1>1, <1>3, <1>4, <1>5, ConvertMoves
<1>7. ScratchOK /\ \A v \in Workers : wk'[v].token = wk[v].token
  BY <1>3, <1>6 DEF IInv
<1>8. strayed \subseteq strayed'
  BY DEF Invoke, Answer, GiveUp, FetchTarget, ConvertFails, convert
<1>9. conv' \in [Tokens -> {"none", "running", "done", "failed"}]
  BY <1>7 DEF Invoke, Answer, GiveUp, FetchTarget, ConvertFails, convert, ScratchOK
<1>10. \A u \in Tokens : conv'[u] = "running" =>
          u \in strayed' \/ \E v \in Workers : wk'[v].token = u /\ wk'[v].pc = "wait"
  <2>1. CASE Invoke(w)
    <3>1. /\ conv' = [conv EXCEPT ![wk[w].token] = "running"] /\ Goto(w, "wait")
          /\ wk[w].pc = "invoke"
      BY <2>1 DEF Invoke
    <3>2. wk'[w].pc = "wait"
      BY <1>1, <3>1, Converting, AtWork DEF Goto, IInv, Works
    <3>3. \A v \in Workers : wk[v].pc = "wait" => wk'[v].pc = "wait"
      BY <1>6, <3>2
    <3>. QED
      BY <1>5, <1>7, <1>8, <3>1, <3>2, <3>3 DEF ScratchOK
  <2>2. CASE Answer(w)
    <3>1. conv' = [conv EXCEPT ![wk[w].token] = "none"]
      BY <2>2 DEF Answer
    <3>. QED
      BY <1>1, <1>5, <1>6, <1>7, <1>8, <3>1, Converting DEF ScratchOK
  <2>3. CASE GiveUp(w)
    <3>1. conv' = conv /\ wk[w].token \in strayed'
      BY <2>3 DEF GiveUp
    <3>. QED
      BY <1>1, <1>5, <1>6, <1>7, <1>8, <3>1, Converting DEF ScratchOK
  <2>4. CASE FetchTarget(w) \/ ConvertFails(w)
    <3>1. conv' = conv /\ wk[w].pc # "wait"
      BY <2>4 DEF FetchTarget, ConvertFails, convert
    <3>. QED
      BY <1>6, <1>7, <1>8, <3>1 DEF ScratchOK
  <2>. QED
    BY <2>1, <2>2, <2>3, <2>4
<1>11. ScratchIsCleaned'
  BY <1>1, <1>7, <1>8 DEF ScratchOK, ScratchIsCleaned
<1>. QED
  BY <1>1, <1>6, <1>7, <1>9, <1>10, <1>11 DEF ScratchOK

LEMMA CleanKeeps ==
    ASSUME IInv, NEW w \in Workers, Clean(w)
    PROVE  IInv'
<1>1. /\ wk[w].pc = "clean" /\ wk[w].pc \in ConvertPcs
      /\ UNCHANGED <<store, requests, queue, early, conv>>
      /\ \/ scratch' = [scratch EXCEPT ![wk[w].token] = {}] /\ strayed' = strayed
         \/ strayed' = strayed \cup {wk[w].token} /\ scratch' = scratch
      /\ wk' = [wk EXCEPT ![w].pc = IF wk[w].ok THEN "copy" ELSE "fail",
                          ![w].token = "none", ![w].ok = FALSE]
  BY DEF Clean, ConvertPcs
<1>2. ScratchOK /\ WorkersOK
  BY DEF IInv
<1>3. /\ wk[w] \in Works /\ wk[w].token \in Tokens /\ wk[w].token # "none"
      /\ \A v \in Workers : wk[v].token = wk[w].token => v = w
  BY <1>1, Converting
<1>. DEFINE l == IF wk[w].ok THEN "copy" ELSE "fail"
            i == [wk[w] EXCEPT !.pc = l, !.token = "none", !.ok = FALSE]
<1>4. i \in Works /\ i.pc \in {"copy", "fail"} /\ i.doc = wk[w].doc /\ i.data = wk[w].data
      /\ i.token = "none"
  BY <1>3, Began3 DEF Works
<1>5. wk' = [wk EXCEPT ![w] = i]
  BY <1>1
<1>. HIDE DEF i, l
<1>6. wk'[w] = i /\ (\A v \in Workers \ {w} : wk'[v] = wk[v]) /\ (ScratchOK' => IInv')
  BY <1>1, <1>4, <1>5, ConvertMoves DEF ConvertPcs
<1>7. /\ scratch' \in [Tokens -> SUBSET {"source", "target"}] /\ strayed \subseteq strayed'
      /\ \A u \in Tokens \ {wk[w].token} : scratch'[u] = scratch[u]
      /\ scratch'[wk[w].token] # {} => wk[w].token \in strayed'
  BY <1>1, <1>2, <1>3 DEF ScratchOK
<1>8. ScratchIsCleaned'
  BY <1>2, <1>6, <1>7 DEF ScratchOK, ScratchIsCleaned
<1>9. \A u \in Tokens : conv'[u] = "running" =>
          u \in strayed' \/ \E v \in Workers : wk'[v].token = u /\ wk'[v].pc = "wait"
  <2>1. \A v \in Workers : wk[v].pc = "wait" => wk'[v] = wk[v]
    BY <1>1, <1>6
  <2>2. \A u \in Tokens : conv[u] = "running" =>
          u \in strayed \/ \E v \in Workers : wk[v].token = u /\ wk[v].pc = "wait"
    BY <1>2 DEF ScratchOK
  <2>3. conv' = conv
    BY <1>1
  <2>. QED
    BY <1>7, <2>1, <2>2, <2>3
<1>10. \A v \in Workers : wk'[v].token # "none" =>
          /\ scratch'[wk'[v].token] # {}
          /\ \A u \in Workers : wk'[u].token = wk'[v].token => u = v
  <2>. SUFFICES ASSUME NEW v \in Workers, wk'[v].token # "none"
                PROVE  /\ scratch'[wk'[v].token] # {}
                       /\ \A u \in Workers : wk'[u].token = wk'[v].token => u = v
    OBVIOUS
  <2>1. v # w /\ wk'[v] = wk[v] /\ wk[v].token \in Tokens
    BY <1>2, <1>4, <1>6, AtWork
  <2>2. wk[v].token # wk[w].token
    BY <1>3, <2>1
  <2>. QED
    BY <1>2, <1>4, <1>6, <1>7, <2>1, <2>2 DEF ScratchOK
<1>. QED
  BY <1>1, <1>2, <1>6, <1>7, <1>8, <1>9, <1>10 DEF ScratchOK

LEMMA StageFails ==
    ASSUME IInv, NEW w \in Workers, ConvertFails(w), wk[w].pc = "stage"
    PROVE  IInv'
<1>1. StoreOK /\ WorkersOK
  BY DEF IInv
<1>2. Goto(w, "fail") /\ UNCHANGED <<store, requests, queue, early, scratch, conv, strayed>>
  BY DEF ConvertFails, convert
<1>3. /\ wk[w].pc \in WorkerPcs \ (ConvertPcs \cup {"idle"}) /\ wk[w].pc \in Began
      /\ "fail" \in Plain /\ wk[w].pc \notin ConvertPcs
  BY Began3 DEF ConvertPcs, Plain
<1>4. /\ WorkersOK' /\ wk'[w].pc = "fail" /\ wk'[w].token = "none" /\ wk'[w].doc = wk[w].doc
      /\ \A v \in Workers \ {w} : wk'[v] = wk[v]
  BY <1>1, <1>2, <1>3, Goes
<1>5. StoreOK' /\ UNCHANGED <<meta, row, job, sect, obj>>
  BY <1>1, <1>2 DEF StoreOK, store
<1>6. begun \/ row'[wk'[w].doc] # NoRow
  BY <1>3, <1>4, <1>5, RowIsThere
<1>. QED
  BY <1>2, <1>3, <1>4, <1>5, <1>6, PlainKeeps

LEMMA DieKeeps ==
    ASSUME IInv, NEW w \in Workers, Die(w)
    PROVE  IInv'
<1>1. StoreOK /\ WorkersOK /\ ScratchOK
  BY DEF IInv
<1>2. /\ Rest(w) /\ strayed' = strayed \cup ({wk[w].token} \ {"none"})
      /\ queue' = [queue EXCEPT ![wk[w].doc] = @ + 1]
      /\ UNCHANGED <<meta, row, job, sect, obj, upload, enqueue, del, begun, early, scratch, conv>>
  BY DEF Die, store, requests
<1>3. /\ WorkersOK' /\ wk'[w] = NoWork /\ wk'[w].pc = "idle" /\ wk'[w].token = "none"
      /\ \A v \in Workers \ {w} : wk'[v] = wk[v]
  BY <1>1, <1>2, Stops
<1>4. queue' \in [Docs -> Nat]
  <2>1. queue \in [Docs -> Nat]
    BY <1>1 DEF StoreOK
  <2>2. queue' = [d \in Docs |-> IF d = wk[w].doc THEN queue[d] + 1 ELSE queue[d]]
    BY <1>2, <2>1
  <2>3. \A d \in Docs : queue[d] + 1 \in Nat /\ queue[d] \in Nat
    BY <2>1
  <2>. QED
    BY <2>2, <2>3
<1>5. StoreOK'
  BY <1>1, <1>2, <1>4 DEF StoreOK
<1>6. wk[w].token # "none" => wk[w].token \in strayed'
  BY <1>2
<1>7. ScratchIsCleaned'
  BY <1>1, <1>2, <1>3, <1>6, ConversionConstants DEF ScratchOK, ScratchIsCleaned
<1>8. \A u \in Tokens : conv'[u] = "running" =>
          u \in strayed' \/ \E v \in Workers : wk'[v].token = u /\ wk'[v].pc = "wait"
  <2>. SUFFICES ASSUME NEW u \in Tokens, conv[u] = "running", u \notin strayed'
                PROVE  \E v \in Workers : wk'[v].token = u /\ wk'[v].pc = "wait"
    BY <1>2
  <2>1. PICK v \in Workers : wk[v].token = u /\ wk[v].pc = "wait"
    BY <1>1, <1>2 DEF ScratchOK
  <2>2. v # w
    BY <1>6, <2>1, ConversionConstants
  <2>. QED
    BY <1>3, <2>1, <2>2
<1>9. ScratchOK'
  BY <1>1, <1>2, <1>3, <1>7, <1>8 DEF ScratchOK
<1>10. wk'[w].pc \notin Began
  BY <1>3 DEF Began, HoldingPcs, TryPcs, ConvertPcs
<1>. QED
  BY <1>2, <1>3, <1>5, <1>9, <1>10, WorkerKeeps

LEMMA WorkerStepKeeps ==
    ASSUME IInv, NEW w \in Workers, WorkerStep(w)
    PROVE  IInv'
BY ReadingKeeps, JobsKeep, Fetched, ParsingKeeps, StageKeeps, CallsKeep, CleanKeeps, StageFails,
   DieKeeps DEF WorkerStep

LEMMA ConverterKeeps ==
    ASSUME IInv, NEW t \in Tokens, Converter(t)
    PROVE  IInv'
<1>1. StoreOK /\ RequestsOK /\ WorkersOK /\ ScratchOK /\ PurgeOK
  BY DEF IInv
<1>2. /\ conv[t] = "running" /\ UNCHANGED <<store, requests, queue, early, wk, strayed>>
      /\ scratch' \in {scratch, [scratch EXCEPT ![t] = @ \cup {"target"}]}
      /\ conv' \in {[conv EXCEPT ![t] = "done"], [conv EXCEPT ![t] = "failed"]}
  BY DEF Converter
<1>3. UNCHANGED <<meta, row, job, sect, obj, upload, enqueue, del, begun>>
  BY <1>2 DEF store, requests
<1>4. /\ scratch' \in [Tokens -> SUBSET {"source", "target"}]
      /\ \A u \in Tokens \ {t} : scratch'[u] = scratch[u]
      /\ scratch[t] # {} => scratch'[t] # {}
  BY <1>1, <1>2 DEF ScratchOK
<1>5. /\ conv' \in [Tokens -> {"none", "running", "done", "failed"}]
      /\ \A u \in Tokens : conv'[u] = "running" => conv[u] = "running"
  BY <1>1, <1>2 DEF ScratchOK
<1>6. t \in strayed \/ \E v \in Workers : wk[v].token = t
  BY <1>1, <1>2 DEF ScratchOK
<1>7. ScratchIsCleaned'
  BY <1>1, <1>2, <1>4, <1>6 DEF ScratchOK, ScratchIsCleaned
<1>8. \A v \in Workers : wk[v].token \in Tokens \cup {"none"}
  BY <1>1, AtWork
<1>9. ScratchOK'
  BY <1>1, <1>2, <1>4, <1>5, <1>7, <1>8 DEF ScratchOK
<1>10. StoreOK' /\ RequestsOK' /\ WorkersOK'
  BY <1>1, <1>2, <1>3 DEF StoreOK, RequestsOK, WorkersOK, WorkOK
<1>11. PurgeOK'
  BY <1>1, <1>2, <1>3, WritesKeep
<1>. QED
  BY <1>9, <1>10, <1>11 DEF IInv

LEMMA ExpiryKeeps ==
    ASSUME IInv, NEW t \in Tokens, ScratchExpires(t)
    PROVE  IInv'
<1>1. StoreOK /\ RequestsOK /\ WorkersOK /\ ScratchOK /\ PurgeOK
  BY DEF IInv
<1>2. /\ \A w \in Workers : wk[w].token # t
      /\ scratch' = [scratch EXCEPT ![t] = {}] /\ conv' = [conv EXCEPT ![t] = "none"]
      /\ UNCHANGED <<store, queue, requests, early, wk, strayed>>
  BY DEF ScratchExpires
<1>3. UNCHANGED <<meta, row, job, sect, obj, upload, enqueue, del, begun>>
  BY <1>2 DEF store, requests
<1>4. ScratchIsCleaned'
  BY <1>1, <1>2 DEF ScratchOK, ScratchIsCleaned
<1>5. \A v \in Workers : wk[v].token \in Tokens \cup {"none"}
  BY <1>1, AtWork
<1>6. ScratchOK'
  BY <1>1, <1>2, <1>4, <1>5 DEF ScratchOK
<1>7. StoreOK' /\ RequestsOK' /\ WorkersOK'
  BY <1>1, <1>2, <1>3 DEF StoreOK, RequestsOK, WorkersOK, WorkOK
<1>8. PurgeOK'
  BY <1>1, <1>2, <1>3, WritesKeep
<1>. QED
  BY <1>6, <1>7, <1>8 DEF IInv

LEMMA StillKeeps ==
    ASSUME IInv,
           UNCHANGED <<store, queue, requests, early, wk, scratch, conv, strayed>>
    PROVE  IInv'
<1>1. StoreOK /\ RequestsOK /\ WorkersOK /\ ScratchOK /\ PurgeOK
  BY DEF IInv
<1>2. UNCHANGED <<meta, row, job, sect, obj, upload, enqueue, del, begun>>
  BY DEF store, requests
<1>3. StoreOK' /\ RequestsOK' /\ WorkersOK' /\ ScratchOK'
  BY <1>1, <1>2, ScratchStays DEF StoreOK, RequestsOK, WorkersOK, WorkOK
<1>4. PurgeOK'
  BY <1>1, <1>2, WritesKeep
<1>. QED
  BY <1>3, <1>4 DEF IInv

-----------------------------------------------------------------------------
(* The invariant holds, and what follows from it *)

LEMMA InitIInv == Init => IInv
<1>. SUFFICES ASSUME Init PROVE IInv
  OBVIOUS
<1>1. StoreOK
  BY RowTypes, ProjectConstants DEF Init, ProjectInit, StoreOK, JobStates
<1>2. RequestsOK
  BY RowTypes, PurgeTypes DEF Init, ProjectInit, RequestsOK, Uploads, NoRequest, Enqueues
<1>3. WorkersOK
  BY Rests DEF Init, WorkersOK
<1>4. ScratchOK
  BY Rests DEF Init, ScratchOK, ScratchIsCleaned
<1>5. PurgeOK
  BY Rests, PurgeTypes DEF Init, ProjectInit, PurgeOK, EarlyIsThere, PurgesKnow, PurgeKnows,
     BeforePurge, MetaGoesLast, Began, HoldingPcs, TryPcs, ConvertPcs
<1>. QED
  BY <1>1, <1>2, <1>3, <1>4, <1>5 DEF IInv

LEMMA NextIInv == IInv /\ [Next]_vars => IInv'
<1>. SUFFICES ASSUME IInv, [Next]_vars PROVE IInv'
  OBVIOUS
<1>1. ASSUME NEW d \in Docs,
             \/ Register(d) \/ RegisterRow(d, backend) \/ RegisterCount(d) \/ RegisterDies(d)
             \/ \E c \in Contents : Post(d, c)
             \/ FormExpires(d)
             \/ Enqueue(d) \/ EnqueueRow(d) \/ EnqueueJob(d) \/ EnqueueSend(d)
             \/ EnqueueFails(d, taken) \/ EnqueueUndo(d) \/ EnqueueUndoJob(d) \/ EnqueueDies(d),
             UNCHANGED <<wk, convert>>
      PROVE  IInv'
  BY <1>1, RequestKeeps, EnqueueKeeps
<1>2. ASSUME NEW x \in Deleters, Delete(x) \/ DeleteStep(x) \/ DeleteDies(x),
             UNCHANGED <<wk, convert>>
      PROVE  IInv'
  BY <1>2, DeleteKeeps, ListKeeps, PurgePageKeeps, PartitionKeeps, ItemsKeep, MetaKeeps
     DEF DeleteStep
<1>3. CASE ProjectStep(backend, taken) /\ UNCHANGED <<wk, convert>>
  BY <1>1, <1>2, <1>3 DEF ProjectStep
<1>4. CASE \E w \in Workers : WorkerStep(w)
  BY <1>4, WorkerStepKeeps
<1>5. CASE \E t \in Tokens : Converter(t) \/ ScratchExpires(t)
  BY <1>5, ConverterKeeps, ExpiryKeeps
<1>6. CASE Deploy \/ UNCHANGED vars
  BY <1>6, StillKeeps DEF Deploy, vars
<1>. QED
  BY <1>3, <1>4, <1>5, <1>6 DEF Next

LEMMA Invariant == Spec => []IInv
BY InitIInv, NextIInv, PTL DEF Spec

(* Every variable has its type, whatever purge runs beside the worker. *)
THEOREM TypeCorrect == Spec => []TypeOK
<1>1. IInv => TypeOK
  BY AtWork DEF IInv, TypeOK, StoreOK, RequestsOK, WorkersOK, WorkOK, ScratchOK, JobStates, Uploads
<1>. QED
  BY <1>1, Invariant, PTL

(* However many DELETE calls, pages and deaths: META is not gone while      *)
(* anything the first purge found is left.                                  *)
THEOREM MetaLast == Spec => []MetaGoesLast
<1>1. IInv => MetaGoesLast
  BY DEF IInv, PurgeOK
<1>. QED
  BY <1>1, Invariant, PTL

(* However many conversions: a scratch copy belongs to an invocation still  *)
(* at work, or was strayed from by one that died, gave up or failed to      *)
(* delete it.                                                               *)
THEOREM ScratchCleaned == Spec => []ScratchIsCleaned
<1>1. IInv => ScratchIsCleaned
  BY DEF IInv, ScratchOK
<1>. QED
  BY <1>1, Invariant, PTL

-----------------------------------------------------------------------------
(* The record and the bytes, for one writer at a time.  A row that says the *)
(* document is parsed vouches for what an export opens, and an invocation   *)
(* between its writes knows as much of the row it will write; meanwhile the *)
(* document is not parsed, so that its copy and sections may be replaced.   *)

(* Two invocations are never both between their first and their last write  *)
(* of one document's row, copy and sections.  The lease of the job does not *)
(* give that by itself: it must not be granted again by a request to parse  *)
(* that comes in between, nor by what an earlier attempt still writes.      *)
Writing == TryPcs \ {"close"}
OneWriter ==
    \A v, w \in Workers :
        wk[v].pc \in Writing /\ wk[w].pc \in Writing /\ wk[v].doc = wk[w].doc => v = w

Vouches(r) == (r.converted <=> r.format = "doc") /\ (r.format = "docx" => r.read \notin Legacy)
Copied(d, r) ==
    r.converted => obj[<<"converted", d>>] \in {r.read} \cup (IF begun THEN {"none"} ELSE {})

WriterKnows(i) ==
    /\ i.pc \in Writing => row[i.doc].status # "parsed"
    /\ i.pc \in ConvertPcs \cup {"stage", "copy"} =>
         i.data \in Legacy /\ i.row.read = i.data /\ i.row.format = "doc" /\ ~i.row.converted
    /\ i.pc \in {"parse", "sections", "commit"} =>
         i.row.read = i.data /\ (i.data \in Junk \/ Vouches(i.row)) /\ Copied(i.doc, i.row)
    /\ i.pc \in {"sections", "commit"} => i.data \notin Junk
    /\ i.pc = "commit" /\ ~begun => i.data \in sect[i.doc]

RecordOK ==
    /\ \A d \in Docs : row[d].status = "parsed" =>
         Vouches(row[d]) /\ Copied(d, row[d]) /\ (~begun => row[d].read \in sect[d])
    /\ \A d \in Docs : enqueue[d].pc # "idle" => enqueue[d].row.status \in Admitted
    /\ \A w \in Workers : WriterKnows(wk[w])

(* Whatever leaves parsed rows and converted copies alone, or purges them.  *)
LEMMA RecordKeeps ==
    ASSUME WorkersOK, RecordOK, begun => begun',
           \A d \in Docs : row'[d].status = "parsed" => row'[d] = row[d],
           \A d \in Docs : \/ obj'[<<"converted", d>>] = obj[<<"converted", d>>]
                           \/ begun' /\ obj'[<<"converted", d>>] = "none",
           \A d \in Docs : begun' \/ sect[d] \subseteq sect'[d],
           \A d \in Docs : \/ enqueue'[d] = enqueue[d] \/ enqueue'[d].pc = "idle"
                           \/ enqueue'[d].row.status \in Admitted,
           \A w \in Workers : wk'[w] = wk[w] \/ WriterKnows(wk[w])'
    PROVE  RecordOK'
<1>1. \A d \in Docs : row'[d].status = "parsed" =>
        Vouches(row'[d]) /\ Copied(d, row[d])' /\ (~begun' => row'[d].read \in sect'[d])
  BY DEF RecordOK, Vouches, Copied
<1>2. \A d \in Docs : enqueue'[d].pc # "idle" => enqueue'[d].row.status \in Admitted
  BY DEF RecordOK
<1>3. ASSUME NEW w \in Workers PROVE WriterKnows(wk[w])'
  <2>1. CASE wk'[w] = wk[w]
    <3>1. wk[w].pc \in Writing => wk[w].doc \in Docs
      BY AtWork DEF Writing, TryPcs, ConvertPcs
    <3>2. wk[w].pc \in {"sections", "commit", "parse"} => wk[w].pc \in Writing
      BY DEF Writing, TryPcs
    <3>3. WriterKnows(wk[w])
      BY DEF RecordOK
    <3>. QED
      BY <2>1, <3>1, <3>2, <3>3 DEF WriterKnows, Copied
  <2>. QED
    BY <2>1
<1>. QED
  BY <1>1, <1>2, <1>3 DEF RecordOK, Vouches

LEMMA OffWriting ==
    ASSUME NEW w \in Workers, wk'[w].pc \notin Writing
    PROVE  WriterKnows(wk[w])'
BY DEF WriterKnows, Writing, TryPcs, ConvertPcs

(* Steps that lead an invocation to no write of its own. *)
LEMMA OffKeeps ==
    ASSUME IInv, RecordOK, NEW w \in Workers,
           \/ \E d \in Docs : Receive(w, d)
           \/ ReadJob(w) \/ ReadDoc(w) \/ Settle(w) \/ Claim(w) \/ Refuse(w) \/ Close(w)
           \/ Raises(w) \/ Fail(w) \/ FailJob(w) \/ Die(w)
    PROVE  RecordOK'
<1>1. WorkersOK /\ StoreOK
  BY DEF IInv
<1>2. UNCHANGED <<obj, sect, enqueue, begun>>
  BY DEF Receive, ReadJob, ReadDoc, Settle, Claim, Refuse, Close, Raises, Fail, FailJob, Die, store, requests
<1>3. wk'[w].pc \notin Writing /\ \A v \in Workers \ {w} : wk'[v] = wk[v]
  BY <1>1, AtWork DEF Receive, ReadJob, ReadDoc, Settle, Claim, Refuse, Close, Raises, Fail, FailJob, Die,
     Rest, Keep, Goto, Fails, NoWork, Writing, TryPcs, ConvertPcs, Works
<1>4. \A d \in Docs : row'[d].status = "parsed" => row'[d] = row[d]
  <2>1. CASE Fail(w)
    <3>1. PutRow(wk[w].doc, [wk[w].row EXCEPT !.status = "failed"])
      BY <2>1 DEF Fail
    <3>2. [wk[w].row EXCEPT !.status = "failed"].status = "failed"
      BY <1>1, AtWork, RowTypes DEF Statuses
    <3>. QED
      BY <1>1, <3>1, <3>2 DEF PutRow, StoreOK
  <2>2. CASE ~Fail(w)
    BY <2>2 DEF Receive, ReadJob, ReadDoc, Settle, Claim, Refuse, Close, Raises, FailJob, Die, store
  <2>. QED
    BY <2>1, <2>2
<1>5. WriterKnows(wk[w])'
  BY <1>3, OffWriting
<1>. QED
  BY <1>1, <1>2, <1>3, <1>4, <1>5, RecordKeeps

(* Steps of the conversion change the record of nothing. *)
LEMMA ConvertingKeeps ==
    ASSUME IInv, RecordOK, NEW w \in Workers,
           \/ Stage(w) \/ Invoke(w) \/ Answer(w) \/ GiveUp(w) \/ FetchTarget(w) \/ ConvertFails(w)
           \/ Clean(w)
    PROVE  RecordOK'
<1>1. WorkersOK /\ StoreOK
  BY DEF IInv
<1>2. UNCHANGED <<row, obj, sect, enqueue, begun>>
  BY DEF Stage, Invoke, Answer, GiveUp, FetchTarget, ConvertFails, Clean, store, requests
<1>3. /\ wk'[w].pc \in ConvertPcs \cup {"copy", "fail"} /\ wk'[w].doc = wk[w].doc
      /\ wk'[w].data = wk[w].data /\ wk'[w].row = wk[w].row
      /\ \A v \in Workers \ {w} : wk'[v] = wk[v]
  <2>1. CASE Stage(w)
    BY <1>1, <2>1, AtWork DEF Stage, ConvertPcs, Works
  <2>2. CASE Invoke(w) \/ GiveUp(w)
    BY <1>1, <2>2, AtWork DEF Invoke, GiveUp, Goto, ConvertPcs, Works
  <2>3. CASE Answer(w)
    BY <1>1, <2>3, AtWork DEF Answer, Goto, ConvertPcs, Works
  <2>4. CASE ConvertFails(w)
    BY <1>1, <2>4, AtWork DEF ConvertFails, Goto, ConvertPcs, Works
  <2>5. CASE FetchTarget(w)
    BY <1>1, <2>5, AtWork DEF FetchTarget, ConvertPcs, Works
  <2>6. CASE Clean(w)
    BY <1>1, <2>6, AtWork DEF Clean, ConvertPcs, Works
  <2>. QED
    BY <2>1, <2>2, <2>3, <2>4, <2>5, <2>6
<1>4. wk[w].pc \in ConvertPcs \cup {"stage"}
  BY DEF Stage, Invoke, Answer, GiveUp, FetchTarget, ConvertFails, Clean, ConvertPcs
<1>5. WriterKnows(wk[w])
  BY DEF RecordOK
<1>6. WriterKnows(wk[w])'
  <2>1. CASE wk'[w].pc = "fail"
    BY <2>1, OffWriting DEF Writing, TryPcs, ConvertPcs
  <2>2. CASE wk'[w].pc \in ConvertPcs \cup {"copy"}
    BY <1>2, <1>3, <1>4, <1>5, <2>2 DEF WriterKnows, Writing, TryPcs, ConvertPcs
  <2>. QED
    BY <1>3, <2>1, <2>2
<1>. QED
  BY <1>1, <1>2, <1>3, <1>6, RecordKeeps

LEMMA BeginKeeps ==
    ASSUME IInv, RecordOK, NEW w \in Workers, Begin(w)
    PROVE  RecordOK'
<1>. DEFINE r == [wk[w].row EXCEPT !.status = "parsing"]
<1>1. WorkersOK /\ StoreOK
  BY DEF IInv
<1>2. wk[w].doc \in Docs /\ r.status = "parsing"
  BY <1>1, AtWork, RowTypes DEF Begin, Statuses
<1>3. /\ row' = [row EXCEPT ![wk[w].doc] = r]
      /\ UNCHANGED <<obj, sect, enqueue, begun>>
  BY DEF Begin, PutRow, requests
<1>4. /\ wk'[w].pc = "fetch" /\ wk'[w].doc = wk[w].doc
      /\ \A v \in Workers \ {w} : wk'[v] = wk[v]
  BY <1>1, AtWork DEF Begin, Keep, Works
<1>. HIDE DEF r
<1>5. \A d \in Docs : row'[d].status = "parsed" => row'[d] = row[d]
  BY <1>1, <1>2, <1>3 DEF StoreOK
<1>6. WriterKnows(wk[w])'
  BY <1>1, <1>2, <1>3, <1>4 DEF WriterKnows, StoreOK, ConvertPcs
<1>. QED
  BY <1>1, <1>3, <1>4, <1>5, <1>6, RecordKeeps

(* What is sniffed of legacy bytes, of native ones and of others. *)
LEMMA SniffedVouches ==
    ASSUME NEW r \in Rows, NEW c \in Contents
    PROVE  /\ Sniffed(r, c).read = c /\ ~Sniffed(r, c).converted
           /\ c \in Legacy => Sniffed(r, c).format = "doc"
           /\ c \notin Legacy => c \in Junk \/ Vouches(Sniffed(r, c))
<1>. DEFINE f == CASE c \in Legacy -> "doc" [] c \in Native -> "docx" [] OTHER -> r.format
<1>1. /\ f \in {"docx", "doc"} /\ (c \in Legacy => f = "doc")
      /\ c \notin Legacy => c \in Junk \/ f = "docx"
  BY ProjectConstants DEF Rows, Contents
<1>2. Sniffed(r, c) = [r EXCEPT !.read = c, !.converted = FALSE, !.format = f]
  BY DEF Sniffed
<1>. HIDE DEF f
<1>3. Sniffed(r, c).read = c /\ Sniffed(r, c).converted = FALSE /\ Sniffed(r, c).format = f
  BY <1>2 DEF Rows
<1>. QED
  BY <1>1, <1>3 DEF Vouches

LEMMA FetchKeeps ==
    ASSUME IInv, RecordOK, NEW w \in Workers, Fetch(w)
    PROVE  RecordOK'
<1>. DEFINE c == obj[<<"original", wk[w].doc>>]
<1>1. WorkersOK /\ StoreOK
  BY DEF IInv
<1>2. wk[w].pc = "fetch" /\ wk[w].doc \in Docs /\ wk[w].row \in Rows
  BY <1>1, AtWork DEF Fetch
<1>3. UNCHANGED <<row, obj, sect, enqueue, begun>>
  BY DEF Fetch, store, requests
<1>4. \A v \in Workers \ {w} : wk'[v] = wk[v]
  BY <1>1 DEF Fetch, Fails, WorkersOK
<1>5. WriterKnows(wk[w])
  BY DEF RecordOK
<1>6. CASE c = "none"
  <2>1. wk'[w].pc = "fail"
    BY <1>1, <1>6, AtWork DEF Fetch, Fails, Works
  <2>2. WriterKnows(wk[w])'
    BY <2>1, OffWriting DEF Writing, TryPcs, ConvertPcs
  <2>. QED
    BY <1>1, <1>3, <1>4, <2>2, RecordKeeps
<1>7. CASE c # "none"
  <2>1. c \in Contents
    BY <1>1, <1>2, <1>7 DEF StoreOK, Keys
  <2>. DEFINE l == IF c \notin Legacy THEN "parse" ELSE IF backend = "lambda" THEN "stage" ELSE "fail"
  <2>2. wk' = [wk EXCEPT ![w].row = Sniffed(@, c), ![w].data = c, ![w].retry = TRUE, ![w].pc = l]
    BY <1>7 DEF Fetch
  <2>3. /\ wk'[w].row = Sniffed(wk[w].row, c) /\ wk'[w].data = c /\ wk'[w].pc = l
        /\ wk'[w].doc = wk[w].doc
    <3>. HIDE DEF c, l
    <3>. QED
      BY <1>1, <2>2, AtWork DEF Works
  <2>4. l \in {"parse", "stage", "fail"} /\ (c \in Legacy <=> l # "parse")
    OBVIOUS
  <2>. HIDE DEF c, l
  <2>5. WriterKnows(wk[w])'
    <3>1. CASE l = "fail"
      BY <2>3, <3>1, OffWriting DEF Writing, TryPcs, ConvertPcs
    <3>2. CASE l = "stage"
      BY <1>2, <1>3, <1>5, <2>1, <2>3, <2>4, <3>2, SniffedVouches DEF WriterKnows, Writing, TryPcs, ConvertPcs
    <3>3. CASE l = "parse"
      BY <1>2, <1>3, <1>5, <2>1, <2>3, <2>4, <3>3, SniffedVouches
         DEF WriterKnows, Writing, TryPcs, ConvertPcs, Copied, Vouches
    <3>. QED
      BY <2>4, <3>1, <3>2, <3>3
  <2>. QED
    BY <1>1, <1>3, <1>4, <2>5, RecordKeeps
<1>. QED
  BY <1>6, <1>7

LEMMA ParseKeeps ==
    ASSUME IInv, RecordOK, NEW w \in Workers, Parse(w) \/ PutSections(w)
    PROVE  RecordOK'
<1>1. WorkersOK /\ StoreOK
  BY DEF IInv
<1>2. wk[w].pc \in {"parse", "sections"} /\ wk[w].doc \in Docs
  BY <1>1, AtWork DEF Parse, PutSections
<1>3. UNCHANGED <<row, enqueue, begun>> /\ \A d \in Docs : sect[d] \subseteq sect'[d]
  BY <1>1, <1>2 DEF Parse, PutSections, requests, StoreOK
<1>4. \A d \in Docs : obj'[<<"converted", d>>] = obj[<<"converted", d>>]
  BY <1>1, <1>2 DEF Parse, PutSections, PutObject, StoreOK, Keys
<1>5. /\ wk'[w].doc = wk[w].doc /\ wk'[w].data = wk[w].data /\ wk'[w].row = wk[w].row
      /\ \A v \in Workers \ {w} : wk'[v] = wk[v]
  BY <1>1, AtWork DEF Parse, PutSections, Fails, Goto, Works
<1>6. \/ wk'[w].pc = "fail"
      \/ wk[w].pc = "parse" /\ wk'[w].pc = "sections" /\ wk[w].data \notin Junk
      \/ wk[w].pc = "sections" /\ wk'[w].pc = "commit" /\ wk[w].data \in sect'[wk[w].doc]
  BY <1>1, AtWork DEF Parse, PutSections, Fails, Goto, Works, StoreOK
<1>7. WriterKnows(wk[w])
  BY DEF RecordOK
<1>8. WriterKnows(wk[w])'
  <2>1. CASE wk'[w].pc = "fail"
    BY <2>1, OffWriting DEF Writing, TryPcs, ConvertPcs
  <2>2. CASE wk'[w].pc # "fail"
    BY <1>2, <1>3, <1>4, <1>5, <1>6, <1>7, <2>2
       DEF WriterKnows, Writing, TryPcs, ConvertPcs, Copied, Vouches
  <2>. QED
    BY <2>1, <2>2
<1>. QED
  BY <1>1, <1>3, <1>4, <1>5, <1>8, RecordKeeps

(* The one writer of a document replaces the copy that its row vouches for. *)
LEMMA StoreConvertedKeeps ==
    ASSUME IInv, RecordOK, OneWriter, NEW w \in Workers, StoreConverted(w)
    PROVE  RecordOK'
<1>. DEFINE r == [wk[w].row EXCEPT !.converted = TRUE]
<1>1. WorkersOK /\ StoreOK
  BY DEF IInv
<1>2. wk[w].pc = "copy" /\ wk[w].doc \in Docs /\ wk[w].row \in Rows
  BY <1>1, AtWork DEF StoreConverted
<1>3. UNCHANGED <<row, sect, enqueue, begun>>
  BY DEF StoreConverted, requests
<1>4. /\ obj'[<<"converted", wk[w].doc>>] = wk[w].data
      /\ \A d \in Docs \ {wk[w].doc} : obj'[<<"converted", d>>] = obj[<<"converted", d>>]
  BY <1>1, <1>2 DEF StoreConverted, PutObject, StoreOK, Keys
<1>5. /\ wk'[w].pc = "parse" /\ wk'[w].doc = wk[w].doc /\ wk'[w].data = wk[w].data
      /\ wk'[w].row = r /\ \A v \in Workers \ {w} : wk'[v] = wk[v]
  BY <1>1, AtWork DEF StoreConverted, Keep, Works
<1>6. r.read = wk[w].row.read /\ r.format = wk[w].row.format /\ r.converted = TRUE
  BY <1>2 DEF Rows
<1>. HIDE DEF r
<1>7. WriterKnows(wk[w]) /\ wk[w].pc \in Writing
  BY <1>2 DEF RecordOK, Writing, TryPcs, ConvertPcs
<1>8. WriterKnows(wk[w])'
  BY <1>2, <1>3, <1>4, <1>5, <1>6, <1>7 DEF WriterKnows, Writing, TryPcs, ConvertPcs, Copied, Vouches
<1>9. ASSUME NEW v \in Workers, v # w PROVE WriterKnows(wk[v])'
  <2>1. WriterKnows(wk[v]) /\ (wk[v].pc \in Writing => wk[v].doc \in Docs \ {wk[w].doc})
    BY <1>1, <1>7, <1>9, AtWork DEF RecordOK, OneWriter, Writing, TryPcs, ConvertPcs
  <2>. QED
    BY <1>3, <1>4, <1>5, <1>9, <2>1 DEF WriterKnows, Copied, Vouches, Writing, TryPcs, ConvertPcs
<1>10. \A d \in Docs : row'[d].status = "parsed" =>
         Vouches(row'[d]) /\ Copied(d, row[d])' /\ (~begun' => row'[d].read \in sect'[d])
  <2>1. row[wk[w].doc].status # "parsed"
    BY <1>7 DEF WriterKnows
  <2>. QED
    BY <1>3, <1>4, <2>1 DEF RecordOK, Copied, Vouches
<1>. QED
  BY <1>3, <1>8, <1>9, <1>10 DEF RecordOK, Vouches

LEMMA CommitKeeps ==
    ASSUME IInv, RecordOK, OneWriter, NEW w \in Workers, Commit(w)
    PROVE  RecordOK'
<1>. DEFINE r == [wk[w].row EXCEPT !.status = "parsed"]
<1>1. WorkersOK /\ StoreOK
  BY DEF IInv
<1>2. wk[w].pc = "commit" /\ wk[w].doc \in Docs /\ wk[w].row \in Rows
  BY <1>1, AtWork DEF Commit
<1>3. UNCHANGED <<obj, sect, enqueue, begun>> /\ row' = [row EXCEPT ![wk[w].doc] = r]
  BY DEF Commit, PutRow, requests
<1>4. wk'[w].pc = "close" /\ \A v \in Workers \ {w} : wk'[v] = wk[v]
  BY <1>1, AtWork DEF Commit, Keep, Works
<1>5. r.read = wk[w].row.read /\ r.format = wk[w].row.format /\ r.converted = wk[w].row.converted
  BY <1>2 DEF Rows
<1>. HIDE DEF r
<1>6. WriterKnows(wk[w]) /\ wk[w].pc \in Writing
  BY <1>2 DEF RecordOK, Writing, TryPcs, ConvertPcs
<1>7. Vouches(r) /\ Copied(wk[w].doc, r) /\ (~begun => r.read \in sect[wk[w].doc])
  BY <1>2, <1>5, <1>6 DEF WriterKnows, Vouches, Copied
<1>8. \A d \in Docs : row'[d].status = "parsed" =>
        Vouches(row'[d]) /\ Copied(d, row[d])' /\ (~begun' => row'[d].read \in sect'[d])
  BY <1>1, <1>2, <1>3, <1>7 DEF RecordOK, Copied, Vouches, StoreOK
<1>9. ASSUME NEW v \in Workers PROVE WriterKnows(wk[v])'
  <2>1. CASE v = w
    BY <1>4, <2>1, OffWriting DEF Writing
  <2>2. CASE v # w
    <3>1. WriterKnows(wk[v]) /\ (wk[v].pc \in Writing => wk[v].doc \in Docs \ {wk[w].doc})
      BY <1>1, <1>6, <2>2, AtWork DEF RecordOK, OneWriter, Writing, TryPcs, ConvertPcs
    <3>. QED
      BY <1>1, <1>3, <1>4, <2>2, <3>1 DEF WriterKnows, Copied, Vouches, Writing, TryPcs, ConvertPcs, StoreOK
  <2>. QED
    BY <2>1, <2>2
<1>. QED
  BY <1>3, <1>8, <1>9 DEF RecordOK, Vouches

LEMMA RecordRequests ==
    ASSUME IInv, RecordOK, NEW d \in Docs,
           \/ Register(d) \/ RegisterRow(d, backend) \/ RegisterCount(d) \/ RegisterDies(d)
           \/ \E c \in Contents : Post(d, c)
           \/ FormExpires(d)
           \/ Enqueue(d) \/ EnqueueRow(d) \/ EnqueueJob(d) \/ EnqueueSend(d)
           \/ EnqueueFails(d, taken) \/ EnqueueUndo(d) \/ EnqueueUndoJob(d) \/ EnqueueDies(d),
           UNCHANGED <<wk, convert>>
    PROVE  RecordOK'
<1>1. WorkersOK /\ StoreOK /\ RequestsOK
  BY DEF IInv
<1>2. UNCHANGED <<wk, sect, begun>>
  BY DEF Register, RegisterRow, RegisterCount, RegisterDies, Post, FormExpires, Enqueue, EnqueueRow,
     EnqueueJob, EnqueueSend, EnqueueFails, EnqueueUndo, EnqueueUndoJob, EnqueueDies, store
<1>3. \A e \in Docs : obj'[<<"converted", e>>] = obj[<<"converted", e>>]
  BY <1>1 DEF Register, RegisterRow, RegisterCount, RegisterDies, Post, FormExpires, Enqueue, EnqueueRow,
     EnqueueJob, EnqueueSend, EnqueueFails, EnqueueUndo, EnqueueUndoJob, EnqueueDies, store, PutObject,
     StoreOK, Keys
<1>4. enqueue[d] \in Enqueues /\ (enqueue[d].pc # "idle" => enqueue[d].row.status \in Admitted)
  BY <1>1 DEF RequestsOK, RecordOK
<1>5. \A e \in Docs : row'[e].status = "parsed" => row'[e] = row[e]
  <2>1. CASE RegisterRow(d, backend)
    <3>1. PICK f \in {"docx", "doc"} : PutRow(d, [NoRow EXCEPT !.status = "pending", !.format = f])
      BY <2>1 DEF RegisterRow
    <3>2. [NoRow EXCEPT !.status = "pending", !.format = f].status = "pending"
      BY RowTypes
    <3>. QED
      BY <1>1, <3>1, <3>2 DEF PutRow, StoreOK
  <2>2. CASE EnqueueRow(d)
    <3>1. enqueue[d].row \in Rows
      BY <1>4, <2>2 DEF Enqueues
    <3>. QED
      BY <1>1, <2>2, <3>1, RowTypes DEF EnqueueRow, PutRow, StoreOK, Statuses
  <2>3. CASE EnqueueUndo(d)
    BY <1>1, <1>4, <2>3 DEF EnqueueUndo, PutRow, StoreOK, Admitted
  <2>4. CASE UNCHANGED row
    BY <2>4
  <2>. QED
    BY <2>1, <2>2, <2>3, <2>4 DEF Register, RegisterCount, RegisterDies, Post, FormExpires, Enqueue,
       EnqueueJob, EnqueueSend, EnqueueFails, EnqueueUndoJob, EnqueueDies, store
<1>6. \A e \in Docs : \/ enqueue'[e] = enqueue[e] \/ enqueue'[e].pc = "idle"
                      \/ enqueue'[e].row.status \in Admitted
  <2>1. CASE Enqueue(d)
    BY <1>1, <2>1 DEF Enqueue, RequestsOK
  <2>2. CASE enqueue' = [enqueue EXCEPT ![d] = NoRequest] \/ UNCHANGED enqueue
    BY <1>1, <2>2 DEF NoRequest, RequestsOK
  <2>3. CASE enqueue[d].pc # "idle" /\ \E l \in {"job", "send", "undo", "undojob"} : StepTo(d, l)
    BY <1>1, <1>4, <2>3 DEF StepTo, RequestsOK, Enqueues
  <2>. QED
    BY <2>1, <2>2, <2>3 DEF Register, RegisterRow, RegisterCount, RegisterDies, Post, FormExpires,
       EnqueueRow, EnqueueJob, EnqueueSend, EnqueueFails, EnqueueUndo, EnqueueUndoJob, EnqueueDies
<1>. QED
  BY <1>1, <1>2, <1>3, <1>5, <1>6, RecordKeeps

(* A purge takes away what it takes once it has begun. *)
LEMMA RecordPurges ==
    ASSUME IInv, RecordOK, NEW x \in Deleters, Delete(x) \/ DeleteStep(x) \/ DeleteDies(x),
           UNCHANGED <<wk, convert>>
    PROVE  RecordOK'
<1>1. WorkersOK /\ StoreOK
  BY DEF IInv
<1>2. begun \/ Delete(x)
  BY Begins, PurgeTypes DEF DeleteStep, DeleteDies, ListPage, PurgePage, ListDocuments,
     DeletePartition, QueryItems, DeleteItems, DeleteMeta
<1>3. begun' /\ UNCHANGED <<wk, enqueue>>
  BY <1>2 DEF Delete, DeleteStep, DeleteDies, ListPage, PurgePage, ListDocuments,
     DeletePartition, QueryItems, DeleteItems, DeleteMeta
<1>4. \A d \in Docs : row'[d].status = "parsed" => row'[d] = row[d]
  <2>1. CASE DeleteItems(x)
    <3>1. \A d \in Docs : row'[d] = row[d] \/ row'[d] = NoRow
      BY <2>1 DEF DeleteItems
    <3>. QED
      BY <3>1, RowTypes
  <2>. QED
    BY <2>1 DEF Delete, DeleteStep, DeleteDies, ListPage, PurgePage, ListDocuments,
       DeletePartition, QueryItems, DeleteMeta, store
<1>5. \A d \in Docs : \/ obj'[<<"converted", d>>] = obj[<<"converted", d>>]
                      \/ obj'[<<"converted", d>>] = "none"
  <2>1. CASE PurgePage(x)
    <3>1. \A k \in Keys : obj'[k] = obj[k] \/ obj'[k] = "none"
      BY <2>1 DEF PurgePage
    <3>. QED
      BY <3>1 DEF Keys
  <2>. QED
    BY <2>1 DEF Delete, DeleteStep, DeleteDies, ListPage, ListDocuments,
       DeletePartition, QueryItems, DeleteItems, DeleteMeta, store
<1>. QED
  BY <1>1, <1>3, <1>4, <1>5, RecordKeeps

LEMMA RecordStill ==
    ASSUME IInv, RecordOK, UNCHANGED <<store, requests, wk>>
    PROVE  RecordOK'
<1>1. WorkersOK /\ UNCHANGED <<row, sect, obj, enqueue, begun>>
  BY DEF IInv, store, requests
<1>. QED
  BY <1>1, RecordKeeps

LEMMA RecordNext == IInv /\ RecordOK /\ OneWriter /\ [Next]_vars => RecordOK'
<1>. SUFFICES ASSUME IInv, RecordOK, OneWriter, [Next]_vars PROVE RecordOK'
  OBVIOUS
<1>1. CASE ProjectStep(backend, taken) /\ UNCHANGED <<wk, convert>>
  BY <1>1, RecordRequests, RecordPurges DEF ProjectStep
<1>2. ASSUME NEW w \in Workers, WorkerStep(w) PROVE RecordOK'
  BY <1>2, OffKeeps, ConvertingKeeps, BeginKeeps, FetchKeeps, ParseKeeps, StoreConvertedKeeps,
     CommitKeeps DEF WorkerStep
<1>3. CASE (\E t \in Tokens : Converter(t) \/ ScratchExpires(t)) \/ Deploy \/ UNCHANGED vars
  BY <1>3, RecordStill DEF Converter, ScratchExpires, Deploy, vars, requests
<1>. QED
  BY <1>1, <1>2, <1>3 DEF Next

LEMMA RecordInit == Init => RecordOK
BY RowTypes, Rests DEF Init, ProjectInit, RecordOK, NoRequest, WriterKnows, NoWork, Writing, TryPcs,
   ConvertPcs

LEMMA RecordOKMatches == RecordOK => RecordMatchesBytes
BY DEF RecordOK, RecordMatchesBytes, Vouches, Copied

(* As long as no two invocations are at one document between their first    *)
(* and last write of it, a parsed document is what its record says it is.   *)
THEOREM OneWriterSuffices == Spec /\ []OneWriter => []RecordMatchesBytes
BY Invariant, RecordInit, RecordNext, RecordOKMatches, PTL DEF Spec

-----------------------------------------------------------------------------
(* One writer, when there are few deliveries.  Up to the first failure of   *)
(* the first delivery of a document's message there is no other message and *)
(* no request to make one (Settled); the second delivery then meets at most *)
(* an invocation that has only its job's failure left to write.             *)

At(w) == wk[w].pc # "idle"
Alone == \A v, w \in Workers : At(v) /\ At(w) => v = w
Settled(d) == enqueue[d].pc = "idle" /\ row[d].status \notin Admitted
Unregistered(d) ==
    /\ queue[d] = 0 /\ enqueue[d].pc = "idle" /\ row[d] = NoRow
    /\ \A w \in Workers : At(w) => wk[w].doc # d

(* before the first of two deliveries, between them, and after the second *)
NoneYet ==
    /\ \A w \in Workers : ~At(w)
    /\ \A d \in Docs : /\ queue[d] > 0 => queue[d] = 1 /\ Settled(d)
                       /\ enqueue[d].pc \in {"job", "send"} => row[d].status \notin Admitted
OneSoFar ==
    /\ Alone
    /\ \A w \in Workers : At(w) /\ wk[w].pc # "failjob" => queue[wk[w].doc] = 0 /\ Settled(wk[w].doc)
NoneLeft ==
    \A v, w \in Workers :
        At(v) /\ At(w) /\ wk[v].doc = wk[w].doc => v = w \/ "failjob" \in {wk[v].pc, wk[w].pc}

FewOK ==
    /\ deliveries \in Nat /\ taken \in BOOLEAN
    /\ \A w \in Workers : At(w) \/ wk[w] = NoWork
    /\ \A d \in Docs : upload[d] \in {"none", "put"} => Unregistered(d)
    /\ taken => \/ deliveries = 1 /\ \A w \in Workers : ~At(w)
                \/ deliveries = 0 /\ Alone
    /\ ~taken => \/ deliveries = 2 /\ NoneYet
                 \/ deliveries = 1 /\ OneSoFar
                 \/ deliveries = 0 /\ NoneLeft

(* Rows may be purged, and registrations go on. *)
LEMMA FewStays ==
    ASSUME FewOK, UNCHANGED <<deliveries, taken, queue, enqueue, wk>>,
           \A d \in Docs : row'[d] = row[d] \/ row'[d] = NoRow,
           \A d \in Docs : \/ upload'[d] = upload[d]
                           \/ upload'[d] = "put" /\ upload[d] = "none"
                           \/ upload'[d] \notin {"none", "put"},
           WorkersOK
    PROVE  FewOK'
<1>1. \A w \in Workers : At(w)' <=> At(w)
  BY DEF At
<1>2. \A d \in Docs : row'[d].status \in Admitted => row[d].status \in Admitted
  BY RowTypes DEF Admitted
<1>3. \A d \in Docs : /\ Settled(d) => Settled(d)'
                      /\ Unregistered(d) => Unregistered(d)'
  BY <1>1, <1>2 DEF Settled, Unregistered
<1>4. (Alone' <=> Alone) /\ (NoneYet => NoneYet') /\ (NoneLeft => NoneLeft')
  BY <1>1, <1>2, <1>3 DEF Alone, NoneYet, NoneLeft
<1>5. OneSoFar => OneSoFar'
  BY <1>1, <1>3, <1>4, AtWork DEF OneSoFar, At
<1>6. \A d \in Docs : upload'[d] \in {"none", "put"} => Unregistered(d)'
  BY <1>3 DEF FewOK
<1>. QED
  BY <1>1, <1>4, <1>5, <1>6 DEF FewOK

LEMMA FewRequests ==
    ASSUME IInv, FewOK, NEW d \in Docs,
           \/ Register(d) \/ RegisterRow(d, backend) \/ RegisterCount(d) \/ RegisterDies(d)
           \/ \E c \in Contents : Post(d, c)
           \/ FormExpires(d),
           UNCHANGED <<wk, convert>>
    PROVE  FewOK'
<1>1. WorkersOK /\ StoreOK /\ RequestsOK
  BY DEF IInv
<1>2. UNCHANGED <<deliveries, taken, queue, enqueue, wk>>
  BY DEF Register, RegisterRow, RegisterCount, RegisterDies, Post, FormExpires, convert, setting
<1>3. \A e \in Docs : \/ upload'[e] = upload[e]
                      \/ e = d /\ upload'[e] = "put" /\ upload[e] = "none"
                      \/ e = d /\ upload'[e] \notin {"none", "put"}
  BY <1>1 DEF Register, RegisterRow, RegisterCount, RegisterDies, Post, FormExpires, RequestsOK
<1>4. CASE RegisterRow(d, backend)
  <2>1. /\ upload[d] = "put" /\ upload'[d] = "count"
        /\ \A e \in Docs \ {d} : row'[e] = row[e] /\ upload'[e] = upload[e]
    BY <1>1, <1>4 DEF RegisterRow, PutRow, StoreOK, RequestsOK
  <2>2. Unregistered(d)
    BY <2>1 DEF FewOK
  <2>3. \A w \in Workers : (At(w)' <=> At(w)) /\ (At(w) => wk[w].doc \in Docs \ {d})
    BY <1>1, <1>2, <2>2, AtWork DEF At, Unregistered
  <2>4. \A e \in Docs \ {d} : /\ Settled(e) => Settled(e)'
                              /\ Unregistered(e) => Unregistered(e)'
    BY <1>2, <2>1, <2>3 DEF Settled, Unregistered
  <2>5. /\ \A e \in Docs : upload'[e] \in {"none", "put"} => Unregistered(e)'
        /\ (Alone' <=> Alone) /\ (NoneLeft => NoneLeft')
    BY <1>2, <2>1, <2>3, <2>4 DEF FewOK, Alone, NoneLeft
  <2>6. NoneYet => NoneYet'
    BY <1>2, <2>1, <2>2, <2>3, <2>4 DEF NoneYet, Unregistered
  <2>7. OneSoFar => OneSoFar'
    BY <1>2, <2>3, <2>4, <2>5 DEF OneSoFar
  <2>. QED
    BY <1>2, <2>3, <2>5, <2>6, <2>7 DEF FewOK
<1>5. CASE ~RegisterRow(d, backend)
  <2>1. UNCHANGED row
    BY <1>5 DEF Register, RegisterCount, RegisterDies, Post, FormExpires, store
  <2>. QED
    BY <1>1, <1>2, <1>3, <2>1, FewStays
<1>. QED
  BY <1>4, <1>5

(* A request to parse goes where nothing is settled yet, so where no message *)
(* waits and nobody works before the first failure.                         *)
LEMMA FewParses ==
    ASSUME IInv, FewOK, NEW d \in Docs,
           \/ Enqueue(d) \/ EnqueueRow(d) \/ EnqueueJob(d) \/ EnqueueSend(d)
           \/ EnqueueFails(d, taken) \/ EnqueueUndo(d) \/ EnqueueUndoJob(d),
           UNCHANGED <<wk, convert>>
    PROVE  FewOK'
<1>1. WorkersOK /\ StoreOK /\ RequestsOK
  BY DEF IInv
<1>2. UNCHANGED <<deliveries, taken, upload, wk>>
  BY DEF Enqueue, EnqueueRow, EnqueueJob, EnqueueSend, EnqueueFails, EnqueueUndo, EnqueueUndoJob,
         convert, setting
<1>3. \A e \in Docs \ {d} : row'[e] = row[e] /\ queue'[e] = queue[e] /\ enqueue'[e] = enqueue[e]
  BY <1>1 DEF Enqueue, EnqueueRow, EnqueueJob, EnqueueSend, EnqueueFails, EnqueueUndo, EnqueueUndoJob,
         store, PutRow, StepTo, StoreOK, RequestsOK
<1>4. \A w \in Workers : (At(w)' <=> At(w)) /\ (At(w) => wk[w].doc \in Docs)
  BY <1>1, <1>2, AtWork DEF At
<1>5. ~Settled(d) /\ ~Unregistered(d)
  <2>1. CASE Enqueue(d)
    BY <2>1, RowTypes DEF Enqueue, Settled, Unregistered, Admitted
  <2>2. CASE ~Enqueue(d)
    BY <2>2 DEF EnqueueRow, EnqueueJob, EnqueueSend, EnqueueFails, EnqueueUndo,
       EnqueueUndoJob, Settled, Unregistered
  <2>. QED
    BY <2>1, <2>2
<1>6. \A e \in Docs : /\ Settled(e) => Settled(e)' /\ e # d
                      /\ Unregistered(e) => Unregistered(e)' /\ e # d
  BY <1>2, <1>3, <1>4, <1>5 DEF Settled, Unregistered
<1>7. /\ \A e \in Docs : upload'[e] \in {"none", "put"} => Unregistered(e)'
      /\ (Alone' <=> Alone) /\ (NoneLeft => NoneLeft')
  BY <1>2, <1>4, <1>6 DEF FewOK, Alone, NoneLeft
<1>8. OneSoFar => OneSoFar'
  BY <1>2, <1>3, <1>4, <1>6, <1>7 DEF OneSoFar
<1>9. ASSUME NoneYet, ~taken PROVE NoneYet'
  <2>1. queue[d] = 0
    BY <1>1, <1>5, <1>9 DEF NoneYet, StoreOK
  <2>2. enqueue[d].pc \in {"job", "send"} => row[d].status \notin Admitted
    BY <1>9 DEF NoneYet
  <2>3. /\ queue'[d] > 0 => queue'[d] = 1 /\ Settled(d)'
        /\ enqueue'[d].pc \in {"job", "send"} => row'[d].status \notin Admitted
    <3>1. CASE EnqueueRow(d)
      <4>1. CASE row[d].status \in Admitted
        <5>1. PutRow(d, [enqueue[d].row EXCEPT !.status = "parsing"]) /\ UNCHANGED queue
          BY <3>1, <4>1 DEF EnqueueRow
        <5>2. [enqueue[d].row EXCEPT !.status = "parsing"].status = "parsing"
          BY <1>1, RowTypes DEF RequestsOK, Enqueues, Statuses
        <5>. QED
          BY <1>1, <2>1, <5>1, <5>2 DEF PutRow, StoreOK, Admitted
      <4>2. CASE row[d].status \notin Admitted
        BY <1>1, <2>1, <3>1, <4>2 DEF EnqueueRow, RequestsOK, NoRequest
      <4>. QED
        BY <4>1, <4>2
    <3>2. CASE EnqueueSend(d)
      BY <1>1, <2>1, <2>2, <3>2 DEF EnqueueSend, StoreOK, RequestsOK, NoRequest, Settled, store
    <3>3. CASE EnqueueJob(d)
      BY <1>1, <2>1, <2>2, <3>3 DEF EnqueueJob, StepTo, RequestsOK
    <3>4. CASE Enqueue(d) \/ EnqueueFails(d, taken) \/ EnqueueUndo(d) \/ EnqueueUndoJob(d)
      <4>1. queue' = queue
        BY <1>9, <3>4 DEF Enqueue, EnqueueFails, EnqueueUndo, EnqueueUndoJob
      <4>2. enqueue'[d].pc \in {"swap", "undo", "undojob", "idle"}
        BY <1>1, <3>4 DEF Enqueue, EnqueueFails, EnqueueUndo, EnqueueUndoJob, StepTo, RequestsOK,
           Enqueues, NoRequest
      <4>. QED
        BY <2>1, <4>1, <4>2
    <3>. QED
      BY <3>1, <3>2, <3>3, <3>4
  <2>. QED
    BY <1>2, <1>3, <1>4, <1>6, <1>9, <2>3 DEF NoneYet
<1>. QED
  BY <1>2, <1>4, <1>7, <1>8, <1>9 DEF FewOK

LEMMA FewDies ==
    ASSUME IInv, FewOK, NEW d \in Docs, EnqueueDies(d), UNCHANGED <<wk, convert>>
    PROVE  FewOK'
<1>1. UNCHANGED <<deliveries, taken, upload, wk, row, queue>>
  BY DEF EnqueueDies, convert, setting, store
<1>2. \A e \in Docs : enqueue'[e] = enqueue[e] \/ enqueue'[e].pc = "idle"
  BY DEF EnqueueDies, IInv, RequestsOK, NoRequest
<1>3. \A e \in Docs : /\ Settled(e) => Settled(e)'
                      /\ Unregistered(e) => Unregistered(e)'
  BY <1>1, <1>2 DEF Settled, Unregistered, At
<1>4. \A w \in Workers : (At(w)' <=> At(w)) /\ (At(w) => wk[w].doc \in Docs)
  BY <1>1, AtWork DEF At, IInv
<1>5. (Alone' <=> Alone) /\ (NoneLeft => NoneLeft') /\ (NoneYet => NoneYet')
  BY <1>1, <1>2, <1>3, <1>4 DEF Alone, NoneLeft, NoneYet
<1>6. OneSoFar => OneSoFar'
  BY <1>1, <1>3, <1>4, <1>5 DEF OneSoFar
<1>. QED
  BY <1>1, <1>3, <1>4, <1>5, <1>6 DEF FewOK

LEMMA FewPurges ==
    ASSUME IInv, FewOK, NEW x \in Deleters, Delete(x) \/ DeleteStep(x) \/ DeleteDies(x),
           UNCHANGED <<wk, convert>>
    PROVE  FewOK'
<1>1. WorkersOK
  BY DEF IInv
<1>2. UNCHANGED <<deliveries, taken, queue, enqueue, wk, upload>>
  BY DEF Delete, DeleteStep, DeleteDies, ListPage, PurgePage, ListDocuments,
     DeletePartition, QueryItems, DeleteItems, DeleteMeta, convert, setting
<1>3. \A d \in Docs : row'[d] = row[d] \/ row'[d] = NoRow
  BY DEF Delete, DeleteStep, DeleteDies, ListPage, PurgePage, ListDocuments,
     DeletePartition, QueryItems, DeleteItems, DeleteMeta, store
<1>. QED
  BY <1>1, <1>2, <1>3, FewStays

LEMMA FewReceives ==
    ASSUME IInv, FewOK, NEW w \in Workers, NEW d \in Docs, Receive(w, d)
    PROVE  FewOK'
<1>1. WorkersOK /\ StoreOK
  BY DEF IInv
<1>2. /\ UNCHANGED <<taken, upload, enqueue, row>> /\ wk[w].pc = "idle"
      /\ queue[d] > 0 /\ queue' = [queue EXCEPT ![d] = @ - 1]
      /\ deliveries > 0 /\ deliveries' = deliveries - 1
  BY Rests DEF Receive, store, requests, setting
<1>3. /\ wk'[w].pc = "job" /\ wk'[w].doc = d /\ \A v \in Workers \ {w} : wk'[v] = wk[v]
  BY <1>1, AtWork DEF Receive, Works
<1>4. ~At(w) /\ At(w)' /\ \A v \in Workers \ {w} : /\ At(v)' <=> At(v)
                                                  /\ At(v) => wk[v].doc \in Docs
  BY <1>1, <1>2, <1>3, AtWork DEF At
<1>5. \A e \in Docs : Settled(e)' <=> Settled(e)
  BY <1>2 DEF Settled
<1>6. ~Unregistered(d) /\ \A e \in Docs : Unregistered(e) => Unregistered(e)'
  BY <1>1, <1>2, <1>3, <1>4 DEF Unregistered, StoreOK, At
<1>7. \A e \in Docs : upload'[e] \in {"none", "put"} => Unregistered(e)'
  BY <1>2, <1>6 DEF FewOK
<1>8. ASSUME \A v \in Workers : ~At(v) PROVE Alone' /\ \A v \in Workers : At(v)' => v = w
  <2>1. \A v \in Workers : At(v)' => v = w
    BY <1>3, <1>8 DEF At
  <2>. QED
    BY <2>1 DEF Alone
<1>9. ASSUME NoneYet PROVE OneSoFar'
  <2>1. queue'[d] = 0 /\ Settled(d)'
    BY <1>1, <1>2, <1>5, <1>9 DEF NoneYet, StoreOK
  <2>2. Alone' /\ \A v \in Workers : At(v)' => v = w
    BY <1>8, <1>9 DEF NoneYet
  <2>. QED
    BY <1>3, <2>1, <2>2 DEF OneSoFar
<1>10. ASSUME OneSoFar PROVE NoneLeft'
  <2>1. \A v \in Workers \ {w} : At(v) /\ wk[v].doc = d => wk[v].pc = "failjob"
    BY <1>1, <1>2, <1>10 DEF OneSoFar, StoreOK
  <2>2. \A u, v \in Workers \ {w} : At(u) /\ At(v) => u = v
    BY <1>10 DEF OneSoFar, Alone
  <2>3. ASSUME NEW u \in Workers, NEW v \in Workers, At(u)', At(v)', wk'[u].doc = wk'[v].doc, u # v
        PROVE  "failjob" \in {wk'[u].pc, wk'[v].pc}
    BY <1>3, <1>4, <2>1, <2>2, <2>3 DEF At
  <2>. QED
    BY <2>3 DEF NoneLeft
<1>11. \A v \in Workers : At(v)' \/ wk'[v] = NoWork
  BY <1>3 DEF FewOK, At
<1>. QED
  BY <1>2, <1>7, <1>8, <1>9, <1>10, <1>11 DEF FewOK

(* Any other step of an invocation: it stays with its document until it    *)
(* rests, and from the failed job it only rests.                            *)
LEMMA FewMoves ==
    ASSUME IInv, FewOK, NEW w \in Workers, At(w),
           UNCHANGED <<deliveries, taken, upload, enqueue>>,
           \A v \in Workers \ {w} : wk'[v] = wk[v],
           \/ wk'[w] = NoWork
           \/ wk'[w].pc # "idle" /\ wk'[w].doc = wk[w].doc /\ wk[w].pc # "failjob" /\ queue' = queue,
           \A d \in Docs \ {wk[w].doc} : row'[d] = row[d] /\ queue'[d] = queue[d],
           wk'[w].pc \in {"idle", "failjob"} \/ row'[wk[w].doc].status \notin Admitted
             \/ row'[wk[w].doc] = row[wk[w].doc]
    PROVE  FewOK'
<1>1. WorkersOK /\ wk[w].doc \in Docs
  BY AtWork DEF IInv, At
<1>2. \A v \in Workers : /\ At(v)' => At(v) /\ wk'[v].doc = wk[v].doc
                         /\ At(v)' /\ wk[v].pc = "failjob" => wk'[v].pc = "failjob"
  BY DEF At, NoWork
<1>3. (Alone => Alone') /\ ~NoneYet
  BY <1>2 DEF Alone, NoneYet
<1>4. NoneLeft => NoneLeft'
  BY <1>2 DEF NoneLeft
<1>5. ASSUME OneSoFar PROVE OneSoFar'
  <2>1. \A v \in Workers : At(v)' => v = w
    BY <1>2, <1>5 DEF OneSoFar, Alone
  <2>2. ASSUME At(w)', wk'[w].pc # "failjob" PROVE queue'[wk[w].doc] = 0 /\ Settled(wk[w].doc)'
    BY <1>5, <2>2 DEF OneSoFar, Settled, At, NoWork
  <2>. QED
    BY <1>2, <1>3, <1>5, <2>1, <2>2 DEF OneSoFar
<1>6. ASSUME NEW d \in Docs, upload'[d] \in {"none", "put"} PROVE Unregistered(d)'
  <2>1. Unregistered(d)
    BY <1>6 DEF FewOK
  <2>2. d # wk[w].doc
    BY <2>1 DEF Unregistered
  <2>. QED
    BY <1>2, <2>1, <2>2 DEF Unregistered
<1>7. \A v \in Workers : At(v)' \/ wk'[v] = NoWork
  BY DEF FewOK, At
<1>. QED
  BY <1>3, <1>4, <1>5, <1>6, <1>7 DEF FewOK

LEMMA FewWorks ==
    ASSUME IInv, FewOK, NEW w \in Workers, WorkerStep(w), ~\E d \in Docs : Receive(w, d)
    PROVE  FewOK'
<1>1. WorkersOK /\ StoreOK
  BY DEF IInv
<1>. DEFINE d == wk[w].doc
<1>. DEFINE Ends(s) == wk'[w] = NoWork /\ \A e \in Docs \ {s} : queue'[e] = queue[e]
<1>. DEFINE GoesOn(s) ==
        wk'[w].pc # "idle" /\ wk'[w].doc = s /\ wk[w].pc # "failjob" /\ queue' = queue
<1>. DEFINE Others == \A v \in Workers \ {w} : wk'[v] = wk[v]
<1>. DEFINE Row(s) ==
        /\ \A e \in Docs \ {s} : row'[e] = row[e]
        /\ \/ wk'[w].pc \in {"idle", "failjob"} \/ row'[s].status \notin Admitted
           \/ row'[s] = row[s]
<1>2. UNCHANGED <<deliveries, taken, upload, enqueue>>
  BY DEF WorkerStep, ReadJob, ReadDoc, Settle, Claim, Refuse, Begin, Fetch, Stage, Invoke, Answer, GiveUp,
     FetchTarget, ConvertFails, Clean, StoreConverted, Parse, PutSections, Commit, Close, Raises, Fail,
     FailJob, Die, convert, setting, requests
<1>3. At(w) /\ d \in Docs /\ Others /\ (Ends(d) \/ GoesOn(d)) /\ Row(d)
  <2>1. CASE ReadJob(w) \/ ReadDoc(w)
    <3>1. UNCHANGED <<row, queue>> /\ wk[w].pc \in {"job", "doc"}
      BY <2>1 DEF ReadJob, ReadDoc, store
    <3>2. \/ Rest(w)
          \/ \E r, l : Keep(w, r, l) /\ l \in {"settle", "claim"}
          \/ wk' = [wk EXCEPT ![w].pc = "doc", ![w].job = job[wk[w].doc]]
      BY <2>1 DEF ReadJob, ReadDoc
    <3>3. wk'[w] = NoWork \/ (wk'[w].pc # "idle" /\ wk'[w].doc = wk[w].doc)
      <4>1. CASE wk' = [wk EXCEPT ![w].pc = "doc", ![w].job = job[wk[w].doc]]
        BY <1>1, <4>1, AtWork DEF Works
      <4>2. CASE \E r, l : Keep(w, r, l) /\ l \in {"settle", "claim"}
        <5>1. PICK r, l : wk' = [wk EXCEPT ![w].row = r, ![w].pc = l] /\ l \in {"settle", "claim"}
          BY <4>2 DEF Keep
        <5>. QED
          BY <1>1, <5>1, AtWork DEF Works
      <4>3. CASE Rest(w)
        BY <1>1, <4>3 DEF Rest, WorkersOK
      <4>. QED
        BY <3>2, <4>1, <4>2, <4>3
    <3>4. Others
      BY <1>1, <3>2 DEF Rest, Keep, WorkersOK
    <3>. QED
      BY <1>1, <3>1, <3>3, <3>4, AtWork DEF At
  <2>2. CASE Settle(w) \/ Claim(w) \/ Refuse(w) \/ Close(w)
    <3>1. UNCHANGED <<row, queue>> /\ wk[w].pc \in {"settle", "claim", "refuse", "close"}
      BY <2>2 DEF Settle, Claim, Refuse, Close
    <3>2. Rest(w) \/ \E l \in {"begin", "refuse"} : Goto(w, l)
      BY <2>2 DEF Settle, Claim, Refuse, Close
    <3>. QED
      BY <1>1, <3>1, <3>2, AtWork DEF Rest, Goto, Works, At
  <2>3. CASE Begin(w) \/ Commit(w)
    <3>1. \A s \in {"parsing", "parsed"} :
            [wk[w].row EXCEPT !.status = s].status = s /\ s \notin Admitted
      BY <1>1, AtWork, RowTypes DEF Statuses, Admitted
    <3>. QED
      BY <1>1, <2>3, <3>1, AtWork DEF Begin, Commit, Keep, PutRow, Works, At, StoreOK
  <2>4. CASE Fetch(w)
    BY <1>1, <2>4, AtWork DEF Fetch, Fails, Works, At, store
  <2>5. CASE Stage(w) \/ Invoke(w) \/ Answer(w) \/ GiveUp(w) \/ FetchTarget(w) \/ ConvertFails(w)
             \/ Clean(w)
    <3>1. wk[w].pc \in ConvertPcs \cup {"stage"} /\ UNCHANGED <<row, queue>>
      BY <2>5 DEF Stage, Invoke, Answer, GiveUp, FetchTarget, ConvertFails, Clean, store, ConvertPcs
    <3>2. wk'[w].pc # "idle" /\ wk'[w].doc = wk[w].doc /\ Others
      <4>1. CASE Stage(w)
        BY <1>1, <4>1, AtWork DEF Stage, Works
      <4>2. CASE Invoke(w) \/ GiveUp(w)
        BY <1>1, <4>2, AtWork DEF Invoke, GiveUp, Goto, Works
      <4>3. CASE Answer(w)
        BY <1>1, <4>3, AtWork DEF Answer, Goto, Works
      <4>4. CASE ConvertFails(w)
        BY <1>1, <4>4, AtWork DEF ConvertFails, Goto, Works
      <4>5. CASE FetchTarget(w)
        BY <1>1, <4>5, AtWork DEF FetchTarget, Works
      <4>6. CASE Clean(w)
        BY <1>1, <4>6, AtWork DEF Clean, Works
      <4>. QED
        BY <2>5, <4>1, <4>2, <4>3, <4>4, <4>5, <4>6
    <3>. QED
      BY <1>1, <3>1, <3>2, AtWork DEF At, ConvertPcs
  <2>6. CASE StoreConverted(w) \/ Parse(w) \/ PutSections(w) \/ Raises(w)
    BY <1>1, <2>6, AtWork DEF StoreConverted, Parse, PutSections, Raises, Keep, Fails, Goto, Works, At,
       store, TryPcs, ConvertPcs
  <2>7. CASE Fail(w)
    BY <1>1, <2>7, AtWork DEF Fail, Goto, PutRow, Works, At, StoreOK
  <2>8. CASE FailJob(w)
    BY <1>1, <2>8, AtWork DEF FailJob, Rest, Works, At, StoreOK
  <2>9. CASE Die(w)
    <3>1. wk[w].pc # "idle"
      BY <2>9 DEF Die, FewOK, At
    <3>. QED
      BY <1>1, <2>9, <3>1, AtWork DEF Die, Rest, Works, At, StoreOK, store
  <2>. QED
    BY <2>1, <2>2, <2>3, <2>4, <2>5, <2>6, <2>7, <2>8, <2>9 DEF WorkerStep
<1>. QED
  BY <1>2, <1>3, FewMoves

LEMMA FewStill ==
    ASSUME IInv, FewOK, UNCHANGED <<row, queue, upload, enqueue, deliveries, taken, wk>>
    PROVE  FewOK'
BY FewStays DEF IInv

LEMMA FewNext == IInv /\ FewOK /\ [Next]_vars => FewOK'
<1>. SUFFICES ASSUME IInv, FewOK, [Next]_vars PROVE FewOK'
  OBVIOUS
<1>1. CASE ProjectStep(backend, taken) /\ UNCHANGED <<wk, convert>>
  BY <1>1, FewRequests, FewParses, FewDies, FewPurges DEF ProjectStep
<1>2. ASSUME NEW w \in Workers, WorkerStep(w) PROVE FewOK'
  BY <1>2, FewReceives, FewWorks
<1>3. CASE (\E t \in Tokens : Converter(t) \/ ScratchExpires(t)) \/ Deploy \/ UNCHANGED vars
  BY <1>3, FewStill DEF Converter, ScratchExpires, Deploy, vars, store, requests, setting
<1>. QED
  BY <1>1, <1>2, <1>3 DEF Next

LEMMA FewInit ==
    ASSUME Init, \A b \in Budgets : b.deliveries <= (IF b.taken THEN 1 ELSE 2)
    PROVE  FewOK
<1>1. PICK b \in Budgets : deliveries = b.deliveries /\ taken = b.taken
  BY DEF Init
<1>2. deliveries \in Nat /\ taken \in BOOLEAN /\ deliveries <= (IF taken THEN 1 ELSE 2)
  BY <1>1, ConversionConstants
<1>3. \A w \in Workers : wk[w] = NoWork /\ ~At(w)
  BY Rests DEF Init, At
<1>4. \A d \in Docs : queue[d] = 0 /\ enqueue[d].pc = "idle" /\ row[d] = NoRow
  BY DEF Init, ProjectInit, NoRequest
<1>5. \A d \in Docs : Unregistered(d)
  BY <1>3, <1>4 DEF Unregistered
<1>6. NoneYet /\ OneSoFar /\ NoneLeft /\ Alone
  BY <1>3, <1>4 DEF NoneYet, OneSoFar, NoneLeft, Alone
<1>. QED
  BY <1>2, <1>3, <1>5, <1>6 DEF FewOK

LEMMA FewWriters == FewOK => OneWriter
<1>. SUFFICES ASSUME FewOK, NEW v \in Workers, NEW w \in Workers,
                     wk[v].pc \in Writing, wk[w].pc \in Writing, wk[v].doc = wk[w].doc
              PROVE  v = w
  BY DEF OneWriter
<1>1. At(v) /\ At(w) /\ "failjob" \notin {wk[v].pc, wk[w].pc}
  BY DEF At, Writing, TryPcs, ConvertPcs
<1>. QED
  BY <1>1 DEF FewOK, NoneYet, OneSoFar, NoneLeft, Alone

(* One invocation at a time; or two deliveries in all, one if a send may    *)
(* raise and be delivered.                                                  *)
Sparing ==
    \/ \A v, w \in Workers : v = w
    \/ \A b \in Budgets : b.deliveries <= (IF b.taken THEN 1 ELSE 2)

(* Then no two invocations are ever at the writes of one document, whatever *)
(* uploads, requests, deaths, failures and purges come between: a request   *)
(* to parse is refused while one is at work, and the job it resets after a  *)
(* failure is that of an invocation with nothing but the job left to write. *)
THEOREM OneWriterWhenSparing == Sparing => (Spec => []OneWriter)
<1>. SUFFICES ASSUME Sparing PROVE Spec => []OneWriter
  OBVIOUS
<1>1. CASE \A v, w \in Workers : v = w
  <2>1. OneWriter
    BY <1>1 DEF OneWriter
  <2>. QED
    BY <2>1, PTL
<1>2. CASE \A b \in Budgets : b.deliveries <= (IF b.taken THEN 1 ELSE 2)
  BY <1>2, Invariant, FewInit, FewNext, FewWriters, PTL DEF Spec
<1>. QED
  BY <1>1, <1>2 DEF Sparing

(* And then the record of every parsed document is that of the bytes an     *)
(* export opens, for any number of documents, uploads, prefixes and faults. *)
THEOREM RecordsMatch == Sparing => (Spec => []RecordMatchesBytes)
BY OneWriterSuffices, OneWriterWhenSparing, PTL
=============================================================================
