------------------------- MODULE RmfPipeline_proofs -------------------------
(***************************************************************************)
(* The RMF pipeline, for any number of sections, callers, workers,         *)
(* messages and exports.  For every scenario: type correctness, and that   *)
(* only approved wording reaches the exported file.  The other properties  *)
(* do not hold in every scenario; each is proved under a condition on the  *)
(* constants, which says what requests are made and what goes wrong:       *)
(*   PastIntake     no parse any more, every fault: ApprovalSticks         *)
(*   ApprovingOnly  nor edits of mappings: EverySectionDrafted             *)
(*   Quiet          one reviewer and duplicate messages:                   *)
(*                  ReviewedIsApproved, ExportIsCurrent                    *)
(*   Calm           from the upload on, with workers that die:             *)
(*                  OneClaimant, MapsFollowSections, HumanWins             *)
(***************************************************************************)
EXTENDS RmfPipeline, FiniteSetTheorems, TLAPS

-----------------------------------------------------------------------------
(* The invariant *)

Works == [pc : WorkerPcs, msg : Messages \cup {"none"}, job : Jobs \cup {"none"},
          saw : JobStatus \cup {"none"}, doc : Documents, todo : SUBSET Sections,
          texts : SUBSET (Sections \X Texts)]
Asked == [op : AllOps \cup {"none"}, pc : CallPcs, sec : Sections \cup {NoSection},
          doc : Documents, copy : [Sections -> Rows], todo : SUBSET Sections,
          job : Exports \cup {"none"}]

(* a message that can be received is about a job, and is not at its last receive *)
MessageOK(m) ==
    /\ m.state # "free" => m.job \in Jobs
    /\ m.state = "visible" => m.receives < MaxReceive

(* an approved draft has the wording that a caller approved *)
DraftsSigned ==
    \A s \in Sections : drafts[s].status = "approved" => <<s, drafts[s].text>> \in signed

StoreOK ==
    /\ doc \in Documents
    /\ jobs \in [Jobs -> JobRows]
    /\ msgs \in [Messages -> Queued] /\ \A m \in Messages : MessageOK(msgs[m])
    /\ sec \in [Orders -> 0..MaxParses]
    /\ maps \in [Sections -> Rows]
    /\ drafts \in [Sections -> Rows] /\ DraftsSigned
    /\ parses \in 0..MaxParses
    /\ signed \subseteq Sections \X Texts
    /\ ExportIsSigned

(* which jobs come to which step, and that an exporter holds approved wording *)
WorkOK(i) ==
    /\ i.pc # "idle" => i.job \in Jobs /\ i.msg \in Messages
    /\ i.pc \in {"begin", "approved", "rows"} => i.job \in {"parse", "map", "draft"}
    /\ i.pc = "list" => i.job # "parse"
    /\ i.texts \subseteq signed

CallOK(r) ==
    /\ r.pc # "idle" => r.op \in AllOps
    /\ r.op \in RowOps => r.sec \in Sections
    /\ r.pc = "row" => r.op \in RowOps
    /\ r.pc = "cas" => r.op # "edit_mapping"
    /\ r.op = "export" /\ r.pc \in {"cas", "jobput", "send", "undo", "undojob"}
         => r.job \in Exports

WorkersOK == wk \in [Workers -> Works] /\ \A w \in Workers : WorkOK(wk[w])
CallersOK == call \in [Callers -> Asked] /\ \A c \in Callers : CallOK(call[c])

IInv == StoreOK /\ WorkersOK /\ CallersOK

-----------------------------------------------------------------------------
(* Documents, jobs and messages *)

LEMMA Kinds ==
    ASSUME NEW j \in Jobs
    PROVE  /\ Kind(j) \in {"parse", "map", "draft", "export"}
           /\ Kind(j) = "export" <=> j \in Exports
           /\ j \notin Exports => Kind(j) = j
BY PipelineConstants DEF Jobs, Kind

LEMMA DocumentSteps ==
    ASSUME NEW d \in Documents, NEW kind \in {"parse", "map", "draft", "export"},
           NEW j \in Jobs, jobs \in [Jobs -> JobRows]
    PROVE  /\ kind # "export" => Doing(kind, d) \in Documents
           /\ Done(kind, d) \in Documents
           /\ Undone(j, d) \in Documents
<1>1. Cardinality(Orders) \in Nat
  BY PipelineConstants, FS_CardinalityType
<1>2. kind # "export" => Doing(kind, d) \in Documents
  BY DEF Doing, Documents, DocumentStatus, Stages
<1>3. Done(kind, d) \in Documents
  BY <1>1 DEF Done, Documents, DocumentStatus, Stages
<1>4. jobs[j].previous \in DocumentStatus
  BY DEF JobRows
<1>5. Undone(j, d) \in Documents
  BY <1>4, Kinds DEF Undone, Documents, DocumentStatus, Stages, Stage
<1>. QED
  BY <1>2, <1>3, <1>5

LEMMA PutJobTyped ==
    ASSUME jobs \in [Jobs -> JobRows], NEW j, NEW status \in JobStatus, PutJob(j, status)
    PROVE  jobs' \in [Jobs -> JobRows]
BY DEF PutJob, JobRows

LEMMA SendTyped ==
    ASSUME msgs \in [Messages -> Queued], \A m \in Messages : MessageOK(msgs[m]),
           NEW j \in Jobs, NEW holders, Send(j, holders)
    PROVE  msgs' \in [Messages -> Queued] /\ \A m \in Messages : MessageOK(msgs'[m])
<1>. DEFINE q == [state |-> "visible", job |-> j, receives |-> 0]
<1>1. PICK m \in Messages : msgs' = [msgs EXCEPT ![m] = q]
  BY DEF Send
<1>2. q \in Queued /\ MessageOK(q)
  BY PipelineConstants DEF Queued, MessageOK
<1>. HIDE DEF q
<1>. QED
  BY <1>1, <1>2

LEMMA DocumentTypes ==
    NoDoc \in Documents /\ \A d \in Documents : d.status \in DocumentStatus /\ d.count \in Nat
BY DEF NoDoc, Documents, DocumentStatus, Stages

LEMMA RowTypes ==
    /\ NoRow \in Rows
    /\ NoRows \in [Sections -> Rows]
    /\ \A s \in Sections, t \in [Sections -> Rows] : t[s].text \in Texts
    /\ [status |-> "proposed", text |-> "model"] \in Rows
    /\ \A t \in Texts : {[status |-> "edited", text |-> t], [status |-> "approved", text |-> t]} \subseteq Rows
BY DEF NoRow, NoRows, Rows, Texts

-----------------------------------------------------------------------------
(* Worker steps *)

LEMMA WorkerMovesOn ==
    ASSUME WorkersOK, NEW w \in Workers, NEW i \in Works, WorkOK(i),
           wk' = [wk EXCEPT ![w] = i], signed \subseteq signed'
    PROVE  WorkersOK'
BY DEF WorkersOK, WorkOK

LEMMA Rests ==
    NoWork \in Works /\ WorkOK(NoWork)
BY DocumentTypes DEF NoWork, Works, WorkerPcs, WorkOK

LEMMA Goes ==
    ASSUME WorkersOK, NEW w \in Workers, NEW l \in WorkerPcs, Goto(w, l),
           wk[w].pc # "idle", signed \subseteq signed',
           l \in {"begin", "approved", "rows"} => wk[w].job \in {"parse", "map", "draft"},
           l = "list" => wk[w].job # "parse"
    PROVE  WorkersOK'
<1>. DEFINE i == [wk[w] EXCEPT !.pc = l]
<1>1. /\ i \in Works /\ i.pc = l /\ i.msg = wk[w].msg /\ i.job = wk[w].job
      /\ i.texts = wk[w].texts /\ WorkOK(wk[w])
  BY DEF WorkersOK, Works
<1>2. wk' = [wk EXCEPT ![w] = i]
  BY DEF Goto
<1>. HIDE DEF i
<1>3. WorkOK(i)
  BY <1>1 DEF WorkOK
<1>. QED
  BY <1>1, <1>2, <1>3, WorkerMovesOn

(* Write leads to the next row, or to the commit of the finished document. *)
LEMMA Writes ==
    ASSUME WorkersOK, NEW w \in Workers, NEW d \in Documents, NEW todo \in SUBSET Sections,
           jobs \in [Jobs -> JobRows], wk[w].job \in Jobs, wk[w].msg \in Messages,
           todo # {} => wk[w].job \in {"parse", "map", "draft"},
           Write(w, d, todo), signed \subseteq signed'
    PROVE  WorkersOK'
<1>. DEFINE l == IF todo = {} THEN "commit" ELSE "rows"
            e == IF todo = {} THEN Done(Kind(wk[w].job), d) ELSE d
            i == [wk[w] EXCEPT !.todo = todo, !.pc = l, !.doc = e]
<1>1. e \in Documents
  BY Kinds, DocumentSteps
<1>2. l \in {"commit", "rows"} /\ l \in WorkerPcs /\ (l = "rows" => todo # {})
  BY DEF WorkerPcs, HoldingPcs
<1>3. wk' = [wk EXCEPT ![w] = i]
  BY DEF Write
<1>. HIDE DEF l, e
<1>4. /\ i \in Works /\ i.pc = l /\ i.msg = wk[w].msg /\ i.job = wk[w].job
      /\ i.texts = wk[w].texts /\ WorkOK(wk[w])
  BY <1>1, <1>2 DEF WorkersOK, Works
<1>. HIDE DEF i
<1>5. WorkOK(i)
  BY <1>2, <1>4 DEF WorkOK
<1>. QED
  BY <1>3, <1>4, <1>5, WorkerMovesOn

(* Steps that write nothing but the queue and their own state. *)
LEMMA ReceiveKeeps ==
    ASSUME IInv, NEW w \in Workers, NEW m \in Messages, Receive(w, m)
    PROVE  StoreOK' /\ WorkersOK'
<1>. DEFINE q == [msgs[m] EXCEPT !.state = "inflight", !.receives = @ + 1]
            i == [wk[w] EXCEPT !.pc = "job", !.msg = m, !.job = msgs[m].job]
<1>1. /\ msgs \in [Messages -> Queued] /\ msgs[m] \in Queued /\ MessageOK(msgs[m])
      /\ wk[w] = NoWork /\ wk[w] \in Works /\ WorkOK(wk[w])
      /\ msgs[m].state = "visible" /\ msgs[m].job \in Jobs /\ msgs[m].receives < MaxReceive
      /\ msgs' = [msgs EXCEPT ![m] = q] /\ wk' = [wk EXCEPT ![w] = i]
      /\ UNCHANGED <<store, trace>>
  BY DEF Receive, IInv, StoreOK, WorkersOK, MessageOK
<1>2. msgs[m].receives + 1 \in 0..MaxReceive
  BY <1>1, PipelineConstants DEF Queued
<1>3. q \in Queued /\ MessageOK(q)
  BY <1>1, <1>2 DEF Queued, MessageOK
<1>4. i \in Works /\ i.pc = "job" /\ i.msg = m /\ i.job \in Jobs /\ i.texts = wk[w].texts
  BY <1>1 DEF Works, WorkerPcs
<1>. HIDE DEF q, i
<1>5. WorkOK(i)
  BY <1>1, <1>4 DEF WorkOK
<1>6. WorkersOK'
  BY <1>1, <1>4, <1>5, WorkerMovesOn DEF IInv, trace
<1>7. StoreOK'
  BY <1>1, <1>3 DEF IInv, StoreOK, store, trace, rows, DraftsSigned, ExportIsSigned
<1>. QED
  BY <1>6, <1>7

LEMMA StoreStays ==
    ASSUME StoreOK, UNCHANGED <<store, trace, msgs>>
    PROVE  StoreOK'
BY DEF StoreOK, store, trace, rows, DraftsSigned, ExportIsSigned

LEMMA ReadJobKeeps ==
    ASSUME IInv, NEW w \in Workers, ReadJob(w)
    PROVE  StoreOK' /\ WorkersOK'
<1>. DEFINE i == [wk[w] EXCEPT !.pc = "doc", !.saw = jobs[wk[w].job].status]
<1>1. /\ wk[w] \in Works /\ WorkOK(wk[w]) /\ wk[w].pc = "job" /\ wk[w].job \in Jobs
      /\ wk' = [wk EXCEPT ![w] = i]
      /\ UNCHANGED <<store, trace, msgs>>
  BY DEF ReadJob, IInv, WorkersOK, WorkOK
<1>2. jobs[wk[w].job].status \in JobStatus
  BY <1>1 DEF IInv, StoreOK, JobRows
<1>3. i \in Works /\ i.pc = "doc" /\ i.msg = wk[w].msg /\ i.job = wk[w].job /\ i.texts = wk[w].texts
  BY <1>1, <1>2 DEF Works, WorkerPcs
<1>. HIDE DEF i
<1>4. WorkOK(i)
  BY <1>1, <1>3 DEF WorkOK
<1>5. WorkersOK'
  BY <1>1, <1>3, <1>4, WorkerMovesOn DEF IInv, trace
<1>. QED
  BY <1>1, <1>5, StoreStays DEF IInv

LEMMA ReadDocKeeps ==
    ASSUME IInv, NEW w \in Workers, ReadDoc(w)
    PROVE  StoreOK' /\ WorkersOK'
<1>1. PICK l \in {"chain", "ack", "settle", "claim"} :
         wk' = [wk EXCEPT ![w] = [wk[w] EXCEPT !.pc = l, !.doc = doc]]
  BY DEF ReadDoc
<1>. DEFINE i == [wk[w] EXCEPT !.pc = l, !.doc = doc]
<1>2. /\ wk[w] \in Works /\ WorkOK(wk[w]) /\ wk[w].pc = "doc" /\ doc \in Documents
      /\ UNCHANGED <<store, trace, msgs>>
  BY DEF ReadDoc, IInv, WorkersOK, StoreOK
<1>3. i \in Works /\ i.pc = l /\ i.msg = wk[w].msg /\ i.job = wk[w].job /\ i.texts = wk[w].texts
  BY <1>2 DEF Works, WorkerPcs
<1>4. WorkOK(i)
  BY <1>2, <1>3 DEF WorkOK
<1>5. wk' = [wk EXCEPT ![w] = i]
  BY <1>1
<1>. HIDE DEF i
<1>6. WorkersOK'
  BY <1>2, <1>3, <1>4, <1>5, WorkerMovesOn DEF IInv, trace
<1>. QED
  BY <1>2, <1>6, StoreStays DEF IInv

(* Steps that write the job row. *)
LEMMA JobWritten ==
    ASSUME StoreOK, jobs' \in [Jobs -> JobRows],
           UNCHANGED <<doc, rows, file, trace, msgs>>
    PROVE  StoreOK'
BY DEF StoreOK, trace, rows, DraftsSigned, ExportIsSigned

LEMMA AtWork ==
    ASSUME IInv, NEW w \in Workers, wk[w].pc # "idle"
    PROVE  /\ wk[w] \in Works /\ WorkOK(wk[w]) /\ wk[w].job \in Jobs /\ wk[w].msg \in Messages
           /\ wk[w].doc \in Documents /\ wk[w].todo \subseteq Sections
           /\ wk[w].texts \subseteq Sections \X Texts
           /\ WorkersOK /\ StoreOK /\ jobs \in [Jobs -> JobRows]
BY DEF IInv, WorkersOK, WorkOK, StoreOK, Works

LEMMA SettleKeeps ==
    ASSUME IInv, NEW w \in Workers, Settle(w)
    PROVE  StoreOK' /\ WorkersOK'
<1>1. wk[w].pc # "idle" /\ UNCHANGED <<doc, rows, file, trace, msgs>>
  BY DEF Settle
<1>2. PutJob(wk[w].job, "succeeded") \/ UNCHANGED jobs
  BY DEF Settle
<1>3. jobs' \in [Jobs -> JobRows]
  BY <1>1, <1>2, AtWork, PutJobTyped DEF JobStatus
<1>4. \E l \in {"chain", "ack"} : Goto(w, l)
  BY DEF Settle
<1>5. WorkersOK'
  BY <1>1, <1>4, AtWork, Goes DEF trace, WorkerPcs
<1>. QED
  BY <1>1, <1>3, <1>5, JobWritten DEF IInv

LEMMA ClaimKeeps ==
    ASSUME IInv, NEW w \in Workers, Claim(w)
    PROVE  StoreOK' /\ WorkersOK'
<1>. DEFINE j == wk[w].job
<1>1. wk[w].pc = "claim" /\ UNCHANGED <<doc, rows, file, trace, msgs>>
  BY DEF Claim
<1>2. jobs' = [jobs EXCEPT ![j].status = "running", ![j].lease = wk[w].msg] \/ UNCHANGED jobs
  BY DEF Claim
<1>3. jobs' \in [Jobs -> JobRows]
  BY <1>1, <1>2, AtWork DEF JobRows, JobStatus
<1>4. \E l \in {"refuse", "list", "begin", "ack"} :
         /\ Goto(w, l)
         /\ l = "list" => Kind(j) = "export"
         /\ l = "begin" => Kind(j) # "export"
  BY DEF Claim
<1>5. Kind(j) = "export" => j # "parse"
  BY <1>1, AtWork, Kinds, PipelineConstants DEF Kind
<1>6. Kind(j) # "export" => j \in {"parse", "map", "draft"}
  BY <1>1, AtWork, Kinds
<1>7. WorkersOK'
  BY <1>1, <1>4, <1>5, <1>6, AtWork, Goes DEF trace, WorkerPcs, HoldingPcs
<1>. QED
  BY <1>1, <1>3, <1>7, JobWritten DEF IInv

LEMMA CloseKeeps ==
    ASSUME IInv, NEW w \in Workers, Refuse(w) \/ Close(w) \/ ChainPut(w)
    PROVE  StoreOK' /\ WorkersOK'
<1>1. wk[w].pc # "idle" /\ UNCHANGED <<doc, rows, file, trace, msgs>>
  BY DEF Refuse, Close, ChainPut
<1>2. \E status \in JobStatus : \E j : PutJob(j, status)
  BY DEF Refuse, Close, ChainPut, JobStatus
<1>3. jobs' \in [Jobs -> JobRows]
  BY <1>1, <1>2, AtWork, PutJobTyped
<1>4. \E l \in {"chain", "ack", "chainsend"} : Goto(w, l)
  BY DEF Refuse, Close, ChainPut
<1>5. WorkersOK'
  BY <1>1, <1>4, AtWork, Goes DEF trace, WorkerPcs
<1>. QED
  BY <1>1, <1>3, <1>5, JobWritten DEF IInv

(* The try block. *)
LEMMA BeginKeeps ==
    ASSUME IInv, NEW w \in Workers, Begin(w)
    PROVE  StoreOK' /\ WorkersOK'
<1>. DEFINE kind == Kind(wk[w].job)
            d == Doing(kind, wk[w].doc)
<1>1. /\ wk[w].pc = "begin" /\ wk[w].job \in {"parse", "map", "draft"}
      /\ wk[w] \in Works /\ wk[w].job \in Jobs /\ wk[w].doc \in Documents
      /\ wk[w].msg \in Messages /\ WorkOK(wk[w]) /\ WorkersOK /\ StoreOK
  BY AtWork DEF Begin, WorkOK
<1>2. kind = wk[w].job
  BY <1>1, PipelineConstants DEF Kind
<1>3. d \in Documents
  BY <1>1, <1>2, DocumentSteps DEF StoreOK
<1>4. doc' = d /\ UNCHANGED <<jobs, rows, file, signed, msgs>>
  BY DEF Begin
<1>. HIDE DEF d
<1>5. CASE kind = "parse"
  <2>1. parses < MaxParses /\ parses' = parses + 1 /\ Write(w, d, Orders \X {parses'})
    BY <1>5 DEF Begin, d
  <2>2. parses' \in 1..MaxParses
    BY <1>1, <2>1, PipelineConstants DEF StoreOK
  <2>3. Orders \X {parses'} \in SUBSET Sections
    BY <2>2 DEF Sections
  <2>4. WorkersOK'
    BY <1>1, <1>3, <1>4, <2>1, <2>3, Writes DEF StoreOK
  <2>5. parses' \in 0..MaxParses
    BY <2>2
  <2>6. StoreOK'
    BY <1>1, <1>3, <1>4, <2>5 DEF StoreOK, rows, DraftsSigned, ExportIsSigned
  <2>. QED
    BY <2>4, <2>6
<1>6. CASE kind # "parse"
  <2>. DEFINE i == [wk[w] EXCEPT !.pc = "list", !.doc = d]
  <2>1. wk' = [wk EXCEPT ![w] = i] /\ UNCHANGED parses
    BY <1>6 DEF Begin, d
  <2>2. /\ i \in Works /\ i.pc = "list" /\ i.msg = wk[w].msg /\ i.job = wk[w].job
        /\ i.texts = wk[w].texts
    BY <1>1, <1>3 DEF Works, WorkerPcs, HoldingPcs
  <2>. HIDE DEF i
  <2>3. WorkOK(i)
    BY <1>1, <1>2, <1>6, <2>2 DEF WorkOK
  <2>4. WorkersOK'
    BY <1>1, <1>4, <2>1, <2>2, <2>3, WorkerMovesOn
  <2>5. StoreOK'
    BY <1>1, <1>3, <1>4, <2>1 DEF StoreOK, rows, DraftsSigned, ExportIsSigned
  <2>. QED
    BY <2>4, <2>5
<1>. QED
  BY <1>5, <1>6

LEMMA CurrentTyped ==
    ASSUME StoreOK
    PROVE  CurrentSections \subseteq Sections
<1>1. ASSUME NEW o \in Orders, sec[o] # 0 PROVE sec[o] \in 1..MaxParses
  <2>1. sec[o] \in 0..MaxParses
    BY DEF StoreOK
  <2>. QED
    BY <1>1, <2>1, PipelineConstants
<1>. QED
  BY <1>1 DEF CurrentSections, Sections

LEMMA ListKeeps ==
    ASSUME IInv, NEW w \in Workers, List(w)
    PROVE  StoreOK' /\ WorkersOK'
<1>. DEFINE kind == Kind(wk[w].job)
<1>1. /\ wk[w].pc = "list" /\ wk[w].job # "parse" /\ UNCHANGED <<store, trace, msgs>>
      /\ wk[w] \in Works /\ wk[w].job \in Jobs /\ wk[w].doc \in Documents
      /\ wk[w].msg \in Messages /\ WorkOK(wk[w]) /\ WorkersOK /\ StoreOK
      /\ signed' = signed
  BY AtWork DEF List, WorkOK, trace
<1>2. StoreOK'
  BY <1>1, StoreStays
<1>3. kind \in {"map", "draft", "export"} /\ (kind # "export" => wk[w].job = kind)
  BY <1>1, Kinds
<1>4. CASE kind = "map"
  <2>1. Write(w, wk[w].doc, CurrentSections)
    BY <1>4 DEF List
  <2>. QED
    BY <1>1, <1>2, <1>3, <1>4, <2>1, CurrentTyped, Writes DEF StoreOK
<1>5. CASE kind = "draft"
  <2>. DEFINE i == [wk[w] EXCEPT !.pc = "approved", !.todo = CurrentSections]
  <2>1. wk' = [wk EXCEPT ![w] = i]
    BY <1>5 DEF List
  <2>2. /\ i \in Works /\ i.pc = "approved" /\ i.msg = wk[w].msg /\ i.job = wk[w].job
        /\ i.texts = wk[w].texts
    BY <1>1, CurrentTyped DEF Works, WorkerPcs, HoldingPcs
  <2>. HIDE DEF i
  <2>3. WorkOK(i)
    BY <1>1, <1>3, <1>5, <2>2 DEF WorkOK
  <2>. QED
    BY <1>1, <1>2, <2>1, <2>2, <2>3, WorkerMovesOn
<1>6. CASE kind = "export" /\ AllApproved(drafts)
  <2>. DEFINE listed == {<<s, drafts[s].text>> : s \in Listed(drafts)}
              i == [wk[w] EXCEPT !.pc = "store", !.texts = listed]
  <2>1. wk' = [wk EXCEPT ![w] = i]
    BY <1>6 DEF List
  <2>2. listed \subseteq signed /\ listed \subseteq Sections \X Texts
    BY <1>1, <1>6 DEF StoreOK, DraftsSigned, AllApproved, Listed
  <2>. HIDE DEF listed
  <2>3. /\ i \in Works /\ i.pc = "store" /\ i.msg = wk[w].msg /\ i.job = wk[w].job
        /\ i.texts = listed
    BY <1>1, <2>2 DEF Works, WorkerPcs, HoldingPcs
  <2>. HIDE DEF i
  <2>4. WorkOK(i)
    BY <1>1, <2>2, <2>3 DEF WorkOK
  <2>. QED
    BY <1>1, <1>2, <2>1, <2>3, <2>4, WorkerMovesOn
<1>7. CASE kind = "export" /\ ~AllApproved(drafts)
  <2>1. Goto(w, "undo")
    BY <1>7 DEF List
  <2>. QED
    BY <1>1, <1>2, <2>1, Goes DEF WorkerPcs, HoldingPcs
<1>. QED
  BY <1>3, <1>4, <1>5, <1>6, <1>7

LEMMA ListApprovedKeeps ==
    ASSUME IInv, NEW w \in Workers, ListApproved(w)
    PROVE  StoreOK' /\ WorkersOK'
<1>. DEFINE todo == {s \in wk[w].todo : maps[s].status = "approved"}
<1>1. /\ wk[w].pc = "approved" /\ UNCHANGED <<store, trace, msgs>> /\ Write(w, wk[w].doc, todo)
  BY DEF ListApproved
<1>2. /\ wk[w].job \in {"parse", "map", "draft"} /\ wk[w].job \in Jobs /\ wk[w].msg \in Messages
      /\ wk[w].doc \in Documents /\ todo \in SUBSET Sections /\ WorkersOK /\ StoreOK
  BY <1>1, AtWork DEF WorkOK
<1>. HIDE DEF todo
<1>3. WorkersOK'
  BY <1>1, <1>2, Writes DEF StoreOK, trace
<1>. QED
  BY <1>1, <1>2, <1>3, StoreStays

LEMMA PutRowKeeps ==
    ASSUME IInv, NEW w \in Workers, PutRow(w)
    PROVE  StoreOK' /\ WorkersOK'
<1>. DEFINE proposed == [status |-> "proposed", text |-> "model"]
<1>1. PICK s \in wk[w].todo :
         /\ \/ /\ sec' = [sec EXCEPT ![s[1]] = s[2]] /\ UNCHANGED <<maps, drafts>>
            \/ maps' = [maps EXCEPT ![s] = proposed] /\ UNCHANGED <<sec, drafts>>
            \/ drafts' = [drafts EXCEPT ![s] = proposed] /\ UNCHANGED <<sec, maps>>
         /\ Write(w, wk[w].doc, wk[w].todo \ {s})
  <2>1. wk[w].pc = "rows" /\ wk[w].job \in {"parse", "map", "draft"}
    BY AtWork DEF PutRow, WorkOK
  <2>. QED
    BY <2>1 DEF PutRow
<1>2. /\ wk[w].pc = "rows" /\ UNCHANGED <<doc, jobs, file, trace, msgs>>
      /\ wk[w].job \in {"parse", "map", "draft"} /\ wk[w].job \in Jobs /\ wk[w].msg \in Messages
      /\ wk[w].doc \in Documents /\ wk[w].todo \in SUBSET Sections /\ WorkersOK /\ StoreOK
  BY AtWork DEF PutRow, WorkOK
<1>3. WorkersOK'
  BY <1>1, <1>2, Writes DEF StoreOK, trace
<1>4. s[1] \in Orders /\ s[2] \in 0..MaxParses /\ s \in Sections
  BY <1>2, PipelineConstants DEF Sections
<1>5. proposed \in Rows /\ proposed.status = "proposed"
  BY RowTypes
<1>. HIDE DEF proposed
<1>6. sec' \in [Orders -> 0..MaxParses] /\ maps' \in [Sections -> Rows] /\ drafts' \in [Sections -> Rows]
  BY <1>1, <1>2, <1>4, <1>5 DEF StoreOK
<1>7. DraftsSigned'
  BY <1>1, <1>2, <1>5 DEF StoreOK, DraftsSigned, trace
<1>8. StoreOK'
  BY <1>2, <1>6, <1>7 DEF StoreOK, trace, ExportIsSigned
<1>. QED
  BY <1>3, <1>8

LEMMA StoreFileKeeps ==
    ASSUME IInv, NEW w \in Workers, StoreFile(w)
    PROVE  StoreOK' /\ WorkersOK'
<1>1. /\ wk[w].pc = "store" /\ file' = wk[w].texts /\ Write(w, wk[w].doc, {})
      /\ UNCHANGED <<doc, jobs, rows, trace, msgs>>
  BY DEF StoreFile
<1>2. /\ wk[w].job \in Jobs /\ wk[w].msg \in Messages /\ wk[w].doc \in Documents
      /\ WorkersOK /\ StoreOK /\ wk[w].texts \subseteq signed
  BY <1>1, AtWork DEF WorkOK
<1>3. WorkersOK'
  BY <1>1, <1>2, Writes DEF StoreOK, trace
<1>4. StoreOK'
  BY <1>1, <1>2 DEF StoreOK, rows, trace, DraftsSigned, ExportIsSigned
<1>. QED
  BY <1>3, <1>4

LEMMA DocumentWritten ==
    ASSUME StoreOK, doc' \in Documents, UNCHANGED <<jobs, rows, file, trace, msgs>>
    PROVE  StoreOK'
BY DEF StoreOK, trace, rows, DraftsSigned, ExportIsSigned

LEMMA CommitKeeps ==
    ASSUME IInv, NEW w \in Workers, Commit(w) \/ UndoDoc(w)
    PROVE  StoreOK' /\ WorkersOK'
<1>1. wk[w].pc # "idle" /\ UNCHANGED <<jobs, rows, file, trace, msgs>>
  BY DEF Commit, UndoDoc
<1>2. doc' \in {wk[w].doc, Undone(wk[w].job, wk[w].doc)}
  BY DEF Commit, UndoDoc
<1>3. doc' \in Documents
  BY <1>1, <1>2, AtWork, DocumentSteps
<1>4. \E l \in {"close", "failjob"} : Goto(w, l)
  BY DEF Commit, UndoDoc
<1>5. WorkersOK'
  BY <1>1, <1>4, AtWork, Goes DEF trace, WorkerPcs, HoldingPcs
<1>. QED
  BY <1>1, <1>3, <1>5, DocumentWritten DEF IInv

LEMMA FailJobKeeps ==
    ASSUME IInv, NEW w \in Workers, FailJob(w)
    PROVE  StoreOK' /\ WorkersOK'
<1>1. /\ wk[w].pc # "idle" /\ UNCHANGED <<doc, rows, file, trace, msgs>>
      /\ PutJob(wk[w].job, "failed")
      /\ wk' = [wk EXCEPT ![w] = NoWork] \/ Goto(w, "ack")
  BY DEF FailJob
<1>2. jobs' \in [Jobs -> JobRows]
  BY <1>1, AtWork, PutJobTyped DEF JobStatus
<1>3. WorkersOK'
  BY <1>1, AtWork, Goes, Rests, WorkerMovesOn DEF trace, WorkerPcs
<1>. QED
  BY <1>1, <1>2, <1>3, JobWritten DEF IInv

(* The queue and the failures. *)
LEMMA OtherWorkKeeps ==
    ASSUME IInv, NEW w \in Workers, Fail(w) \/ ChainRead(w) \/ Die(w)
    PROVE  StoreOK' /\ WorkersOK'
<1>1. wk[w].pc # "idle" /\ UNCHANGED <<store, trace, msgs>>
  BY DEF Fail, ChainRead, Die, TryPcs
<1>2. wk' = [wk EXCEPT ![w] = NoWork] \/ \E l \in {"undo", "ack", "chainput", "chainsend"} : Goto(w, l)
  BY DEF Fail, ChainRead, Die
<1>3. WorkersOK'
  BY <1>1, <1>2, AtWork, Goes, Rests, WorkerMovesOn DEF trace, WorkerPcs, HoldingPcs
<1>. QED
  BY <1>1, <1>3, StoreStays DEF IInv

LEMMA QueueWritten ==
    ASSUME StoreOK, msgs' \in [Messages -> Queued], \A m \in Messages : MessageOK(msgs'[m]),
           UNCHANGED <<store, trace>>
    PROVE  StoreOK'
BY DEF StoreOK, store, trace, rows, DraftsSigned, ExportIsSigned

LEMMA NothingQueued ==
    NoMessage \in Queued /\ MessageOK(NoMessage)
BY PipelineConstants DEF NoMessage, Queued, MessageOK

LEMMA AckKeeps ==
    ASSUME IInv, NEW w \in Workers, Ack(w) \/ ChainSend(w)
    PROVE  StoreOK' /\ WorkersOK'
<1>1. wk[w].pc # "idle" /\ UNCHANGED <<store, trace>>
  BY DEF Ack, ChainSend
<1>2. StoreOK /\ msgs \in [Messages -> Queued] /\ \A m \in Messages : MessageOK(msgs[m])
  BY DEF IInv, StoreOK
<1>3. msgs' = [msgs EXCEPT ![wk[w].msg] = NoMessage] \/ Send("map", HeldMessages)
  BY DEF Ack, ChainSend
<1>4. msgs' \in [Messages -> Queued] /\ \A m \in Messages : MessageOK(msgs'[m])
  BY <1>2, <1>3, NothingQueued, SendTyped DEF Jobs
<1>5. wk' = [wk EXCEPT ![w] = NoWork] \/ Goto(w, "ack")
  BY DEF Ack, ChainSend
<1>6. WorkersOK'
  BY <1>1, <1>5, AtWork, Goes, Rests, WorkerMovesOn DEF trace, WorkerPcs
<1>. QED
  BY <1>1, <1>2, <1>4, <1>6, QueueWritten

LEMMA TimeKeeps ==
    ASSUME IInv,
           \/ \E m \in Messages : Reappear(m) \/ Duplicate(m)
           \/ \E j \in Jobs : LeaseExpires(j)
    PROVE  StoreOK' /\ WorkersOK'
<1>1. WorkersOK'
  BY DEF IInv, WorkersOK, WorkOK, Reappear, Duplicate, LeaseExpires, wkvars, trace
<1>2. StoreOK
  BY DEF IInv
<1>3. CASE \E m \in Messages : Reappear(m) \/ Duplicate(m)
  <2>1. PICK m \in Messages, state \in {"visible", "dead"} :
           /\ msgs' = [msgs EXCEPT ![m] = [msgs[m] EXCEPT !.state = state]]
           /\ state = "visible" => msgs[m].receives < MaxReceive
           /\ msgs[m].state = "inflight"
           /\ UNCHANGED <<store, trace>>
    BY <1>3 DEF Reappear, Duplicate
  <2>. DEFINE q == [msgs[m] EXCEPT !.state = state]
  <2>2. q \in Queued /\ MessageOK(q)
    BY <1>2, <2>1 DEF StoreOK, Queued, MessageOK
  <2>. HIDE DEF q
  <2>3. msgs' \in [Messages -> Queued] /\ \A n \in Messages : MessageOK(msgs'[n])
    BY <1>2, <2>1, <2>2 DEF StoreOK, q
  <2>. QED
    BY <1>1, <1>2, <2>1, <2>3, QueueWritten
<1>4. CASE \E j \in Jobs : LeaseExpires(j)
  <2>1. /\ \E j \in Jobs : jobs' = [jobs EXCEPT ![j].lease = "none"]
        /\ UNCHANGED <<doc, rows, file, trace, msgs>>
    BY <1>4 DEF LeaseExpires
  <2>2. jobs' \in [Jobs -> JobRows]
    BY <1>2, <2>1 DEF StoreOK, JobRows
  <2>. QED
    BY <1>1, <1>2, <2>1, <2>2, JobWritten
<1>. QED
  BY <1>3, <1>4

LEMMA WorkerKeeps ==
    ASSUME IInv, NEW w \in Workers, WorkerMoves(w)
    PROVE  StoreOK' /\ WorkersOK'
<1>1. CASE \E m \in Messages : Receive(w, m)
  BY <1>1, ReceiveKeeps
<1>2. CASE Fail(w) \/ Die(w) \/ ChainRead(w)
  BY <1>2, OtherWorkKeeps
<1>3. CASE WorkerStep(w) /\ ~ChainRead(w)
  BY <1>3, ReadJobKeeps, ReadDocKeeps, SettleKeeps, ClaimKeeps, CloseKeeps, BeginKeeps, ListKeeps,
     ListApprovedKeeps, PutRowKeeps, StoreFileKeeps, CommitKeeps, FailJobKeeps, AckKeeps
     DEF WorkerStep
<1>. QED
  BY <1>1, <1>2, <1>3 DEF WorkerMoves, WorkerStep

-----------------------------------------------------------------------------
(* Caller steps *)

LEMMA CallMovesOn ==
    ASSUME CallersOK, NEW c \in Callers, NEW r \in Asked, CallOK(r),
           call' = [call EXCEPT ![c] = r]
    PROVE  CallersOK'
BY DEF CallersOK, CallOK

LEMMA NoCallOK ==
    NoCall \in Asked /\ CallOK(NoCall)
BY DocumentTypes, RowTypes DEF NoCall, Asked, AllOps, CallPcs, NoSection, CallOK, RowOps

LEMMA AtCall ==
    ASSUME IInv, NEW c \in Callers, call[c].pc # "idle"
    PROVE  /\ call[c] \in Asked /\ CallOK(call[c]) /\ call[c].op \in AllOps
           /\ call[c].doc \in Documents /\ call[c].copy \in [Sections -> Rows]
           /\ call[c].todo \subseteq Sections
           /\ call[c].op \in RowOps => call[c].sec \in Sections
           /\ CallersOK /\ StoreOK /\ WorkersOK
BY DEF IInv, CallersOK, CallOK, Asked

LEMMA Steps ==
    ASSUME IInv, NEW c \in Callers, NEW l \in CallPcs, Step(c, l), call[c].pc # "idle",
           l = "row" => call[c].op \in RowOps,
           l = "cas" => call[c].op # "edit_mapping",
           l \in {"cas", "jobput", "send", "undo", "undojob"} /\ call[c].op = "export"
               => call[c].job \in Exports
    PROVE  CallersOK'
<1>. DEFINE r == [call[c] EXCEPT !.pc = l]
<1>1. call[c] \in Asked /\ CallOK(call[c]) /\ CallersOK
  BY AtCall
<1>2. /\ r \in Asked /\ r.pc = l /\ r.op = call[c].op /\ r.sec = call[c].sec
      /\ r.job = call[c].job
  BY <1>1 DEF Asked
<1>3. call' = [call EXCEPT ![c] = NoCall] \/ call' = [call EXCEPT ![c] = r]
  BY DEF Step
<1>. HIDE DEF r
<1>4. CallOK(r)
  BY <1>1, <1>2 DEF CallOK
<1>. QED
  BY <1>1, <1>2, <1>3, <1>4, NoCallOK, CallMovesOn

LEMMA WorkersStay ==
    ASSUME WorkersOK, UNCHANGED wkvars, signed \subseteq signed'
    PROVE  WorkersOK'
BY DEF WorkersOK, WorkOK, wkvars

LEMMA NewCallKeeps ==
    ASSUME IInv, NEW c \in Callers, NewCall(c)
    PROVE  IInv'
<1>1. PICK op \in Ops, s \in Sections \cup {NoSection} :
         /\ op \in RowOps => s \in Sections
         /\ call' = [call EXCEPT ![c] = [NoCall EXCEPT !.op = op, !.pc = "read", !.sec = s]]
  BY DEF NewCall, Listed
<1>. DEFINE r == [NoCall EXCEPT !.op = op, !.pc = "read", !.sec = s]
<1>2. op \in AllOps
  BY PipelineBounds
<1>3. r \in Asked /\ r.op = op /\ r.pc = "read" /\ r.sec = s
  BY <1>2, NoCallOK, RowTypes, DocumentTypes DEF NoCall, Asked, CallPcs
<1>4. call' = [call EXCEPT ![c] = r]
  BY <1>1
<1>. HIDE DEF r
<1>5. CallOK(r)
  BY <1>1, <1>2, <1>3 DEF CallOK
<1>6. CallersOK'
  BY <1>3, <1>4, <1>5, CallMovesOn DEF IInv
<1>. QED
  BY <1>6, StoreStays, WorkersStay DEF IInv, NewCall, trace

LEMMA ReadsKeep ==
    ASSUME IInv, NEW c \in Callers, ReadDocument(c) \/ ReadRow(c)
    PROVE  IInv'
<1>1. /\ call[c].pc # "idle" /\ UNCHANGED <<store, trace, msgs, wkvars>>
      /\ call[c] \in Asked /\ CallOK(call[c]) /\ call[c].op \in AllOps
      /\ CallersOK /\ StoreOK /\ WorkersOK /\ doc \in Documents
      /\ maps \in [Sections -> Rows] /\ drafts \in [Sections -> Rows]
  BY AtCall DEF ReadDocument, ReadRow, StoreOK
<1>2. CASE ReadDocument(c)
  <2>. DEFINE l == AfterRead(call[c].op, doc)
              r == [call[c] EXCEPT !.pc = l, !.doc = doc]
  <2>1. Step(c, "idle") \/ call' = [call EXCEPT ![c] = r]
    BY <1>2 DEF ReadDocument
  <2>2. /\ l \in {"cas", "row", "list", "jobread"}
        /\ l = "cas" => call[c].op = "parse"
        /\ l = "row" => call[c].op \in RowOps
    BY <1>1 DEF AfterRead, AllOps, RowOps
  <2>. HIDE DEF l
  <2>3. r \in Asked /\ r.pc = l /\ r.op = call[c].op /\ r.sec = call[c].sec /\ r.job = call[c].job
    BY <1>1, <2>2 DEF Asked, CallPcs
  <2>. HIDE DEF r
  <2>4. CallOK(r)
    BY <1>1, <2>2, <2>3 DEF CallOK
  <2>5. CallersOK'
    BY <1>1, <2>1, <2>3, <2>4, CallMovesOn, Steps DEF CallPcs
  <2>. QED
    BY <1>1, <2>5, StoreStays, WorkersStay DEF IInv, trace
<1>3. CASE ReadRow(c)
  <2>. DEFINE l == IF call[c].op = "edit_draft" THEN "cas" ELSE "put"
              row == Table(call[c].op)[call[c].sec]
              copy == [call[c].copy EXCEPT ![call[c].sec] = row]
              r == [call[c] EXCEPT !.pc = l, !.copy = copy]
  <2>1. call[c].sec \in Sections
    BY <1>1, <1>3 DEF ReadRow, CallOK
  <2>2. row \in Rows
    BY <1>1, <2>1 DEF Table
  <2>3. copy \in [Sections -> Rows]
    BY <1>1, <2>2 DEF Asked
  <2>4. call' = [call EXCEPT ![c] = r]
    BY <1>3 DEF ReadRow
  <2>5. l \in {"cas", "put"} /\ (l = "cas" => call[c].op = "edit_draft")
    OBVIOUS
  <2>. HIDE DEF l, copy
  <2>6. r \in Asked /\ r.pc = l /\ r.op = call[c].op /\ r.sec = call[c].sec /\ r.job = call[c].job
    BY <1>1, <2>3, <2>5 DEF Asked, CallPcs
  <2>. HIDE DEF r
  <2>7. CallOK(r)
    BY <1>1, <2>5, <2>6 DEF CallOK
  <2>8. CallersOK'
    BY <1>1, <2>4, <2>6, <2>7, CallMovesOn
  <2>. QED
    BY <1>1, <2>8, StoreStays, WorkersStay DEF IInv, trace
<1>. QED
  BY <1>2, <1>3

LEMMA ListRowsKeeps ==
    ASSUME IInv, NEW c \in Callers, ListRows(c)
    PROVE  IInv'
<1>1. /\ call[c].pc = "list" /\ UNCHANGED <<store, trace, msgs, wkvars>>
      /\ call[c] \in Asked /\ CallOK(call[c]) /\ CallersOK /\ StoreOK /\ WorkersOK
      /\ maps \in [Sections -> Rows]
  BY AtCall DEF ListRows, StoreOK
<1>2. ASSUME call' = [call EXCEPT ![c].pc = "put", ![c].copy = maps, ![c].todo = Listed(maps)]
      PROVE  CallersOK'
  <2>. DEFINE r == [call[c] EXCEPT !.pc = "put", !.copy = maps, !.todo = Listed(maps)]
  <2>1. Listed(maps) \subseteq Sections
    BY DEF Listed
  <2>2. /\ r \in Asked /\ r.pc = "put" /\ r.op = call[c].op /\ r.sec = call[c].sec
        /\ r.job = call[c].job
    BY <1>1, <2>1 DEF Asked, CallPcs
  <2>3. call' = [call EXCEPT ![c] = r]
    BY <1>2
  <2>. HIDE DEF r
  <2>4. CallOK(r)
    BY <1>1, <2>2 DEF CallOK
  <2>. QED
    BY <1>1, <2>2, <2>3, <2>4, CallMovesOn
<1>3. ASSUME call[c].op = "export",
             \E x \in Exports : call' = [call EXCEPT ![c].pc = "cas", ![c].job = x]
      PROVE  CallersOK'
  <2>1. PICK x \in Exports : call' = [call EXCEPT ![c] = [call[c] EXCEPT !.pc = "cas", !.job = x]]
    BY <1>3
  <2>. DEFINE r == [call[c] EXCEPT !.pc = "cas", !.job = x]
  <2>2. /\ r \in Asked /\ r.pc = "cas" /\ r.op = call[c].op /\ r.sec = call[c].sec
        /\ r.job = x
    BY <1>1 DEF Asked, CallPcs
  <2>3. call' = [call EXCEPT ![c] = r]
    BY <2>1
  <2>. HIDE DEF r
  <2>4. CallOK(r)
    BY <1>1, <1>3, <2>2 DEF CallOK
  <2>. QED
    BY <1>1, <2>2, <2>3, <2>4, CallMovesOn
<1>4. ASSUME Step(c, "idle") \/ (call[c].op = "approve_draft" /\ Step(c, "cas"))
      PROVE  CallersOK'
  BY <1>1, <1>4, Steps DEF CallPcs
<1>5. CallersOK'
  BY <1>2, <1>3, <1>4 DEF ListRows
<1>. QED
  BY <1>1, <1>5, StoreStays, WorkersStay DEF IInv, trace

LEMMA PutMappingKeeps ==
    ASSUME IInv, NEW c \in Callers, PutMapping(c)
    PROVE  IInv'
<1>1. /\ call[c].pc = "put"
      /\ UNCHANGED <<doc, jobs, sec, drafts, file, trace, msgs, wkvars>>
      /\ call[c] \in Asked /\ CallOK(call[c]) /\ CallersOK /\ StoreOK /\ WorkersOK
      /\ call[c].copy \in [Sections -> Rows] /\ call[c].todo \subseteq Sections
  BY AtCall DEF PutMapping, At
<1>2. PICK e, row : maps' = [maps EXCEPT ![e] = row] /\ (e \in Sections => row \in Rows)
  <2>1. Edit(c) \in Rows
    BY RowTypes DEF Edit, Texts
  <2>2. \A s \in call[c].todo : Approve(c, s) \in Rows
    BY <1>1, RowTypes DEF Approve
  <2>. QED
    BY <2>1, <2>2 DEF PutMapping
<1>3. maps' \in [Sections -> Rows]
  BY <1>1, <1>2 DEF StoreOK
<1>4. StoreOK'
  BY <1>1, <1>3 DEF StoreOK, trace, DraftsSigned, ExportIsSigned
<1>5. ASSUME Step(c, "idle") PROVE CallersOK'
  BY <1>1, <1>5, Steps DEF CallPcs
<1>6. ASSUME call[c].op = "approve_mappings",
             \E s \in call[c].todo, l \in {"cas", "put"} :
                call' = [call EXCEPT ![c] = [call[c] EXCEPT !.todo = @ \ {s}, !.pc = l]]
      PROVE  CallersOK'
  <2>1. PICK todo \in SUBSET Sections, l \in {"cas", "put"} :
          call' = [call EXCEPT ![c] = [call[c] EXCEPT !.todo = todo, !.pc = l]]
    BY <1>1, <1>6
  <2>. DEFINE r == [call[c] EXCEPT !.todo = todo, !.pc = l]
  <2>2. r \in Asked /\ r.pc = l /\ r.op = call[c].op /\ r.sec = call[c].sec /\ r.job = call[c].job
    BY <1>1 DEF Asked, CallPcs
  <2>3. call' = [call EXCEPT ![c] = r]
    BY <2>1
  <2>. HIDE DEF r
  <2>4. CallOK(r)
    BY <1>1, <1>6, <2>2 DEF CallOK
  <2>. QED
    BY <1>1, <2>2, <2>3, <2>4, CallMovesOn
<1>7. CallersOK'
  BY <1>5, <1>6 DEF PutMapping, At
<1>. QED
  BY <1>1, <1>4, <1>7, WorkersStay DEF IInv, trace

LEMMA PutDraftKeeps ==
    ASSUME IInv, NEW c \in Callers, PutDraft(c)
    PROVE  IInv'
<1>. DEFINE s == call[c].sec
            text == call[c].copy[s].text
<1>1. /\ call[c].pc = "put" /\ call[c].op \in RowOps
      /\ UNCHANGED <<doc, jobs, sec, maps, file, parses, msgs, wkvars>>
      /\ call[c] \in Asked /\ CallOK(call[c]) /\ StoreOK /\ WorkersOK
      /\ call[c].copy \in [Sections -> Rows] /\ s \in Sections
  BY AtCall DEF PutDraft, At, RowOps
<1>2. text \in Texts /\ c \in Texts
  BY <1>1, RowTypes DEF Texts
<1>3. \/ /\ drafts' = [drafts EXCEPT ![s] = Edit(c)] /\ signed' = signed
      \/ /\ drafts' = [drafts EXCEPT ![s] = Approve(c, s)]
         /\ signed' = signed \cup {<<s, text>>}
  BY DEF PutDraft
<1>4. Edit(c) \in Rows /\ Approve(c, s) \in Rows
      /\ Edit(c).status = "edited" /\ Approve(c, s).text = text
  BY <1>2, RowTypes DEF Edit, Approve
<1>. HIDE DEF text
<1>5. drafts' \in [Sections -> Rows] /\ signed' \subseteq Sections \X Texts /\ signed \subseteq signed'
  BY <1>1, <1>2, <1>3, <1>4 DEF StoreOK
<1>6. DraftsSigned'
  BY <1>1, <1>3, <1>4 DEF StoreOK, DraftsSigned
<1>7. StoreOK'
  BY <1>1, <1>5, <1>6 DEF StoreOK, ExportIsSigned
<1>8. Step(c, "idle") \/ Step(c, "list")
  BY DEF PutDraft
<1>9. CallersOK'
  BY <1>1, <1>8, Steps DEF CallPcs
<1>. QED
  BY <1>1, <1>5, <1>7, <1>9, WorkersStay DEF IInv

LEMMA NewDocumentTyped ==
    ASSUME NEW c, call[c].doc \in Documents, call[c].op \in AllOps \ {"edit_mapping"},
           call[c].op = "export" => call[c].job \in Exports
    PROVE  NewDocument(c) \in Documents
<1>. DEFINE d == call[c].doc
            j == call[c].job
<1>1. d \in Documents
  OBVIOUS
<1>. HIDE DEF d, j
<1>2. /\ [d EXCEPT !.status = "parsing", !.failure = "none", !.active = "parse"] \in Documents
      /\ [d EXCEPT !.status = "mapping_approved"] \in Documents
      /\ [d EXCEPT !.status = "drafted", !.failure = "none", !.active = "none",
                   !.exported = FALSE] \in Documents
      /\ [d EXCEPT !.status = "review_approved", !.failure = "none",
                   !.exported = FALSE] \in Documents
      /\ j \in Exports =>
           [d EXCEPT !.status = "exporting", !.failure = "none", !.active = j] \in Documents
  BY <1>1 DEF Documents, DocumentStatus, Stages, Jobs
<1>. QED
  BY <1>2 DEF NewDocument, AllOps, d, j

LEMMA PutDocumentKeeps ==
    ASSUME IInv, NEW c \in Callers, PutDocument(c)
    PROVE  IInv'
<1>1. /\ call[c].pc = "cas" /\ UNCHANGED <<jobs, rows, file, trace, msgs, wkvars>>
      /\ call[c] \in Asked /\ CallOK(call[c]) /\ CallersOK /\ StoreOK /\ WorkersOK
      /\ call[c].doc \in Documents /\ call[c].op \in AllOps \ {"edit_mapping"}
      /\ call[c].op = "export" => call[c].job \in Exports
  BY AtCall DEF PutDocument, CallOK
<1>2. doc' \in Documents
  BY <1>1, NewDocumentTyped DEF PutDocument, StoreOK
<1>3. \E l \in {"jobput", "jobread", "put", "idle", "latest"} : Step(c, l)
  BY <1>1 DEF PutDocument, AfterCas, AllOps
<1>4. CallersOK'
  BY <1>1, <1>3, Steps DEF CallPcs
<1>. QED
  BY <1>1, <1>2, <1>4, DocumentWritten, WorkersStay DEF IInv, trace

LEMMA RestoreKeeps ==
    ASSUME IInv, NEW c \in Callers, RestoreDocument(c)
    PROVE  IInv'
<1>1. /\ call[c].pc = "undo" /\ UNCHANGED <<jobs, rows, file, trace, msgs, wkvars>>
      /\ call[c] \in Asked /\ CallOK(call[c]) /\ CallersOK /\ StoreOK /\ WorkersOK
      /\ call[c].doc \in Documents
  BY AtCall DEF RestoreDocument
<1>2. doc' \in Documents
  <2>. DEFINE d == call[c].doc
  <2>1. doc' \in {[d EXCEPT !.active = "none"], [d EXCEPT !.active = "none", !.failure = "none"]}
    BY DEF RestoreDocument
  <2>2. d \in Documents
    BY <1>1
  <2>. HIDE DEF d
  <2>. QED
    BY <2>1, <2>2 DEF Documents, Stages
<1>3. CallersOK'
  BY <1>1, Steps DEF RestoreDocument, CallPcs, CallOK
<1>. QED
  BY <1>1, <1>2, <1>3, DocumentWritten, WorkersStay DEF IInv, trace

LEMMA JobStepsKeep ==
    ASSUME IInv, NEW c \in Callers, PutNewJob(c) \/ FailNewJob(c)
    PROVE  IInv'
<1>1. /\ call[c].pc \in {"jobput", "undojob"} /\ UNCHANGED <<doc, rows, file, trace, msgs, wkvars>>
      /\ call[c] \in Asked /\ CallOK(call[c]) /\ CallersOK /\ StoreOK /\ WorkersOK
      /\ call[c].doc.status \in DocumentStatus
  BY AtCall, DocumentTypes DEF PutNewJob, FailNewJob
<1>2. \A status \in JobStatus : NewJob(c, status) \in JobRows
  BY <1>1 DEF NewJob, JobRows, DocumentStatus
<1>3. \E status \in JobStatus : jobs' = [jobs EXCEPT ![JobOf(c)] = NewJob(c, status)]
  BY DEF PutNewJob, FailNewJob, JobStatus
<1>4. jobs' \in [Jobs -> JobRows]
  BY <1>1, <1>2, <1>3 DEF StoreOK
<1>5. Step(c, "send") \/ Step(c, "idle")
  BY DEF PutNewJob, FailNewJob
<1>6. CallersOK'
  BY <1>1, <1>5, Steps DEF CallPcs, CallOK
<1>. QED
  BY <1>1, <1>4, <1>6, JobWritten, WorkersStay DEF IInv, trace

LEMMA SendsKeep ==
    ASSUME IInv, NEW c \in Callers, SendMessage(c) \/ EnqueueFails(c)
    PROVE  IInv'
<1>1. /\ call[c].pc \in {"jobput", "send"} /\ UNCHANGED <<store, trace, wkvars>>
      /\ call[c] \in Asked /\ CallOK(call[c]) /\ CallersOK /\ StoreOK /\ WorkersOK
  BY AtCall DEF SendMessage, EnqueueFails
<1>2. JobOf(c) \in Jobs
  BY <1>1 DEF JobOf, Jobs, CallOK
<1>3. Send(JobOf(c), HeldMessages) \/ UNCHANGED msgs
  BY DEF SendMessage, EnqueueFails
<1>4. msgs' \in [Messages -> Queued] /\ \A m \in Messages : MessageOK(msgs'[m])
  BY <1>1, <1>2, <1>3, SendTyped DEF StoreOK
<1>5. Step(c, "idle") \/ Step(c, "undo")
  BY DEF SendMessage, EnqueueFails
<1>6. CallersOK'
  BY <1>1, <1>5, Steps DEF CallPcs, CallOK
<1>. QED
  BY <1>1, <1>4, <1>6, QueueWritten, WorkersStay DEF IInv, trace

LEMMA OtherCallsKeep ==
    ASSUME IInv, NEW c \in Callers, ReadLatest(c) \/ ReadDraftJob(c) \/ CallDies(c)
    PROVE  IInv'
<1>1. /\ UNCHANGED <<store, trace, msgs, wkvars>> /\ CallersOK /\ StoreOK /\ WorkersOK
  BY DEF IInv, ReadLatest, ReadDraftJob, CallDies
<1>2. CASE ReadLatest(c) \/ ReadDraftJob(c)
  <2>1. call[c].pc # "idle" /\ call[c].op = "approve_mappings"
    BY <1>2 DEF ReadLatest, ReadDraftJob, At
  <2>2. \E l \in {"jobread", "idle", "jobput", "send"} : Step(c, l)
    BY <1>2 DEF ReadLatest, ReadDraftJob
  <2>. QED
    BY <1>1, <2>1, <2>2, Steps, StoreStays, WorkersStay DEF IInv, trace, CallPcs
<1>3. CASE CallDies(c)
  <2>1. call' = [call EXCEPT ![c] = NoCall]
    BY <1>3 DEF CallDies, Step
  <2>. QED
    BY <1>1, <2>1, NoCallOK, CallMovesOn, StoreStays, WorkersStay DEF IInv, trace
<1>. QED
  BY <1>2, <1>3

LEMMA CallerKeeps ==
    ASSUME IInv, NEW c \in Callers, CallerMoves(c)
    PROVE  IInv'
BY NewCallKeeps, ReadsKeep, ListRowsKeeps, PutMappingKeeps, PutDraftKeeps, PutDocumentKeeps,
   RestoreKeeps, JobStepsKeep, SendsKeep, OtherCallsKeep
   DEF CallerMoves, CallStep

-----------------------------------------------------------------------------
(* The invariant holds *)

LEMMA InitIInv == Init => IInv
<1>. SUFFICES ASSUME Init PROVE IInv
  OBVIOUS
<1>1. PICK a \in Scenarios : StoreInit(a.start)
  BY DEF Init
<1>2. a.start \in Begun
  BY PipelineBounds
<1>3. Cardinality(Orders) \in Nat
  BY PipelineConstants, FS_CardinalityType
<1>4. doc \in Documents
  BY <1>1, <1>2, <1>3 DEF StoreInit, Begun, Documents, DocumentStatus, Stages
<1>5. NoJob \in JobRows /\ \A status \in JobStatus : [NoJob EXCEPT !.status = status] \in JobRows
  BY DEF NoJob, JobRows, JobStatus, DocumentStatus
<1>6. jobs \in [Jobs -> JobRows]
  BY <1>1, <1>5 DEF StoreInit, JobStatus
<1>7. msgs \in [Messages -> Queued] /\ \A m \in Messages : MessageOK(msgs[m])
  BY <1>1, NothingQueued DEF StoreInit
<1>8. FirstRows \in [Sections -> Rows] /\ \A s \in Sections : FirstRows[s].status # "approved"
  BY RowTypes DEF FirstRows, NoRow
<1>9. Reviewed(FirstRows, "approved") \in [Sections -> Rows]
  BY <1>8 DEF Reviewed, Rows
<1>10. maps \in [Sections -> Rows] /\ drafts \in {FirstRows, NoRows}
  BY <1>1, <1>8, <1>9, RowTypes DEF StoreInit
<1>11. drafts \in [Sections -> Rows] /\ DraftsSigned
  BY <1>8, <1>10, RowTypes DEF DraftsSigned, NoRows, NoRow
<1>12. sec \in [Orders -> 0..MaxParses] /\ parses \in 0..MaxParses /\ file = {} /\ signed = {}
  BY <1>1, PipelineConstants DEF StoreInit
<1>13. StoreOK
  BY <1>4, <1>6, <1>7, <1>10, <1>11, <1>12 DEF StoreOK, ExportIsSigned
<1>14. WorkersOK
  BY Rests, <1>12 DEF Init, WorkersOK
<1>15. CallersOK
  BY NoCallOK DEF Init, CallersOK
<1>. QED
  BY <1>13, <1>14, <1>15 DEF IInv

LEMMA NextIInv == IInv /\ [Next]_vars => IInv'
<1>. SUFFICES ASSUME IInv, [Next]_vars PROVE IInv'
  OBVIOUS
<1>1. UNCHANGED apivars => CallersOK'
  BY DEF IInv, CallersOK, apivars
<1>2. CASE (\E w \in Workers : WorkerMoves(w)) /\ UNCHANGED apivars
  BY <1>1, <1>2, WorkerKeeps DEF IInv
<1>3. CASE /\ \/ \E m \in Messages : Reappear(m) \/ Duplicate(m)
              \/ \E j \in Jobs : LeaseExpires(j)
           /\ UNCHANGED apivars
  BY <1>1, <1>3, TimeKeeps DEF IInv
<1>4. CASE \E c \in Callers : CallerMoves(c)
  BY <1>4, CallerKeeps
<1>5. CASE UNCHANGED vars
  BY <1>1, <1>5, StoreStays, WorkersStay DEF IInv, vars, trace
<1>. QED
  BY <1>2, <1>3, <1>4, <1>5 DEF Next

LEMMA Invariant == Spec => []IInv
<1>. QED
  BY InitIInv, NextIInv, PTL DEF Spec

(* Every row, message, invocation and request keeps its type, and no        *)
(* message is received more often than the redrive policy allows.           *)
THEOREM TypeCorrect == Spec => []TypeOK
<1>1. IInv => TypeOK
  BY DEF IInv, StoreOK, WorkersOK, CallersOK, Works, Asked, TypeOK, ExportIsSigned
<1>. QED
  BY <1>1, Invariant, PTL

(* Only wording that a caller approved reaches the exported file: the       *)
(* exporter lists the drafts again and checks them (run_export_job).        *)
THEOREM ExportSigned == Spec => []ExportIsSigned
<1>1. IInv => ExportIsSigned
  BY DEF IInv, StoreOK
<1>. QED
  BY <1>1, Invariant, PTL

-----------------------------------------------------------------------------
(* One step, field by field *)

(* All that a step of w changes in the workers is where w is and what it holds. *)
Became(w, l, d, todo, texts) ==
    /\ wk'[w].pc = l
    /\ wk'[w].msg = wk[w].msg
    /\ wk'[w].job = wk[w].job
    /\ wk'[w].doc = d
    /\ wk'[w].todo = todo
    /\ wk'[w].texts = texts
    /\ \A v \in Workers \ {w} : wk'[v] = wk[v]

LEMMA GoesTo ==
    ASSUME IInv, NEW w \in Workers, NEW l, Goto(w, l)
    PROVE  /\ Became(w, l, wk[w].doc, wk[w].todo, wk[w].texts)
           /\ wk'[w].saw = wk[w].saw
<1>1. wk[w] \in Works /\ DOMAIN wk = Workers /\ wk \in [Workers -> Works]
  BY DEF IInv, WorkersOK
<1>. DEFINE i == [wk[w] EXCEPT !.pc = l]
<1>2. wk' = [wk EXCEPT ![w] = i]
  BY DEF Goto
<1>3. /\ i.pc = l /\ i.msg = wk[w].msg /\ i.job = wk[w].job /\ i.doc = wk[w].doc
      /\ i.todo = wk[w].todo /\ i.texts = wk[w].texts /\ i.saw = wk[w].saw
  BY <1>1 DEF Works
<1>. HIDE DEF i
<1>. QED
  BY <1>1, <1>2, <1>3 DEF Became

LEMMA WritesTo ==
    ASSUME IInv, NEW w \in Workers, NEW d, NEW todo, Write(w, d, todo)
    PROVE  Became(w, IF todo = {} THEN "commit" ELSE "rows",
                  IF todo = {} THEN Done(Kind(wk[w].job), d) ELSE d, todo, wk[w].texts)
<1>1. wk[w] \in Works /\ DOMAIN wk = Workers /\ wk \in [Workers -> Works]
  BY DEF IInv, WorkersOK
<1>. DEFINE l == IF todo = {} THEN "commit" ELSE "rows"
            e == IF todo = {} THEN Done(Kind(wk[w].job), d) ELSE d
            i == [wk[w] EXCEPT !.todo = todo, !.pc = l, !.doc = e]
<1>2. wk' = [wk EXCEPT ![w] = i]
  BY DEF Write
<1>. HIDE DEF l, e
<1>3. /\ i.pc = l /\ i.msg = wk[w].msg /\ i.job = wk[w].job /\ i.doc = e
      /\ i.todo = todo /\ i.texts = wk[w].texts
  BY <1>1 DEF Works
<1>. HIDE DEF i
<1>4. Became(w, l, e, todo, wk[w].texts)
  BY <1>1, <1>2, <1>3 DEF Became
<1>. QED
  BY <1>4 DEF l, e

LEMMA Reading ==
    ASSUME IInv, NEW w \in Workers
    PROVE  /\ \A m \in Messages : Receive(w, m) =>
                /\ wk[w] = NoWork
                /\ wk'[w] = [NoWork EXCEPT !.pc = "job", !.msg = m, !.job = msgs[m].job]
                /\ \A v \in Workers \ {w} : wk'[v] = wk[v]
           /\ ReadJob(w) =>
                /\ Became(w, "doc", wk[w].doc, wk[w].todo, wk[w].texts)
                /\ wk'[w].saw = jobs[wk[w].job].status
           /\ ReadDoc(w) =>
                \E l \in {"chain", "ack", "settle", "claim"} :
                    /\ Became(w, l, doc, wk[w].todo, wk[w].texts)
                    /\ wk'[w].saw = wk[w].saw
                    /\ l = "chain" => /\ Kind(wk[w].job) = "parse" /\ doc.status = "parsed"
                                      /\ wk[w].saw = "succeeded"
                    /\ l \in {"settle", "claim"} <=> wk[w].saw # "succeeded"
                    /\ l = "settle" => doc.status \in Past(Kind(wk[w].job))
                    /\ l = "claim" =>
                         ~(doc.status \in Past(Kind(wk[w].job))
                           /\ (Kind(wk[w].job) = "export" => doc.exported))
<1>1. wk[w] \in Works /\ DOMAIN wk = Workers /\ wk \in [Workers -> Works]
  BY DEF IInv, WorkersOK
<1>2. ASSUME NEW m \in Messages, Receive(w, m)
      PROVE  /\ wk[w] = NoWork
             /\ wk'[w] = [NoWork EXCEPT !.pc = "job", !.msg = m, !.job = msgs[m].job]
             /\ \A v \in Workers \ {w} : wk'[v] = wk[v]
  BY <1>1, <1>2 DEF Receive
<1>3. ASSUME ReadJob(w)
      PROVE  /\ Became(w, "doc", wk[w].doc, wk[w].todo, wk[w].texts)
             /\ wk'[w].saw = jobs[wk[w].job].status
  <2>. DEFINE saw == jobs[wk[w].job].status
              i == [wk[w] EXCEPT !.pc = "doc", !.saw = saw]
  <2>1. wk' = [wk EXCEPT ![w] = i]
    BY <1>3 DEF ReadJob
  <2>. HIDE DEF saw
  <2>2. /\ i.pc = "doc" /\ i.msg = wk[w].msg /\ i.job = wk[w].job /\ i.doc = wk[w].doc
        /\ i.todo = wk[w].todo /\ i.texts = wk[w].texts /\ i.saw = saw
    BY <1>1 DEF Works
  <2>. HIDE DEF i
  <2>. QED
    BY <1>1, <2>1, <2>2 DEF Became, saw
<1>4. ASSUME ReadDoc(w), NEW l, NEW i, i = [wk[w] EXCEPT !.pc = l, !.doc = doc],
             wk' = [wk EXCEPT ![w] = i]
      PROVE  Became(w, l, doc, wk[w].todo, wk[w].texts) /\ wk'[w].saw = wk[w].saw
  <2>1. /\ i.pc = l /\ i.msg = wk[w].msg /\ i.job = wk[w].job /\ i.doc = doc
        /\ i.todo = wk[w].todo /\ i.texts = wk[w].texts /\ i.saw = wk[w].saw
    BY <1>1, <1>4 DEF Works
  <2>. QED
    BY <1>1, <1>4, <2>1 DEF Became
<1>5. ASSUME ReadDoc(w)
      PROVE  \E l \in {"chain", "ack", "settle", "claim"} :
                /\ wk' = [wk EXCEPT ![w] = [wk[w] EXCEPT !.pc = l, !.doc = doc]]
                /\ l = "chain" => /\ Kind(wk[w].job) = "parse" /\ doc.status = "parsed"
                                  /\ wk[w].saw = "succeeded"
                /\ l \in {"settle", "claim"} <=> wk[w].saw # "succeeded"
                /\ l = "settle" => doc.status \in Past(Kind(wk[w].job))
                /\ l = "claim" =>
                     ~(doc.status \in Past(Kind(wk[w].job))
                       /\ (Kind(wk[w].job) = "export" => doc.exported))
  BY <1>5 DEF ReadDoc
<1>. QED
  BY <1>2, <1>3, <1>4, <1>5

LEMMA Working ==
    ASSUME IInv, NEW w \in Workers
    PROVE  /\ Begin(w) =>
                LET kind == Kind(wk[w].job)
                    d == Doing(kind, wk[w].doc)
                IN  \/ /\ kind = "parse"
                       /\ Write(w, d, Orders \X {parses'})
                    \/ /\ kind # "parse"
                       /\ Became(w, "list", d, wk[w].todo, wk[w].texts)
           /\ List(w) =>
                LET kind == Kind(wk[w].job)
                    listed == {<<s, drafts[s].text>> : s \in Listed(drafts)}
                IN  \/ kind = "map" /\ Write(w, wk[w].doc, CurrentSections)
                    \/ /\ kind = "draft"
                       /\ Became(w, "approved", wk[w].doc, CurrentSections, wk[w].texts)
                    \/ /\ kind = "export" /\ AllApproved(drafts)
                       /\ Became(w, "store", wk[w].doc, wk[w].todo, listed)
                    \/ /\ kind = "export" /\ ~AllApproved(drafts)
                       /\ Goto(w, "undo")
<1>1. wk[w] \in Works /\ DOMAIN wk = Workers /\ wk \in [Workers -> Works]
  BY DEF IInv, WorkersOK
<1>2. ASSUME NEW l, NEW d, NEW todo, NEW texts,
             wk' = [wk EXCEPT ![w] = [wk[w] EXCEPT !.pc = l, !.doc = d, !.todo = todo,
                                                    !.texts = texts]]
      PROVE  Became(w, l, d, todo, texts)
  <2>. DEFINE i == [wk[w] EXCEPT !.pc = l, !.doc = d, !.todo = todo, !.texts = texts]
  <2>1. /\ i.pc = l /\ i.msg = wk[w].msg /\ i.job = wk[w].job /\ i.doc = d
        /\ i.todo = todo /\ i.texts = texts
    BY <1>1 DEF Works
  <2>2. wk' = [wk EXCEPT ![w] = i]
    BY <1>2
  <2>. HIDE DEF i
  <2>. QED
    BY <1>1, <2>1, <2>2 DEF Became
<1>. DEFINE kind == Kind(wk[w].job)
            d == Doing(kind, wk[w].doc)
            listed == {<<s, drafts[s].text>> : s \in Listed(drafts)}
<1>3. ASSUME Begin(w)
      PROVE  \/ kind = "parse" /\ Write(w, d, Orders \X {parses'})
             \/ /\ kind # "parse"
                /\ Became(w, "list", d, wk[w].todo, wk[w].texts)
  <2>1. CASE kind = "parse"
    BY <1>3, <2>1 DEF Begin
  <2>2. CASE kind # "parse"
    <3>1. wk' = [wk EXCEPT ![w].pc = "list", ![w].doc = d]
      BY <1>3, <2>2 DEF Begin
    <3>. HIDE DEF d
    <3>2. wk' = [wk EXCEPT ![w] = [wk[w] EXCEPT !.pc = "list", !.doc = d, !.todo = wk[w].todo,
                                                !.texts = wk[w].texts]]
      BY <1>1, <3>1 DEF Works
    <3>. QED
      BY <1>2, <2>2, <3>2
  <2>. QED
    BY <2>1, <2>2
<1>4. ASSUME List(w)
      PROVE  \/ kind = "map" /\ Write(w, wk[w].doc, CurrentSections)
             \/ /\ kind = "draft"
                /\ Became(w, "approved", wk[w].doc, CurrentSections, wk[w].texts)
             \/ /\ kind = "export" /\ AllApproved(drafts)
                /\ Became(w, "store", wk[w].doc, wk[w].todo, listed)
             \/ /\ kind = "export" /\ ~AllApproved(drafts)
                /\ Goto(w, "undo")
  <2>1. wk[w].pc = "list" /\ kind \in {"map", "draft", "export"}
    <3>1. wk[w].pc = "list" /\ wk[w].job \in Jobs /\ wk[w].job # "parse"
      BY <1>4, AtWork DEF List, WorkOK
    <3>. QED
      BY <3>1, Kinds
  <2>2. CASE kind = "map"
    BY <1>4, <2>2 DEF List
  <2>3. CASE kind = "draft"
    <3>1. wk' = [wk EXCEPT ![w].pc = "approved", ![w].todo = CurrentSections]
      BY <1>4, <2>3 DEF List
    <3>2. wk' = [wk EXCEPT ![w] = [wk[w] EXCEPT !.pc = "approved", !.doc = wk[w].doc,
                                     !.todo = CurrentSections, !.texts = wk[w].texts]]
      BY <1>1, <3>1 DEF Works
    <3>. QED
      BY <1>2, <2>3, <3>2
  <2>4. CASE kind = "export" /\ AllApproved(drafts)
    <3>1. wk' = [wk EXCEPT ![w].pc = "store", ![w].texts = listed]
      BY <1>4, <2>4 DEF List
    <3>. HIDE DEF listed
    <3>2. wk' = [wk EXCEPT ![w] = [wk[w] EXCEPT !.pc = "store", !.doc = wk[w].doc,
                                     !.todo = wk[w].todo, !.texts = listed]]
      BY <1>1, <3>1 DEF Works
    <3>. QED
      BY <1>2, <2>4, <3>2
  <2>5. CASE kind = "export" /\ ~AllApproved(drafts)
    BY <1>4, <2>5 DEF List
  <2>. QED
    BY <2>1, <2>2, <2>3, <2>4, <2>5
<1>. QED
  BY <1>3, <1>4

(* The same for a request that goes on, and for one that is over. *)
Went(c, l, d, copy, todo, job) ==
    /\ call'[c].pc = l
    /\ call'[c].op = call[c].op
    /\ call'[c].sec = call[c].sec
    /\ call'[c].doc = d
    /\ call'[c].copy = copy
    /\ call'[c].todo = todo
    /\ call'[c].job = job
    /\ \A e \in Callers \ {c} : call'[e] = call[e]

Over(c) ==
    /\ call'[c] = NoCall
    /\ \A e \in Callers \ {c} : call'[e] = call[e]

LEMMA Goings ==
    ASSUME IInv, NEW c \in Callers, NEW l, NEW d, NEW copy, NEW todo, NEW job,
           call' = [call EXCEPT ![c] = [call[c] EXCEPT !.pc = l, !.doc = d, !.copy = copy,
                                                       !.todo = todo, !.job = job]]
    PROVE  Went(c, l, d, copy, todo, job)
<1>. DEFINE r == [call[c] EXCEPT !.pc = l, !.doc = d, !.copy = copy, !.todo = todo, !.job = job]
<1>1. call[c] \in Asked /\ call \in [Callers -> Asked]
  BY DEF IInv, CallersOK
<1>2. /\ r.pc = l /\ r.op = call[c].op /\ r.sec = call[c].sec /\ r.doc = d
      /\ r.copy = copy /\ r.todo = todo /\ r.job = job
  BY <1>1 DEF Asked
<1>3. call' = [call EXCEPT ![c] = r]
  OBVIOUS
<1>. HIDE DEF r
<1>. QED
  BY <1>1, <1>2, <1>3 DEF Went

LEMMA StepsTo ==
    ASSUME IInv, NEW c \in Callers, NEW l, Step(c, l)
    PROVE  IF l = "idle" THEN Over(c)
           ELSE Went(c, l, call[c].doc, call[c].copy, call[c].todo, call[c].job)
<1>1. call[c] \in Asked /\ call \in [Callers -> Asked]
  BY DEF IInv, CallersOK
<1>2. CASE l = "idle"
  BY <1>1, <1>2 DEF Step, Over
<1>3. CASE l # "idle"
  <2>1. call' = [call EXCEPT ![c] = [call[c] EXCEPT !.pc = l]]
    BY <1>3 DEF Step
  <2>2. [call[c] EXCEPT !.pc = l] =
          [call[c] EXCEPT !.pc = l, !.doc = call[c].doc, !.copy = call[c].copy,
                          !.todo = call[c].todo, !.job = call[c].job]
    BY <1>1 DEF Asked
  <2>. QED
    BY <1>3, <2>1, <2>2, Goings
<1>. QED
  BY <1>2, <1>3

LEMMA Asking ==
    ASSUME IInv, NEW c \in Callers
    PROVE  /\ NewCall(c) =>
                /\ call[c] = NoCall
                /\ \E op \in Ops, s \in Sections \cup {NoSection} :
                     /\ op \in RowOps => s \in Listed(Table(op))
                     /\ call'[c] = [NoCall EXCEPT !.op = op, !.pc = "read", !.sec = s]
                /\ \A e \in Callers \ {c} : call'[e] = call[e]
           /\ ReadDocument(c) =>
                \/ /\ doc.status \in Admitted(call[c].op)
                   /\ Went(c, AfterRead(call[c].op, doc), doc, call[c].copy, call[c].todo,
                           call[c].job)
                \/ Over(c)
           /\ ReadRow(c) =>
                Went(c, IF call[c].op = "edit_draft" THEN "cas" ELSE "put", call[c].doc,
                     [call[c].copy EXCEPT ![call[c].sec] = Table(call[c].op)[call[c].sec]],
                     call[c].todo, call[c].job)
<1>1. call[c] \in Asked /\ call \in [Callers -> Asked]
  BY DEF IInv, CallersOK
<1>2. ASSUME NewCall(c)
      PROVE  /\ call[c] = NoCall
             /\ \E op \in Ops, s \in Sections \cup {NoSection} :
                  /\ op \in RowOps => s \in Listed(Table(op))
                  /\ call'[c] = [NoCall EXCEPT !.op = op, !.pc = "read", !.sec = s]
             /\ \A e \in Callers \ {c} : call'[e] = call[e]
  <2>1. PICK op \in Ops, s \in Sections \cup {NoSection} :
           /\ op \in RowOps => s \in Listed(Table(op))
           /\ call' = [call EXCEPT ![c] = [NoCall EXCEPT !.op = op, !.pc = "read", !.sec = s]]
    BY <1>2 DEF NewCall
  <2>. DEFINE r == [NoCall EXCEPT !.op = op, !.pc = "read", !.sec = s]
  <2>2. call' = [call EXCEPT ![c] = r]
    BY <2>1
  <2>. HIDE DEF r
  <2>3. call'[c] = r /\ \A e \in Callers \ {c} : call'[e] = call[e]
    BY <1>1, <2>2
  <2>. QED
    BY <1>2, <2>1, <2>3 DEF NewCall, r
<1>3. ASSUME ReadDocument(c)
      PROVE  \/ /\ doc.status \in Admitted(call[c].op)
                /\ Went(c, AfterRead(call[c].op, doc), doc, call[c].copy, call[c].todo,
                        call[c].job)
             \/ Over(c)
  <2>1. CASE doc.status \in Admitted(call[c].op)
    <3>. DEFINE l == AfterRead(call[c].op, doc)
    <3>1. call' = [call EXCEPT ![c].pc = l, ![c].doc = doc]
      BY <1>3, <2>1 DEF ReadDocument
    <3>. HIDE DEF l
    <3>2. call' = [call EXCEPT ![c] = [call[c] EXCEPT !.pc = l, !.doc = doc, !.copy = call[c].copy,
                                         !.todo = call[c].todo, !.job = call[c].job]]
      BY <1>1, <3>1 DEF Asked
    <3>. QED
      BY <2>1, <3>2, Goings DEF l
  <2>2. CASE doc.status \notin Admitted(call[c].op)
    BY <1>3, <2>2, StepsTo DEF ReadDocument
  <2>. QED
    BY <2>1, <2>2
<1>4. ASSUME ReadRow(c)
      PROVE  Went(c, IF call[c].op = "edit_draft" THEN "cas" ELSE "put", call[c].doc,
                  [call[c].copy EXCEPT ![call[c].sec] = Table(call[c].op)[call[c].sec]],
                  call[c].todo, call[c].job)
  <2>. DEFINE l == IF call[c].op = "edit_draft" THEN "cas" ELSE "put"
              row == Table(call[c].op)[call[c].sec]
              copy == [call[c].copy EXCEPT ![call[c].sec] = row]
  <2>1. call' = [call EXCEPT ![c] = [call[c] EXCEPT !.pc = l, !.copy = copy]]
    BY <1>4 DEF ReadRow
  <2>. HIDE DEF l, copy
  <2>2. call' = [call EXCEPT ![c] = [call[c] EXCEPT !.pc = l, !.doc = call[c].doc, !.copy = copy,
                                       !.todo = call[c].todo, !.job = call[c].job]]
    BY <1>1, <2>1 DEF Asked
  <2>3. Went(c, l, call[c].doc, copy, call[c].todo, call[c].job)
    BY <2>2, Goings
  <2>. QED
    BY <2>3 DEF l, copy
<1>. QED
  BY <1>2, <1>3, <1>4

LEMMA Listing ==
    ASSUME IInv, NEW c \in Callers
    PROVE  /\ ListRows(c) =>
                \/ /\ call[c].op = "approve_mappings"
                   /\ Cardinality(Listed(maps)) > 0
                   /\ call[c].doc.count > 0 => Cardinality(Listed(maps)) = call[c].doc.count
                   /\ Went(c, "put", call[c].doc, maps, Listed(maps), call[c].job)
                \/ /\ call[c].op = "approve_draft"
                   /\ AllApproved(drafts)
                   /\ Went(c, "cas", call[c].doc, call[c].copy, call[c].todo, call[c].job)
                \/ /\ call[c].op = "export"
                   /\ AllApproved(drafts)
                   /\ \E x \in Exports :
                        /\ jobs[x].status = "none"
                        /\ \A d \in Callers : call[d].job # x
                        /\ Went(c, "cas", call[c].doc, call[c].copy, call[c].todo, x)
                \/ Over(c)
           /\ PutMapping(c) =>
                \/ /\ At(c, "edit_mapping", "put")
                   /\ maps' = [maps EXCEPT ![call[c].sec] = Edit(c)]
                   /\ Over(c)
                \/ /\ At(c, "approve_mappings", "put")
                   /\ \E s \in call[c].todo :
                        /\ maps' = [maps EXCEPT ![s] = Approve(c, s)]
                        /\ Went(c, IF call[c].todo = {s} THEN "cas" ELSE "put", call[c].doc,
                                call[c].copy, call[c].todo \ {s}, call[c].job)
<1>1. call[c] \in Asked /\ call \in [Callers -> Asked]
  BY DEF IInv, CallersOK
<1>2. ASSUME call[c].op = "approve_mappings",
             call' = [call EXCEPT ![c].pc = "put", ![c].copy = maps, ![c].todo = Listed(maps)]
      PROVE  Went(c, "put", call[c].doc, maps, Listed(maps), call[c].job)
  <2>. DEFINE todo == Listed(maps)
  <2>1. call' = [call EXCEPT ![c].pc = "put", ![c].copy = maps, ![c].todo = todo]
    BY <1>2
  <2>. HIDE DEF todo
  <2>2. call' = [call EXCEPT ![c] = [call[c] EXCEPT !.pc = "put", !.doc = call[c].doc, !.copy = maps,
                                       !.todo = todo, !.job = call[c].job]]
    BY <1>1, <2>1 DEF Asked
  <2>3. Went(c, "put", call[c].doc, maps, todo, call[c].job)
    BY <2>2, Goings
  <2>. QED
    BY <2>3 DEF todo
<1>3. ASSUME NEW x \in Exports, call' = [call EXCEPT ![c].pc = "cas", ![c].job = x]
      PROVE  Went(c, "cas", call[c].doc, call[c].copy, call[c].todo, x)
  <2>1. call' = [call EXCEPT ![c] = [call[c] EXCEPT !.pc = "cas", !.doc = call[c].doc,
                                       !.copy = call[c].copy, !.todo = call[c].todo, !.job = x]]
    BY <1>1, <1>3 DEF Asked
  <2>. QED
    BY <2>1, Goings
<1>4. Step(c, "cas") => Went(c, "cas", call[c].doc, call[c].copy, call[c].todo, call[c].job)
  BY StepsTo
<1>5. Step(c, "idle") => Over(c)
  BY StepsTo
<1>6. ASSUME NEW s \in call[c].todo,
             call' = [call EXCEPT ![c].todo = @ \ {s},
                                  ![c].pc = IF call[c].todo = {s} THEN "cas" ELSE "put"]
      PROVE  Went(c, IF call[c].todo = {s} THEN "cas" ELSE "put", call[c].doc,
                  call[c].copy, call[c].todo \ {s}, call[c].job)
  <2>. DEFINE todo == call[c].todo \ {s}
              l == IF call[c].todo = {s} THEN "cas" ELSE "put"
  <2>1. call' = [call EXCEPT ![c] = [call[c] EXCEPT !.todo = todo, !.pc = l]]
    BY <1>6
  <2>. HIDE DEF todo, l
  <2>2. call' = [call EXCEPT ![c] = [call[c] EXCEPT !.pc = l, !.doc = call[c].doc,
                                       !.copy = call[c].copy, !.todo = todo, !.job = call[c].job]]
    BY <1>1, <2>1 DEF Asked
  <2>3. Went(c, l, call[c].doc, call[c].copy, todo, call[c].job)
    BY <2>2, Goings
  <2>. QED
    BY <2>3 DEF todo, l
<1>7. ASSUME ListRows(c)
      PROVE  \/ /\ call[c].op = "approve_mappings"
                /\ Cardinality(Listed(maps)) > 0
                /\ call[c].doc.count > 0 => Cardinality(Listed(maps)) = call[c].doc.count
                /\ Went(c, "put", call[c].doc, maps, Listed(maps), call[c].job)
             \/ /\ call[c].op = "approve_draft"
                /\ AllApproved(drafts)
                /\ Went(c, "cas", call[c].doc, call[c].copy, call[c].todo, call[c].job)
             \/ /\ call[c].op = "export"
                /\ AllApproved(drafts)
                /\ \E x \in Exports :
                     /\ jobs[x].status = "none"
                     /\ \A d \in Callers : call[d].job # x
                     /\ Went(c, "cas", call[c].doc, call[c].copy, call[c].todo, x)
             \/ Over(c)
  <2>1. CASE /\ call[c].op = "approve_mappings" /\ Cardinality(Listed(maps)) > 0
             /\ call[c].doc.count > 0 => Cardinality(Listed(maps)) = call[c].doc.count
             /\ call' = [call EXCEPT ![c].pc = "put", ![c].copy = maps, ![c].todo = Listed(maps)]
    BY <2>1, <1>2
  <2>2. CASE call[c].op = "approve_draft" /\ AllApproved(drafts) /\ Step(c, "cas")
    BY <2>2, <1>4
  <2>3. CASE /\ call[c].op = "export" /\ AllApproved(drafts)
             /\ \E x \in Exports :
                  /\ jobs[x].status = "none"
                  /\ \A d \in Callers : call[d].job # x
                  /\ call' = [call EXCEPT ![c].pc = "cas", ![c].job = x]
    BY <2>3, <1>3
  <2>4. CASE Step(c, "idle")
    BY <2>4, <1>5
  <2>. QED
    BY <1>7, <2>1, <2>2, <2>3, <2>4 DEF ListRows
<1>8. ASSUME PutMapping(c)
      PROVE  \/ /\ At(c, "edit_mapping", "put")
                /\ maps' = [maps EXCEPT ![call[c].sec] = Edit(c)]
                /\ Over(c)
             \/ /\ At(c, "approve_mappings", "put")
                /\ \E s \in call[c].todo :
                     /\ maps' = [maps EXCEPT ![s] = Approve(c, s)]
                     /\ Went(c, IF call[c].todo = {s} THEN "cas" ELSE "put", call[c].doc,
                             call[c].copy, call[c].todo \ {s}, call[c].job)
  BY <1>8, <1>5, <1>6 DEF PutMapping
<1>. QED
  BY <1>7, <1>8

-----------------------------------------------------------------------------
(* Past the intake *)

(* The document has been mapped, and nobody parses it again. *)
PastIntake == "parse" \notin Ops /\ \A a \in Scenarios : a.start # "upload_pending"

Backed == {"review_approved", "exported"}

(* What is left to run are draft and export jobs; an export is asked for,   *)
(* and undone to, a document whose drafts are all approved.                 *)
LateWork(i) ==
    /\ i.job \notin {"parse", "map"}
    /\ i.pc \notin {"chain", "chainput", "chainsend"}
    /\ i.pc = "commit" => i.doc.status \in {"drafted", "exported"}

LateCall(r) ==
    /\ r.op # "parse"
    /\ r.op = "export" /\ r.pc \notin {"idle", "read"} => r.doc.status \in Backed
    /\ r.pc \in {"undo", "undojob"} => r.op = "export"

LateQueue == \A m \in Messages : msgs[m].job \notin {"parse", "map"}
LateJobs  == \A j \in Jobs : jobs[j].previous \in Backed

Late ==
    /\ LateQueue
    /\ LateJobs
    /\ \A w \in Workers : LateWork(wk[w])
    /\ \A c \in Callers : LateCall(call[c])

LEMMA LateDone ==
    ASSUME NEW j \in Jobs, j \notin {"parse", "map"}, NEW d \in Documents
    PROVE  Done(Kind(j), d).status \in {"drafted", "exported"}
<1>1. Kind(j) \in {"draft", "export"}
  BY Kinds
<1>2. /\ [d EXCEPT !.status = "drafted", !.failure = "none"].status = "drafted"
      /\ [d EXCEPT !.status = "exported", !.failure = "none", !.active = "none",
                   !.exported = TRUE].status = "exported"
  BY DEF Documents
<1>. QED
  BY <1>1, <1>2 DEF Done

LEMMA LatePut ==
    ASSUME IInv, LateJobs, NEW j, NEW status, PutJob(j, status)
    PROVE  LateJobs'
BY DEF PutJob, IInv, StoreOK, JobRows, LateJobs

LEMMA LateSend ==
    ASSUME IInv, LateQueue, NEW j, j \notin {"parse", "map"}, NEW holders, Send(j, holders)
    PROVE  LateQueue'
<1>1. msgs \in [Messages -> Queued]
  BY DEF IInv, StoreOK
<1>. DEFINE q == [state |-> "visible", job |-> j, receives |-> 0]
<1>2. PICK m \in Messages : msgs' = [msgs EXCEPT ![m] = q]
  BY DEF Send
<1>3. q.job = j
  OBVIOUS
<1>. HIDE DEF q
<1>. QED
  BY <1>1, <1>2, <1>3 DEF LateQueue

LEMMA LateWorker ==
    ASSUME IInv, Late, NEW w \in Workers, WorkerMoves(w)
    PROVE  /\ LateWork(wk'[w])
           /\ \A v \in Workers \ {w} : wk'[v] = wk[v]
           /\ LateQueue' /\ LateJobs'
<1>1. LateWork(wk[w]) /\ LateQueue /\ LateJobs
  BY DEF Late
<1>2. /\ wk[w] \in Works /\ wk \in [Workers -> Works] /\ msgs \in [Messages -> Queued]
      /\ jobs \in [Jobs -> JobRows]
  BY DEF IInv, WorkersOK, StoreOK
<1>3. wk[w].pc # "idle" => wk[w].job \in Jobs \ {"parse", "map"} /\ wk[w].doc \in Documents
  BY <1>1, AtWork DEF LateWork
<1>4. wk[w].pc # "idle" => Kind(wk[w].job) \in {"draft", "export"}
  BY <1>3, Kinds
<1>5. CASE \E m \in Messages : Receive(w, m)
  <2>1. PICK m \in Messages : Receive(w, m)
    BY <1>5
  <2>2. wk'[w].pc = "job" /\ wk'[w].job = msgs[m].job /\ \A v \in Workers \ {w} : wk'[v] = wk[v]
    <3>1. /\ wk'[w] = [NoWork EXCEPT !.pc = "job", !.msg = m, !.job = msgs[m].job]
          /\ \A v \in Workers \ {w} : wk'[v] = wk[v]
      BY <2>1, Reading
    <3>. QED
      BY <3>1 DEF NoWork
  <2>3. LateQueue' /\ LateJobs'
    BY <1>1, <1>2, <2>1 DEF Receive, store, LateQueue, LateJobs, Queued
  <2>. QED
    BY <1>1, <2>2, <2>3 DEF LateWork, LateQueue
<1>6. CASE ReadJob(w) \/ ReadDoc(w)
  <2>1. UNCHANGED <<jobs, msgs>> /\ wk[w].pc # "idle"
    BY <1>6 DEF ReadJob, ReadDoc, store
  <2>2. \E l \in {"ack", "settle", "claim", "doc"} : \E d : Became(w, l, d, wk[w].todo, wk[w].texts)
    <3>1. ReadJob(w) => Became(w, "doc", wk[w].doc, wk[w].todo, wk[w].texts)
      BY Reading
    <3>2. ReadDoc(w) => \E l \in {"ack", "settle", "claim"} :
                           Became(w, l, doc, wk[w].todo, wk[w].texts)
      BY <1>4, <2>1, Reading
    <3>. QED
      BY <1>6, <3>1, <3>2
  <2>. QED
    BY <1>1, <2>1, <2>2 DEF LateWork, LateQueue, LateJobs, Became
<1>7. ASSUME NEW l, Goto(w, l), l \notin {"chain", "chainput", "chainsend", "commit"}
      PROVE  LateWork(wk'[w]) /\ \A v \in Workers \ {w} : wk'[v] = wk[v]
  BY <1>1, <1>7, GoesTo DEF LateWork, Became
<1>8. CASE Settle(w) \/ Refuse(w) \/ Close(w)
  <2>1. wk[w].pc # "idle" /\ UNCHANGED msgs
    BY <1>8 DEF Settle, Refuse, Close
  <2>2. Goto(w, "ack")
    BY <1>4, <1>8, <2>1 DEF Settle, Refuse, Close
  <2>3. UNCHANGED jobs \/ \E status : PutJob(wk[w].job, status)
    BY <1>8 DEF Settle, Refuse, Close
  <2>4. LateJobs'
    BY <1>1, <2>3, LatePut DEF LateJobs
  <2>. QED
    BY <1>1, <1>7, <2>1, <2>2, <2>4 DEF LateQueue
<1>9. CASE Claim(w)
  <2>1. \E l \in {"refuse", "list", "begin", "ack"} : Goto(w, l)
    BY <1>9 DEF Claim
  <2>2. LateJobs'
    <3>1. \/ UNCHANGED jobs
          \/ jobs' = [jobs EXCEPT ![wk[w].job].status = "running", ![wk[w].job].lease = wk[w].msg]
      BY <1>9 DEF Claim
    <3>. QED
      BY <1>1, <1>2, <3>1 DEF LateJobs, JobRows
  <2>3. UNCHANGED msgs
    BY <1>9 DEF Claim
  <2>. QED
    BY <1>1, <1>7, <2>1, <2>2, <2>3 DEF LateQueue
<1>10. ASSUME NEW d \in Documents, NEW todo, Write(w, d, todo), wk[w].pc # "idle"
       PROVE  LateWork(wk'[w]) /\ \A v \in Workers \ {w} : wk'[v] = wk[v]
  <2>1. Done(Kind(wk[w].job), d).status \in {"drafted", "exported"}
    BY <1>3, <1>10, LateDone
  <2>2. Became(w, IF todo = {} THEN "commit" ELSE "rows",
               IF todo = {} THEN Done(Kind(wk[w].job), d) ELSE d, todo, wk[w].texts)
    BY <1>10, WritesTo
  <2>. QED
    BY <1>1, <2>1, <2>2 DEF LateWork, Became
<1>11. CASE Begin(w) \/ List(w)
  <2>1. UNCHANGED <<jobs, msgs>> /\ wk[w].pc # "idle"
    BY <1>11 DEF Begin, List, store
  <2>2. CASE Begin(w)
    BY <1>1, <1>4, <2>1, <2>2, Working DEF LateWork, LateQueue, LateJobs, Became
  <2>3. CASE List(w)
    <3>1. \/ \E l \in {"approved", "store"} : \E todo, texts : Became(w, l, wk[w].doc, todo, texts)
          \/ Goto(w, "undo")
      BY <1>4, <2>1, <2>3, Working
    <3>. QED
      BY <1>1, <1>7, <2>1, <3>1 DEF LateWork, LateQueue, LateJobs, Became
  <2>. QED
    BY <1>11, <2>2, <2>3
<1>12. CASE ListApproved(w) \/ PutRow(w) \/ StoreFile(w)
  <2>1. UNCHANGED <<jobs, msgs>> /\ wk[w].pc # "idle"
    BY <1>12 DEF ListApproved, PutRow, StoreFile, store
  <2>2. \E todo : Write(w, wk[w].doc, todo)
    BY <1>12 DEF ListApproved, PutRow, StoreFile
  <2>. QED
    BY <1>1, <1>3, <1>10, <2>1, <2>2 DEF LateQueue, LateJobs
<1>13. CASE Commit(w) \/ UndoDoc(w) \/ Fail(w)
  <2>1. UNCHANGED <<jobs, msgs>>
    BY <1>13 DEF Commit, UndoDoc, Fail, store
  <2>2. \E l \in {"close", "failjob", "undo"} : Goto(w, l)
    BY <1>13 DEF Commit, UndoDoc, Fail
  <2>. QED
    BY <1>1, <1>7, <2>1, <2>2 DEF LateQueue, LateJobs
<1>14. CASE FailJob(w) \/ Ack(w) \/ Die(w)
  <2>1. wk[w].pc # "idle" /\ (wk' = [wk EXCEPT ![w] = NoWork] \/ Goto(w, "ack"))
    BY <1>14 DEF FailJob, Ack, Die
  <2>2. UNCHANGED msgs \/ msgs' = [msgs EXCEPT ![wk[w].msg] = NoMessage]
    BY <1>14 DEF FailJob, Ack, Die
  <2>3. UNCHANGED jobs \/ PutJob(wk[w].job, "failed")
    BY <1>14 DEF FailJob, Ack, Die, store
  <2>4. LateJobs'
    BY <1>1, <2>3, LatePut DEF LateJobs
  <2>5. LateQueue'
    BY <1>1, <1>2, <2>2 DEF LateQueue, NoMessage
  <2>6. LateWork(NoWork)
    BY DEF LateWork, NoWork
  <2>. QED
    BY <1>2, <1>7, <2>1, <2>4, <2>5, <2>6
<1>15. ~(ChainRead(w) \/ ChainPut(w) \/ ChainSend(w))
  BY <1>1 DEF LateWork, ChainRead, ChainPut, ChainSend
<1>. QED
  BY <1>5, <1>6, <1>8, <1>9, <1>11, <1>12, <1>13, <1>14, <1>15 DEF WorkerMoves, WorkerStep

LEMMA LateCaller ==
    ASSUME IInv, Late, PastIntake, NEW c \in Callers, CallerMoves(c)
    PROVE  /\ LateCall(call'[c])
           /\ \A e \in Callers \ {c} : call'[e] = call[e]
           /\ LateQueue' /\ LateJobs'
<1>1. LateCall(call[c]) /\ LateQueue /\ LateJobs
  BY DEF Late
<1>2. /\ call[c] \in Asked /\ call \in [Callers -> Asked] /\ jobs \in [Jobs -> JobRows]
      /\ CallOK(call[c])
  BY DEF IInv, CallersOK, StoreOK
<1>3. LateCall(NoCall)
  BY DEF LateCall, NoCall
<1>4. ASSUME NEW l, Step(c, l), l = "idle" \/ call[c].op # "export" \/ call[c].doc.status \in Backed,
             l \in {"undo", "undojob"} => call[c].op = "export"
      PROVE  LateCall(call'[c]) /\ \A e \in Callers \ {c} : call'[e] = call[e]
  BY <1>1, <1>3, <1>4, StepsTo DEF LateCall, Over, Went
<1>5. CASE NewCall(c)
  <2>1. PICK op, s :
           /\ op \in Ops
           /\ call'[c] = [NoCall EXCEPT !.op = op, !.pc = "read", !.sec = s]
           /\ \A e \in Callers \ {c} : call'[e] = call[e]
    BY <1>5, Asking
  <2>2. call'[c].op = op /\ call'[c].pc = "read"
    BY <2>1 DEF NoCall
  <2>. QED
    BY <1>1, <1>5, <2>1, <2>2 DEF PastIntake, LateCall, NewCall, store, LateQueue, LateJobs
<1>6. CASE ReadDocument(c)
  <2>1. UNCHANGED <<jobs, msgs>>
    BY <1>6 DEF ReadDocument, store
  <2>2. \/ /\ doc.status \in Admitted(call[c].op)
           /\ \E l \in {"cas", "row", "list", "jobread"} : \E copy, todo, job :
                 Went(c, l, doc, copy, todo, job)
        \/ Over(c)
    <3>1. AfterRead(call[c].op, doc) \in {"cas", "row", "list", "jobread"}
      <4>1. call[c].op \in AllOps
        BY <1>6, AtCall DEF ReadDocument
      <4>. QED
        BY <4>1 DEF AfterRead, AllOps, RowOps
    <3>. QED
      BY <1>6, <3>1, Asking
  <2>3. call[c].op = "export" => Admitted(call[c].op) = Backed
    BY DEF Admitted, Backed
  <2>. QED
    BY <1>1, <1>3, <2>1, <2>2, <2>3 DEF LateCall, Over, Went, LateQueue, LateJobs
<1>7. CASE ReadRow(c)
  <2>1. UNCHANGED <<jobs, msgs>> /\ call[c].pc = "row" /\ call[c].op # "export"
    BY <1>2, <1>7 DEF ReadRow, store, CallOK, RowOps
  <2>2. \E l \in {"cas", "put"} : \E d, copy, todo, job : Went(c, l, d, copy, todo, job)
    BY <1>7, Asking
  <2>. QED
    BY <1>1, <2>1, <2>2 DEF LateCall, Went, LateQueue, LateJobs
<1>8. CASE ListRows(c)
  <2>1. UNCHANGED <<jobs, msgs>> /\ call[c].pc = "list"
    BY <1>8 DEF ListRows, store
  <2>2. \/ \E l \in {"cas", "put"} : \E copy, todo, job : Went(c, l, call[c].doc, copy, todo, job)
        \/ Over(c)
    BY <1>8, Listing
  <2>. QED
    BY <1>1, <1>3, <2>1, <2>2 DEF LateCall, Over, Went, LateQueue, LateJobs
<1>9. CASE PutMapping(c)
  <2>1. UNCHANGED <<jobs, msgs>> /\ call[c].pc = "put"
    BY <1>9 DEF PutMapping, At
  <2>2. \/ \E l \in {"cas", "put"} : \E copy, todo, job : Went(c, l, call[c].doc, copy, todo, job)
        \/ Over(c)
    BY <1>9, Listing
  <2>. QED
    BY <1>1, <1>3, <2>1, <2>2 DEF LateCall, Over, Went, LateQueue, LateJobs
<1>10. CASE PutDraft(c) \/ ReadLatest(c) \/ ReadDraftJob(c)
  <2>1. UNCHANGED <<jobs, msgs>> /\ call[c].op # "export"
    BY <1>10 DEF PutDraft, ReadLatest, ReadDraftJob, At, store
  <2>2. \E l \in {"idle", "list", "jobread", "jobput", "send"} : Step(c, l)
    BY <1>10 DEF PutDraft, ReadLatest, ReadDraftJob
  <2>. QED
    BY <1>1, <1>4, <2>1, <2>2 DEF LateQueue, LateJobs
<1>11. CASE PutDocument(c) \/ RestoreDocument(c)
  <2>1. UNCHANGED <<jobs, msgs>> /\ call[c].pc \in {"cas", "undo"} /\ call[c].op \in AllOps
    BY <1>11, AtCall DEF PutDocument, RestoreDocument
  <2>2. \E l : Step(c, l) /\ (l = "idle" \/ l \notin {"undo", "undojob"} \/ call[c].pc = "undo")
    <3>1. \/ AfterCas(call[c].op) # "undo" /\ AfterCas(call[c].op) # "undojob"
          \/ call[c].op = "edit_mapping"
      BY <2>1 DEF AfterCas, AllOps
    <3>2. call[c].pc = "cas" => call[c].op # "edit_mapping"
      BY <1>2 DEF CallOK
    <3>. QED
      BY <1>11, <3>1, <3>2 DEF PutDocument, RestoreDocument
  <2>3. call[c].op # "export" \/ call[c].doc.status \in Backed
    BY <1>1, <2>1 DEF LateCall
  <2>4. call[c].pc = "undo" => call[c].op = "export"
    BY <1>1 DEF LateCall
  <2>. QED
    BY <1>1, <1>4, <2>1, <2>2, <2>3, <2>4 DEF LateQueue, LateJobs
<1>12. CASE PutNewJob(c) \/ FailNewJob(c)
  <2>1. UNCHANGED msgs /\ call[c].pc \in {"jobput", "undojob"}
    BY <1>12 DEF PutNewJob, FailNewJob
  <2>2. call[c].op = "export" => call[c].doc.status \in Backed
    BY <1>1, <2>1 DEF LateCall
  <2>3. \E status : jobs' = [jobs EXCEPT ![JobOf(c)] = NewJob(c, status)]
    BY <1>12 DEF PutNewJob, FailNewJob
  <2>4. \A status : NewJob(c, status).previous \in Backed
    BY <2>2 DEF NewJob, Backed
  <2>5. LateJobs'
    BY <1>1, <1>2, <2>3, <2>4 DEF LateJobs
  <2>6. Step(c, "send") \/ Step(c, "idle")
    BY <1>12 DEF PutNewJob, FailNewJob
  <2>. QED
    BY <1>1, <1>4, <2>1, <2>2, <2>5, <2>6 DEF LateQueue
<1>13. CASE SendMessage(c) \/ EnqueueFails(c)
  <2>1. UNCHANGED jobs /\ call[c].pc \in {"jobput", "send"}
    BY <1>13 DEF SendMessage, EnqueueFails, store
  <2>2. call[c].op = "export" => call[c].doc.status \in Backed /\ call[c].job \in Exports
    BY <1>1, <1>2, <2>1 DEF LateCall, CallOK
  <2>3. JobOf(c) \notin {"parse", "map"}
    BY <1>1, <2>2, PipelineConstants DEF JobOf, LateCall
  <2>4. LateQueue'
    BY <1>1, <1>13, <2>3, LateSend DEF SendMessage, EnqueueFails, LateQueue
  <2>5. Step(c, "idle") \/ (Step(c, "undo") /\ call[c].op \in {"parse", "export"})
    BY <1>13 DEF SendMessage, EnqueueFails
  <2>6. call[c].op # "parse"
    BY <1>1 DEF LateCall
  <2>. QED
    BY <1>1, <1>4, <2>1, <2>2, <2>4, <2>5, <2>6 DEF LateJobs
<1>14. CASE CallDies(c)
  <2>1. UNCHANGED <<jobs, msgs>> /\ Step(c, "idle")
    BY <1>14 DEF CallDies, store
  <2>. QED
    BY <1>1, <1>4, <2>1 DEF LateQueue, LateJobs
<1>. QED
  BY <1>5, <1>6, <1>7, <1>8, <1>9, <1>10, <1>11, <1>12, <1>13, <1>14 DEF CallerMoves, CallStep

LEMMA CallerLeavesWork ==
    ASSUME NEW c \in Callers, CallerMoves(c)
    PROVE  UNCHANGED wkvars
BY DEF CallerMoves, CallStep, NewCall, ReadDocument, ReadRow, ListRows, PutMapping, PutDraft,
       PutDocument, ReadLatest, ReadDraftJob, PutNewJob, SendMessage, RestoreDocument, FailNewJob,
       EnqueueFails, CallDies

LEMMA LateNext ==
    ASSUME IInv, Late, PastIntake, [Next]_vars
    PROVE  Late'
<1>1. CASE (\E w \in Workers : WorkerMoves(w)) /\ UNCHANGED apivars
  BY <1>1, LateWorker DEF Late, apivars
<1>2. CASE \E c \in Callers : CallerMoves(c)
  <2>1. PICK c \in Callers : CallerMoves(c)
    BY <1>2
  <2>2. wk' = wk
    BY <2>1, CallerLeavesWork DEF wkvars
  <2>. QED
    BY <2>1, <2>2, LateCaller DEF Late
<1>3. CASE (\E m \in Messages : Reappear(m) \/ Duplicate(m)) /\ UNCHANGED apivars
  <2>1. UNCHANGED <<jobs, wk, call>>
    BY <1>3 DEF Reappear, Duplicate, store, wkvars, apivars
  <2>2. \A n \in Messages : msgs'[n].job = msgs[n].job
    <3>1. msgs \in [Messages -> Queued]
      BY DEF IInv, StoreOK
    <3>. QED
      BY <1>3, <3>1 DEF Reappear, Duplicate, Queued
  <2>. QED
    BY <2>1, <2>2 DEF Late, LateQueue, LateJobs
<1>4. CASE (\E j \in Jobs : LeaseExpires(j)) /\ UNCHANGED apivars
  <2>1. UNCHANGED <<msgs, wk, call>>
    BY <1>4 DEF LeaseExpires, wkvars, apivars
  <2>2. LateJobs'
    <3>1. jobs \in [Jobs -> JobRows]
      BY DEF IInv, StoreOK
    <3>. QED
      BY <1>4, <3>1 DEF LeaseExpires, Late, LateJobs, JobRows
  <2>. QED
    BY <2>1, <2>2 DEF Late, LateQueue
<1>5. CASE UNCHANGED vars
  BY <1>5 DEF vars, store, wkvars, apivars, Late, LateQueue, LateJobs
<1>. QED
  BY <1>1, <1>2, <1>3, <1>4, <1>5 DEF Next

LEMMA LateInit ==
    ASSUME PastIntake, Init
    PROVE  Late
<1>1. PICK a \in Scenarios : StoreInit(a.start)
  BY DEF Init
<1>2. LateQueue /\ LateJobs
  BY <1>1 DEF StoreInit, LateQueue, LateJobs, NoMessage, NoJob, Backed
<1>. QED
  BY <1>2 DEF Init, Late, LateWork, LateCall, NoWork, NoCall

(* Who writes the document. *)
LEMMA DocumentWriters ==
    ASSUME [Next]_vars
    PROVE  \/ UNCHANGED doc
           \/ \E w \in Workers : Begin(w) \/ Commit(w) \/ UndoDoc(w)
           \/ \E c \in Callers : PutDocument(c) \/ RestoreDocument(c)
<1>1. ASSUME NEW w \in Workers, WorkerMoves(w)
      PROVE  UNCHANGED doc \/ Begin(w) \/ Commit(w) \/ UndoDoc(w)
  BY <1>1 DEF WorkerMoves, WorkerStep, Receive, ReadJob, ReadDoc, Settle, Claim, Refuse, List,
     ListApproved, PutRow, StoreFile, Close, FailJob, ChainRead, ChainPut, ChainSend, Ack,
     Fail, Die, store
<1>2. ASSUME NEW c \in Callers, CallerMoves(c)
      PROVE  UNCHANGED doc \/ PutDocument(c) \/ RestoreDocument(c)
  BY <1>2 DEF CallerMoves, CallStep, NewCall, ReadDocument, ReadRow, ListRows, PutMapping, PutDraft,
     ReadLatest, ReadDraftJob, PutNewJob, SendMessage, FailNewJob, EnqueueFails, CallDies, store
<1>3. ASSUME (\E m \in Messages : Reappear(m) \/ Duplicate(m)) \/ (\E j \in Jobs : LeaseExpires(j))
      PROVE  UNCHANGED doc
  BY <1>3 DEF Reappear, Duplicate, LeaseExpires, store
<1>4. UNCHANGED vars => UNCHANGED doc
  BY DEF vars, store
<1>. QED
  BY <1>1, <1>2, <1>3, <1>4 DEF Next

(* Statuses of the documents that are written. *)
LEMMA BegunStatus ==
    ASSUME NEW d \in Documents
    PROVE  /\ Doing("parse", d).status = "parsing"
           /\ Doing("map", d).status = "mapping"
           /\ Doing("draft", d).status = "drafting"
BY DEF Doing, Documents

LEMMA UndoneStatus ==
    ASSUME NEW d \in Documents, NEW j \in Jobs
    PROVE  Undone(j, d).status = IF j \in Exports THEN jobs[j].previous ELSE "failed"
<1>1. j \notin Exports => j \in {"parse", "map", "draft"} /\ Kind(j) = j
  BY Kinds DEF Jobs
<1>2. j \in Exports => Kind(j) = "export"
  BY DEF Kind
<1>3. /\ \A p : [d EXCEPT !.status = p, !.failure = "export", !.active = "none"].status = p
      /\ [d EXCEPT !.status = "failed", !.failure = "parse", !.active = "none"].status = "failed"
      /\ \A f : [d EXCEPT !.status = "failed", !.failure = f].status = "failed"
  BY DEF Documents
<1>. QED
  BY <1>1, <1>2, <1>3 DEF Undone

LEMMA NewStatus ==
    ASSUME NEW c, call[c].doc \in Documents, call[c].op \in AllOps \ {"edit_mapping"}
    PROVE  NewDocument(c).status =
                CASE call[c].op = "parse"            -> "parsing"
                  [] call[c].op = "approve_mappings" -> "mapping_approved"
                  [] call[c].op = "edit_draft"       -> "drafted"
                  [] call[c].op = "approve_draft"    -> "review_approved"
                  [] call[c].op = "export"           -> "exporting"
<1>. DEFINE e == call[c].doc
<1>1. e \in Documents
  OBVIOUS
<1>. HIDE DEF e
<1>2. /\ [e EXCEPT !.status = "parsing", !.failure = "none", !.active = "parse"].status = "parsing"
      /\ [e EXCEPT !.status = "mapping_approved"].status = "mapping_approved"
      /\ [e EXCEPT !.status = "drafted", !.failure = "none", !.active = "none",
                   !.exported = FALSE].status = "drafted"
      /\ [e EXCEPT !.status = "review_approved", !.failure = "none",
                   !.exported = FALSE].status = "review_approved"
      /\ \A x : [e EXCEPT !.status = "exporting", !.failure = "none",
                          !.active = x].status = "exporting"
  BY <1>1 DEF Documents
<1>. QED
  BY <1>2 DEF NewDocument, e, AllOps

LEMMA LateSticks ==
    ASSUME IInv, Late, [Next]_vars, doc.status \notin Behind \cup {"failed"}
    PROVE  /\ doc'.status \notin Behind
           /\ doc.status # "mapping_approved" => doc'.status # "mapping_approved"
<1>1. CASE UNCHANGED doc
  BY <1>1
<1>2. ASSUME NEW w \in Workers, Begin(w) \/ Commit(w) \/ UndoDoc(w)
      PROVE  doc'.status \in {"drafting", "drafted", "exported", "failed", "review_approved"}
  <2>1. /\ LateWork(wk[w]) /\ LateJobs /\ wk[w].job \in Jobs /\ wk[w].doc \in Documents
        /\ WorkOK(wk[w])
    BY <1>2, AtWork DEF Begin, Commit, UndoDoc, Late
  <2>2. CASE Begin(w)
    <3>1. wk[w].job = "draft"
      BY <2>1, <2>2 DEF LateWork, Begin, WorkOK
    <3>2. Kind(wk[w].job) = "draft"
      BY <3>1, PipelineConstants DEF Kind
    <3>. QED
      BY <2>1, <2>2, <3>2, BegunStatus DEF Begin
  <2>3. CASE Commit(w)
    BY <2>1, <2>3 DEF Commit, LateWork
  <2>4. CASE UndoDoc(w)
    <3>1. doc'.status = IF wk[w].job \in Exports THEN jobs[wk[w].job].previous ELSE "failed"
      BY <2>1, <2>4, UndoneStatus DEF UndoDoc
    <3>. QED
      BY <2>1, <3>1 DEF LateJobs, Backed
  <2>. QED
    BY <1>2, <2>2, <2>3, <2>4
<1>3. ASSUME NEW c \in Callers, PutDocument(c) \/ RestoreDocument(c)
      PROVE  UNCHANGED doc \/ doc'.status \in {"drafted", "exporting", "exported", "review_approved"}
  <2>1. /\ LateCall(call[c]) /\ CallOK(call[c]) /\ call[c].op \in AllOps /\ call[c].doc \in Documents
    BY <1>3, AtCall DEF PutDocument, RestoreDocument, Late
  <2>2. CASE PutDocument(c)
    <3>1. call[c].op \notin {"parse", "edit_mapping"}
      BY <2>1, <2>2 DEF LateCall, CallOK, PutDocument
    <3>2. call[c].op = "approve_mappings" => UNCHANGED doc
      BY <2>2 DEF PutDocument, Expected, Behind
    <3>3. call[c].op # "approve_mappings" =>
            NewDocument(c).status \in {"drafted", "exporting", "review_approved"}
      BY <2>1, <3>1, NewStatus DEF AllOps
    <3>. QED
      BY <2>2, <3>2, <3>3 DEF PutDocument
  <2>3. CASE RestoreDocument(c)
    <3>1. call[c].op = "export" /\ call[c].doc.status \in Backed
      BY <2>1, <2>3 DEF LateCall, RestoreDocument
    <3>2. doc'.status = call[c].doc.status
      BY <2>1, <2>3, <3>1 DEF RestoreDocument, Documents
    <3>. QED
      BY <3>1, <3>2 DEF Backed
  <2>. QED
    BY <1>3, <2>2, <2>3
<1>. QED
  BY <1>1, <1>2, <1>3, DocumentWriters DEF Behind

(* Once the mappings are approved, and once drafting has begun, no stale    *)
(* copy takes the document back (_run_draft_job, enqueue_export, and the    *)
(* conditional writes of the requests): if nothing parses it again.         *)
THEOREM StagesStick == PastIntake => (Spec => ApprovalSticks)
<1>. SUFFICES ASSUME PastIntake PROVE Spec => ApprovalSticks
  OBVIOUS
<1>1. Init => Late
  BY LateInit
<1>2. IInv /\ Late /\ [Next]_vars => Late'
  BY LateNext
<1>3. IInv /\ Late /\ [Next]_vars =>
        [LET past == doc.status \notin Behind \cup {"failed"} IN
         /\ past => doc'.status \notin Behind
         /\ past /\ doc.status # "mapping_approved" => doc'.status # "mapping_approved"]_vars
  BY LateSticks
<1>4. Spec => []IInv
  BY Invariant
<1>. QED
  BY <1>1, <1>2, <1>3, <1>4, PTL DEF Spec, ApprovalSticks

-----------------------------------------------------------------------------
(* Drafting every section *)

(* The mappings under review are approved, and no longer edited. *)
ApprovingOnly == PastIntake /\ "edit_mapping" \notin Ops

FirstSections == Orders \X {1}
DraftedOn == {"drafted", "review_approved", "exporting", "exported"}
AllMapped(m)  == \A s \in FirstSections : m[s].status = "approved"
AllDrafted(t) == \A s \in FirstSections : t[s].status # "absent"

(* What a document's status, or a copy's, says about the rows.  Neither row *)
(* condition is ever lost again, so it says the same of a stale copy.       *)
Backs(d, m, t) ==
    /\ d.status \notin {"upload_pending", "mapped"} => AllMapped(m)
    /\ d.status \in DraftedOn => AllDrafted(t)

DraftWork(i, m, t) ==
    /\ Backs(i.doc, m, t)
    /\ i.pc = "store" => i.job \in Exports
    /\ i.pc = "approved" => i.todo = FirstSections
    /\ i.pc = "rows" => \A s \in FirstSections \ i.todo : t[s].status # "absent"
    /\ i.pc \in HoldingPcs \ {"refuse"} => i.doc.status \notin {"upload_pending", "mapped"}
    /\ i.pc \in HoldingPcs \ {"refuse"} /\ i.job \in Exports => i.doc.status \in DraftedOn

DraftCall(r, m, t) ==
    /\ Backs(r.doc, m, t)
    /\ r.op # "edit_mapping"
    /\ r.pc \notin {"idle", "read"} => r.doc.status \in Admitted(r.op)
    /\ r.op = "approve_mappings" /\ r.pc = "put" =>
          \A s \in FirstSections \ r.todo : m[s].status = "approved"
    /\ r.op = "approve_mappings" /\ r.pc = "cas" => AllMapped(m)

DraftRows ==
    /\ sec = [o \in Orders |-> 1]
    /\ \A s \in FirstSections : maps[s].status # "absent"
    /\ Backs(doc, maps, drafts)

Drafting ==
    /\ DraftRows
    /\ \A w \in Workers : DraftWork(wk[w], maps, drafts)
    /\ \A c \in Callers : DraftCall(call[c], maps, drafts)

LEMMA FirstAreSections == FirstSections \subseteq Sections
<1>1. 1 \in 1..MaxParses
  BY PipelineConstants
<1>. QED
  BY <1>1 DEF FirstSections, Sections

LEMMA FirstAreCurrent ==
    ASSUME sec = [o \in Orders |-> 1]
    PROVE  CurrentSections = FirstSections
<1>1. {o \in Orders : sec[o] # 0} = Orders
  OBVIOUS
<1>2. CurrentSections = {<<o, sec[o]>> : o \in Orders}
  BY <1>1 DEF CurrentSections
<1>3. \A o \in Orders : <<o, sec[o]>> = <<o, 1>>
  OBVIOUS
<1>4. CurrentSections \subseteq FirstSections
  BY <1>2, <1>3 DEF FirstSections
<1>5. FirstSections \subseteq CurrentSections
  <2>1. SUFFICES ASSUME NEW s \in FirstSections PROVE s \in CurrentSections
    OBVIOUS
  <2>2. PICK o \in Orders : s = <<o, 1>>
    BY DEF FirstSections
  <2>3. s = <<o, sec[o]>>
    BY <2>2
  <2>. QED
    BY <1>2, <2>3
<1>. QED
  BY <1>4, <1>5

(* Approved mappings stay approved, and no row goes away. *)
RowsGrow ==
    /\ sec' = sec
    /\ \A s \in Sections :
         /\ maps[s].status = "approved" => maps'[s].status = "approved"
         /\ maps[s].status # "absent" => maps'[s].status # "absent"
         /\ drafts[s].status # "absent" => drafts'[s].status # "absent"

LEMMA RowsOnlyGrow ==
    ASSUME IInv, Late, Drafting, [Next]_vars
    PROVE  RowsGrow
<1>0. maps \in [Sections -> Rows] /\ drafts \in [Sections -> Rows]
  BY DEF IInv, StoreOK
<1>1. UNCHANGED rows => RowsGrow
  BY DEF rows, RowsGrow
<1>2. ASSUME NEW w \in Workers, WorkerMoves(w)
      PROVE  RowsGrow
  <2>1. UNCHANGED rows \/ PutRow(w)
    BY <1>2 DEF WorkerMoves, WorkerStep, Receive, ReadJob, ReadDoc, Settle, Claim, Refuse, Begin,
       List, ListApproved, StoreFile, Commit, Close, UndoDoc, FailJob, ChainRead, ChainPut,
       ChainSend, Ack, Fail, Die, store
  <2>2. CASE PutRow(w)
    <3>1. wk[w].job = "draft"
      BY <2>2, AtWork DEF PutRow, WorkOK, Late, LateWork
    <3>. DEFINE proposed == [status |-> "proposed", text |-> "model"]
    <3>2. PICK s : drafts' = [drafts EXCEPT ![s] = proposed] /\ UNCHANGED <<sec, maps>>
      BY <2>2, <3>1 DEF PutRow
    <3>3. proposed.status # "absent"
      OBVIOUS
    <3>. HIDE DEF proposed
    <3>. QED
      BY <1>0, <3>2, <3>3 DEF RowsGrow
  <2>. QED
    BY <1>1, <2>1, <2>2
<1>3. ASSUME NEW c \in Callers, CallerMoves(c)
      PROVE  RowsGrow
  <2>1. UNCHANGED rows \/ PutMapping(c) \/ PutDraft(c)
    BY <1>3 DEF CallerMoves, CallStep, NewCall, ReadDocument, ReadRow, ListRows, PutDocument,
       ReadLatest, ReadDraftJob, PutNewJob, SendMessage, RestoreDocument, FailNewJob,
       EnqueueFails, CallDies, store
  <2>2. CASE PutMapping(c)
    <3>1. call[c].op # "edit_mapping"
      BY DEF Drafting, DraftCall
    <3>2. PICK s : maps' = [maps EXCEPT ![s] = Approve(c, s)]
      BY <2>2, <3>1 DEF PutMapping, At
    <3>3. Approve(c, s).status = "approved"
      BY DEF Approve
    <3>. QED
      BY <1>0, <2>2, <3>2, <3>3 DEF RowsGrow, PutMapping
  <2>3. CASE PutDraft(c)
    <3>1. Edit(c).status # "absent" /\ \A s : Approve(c, s).status # "absent"
      BY DEF Approve, Edit
    <3>2. \E s, row : drafts' = [drafts EXCEPT ![s] = row] /\ row.status # "absent"
      BY <2>3, <3>1 DEF PutDraft
    <3>. QED
      BY <1>0, <2>3, <3>2 DEF RowsGrow, PutDraft
  <2>. QED
    BY <1>1, <2>1, <2>2, <2>3
<1>4. ASSUME (\E m \in Messages : Reappear(m) \/ Duplicate(m)) \/ (\E j \in Jobs : LeaseExpires(j))
      PROVE  UNCHANGED rows
  BY <1>4 DEF Reappear, Duplicate, LeaseExpires, store
<1>5. UNCHANGED vars => UNCHANGED rows
  BY DEF vars, store
<1>. QED
  BY <1>1, <1>2, <1>3, <1>4, <1>5 DEF Next

(* What was known of the rows is still true of them. *)
LEMMA BacksStays ==
    ASSUME RowsGrow
    PROVE  /\ AllMapped(maps) => AllMapped(maps')
           /\ AllDrafted(drafts) => AllDrafted(drafts')
           /\ \A d : Backs(d, maps, drafts) => Backs(d, maps', drafts')
           /\ \A i : DraftWork(i, maps, drafts) => DraftWork(i, maps', drafts')
           /\ \A r : DraftCall(r, maps, drafts) => DraftCall(r, maps', drafts')
<1>1. AllMapped(maps) => AllMapped(maps')
  BY FirstAreSections DEF AllMapped, RowsGrow
<1>2. AllDrafted(drafts) => AllDrafted(drafts')
  BY FirstAreSections DEF AllDrafted, RowsGrow
<1>3. ASSUME NEW d, Backs(d, maps, drafts) PROVE Backs(d, maps', drafts')
  BY <1>1, <1>2, <1>3 DEF Backs
<1>4. ASSUME NEW i, DraftWork(i, maps, drafts) PROVE DraftWork(i, maps', drafts')
  BY <1>3, <1>4, FirstAreSections DEF DraftWork, RowsGrow
<1>5. ASSUME NEW r, DraftCall(r, maps, drafts) PROVE DraftCall(r, maps', drafts')
  BY <1>1, <1>3, <1>5, FirstAreSections DEF DraftCall, RowsGrow
<1>. QED
  BY <1>1, <1>2, <1>3, <1>4, <1>5

LEMMA DraftingWorker ==
    ASSUME IInv, Late, Drafting, NEW w \in Workers, WorkerMoves(w), RowsGrow
    PROVE  DraftWork(wk'[w], maps', drafts') /\ Backs(doc', maps', drafts')
<1>. DEFINE i == wk[w]
<1>1. /\ LateWork(i) /\ DraftWork(i, maps, drafts) /\ DraftRows
      /\ DraftWork(i, maps', drafts') /\ Backs(i.doc, maps', drafts')
      /\ Backs(doc, maps', drafts')
  BY BacksStays DEF Late, Drafting, DraftRows, DraftWork
<1>2. i \in Works /\ wk \in [Workers -> Works] /\ jobs \in [Jobs -> JobRows] /\ doc \in Documents
  BY DEF IInv, WorkersOK, StoreOK
<1>3. i.pc # "idle" => /\ i.job \in Jobs \ {"parse", "map"} /\ i.doc \in Documents
                       /\ i.todo \subseteq Sections
  BY <1>1, AtWork DEF LateWork
<1>4. i.pc # "idle" => Kind(i.job) \in {"draft", "export"} /\ (Kind(i.job) = "export" <=> i.job \in Exports)
  BY <1>3, Kinds
<1>5. DraftWork(NoWork, maps', drafts')
  BY DEF DraftWork, NoWork, NoDoc, HoldingPcs, Backs, DraftedOn
<1>6. CASE \E m \in Messages : Receive(w, m)
  <2>1. PICK m \in Messages : Receive(w, m)
    BY <1>6
  <2>2. wk'[w] = [NoWork EXCEPT !.pc = "job", !.msg = m, !.job = msgs[m].job] /\ UNCHANGED doc
    BY <2>1, Reading DEF Receive, store
  <2>3. wk'[w].pc = "job" /\ wk'[w].doc = NoDoc
    BY <2>2 DEF NoWork
  <2>4. Backs(NoDoc, maps', drafts')
    BY DEF Backs, NoDoc, DraftedOn
  <2>. QED
    BY <1>1, <2>2, <2>3, <2>4 DEF DraftWork, HoldingPcs
<1>7. CASE ReadJob(w) \/ ReadDoc(w)
  <2>1. UNCHANGED doc /\ i.pc # "idle"
    BY <1>7 DEF ReadJob, ReadDoc, store
  <2>2. ReadJob(w) => Became(w, "doc", i.doc, i.todo, i.texts)
    BY Reading
  <2>3. ReadDoc(w) => \E l \in {"ack", "settle", "claim", "chain"} : Became(w, l, doc, i.todo, i.texts)
    BY Reading
  <2>. QED
    BY <1>1, <1>7, <2>1, <2>2, <2>3 DEF DraftWork, HoldingPcs, Became
(* a step that only moves on keeps the copy *)
<1>8. ASSUME NEW l, Goto(w, l), l \notin {"approved", "rows"},
             l # "store",
             l \in HoldingPcs \ {"refuse"} =>
                /\ i.doc.status \notin {"upload_pending", "mapped"}
                /\ i.job \in Exports => i.doc.status \in DraftedOn
      PROVE  DraftWork(wk'[w], maps', drafts')
  BY <1>1, <1>8, GoesTo DEF DraftWork, Became
<1>9. CASE Settle(w) \/ Refuse(w) \/ Close(w) \/ Fail(w)
  <2>1. UNCHANGED doc
    BY <1>9 DEF Settle, Refuse, Close, Fail, store
  <2>2. \/ \E l \in {"chain", "ack"} : Goto(w, l)
        \/ Goto(w, "undo") /\ i.pc \in TryPcs
    BY <1>9 DEF Settle, Refuse, Close, Fail
  <2>. QED
    BY <1>1, <1>8, <2>1, <2>2 DEF DraftWork, HoldingPcs, TryPcs
<1>10. CASE Claim(w)
  <2>1. UNCHANGED doc /\ i.pc # "idle"
    BY <1>10 DEF Claim
  <2>2. \/ \E l \in {"refuse", "ack"} : Goto(w, l)
        \/ /\ \E l \in {"list", "begin"} : Goto(w, l)
           /\ MayEnter(Kind(i.job), i.doc) \/ MayRetry(Kind(i.job), i.doc)
    BY <1>10 DEF Claim
  <2>3. MayEnter(Kind(i.job), i.doc) \/ MayRetry(Kind(i.job), i.doc) =>
           /\ i.doc.status \notin {"upload_pending", "mapped"}
           /\ i.job \in Exports => i.doc.status \in DraftedOn
    BY <1>4, <2>1 DEF MayEnter, MayRetry, DraftedOn
  <2>. QED
    BY <1>1, <1>8, <2>1, <2>2, <2>3 DEF HoldingPcs
<1>11. CASE Begin(w)
  <2>1. i.pc = "begin" /\ i.job = "draft" /\ doc' = Doing(Kind(i.job), i.doc)
    BY <1>1, <1>11, AtWork DEF Begin, WorkOK, LateWork
  <2>2. Kind(i.job) = "draft"
    BY <2>1, PipelineConstants DEF Kind
  <2>3. doc'.status = "drafting"
    BY <1>3, <2>1, <2>2, BegunStatus
  <2>4. AllMapped(maps')
    BY <1>1, <2>1, BacksStays DEF DraftWork, HoldingPcs, Backs
  <2>5. Backs(doc', maps', drafts')
    BY <2>3, <2>4 DEF Backs, DraftedOn
  <2>6. Became(w, "list", doc', i.todo, i.texts)
    BY <1>11, <2>1, <2>2, Working
  <2>. QED
    BY <2>1, <2>3, <2>5, <2>6, PipelineConstants DEF Became, DraftWork
<1>12. CASE List(w)
  <2>1. UNCHANGED doc /\ i.pc = "list"
    BY <1>12 DEF List, store
  <2>2. \/ Became(w, "approved", i.doc, CurrentSections, i.texts)
        \/ i.job \in Exports /\ \E texts : Became(w, "store", i.doc, i.todo, texts)
        \/ Goto(w, "undo")
    BY <1>4, <1>12, <2>1, Working
  <2>3. CurrentSections = FirstSections
    BY <1>1, FirstAreCurrent DEF DraftRows
  <2>4. /\ i.doc.status \notin {"upload_pending", "mapped"}
        /\ i.job \in Exports => i.doc.status \in DraftedOn
    BY <1>1, <2>1 DEF DraftWork, HoldingPcs
  <2>5. Goto(w, "undo") => DraftWork(wk'[w], maps', drafts')
    BY <1>8, <2>4
  <2>. QED
    BY <1>1, <2>1, <2>2, <2>3, <2>4, <2>5 DEF DraftWork, Became
<1>13. ASSUME NEW todo, Write(w, i.doc, todo), i.pc \in HoldingPcs \ {"refuse"},
              \A s \in FirstSections \ todo : drafts'[s].status # "absent"
       PROVE  DraftWork(wk'[w], maps', drafts')
  <2>1. /\ i.doc.status \notin {"upload_pending", "mapped"}
        /\ i.job \in Exports => i.doc.status \in DraftedOn
        /\ i.pc # "idle"
    BY <1>1, <1>13 DEF DraftWork, HoldingPcs
  <2>2. AllMapped(maps')
    BY <1>1, <2>1, BacksStays DEF Backs
  <2>3. Became(w, IF todo = {} THEN "commit" ELSE "rows",
               IF todo = {} THEN Done(Kind(i.job), i.doc) ELSE i.doc, todo, i.texts)
    BY <1>13, WritesTo
  <2>4. CASE todo = {}
    <3>1. AllDrafted(drafts')
      BY <1>13, <2>4 DEF AllDrafted
    <3>2. Done(Kind(i.job), i.doc).status \in {"drafted", "exported"}
      BY <1>3, <2>1, LateDone
    <3>3. Backs(Done(Kind(i.job), i.doc), maps', drafts')
      BY <2>2, <3>1 DEF Backs
    <3>. QED
      BY <2>3, <2>4, <3>2, <3>3 DEF Became, DraftWork, DraftedOn
  <2>5. CASE todo # {}
    BY <1>1, <1>13, <2>1, <2>3, <2>5 DEF Became, DraftWork
  <2>. QED
    BY <2>4, <2>5
<1>14. CASE ListApproved(w)
  <2>1. UNCHANGED doc /\ i.pc = "approved"
    BY <1>14 DEF ListApproved, store
  <2>2. i.todo = FirstSections /\ AllMapped(maps)
    BY <1>1, <2>1 DEF DraftWork, HoldingPcs, Backs
  <2>3. {s \in i.todo : maps[s].status = "approved"} = FirstSections
    BY <2>2 DEF AllMapped
  <2>4. Write(w, i.doc, FirstSections)
    BY <1>14, <2>3 DEF ListApproved
  <2>. QED
    BY <1>1, <1>13, <2>1, <2>4 DEF HoldingPcs
<1>15. CASE PutRow(w)
  <2>1. UNCHANGED doc /\ i.pc = "rows"
    BY <1>15 DEF PutRow
  <2>2. i.job = "draft" /\ drafts \in [Sections -> Rows] /\ i.todo \subseteq Sections
    BY <1>1, <2>1, AtWork DEF WorkOK, LateWork, StoreOK
  <2>. DEFINE proposed == [status |-> "proposed", text |-> "model"]
  <2>3. PICK s \in i.todo : drafts' = [drafts EXCEPT ![s] = proposed] /\ Write(w, i.doc, i.todo \ {s})
    BY <1>15, <2>2 DEF PutRow
  <2>4. proposed.status # "absent"
    OBVIOUS
  <2>. HIDE DEF proposed
  <2>5. \A t \in FirstSections \ (i.todo \ {s}) : drafts'[t].status # "absent"
    <3>1. ASSUME NEW t \in FirstSections \ (i.todo \ {s}) PROVE drafts'[t].status # "absent"
      <4>1. CASE t = s
        BY <2>2, <2>3, <2>4, <4>1
      <4>2. CASE t # s
        BY <1>1, <2>1, <4>2, FirstAreSections DEF DraftWork, RowsGrow
      <4>. QED
        BY <4>1, <4>2
    <3>. QED
      BY <3>1
  <2>. QED
    BY <1>1, <1>13, <2>1, <2>3, <2>5 DEF HoldingPcs
<1>16. CASE StoreFile(w)
  <2>1. UNCHANGED doc /\ i.pc = "store" /\ Write(w, i.doc, {})
    BY <1>16 DEF StoreFile
  <2>2. AllDrafted(drafts')
    <3>1. i.job \in Exports
      BY <1>1, <2>1 DEF DraftWork
    <3>. QED
      BY <1>1, <2>1, <3>1, BacksStays DEF DraftWork, HoldingPcs, Backs
  <2>. QED
    BY <1>1, <1>13, <2>1, <2>2 DEF HoldingPcs, AllDrafted
<1>17. CASE Commit(w)
  <2>1. doc' = i.doc /\ i.pc = "commit" /\ Goto(w, "close")
    BY <1>17 DEF Commit
  <2>. QED
    BY <1>1, <1>8, <2>1 DEF DraftWork, HoldingPcs
<1>18. CASE UndoDoc(w)
  <2>1. doc' = Undone(i.job, i.doc) /\ i.pc = "undo" /\ Goto(w, "failjob")
    BY <1>18 DEF UndoDoc
  <2>2. /\ i.doc.status \notin {"upload_pending", "mapped"}
        /\ i.job \in Exports => i.doc.status \in DraftedOn
    BY <1>1, <2>1 DEF DraftWork, HoldingPcs
  <2>3. AllMapped(maps') /\ (i.job \in Exports => AllDrafted(drafts'))
    BY <1>1, <2>2 DEF Backs
  <2>4. doc'.status = IF i.job \in Exports THEN jobs[i.job].previous ELSE "failed"
    BY <1>3, <2>1, UndoneStatus
  <2>5. Backs(doc', maps', drafts')
    BY <2>3, <2>4 DEF Backs, DraftedOn
  <2>. QED
    BY <1>8, <2>1, <2>2, <2>5
<1>19. CASE FailJob(w) \/ Ack(w) \/ Die(w)
  <2>1. UNCHANGED doc /\ (wk' = [wk EXCEPT ![w] = NoWork] \/ Goto(w, "ack"))
    BY <1>19 DEF FailJob, Ack, Die, store
  <2>2. Goto(w, "ack") => DraftWork(wk'[w], maps', drafts')
    BY <1>8 DEF HoldingPcs
  <2>. QED
    BY <1>1, <1>2, <1>5, <2>1, <2>2
<1>20. ~(ChainRead(w) \/ ChainPut(w) \/ ChainSend(w))
  BY <1>1 DEF LateWork, ChainRead, ChainPut, ChainSend
<1>. QED
  BY <1>6, <1>7, <1>9, <1>10, <1>11, <1>12, <1>14, <1>15, <1>16, <1>17, <1>18, <1>19, <1>20
     DEF WorkerMoves, WorkerStep

LEMMA DraftingCaller ==
    ASSUME IInv, Late, Drafting, ApprovingOnly, NEW c \in Callers, CallerMoves(c), RowsGrow
    PROVE  DraftCall(call'[c], maps', drafts') /\ Backs(doc', maps', drafts')
<1>. DEFINE r == call[c]
<1>1. /\ LateCall(r) /\ DraftCall(r, maps, drafts) /\ DraftRows
      /\ DraftCall(r, maps', drafts') /\ Backs(r.doc, maps', drafts')
      /\ Backs(doc, maps', drafts')
  BY BacksStays DEF Late, Drafting, DraftRows, DraftCall
<1>2. /\ r \in Asked /\ call \in [Callers -> Asked] /\ doc \in Documents /\ CallOK(r)
      /\ maps \in [Sections -> Rows]
  BY DEF IInv, CallersOK, StoreOK
<1>3. r.pc # "idle" => /\ r.op \in AllOps \ {"parse", "edit_mapping"} /\ r.doc \in Documents
                       /\ r.todo \subseteq Sections
  BY <1>1, AtCall DEF LateCall, DraftCall
<1>4. Backs(NoDoc, maps', drafts')
  BY DEF Backs, NoDoc, DraftedOn
<1>5. Over(c) => DraftCall(call'[c], maps', drafts')
  BY <1>4 DEF Over, DraftCall, NoCall
(* a step that only moves on keeps the copy *)
<1>6. ASSUME NEW l, Step(c, l), r.pc \notin {"idle", "read"},
             r.op = "approve_mappings" => l \notin {"put", "cas"}
      PROVE  DraftCall(call'[c], maps', drafts')
  <2>1. CASE l = "idle"
    BY <1>5, <1>6, <2>1, StepsTo
  <2>2. CASE l # "idle"
    <3>1. Went(c, l, r.doc, r.copy, r.todo, r.job)
      BY <1>6, <2>2, StepsTo
    <3>. QED
      BY <1>1, <1>6, <3>1 DEF DraftCall, Went
  <2>. QED
    BY <2>1, <2>2
<1>7. CASE NewCall(c)
  <2>1. PICK op \in Ops, s \in Sections \cup {NoSection} :
           /\ op \in RowOps => s \in Listed(Table(op))
           /\ call'[c] = [NoCall EXCEPT !.op = op, !.pc = "read", !.sec = s]
    BY <1>7, Asking
  <2>2. call'[c].op = op /\ call'[c].pc = "read" /\ call'[c].doc = NoDoc
    BY <2>1 DEF NoCall
  <2>3. UNCHANGED doc
    BY <1>7 DEF NewCall, store
  <2>. QED
    BY <1>1, <1>4, <2>2, <2>3 DEF ApprovingOnly, DraftCall
<1>8. CASE ReadDocument(c)
  <2>1. UNCHANGED doc /\ r.pc = "read"
    BY <1>8 DEF ReadDocument, store
  <2>2. AfterRead(r.op, doc) \in {"cas", "row", "list", "jobread"}
        /\ (r.op = "approve_mappings" => AfterRead(r.op, doc) \notin {"put", "cas"})
    BY <1>3, <2>1 DEF AfterRead, AllOps, RowOps
  <2>3. \/ /\ doc.status \in Admitted(r.op)
           /\ Went(c, AfterRead(r.op, doc), doc, r.copy, r.todo, r.job)
        \/ Over(c)
    BY <1>8, Asking
  <2>. QED
    BY <1>1, <1>5, <2>1, <2>2, <2>3 DEF DraftCall, Went
<1>9. CASE ReadRow(c)
  <2>1. UNCHANGED doc /\ r.pc = "row" /\ r.op # "approve_mappings"
    BY <1>2, <1>9 DEF ReadRow, store, CallOK, RowOps
  <2>2. \E l, copy : Went(c, l, r.doc, copy, r.todo, r.job)
    BY <1>9, Asking
  <2>. QED
    BY <1>1, <2>1, <2>2 DEF DraftCall, Went
<1>10. CASE ListRows(c)
  <2>1. UNCHANGED <<doc, maps>> /\ r.pc = "list"
    BY <1>10 DEF ListRows, store, rows
  <2>2. FirstSections \subseteq Listed(maps)
    BY <1>1, FirstAreSections DEF DraftRows, Listed
  <2>3. \/ r.op = "approve_mappings" /\ Went(c, "put", r.doc, maps, Listed(maps), r.job)
        \/ r.op # "approve_mappings" /\ \E job : Went(c, "cas", r.doc, r.copy, r.todo, job)
        \/ Over(c)
    BY <1>10, Listing
  <2>. QED
    BY <1>1, <1>5, <2>1, <2>2, <2>3 DEF DraftCall, Went
<1>11. CASE PutMapping(c)
  <2>1. UNCHANGED doc /\ r.pc = "put" /\ r.op = "approve_mappings"
    BY <1>1, <1>11 DEF PutMapping, At, DraftCall
  <2>2. PICK s \in r.todo :
          /\ maps' = [maps EXCEPT ![s] = Approve(c, s)]
          /\ Went(c, IF r.todo = {s} THEN "cas" ELSE "put", r.doc, r.copy, r.todo \ {s}, r.job)
    BY <1>11, <2>1, Listing DEF At
  <2>3. Approve(c, s).status = "approved"
    BY DEF Approve
  <2>4. \A t \in FirstSections \ (r.todo \ {s}) : maps'[t].status = "approved"
    <3>1. ASSUME NEW t \in FirstSections \ (r.todo \ {s}) PROVE maps'[t].status = "approved"
      <4>1. CASE t = s
        BY <1>2, <2>2, <2>3, <4>1, FirstAreSections
      <4>2. CASE t # s
        BY <1>1, <2>1, <4>2, FirstAreSections DEF DraftCall, RowsGrow
      <4>. QED
        BY <4>1, <4>2
    <3>. QED
      BY <3>1
  <2>5. r.todo = {s} => AllMapped(maps')
    BY <2>4 DEF AllMapped
  <2>. QED
    BY <1>1, <2>1, <2>2, <2>4, <2>5 DEF DraftCall, Went
<1>12. CASE PutDraft(c) \/ ReadLatest(c) \/ ReadDraftJob(c) \/ PutNewJob(c) \/ FailNewJob(c)
            \/ SendMessage(c) \/ EnqueueFails(c)
  <2>1. UNCHANGED doc /\ r.pc \notin {"idle", "read"}
    BY <1>12 DEF PutDraft, ReadLatest, ReadDraftJob, PutNewJob, FailNewJob, SendMessage,
       EnqueueFails, At, store
  <2>2. \E l \in {"idle", "list", "jobread", "jobput", "send", "undo"} : Step(c, l)
    BY <1>12 DEF PutDraft, ReadLatest, ReadDraftJob, PutNewJob, FailNewJob, SendMessage, EnqueueFails
  <2>. QED
    BY <1>1, <1>6, <2>1, <2>2
<1>13. CASE PutDocument(c)
  <2>1. r.pc = "cas"
    BY <1>13 DEF PutDocument
  <2>2. \E l : Step(c, l) /\ (r.op = "approve_mappings" => l \notin {"put", "cas"})
    BY <1>13 DEF PutDocument, AfterCas, RowOps
  <2>3. UNCHANGED doc \/ doc' = NewDocument(c)
    BY <1>13 DEF PutDocument
  <2>4. r.op \in {"approve_mappings", "edit_draft", "approve_draft", "export"}
    BY <1>3, <2>1 DEF AllOps
  <2>5. AllMapped(maps') /\ (r.op # "approve_mappings" => AllDrafted(drafts'))
    <3>1. CASE r.op = "approve_mappings"
      BY <1>1, <2>1, <3>1 DEF DraftCall
    <3>2. CASE r.op # "approve_mappings"
      <4>1. r.doc.status \in DraftedOn
        BY <1>1, <2>1, <2>4, <3>2 DEF DraftCall, Admitted, DraftedOn
      <4>. QED
        BY <1>1, <3>2, <4>1 DEF Backs, DraftedOn
    <3>. QED
      BY <3>1, <3>2
  <2>6. NewDocument(c).status = IF r.op = "approve_mappings" THEN "mapping_approved"
                                ELSE NewDocument(c).status
    BY <1>3, <2>1, <2>4, NewStatus
  <2>7. Backs(NewDocument(c), maps', drafts')
    BY <2>4, <2>5, <2>6 DEF Backs, DraftedOn
  <2>. QED
    BY <1>1, <1>6, <2>1, <2>2, <2>3, <2>7
<1>14. CASE RestoreDocument(c)
  <2>1. r.pc = "undo" /\ Step(c, "undojob")
    BY <1>14 DEF RestoreDocument
  <2>2. r.doc \in Documents
    BY <1>3, <2>1
  <2>3. doc'.status = r.doc.status
    BY <1>14, <2>2 DEF RestoreDocument, Documents
  <2>4. Backs(doc', maps', drafts')
    BY <1>1, <2>3 DEF Backs
  <2>. QED
    BY <1>6, <2>1, <2>4
<1>15. CASE CallDies(c)
  <2>1. UNCHANGED doc /\ Step(c, "idle")
    BY <1>15 DEF CallDies, store
  <2>. QED
    BY <1>1, <1>5, <2>1, StepsTo
<1>. QED
  BY <1>7, <1>8, <1>9, <1>10, <1>11, <1>12, <1>13, <1>14, <1>15 DEF CallerMoves, CallStep

LEMMA DraftingNext ==
    ASSUME IInv, Late, Drafting, ApprovingOnly, [Next]_vars
    PROVE  Drafting'
<1>1. RowsGrow
  BY RowsOnlyGrow
<1>2. /\ Backs(doc, maps', drafts')
      /\ \A w \in Workers : DraftWork(wk[w], maps', drafts')
      /\ \A c \in Callers : DraftCall(call[c], maps', drafts')
  BY <1>1, BacksStays DEF Drafting, DraftRows
<1>3. /\ sec' = [o \in Orders |-> 1]
      /\ \A s \in FirstSections : maps'[s].status # "absent"
  BY <1>1, FirstAreSections DEF Drafting, DraftRows, RowsGrow
<1>4. CASE (\E w \in Workers : WorkerMoves(w)) /\ UNCHANGED apivars
  <2>1. PICK w \in Workers : WorkerMoves(w)
    BY <1>4
  <2>2. DraftWork(wk'[w], maps', drafts') /\ Backs(doc', maps', drafts')
    BY <1>1, <2>1, DraftingWorker
  <2>3. call' = call /\ \A v \in Workers \ {w} : wk'[v] = wk[v]
    BY <1>4, <2>1, LateWorker DEF apivars
  <2>. QED
    BY <1>2, <1>3, <2>2, <2>3 DEF Drafting, DraftRows
<1>5. CASE \E c \in Callers : CallerMoves(c)
  <2>1. PICK c \in Callers : CallerMoves(c)
    BY <1>5
  <2>2. DraftCall(call'[c], maps', drafts') /\ Backs(doc', maps', drafts')
    BY <1>1, <2>1, DraftingCaller
  <2>3. wk' = wk /\ \A e \in Callers \ {c} : call'[e] = call[e]
    BY <2>1, LateCaller, CallerLeavesWork DEF wkvars, ApprovingOnly
  <2>. QED
    BY <1>2, <1>3, <2>2, <2>3 DEF Drafting, DraftRows
<1>6. CASE UNCHANGED <<wk, call, doc>>
  BY <1>2, <1>3, <1>6 DEF Drafting, DraftRows
<1>7. (\E m \in Messages : Reappear(m) \/ Duplicate(m)) \/ (\E j \in Jobs : LeaseExpires(j)) =>
        UNCHANGED <<wk, doc>>
  BY DEF Reappear, Duplicate, LeaseExpires, store, wkvars
<1>8. UNCHANGED vars => UNCHANGED <<wk, call, doc>>
  BY DEF vars, store, wkvars, apivars
<1>. QED
  BY <1>4, <1>5, <1>6, <1>7, <1>8 DEF Next, apivars

LEMMA DraftingInit ==
    ASSUME ApprovingOnly, Init
    PROVE  Drafting
<1>1. PICK a \in Scenarios : StoreInit(a.start)
  BY DEF Init
<1>2. a.start \in {"mapped", "drafted"}
  BY <1>1, PipelineBounds DEF ApprovingOnly, PastIntake, Begun
<1>3. sec = [o \in Orders |-> 1] /\ doc.status = a.start
  BY <1>1, <1>2 DEF StoreInit
<1>4. \A s \in FirstSections : s \in Sections /\ s[2] = 1
  BY FirstAreSections DEF FirstSections
<1>5. \A s \in FirstSections : FirstRows[s] = [status |-> "proposed", text |-> "model"]
  BY <1>4 DEF FirstRows
<1>6. \A s \in FirstSections : FirstRows[s].status = "proposed" /\ FirstRows[s] # NoRow
  BY <1>5 DEF NoRow
<1>7. \A s \in FirstSections : Reviewed(FirstRows, "approved")[s].status = "approved"
  BY <1>4, <1>5, <1>6 DEF Reviewed
<1>8. \A s \in FirstSections : maps[s].status \in {"proposed", "approved"}
  BY <1>1, <1>2, <1>6, <1>7 DEF StoreInit
<1>9. doc.status = "drafted" => AllMapped(maps) /\ AllDrafted(drafts)
  BY <1>1, <1>3, <1>6, <1>7 DEF StoreInit, AllMapped, AllDrafted
<1>10. DraftRows
  BY <1>2, <1>3, <1>8, <1>9 DEF DraftRows, Backs, DraftedOn
<1>11. Backs(NoDoc, maps, drafts)
  BY DEF Backs, NoDoc, DraftedOn
<1>12. DraftWork(NoWork, maps, drafts)
  BY <1>11 DEF DraftWork, NoWork, HoldingPcs
<1>13. DraftCall(NoCall, maps, drafts)
  BY <1>11 DEF DraftCall, NoCall
<1>. QED
  BY <1>10, <1>12, <1>13 DEF Init, Drafting

(* When drafting is done every section has a draft, however approvals race, *)
(* requests and invocations die and messages come twice: as long as the     *)
(* mappings under review are only approved, not edited at the same time     *)
(* (_approve_mappings, and _run_draft_job's filter on approved mappings).   *)
THEOREM SectionsDrafted == ApprovingOnly => (Spec => []EverySectionDrafted)
<1>. SUFFICES ASSUME ApprovingOnly PROVE Spec => []EverySectionDrafted
  OBVIOUS
<1>1. Init => Late /\ Drafting
  BY LateInit, DraftingInit DEF ApprovingOnly
<1>2. IInv /\ Late /\ Drafting /\ [Next]_vars => Late' /\ Drafting'
  BY LateNext, DraftingNext DEF ApprovingOnly
<1>3. Drafting => EverySectionDrafted
  <2>1. SUFFICES ASSUME Drafting, doc.status = "drafted", NEW s \in CurrentSections
                 PROVE  drafts[s] # NoRow
    BY DEF EverySectionDrafted
  <2>2. s \in FirstSections
    BY <2>1, FirstAreCurrent DEF Drafting, DraftRows
  <2>3. AllDrafted(drafts)
    BY <2>1 DEF Drafting, DraftRows, Backs, DraftedOn
  <2>. QED
    BY <2>2, <2>3 DEF AllDrafted, NoRow
<1>4. Spec => []IInv
  BY Invariant
<1>. QED
  BY <1>1, <1>2, <1>3, <1>4, PTL DEF Spec

-----------------------------------------------------------------------------
(* Leases *)

(* A job without a row is no message's and no invocation's. *)
Unused ==
    \A j \in Jobs : jobs[j].status = "none" =>
        /\ \A m \in Messages : msgs[m].job # j
        /\ \A w \in Workers : wk[w].job # j

(* An invocation past its claim has the lease, unless its job is done. *)
Leased ==
    \A j \in Jobs, w \in Workers : Holds(w, j) =>
        \/ jobs[j].status = "succeeded"
        \/ jobs[j].status = "running" /\ jobs[j].lease = wk[w].msg

LeaseInv == Unused /\ Leased /\ OneClaimant

(* Job rows are put where there is none, and before their messages are sent. *)
FreshJobs ==
    /\ \A w \in Workers :
         /\ wk[w].pc = "chainput" => jobs["map"].status = "none"
         /\ wk[w].pc = "chainsend" => jobs["map"].status # "none"
    /\ \A c \in Callers :
         /\ call[c].pc # "undojob"
         /\ call[c].pc = "jobput" => jobs[JobOf(c)].status = "none"
         /\ call[c].pc = "send" => jobs[JobOf(c)].status # "none"

(* Whom a step of w concerns, and how w comes to hold a job. *)
LEMMA WorkerOnly ==
    ASSUME IInv, NEW w \in Workers, WorkerMoves(w)
    PROVE  /\ \A v \in Workers \ {w} : wk'[v] = wk[v]
           /\ \/ wk'[w] = NoWork /\ wk[w].pc # "idle"
              \/ /\ wk'[w].job = wk[w].job /\ wk'[w].msg = wk[w].msg /\ wk[w].pc # "idle"
                 /\ wk'[w].pc # "idle"
              \/ \E m \in Messages : Receive(w, m)
           /\ wk'[w].pc \in HoldingPcs =>
                wk[w].pc \in HoldingPcs \/ (Claim(w) /\ Claimable(wk[w].job))
<1>1. wk[w] \in Works /\ wk \in [Workers -> Works]
  BY DEF IInv, WorkersOK
<1>. DEFINE Same == wk'[w].job = wk[w].job /\ wk'[w].msg = wk[w].msg
            Others == \A v \in Workers \ {w} : wk'[v] = wk[v]
<1>2. \A l, d, todo, texts : Became(w, l, d, todo, texts) => Same /\ Others /\ wk'[w].pc = l
  BY DEF Became
<1>3. \A l : Goto(w, l) => Same /\ Others /\ wk'[w].pc = l
  BY <1>2, GoesTo
<1>4. \A d, todo : Write(w, d, todo) => Same /\ Others /\ wk'[w].pc \in {"commit", "rows"}
  BY <1>2, WritesTo
<1>5. wk' = [wk EXCEPT ![w] = NoWork] => wk'[w] = NoWork /\ Others
  BY <1>1
<1>6. CASE \E m \in Messages : Receive(w, m)
  <2>1. PICK m \in Messages : Receive(w, m)
    BY <1>6
  <2>2. wk'[w] = [NoWork EXCEPT !.pc = "job", !.msg = m, !.job = msgs[m].job] /\ Others
    BY <2>1, Reading
  <2>3. wk'[w].pc = "job"
    BY <2>2 DEF NoWork
  <2>. QED
    BY <1>6, <2>2, <2>3 DEF HoldingPcs
<1>7. CASE ReadJob(w) \/ ReadDoc(w)
  <2>1. wk[w].pc # "idle"
    BY <1>7 DEF ReadJob, ReadDoc
  <2>2. ReadJob(w) => Became(w, "doc", wk[w].doc, wk[w].todo, wk[w].texts)
    BY Reading
  <2>3. ReadDoc(w) => \E l \in {"ack", "settle", "claim", "chain"} : Became(w, l, doc, wk[w].todo, wk[w].texts)
    BY Reading
  <2>. QED
    BY <1>2, <1>7, <2>1, <2>2, <2>3 DEF HoldingPcs
<1>8. CASE Settle(w) \/ Refuse(w) \/ Close(w) \/ ChainRead(w) \/ ChainPut(w) \/ ChainSend(w)
  <2>1. /\ wk[w].pc # "idle"
        /\ \E l \in {"ack", "chain", "chainput", "chainsend"} : Goto(w, l)
    BY <1>8 DEF Settle, Refuse, Close, ChainRead, ChainPut, ChainSend
  <2>. QED
    BY <1>3, <2>1 DEF HoldingPcs
<1>9. CASE Claim(w)
  <2>1. /\ wk[w].pc # "idle"
        /\ \/ Goto(w, "ack")
           \/ Claimable(wk[w].job) /\ \E l \in {"refuse", "list", "begin"} : Goto(w, l)
    BY <1>9 DEF Claim
  <2>. QED
    BY <1>3, <1>9, <2>1 DEF HoldingPcs
<1>10. CASE Begin(w) \/ List(w)
  <2>1. wk[w].pc \in {"begin", "list"}
    BY <1>10 DEF Begin, List
  <2>2. Begin(w) => (\E d, todo : Write(w, d, todo)) \/ \E d : Became(w, "list", d, wk[w].todo, wk[w].texts)
    BY Working
  <2>3. List(w) => \/ \E d, todo : Write(w, d, todo)
                   \/ \E l \in {"approved", "store"} : \E d, todo, texts : Became(w, l, d, todo, texts)
                   \/ Goto(w, "undo")
    BY Working
  <2>4. Same /\ Others /\ wk'[w].pc \in {"commit", "rows", "list", "approved", "store", "undo"}
    BY <1>2, <1>3, <1>4, <1>10, <2>2, <2>3
  <2>. QED
    BY <2>1, <2>4 DEF HoldingPcs
<1>11. CASE ListApproved(w) \/ PutRow(w) \/ StoreFile(w)
  <2>1. wk[w].pc \in {"approved", "rows", "store"} /\ \E d, todo : Write(w, d, todo)
    BY <1>11 DEF ListApproved, PutRow, StoreFile
  <2>. QED
    BY <1>4, <2>1 DEF HoldingPcs
<1>12. CASE Commit(w) \/ UndoDoc(w) \/ Fail(w)
  <2>1. /\ wk[w].pc \in HoldingPcs
        /\ \E l \in {"close", "failjob", "undo"} : Goto(w, l)
    BY <1>12 DEF Commit, UndoDoc, Fail, HoldingPcs, TryPcs
  <2>2. wk[w].pc # "idle"
    BY <2>1 DEF HoldingPcs
  <2>. QED
    BY <1>3, <2>1, <2>2
<1>13. CASE FailJob(w) \/ Ack(w) \/ Die(w)
  <2>1. wk[w].pc # "idle" /\ (wk' = [wk EXCEPT ![w] = NoWork] \/ Goto(w, "ack"))
    BY <1>13 DEF FailJob, Ack, Die
  <2>2. NoWork.pc \notin HoldingPcs
    BY DEF NoWork, HoldingPcs
  <2>. QED
    BY <1>3, <1>5, <2>1, <2>2 DEF HoldingPcs
<1>. QED
  BY <1>6, <1>7, <1>8, <1>9, <1>10, <1>11, <1>12, <1>13 DEF WorkerMoves, WorkerStep

(* Who writes jobs and messages. *)
LEMMA JobWrites ==
    ASSUME NEW w \in Workers, WorkerMoves(w)
    PROVE  \/ UNCHANGED jobs
           \/ Settle(w) \/ Close(w) \/ (Claim(w) /\ Claimable(wk[w].job))
           \/ Refuse(w) \/ FailJob(w) \/ ChainPut(w)
BY DEF WorkerMoves, WorkerStep, Receive, ReadJob, ReadDoc, Claim, Begin, List,
     ListApproved, PutRow, StoreFile, Commit, UndoDoc, ChainRead, ChainSend, Ack,
     Fail, Die, store

LEMMA QueueWrites ==
    ASSUME NEW w \in Workers, WorkerMoves(w)
    PROVE  UNCHANGED msgs \/ Ack(w) \/ ChainSend(w) \/ \E m \in Messages : Receive(w, m)
BY DEF WorkerMoves, WorkerStep, ReadJob, ReadDoc, Settle, Claim, Refuse, Begin, List,
     ListApproved, PutRow, StoreFile, Commit, Close, UndoDoc, FailJob, ChainRead, ChainPut,
     Fail, Die, store

LEMMA CallerWrites ==
    ASSUME NEW c \in Callers, CallerMoves(c)
    PROVE  /\ UNCHANGED jobs \/ PutNewJob(c) \/ FailNewJob(c)
           /\ UNCHANGED msgs \/ (call[c].pc = "send" /\ Send(JobOf(c), HeldMessages))
<1>1. UNCHANGED jobs \/ PutNewJob(c) \/ FailNewJob(c)
  BY DEF CallerMoves, CallStep, NewCall, ReadDocument, ReadRow, ListRows, PutMapping, PutDraft,
     PutDocument, ReadLatest, ReadDraftJob, SendMessage, RestoreDocument, EnqueueFails, CallDies, store
<1>2. UNCHANGED msgs \/ (call[c].pc = "send" /\ Send(JobOf(c), HeldMessages))
  BY DEF CallerMoves, CallStep, NewCall, ReadDocument, ReadRow, ListRows, PutMapping, PutDraft,
     PutDocument, ReadLatest, ReadDraftJob, PutNewJob, SendMessage, RestoreDocument, FailNewJob,
     EnqueueFails, CallDies, store
<1>. QED
  BY <1>1, <1>2

(* What is sent, received or acknowledged. *)
LEMMA QueueJobs ==
    ASSUME IInv, NEW m \in Messages
    PROVE  /\ \A n \in Messages, w \in Workers : Receive(w, n) =>
                 /\ msgs'[m].job = msgs[m].job
                 /\ msgs'[m].state = IF m = n THEN "inflight" ELSE msgs[m].state
           /\ \A w \in Workers : Ack(w) =>
                 msgs'[m] = IF m = wk[w].msg THEN NoMessage ELSE msgs[m]
           /\ \A j, holders : Send(j, holders) =>
                 \/ msgs'[m] = msgs[m]
                 \/ /\ m \notin holders /\ msgs[m].state = "free"
                    /\ msgs'[m].state = "visible" /\ msgs'[m].job = j
<1>1. msgs \in [Messages -> Queued]
  BY DEF IInv, StoreOK
<1>2. ASSUME NEW n \in Messages, NEW w \in Workers, Receive(w, n)
      PROVE  /\ msgs'[m].job = msgs[m].job
             /\ msgs'[m].state = IF m = n THEN "inflight" ELSE msgs[m].state
  BY <1>1, <1>2 DEF Receive, Queued
<1>3. ASSUME NEW w \in Workers, Ack(w)
      PROVE  msgs'[m] = IF m = wk[w].msg THEN NoMessage ELSE msgs[m]
  BY <1>1, <1>3 DEF Ack
<1>4. ASSUME NEW j, NEW holders, Send(j, holders)
      PROVE  \/ msgs'[m] = msgs[m]
             \/ /\ m \notin holders /\ msgs[m].state = "free"
                /\ msgs'[m].state = "visible" /\ msgs'[m].job = j
  <2>. DEFINE q == [state |-> "visible", job |-> j, receives |-> 0]
  <2>1. PICK n \in Messages : msgs[n].state = "free" /\ n \notin holders /\ msgs' = [msgs EXCEPT ![n] = q]
    BY <1>4 DEF Send
  <2>2. q.state = "visible" /\ q.job = j
    OBVIOUS
  <2>. HIDE DEF q
  <2>3. msgs'[m] = IF m = n THEN q ELSE msgs[m]
    BY <1>1, <2>1
  <2>. QED
    BY <2>1, <2>2, <2>3
<1>. QED
  BY <1>2, <1>3, <1>4

LEMMA JobPut ==
    ASSUME IInv, NEW j \in Jobs, NEW k, NEW status, PutJob(k, status)
    PROVE  /\ jobs'[j].status = IF j = k THEN status ELSE jobs[j].status
           /\ jobs'[j].lease = IF j = k THEN "none" ELSE jobs[j].lease
           /\ jobs'[j].previous = jobs[j].previous
BY DEF IInv, StoreOK, PutJob, JobRows

(* An invocation that holds a job keeps others from claiming it. *)
LEMMA HeldNotClaimable ==
    ASSUME IInv, LeaseInv, NEW w \in Workers, NEW j \in Jobs, Holds(w, j)
    PROVE  ~Claimable(j) /\ wk[w].pc # "idle" /\ jobs[j].status \in {"running", "succeeded"}
<1>1. wk[w].pc # "idle"
  BY DEF Holds, HoldingPcs
<1>2. wk[w].msg # "none"
  BY <1>1, AtWork, PipelineConstants
<1>3. \/ jobs[j].status = "succeeded"
      \/ jobs[j].status = "running" /\ jobs[j].lease = wk[w].msg
  BY DEF LeaseInv, Leased
<1>. QED
  BY <1>1, <1>2, <1>3 DEF Claimable

LEMMA LeaseWorker ==
    ASSUME IInv, LeaseInv, FreshJobs, NEW w \in Workers, WorkerMoves(w)
    PROVE  LeaseInv'
<1>1. \A v \in Workers \ {w} : wk'[v] = wk[v]
  BY WorkerOnly
<1>2. wk[w].pc # "idle" => wk[w].job \in Jobs /\ wk[w].msg \in Messages
  BY AtWork
<1>3. jobs \in [Jobs -> JobRows]
  BY DEF IInv, StoreOK
(* what happens to a job's row *)
<1>4. \A j \in Jobs :
        \/ jobs'[j] = jobs[j]
        \/ jobs'[j].status = "succeeded"
        \/ /\ jobs'[j].status = "running" /\ jobs'[j].lease = wk[w].msg
           /\ j = wk[w].job /\ Claimable(j)
        \/ /\ jobs'[j].status = "failed" /\ Holds(w, j)
           /\ wk'[w].pc \notin HoldingPcs
        \/ jobs'[j].status = "pending" /\ j = "map" /\ jobs[j].status = "none"
  <2>1. SUFFICES ASSUME NEW j \in Jobs, jobs'[j] # jobs[j]
                 PROVE  \/ jobs'[j].status = "succeeded"
                        \/ /\ jobs'[j].status = "running" /\ jobs'[j].lease = wk[w].msg
                           /\ j = wk[w].job /\ Claimable(j)
                        \/ /\ jobs'[j].status = "failed" /\ Holds(w, j)
                           /\ wk'[w].pc \notin HoldingPcs
                        \/ jobs'[j].status = "pending" /\ j = "map" /\ jobs[j].status = "none"
    OBVIOUS
  <2>2. ASSUME NEW k, NEW status, PutJob(k, status) PROVE j = k /\ jobs'[j].status = status
    BY <1>3, <2>1, <2>2 DEF PutJob
  <2>3. CASE Settle(w) \/ Close(w)
    BY <2>1, <2>2, <2>3 DEF Settle, Close
  <2>4. CASE Claim(w) /\ Claimable(wk[w].job)
    <3>1. jobs' = [jobs EXCEPT ![wk[w].job].status = "running", ![wk[w].job].lease = wk[w].msg]
      BY <2>4 DEF Claim
    <3>2. j = wk[w].job
      BY <1>3, <2>1, <3>1
    <3>3. jobs[j] \in JobRows
      BY <1>3
    <3>4. jobs'[j].status = "running" /\ jobs'[j].lease = wk[w].msg
      BY <1>3, <3>1, <3>2, <3>3 DEF JobRows
    <3>. QED
      BY <2>4, <3>2, <3>4
  <2>5. CASE Refuse(w) \/ FailJob(w)
    <3>1. /\ wk[w].pc \in {"refuse", "failjob"} /\ PutJob(wk[w].job, "failed")
          /\ wk' = [wk EXCEPT ![w] = NoWork] \/ Goto(w, "ack")
      BY <2>5 DEF Refuse, FailJob
    <3>2. wk'[w].pc \notin HoldingPcs
      <4>1. NoWork.pc \notin HoldingPcs /\ wk \in [Workers -> Works]
        BY DEF NoWork, HoldingPcs, IInv, WorkersOK
      <4>. QED
        BY <3>1, <4>1, GoesTo DEF Became, HoldingPcs
    <3>. QED
      BY <2>1, <2>2, <3>1, <3>2 DEF Holds, HoldingPcs
  <2>6. CASE ChainPut(w)
    BY <2>1, <2>2, <2>6 DEF ChainPut, FreshJobs
  <2>. QED
    BY <2>1, <2>3, <2>4, <2>5, <2>6, JobWrites
<1>5. \A j \in Jobs : jobs'[j].status = "none" => jobs[j].status = "none"
  BY <1>4
<1>6. Unused'
  <2>1. SUFFICES ASSUME NEW j \in Jobs, jobs'[j].status = "none"
                 PROVE  /\ \A m \in Messages : msgs'[m].job # j
                        /\ \A v \in Workers : wk'[v].job # j
    BY DEF Unused
  <2>2. /\ jobs[j].status = "none"
        /\ \A m \in Messages : msgs[m].job # j
        /\ \A v \in Workers : wk[v].job # j
    BY <1>5, <2>1 DEF LeaseInv, Unused
  <2>3. "none" # j
    BY PipelineConstants DEF Jobs
  <2>4. \A m \in Messages : msgs'[m].job # j
    <3>1. CASE UNCHANGED msgs
      BY <2>2, <3>1
    <3>2. CASE Ack(w)
      BY <2>2, <2>3, <3>2, QueueJobs DEF NoMessage
    <3>3. CASE ChainSend(w)
      <4>1. wk[w].pc = "chainsend" /\ Send("map", HeldMessages)
        BY <3>3 DEF ChainSend
      <4>2. j # "map"
        BY <2>2, <4>1 DEF FreshJobs
      <4>. QED
        BY <2>2, <4>1, <4>2, QueueJobs
    <3>4. CASE \E n \in Messages : Receive(w, n)
      BY <2>2, <3>4, QueueJobs
    <3>. QED
      BY <3>1, <3>2, <3>3, <3>4, QueueWrites
  <2>5. wk'[w].job # j
    <3>1. CASE \E n \in Messages : Receive(w, n)
      <4>1. PICK n \in Messages : Receive(w, n)
        BY <3>1
      <4>2. wk'[w] = [NoWork EXCEPT !.pc = "job", !.msg = n, !.job = msgs[n].job]
        BY <4>1, Reading
      <4>3. wk'[w].job = msgs[n].job
        BY <4>2 DEF NoWork
      <4>. QED
        BY <2>2, <4>3
    <3>2. NoWork.job = "none"
      BY DEF NoWork
    <3>. QED
      BY <2>2, <2>3, <3>1, <3>2, WorkerOnly
  <2>. QED
    BY <1>1, <2>2, <2>4, <2>5
(* who holds what *)
<1>7. ASSUME NEW v \in Workers, NEW j \in Jobs, Holds(v, j)'
      PROVE  /\ wk'[v].msg = wk[v].msg
             /\ Holds(v, j) \/ (v = w /\ Claim(w) /\ Claimable(j) /\ wk[w].job = j)
  <2>1. CASE v # w
    BY <1>1, <1>7, <2>1 DEF Holds
  <2>2. CASE v = w
    <3>1. wk'[w].pc \in HoldingPcs /\ wk'[w].job = j
      BY <1>7, <2>2 DEF Holds
    <3>2. ~\E m \in Messages : Receive(w, m)
      <4>1. SUFFICES ASSUME NEW m \in Messages, Receive(w, m) PROVE FALSE
        OBVIOUS
      <4>2. wk[w].pc = "idle" /\ ~Claim(w)
        <5>1. wk[w] = NoWork
          BY <4>1, Reading
        <5>. QED
          BY <5>1 DEF NoWork, Claim
      <4>. QED
        BY <3>1, <4>2, WorkerOnly DEF HoldingPcs
    <3>3. NoWork.pc \notin HoldingPcs
      BY DEF NoWork, HoldingPcs
    <3>4. wk'[w].job = wk[w].job /\ wk'[w].msg = wk[w].msg
      BY <3>1, <3>2, <3>3, WorkerOnly
    <3>. QED
      BY <2>2, <3>1, <3>4, WorkerOnly DEF Holds
  <2>. QED
    BY <2>1, <2>2
<1>8. OneClaimant'
  <2>1. SUFFICES ASSUME NEW j \in Jobs, NEW u \in Workers, NEW v \in Workers, Holds(u, j)', Holds(v, j)'
                 PROVE  u = v
    BY DEF OneClaimant
  <2>. QED
    BY <1>7, <2>1, HeldNotClaimable DEF LeaseInv, OneClaimant
<1>9. Leased'
  <2>1. SUFFICES ASSUME NEW j \in Jobs, NEW v \in Workers, Holds(v, j)'
                 PROVE  \/ jobs'[j].status = "succeeded"
                        \/ jobs'[j].status = "running" /\ jobs'[j].lease = wk'[v].msg
    BY DEF Leased
  <2>2. wk'[v].msg = wk[v].msg /\ (Holds(v, j) \/ (v = w /\ Claim(w) /\ Claimable(j) /\ wk[w].job = j))
    BY <1>7, <2>1
  <2>3. CASE Holds(v, j)
    <3>1. ~Claimable(j) /\ jobs[j].status # "none"
      BY <2>3, HeldNotClaimable
    <3>2. \/ jobs[j].status = "succeeded"
          \/ jobs[j].status = "running" /\ jobs[j].lease = wk[v].msg
      BY <2>3 DEF LeaseInv, Leased
    <3>3. ~(Holds(w, j) /\ wk'[w].pc \notin HoldingPcs)
      BY <2>1, <2>3 DEF LeaseInv, OneClaimant, Holds
    <3>. QED
      BY <1>4, <2>2, <3>1, <3>2, <3>3
  <2>4. CASE v = w /\ Claim(w) /\ Claimable(j) /\ wk[w].job = j
    <3>1. jobs' = [jobs EXCEPT ![j].status = "running", ![j].lease = wk[w].msg]
      BY <2>4 DEF Claim
    <3>2. jobs[j] \in JobRows
      BY <1>3
    <3>3. jobs'[j].status = "running" /\ jobs'[j].lease = wk[w].msg
      BY <1>3, <3>1, <3>2 DEF JobRows
    <3>. QED
      BY <2>2, <2>4, <3>3
  <2>. QED
    BY <2>2, <2>3, <2>4
<1>. QED
  BY <1>6, <1>8, <1>9 DEF LeaseInv

LEMMA LeaseCaller ==
    ASSUME IInv, LeaseInv, FreshJobs, NEW c \in Callers, CallerMoves(c)
    PROVE  LeaseInv'
<1>1. wk' = wk
  BY CallerLeavesWork DEF wkvars
<1>2. jobs \in [Jobs -> JobRows]
  BY DEF IInv, StoreOK
<1>3. UNCHANGED jobs \/ (PutNewJob(c) /\ jobs[JobOf(c)].status = "none")
  BY CallerWrites DEF FreshJobs, PutNewJob, FailNewJob
<1>4. \A j \in Jobs : jobs'[j] = jobs[j] \/ (jobs[j].status = "none" /\ jobs'[j].status = "pending")
  <2>1. CASE UNCHANGED jobs
    BY <2>1
  <2>2. CASE PutNewJob(c) /\ jobs[JobOf(c)].status = "none"
    <3>1. jobs' = [jobs EXCEPT ![JobOf(c)] = NewJob(c, "pending")]
      BY <2>2 DEF PutNewJob
    <3>2. NewJob(c, "pending").status = "pending"
      BY DEF NewJob
    <3>. QED
      BY <1>2, <2>2, <3>1, <3>2
  <2>. QED
    BY <1>3, <2>1, <2>2
<1>5. Unused'
  <2>1. SUFFICES ASSUME NEW j \in Jobs, jobs'[j].status = "none"
                 PROVE  /\ \A m \in Messages : msgs'[m].job # j
                        /\ \A v \in Workers : wk'[v].job # j
    BY DEF Unused
  <2>2. /\ jobs[j].status = "none"
        /\ \A m \in Messages : msgs[m].job # j
        /\ \A v \in Workers : wk[v].job # j
    BY <1>4, <2>1 DEF LeaseInv, Unused
  <2>3. CASE UNCHANGED msgs
    BY <1>1, <2>2, <2>3
  <2>4. CASE call[c].pc = "send" /\ Send(JobOf(c), HeldMessages)
    <3>1. j # JobOf(c)
      BY <2>2, <2>4 DEF FreshJobs
    <3>. QED
      BY <1>1, <2>2, <2>4, <3>1, QueueJobs
  <2>. QED
    BY <2>3, <2>4, CallerWrites
<1>6. ASSUME NEW v \in Workers, NEW j \in Jobs, Holds(v, j)
      PROVE  jobs'[j] = jobs[j]
  BY <1>4, <1>6, HeldNotClaimable
<1>7. OneClaimant' /\ Leased'
  BY <1>1, <1>6 DEF LeaseInv, OneClaimant, Leased, Holds
<1>. QED
  BY <1>5, <1>7 DEF LeaseInv

LEMMA LeaseNext ==
    ASSUME IInv, LeaseInv, FreshJobs, [Next]_vars
    PROVE  LeaseInv'
<1>1. CASE \E w \in Workers : WorkerMoves(w)
  BY <1>1, LeaseWorker
<1>2. CASE \E c \in Callers : CallerMoves(c)
  BY <1>2, LeaseCaller
<1>3. CASE \E m \in Messages : Reappear(m) \/ Duplicate(m)
  <2>1. UNCHANGED <<jobs, wk>>
    BY <1>3 DEF Reappear, Duplicate, store, wkvars
  <2>2. \A n \in Messages : msgs'[n].job = msgs[n].job
    <3>1. msgs \in [Messages -> Queued]
      BY DEF IInv, StoreOK
    <3>. QED
      BY <1>3, <3>1 DEF Reappear, Duplicate, Queued
  <2>. QED
    BY <2>1, <2>2 DEF LeaseInv, Unused, Leased, OneClaimant, Holds
<1>4. CASE \E k \in Jobs : LeaseExpires(k)
  <2>1. PICK k \in Jobs : LeaseExpires(k)
    BY <1>4
  <2>2. jobs \in [Jobs -> JobRows] /\ UNCHANGED <<msgs, wk>>
    BY <2>1 DEF IInv, StoreOK, LeaseExpires, wkvars
  <2>3. \A j \in Jobs : jobs'[j].status = jobs[j].status /\ (jobs'[j] = jobs[j] \/ j = k)
    BY <2>1, <2>2 DEF LeaseExpires, JobRows
  <2>4. \A w \in Workers : Holds(w, k) => jobs[k].status = "succeeded"
    BY <2>1 DEF LeaseExpires, LeaseInv, Leased, Holds
  <2>5. Leased'
    BY <2>2, <2>3, <2>4 DEF LeaseInv, Leased, Holds
  <2>6. Unused' /\ OneClaimant'
    BY <2>2, <2>3 DEF LeaseInv, Unused, OneClaimant, Holds
  <2>. QED
    BY <2>5, <2>6 DEF LeaseInv
<1>5. CASE UNCHANGED vars
  BY <1>5 DEF vars, store, wkvars, LeaseInv, Unused, Leased, OneClaimant, Holds
<1>. QED
  BY <1>1, <1>2, <1>3, <1>4, <1>5 DEF Next

LEMMA LeaseInit ==
    ASSUME Init
    PROVE  LeaseInv
<1>1. \A w \in Workers : wk[w] = NoWork
  BY DEF Init
<1>2. \A m \in Messages : msgs[m] = NoMessage
  BY DEF Init, StoreInit
<1>3. "none" \notin Jobs
  BY PipelineConstants DEF Jobs
<1>4. \A w \in Workers : \A j : ~Holds(w, j)
  BY <1>1 DEF Holds, NoWork, HoldingPcs
<1>. QED
  BY <1>1, <1>2, <1>3, <1>4 DEF LeaseInv, Unused, Leased, OneClaimant, NoMessage, NoWork

-----------------------------------------------------------------------------
(* One reviewer, and nothing fails *)

(* The drafts are under review by one person; invocations and requests do   *)
(* not fail, though messages may be delivered twice.                        *)
Quiet ==
    /\ \A a \in Scenarios : a.start = "drafted" /\ a.deaths = 0 /\ a.errors = 0 /\ a.apiFaults = 0
    /\ \A c, d \in Callers : c = d

Wording == {<<s, drafts[s].text>> : s \in Listed(drafts)}
ExportingFor(j) == doc.status = "exporting" /\ doc.active = j

(* The one export that runs has the document, whose drafts stay as they are. *)
QuietWork(w) ==
    /\ wk[w].job \in Exports \cup {"none"}
    /\ wk[w].pc \in {"idle", "job", "doc", "settle", "claim", "list", "store", "commit", "close", "ack"}
    /\ wk[w].pc = "claim" /\ jobs[wk[w].job].status = "pending" => wk[w].doc.status = "exporting"
    /\ wk[w].pc \in {"list", "store", "commit"} => ExportingFor(wk[w].job)
    /\ wk[w].pc = "store" => wk[w].texts = Wording
    /\ wk[w].pc = "commit" => wk[w].doc.status = "exported" /\ file = Wording

QuietCall(c) ==
    /\ call[c].pc \notin {"latest", "jobread", "undo", "undojob"}
    /\ call[c].pc \notin {"idle", "read"} =>
         /\ call[c].op \in {"edit_draft", "approve_draft", "export"}
         /\ call[c].doc.status \in Admitted(call[c].op)
    /\ call[c].pc \in {"jobput", "send"} => call[c].op = "export"
    /\ call[c].op = "export" /\ call[c].pc \in {"cas", "jobput"} => jobs[call[c].job].status = "none"
    /\ call[c].pc = "jobput" => ExportingFor(call[c].job)
    /\ call[c].pc = "send" => jobs[call[c].job].status # "none"
    /\ call[c].op = "edit_draft" /\ call[c].pc = "put" => doc.status = "drafted"
    /\ call[c].op = "approve_draft" /\ call[c].pc \notin {"idle", "read"} =>
         doc.status = call[c].doc.status
    /\ call[c].op = "approve_draft" /\ call[c].pc = "cas" => AllApproved(drafts)

QuietStore ==
    /\ deaths = 0 /\ errors = 0 /\ apiFaults = 0
    /\ doc.status \in DraftedOn
    /\ doc.status # "drafted" => AllApproved(drafts)
    /\ doc.status = "exported" => file = Wording

QuietQueue == \A m \in Messages : msgs[m].job \in Exports \cup {"none"}

QuietJobs ==
    \A j \in Exports :
        /\ jobs[j].status # "failed"
        /\ jobs[j].status = "pending" => ExportingFor(j)
        /\ jobs[j].status = "running" => \E w \in Workers : Holds(w, j) /\ jobs[j].lease = wk[w].msg

QuietInv ==
    /\ QuietStore /\ QuietQueue /\ QuietJobs
    /\ \A w \in Workers : QuietWork(w)
    /\ \A c \in Callers : QuietCall(c)

LEMMA QuietFresh ==
    ASSUME IInv, QuietInv
    PROVE  FreshJobs
BY DEF QuietInv, QuietWork, QuietCall, FreshJobs, JobOf

(* A worker's step that writes nothing but the queue. *)
LEMMA QuietReads ==
    ASSUME QuietInv, NEW w \in Workers, UNCHANGED <<doc, jobs, drafts, file, deaths, errors, apivars>>,
           \A v \in Workers \ {w} : wk'[v] = wk[v],
           wk[w].pc \in HoldingPcs =>
              wk'[w].pc \in HoldingPcs /\ wk'[w].job = wk[w].job /\ wk'[w].msg = wk[w].msg,
           QuietWork(w)', QuietQueue'
    PROVE  QuietInv'
<1>1. QuietStore'
  BY DEF QuietInv, QuietStore, Wording, AllApproved, Listed, apivars
<1>2. \A j \in Exports, v \in Workers : Holds(v, j) => Holds(v, j)' /\ wk'[v].msg = wk[v].msg
  BY DEF Holds
<1>3. QuietJobs'
  BY <1>2 DEF QuietInv, QuietJobs, ExportingFor
<1>4. \A v \in Workers \ {w} : QuietWork(v)'
  BY DEF QuietInv, QuietWork, ExportingFor, Wording, Listed
<1>5. \A c \in Callers : QuietCall(c)'
  BY DEF QuietInv, QuietCall, ExportingFor, AllApproved, Listed, apivars
<1>. QED
  BY <1>1, <1>3, <1>4, <1>5 DEF QuietInv

(* A worker's step that writes its job's row. *)
LEMMA QuietJobPuts ==
    ASSUME IInv, QuietInv, LeaseInv, NEW w \in Workers, wk[w].job \in Exports,
           UNCHANGED <<doc, msgs, drafts, file, deaths, errors, apivars>>,
           \A v \in Workers \ {w} : wk'[v] = wk[v],
           \A j \in Jobs : j # wk[w].job => jobs'[j] = jobs[j],
           \/ jobs'[wk[w].job].status = "succeeded"
           \/ /\ jobs'[wk[w].job].status = "running"
              /\ wk'[w].pc \in HoldingPcs /\ wk'[w].job = wk[w].job
              /\ wk[w].pc = "claim" /\ jobs'[wk[w].job].lease = wk'[w].msg,
           QuietWork(w)'
    PROVE  QuietInv'
<1>. DEFINE k == wk[w].job
<1>0. k \in Jobs /\ Exports \subseteq Jobs
  BY DEF Jobs
<1>1. QuietStore' /\ QuietQueue'
  BY DEF QuietInv, QuietStore, QuietQueue, Wording, AllApproved, Listed, apivars
<1>2. \A j \in Exports, v \in Workers : Holds(v, j) /\ j # k => Holds(v, j)' /\ wk'[v].msg = wk[v].msg
  BY DEF Holds
<1>3. QuietJobs'
  <2>1. SUFFICES ASSUME NEW j \in Exports
                 PROVE  /\ jobs'[j].status # "failed"
                        /\ jobs'[j].status = "pending" => ExportingFor(j)'
                        /\ jobs'[j].status = "running" =>
                             \E v \in Workers : Holds(v, j)' /\ jobs'[j].lease = wk'[v].msg
    BY DEF QuietJobs
  <2>2. CASE j = k
    <3>1. CASE jobs'[k].status = "succeeded"
      BY <2>2, <3>1
    <3>2. CASE /\ jobs'[k].status = "running" /\ wk'[w].pc \in HoldingPcs /\ wk'[w].job = k
               /\ jobs'[k].lease = wk'[w].msg
      BY <2>2, <3>2 DEF Holds
    <3>. QED
      BY <3>1, <3>2
  <2>3. CASE j # k
    BY <1>0, <1>2, <2>3 DEF QuietInv, QuietJobs, ExportingFor
  <2>. QED
    BY <2>2, <2>3
<1>4. \A v \in Workers \ {w} : QuietWork(v)'
  <2>1. SUFFICES ASSUME NEW v \in Workers \ {w} PROVE QuietWork(v)'
    OBVIOUS
  <2>2. wk[v].pc = "claim" /\ jobs'[wk[v].job].status = "pending" => jobs[wk[v].job].status = "pending"
    <3>1. wk[v].pc = "claim" => wk[v].job \in Jobs
      BY AtWork
    <3>. QED
      BY <3>1
  <2>. QED
    BY <2>1, <2>2 DEF QuietInv, QuietWork, ExportingFor, Wording, Listed
<1>5. \A c \in Callers : QuietCall(c)'
  <2>1. SUFFICES ASSUME NEW c \in Callers PROVE QuietCall(c)'
    OBVIOUS
  <2>2. jobs[k].status # "none"
    BY <1>0 DEF LeaseInv, Unused
  <2>3. QuietCall(c) /\ call' = call
    BY DEF QuietInv, apivars
  <2>4. call[c].op = "export" /\ call[c].pc \in {"cas", "jobput", "send"} => call[c].job \in Jobs
    BY <1>0, AtCall DEF CallOK
  <2>5. call[c].op = "export" /\ call[c].pc \in {"cas", "jobput"} => jobs'[call[c].job].status = "none"
    BY <2>2, <2>3, <2>4 DEF QuietCall
  <2>6. call[c].pc = "send" => jobs'[call[c].job].status # "none"
    BY <2>3, <2>4 DEF QuietCall
  <2>. QED
    BY <2>3, <2>5, <2>6 DEF QuietCall, ExportingFor, AllApproved, Listed
<1>. QED
  BY <1>1, <1>3, <1>4, <1>5 DEF QuietInv

LEMMA QuietWorker ==
    ASSUME IInv, LeaseInv, QuietInv, NEW w \in Workers, WorkerMoves(w), UNCHANGED apivars
    PROVE  QuietInv'
<1>. DEFINE j == wk[w].job
<1>1. QuietWork(w) /\ QuietStore /\ QuietQueue /\ QuietJobs
  BY DEF QuietInv
<1>2. \A v \in Workers \ {w} : wk'[v] = wk[v]
  BY WorkerOnly
<1>3. wk[w].pc # "idle" =>
        j \in Exports /\ j \in Jobs /\ Kind(j) = "export" /\ j # "parse" /\ wk[w].msg \in Messages
        /\ WorkOK(wk[w])
  <2>1. SUFFICES ASSUME wk[w].pc # "idle"
                 PROVE  j \in Exports /\ j \in Jobs /\ Kind(j) = "export" /\ j # "parse"
                        /\ wk[w].msg \in Messages /\ WorkOK(wk[w])
    OBVIOUS
  <2>2. wk[w].msg \in Messages /\ j \in Jobs /\ WorkOK(wk[w])
    BY <2>1, AtWork
  <2>3. j # "none"
    BY <2>2, PipelineConstants DEF Jobs
  <2>4. j \in Exports
    BY <1>1, <2>3 DEF QuietWork
  <2>5. j \notin {"parse", "map", "draft"}
    BY <2>4, PipelineConstants
  <2>. QED
    BY <2>2, <2>4, <2>5 DEF Kind
<1>4. wk[w] \in Works /\ jobs \in [Jobs -> JobRows] /\ wk \in [Workers -> Works]
  BY DEF IInv, WorkersOK, StoreOK
<1>5. CASE \E m \in Messages : Receive(w, m)
  <2>1. PICK m \in Messages : Receive(w, m)
    BY <1>5
  <2>2. wk[w] = NoWork /\ wk'[w] = [NoWork EXCEPT !.pc = "job", !.msg = m, !.job = msgs[m].job]
    BY <2>1, Reading
  <2>3. wk[w].pc = "idle" /\ wk'[w].pc = "job" /\ wk'[w].job = msgs[m].job
    BY <2>2 DEF NoWork
  <2>4. QuietQueue'
    BY <1>1, <2>1, QueueJobs DEF QuietQueue
  <2>5. QuietWork(w)'
    BY <1>1, <2>3 DEF QuietWork, QuietQueue
  <2>6. UNCHANGED <<doc, jobs, drafts, file, deaths, errors>>
    BY <2>1 DEF Receive, store, rows
  <2>7. wk[w].pc \notin HoldingPcs
    BY <2>3 DEF HoldingPcs
  <2>. QED
    BY <1>2, <2>4, <2>5, <2>6, <2>7, QuietReads
<1>6. CASE ReadJob(w) \/ ReadDoc(w)
  <2>1. /\ wk[w].pc # "idle" /\ wk[w].pc \notin HoldingPcs
        /\ UNCHANGED <<doc, jobs, drafts, file, deaths, errors, msgs>>
    BY <1>6 DEF ReadJob, ReadDoc, store, rows, HoldingPcs
  <2>2. ReadJob(w) => Became(w, "doc", wk[w].doc, wk[w].todo, wk[w].texts)
    BY Reading
  <2>3. ReadDoc(w) => \E l \in {"ack", "settle", "claim"} : Became(w, l, doc, wk[w].todo, wk[w].texts)
    BY <1>3, <2>1, Reading
  <2>4. jobs[j].status = "pending" => doc.status = "exporting"
    BY <1>1, <1>3, <2>1 DEF QuietJobs, ExportingFor
  <2>5. QuietWork(w)'
    BY <1>1, <1>3, <1>6, <2>1, <2>2, <2>3, <2>4 DEF QuietWork, Became
  <2>6. QuietQueue'
    BY <1>1, <2>1 DEF QuietQueue
  <2>. QED
    BY <1>2, <2>1, <2>5, <2>6, QuietReads
(* a step that only moves on *)
<1>7. ASSUME NEW l, Goto(w, l), l \in {"ack", "close", "list"}, wk[w].pc # "idle",
             l = "list" => ExportingFor(j)'
      PROVE  QuietWork(w)'
  BY <1>3, <1>7, GoesTo DEF QuietWork, Became, ExportingFor
<1>8. CASE Settle(w) \/ Close(w)
  <2>1. /\ wk[w].pc # "idle" /\ UNCHANGED <<doc, msgs, drafts, file, deaths, errors>>
    BY <1>8 DEF Settle, Close, rows
  <2>2. PutJob(j, "succeeded") /\ Goto(w, "ack")
    BY <1>3, <1>8, <2>1 DEF Settle, Close
  <2>3. jobs'[j].status = "succeeded" /\ \A k \in Jobs : k # j => jobs'[k] = jobs[k]
    BY <1>3, <1>4, <2>1, <2>2 DEF PutJob, JobRows
  <2>4. QuietWork(w)'
    BY <1>7, <2>1, <2>2
  <2>. QED
    BY <1>2, <1>3, <2>1, <2>3, <2>4, QuietJobPuts
<1>9. CASE Claim(w)
  <2>1. /\ wk[w].pc = "claim" /\ UNCHANGED <<doc, msgs, drafts, file, deaths, errors>>
    BY <1>9 DEF Claim, rows
  <2>2. CASE ~Claimable(j)
    <3>1. Goto(w, "ack") /\ UNCHANGED jobs
      BY <1>9, <2>2 DEF Claim
    <3>2. QuietWork(w)' /\ QuietQueue'
      BY <1>1, <1>7, <2>1, <3>1 DEF QuietQueue
    <3>3. wk[w].pc \notin HoldingPcs
      BY <2>1 DEF HoldingPcs
    <3>. QED
      BY <1>2, <2>1, <3>1, <3>2, <3>3, QuietReads
  <2>3. CASE Claimable(j)
    <3>1. jobs[j].status = "pending"
      <4>1. jobs[j].status = "running" => jobs[j].lease # "none"
        <5>1. SUFFICES ASSUME jobs[j].status = "running" PROVE jobs[j].lease # "none"
          OBVIOUS
        <5>2. PICK v \in Workers : Holds(v, j) /\ jobs[j].lease = wk[v].msg
          BY <1>1, <1>3, <2>1, <5>1 DEF QuietJobs
        <5>3. wk[v].msg \in Messages
          BY <5>2, AtWork DEF Holds, HoldingPcs
        <5>. QED
          BY <5>2, <5>3, PipelineConstants
      <4>. QED
        BY <1>1, <1>3, <2>1, <2>3, <4>1 DEF Claimable, QuietJobs
    <3>2. wk[w].doc.status = "exporting" /\ ExportingFor(j)
      BY <1>1, <1>3, <2>1, <3>1 DEF QuietWork, QuietJobs
    <3>3. Goto(w, "list")
      BY <1>3, <1>9, <2>1, <2>3, <3>2 DEF Claim, MayEnter
    <3>4. jobs' = [jobs EXCEPT ![j].status = "running", ![j].lease = wk[w].msg]
      BY <1>9, <2>3 DEF Claim
    <3>5. jobs'[j].status = "running" /\ jobs'[j].lease = wk[w].msg /\ \A k \in Jobs : k # j => jobs'[k] = jobs[k]
      BY <1>3, <1>4, <2>1, <3>4 DEF JobRows
    <3>6. wk'[w].pc \in HoldingPcs /\ wk'[w].job = j /\ wk'[w].msg = wk[w].msg
      BY <3>3, GoesTo DEF Became, HoldingPcs
    <3>7. ExportingFor(j)'
      BY <2>1, <3>2, <3>6 DEF ExportingFor
    <3>8. QuietWork(w)'
      BY <1>7, <2>1, <3>3, <3>7
    <3>. QED
      BY <1>2, <1>3, <2>1, <3>5, <3>6, <3>8, QuietJobPuts
  <2>. QED
    BY <2>2, <2>3
<1>10. CASE List(w)
  <2>1. wk[w].pc = "list" /\ UNCHANGED <<doc, jobs, drafts, file, deaths, errors, msgs>>
    BY <1>10 DEF List, store, rows
  <2>2. AllApproved(drafts)
    BY <1>1, <2>1 DEF QuietWork, QuietStore, ExportingFor
  <2>3. Became(w, "store", wk[w].doc, wk[w].todo, Wording)
    BY <1>3, <1>10, <2>1, <2>2, Working DEF Wording
  <2>4. Wording' = Wording
    BY <2>1 DEF Wording, Listed
  <2>5. QuietWork(w)' /\ QuietQueue'
    BY <1>1, <1>3, <2>1, <2>3, <2>4 DEF QuietWork, QuietQueue, Became, ExportingFor
  <2>6. wk'[w].pc \in HoldingPcs /\ wk'[w].job = j /\ wk'[w].msg = wk[w].msg
    BY <2>3 DEF Became, HoldingPcs
  <2>. QED
    BY <1>2, <2>1, <2>5, <2>6, QuietReads
<1>11. CASE StoreFile(w)
  <2>1. /\ wk[w].pc = "store" /\ file' = wk[w].texts /\ Write(w, wk[w].doc, {})
        /\ UNCHANGED <<doc, jobs, drafts, deaths, errors, msgs>>
    BY <1>11 DEF StoreFile, rows
  <2>2. file' = Wording /\ Wording' = Wording /\ ExportingFor(j)
    BY <1>1, <2>1 DEF QuietWork, Wording, Listed
  <2>3. Became(w, "commit", Done("export", wk[w].doc), {}, wk[w].texts)
    BY <1>3, <2>1, WritesTo
  <2>4. Done("export", wk[w].doc).status = "exported"
    <3>1. wk[w].doc \in Documents
      BY <2>1, AtWork
    <3>. QED
      BY <3>1 DEF Done, Documents
  <2>5. QuietWork(w)'
    BY <1>1, <1>3, <2>1, <2>2, <2>3, <2>4 DEF QuietWork, Became, ExportingFor
  <2>6. \A v \in Workers \ {w} : QuietWork(v)'
    BY <1>2, <2>1, <2>2 DEF QuietInv, QuietWork, ExportingFor
  <2>7. QuietStore' /\ QuietQueue'
    BY <1>1, <2>1, <2>2 DEF QuietStore, QuietQueue, ExportingFor, AllApproved, Listed, apivars
  <2>8. QuietJobs'
    <3>1. \A k \in Exports, v \in Workers : Holds(v, k) => Holds(v, k)' /\ wk'[v].msg = wk[v].msg
      BY <1>2, <2>3 DEF Became, Holds, HoldingPcs
    <3>. QED
      BY <1>1, <2>1, <3>1 DEF QuietJobs, ExportingFor
  <2>9. \A c \in Callers : QuietCall(c)'
    BY <2>1 DEF QuietInv, QuietCall, ExportingFor, AllApproved, Listed, apivars
  <2>. QED
    BY <2>5, <2>6, <2>7, <2>8, <2>9 DEF QuietInv
<1>12. CASE Commit(w)
  <2>1. /\ wk[w].pc = "commit" /\ doc' = wk[w].doc /\ Goto(w, "close")
        /\ UNCHANGED <<jobs, drafts, file, deaths, errors, msgs>>
    BY <1>12 DEF Commit, rows
  <2>2. /\ doc'.status = "exported" /\ file = Wording /\ ExportingFor(j) /\ Wording' = Wording
        /\ Holds(w, j)
    BY <1>1, <2>1 DEF QuietWork, Wording, Listed, Holds, HoldingPcs
  <2>3. jobs[j].status \in {"running", "succeeded"} /\ ~Claimable(j)
    BY <1>3, <2>1, <2>2, HeldNotClaimable
  <2>4. QuietWork(w)'
    BY <1>7, <2>1
  <2>5. \A v \in Workers \ {w} : QuietWork(v)'
    <3>1. SUFFICES ASSUME NEW v \in Workers \ {w} PROVE QuietWork(v)'
      OBVIOUS
    <3>2. wk[v].pc \notin {"list", "store", "commit"}
      <4>1. SUFFICES ASSUME wk[v].pc \in {"list", "store", "commit"} PROVE FALSE
        OBVIOUS
      <4>2. wk[v].job = j
        BY <2>2, <4>1 DEF QuietInv, QuietWork, ExportingFor
      <4>3. Holds(v, j)
        BY <4>1, <4>2 DEF Holds, HoldingPcs
      <4>. QED
        BY <1>3, <2>1, <2>2, <4>3 DEF LeaseInv, OneClaimant
    <3>. QED
      BY <1>2, <2>1, <3>1, <3>2 DEF QuietInv, QuietWork
  <2>6. QuietStore' /\ QuietQueue'
    BY <1>1, <2>1, <2>2 DEF QuietStore, QuietQueue, ExportingFor, AllApproved, Listed, apivars, DraftedOn
  <2>7. QuietJobs'
    <3>1. \A k \in Exports, v \in Workers : Holds(v, k) => Holds(v, k)' /\ wk'[v].msg = wk[v].msg
      BY <1>2, <2>1, GoesTo DEF Became, Holds, HoldingPcs
    <3>2. \A k \in Exports : jobs[k].status # "pending"
      BY <1>1, <2>2, <2>3 DEF QuietJobs, ExportingFor
    <3>. QED
      BY <1>1, <2>1, <3>1, <3>2 DEF QuietJobs
  <2>8. \A c \in Callers : QuietCall(c)'
    <3>1. SUFFICES ASSUME NEW c \in Callers PROVE QuietCall(c)'
      OBVIOUS
    <3>2. QuietCall(c) /\ call' = call
      BY DEF QuietInv, apivars
    <3>3. call[c].pc # "jobput"
      BY <2>2, <2>3, <3>2 DEF QuietCall, ExportingFor
    <3>4. ~(call[c].op = "approve_draft" /\ call[c].pc \notin {"idle", "read"})
      BY <2>2, <3>2 DEF QuietCall, ExportingFor, Admitted
    <3>. QED
      BY <2>1, <2>2, <3>2, <3>3, <3>4 DEF QuietCall, ExportingFor
  <2>. QED
    BY <2>4, <2>5, <2>6, <2>7, <2>8 DEF QuietInv
<1>13. CASE Ack(w)
  <2>1. wk[w].pc = "ack" /\ wk' = [wk EXCEPT ![w] = NoWork]
        /\ UNCHANGED <<doc, jobs, drafts, file, deaths, errors>>
    BY <1>13 DEF Ack, store, rows
  <2>2. QuietQueue'
    BY <1>1, <1>13, QueueJobs DEF QuietQueue, NoMessage
  <2>3. wk'[w] = NoWork
    BY <1>4, <2>1
  <2>4. QuietWork(w)'
    BY <2>3 DEF QuietWork, NoWork
  <2>5. wk[w].pc \notin HoldingPcs
    BY <2>1 DEF HoldingPcs
  <2>. QED
    BY <1>2, <2>1, <2>2, <2>4, <2>5, QuietReads
<1>14. ~(Fail(w) \/ Die(w))
  BY <1>1 DEF Fail, Die, QuietStore
<1>15. ~(Refuse(w) \/ UndoDoc(w) \/ FailJob(w) \/ ChainRead(w) \/ ChainPut(w) \/ ChainSend(w))
  BY <1>1 DEF QuietWork, Refuse, UndoDoc, FailJob, ChainRead, ChainPut, ChainSend
<1>16. ~(Begin(w) \/ ListApproved(w) \/ PutRow(w))
  BY <1>1 DEF QuietWork, Begin, ListApproved, PutRow
<1>. QED
  BY <1>5, <1>6, <1>8, <1>9, <1>10, <1>11, <1>12, <1>13, <1>14, <1>15, <1>16
     DEF WorkerMoves, WorkerStep

(* A step that leaves the rows, the file and the invocations alone. *)
LEMMA QuietAsks ==
    ASSUME QuietInv, UNCHANGED <<doc, jobs, drafts, file, wk, deaths, errors, apiFaults>>,
           QuietQueue', \A c \in Callers : QuietCall(c)'
    PROVE  QuietInv'
<1>1. QuietStore'
  BY DEF QuietInv, QuietStore, Wording, AllApproved, Listed
<1>2. QuietJobs'
  BY DEF QuietInv, QuietJobs, ExportingFor, Holds
<1>3. \A w \in Workers : QuietWork(w)'
  BY DEF QuietInv, QuietWork, ExportingFor, Wording, Listed
<1>. QED
  BY <1>1, <1>2, <1>3 DEF QuietInv

(* No export runs unless the document is being exported. *)
LEMMA QuietIdle ==
    ASSUME QuietInv, doc.status # "exporting"
    PROVE  /\ \A j \in Exports : jobs[j].status # "pending"
           /\ \A w \in Workers : wk[w].pc \notin {"list", "store", "commit"}
BY DEF QuietInv, QuietJobs, QuietWork, ExportingFor

(* A step that changes the document, or its drafts, while no export runs. *)
LEMMA QuietRevises ==
    ASSUME QuietInv, doc.status # "exporting", UNCHANGED <<jobs, msgs, wkvars>>,
           QuietStore', \A c \in Callers : QuietCall(c)'
    PROVE  QuietInv'
<1>1. wk' = wk
  BY DEF wkvars
<1>2. QuietQueue'
  BY DEF QuietInv, QuietQueue
<1>3. QuietJobs'
  BY <1>1, QuietIdle DEF QuietInv, QuietJobs, Holds
<1>4. \A w \in Workers : QuietWork(w)'
  BY <1>1, QuietIdle DEF QuietInv, QuietWork
<1>. QED
  BY <1>2, <1>3, <1>4 DEF QuietInv

LEMMA QuietCaller ==
    ASSUME IInv, LeaseInv, QuietInv, NEW c \in Callers, \A d \in Callers : d = c, CallerMoves(c)
    PROVE  QuietInv'
<1>1. QuietCall(c) /\ QuietStore /\ QuietQueue /\ QuietJobs
  BY DEF QuietInv
<1>2. (\A d \in Callers : QuietCall(d)') <=> QuietCall(c)'
  OBVIOUS
<1>3. Over(c) => QuietCall(c)'
  BY DEF Over, NoCall, QuietCall
<1>4. call[c].pc # "idle" => CallOK(call[c]) /\ call[c].op \in AllOps /\ call[c].doc \in Documents
  BY AtCall
<1>5. jobs \in [Jobs -> JobRows] /\ Exports \subseteq Jobs
  BY DEF IInv, StoreOK, Jobs
<1>6. ASSUME UNCHANGED <<store, trace, msgs, wkvars, apiFaults>>, QuietCall(c)'
      PROVE  QuietInv'
  <2>1. UNCHANGED <<doc, jobs, drafts, file, wk, deaths, errors, apiFaults>> /\ QuietQueue'
    BY <1>1, <1>6 DEF store, rows, wkvars, QuietQueue
  <2>. QED
    BY <1>2, <1>6, <2>1, QuietAsks
<1>7. CASE NewCall(c)
  <2>1. call'[c].pc = "read"
    <3>1. PICK op \in Ops, s \in Sections \cup {NoSection} :
             /\ op \in RowOps => s \in Listed(Table(op))
             /\ call'[c] = [NoCall EXCEPT !.op = op, !.pc = "read", !.sec = s]
      BY <1>7, Asking
    <3>. QED
      BY <3>1 DEF NoCall
  <2>2. QuietCall(c)'
    BY <2>1 DEF QuietCall
  <2>. QED
    BY <1>6, <1>7, <2>2 DEF NewCall
<1>8. CASE ReadDocument(c)
  <2>1. \/ /\ doc.status \in Admitted(call[c].op)
           /\ Went(c, AfterRead(call[c].op, doc), doc, call[c].copy, call[c].todo, call[c].job)
        \/ Over(c)
    BY <1>8, Asking
  <2>2. call[c].pc = "read" /\ call[c].op \in AllOps /\ UNCHANGED <<store, trace, msgs, wkvars, apiFaults>>
    BY <1>4, <1>8 DEF ReadDocument
  <2>3. CASE Went(c, AfterRead(call[c].op, doc), doc, call[c].copy, call[c].todo, call[c].job)
             /\ doc.status \in Admitted(call[c].op)
    <3>1. call[c].op \in {"edit_draft", "approve_draft", "export"}
      BY <1>1, <2>2, <2>3 DEF QuietStore, DraftedOn, Admitted, AllOps
    <3>2. /\ call'[c].pc = AfterRead(call[c].op, doc) /\ call'[c].op = call[c].op
          /\ call'[c].doc = doc
      BY <2>3 DEF Went
    <3>3. AfterRead(call[c].op, doc) = IF call[c].op = "export" THEN "list" ELSE "row"
      BY <3>1 DEF AfterRead, RowOps
    <3>4. doc' = doc
      BY <2>2 DEF store
    <3>5. QuietCall(c)'
      BY <2>3, <3>1, <3>2, <3>3, <3>4 DEF QuietCall
    <3>. QED
      BY <1>6, <2>2, <3>5
  <2>. QED
    BY <1>3, <1>6, <2>1, <2>2, <2>3
<1>9. CASE ReadRow(c)
  <2>1. /\ call[c].pc = "row" /\ call[c].op \in RowOps
        /\ UNCHANGED <<store, trace, msgs, wkvars, apiFaults>>
    BY <1>4, <1>9 DEF ReadRow, CallOK
  <2>2. /\ call'[c].pc = IF call[c].op = "edit_draft" THEN "cas" ELSE "put"
        /\ call'[c].op = call[c].op /\ call'[c].doc = call[c].doc
    BY <1>9, Asking DEF Went
  <2>3. doc' = doc
    BY <2>1 DEF store
  <2>4. QuietCall(c)'
    BY <1>1, <2>1, <2>2, <2>3 DEF QuietCall, RowOps
  <2>. QED
    BY <1>6, <2>1, <2>4
<1>10. CASE ListRows(c)
  <2>1. call[c].pc = "list" /\ UNCHANGED <<store, trace, msgs, wkvars, apiFaults>>
    BY <1>10 DEF ListRows
  <2>2. UNCHANGED <<doc, jobs, drafts>>
    BY <2>1 DEF store, rows
  <2>3. call[c].op \in {"edit_draft", "approve_draft", "export"}
    BY <1>1, <2>1 DEF QuietCall
  <2>4. \/ /\ call[c].op = "approve_draft"
           /\ AllApproved(drafts)
           /\ Went(c, "cas", call[c].doc, call[c].copy, call[c].todo, call[c].job)
        \/ /\ call[c].op = "export"
           /\ \E x \in Exports :
                /\ jobs[x].status = "none"
                /\ Went(c, "cas", call[c].doc, call[c].copy, call[c].todo, x)
        \/ Over(c)
    BY <1>10, <2>3, Listing
  <2>5. CASE /\ call[c].op = "approve_draft" /\ AllApproved(drafts)
             /\ Went(c, "cas", call[c].doc, call[c].copy, call[c].todo, call[c].job)
    <3>1. AllApproved(drafts)'
      BY <2>2, <2>5 DEF AllApproved, Listed
    <3>2. QuietCall(c)'
      BY <1>1, <2>1, <2>2, <2>5, <3>1 DEF QuietCall, Went
    <3>. QED
      BY <1>6, <2>1, <3>2
  <2>6. ASSUME NEW x \in Exports, call[c].op = "export", jobs[x].status = "none",
               Went(c, "cas", call[c].doc, call[c].copy, call[c].todo, x)
        PROVE  QuietInv'
    <3>1. QuietCall(c)'
      BY <1>1, <2>1, <2>2, <2>6 DEF QuietCall, Went
    <3>. QED
      BY <1>6, <2>1, <3>1
  <2>. QED
    BY <1>3, <1>6, <2>1, <2>4, <2>5, <2>6
<1>11. CASE PutDraft(c)
  <2>. DEFINE s == call[c].sec
  <2>1. /\ call[c].pc = "put" /\ call[c].op \in {"edit_draft", "approve_draft"}
        /\ UNCHANGED <<doc, jobs, file, msgs, wkvars, apiFaults>>
    BY <1>11 DEF PutDraft, At
  <2>2. drafts \in [Sections -> Rows] /\ s \in Sections
    BY <2>1, AtCall DEF StoreOK, RowOps
  <2>3. UNCHANGED <<deaths, errors>>
    BY <2>1 DEF wkvars
  <2>4. CASE At(c, "edit_draft", "put") /\ Step(c, "idle")
    <3>1. doc.status = "drafted"
      BY <1>1, <2>4 DEF QuietCall, At
    <3>2. QuietCall(c)'
      BY <1>3, <2>4, StepsTo
    <3>3. QuietStore'
      BY <1>1, <2>1, <2>3, <3>1 DEF QuietStore
    <3>. QED
      BY <1>2, <2>1, <3>1, <3>2, <3>3, QuietRevises
  <2>5. CASE /\ At(c, "approve_draft", "put") /\ Step(c, "list")
             /\ drafts' = [drafts EXCEPT ![s] = Approve(c, s)]
    <3>1. doc.status \in {"drafted", "review_approved"} /\ doc.status = call[c].doc.status
      BY <1>1, <2>5 DEF QuietCall, At, Admitted
    <3>2. Went(c, "list", call[c].doc, call[c].copy, call[c].todo, call[c].job)
      BY <2>5, StepsTo
    <3>3. QuietCall(c)'
      BY <1>1, <2>1, <2>5, <3>2 DEF QuietCall, Went, At
    <3>4. AllApproved(drafts) => AllApproved(drafts)'
      <4>1. \A t \in Sections : drafts'[t] = drafts[t] \/ drafts'[t].status = "approved"
        BY <2>2, <2>5 DEF Approve
      <4>2. Listed(drafts) \subseteq Listed(drafts')
        BY <4>1 DEF Listed
      <4>3. \A t \in Listed(drafts') : t \in Listed(drafts) \/ drafts'[t].status = "approved"
        BY <4>1 DEF Listed
      <4>4. Listed(drafts)' = Listed(drafts')
        BY DEF Listed
      <4>. QED
        BY <4>1, <4>2, <4>3, <4>4 DEF AllApproved, Listed
    <3>5. QuietStore'
      BY <1>1, <2>1, <2>3, <3>1, <3>4 DEF QuietStore
    <3>. QED
      BY <1>2, <2>1, <3>1, <3>3, <3>5, QuietRevises
  <2>. QED
    BY <1>11, <2>4, <2>5 DEF PutDraft
<1>12. CASE PutDocument(c)
  <2>1. /\ call[c].pc = "cas" /\ call[c].op \in {"edit_draft", "approve_draft", "export"}
        /\ call[c].doc.status \in Admitted(call[c].op)
        /\ UNCHANGED <<jobs, drafts, file, msgs, wkvars, apiFaults>>
    BY <1>1, <1>12 DEF PutDocument, QuietCall, rows
  <2>2. UNCHANGED <<deaths, errors>>
    BY <2>1 DEF wkvars
  <2>3. CASE doc.status \notin Expected(c)
    <3>1. UNCHANGED doc /\ Over(c)
      BY <1>12, <2>1, <2>3, StepsTo DEF PutDocument
    <3>. QED
      BY <1>1, <1>2, <1>3, <2>1, <3>1, QuietAsks DEF QuietQueue, wkvars
  <2>4. CASE doc.status \in Expected(c)
    <3>1. doc' = NewDocument(c) /\ Step(c, AfterCas(call[c].op)) /\ doc.status = call[c].doc.status
      BY <1>12, <2>1, <2>4 DEF PutDocument, Expected
    <3>2. doc.status # "exporting"
      BY <2>1, <3>1 DEF Admitted
    <3>3. call[c].doc \in Documents
      BY <1>4, <2>1
    <3>4. AllApproved(drafts)' <=> AllApproved(drafts)
      BY <2>1 DEF AllApproved, Listed
    <3>5. QuietStore' /\ QuietCall(c)'
      <4>1. CASE call[c].op = "edit_draft"
        <5>1. doc'.status = "drafted"
          BY <3>1, <3>3, <4>1 DEF NewDocument, Documents
        <5>2. Went(c, "put", call[c].doc, call[c].copy, call[c].todo, call[c].job)
          BY <3>1, <4>1, StepsTo DEF AfterCas
        <5>3. QuietCall(c)'
          BY <2>1, <4>1, <5>1, <5>2 DEF Went, QuietCall
        <5>. QED
          BY <1>1, <2>1, <2>2, <5>1, <5>3 DEF QuietStore, DraftedOn
      <4>2. CASE call[c].op = "approve_draft"
        <5>1. doc'.status = "review_approved"
          BY <3>1, <3>3, <4>2 DEF NewDocument, Documents
        <5>2. QuietCall(c)'
          BY <1>3, <3>1, <4>2, StepsTo DEF AfterCas
        <5>. QED
          BY <1>1, <2>1, <2>2, <3>4, <4>2, <5>1, <5>2 DEF QuietStore, QuietCall, DraftedOn
      <4>3. CASE call[c].op = "export"
        <5>1. doc'.status = "exporting" /\ doc'.active = call[c].job
          BY <3>1, <3>3, <4>3 DEF NewDocument, Documents
        <5>2. Went(c, "jobput", call[c].doc, call[c].copy, call[c].todo, call[c].job)
          BY <3>1, <4>3, StepsTo DEF AfterCas
        <5>3. QuietCall(c)'
          BY <1>1, <2>1, <4>3, <5>1, <5>2 DEF Went, QuietCall, ExportingFor
        <5>4. doc.status \in {"review_approved", "exported"}
          BY <2>1, <3>1, <4>3 DEF Admitted
        <5>. QED
          BY <1>1, <2>1, <2>2, <3>4, <5>1, <5>3, <5>4 DEF QuietStore, DraftedOn
      <4>. QED
        BY <2>1, <4>1, <4>2, <4>3
    <3>. QED
      BY <1>2, <2>1, <3>2, <3>5, QuietRevises
  <2>. QED
    BY <2>3, <2>4
<1>13. CASE PutNewJob(c)
  <2>. DEFINE x == call[c].job
  <2>1. /\ call[c].pc = "jobput" /\ call[c].op = "export" /\ JobOf(c) = x
        /\ UNCHANGED <<doc, drafts, file, msgs, wkvars, apiFaults>>
    BY <1>1, <1>13 DEF PutNewJob, QuietCall, rows, JobOf
  <2>2. x \in Exports /\ jobs[x].status = "none" /\ ExportingFor(x)
    BY <1>1, <1>4, <2>1 DEF CallOK, QuietCall
  <2>3. wk' = wk /\ UNCHANGED <<deaths, errors>>
    BY <2>1 DEF wkvars
  <2>4. jobs'[x].status = "pending" /\ \A k \in Jobs : k # x => jobs'[k] = jobs[k]
    <3>1. jobs' = [jobs EXCEPT ![x] = NewJob(c, "pending")]
      BY <1>13, <2>1 DEF PutNewJob
    <3>2. NewJob(c, "pending").status = "pending"
      BY DEF NewJob
    <3>. QED
      BY <1>5, <2>2, <3>1, <3>2
  <2>5. QuietStore' /\ QuietQueue'
    BY <1>1, <2>1, <2>3 DEF QuietStore, QuietQueue, Wording, AllApproved, Listed
  <2>6. QuietJobs'
    BY <1>1, <1>5, <2>1, <2>2, <2>3, <2>4 DEF QuietJobs, ExportingFor, Holds
  <2>7. \A w \in Workers : QuietWork(w)'
    <3>1. SUFFICES ASSUME NEW w \in Workers PROVE QuietWork(w)'
      OBVIOUS
    <3>2. wk[w].job # x
      BY <1>5, <2>2 DEF LeaseInv, Unused
    <3>3. wk[w].pc = "claim" => jobs'[wk[w].job] = jobs[wk[w].job]
      BY <2>4, <3>2, AtWork
    <3>. QED
      BY <2>1, <2>3, <3>3 DEF QuietInv, QuietWork, ExportingFor, Wording, Listed
  <2>8. Went(c, "send", call[c].doc, call[c].copy, call[c].todo, call[c].job)
    BY <1>13, StepsTo DEF PutNewJob
  <2>9. QuietCall(c)'
    BY <1>1, <2>1, <2>4, <2>8 DEF QuietCall, Went
  <2>. QED
    BY <1>2, <2>5, <2>6, <2>7, <2>9 DEF QuietInv
<1>14. CASE SendMessage(c)
  <2>1. /\ call[c].pc = "send" /\ call[c].op = "export" /\ Send(call[c].job, HeldMessages) /\ Step(c, "idle")
        /\ UNCHANGED <<doc, jobs, drafts, file, wk, deaths, errors, apiFaults>>
    BY <1>1, <1>14 DEF SendMessage, QuietCall, JobOf, store, rows, wkvars
  <2>2. call[c].job \in Exports
    BY <1>4, <2>1 DEF CallOK
  <2>3. QuietQueue'
    BY <1>1, <2>1, <2>2, QueueJobs DEF QuietQueue
  <2>. QED
    BY <1>2, <1>3, <2>1, <2>3, StepsTo, QuietAsks
<1>15. ~(EnqueueFails(c) \/ CallDies(c))
  BY <1>1 DEF EnqueueFails, CallDies, QuietStore
<1>16. ~(ReadLatest(c) \/ ReadDraftJob(c) \/ RestoreDocument(c) \/ FailNewJob(c) \/ PutMapping(c))
  BY <1>1 DEF QuietCall, ReadLatest, ReadDraftJob, RestoreDocument, FailNewJob, PutMapping, At
<1>. QED
  BY <1>7, <1>8, <1>9, <1>10, <1>11, <1>12, <1>13, <1>14, <1>15, <1>16 DEF CallerMoves, CallStep

LEMMA QuietNext ==
    ASSUME Quiet, IInv, LeaseInv, QuietInv, [Next]_vars
    PROVE  QuietInv'
<1>1. CASE (\E w \in Workers : WorkerMoves(w)) /\ UNCHANGED apivars
  BY <1>1, QuietWorker
<1>2. CASE \E c \in Callers : CallerMoves(c)
  <2>1. PICK c \in Callers : CallerMoves(c)
    BY <1>2
  <2>2. \A d \in Callers : d = c
    BY DEF Quiet
  <2>. QED
    BY <2>1, <2>2, QuietCaller
<1>3. CASE (\E m \in Messages : Reappear(m) \/ Duplicate(m)) /\ UNCHANGED apivars
  <2>1. UNCHANGED <<doc, jobs, drafts, file, wk, deaths, errors, apiFaults, call>>
    BY <1>3 DEF Reappear, Duplicate, store, rows, wkvars, apivars
  <2>2. \A n \in Messages : msgs'[n].job = msgs[n].job
    <3>1. msgs \in [Messages -> Queued]
      BY DEF IInv, StoreOK
    <3>. QED
      BY <1>3, <3>1 DEF Reappear, Duplicate, Queued
  <2>3. QuietQueue'
    BY <2>2 DEF QuietInv, QuietQueue
  <2>4. \A c \in Callers : QuietCall(c)'
    BY <2>1 DEF QuietInv, QuietCall, ExportingFor, AllApproved, Listed
  <2>. QED
    BY <2>1, <2>3, <2>4, QuietAsks
<1>4. CASE (\E k \in Jobs : LeaseExpires(k)) /\ UNCHANGED apivars
  <2>1. PICK k \in Jobs : LeaseExpires(k)
    BY <1>4
  <2>2. jobs \in [Jobs -> JobRows] /\ Exports \subseteq Jobs
    BY DEF IInv, StoreOK, Jobs
  <2>3. UNCHANGED <<doc, drafts, file, msgs, wk, deaths, errors, apiFaults, call>>
    BY <1>4, <2>1 DEF LeaseExpires, rows, wkvars, apivars
  <2>4. \A j \in Jobs : jobs'[j].status = jobs[j].status /\ (j # k => jobs'[j] = jobs[j])
    BY <2>1, <2>2 DEF LeaseExpires, JobRows
  <2>5. ~(\E w \in Workers : Holds(w, k) /\ jobs[k].lease = wk[w].msg)
    BY <2>1 DEF LeaseExpires, Holds
  <2>6. QuietStore' /\ QuietQueue'
    BY <2>3 DEF QuietInv, QuietStore, QuietQueue, Wording, AllApproved, Listed
  <2>7. QuietJobs'
    BY <2>2, <2>3, <2>4, <2>5 DEF QuietInv, QuietJobs, ExportingFor, Holds
  <2>8. \A w \in Workers : QuietWork(w)'
    <3>1. SUFFICES ASSUME NEW w \in Workers PROVE QuietWork(w)'
      OBVIOUS
    <3>2. wk[w].pc = "claim" => wk[w].job \in Jobs
      BY AtWork
    <3>. QED
      BY <2>3, <2>4, <3>2 DEF QuietInv, QuietWork, ExportingFor, Wording, Listed
  <2>9. \A c \in Callers : QuietCall(c)'
    <3>1. SUFFICES ASSUME NEW c \in Callers PROVE QuietCall(c)'
      OBVIOUS
    <3>2. QuietCall(c) /\ call' = call
      BY <2>3 DEF QuietInv
    <3>3. call[c].op = "export" /\ call[c].pc \in {"cas", "jobput", "send"} => call[c].job \in Jobs
      BY <2>2, AtCall DEF CallOK
    <3>. QED
      BY <2>3, <2>4, <3>2, <3>3 DEF QuietCall, ExportingFor, AllApproved, Listed
  <2>. QED
    BY <2>6, <2>7, <2>8, <2>9 DEF QuietInv
<1>5. CASE UNCHANGED vars
  <2>1. UNCHANGED <<doc, jobs, drafts, file, wk, deaths, errors, apiFaults, call, msgs>>
    BY <1>5 DEF vars, store, rows, wkvars, apivars
  <2>2. QuietQueue' /\ \A c \in Callers : QuietCall(c)'
    BY <2>1 DEF QuietInv, QuietQueue, QuietCall, ExportingFor, AllApproved, Listed
  <2>. QED
    BY <2>1, <2>2, QuietAsks
<1>. QED
  BY <1>1, <1>2, <1>3, <1>4, <1>5 DEF Next

LEMMA QuietInit ==
    ASSUME Quiet, Init
    PROVE  QuietInv
<1>1. PICK a \in Scenarios : StoreInit(a.start) /\ deaths = a.deaths /\ errors = a.errors /\ apiFaults = a.apiFaults
  BY DEF Init
<1>2. a.start = "drafted" /\ deaths = 0 /\ errors = 0 /\ apiFaults = 0
  BY <1>1 DEF Quiet
<1>3. doc.status = "drafted"
  BY <1>1, <1>2 DEF StoreInit
<1>4. QuietStore
  BY <1>2, <1>3 DEF QuietStore, DraftedOn
<1>5. QuietQueue
  BY <1>1 DEF StoreInit, QuietQueue, NoMessage
<1>6. QuietJobs
  <2>1. Exports \subseteq Jobs /\ Exports \cap {"parse", "map", "draft"} = {}
    BY PipelineConstants DEF Jobs
  <2>2. \A j \in Exports : jobs[j].status = "none"
    BY <1>1, <2>1 DEF StoreInit, NoJob
  <2>. QED
    BY <2>2 DEF QuietJobs
<1>7. \A w \in Workers : wk[w].pc = "idle" /\ wk[w].job = "none"
  BY DEF Init, NoWork
<1>8. \A c \in Callers : call[c].pc = "idle"
  BY DEF Init, NoCall
<1>. QED
  BY <1>4, <1>5, <1>6, <1>7, <1>8 DEF QuietInv, QuietWork, QuietCall

LEMMA QuietSpec ==
    ASSUME Quiet
    PROVE  Spec => []QuietInv
<1>1. Init => LeaseInv /\ QuietInv
  BY LeaseInit, QuietInit
<1>2. IInv /\ LeaseInv /\ QuietInv /\ [Next]_vars => LeaseInv' /\ QuietInv'
  BY QuietFresh, LeaseNext, QuietNext
<1>3. Spec => []IInv
  BY Invariant
<1>. QED
  BY <1>1, <1>2, <1>3, PTL DEF Spec

(* With one reviewer and no failing invocation or request, review_approved  *)
(* means that every generated draft is approved, however often messages     *)
(* come and whatever is edited between (_approve_draft, _update_draft).     *)
THEOREM ReviewMeansApproved == Quiet => (Spec => []ReviewedIsApproved)
<1>. SUFFICES ASSUME Quiet PROVE Spec => []ReviewedIsApproved
  OBVIOUS
<1>1. QuietInv => ReviewedIsApproved
  BY DEF QuietInv, QuietStore, ReviewedIsApproved
<1>. QED
  BY <1>1, QuietSpec, PTL

(* And then the file that can be downloaded is what the drafts say, and all *)
(* of them are approved, for as long as the document counts as exported     *)
(* (run_export_job, put_document_if_status).                                *)
THEOREM ExportStaysCurrent == Quiet => (Spec => []ExportIsCurrent)
<1>. SUFFICES ASSUME Quiet PROVE Spec => []ExportIsCurrent
  OBVIOUS
<1>1. QuietInv => ExportIsCurrent
  BY DEF QuietInv, QuietStore, Wording, ExportIsCurrent
<1>. QED
  BY <1>1, QuietSpec, PTL

-----------------------------------------------------------------------------
(* From the upload on *)

(* Calls of the worker's try blocks and of requests do not fail, and a      *)
(* message is received by one invocation at a time; invocations may die at  *)
(* any step, and their messages come again.  One person approves mappings.  *)
Calm ==
    /\ \A a \in Scenarios : a.errors = 0 /\ a.dups = 0 /\ a.apiFaults = 0
    /\ "approve_mappings" \in Ops => \A c, d \in Callers : c = d

ChainPcs == {"chain", "chainput", "chainsend"}
Unasked  == {"upload_pending", "uploaded"}
Putting  == {"jobput", "send"}

(* Every invocation has a message of its own. *)
Delivered(w) ==
    IF wk[w].msg = "none" THEN wk[w] = NoWork
    ELSE msgs[wk[w].msg].state = "inflight" /\ msgs[wk[w].msg].job = wk[w].job

Deliveries ==
    /\ \A w \in Workers : Delivered(w)
    /\ \A v, w \in Workers : wk[v].msg = wk[w].msg /\ wk[v].msg # "none" => v = w
    /\ \A m, n \in Messages : msgs[m].job = "parse" /\ msgs[n].job = "parse" => m = n

(* Parsing hands over to mapping, and is asked for once. *)
HandStore ==
    /\ errors = 0 /\ dups = 0 /\ apiFaults = 0
    /\ doc.status # "failed"
    /\ LateJobs
    /\ doc.status \in Unasked => jobs["parse"].status = "none"

HandWork(w) ==
    /\ wk[w].pc \in ChainPcs => wk[w].job = "parse"
    /\ wk[w].pc = "chainput" => jobs["map"].status = "none"
    /\ wk[w].pc = "chainsend" => jobs["map"].status # "none"
    /\ wk[w].pc \in {"undo", "failjob"} => wk[w].job \in Exports
    /\ wk[w].pc = "commit" => wk[w].doc.status \in {"parsed", "mapped", "drafted", "exported"}

HandCall(c) ==
    /\ call[c].pc \notin {"undo", "undojob"}
    /\ call[c].op \in Ops \cup {"none"}
    /\ call[c].pc \in Putting => call[c].op \in {"parse", "approve_mappings", "export"}
    /\ call[c].op = "export" /\ call[c].pc \notin {"idle", "read"} => call[c].doc.status \in Backed
    /\ call[c].op = "export" /\ call[c].pc = "cas" => jobs[call[c].job].status = "none"
    /\ call[c].pc = "jobput" => jobs[JobOf(c)].status = "none"
    /\ call[c].pc = "send" => jobs[JobOf(c)].status # "none"
    /\ call[c].op = "parse" /\ call[c].pc \in Putting =>
         doc.status \notin Unasked /\ \A m \in Messages : msgs[m].job # "parse"

(* What two requests do not do at once. *)
Apart(c, d) ==
    /\ call[c].job = "none" \/ call[c].job # call[d].job
    /\ ~(/\ call[c].op = "parse" /\ call[c].pc \in Putting
         /\ call[d].op = "parse" /\ call[d].pc \in Putting)

Handed ==
    /\ HandStore /\ Deliveries
    /\ \A w \in Workers : HandWork(w)
    /\ \A c \in Callers : HandCall(c)
    /\ \A c, d \in Callers : c # d => Apart(c, d)

LEMMA HandedFresh ==
    ASSUME Handed
    PROVE  FreshJobs
BY DEF Handed, HandWork, HandCall, FreshJobs

(* One invocation at a time parses. *)
LEMMA OneParser ==
    ASSUME Deliveries, IInv, NEW v \in Workers, NEW w \in Workers,
           wk[v].job = "parse", wk[w].job = "parse"
    PROVE  v = w
<1>1. \A u \in Workers : wk[u].msg \in Messages \cup {"none"}
  BY DEF IInv, WorkersOK, Works
<1>2. NoWork.job # "parse"
  BY DEF NoWork
<1>. QED
  BY <1>1, <1>2 DEF Deliveries, Delivered

(* A worker makes no job row but the mapping's, and takes none away. *)
LEMMA JobStays ==
    ASSUME IInv, LeaseInv, NEW w \in Workers, WorkerMoves(w), NEW j \in Jobs
    PROVE  \/ (jobs'[j].status = "none") <=> (jobs[j].status = "none")
           \/ ChainPut(w) /\ j = "map" /\ jobs'[j].status # "none"
<1>1. jobs \in [Jobs -> JobRows]
  BY DEF IInv, StoreOK
<1>2. wk[w].pc # "idle" => wk[w].job \in Jobs
  BY AtWork
<1>3. wk[w].pc # "idle" => jobs[wk[w].job].status # "none"
  BY <1>2 DEF LeaseInv, Unused
<1>4. CASE Settle(w) \/ Close(w) \/ Refuse(w) \/ FailJob(w)
  <2>1. /\ wk[w].pc # "idle"
        /\ UNCHANGED jobs \/ PutJob(wk[w].job, "succeeded") \/ PutJob(wk[w].job, "failed")
    BY <1>4 DEF Settle, Close, Refuse, FailJob
  <2>. QED
    BY <1>2, <1>3, <2>1, JobPut
<1>5. CASE Claim(w) /\ Claimable(wk[w].job)
  <2>1. /\ wk[w].pc # "idle"
        /\ jobs' = [jobs EXCEPT ![wk[w].job].status = "running", ![wk[w].job].lease = wk[w].msg]
    BY <1>5 DEF Claim
  <2>. QED
    BY <1>1, <1>3, <2>1 DEF JobRows
<1>6. CASE ChainPut(w)
  <2>1. PutJob("map", "pending")
    BY <1>6 DEF ChainPut
  <2>. QED
    BY <1>6, <2>1, JobPut
<1>. QED
  BY <1>4, <1>5, <1>6, JobWrites

(* What becomes of the messages in a worker's step. *)
LEMMA MessagesStay ==
    ASSUME IInv, NEW w \in Workers, WorkerMoves(w), NEW m \in Messages
    PROVE  \/ msgs'[m] = msgs[m]
           \/ Ack(w) /\ m = wk[w].msg /\ msgs'[m] = NoMessage
           \/ ChainSend(w) /\ ~Held(m) /\ msgs[m].state = "free" /\ msgs'[m].job = "map"
           \/ /\ Receive(w, m) /\ msgs[m].state = "visible"
              /\ msgs'[m].state = "inflight" /\ msgs'[m].job = msgs[m].job
<1>1. CASE ChainSend(w)
  <2>1. Send("map", HeldMessages)
    BY <1>1 DEF ChainSend
  <2>. QED
    BY <1>1, <2>1, QueueJobs DEF HeldMessages
<1>2. CASE \E n \in Messages : Receive(w, n)
  <2>1. PICK n \in Messages : Receive(w, n)
    BY <1>2
  <2>2. msgs \in [Messages -> Queued]
    BY DEF IInv, StoreOK
  <2>3. m # n => msgs'[m] = msgs[m]
    BY <2>1, <2>2 DEF Receive
  <2>4. msgs'[m].job = msgs[m].job /\ msgs'[m].state = IF m = n THEN "inflight" ELSE msgs[m].state
    BY <2>1, QueueJobs
  <2>5. msgs[n].state = "visible"
    BY <2>1 DEF Receive
  <2>. QED
    BY <2>1, <2>3, <2>4, <2>5
<1>. QED
  BY <1>1, <1>2, QueueJobs, QueueWrites

LEMMA DeliveriesWorker ==
    ASSUME IInv, Deliveries, NEW w \in Workers, WorkerMoves(w)
    PROVE  Deliveries'
<1>1. \A v \in Workers \ {w} : wk'[v] = wk[v]
  BY WorkerOnly
<1>2. \A u \in Workers : wk[u].msg \in Messages \cup {"none"}
  BY DEF IInv, WorkersOK, Works
<1>3. "none" \notin Messages
  BY PipelineConstants
<1>4. \A m \in Messages : msgs'[m].job \in {msgs[m].job, "none", "map"}
  BY MessagesStay DEF NoMessage
<1>5. \A m, n \in Messages : msgs'[m].job = "parse" /\ msgs'[n].job = "parse" => m = n
  BY <1>4 DEF Deliveries
<1>6. NoWork.msg = "none"
  BY DEF NoWork
<1>7. ASSUME NEW v \in Workers \ {w}, wk[v].msg # "none"
      PROVE  msgs'[wk[v].msg].state = "inflight" /\ msgs'[wk[v].msg].job = wk[v].job
  <2>1. wk[v].msg \in Messages /\ msgs[wk[v].msg].state = "inflight" /\ msgs[wk[v].msg].job = wk[v].job
    BY <1>2, <1>7 DEF Deliveries, Delivered
  <2>2. wk[v].msg # wk[w].msg
    BY <1>7 DEF Deliveries
  <2>. QED
    BY <2>1, <2>2, MessagesStay
<1>8. \A v \in Workers \ {w} : Delivered(v)'
  BY <1>1, <1>7 DEF Deliveries, Delivered
<1>9. CASE \E m \in Messages : Receive(w, m)
  <2>1. PICK m \in Messages : Receive(w, m)
    BY <1>9
  <2>2. wk'[w] = [NoWork EXCEPT !.pc = "job", !.msg = m, !.job = msgs[m].job] /\ msgs[m].state = "visible"
    BY <2>1, Reading DEF Receive
  <2>3. wk'[w].msg = m /\ wk'[w].job = msgs[m].job
    BY <2>2 DEF NoWork
  <2>4. Delivered(w)'
    BY <1>3, <2>1, <2>3, QueueJobs DEF Delivered
  <2>5. \A v \in Workers : wk[v].msg # m
    BY <1>3, <2>2 DEF Deliveries, Delivered
  <2>. QED
    BY <1>1, <1>5, <1>8, <2>3, <2>4, <2>5 DEF Deliveries
<1>10. CASE wk'[w] = NoWork
  BY <1>1, <1>5, <1>6, <1>8, <1>10 DEF Deliveries, Delivered
<1>11. CASE wk'[w].job = wk[w].job /\ wk'[w].msg = wk[w].msg /\ wk[w].pc # "idle" /\ wk'[w].pc # "idle"
  <2>1. wk[w].msg \in Messages /\ wk[w].msg # "none"
    BY <1>3, <1>11, AtWork
  <2>2. msgs[wk[w].msg].state = "inflight" /\ msgs[wk[w].msg].job = wk[w].job
    BY <2>1 DEF Deliveries, Delivered
  <2>3. ~Ack(w)
    <3>1. Ack(w) => wk'[w] = NoWork
      BY DEF Ack, IInv, WorkersOK
    <3>2. NoWork.pc = "idle"
      BY DEF NoWork
    <3>. QED
      BY <1>11, <3>1, <3>2
  <2>4. Delivered(w)'
    BY <1>11, <2>1, <2>2, <2>3, MessagesStay DEF Delivered
  <2>. QED
    BY <1>1, <1>5, <1>8, <1>11, <2>4 DEF Deliveries
<1>. QED
  BY <1>9, <1>10, <1>11, WorkerOnly

LEMMA DoneStatus ==
    ASSUME NEW d \in Documents
    PROVE  /\ Done("parse", d).status = "parsed"
           /\ Done("map", d).status = "mapped"
           /\ Done("draft", d).status = "drafted"
           /\ Done("export", d).status = "exported"
<1>1. /\ [d EXCEPT !.status = "parsed", !.failure = "none", !.active = "none",
                   !.count = Cardinality(Orders)].status = "parsed"
      /\ [d EXCEPT !.status = "mapped", !.failure = "none"].status = "mapped"
      /\ [d EXCEPT !.status = "drafted", !.failure = "none"].status = "drafted"
      /\ [d EXCEPT !.status = "exported", !.failure = "none", !.active = "none",
                   !.exported = TRUE].status = "exported"
  BY DEF Documents
<1>. QED
  BY <1>1 DEF Done

(* Where a worker's own step takes it. *)
LEMMA HandWorker ==
    ASSUME IInv, HandStore, LeaseInv, NEW w \in Workers, HandWork(w), WorkerMoves(w)
    PROVE  HandWork(w)'
<1>. DEFINE j == wk[w].job
<1>1. wk \in [Workers -> Works] /\ jobs \in [Jobs -> JobRows]
  BY DEF IInv, WorkersOK, StoreOK
<1>2. wk[w].pc # "idle" => j \in Jobs /\ wk[w].doc \in Documents
  BY AtWork
<1>3. wk[w].pc # "idle" => /\ Kind(j) \in {"parse", "map", "draft", "export"}
                           /\ Kind(j) = "parse" <=> j = "parse"
                           /\ Kind(j) = "export" <=> j \in Exports
  BY <1>2, Kinds, PipelineConstants DEF Kind
<1>4. ASSUME NEW l, wk'[w].pc = l, l \notin ChainPcs \cup {"undo", "failjob", "commit"}
      PROVE  HandWork(w)'
  BY <1>4 DEF HandWork, ChainPcs
<1>5. CASE \E m \in Messages : Receive(w, m)
  <2>1. PICK m \in Messages : wk'[w] = [NoWork EXCEPT !.pc = "job", !.msg = m, !.job = msgs[m].job]
    BY <1>5, Reading
  <2>2. wk'[w].pc = "job"
    BY <2>1 DEF NoWork
  <2>. QED
    BY <1>4, <2>2 DEF ChainPcs
<1>6. CASE ReadJob(w)
  <2>1. wk'[w].pc = "doc"
    BY <1>6, Reading DEF Became
  <2>. QED
    BY <1>4, <2>1 DEF ChainPcs
<1>7. CASE ReadDoc(w)
  <2>1. wk[w].pc = "doc"
    BY <1>7 DEF ReadDoc
  <2>2. PICK l \in {"chain", "ack", "settle", "claim"} :
           Became(w, l, doc, wk[w].todo, wk[w].texts) /\ (l = "chain" => Kind(j) = "parse")
    BY <1>7, Reading
  <2>3. CASE l = "chain"
    BY <1>3, <2>1, <2>2, <2>3 DEF Became, HandWork, ChainPcs
  <2>. QED
    BY <1>4, <2>2, <2>3 DEF Became, ChainPcs
<1>8. CASE Settle(w) \/ Close(w)
  <2>1. wk[w].pc # "idle" /\ Goto(w, IF Kind(j) = "parse" THEN "chain" ELSE "ack")
    BY <1>8 DEF Settle, Close
  <2>2. wk'[w].pc = (IF Kind(j) = "parse" THEN "chain" ELSE "ack") /\ wk'[w].job = j
    BY <2>1, GoesTo DEF Became
  <2>. QED
    BY <1>3, <2>1, <2>2 DEF HandWork, ChainPcs
<1>9. CASE Claim(w) \/ Refuse(w) \/ ChainSend(w) \/ Commit(w)
  <2>1. \E l \in {"ack", "refuse", "list", "begin", "close"} : Goto(w, l)
    BY <1>9 DEF Claim, Refuse, ChainSend, Commit
  <2>2. wk'[w].pc \in {"ack", "refuse", "list", "begin", "close"}
    BY <2>1, GoesTo DEF Became
  <2>. QED
    BY <1>4, <2>2 DEF ChainPcs
<1>10. ASSUME NEW d \in Documents, NEW todo, Write(w, d, todo), wk[w].pc # "idle"
       PROVE  HandWork(w)'
  <2>1. Became(w, IF todo = {} THEN "commit" ELSE "rows",
               IF todo = {} THEN Done(Kind(j), d) ELSE d, todo, wk[w].texts)
    BY <1>10, WritesTo
  <2>2. Done(Kind(j), d).status \in {"parsed", "mapped", "drafted", "exported"}
    BY <1>3, <1>10, DoneStatus
  <2>. QED
    BY <2>1, <2>2 DEF Became, HandWork, ChainPcs
<1>11. CASE Begin(w)
  <2>1. wk[w].pc = "begin" /\ j \in {"parse", "map", "draft"}
    BY <1>11, AtWork DEF Begin, WorkOK
  <2>2. Kind(j) = j
    BY <1>2, <2>1, PipelineConstants DEF Kind
  <2>3. Doing(Kind(j), wk[w].doc) \in Documents
    BY <1>2, <2>1, <2>2, BegunStatus, DocumentSteps, <1>1, <1>3
  <2>4. \/ Write(w, Doing(Kind(j), wk[w].doc), Orders \X {parses'})
        \/ Became(w, "list", Doing(Kind(j), wk[w].doc), wk[w].todo, wk[w].texts)
    BY <1>11, Working
  <2>. QED
    BY <1>4, <1>10, <2>1, <2>3, <2>4 DEF Became, ChainPcs
<1>12. CASE List(w)
  <2>1. wk[w].pc = "list"
    BY <1>12 DEF List
  <2>2. \/ Write(w, wk[w].doc, CurrentSections)
        \/ \E l \in {"approved", "store"} : \E todo, texts : Became(w, l, wk[w].doc, todo, texts)
        \/ Goto(w, "undo") /\ Kind(j) = "export"
    BY <1>12, Working
  <2>3. CASE Goto(w, "undo") /\ Kind(j) = "export"
    BY <1>3, <2>1, <2>3, GoesTo DEF Became, HandWork, ChainPcs
  <2>. QED
    BY <1>2, <1>4, <1>10, <2>1, <2>2, <2>3 DEF Became, ChainPcs
<1>13. CASE ListApproved(w) \/ PutRow(w) \/ StoreFile(w)
  <2>1. wk[w].pc # "idle" /\ \E todo : Write(w, wk[w].doc, todo)
    BY <1>13 DEF ListApproved, PutRow, StoreFile
  <2>. QED
    BY <1>2, <1>10, <2>1
<1>14. CASE UndoDoc(w)
  <2>1. wk[w].pc = "undo" /\ Goto(w, "failjob")
    BY <1>14 DEF UndoDoc
  <2>2. wk'[w].pc = "failjob" /\ wk'[w].job = j
    BY <2>1, GoesTo DEF Became
  <2>. QED
    BY <2>1, <2>2 DEF HandWork, ChainPcs
<1>15. CASE FailJob(w) \/ Ack(w) \/ Die(w)
  <2>1. wk' = [wk EXCEPT ![w] = NoWork] \/ Goto(w, "ack")
    BY <1>15 DEF FailJob, Ack, Die
  <2>2. wk'[w].pc \in {"idle", "ack"}
    BY <1>1, <2>1, GoesTo DEF Became, NoWork
  <2>. QED
    BY <1>4, <2>2 DEF ChainPcs
<1>16. CASE ChainRead(w)
  <2>1. /\ wk[w].pc = "chain" /\ UNCHANGED jobs
        /\ \/ Goto(w, "ack")
           \/ jobs["map"].status = "none" /\ Goto(w, "chainput")
           \/ jobs["map"].status # "none" /\ Goto(w, "chainsend")
    BY <1>16 DEF ChainRead, store
  <2>2. \A l : Goto(w, l) => wk'[w].pc = l /\ wk'[w].job = j
    BY GoesTo DEF Became
  <2>. QED
    BY <2>1, <2>2 DEF HandWork, ChainPcs
<1>17. CASE ChainPut(w)
  <2>1. wk[w].pc = "chainput" /\ Goto(w, "chainsend") /\ PutJob("map", "pending")
    BY <1>17 DEF ChainPut
  <2>2. wk'[w].pc = "chainsend" /\ wk'[w].job = j
    BY <2>1, GoesTo DEF Became
  <2>3. jobs'["map"].status = "pending"
    BY <2>1, JobPut DEF Jobs
  <2>. QED
    BY <2>1, <2>2, <2>3 DEF HandWork, ChainPcs
<1>18. ~Fail(w)
  BY DEF HandStore, Fail
<1>. QED
  BY <1>5, <1>6, <1>7, <1>8, <1>9, <1>11, <1>12, <1>13, <1>14, <1>15, <1>16, <1>17, <1>18
     DEF WorkerMoves, WorkerStep

LEMMA HandedWorker ==
    ASSUME IInv, LeaseInv, Handed, NEW w \in Workers, WorkerMoves(w), UNCHANGED apivars
    PROVE  Handed'
<1>1. HandStore /\ Deliveries /\ HandWork(w)
  BY DEF Handed
<1>2. \A v \in Workers \ {w} : wk'[v] = wk[v]
  BY WorkerOnly
<1>3. jobs \in [Jobs -> JobRows] /\ {"parse", "map", "draft"} \subseteq Jobs
  BY DEF IInv, StoreOK, Jobs
<1>4. doc' = doc \/ doc'.status \notin Unasked \cup {"failed"}
  <2>1. CASE Begin(w)
    <3>1. wk[w].pc = "begin" /\ wk[w].job \in {"parse", "map", "draft"} /\ wk[w].doc \in Documents
      BY <2>1, AtWork DEF Begin, WorkOK
    <3>2. Kind(wk[w].job) = wk[w].job /\ doc' = Doing(Kind(wk[w].job), wk[w].doc)
      BY <2>1, <3>1, PipelineConstants DEF Begin, Kind
    <3>. QED
      BY <3>1, <3>2, BegunStatus DEF Unasked
  <2>2. CASE Commit(w)
    BY <1>1, <2>2 DEF Commit, HandWork, Unasked
  <2>3. CASE UndoDoc(w)
    <3>1. wk[w].pc = "undo" /\ wk[w].job \in Exports /\ wk[w].doc \in Documents /\ wk[w].job \in Jobs
      BY <1>1, <2>3, AtWork DEF UndoDoc, HandWork
    <3>2. doc'.status = jobs[wk[w].job].previous
      BY <2>3, <3>1, UndoneStatus DEF UndoDoc
    <3>. QED
      BY <1>1, <3>1, <3>2 DEF HandStore, LateJobs, Backed, Unasked
  <2>4. UNCHANGED doc \/ Begin(w) \/ Commit(w) \/ UndoDoc(w)
    BY DEF WorkerMoves, WorkerStep, Receive, ReadJob, ReadDoc, Settle, Claim, Refuse, List,
       ListApproved, PutRow, StoreFile, Close, FailJob, ChainRead, ChainPut, ChainSend, Ack,
       Fail, Die, store
  <2>. QED
    BY <2>1, <2>2, <2>3, <2>4
<1>5. LateJobs'
  <2>1. \/ UNCHANGED jobs
        \/ PutJob(wk[w].job, "succeeded") \/ PutJob(wk[w].job, "failed") \/ PutJob("map", "pending")
        \/ Claim(w) /\ Claimable(wk[w].job)
    BY JobWrites DEF Settle, Close, Refuse, FailJob, ChainPut
  <2>2. CASE Claim(w) /\ Claimable(wk[w].job)
    <3>1. jobs' = [jobs EXCEPT ![wk[w].job].status = "running", ![wk[w].job].lease = wk[w].msg]
      BY <2>2 DEF Claim
    <3>. QED
      BY <1>1, <1>3, <3>1 DEF HandStore, LateJobs, JobRows
  <2>3. CASE PutJob(wk[w].job, "succeeded") \/ PutJob(wk[w].job, "failed") \/ PutJob("map", "pending")
    BY <1>1, <2>3, LatePut DEF HandStore
  <2>4. CASE UNCHANGED jobs
    BY <1>1, <2>4 DEF HandStore, LateJobs
  <2>. QED
    BY <2>1, <2>2, <2>3, <2>4
<1>6. UNCHANGED <<errors, dups>>
  <2>1. ~Fail(w)
    BY <1>1 DEF HandStore, Fail
  <2>2. ASSUME NEW m \in Messages, Receive(w, m) PROVE UNCHANGED <<errors, dups>>
    BY <2>2 DEF Receive
  <2>3. WorkerStep(w) => UNCHANGED <<errors, dups>>
    BY DEF WorkerStep, ReadJob, ReadDoc, Settle, Claim, Refuse, Begin,
       List, ListApproved, PutRow, StoreFile, Commit, UndoDoc, Close, FailJob, ChainRead, ChainPut,
       ChainSend, Ack
  <2>4. Die(w) => UNCHANGED <<errors, dups>>
    BY DEF Die
  <2>. QED
    BY <2>1, <2>2, <2>3, <2>4 DEF WorkerMoves
<1>7. HandStore'
  <2>1. (jobs'["parse"].status = "none") <=> (jobs["parse"].status = "none")
    BY <1>3, JobStays
  <2>. QED
    BY <1>1, <1>4, <1>5, <1>6, <2>1 DEF HandStore, apivars
<1>8. ASSUME NEW v \in Workers \ {w} PROVE HandWork(v)'
  <2>1. HandWork(v) /\ wk'[v] = wk[v]
    BY <1>2 DEF Handed
  <2>2. wk[v].pc \in ChainPcs => ~ChainPut(w)
    BY <1>1, <2>1, OneParser DEF HandWork, ChainPut, ChainPcs
  <2>3. wk[v].pc \in ChainPcs => ((jobs'["map"].status = "none") <=> (jobs["map"].status = "none"))
    BY <1>3, <2>2, JobStays
  <2>. QED
    BY <2>1, <2>3 DEF HandWork, ChainPcs
<1>9. ASSUME NEW c \in Callers PROVE HandCall(c)'
  <2>1. HandCall(c) /\ call' = call /\ JobOf(c)' = JobOf(c)
    BY DEF Handed, apivars, JobOf
  <2>2. call[c].op = "export" /\ call[c].pc \in {"cas"} \cup Putting => call[c].job \in Exports
    BY AtCall DEF CallOK, Putting
  <2>3. call[c].pc \in Putting => JobOf(c) \in Jobs /\ JobOf(c) # "map"
    BY <2>2, PipelineConstants DEF JobOf, Jobs
  <2>4. \A k \in Jobs : k # "map" => ((jobs'[k].status = "none") <=> (jobs[k].status = "none"))
    BY JobStays
  <2>5. call[c].op = "export" /\ call[c].pc = "cas" => call[c].job \in Jobs /\ call[c].job # "map"
    BY <2>2, PipelineConstants DEF Jobs
  <2>6. \A m \in Messages : msgs'[m].job \in {msgs[m].job, "none", "map"}
    BY MessagesStay DEF NoMessage
  <2>. QED
    BY <1>4, <2>1, <2>3, <2>4, <2>5, <2>6 DEF HandCall, Putting
<1>10. Deliveries' /\ HandWork(w)'
  BY <1>1, DeliveriesWorker, HandWorker
<1>11. \A c, d \in Callers : c # d => Apart(c, d)'
  BY DEF Handed, Apart, apivars
<1>. QED
  BY <1>7, <1>8, <1>9, <1>10, <1>11 DEF Handed

(* A request's step that leaves documents, jobs and messages alone. *)
LEMMA HandedAsks ==
    ASSUME Handed, NEW c \in Callers, UNCHANGED <<doc, jobs, msgs, wkvars, apiFaults>>,
           \A d \in Callers \ {c} : call'[d] = call[d], HandCall(c)',
           \A d \in Callers \ {c} : Apart(c, d)'
    PROVE  Handed'
<1>1. HandStore' /\ Deliveries'
  BY DEF Handed, HandStore, LateJobs, Deliveries, Delivered, wkvars
<1>2. \A w \in Workers : HandWork(w)'
  BY DEF Handed, HandWork, wkvars
<1>3. ASSUME NEW d \in Callers \ {c} PROVE HandCall(d)'
  <2>1. HandCall(d) /\ JobOf(d)' = JobOf(d)
    BY DEF Handed, JobOf
  <2>. QED
    BY <2>1 DEF HandCall
<1>4. ASSUME NEW d \in Callers, NEW e \in Callers, d # e PROVE Apart(d, e)'
  <2>1. CASE d = c
    BY <1>4, <2>1
  <2>2. CASE e = c
    BY <1>4, <2>2 DEF Apart
  <2>3. CASE d # c /\ e # c
    BY <1>4, <2>3 DEF Handed, Apart
  <2>. QED
    BY <2>1, <2>2, <2>3
<1>. QED
  BY <1>1, <1>2, <1>3, <1>4 DEF Handed

(* Two requests do not put rows of the same job. *)
LEMMA JobsApart ==
    ASSUME Calm, IInv, Handed, NEW c \in Callers, NEW d \in Callers, c # d,
           call[c].pc \in Putting,
           call[d].pc \in Putting \/ (call[d].op = "export" /\ call[d].pc = "cas")
    PROVE  /\ JobOf(c) # JobOf(d)
           /\ JobOf(c) \in Jobs /\ JobOf(c) # "map"
           /\ JobOf(c) = "parse" => call[c].op = "parse"
<1>1. HandCall(c) /\ HandCall(d) /\ Apart(c, d)
  BY DEF Handed
<1>2. call[c].op \in {"parse", "approve_mappings", "export"} /\ call[d].op \in {"parse", "approve_mappings", "export"}
  BY <1>1 DEF HandCall
<1>3. call[c].op # "approve_mappings" /\ call[d].op # "approve_mappings"
  BY <1>1 DEF HandCall, Calm
<1>4. call[c].op = "export" => call[c].job \in Exports
  BY AtCall DEF CallOK, Putting
<1>5. call[d].op = "export" => call[d].job \in Exports
  BY AtCall DEF CallOK, Putting
<1>. QED
  BY <1>1, <1>2, <1>3, <1>4, <1>5, PipelineConstants DEF JobOf, Apart, Jobs

LEMMA HandedCaller ==
    ASSUME Calm, IInv, LeaseInv, Handed, NEW c \in Callers, CallerMoves(c)
    PROVE  Handed'
<1>1. HandCall(c) /\ HandStore /\ Deliveries /\ \A d \in Callers \ {c} : Apart(c, d) /\ Apart(d, c)
  BY DEF Handed
<1>2. UNCHANGED wkvars
  BY CallerLeavesWork
<1>3. call[c].pc # "idle" => CallOK(call[c]) /\ call[c].op \in AllOps /\ call[c].doc \in Documents
  BY AtCall
<1>4. jobs \in [Jobs -> JobRows] /\ msgs \in [Messages -> Queued] /\ {"parse", "map", "draft"} \subseteq Jobs
      /\ Exports \subseteq Jobs /\ "parse" \notin Exports /\ "map" \notin Exports /\ "none" \notin Exports
  BY PipelineConstants DEF IInv, StoreOK, Jobs
(* what a request comes to *)
<1>5. Over(c) => HandCall(c)' /\ \A d \in Callers \ {c} : call'[d] = call[d] /\ Apart(c, d)'
  BY DEF Over, NoCall, HandCall, Apart, Putting
<1>6. ASSUME NEW l, NEW d, NEW copy, NEW todo, Went(c, l, d, copy, todo, call[c].job),
             l \notin Putting \cup {"undo", "undojob"},
             call[c].op = "export" => d.status \in Backed /\ l # "cas"
      PROVE  HandCall(c)' /\ \A e \in Callers \ {c} : call'[e] = call[e] /\ Apart(c, e)'
  <2>1. HandCall(c)'
    BY <1>1, <1>6 DEF Went, HandCall, Putting
  <2>2. \A e \in Callers \ {c} : call'[e] = call[e] /\ Apart(c, e)'
    BY <1>1, <1>6 DEF Went, Apart
  <2>. QED
    BY <2>1, <2>2
<1>7. ASSUME Over(c) \/ \E l, d, copy, todo :
               /\ Went(c, l, d, copy, todo, call[c].job)
               /\ l \notin Putting \cup {"undo", "undojob"}
               /\ call[c].op = "export" => d.status \in Backed /\ l # "cas"
      PROVE  HandCall(c)' /\ \A e \in Callers \ {c} : call'[e] = call[e] /\ Apart(c, e)'
  BY <1>5, <1>6, <1>7
<1>8. CASE NewCall(c)
  <2>1. PICK op \in Ops, s \in Sections \cup {NoSection} :
           /\ op \in RowOps => s \in Listed(Table(op))
           /\ call'[c] = [NoCall EXCEPT !.op = op, !.pc = "read", !.sec = s]
    BY <1>8, Asking
  <2>2. call'[c].op = op /\ call'[c].pc = "read" /\ call'[c].job = "none"
    BY <2>1 DEF NoCall
  <2>3. \A d \in Callers \ {c} : call'[d] = call[d]
    BY <1>8, Asking
  <2>4. HandCall(c)' /\ \A d \in Callers \ {c} : Apart(c, d)'
    BY <2>2 DEF HandCall, Apart, Putting
  <2>. QED
    BY <1>8, <2>3, <2>4, HandedAsks DEF NewCall, store
<1>9. CASE ReadDocument(c)
  <2>1. /\ call[c].pc = "read" /\ call[c].op \in AllOps
        /\ UNCHANGED <<doc, jobs, msgs, wkvars, apiFaults>>
    BY <1>3, <1>9 DEF ReadDocument, store
  <2>2. /\ AfterRead(call[c].op, doc) \in {"cas", "row", "list", "jobread"}
        /\ call[c].op = "export" => AfterRead(call[c].op, doc) = "list" /\ Admitted(call[c].op) = Backed
    BY <2>1 DEF AfterRead, AllOps, RowOps, Admitted, Backed
  <2>3. \/ doc.status \in Admitted(call[c].op)
           /\ Went(c, AfterRead(call[c].op, doc), doc, call[c].copy, call[c].todo, call[c].job)
        \/ Over(c)
    BY <1>9, Asking
  <2>4. HandCall(c)' /\ \A d \in Callers \ {c} : call'[d] = call[d] /\ Apart(c, d)'
    BY <1>5, <1>6, <2>2, <2>3 DEF Putting
  <2>. QED
    BY <2>1, <2>4, HandedAsks
<1>10. CASE ReadRow(c)
  <2>1. /\ call[c].pc = "row" /\ call[c].op \in RowOps
        /\ UNCHANGED <<doc, jobs, msgs, wkvars, apiFaults>>
    BY <1>3, <1>10 DEF ReadRow, store, CallOK
  <2>2. \E l \in {"cas", "put"} : \E copy : Went(c, l, call[c].doc, copy, call[c].todo, call[c].job)
    BY <1>10, Asking
  <2>3. HandCall(c)' /\ \A d \in Callers \ {c} : call'[d] = call[d] /\ Apart(c, d)'
    BY <1>6, <2>1, <2>2 DEF Putting, RowOps
  <2>. QED
    BY <2>1, <2>3, HandedAsks
<1>11. CASE ListRows(c)
  <2>1. call[c].pc = "list" /\ UNCHANGED <<doc, jobs, msgs, wkvars, apiFaults>>
    BY <1>11 DEF ListRows, store
  <2>2. \/ Over(c)
        \/ /\ call[c].op # "export"
           /\ \E l \in {"cas", "put"} : \E copy, todo : Went(c, l, call[c].doc, copy, todo, call[c].job)
        \/ /\ call[c].op = "export"
           /\ \E x \in Exports :
                /\ jobs[x].status = "none"
                /\ \A d \in Callers : call[d].job # x
                /\ Went(c, "cas", call[c].doc, call[c].copy, call[c].todo, x)
    BY <1>11, Listing
  <2>3. ASSUME NEW x \in Exports, call[c].op = "export", jobs[x].status = "none",
               \A d \in Callers : call[d].job # x,
               Went(c, "cas", call[c].doc, call[c].copy, call[c].todo, x)
        PROVE  HandCall(c)' /\ \A d \in Callers \ {c} : call'[d] = call[d] /\ Apart(c, d)'
    <3>1. HandCall(c)'
      BY <1>1, <2>1, <2>3 DEF Went, HandCall, Putting
    <3>2. \A d \in Callers \ {c} : call'[d] = call[d] /\ Apart(c, d)'
      BY <1>1, <2>3 DEF Went, Apart
    <3>. QED
      BY <3>1, <3>2
  <2>4. HandCall(c)' /\ \A d \in Callers \ {c} : call'[d] = call[d] /\ Apart(c, d)'
    BY <1>5, <1>6, <2>2, <2>3 DEF Putting
  <2>. QED
    BY <2>1, <2>4, HandedAsks
<1>12. CASE PutMapping(c) \/ PutDraft(c) \/ ReadLatest(c)
  <2>1. call[c].op # "export" /\ UNCHANGED <<doc, jobs, msgs, wkvars, apiFaults>>
    BY <1>12 DEF PutMapping, PutDraft, ReadLatest, At, store
  <2>2. \/ Over(c)
        \/ \E l \in {"cas", "put", "list", "jobread"} : \E copy, todo :
              Went(c, l, call[c].doc, copy, todo, call[c].job)
    <3>1. CASE PutMapping(c)
      BY <3>1, Listing
    <3>2. CASE PutDraft(c) \/ ReadLatest(c)
      <4>1. \E l \in {"idle", "list", "jobread"} : Step(c, l)
        BY <3>2 DEF PutDraft, ReadLatest
      <4>. QED
        BY <4>1, StepsTo
    <3>. QED
      BY <1>12, <3>1, <3>2
  <2>3. HandCall(c)' /\ \A d \in Callers \ {c} : call'[d] = call[d] /\ Apart(c, d)'
    BY <1>5, <1>6, <2>1, <2>2 DEF Putting
  <2>. QED
    BY <2>1, <2>3, HandedAsks
<1>13. CASE ReadDraftJob(c)
  <2>1. /\ call[c].pc = "jobread" /\ call[c].op = "approve_mappings" /\ JobOf(c) = "draft"
        /\ UNCHANGED <<doc, jobs, msgs, wkvars, apiFaults>>
    BY <1>13 DEF ReadDraftJob, At, store, JobOf
  <2>2. \/ Over(c)
        \/ /\ jobs["draft"].status = "none"
           /\ Went(c, "jobput", call[c].doc, call[c].copy, call[c].todo, call[c].job)
        \/ /\ jobs["draft"].status # "none"
           /\ Went(c, "send", call[c].doc, call[c].copy, call[c].todo, call[c].job)
    <3>1. \/ Step(c, "idle")
          \/ jobs["draft"].status = "none" /\ Step(c, "jobput")
          \/ jobs["draft"].status # "none" /\ Step(c, "send")
      BY <1>13 DEF ReadDraftJob
    <3>2. /\ Step(c, "idle") => Over(c)
          /\ Step(c, "jobput") => Went(c, "jobput", call[c].doc, call[c].copy, call[c].todo, call[c].job)
          /\ Step(c, "send") => Went(c, "send", call[c].doc, call[c].copy, call[c].todo, call[c].job)
      BY StepsTo
    <3>. QED
      BY <3>1, <3>2
  <2>3. ASSUME NEW l \in Putting, Went(c, l, call[c].doc, call[c].copy, call[c].todo, call[c].job),
               l = "jobput" <=> jobs["draft"].status = "none"
        PROVE  HandCall(c)' /\ \A d \in Callers \ {c} : call'[d] = call[d] /\ Apart(c, d)'
    <3>1. call'[c].pc = l /\ call'[c].op = "approve_mappings" /\ JobOf(c)' = "draft"
      BY <2>1, <2>3 DEF Went, JobOf
    <3>2. HandCall(c)'
      BY <1>1, <2>1, <2>3, <3>1 DEF HandCall, Putting
    <3>3. \A d \in Callers \ {c} : call'[d] = call[d] /\ Apart(c, d)'
      BY <1>1, <2>1, <2>3 DEF Went, Apart
    <3>. QED
      BY <3>2, <3>3
  <2>4. HandCall(c)' /\ \A d \in Callers \ {c} : call'[d] = call[d] /\ Apart(c, d)'
    BY <1>5, <2>2, <2>3 DEF Putting
  <2>. QED
    BY <2>1, <2>4, HandedAsks
<1>14. CASE PutDocument(c)
  <2>1. /\ call[c].pc = "cas" /\ UNCHANGED <<jobs, msgs, apiFaults>>
        /\ call[c].op \in AllOps \ {"edit_mapping"} /\ call[c].doc \in Documents
    BY <1>3, <1>14 DEF PutDocument, CallOK
  <2>2. CASE doc.status \notin Expected(c)
    <3>1. UNCHANGED doc /\ Step(c, IF call[c].op = "approve_mappings" THEN "latest" ELSE "idle")
      BY <1>14, <2>2 DEF PutDocument
    <3>2. Over(c) \/ (call[c].op = "approve_mappings"
                      /\ Went(c, "latest", call[c].doc, call[c].copy, call[c].todo, call[c].job))
      BY <3>1, StepsTo
    <3>3. HandCall(c)' /\ \A d \in Callers \ {c} : call'[d] = call[d] /\ Apart(c, d)'
      BY <1>5, <1>6, <3>2 DEF Putting
    <3>. QED
      BY <1>2, <2>1, <3>1, <3>3, HandedAsks
  <2>3. CASE doc.status \in Expected(c)
    <3>. DEFINE l == AfterCas(call[c].op)
    <3>1. doc' = NewDocument(c) /\ Step(c, l)
      BY <1>14, <2>3 DEF PutDocument
    <3>2. doc'.status \notin Unasked \cup {"failed"}
      BY <2>1, <3>1, NewStatus DEF Unasked, AllOps
    <3>3. call[c].op = "parse" =>
            /\ jobs["parse"].status = "none"
            /\ \A m \in Messages : msgs[m].job # "parse"
            /\ \A d \in Callers \ {c} : ~(call[d].op = "parse" /\ call[d].pc \in Putting)
      <4>1. SUFFICES ASSUME call[c].op = "parse"
                     PROVE  /\ jobs["parse"].status = "none"
                            /\ \A m \in Messages : msgs[m].job # "parse"
                            /\ \A d \in Callers \ {c} : ~(call[d].op = "parse" /\ call[d].pc \in Putting)
        OBVIOUS
      <4>2. doc.status \in Unasked
        BY <1>1, <2>3, <4>1 DEF Expected, Admitted, HandStore, Unasked
      <4>3. jobs["parse"].status = "none"
        BY <1>1, <4>2 DEF HandStore
      <4>. QED
        BY <1>4, <4>2, <4>3 DEF Handed, HandCall, LeaseInv, Unused
    <3>4. ASSUME call[c].op \in {"edit_draft", "approve_draft", "approve_mappings"}
          PROVE  HandCall(c)' /\ \A d \in Callers \ {c} : call'[d] = call[d] /\ Apart(c, d)'
      <4>1. l \in {"put", "idle", "jobread"}
        BY <3>4 DEF AfterCas
      <4>2. Over(c) \/ \E k \in {"put", "jobread"} :
                         Went(c, k, call[c].doc, call[c].copy, call[c].todo, call[c].job)
        BY <3>1, <4>1, StepsTo
      <4>. QED
        BY <1>5, <1>6, <3>4, <4>2 DEF Putting
    <3>5. ASSUME call[c].op \in {"parse", "export"}
          PROVE  HandCall(c)' /\ \A d \in Callers \ {c} : call'[d] = call[d] /\ Apart(c, d)'
      <4>1. Went(c, "jobput", call[c].doc, call[c].copy, call[c].todo, call[c].job)
        BY <3>1, <3>5, StepsTo DEF AfterCas
      <4>2. call'[c].pc = "jobput" /\ call'[c].op = call[c].op /\ call'[c].job = call[c].job
            /\ call'[c].doc = call[c].doc
        BY <4>1 DEF Went
      <4>3. JobOf(c)' = IF call[c].op = "parse" THEN "parse" ELSE call[c].job
        BY <3>5, <4>2 DEF JobOf
      <4>4. jobs'[JobOf(c)'].status = "none"
        BY <1>1, <2>1, <3>3, <3>5, <4>3 DEF HandCall
      <4>5. HandCall(c)'
        BY <1>1, <2>1, <3>2, <3>3, <3>5, <4>2, <4>4 DEF HandCall, Putting
      <4>6. \A d \in Callers \ {c} : call'[d] = call[d] /\ Apart(c, d)'
        BY <1>1, <3>3, <4>1 DEF Went, Apart
      <4>. QED
        BY <4>5, <4>6
    <3>6. HandCall(c)' /\ \A d \in Callers \ {c} : call'[d] = call[d] /\ Apart(c, d)'
      BY <2>1, <3>4, <3>5 DEF AllOps
    <3>7. HandStore' /\ Deliveries' /\ \A w \in Workers : HandWork(w)'
      BY <1>1, <1>2, <2>1, <3>2 DEF Handed, HandStore, LateJobs, Deliveries, Delivered, HandWork, wkvars
    <3>8. ASSUME NEW d \in Callers \ {c} PROVE HandCall(d)'
      <4>1. HandCall(d) /\ JobOf(d)' = JobOf(d) /\ call'[d] = call[d]
        BY <3>6 DEF Handed, JobOf
      <4>. QED
        BY <2>1, <3>2, <4>1 DEF HandCall
    <3>9. ASSUME NEW d \in Callers, NEW e \in Callers, d # e PROVE Apart(d, e)'
      <4>1. CASE d = c
        BY <3>6, <3>9, <4>1
      <4>2. CASE e = c
        BY <3>6, <3>9, <4>2 DEF Apart
      <4>3. CASE d # c /\ e # c
        BY <3>6, <3>9, <4>3 DEF Handed, Apart
      <4>. QED
        BY <4>1, <4>2, <4>3
    <3>. QED
      BY <3>6, <3>7, <3>8, <3>9 DEF Handed
  <2>. QED
    BY <2>2, <2>3
<1>15. ~(EnqueueFails(c) \/ CallDies(c))
  BY <1>1 DEF EnqueueFails, CallDies, HandStore
<1>16. ~(RestoreDocument(c) \/ FailNewJob(c))
  BY <1>1 DEF HandCall, RestoreDocument, FailNewJob
<1>17. CASE PutNewJob(c)
  <2>1. /\ call[c].pc = "jobput" /\ UNCHANGED <<doc, msgs, apiFaults>>
        /\ jobs' = [jobs EXCEPT ![JobOf(c)] = NewJob(c, "pending")]
        /\ Went(c, "send", call[c].doc, call[c].copy, call[c].todo, call[c].job)
    BY <1>17, StepsTo DEF PutNewJob
  <2>2. JobOf(c) \in Jobs /\ JobOf(c) # "map" /\ (JobOf(c) = "parse" => call[c].op = "parse")
    <3>1. call[c].op = "export" => call[c].job \in Exports
      BY <1>3, <2>1 DEF CallOK
    <3>. QED
      BY <1>4, <3>1 DEF JobOf
  <2>3. NewJob(c, "pending").status = "pending" /\ NewJob(c, "pending").previous \in Backed
    BY <1>1, <2>1 DEF NewJob, HandCall, Backed
  <2>4. jobs'[JobOf(c)] = NewJob(c, "pending") /\ \A k \in Jobs : k # JobOf(c) => jobs'[k] = jobs[k]
    BY <1>4, <2>1, <2>2
  <2>5. HandStore'
    <3>1. LateJobs'
      BY <1>1, <2>2, <2>3, <2>4 DEF HandStore, LateJobs
    <3>2. doc.status \in Unasked => JobOf(c) # "parse"
      BY <1>1, <2>1, <2>2 DEF HandCall, Putting
    <3>. QED
      BY <1>1, <1>2, <1>4, <2>1, <2>4, <3>1, <3>2 DEF HandStore, wkvars
  <2>6. Deliveries' /\ \A w \in Workers : HandWork(w)'
    BY <1>1, <1>2, <1>4, <2>1, <2>2, <2>4 DEF Handed, Deliveries, Delivered, HandWork, wkvars
  <2>7. HandCall(c)'
    <3>1. call'[c].pc = "send" /\ call'[c].op = call[c].op /\ call'[c].doc = call[c].doc /\ JobOf(c)' = JobOf(c)
      BY <2>1 DEF Went, JobOf
    <3>. QED
      BY <1>1, <2>1, <2>3, <2>4, <3>1 DEF HandCall, Putting
  <2>8. ASSUME NEW d \in Callers \ {c} PROVE HandCall(d)'
    <3>1. HandCall(d) /\ JobOf(d)' = JobOf(d) /\ call'[d] = call[d]
      BY <2>1 DEF Handed, JobOf, Went
    <3>2. call[d].op = "export" /\ call[d].pc = "cas" => JobOf(d) = call[d].job
      BY DEF JobOf
    <3>3. call[d].pc \in Putting \/ (call[d].op = "export" /\ call[d].pc = "cas") =>
            JobOf(c) # JobOf(d)
      BY <2>1, JobsApart DEF Putting
    <3>4. call[d].pc \in Putting \/ (call[d].op = "export" /\ call[d].pc = "cas") => JobOf(d) \in Jobs
      <4>1. call[d].op = "export" /\ call[d].pc \in {"cas"} \cup Putting => call[d].job \in Exports
        BY AtCall DEF CallOK, Putting
      <4>. QED
        BY <1>4, <4>1 DEF JobOf
    <3>. QED
      BY <2>1, <2>4, <3>1, <3>2, <3>3, <3>4 DEF HandCall, Putting
  <2>9. ASSUME NEW d \in Callers, NEW e \in Callers, d # e PROVE Apart(d, e)'
    BY <2>1, <2>9 DEF Handed, Apart, Went, Putting
  <2>. QED
    BY <2>5, <2>6, <2>7, <2>8, <2>9 DEF Handed
<1>18. CASE SendMessage(c)
  <2>1. call[c].pc = "send" /\ Send(JobOf(c), HeldMessages) /\ Over(c) /\ UNCHANGED <<doc, jobs, apiFaults>>
    BY <1>18, StepsTo DEF SendMessage, store
  <2>2. JobOf(c) = "parse" => call[c].op = "parse"
    BY <1>3, <1>4, <2>1 DEF JobOf, CallOK
  <2>3. \A m \in Messages : \/ msgs'[m] = msgs[m]
                            \/ ~Held(m) /\ msgs'[m].job = JobOf(c) /\ msgs[m].state = "free"
    BY <2>1, QueueJobs DEF HeldMessages
  <2>4. HandStore' /\ \A w \in Workers : HandWork(w)'
    BY <1>1, <1>2, <2>1 DEF Handed, HandStore, LateJobs, HandWork, wkvars
  <2>5. Deliveries'
    <3>1. wk' = wk
      BY <1>2 DEF wkvars
    <3>2. \A w \in Workers : wk[w].msg # "none" => wk[w].msg \in Messages /\ msgs'[wk[w].msg] = msgs[wk[w].msg]
      BY <2>3 DEF Held, IInv, WorkersOK, Works
    <3>3. \A w \in Workers : Delivered(w)'
      BY <1>1, <3>1, <3>2 DEF Deliveries, Delivered
    <3>4. \A m, n \in Messages : msgs'[m].job = "parse" /\ msgs'[n].job = "parse" => m = n
      <4>1. CASE JobOf(c) # "parse"
        BY <1>1, <2>3, <4>1 DEF Deliveries
      <4>2. CASE JobOf(c) = "parse"
        <5>1. \A m \in Messages : msgs[m].job # "parse"
          BY <1>1, <2>1, <2>2, <4>2 DEF HandCall, Putting
        <5>2. PICK n \in Messages : msgs' = [msgs EXCEPT ![n] = [state |-> "visible", job |-> JobOf(c), receives |-> 0]]
          BY <2>1 DEF Send
        <5>3. \A m \in Messages : m # n => msgs'[m] = msgs[m]
          BY <1>4, <5>2
        <5>. QED
          BY <5>1, <5>3
      <4>. QED
        BY <4>1, <4>2
    <3>. QED
      BY <1>1, <3>1, <3>3, <3>4 DEF Deliveries
  <2>6. HandCall(c)' /\ \A d \in Callers \ {c} : call'[d] = call[d] /\ Apart(c, d)'
    BY <1>5, <2>1
  <2>7. ASSUME NEW d \in Callers \ {c} PROVE HandCall(d)'
    <3>1. HandCall(d) /\ JobOf(d)' = JobOf(d) /\ call'[d] = call[d] /\ Apart(c, d)
      BY <2>6 DEF Handed, JobOf
    <3>2. call[d].op = "parse" /\ call[d].pc \in Putting => JobOf(c) # "parse"
      BY <2>1, <2>2, <3>1 DEF Apart, Putting
    <3>. QED
      BY <2>1, <2>3, <3>1, <3>2 DEF HandCall
  <2>8. ASSUME NEW d \in Callers, NEW e \in Callers, d # e PROVE Apart(d, e)'
    <3>1. CASE d = c
      BY <2>6, <2>8, <3>1
    <3>2. CASE e = c
      BY <2>6, <2>8, <3>2 DEF Apart
    <3>3. CASE d # c /\ e # c
      BY <2>6, <2>8, <3>3 DEF Handed, Apart
    <3>. QED
      BY <3>1, <3>2, <3>3
  <2>. QED
    BY <2>4, <2>5, <2>6, <2>7, <2>8 DEF Handed
<1>. QED
  BY <1>8, <1>9, <1>10, <1>11, <1>12, <1>13, <1>14, <1>15, <1>16, <1>17, <1>18
     DEF CallerMoves, CallStep

LEMMA HandedNext ==
    ASSUME Calm, IInv, LeaseInv, Handed, [Next]_vars
    PROVE  Handed'
<1>1. CASE (\E w \in Workers : WorkerMoves(w)) /\ UNCHANGED apivars
  BY <1>1, HandedWorker
<1>2. CASE \E c \in Callers : CallerMoves(c)
  BY <1>2, HandedCaller
<1>3. ASSUME UNCHANGED <<doc, wk, errors, dups, apivars>>, LateJobs',
             \A j \in Jobs : (jobs'[j].status = "none") <=> (jobs[j].status = "none"),
             \A m \in Messages : /\ msgs'[m].job = msgs[m].job
                                 /\ Held(m) => msgs'[m].state = msgs[m].state
      PROVE  Handed'
  <2>1. {"parse", "map", "draft"} \subseteq Jobs /\ Exports \subseteq Jobs
    BY DEF Jobs
  <2>2. HandStore' /\ \A w \in Workers : HandWork(w)'
    BY <1>3, <2>1 DEF Handed, HandStore, HandWork, apivars
  <2>3. Deliveries'
    <3>1. \A w \in Workers : wk[w].msg # "none" => wk[w].msg \in Messages /\ Held(wk[w].msg)
      BY DEF IInv, WorkersOK, Works, Held
    <3>2. \A w \in Workers : Delivered(w)'
      BY <1>3, <3>1 DEF Handed, Deliveries, Delivered
    <3>. QED
      BY <1>3, <3>2 DEF Handed, Deliveries
  <2>4. ASSUME NEW c \in Callers PROVE HandCall(c)'
    <3>1. HandCall(c) /\ call' = call /\ JobOf(c)' = JobOf(c)
      BY <1>3 DEF Handed, apivars, JobOf
    <3>2. call[c].op = "export" /\ call[c].pc \in {"cas"} \cup Putting => call[c].job \in Exports
      BY AtCall DEF CallOK, Putting
    <3>3. call[c].pc \in Putting => JobOf(c) \in Jobs
      BY <2>1, <3>2 DEF JobOf
    <3>4. \A k \in Jobs : (jobs'[k].status = "none") <=> (jobs[k].status = "none")
      BY <1>3
    <3>. QED
      BY <1>3, <2>1, <3>1, <3>2, <3>3, <3>4 DEF HandCall, Putting
  <2>5. \A c, d \in Callers : c # d => Apart(c, d)'
    BY <1>3 DEF Handed, Apart, apivars
  <2>. QED
    BY <2>2, <2>3, <2>4, <2>5 DEF Handed
<1>4. CASE (\E m \in Messages : Reappear(m) \/ Duplicate(m)) /\ UNCHANGED apivars
  <2>1. PICK m \in Messages : Reappear(m)
    BY <1>4 DEF Duplicate, Handed, HandStore
  <2>2. UNCHANGED <<doc, jobs, wk, errors, dups, apivars>> /\ ~Held(m)
    BY <1>4, <2>1 DEF Reappear, store, wkvars
  <2>3. \A n \in Messages : /\ msgs'[n].job = msgs[n].job
                            /\ n # m => msgs'[n].state = msgs[n].state
    <3>1. msgs \in [Messages -> Queued]
      BY DEF IInv, StoreOK
    <3>. QED
      BY <2>1, <3>1 DEF Reappear, Queued
  <2>4. LateJobs'
    BY <2>2 DEF Handed, HandStore, LateJobs
  <2>. QED
    BY <1>3, <2>2, <2>3, <2>4
<1>5. CASE (\E j \in Jobs : LeaseExpires(j)) /\ UNCHANGED apivars
  <2>1. UNCHANGED <<doc, msgs, wk, errors, dups, apivars>>
    BY <1>5 DEF LeaseExpires, wkvars
  <2>2. jobs \in [Jobs -> JobRows]
    BY DEF IInv, StoreOK
  <2>3. \A j \in Jobs : jobs'[j].status = jobs[j].status /\ jobs'[j].previous = jobs[j].previous
    BY <1>5, <2>2 DEF LeaseExpires, JobRows
  <2>4. LateJobs'
    BY <2>3 DEF Handed, HandStore, LateJobs
  <2>. QED
    BY <1>3, <2>1, <2>3, <2>4
<1>6. CASE UNCHANGED vars
  <2>1. UNCHANGED <<doc, jobs, msgs, wk, errors, dups, apivars>>
    BY <1>6 DEF vars, store, wkvars
  <2>2. LateJobs'
    BY <2>1 DEF Handed, HandStore, LateJobs
  <2>. QED
    BY <1>3, <2>1, <2>2
<1>. QED
  BY <1>1, <1>2, <1>4, <1>5, <1>6 DEF Next

LEMMA HandedInit ==
    ASSUME Calm, Init
    PROVE  Handed
<1>1. PICK a \in Scenarios : /\ StoreInit(a.start) /\ errors = a.errors /\ dups = a.dups
                             /\ apiFaults = a.apiFaults
  BY DEF Init
<1>2. errors = 0 /\ dups = 0 /\ apiFaults = 0
  BY <1>1 DEF Calm
<1>3. doc.status = a.start /\ a.start \in Begun
  BY <1>1, PipelineBounds DEF StoreInit
<1>4. LateJobs /\ (a.start = "upload_pending" => jobs["parse"].status = "none")
  BY <1>1 DEF StoreInit, LateJobs, NoJob, Backed, Jobs
<1>5. HandStore
  BY <1>2, <1>3, <1>4 DEF HandStore, Begun, Unasked
<1>6. \A m \in Messages : msgs[m].job = "none"
  BY <1>1 DEF StoreInit, NoMessage
<1>7. \A w \in Workers : wk[w] = NoWork /\ wk[w].pc = "idle" /\ wk[w].msg = "none"
  BY DEF Init, NoWork
<1>8. Deliveries /\ \A w \in Workers : HandWork(w)
  BY <1>6, <1>7 DEF Deliveries, Delivered, HandWork, ChainPcs
<1>9. \A c \in Callers : call[c].pc = "idle" /\ call[c].op = "none" /\ call[c].job = "none"
  BY DEF Init, NoCall
<1>10. \A c \in Callers : HandCall(c)
  BY <1>9 DEF HandCall, Putting
<1>11. \A c, d \in Callers : Apart(c, d)
  BY <1>9 DEF Apart
<1>. QED
  BY <1>5, <1>8, <1>10, <1>11 DEF Handed

LEMMA CalmSpec ==
    ASSUME Calm
    PROVE  Spec => [](LeaseInv /\ Handed)
<1>1. Init => LeaseInv /\ Handed
  BY LeaseInit, HandedInit
<1>2. IInv /\ LeaseInv /\ Handed /\ [Next]_vars => LeaseInv' /\ Handed'
  BY HandedFresh, LeaseNext, HandedNext
<1>3. Spec => []IInv
  BY Invariant
<1>. QED
  BY <1>1, <1>2, <1>3, PTL DEF Spec

(* No job has two claimants at once, whichever invocations die and however  *)
(* often their messages come again, as long as no call fails and messages   *)
(* are not duplicated (_claim_job, its lease, and the handoffs).            *)
THEOREM OneClaims == Calm => (Spec => []OneClaimant)
<1>. SUFFICES ASSUME Calm PROVE Spec => []OneClaimant
  OBVIOUS
<1>1. LeaseInv => OneClaimant
  BY DEF LeaseInv
<1>. QED
  BY <1>1, CalmSpec, PTL

-----------------------------------------------------------------------------
(* The stages follow one another *)

(* The stages of a document whose jobs do not fail, in their order. *)
Rank(status) ==
    CASE status \in {"upload_pending", "uploaded"}   -> 0
      [] status = "parsing"                          -> 1
      [] status \in {"parsed", "mapping"}            -> 2
      [] status = "mapped"                           -> 3
      [] status \in {"mapping_approved", "drafting"} -> 4
      [] OTHER                                       -> 5

(* The stage at which a job has its work to do, and how it ends. *)
Home(j) == CASE j = "parse" -> 1 [] j = "map" -> 2 [] j = "draft" -> 4 [] OTHER -> 5
Goal(j) == CASE j = "parse" -> "parsed" [] j = "map" -> "mapped" [] j = "draft" -> "drafted"
             [] OTHER -> "exported"

Here == Rank(doc.status)

WorkingPcs == {"begin", "list", "approved", "rows", "store", "commit"}
EarlyStatus == {"upload_pending", "uploaded", "parsing", "parsed"}

RankStore ==
    /\ \A j \in Jobs : jobs[j].status # "none" => Home(j) <= Here
    /\ \A j \in Jobs : jobs[j].status = "failed" => j \in Exports
    /\ jobs["map"].status # "none" => jobs["parse"].status = "succeeded"
    /\ jobs["parse"].status = "succeeded" => Here >= 2
    /\ jobs["parse"].status # "succeeded" => doc.status \in EarlyStatus

(* An invocation that may still claim its job, or works on it, finds the    *)
(* document at the job's stage, and leaves it at the next.                  *)
RankWork(w) ==
    /\ wk[w].job = "parse" =>
         /\ wk[w].pc = "doc" => (wk[w].saw = "succeeded" <=> jobs["parse"].status = "succeeded")
         /\ wk[w].pc \in ChainPcs => jobs["parse"].status = "succeeded"
         /\ wk[w].pc \in {"claim"} \cup WorkingPcs => jobs["parse"].status # "succeeded"
         /\ wk[w].pc \in {"settle", "close"} => Here >= 2
    /\ wk[w].pc = "refuse" => wk[w].job \in Exports
    /\ wk[w].pc = "claim" /\ wk[w].job \notin Exports =>
         /\ Rank(wk[w].doc.status) = Home(wk[w].job)
         /\ Claimable(wk[w].job) => Here = Home(wk[w].job)
    /\ wk[w].pc \in WorkingPcs => Here = Home(wk[w].job)
    /\ wk[w].pc = "commit" => wk[w].doc.status = Goal(wk[w].job)

RankCall(c) ==
    /\ call[c].pc \notin {"idle", "read"} =>
         /\ call[c].op \in {"edit_mapping", "approve_mappings"} => Here >= 3
         /\ call[c].op \in {"edit_draft", "approve_draft", "export"} => Here = 5
    /\ call[c].op = "approve_mappings" /\ call[c].pc \in {"jobread", "jobput", "send"} => Here >= 4
    /\ call[c].op = "parse" /\ call[c].pc \in Putting => Here >= 1

Ranked ==
    /\ RankStore
    /\ \A w \in Workers : RankWork(w)
    /\ \A c \in Callers : RankCall(c)

LEMMA Ranks ==
    /\ \A s : Rank(s) \in 0..5
    /\ \A j \in Jobs : Home(j) \in {1, 2, 4, 5} /\ (Home(j) = 5 <=> j \in Exports)
    /\ \A j, k \in Jobs : Home(j) = Home(k) /\ j \notin Exports => j = k
<1>1. \A s : Rank(s) \in 0..5
  BY DEF Rank
<1>2. \A j \in Jobs : Home(j) \in {1, 2, 4, 5} /\ (Home(j) = 5 <=> j \in Exports)
  BY PipelineConstants DEF Jobs, Home
<1>3. \A j, k \in Jobs : Home(j) = Home(k) /\ j \notin Exports => j = k
  BY PipelineConstants DEF Jobs, Home
<1>. QED
  BY <1>1, <1>2, <1>3

LEMMA HereRank == Here \in 0..5
BY Ranks DEF Here

(* What w does to the rows of jobs. *)
LEMMA JobAlone ==
    ASSUME IInv, LeaseInv, Handed, Ranked, NEW w \in Workers, WorkerMoves(w), NEW k \in Jobs
    PROVE  \/ jobs'[k] = jobs[k]
           \/ ChainPut(w) /\ k = "map" /\ jobs[k].status = "none"
           \/ k = wk[w].job /\ (Settle(w) \/ Close(w)) /\ jobs'[k].status = "succeeded"
           \/ /\ k = wk[w].job /\ Claim(w) /\ Claimable(k)
              /\ jobs'[k].status = "running" /\ jobs'[k].lease = wk[w].msg /\ wk[w].msg # "none"
           \/ k = wk[w].job /\ k \in Exports
<1>1. jobs \in [Jobs -> JobRows]
  BY DEF IInv, StoreOK
<1>2. CASE Settle(w) \/ Close(w)
  <2>1. UNCHANGED jobs \/ PutJob(wk[w].job, "succeeded")
    BY <1>2 DEF Settle, Close
  <2>. QED
    BY <1>1, <1>2, <2>1 DEF PutJob, JobRows
<1>3. CASE Claim(w) /\ Claimable(wk[w].job)
  <2>1. /\ jobs' = [jobs EXCEPT ![wk[w].job].status = "running", ![wk[w].job].lease = wk[w].msg]
        /\ wk[w].pc = "claim"
    BY <1>3 DEF Claim
  <2>2. wk[w].msg # "none"
    BY <2>1, AtWork, PipelineConstants
  <2>. QED
    BY <1>1, <1>3, <2>1, <2>2 DEF JobRows
<1>4. CASE Refuse(w) \/ FailJob(w)
  <2>1. PutJob(wk[w].job, "failed") /\ wk[w].job \in Exports
    BY <1>4 DEF Refuse, FailJob, Handed, HandWork, Ranked, RankWork
  <2>. QED
    BY <1>1, <2>1 DEF PutJob
<1>5. CASE ChainPut(w)
  <2>1. PutJob("map", "pending") /\ jobs["map"].status = "none"
    BY <1>5 DEF ChainPut, Handed, HandWork
  <2>. QED
    BY <1>1, <1>5, <2>1 DEF PutJob
<1>6. CASE UNCHANGED jobs
  BY <1>6
<1>. QED
  BY <1>2, <1>3, <1>4, <1>5, <1>6, JobWrites

(* Until the parse is over there is nothing else to work on. *)
LEMMA OnlyParsing ==
    ASSUME IInv, LeaseInv, RankStore, jobs["parse"].status # "succeeded",
           NEW w \in Workers, wk[w].pc # "idle"
    PROVE  wk[w].job = "parse"
<1>1. wk[w].job \in Jobs
  BY AtWork
<1>2. jobs[wk[w].job].status # "none"
  BY <1>1 DEF LeaseInv, Unused
<1>3. Here <= 2 /\ wk[w].job # "map"
  BY <1>2 DEF RankStore, Here, Rank, EarlyStatus
<1>4. Home(wk[w].job) <= Here
  BY <1>1, <1>2 DEF RankStore
<1>. QED
  BY <1>1, <1>3, <1>4, HereRank, PipelineConstants DEF Jobs, Home

(* What w does to the document. *)
LEMMA WorkerHere ==
    ASSUME IInv, LeaseInv, Handed, Ranked, NEW w \in Workers, WorkerMoves(w)
    PROVE  /\ \/ Here' = Here
              \/ /\ Commit(w) /\ wk[w].job \notin Exports
                 /\ Here = Home(wk[w].job) /\ Here' = Here + 1
           /\ jobs["parse"].status # "succeeded" => doc'.status \in EarlyStatus
<1>. DEFINE j == wk[w].job
<1>1. RankStore /\ RankWork(w) /\ HandWork(w) /\ HandStore
  BY DEF Ranked, Handed
<1>2. wk[w].pc # "idle" => j \in Jobs /\ wk[w].doc \in Documents
  BY AtWork
<1>3. UNCHANGED doc \/ Begin(w) \/ Commit(w) \/ UndoDoc(w)
  BY DEF WorkerMoves, WorkerStep, Receive, ReadJob, ReadDoc, Settle, Claim, Refuse, List,
     ListApproved, PutRow, StoreFile, Close, FailJob, ChainRead, ChainPut, ChainSend, Ack,
     Fail, Die, store
<1>4. jobs["parse"].status # "succeeded" /\ wk[w].pc # "idle" => j = "parse"
  BY <1>1, OnlyParsing
<1>5. CASE UNCHANGED doc
  BY <1>1, <1>5 DEF Here, RankStore
<1>6. CASE Begin(w)
  <2>1. wk[w].pc = "begin" /\ j \in {"parse", "map", "draft"} /\ doc' = Doing(Kind(j), wk[w].doc)
    BY <1>6, AtWork DEF Begin, WorkOK
  <2>2. Kind(j) = j
    BY <2>1, PipelineConstants DEF Kind
  <2>3. doc'.status = CASE j = "parse" -> "parsing" [] j = "map" -> "mapping" [] j = "draft" -> "drafting"
    BY <1>2, <2>1, <2>2, BegunStatus
  <2>4. Here = Home(j)
    BY <1>1, <2>1 DEF RankWork, WorkingPcs
  <2>5. Here' = Home(j)
    BY <2>1, <2>3 DEF Here, Rank, Home
  <2>. QED
    BY <1>4, <2>1, <2>3, <2>4, <2>5 DEF EarlyStatus
<1>7. CASE Commit(w)
  <2>1. wk[w].pc = "commit" /\ doc' = wk[w].doc /\ wk[w].doc.status = Goal(j) /\ Here = Home(j)
    BY <1>1, <1>7 DEF Commit, RankWork, WorkingPcs
  <2>2. Here' = IF j \in Exports THEN Here ELSE Here + 1
    BY <1>2, <2>1, PipelineConstants DEF Here, Rank, Home, Goal, Jobs
  <2>. QED
    BY <1>4, <1>7, <2>1, <2>2 DEF EarlyStatus, Goal
<1>8. CASE UndoDoc(w)
  <2>1. wk[w].pc = "undo" /\ j \in Exports /\ doc' = Undone(j, wk[w].doc) /\ j \in Jobs
    BY <1>1, <1>2, <1>8 DEF UndoDoc, HandWork
  <2>2. doc'.status \in Backed
    BY <1>1, <1>2, <2>1, UndoneStatus DEF HandStore, LateJobs
  <2>3. Here' = 5
    BY <2>2 DEF Backed, Here, Rank
  <2>4. Home(j) = 5 /\ Home(j) <= Here
    BY <1>1, <2>1, Ranks DEF LeaseInv, Unused, RankStore
  <2>5. j # "parse"
    BY <2>1, PipelineConstants
  <2>. QED
    BY <1>4, <2>1, <2>3, <2>4, <2>5, HereRank
<1>. QED
  BY <1>3, <1>5, <1>6, <1>7, <1>8

(* Where w comes to, with regard to the stages. *)
LEMMA RankOwn ==
    ASSUME IInv, LeaseInv, Handed, Ranked, NEW w \in Workers, WorkerMoves(w)
    PROVE  RankWork(w)'
<1>. DEFINE j == wk[w].job
<1>1. RankStore /\ RankWork(w) /\ HandWork(w) /\ HandStore
  BY DEF Ranked, Handed
<1>2. wk[w].pc # "idle" => j \in Jobs /\ wk[w].doc \in Documents
  BY AtWork
<1>3. wk[w].pc # "idle" => /\ Kind(j) \in {"parse", "map", "draft", "export"}
                           /\ Kind(j) = "export" <=> j \in Exports
                           /\ j \notin Exports => Kind(j) = j
  BY <1>2, Kinds, PipelineConstants DEF Kind
<1>4. wk[w].pc # "idle" => Home(j) <= Here
  BY <1>1, <1>2 DEF LeaseInv, Unused, RankStore
<1>5. jobs \in [Jobs -> JobRows] /\ "parse" \in Jobs /\ "parse" \notin Exports /\ doc.status \in DocumentStatus
  BY PipelineConstants DEF IInv, StoreOK, Jobs, Documents
<1>6. ASSUME wk'[w].pc \notin {"doc", "settle", "close", "claim", "refuse"} \cup ChainPcs \cup WorkingPcs
      PROVE  RankWork(w)'
  BY <1>6 DEF RankWork, WorkingPcs
<1>7. ASSUME wk[w].pc \in WorkingPcs, wk'[w].pc \in WorkingPcs, wk'[w].job = j,
             wk'[w].pc = "commit" => wk'[w].doc.status = Goal(j),
             UNCHANGED jobs, ~Commit(w)
      PROVE  RankWork(w)'
  <2>1. Here = Home(j) /\ Here' = Here /\ (j = "parse" => jobs["parse"].status # "succeeded")
    BY <1>1, <1>7, WorkerHere DEF RankWork
  <2>. QED
    BY <1>7, <2>1 DEF RankWork, WorkingPcs, ChainPcs
<1>8. CASE \E m \in Messages : Receive(w, m)
  <2>1. PICK m \in Messages : wk'[w] = [NoWork EXCEPT !.pc = "job", !.msg = m, !.job = msgs[m].job]
    BY <1>8, Reading
  <2>2. wk'[w].pc = "job"
    BY <2>1 DEF NoWork
  <2>. QED
    BY <1>6, <2>2 DEF ChainPcs, WorkingPcs
<1>9. CASE ReadJob(w)
  <2>1. wk'[w].pc = "doc" /\ wk'[w].job = j /\ wk'[w].saw = jobs[j].status /\ UNCHANGED jobs
    BY <1>9, Reading DEF Became, ReadJob, store
  <2>. QED
    BY <2>1 DEF RankWork, WorkingPcs, ChainPcs
<1>10. CASE ReadDoc(w)
  <2>1. wk[w].pc = "doc" /\ UNCHANGED <<jobs, doc>>
    BY <1>10 DEF ReadDoc, store
  <2>2. PICK l \in {"chain", "ack", "settle", "claim"} :
           /\ Became(w, l, doc, wk[w].todo, wk[w].texts)
           /\ wk'[w].saw = wk[w].saw
           /\ l = "chain" => /\ Kind(j) = "parse" /\ doc.status = "parsed"
                             /\ wk[w].saw = "succeeded"
           /\ l \in {"settle", "claim"} <=> wk[w].saw # "succeeded"
           /\ l = "settle" => doc.status \in Past(Kind(j))
           /\ l = "claim" =>
                ~(doc.status \in Past(Kind(j)) /\ (Kind(j) = "export" => doc.exported))
    BY <1>10, Reading
  <2>3. wk'[w].pc = l /\ wk'[w].job = j /\ wk'[w].doc = doc /\ Here' = Here
    BY <2>1, <2>2 DEF Became, Here
  <2>4. CASE l = "chain"
    <3>1. j = "parse" => jobs["parse"].status = "succeeded"
      BY <1>1, <2>1, <2>2, <2>4 DEF RankWork
    <3>. QED
      BY <2>1, <2>3, <2>4, <3>1 DEF RankWork, WorkingPcs, ChainPcs
  <2>5. CASE l = "settle"
    <3>1. j = "parse" => Here >= 2
      BY <1>3, <1>5, <2>1, <2>2, <2>5 DEF Past, Here, Rank
    <3>. QED
      BY <2>1, <2>3, <2>5, <3>1 DEF RankWork, WorkingPcs, ChainPcs
  <2>6. CASE l = "claim"
    <3>1. j = "parse" => jobs["parse"].status # "succeeded"
      BY <1>1, <2>1, <2>2, <2>6 DEF RankWork
    <3>2. j \notin Exports => Here = Home(j)
      <4>1. SUFFICES ASSUME j \notin Exports PROVE Here = Home(j)
        OBVIOUS
      <4>2. j \in {"parse", "map", "draft"} /\ doc.status \notin Past(j) /\ doc.status # "failed"
        BY <1>1, <1>2, <1>3, <2>1, <2>2, <2>6, <4>1 DEF Jobs, HandStore
      <4>3. Home(j) <= Here
        BY <1>4, <2>1
      <4>4. CASE j = "parse"
        <5>1. doc.status \in {"upload_pending", "uploaded", "parsing"}
          BY <1>1, <3>1, <4>2, <4>4 DEF RankStore, EarlyStatus, Past
        <5>. QED
          BY <4>3, <4>4, <5>1 DEF Here, Rank, Home
      <4>5. CASE j = "map"
        BY <1>5, <4>2, <4>3, <4>5 DEF Here, Rank, Home, Past, DocumentStatus
      <4>6. CASE j = "draft"
        BY <1>5, <4>2, <4>3, <4>6 DEF Here, Rank, Home, Past, DocumentStatus
      <4>. QED
        BY <4>2, <4>4, <4>5, <4>6
    <3>. QED
      BY <2>1, <2>3, <2>6, <3>1, <3>2 DEF RankWork, WorkingPcs, ChainPcs, Here
  <2>7. CASE l = "ack"
    BY <1>6, <2>3, <2>7 DEF ChainPcs, WorkingPcs
  <2>. QED
    BY <2>2, <2>4, <2>5, <2>6, <2>7
<1>11. CASE Settle(w) \/ Close(w)
  <2>1. /\ wk[w].pc # "idle" /\ Goto(w, IF Kind(j) = "parse" THEN "chain" ELSE "ack")
        /\ Kind(j) = "parse" => PutJob(j, "succeeded")
    BY <1>11 DEF Settle, Close
  <2>2. wk'[w].pc = (IF Kind(j) = "parse" THEN "chain" ELSE "ack") /\ wk'[w].job = j
    BY <2>1, GoesTo DEF Became
  <2>3. j = "parse" => jobs'["parse"].status = "succeeded"
    BY <1>3, <1>5, <2>1, JobPut
  <2>. QED
    BY <2>2, <2>3 DEF RankWork, WorkingPcs, ChainPcs
<1>12. CASE Claim(w)
  <2>1. wk[w].pc = "claim" /\ UNCHANGED doc
    BY <1>12 DEF Claim
  <2>2. CASE ~Claimable(j)
    <3>1. Goto(w, "ack")
      BY <1>12, <2>2 DEF Claim
    <3>2. wk'[w].pc = "ack"
      BY <3>1, GoesTo DEF Became
    <3>. QED
      BY <1>6, <3>2 DEF ChainPcs, WorkingPcs
  <2>3. CASE Claimable(j)
    <3>1. /\ jobs' = [jobs EXCEPT ![j].status = "running", ![j].lease = wk[w].msg]
          /\ \/ Goto(w, "refuse") /\ ~MayEnter(Kind(j), wk[w].doc)
             \/ Goto(w, "list") /\ j \in Exports
             \/ Goto(w, "begin") /\ j \notin Exports
      BY <1>3, <1>12, <2>1, <2>3 DEF Claim
    <3>2. jobs'[j].status = "running"
      BY <1>2, <1>5, <2>1, <3>1 DEF JobRows
    <3>3. Here' = Home(j)
      <4>1. CASE j \in Exports
        BY <1>2, <1>4, <2>1, <4>1, HereRank, Ranks DEF Here
      <4>2. CASE j \notin Exports
        BY <1>1, <2>1, <2>3, <4>2 DEF RankWork, Here
      <4>. QED
        BY <4>1, <4>2
    <3>4. CASE Goto(w, "refuse") /\ ~MayEnter(Kind(j), wk[w].doc)
      <4>1. wk'[w].pc = "refuse" /\ wk'[w].job = j
        BY <3>4, GoesTo DEF Became
      <4>2. j \in Exports
        <5>1. SUFFICES ASSUME j \notin Exports PROVE FALSE
          OBVIOUS
        <5>2. Rank(wk[w].doc.status) = Home(j) /\ Kind(j) = j /\ j \in {"parse", "map", "draft"}
          BY <1>1, <1>2, <1>3, <2>1, <5>1 DEF RankWork, Jobs
        <5>3. ASSUME NEW d, Rank(d.status) = Home(j) PROVE MayEnter(j, d)
          <6>1. j = "parse" => d.status = "parsing"
            BY <5>3 DEF Rank, Home
          <6>2. j = "map" => d.status \in {"parsed", "mapping"}
            BY <5>3 DEF Rank, Home
          <6>3. j = "draft" => d.status \in {"mapping_approved", "drafting"}
            BY <5>3 DEF Rank, Home
          <6>. QED
            BY <5>2, <6>1, <6>2, <6>3 DEF MayEnter
        <5>. QED
          BY <3>4, <5>2, <5>3
      <4>. QED
        BY <4>1, <4>2, <1>5 DEF RankWork, WorkingPcs, ChainPcs
    <3>5. CASE \E l \in {"list", "begin"} : Goto(w, l)
      <4>1. wk'[w].pc \in {"list", "begin"} /\ wk'[w].job = j
        BY <3>5, GoesTo DEF Became
      <4>. QED
        BY <3>2, <3>3, <4>1 DEF RankWork, WorkingPcs, ChainPcs
    <3>. QED
      BY <3>1, <3>4, <3>5
  <2>. QED
    BY <2>2, <2>3
<1>13. ASSUME NEW d \in Documents, NEW todo, Write(w, d, todo), wk[w].pc \in WorkingPcs, UNCHANGED jobs, ~Commit(w)
       PROVE  RankWork(w)'
  <2>1. Became(w, IF todo = {} THEN "commit" ELSE "rows",
               IF todo = {} THEN Done(Kind(j), d) ELSE d, todo, wk[w].texts)
    BY <1>13, WritesTo
  <2>2. Done(Kind(j), d).status = Goal(j)
    <3>1. wk[w].pc # "idle"
      BY <1>13 DEF WorkingPcs
    <3>2. j \in Exports \/ (j \in {"parse", "map", "draft"} /\ j \notin Exports)
      BY <1>2, <3>1 DEF Jobs
    <3>3. CASE j \in Exports
      BY <1>3, <1>13, <3>1, <3>3, DoneStatus, PipelineConstants DEF Goal
    <3>4. CASE j \in {"parse", "map", "draft"} /\ j \notin Exports
      BY <1>3, <1>13, <3>1, <3>4, DoneStatus DEF Goal
    <3>. QED
      BY <3>2, <3>3, <3>4
  <2>3. wk'[w].pc \in {"commit", "rows"} /\ wk'[w].job = j
        /\ (wk'[w].pc = "commit" => wk'[w].doc.status = Goal(j))
    BY <2>1, <2>2 DEF Became
  <2>. QED
    BY <1>7, <1>13, <2>3 DEF WorkingPcs
<1>14. CASE Begin(w)
  <2>1. wk[w].pc = "begin" /\ j \in {"parse", "map", "draft"} /\ UNCHANGED jobs /\ ~Commit(w)
    BY <1>14, AtWork DEF Begin, WorkOK, Commit
  <2>2. Kind(j) = j
    BY <1>2, <2>1, PipelineConstants DEF Kind
  <2>3. Doing(Kind(j), wk[w].doc) \in Documents
    BY <1>2, <2>1, <2>2, BegunStatus, DocumentSteps, <1>5, <1>3
  <2>4. \/ Write(w, Doing(Kind(j), wk[w].doc), Orders \X {parses'})
        \/ Became(w, "list", Doing(Kind(j), wk[w].doc), wk[w].todo, wk[w].texts)
    BY <1>14, Working
  <2>5. Became(w, "list", Doing(Kind(j), wk[w].doc), wk[w].todo, wk[w].texts) =>
          wk'[w].pc = "list" /\ wk'[w].job = j
    BY DEF Became
  <2>. QED
    BY <1>7, <1>13, <2>1, <2>3, <2>4, <2>5 DEF WorkingPcs
<1>15. CASE List(w)
  <2>1. wk[w].pc = "list" /\ UNCHANGED jobs /\ ~Commit(w)
    BY <1>15 DEF List, Commit, store
  <2>2. \/ Write(w, wk[w].doc, CurrentSections)
        \/ \E l \in {"approved", "store"} : \E todo, texts : Became(w, l, wk[w].doc, todo, texts)
        \/ Goto(w, "undo")
    BY <1>15, Working
  <2>3. CASE Goto(w, "undo")
    <3>1. wk'[w].pc = "undo"
      BY <2>3, GoesTo DEF Became
    <3>. QED
      BY <1>6, <3>1 DEF ChainPcs, WorkingPcs
  <2>4. CASE \E l \in {"approved", "store"} : \E todo, texts : Became(w, l, wk[w].doc, todo, texts)
    <3>1. wk'[w].pc \in {"approved", "store"} /\ wk'[w].job = j
      BY <2>4 DEF Became
    <3>. QED
      BY <1>7, <2>1, <3>1 DEF WorkingPcs
  <2>. QED
    BY <1>2, <1>13, <2>1, <2>2, <2>3, <2>4 DEF WorkingPcs
<1>16. CASE ListApproved(w) \/ PutRow(w) \/ StoreFile(w)
  <2>1. /\ wk[w].pc \in {"approved", "rows", "store"} /\ UNCHANGED jobs /\ \E todo : Write(w, wk[w].doc, todo)
        /\ ~Commit(w)
    BY <1>16 DEF ListApproved, PutRow, StoreFile, Commit, store
  <2>. QED
    BY <1>2, <1>13, <2>1 DEF WorkingPcs
<1>17. CASE Commit(w)
  <2>1. wk[w].pc = "commit" /\ doc' = wk[w].doc /\ Goto(w, "close")
    BY <1>17 DEF Commit
  <2>2. wk'[w].pc = "close" /\ wk'[w].job = j
    BY <2>1, GoesTo DEF Became
  <2>3. j = "parse" => Here' >= 2
    BY <1>1, <2>1 DEF RankWork, Goal, Here, Rank
  <2>. QED
    BY <2>2, <2>3 DEF RankWork, WorkingPcs, ChainPcs
<1>18. CASE Refuse(w) \/ UndoDoc(w) \/ ChainSend(w)
  <2>1. Goto(w, "failjob") \/ Goto(w, "ack")
    BY <1>18 DEF UndoDoc, ChainSend, Refuse
  <2>2. wk'[w].pc \in {"failjob", "ack"}
    BY <2>1, GoesTo DEF Became
  <2>. QED
    BY <1>6, <2>2 DEF ChainPcs, WorkingPcs
<1>19. CASE FailJob(w) \/ Ack(w) \/ Die(w)
  <2>1. wk' = [wk EXCEPT ![w] = NoWork] \/ Goto(w, "ack")
    BY <1>19 DEF FailJob, Ack, Die
  <2>2. wk'[w].pc \in {"idle", "ack"}
    BY <2>1, GoesTo DEF Became, NoWork, IInv, WorkersOK
  <2>. QED
    BY <1>6, <2>2 DEF ChainPcs, WorkingPcs
<1>20. CASE ChainRead(w) \/ ChainPut(w)
  <2>1. /\ wk[w].pc \in ChainPcs
        /\ UNCHANGED jobs \/ PutJob("map", "pending")
        /\ \E l \in {"ack", "chainput", "chainsend"} : Goto(w, l)
    BY <1>20 DEF ChainRead, ChainPut, ChainPcs, store
  <2>2. wk'[w].pc \in {"ack", "chainput", "chainsend"} /\ wk'[w].job = j
    BY <2>1, GoesTo DEF Became
  <2>3. j = "parse" /\ jobs["parse"].status = "succeeded"
    BY <1>1, <2>1 DEF HandWork, RankWork
  <2>4. jobs'["parse"].status = "succeeded"
    BY <1>5, <2>1, <2>3, JobPut
  <2>. QED
    BY <2>2, <2>3, <2>4 DEF RankWork, WorkingPcs, ChainPcs
<1>21. ~Fail(w)
  BY <1>1 DEF HandStore, Fail
<1>. QED
  BY <1>8, <1>9, <1>10, <1>11, <1>12, <1>14, <1>15, <1>16, <1>17, <1>18, <1>19, <1>20, <1>21
     DEF WorkerMoves, WorkerStep

(* What a step of w means to another invocation. *)
LEMMA RankOther ==
    ASSUME IInv, LeaseInv, Handed, Ranked, NEW w \in Workers, WorkerMoves(w),
           NEW v \in Workers \ {w}
    PROVE  RankWork(v)'
<1>. DEFINE k == wk[v].job
<1>1. RankStore /\ RankWork(v) /\ RankWork(w) /\ Deliveries /\ wk'[v] = wk[v]
  BY WorkerOnly DEF Ranked, Handed
<1>2. wk[v].pc # "idle" => k \in Jobs /\ jobs[k].status # "none"
  BY AtWork DEF LeaseInv, Unused
<1>3. "parse" \in Jobs /\ "parse" \notin Exports /\ Here' >= Here
  BY WorkerHere, HereRank, PipelineConstants DEF Jobs
<1>4. k = "parse" => jobs'["parse"] = jobs["parse"]
  <2>1. SUFFICES ASSUME k = "parse" PROVE jobs'["parse"] = jobs["parse"]
    OBVIOUS
  <2>2. wk[w].job # "parse"
    BY <1>1, <2>1, OneParser
  <2>. QED
    BY <1>3, <2>2, JobAlone
<1>5. ASSUME Here' # Here, wk[v].pc # "idle", Here = Home(k)
      PROVE  Holds(w, k)
  <2>1. Commit(w) /\ wk[w].job \notin Exports /\ Here = Home(wk[w].job)
    BY <1>5, WorkerHere
  <2>2. wk[w].pc = "commit"
    BY <2>1 DEF Commit
  <2>3. wk[w].job \in Jobs
    BY <2>2, AtWork
  <2>4. wk[w].job = k
    BY <1>2, <1>5, <2>1, <2>3, Ranks
  <2>. QED
    BY <2>2, <2>4 DEF Holds, HoldingPcs
<1>6. ASSUME wk[v].pc = "claim", k \notin Exports, Claimable(k)'
      PROVE  Here' = Home(k)
  <2>1. k \in Jobs /\ jobs[k].status # "none"
    BY <1>2, <1>6
  <2>2. jobs'[k] = jobs[k]
    <3>1. jobs'[k].status # "succeeded"
      BY <1>1, <1>6 DEF Claimable
    <3>2. ~(jobs'[k].status = "running" /\ jobs'[k].lease # "none")
      BY <1>1, <1>6 DEF Claimable
    <3>. QED
      BY <1>6, <2>1, <3>1, <3>2, JobAlone
  <2>3. Claimable(k) /\ Here = Home(k)
    BY <1>1, <1>6, <2>2 DEF Claimable, RankWork
  <2>4. ~Holds(w, k)
    BY <2>1, <2>3, HeldNotClaimable
  <2>. QED
    BY <1>5, <1>6, <2>3, <2>4
<1>7. ASSUME wk[v].pc \in WorkingPcs
      PROVE  Here' = Home(k)
  <2>1. Here = Home(k) /\ wk[v].pc # "idle" /\ Holds(v, k)
    BY <1>1, <1>7 DEF RankWork, WorkingPcs, Holds, HoldingPcs
  <2>2. ~Holds(w, k)
    BY <1>2, <2>1 DEF LeaseInv, OneClaimant
  <2>. QED
    BY <1>5, <2>1, <2>2
<1>8. wk'[v].pc = "claim" /\ wk'[v].job \notin Exports =>
         /\ Rank(wk'[v].doc.status) = Home(wk'[v].job)
         /\ Claimable(wk[v].job)' => Here' = Home(wk'[v].job)
  BY <1>1, <1>6 DEF RankWork
<1>9. k = "parse" =>
         /\ wk[v].pc = "doc" => (wk[v].saw = "succeeded" <=> jobs'["parse"].status = "succeeded")
         /\ wk[v].pc \in ChainPcs => jobs'["parse"].status = "succeeded"
         /\ wk[v].pc \in {"claim"} \cup WorkingPcs => jobs'["parse"].status # "succeeded"
         /\ wk[v].pc \in {"settle", "close"} => Here' >= 2
  <2>1. Here \in 0..5 /\ Here' \in 0..5
    BY HereRank, Ranks DEF Here
  <2>. QED
    BY <1>1, <1>3, <1>4, <2>1 DEF RankWork
<1>. QED
  BY <1>1, <1>7, <1>8, <1>9 DEF RankWork

LEMMA RankStoreWorker ==
    ASSUME IInv, LeaseInv, Handed, Ranked, NEW w \in Workers, WorkerMoves(w)
    PROVE  RankStore'
<1>1. RankStore /\ RankWork(w) /\ HandWork(w)
  BY DEF Ranked, Handed
<1>2. wk[w].pc # "idle" => wk[w].job \in Jobs /\ jobs[wk[w].job].status # "none"
  BY AtWork DEF LeaseInv, Unused
<1>3. {"parse", "map"} \subseteq Jobs /\ "parse" \notin Exports /\ "map" \notin Exports
  BY PipelineConstants DEF Jobs
<1>4. Here \in 0..5 /\ Here' \in 0..5 /\ Here' >= Here
  BY HereRank, WorkerHere, Ranks DEF Here
<1>5. ChainPut(w) => wk[w].job = "parse" /\ jobs["parse"].status = "succeeded"
  BY <1>1 DEF ChainPut, HandWork, RankWork, ChainPcs
<1>6. Settle(w) \/ Close(w) => wk[w].pc \in {"settle", "close"}
  BY DEF Settle, Close
<1>7. \A k \in Jobs : Home(k) \in 1..5
  BY Ranks
<1>8. ASSUME NEW k \in Jobs, jobs'[k].status # "none" PROVE Home(k) <= Here'
  <2>1. CASE jobs[k].status # "none"
    <3>1. Home(k) <= Here
      BY <1>1, <2>1 DEF RankStore
    <3>. QED
      BY <1>4, <1>7, <3>1
  <2>2. CASE jobs[k].status = "none"
    <3>1. ChainPut(w) /\ k = "map"
      BY <1>8, <2>2, JobStays
    <3>2. Here >= 2 /\ Home(k) = 2
      BY <1>1, <1>5, <3>1 DEF RankStore, Home
    <3>. QED
      BY <1>4, <3>2
  <2>. QED
    BY <2>1, <2>2
<1>9. ASSUME NEW k \in Jobs, jobs'[k].status = "failed" PROVE k \in Exports
  <2>1. \/ jobs'[k] = jobs[k]
        \/ k \in Exports
        \/ ChainPut(w) /\ k = "map"
    BY <1>9, JobAlone
  <2>2. CASE ChainPut(w) /\ k = "map"
    <3>1. jobs'[k].status = "pending"
      BY <2>2, JobPut DEF ChainPut
    <3>. QED
      BY <1>9, <3>1
  <2>. QED
    BY <1>1, <1>9, <2>1, <2>2 DEF RankStore
<1>10. jobs["parse"].status = "succeeded" => jobs'["parse"].status = "succeeded"
  <2>1. jobs["parse"].status = "succeeded" => ~Claimable("parse")
    BY DEF Claimable
  <2>. QED
    BY <1>3, <2>1, JobAlone
<1>11. jobs'["map"].status # "none" => jobs'["parse"].status = "succeeded"
  BY <1>1, <1>3, <1>5, <1>10, JobStays DEF RankStore
<1>12. jobs'["parse"].status = "succeeded" => Here' >= 2
  <2>1. SUFFICES ASSUME jobs'["parse"].status = "succeeded" PROVE Here >= 2
    BY <1>4
  <2>2. CASE jobs["parse"].status = "succeeded"
    BY <1>1, <2>2 DEF RankStore
  <2>3. CASE jobs["parse"].status # "succeeded"
    <3>1. wk[w].job = "parse" /\ (Settle(w) \/ Close(w))
      BY <1>3, <2>1, <2>3, JobAlone
    <3>. QED
      BY <1>1, <1>6, <3>1 DEF RankWork
  <2>. QED
    BY <2>2, <2>3
<1>13. jobs'["parse"].status # "succeeded" => doc'.status \in EarlyStatus
  BY <1>10, WorkerHere
<1>. QED
  BY <1>8, <1>9, <1>11, <1>12, <1>13 DEF RankStore

LEMMA RankedWorker ==
    ASSUME IInv, LeaseInv, Handed, Ranked, NEW w \in Workers, WorkerMoves(w), UNCHANGED apivars
    PROVE  Ranked'
<1>1. ASSUME NEW c \in Callers PROVE RankCall(c)'
  <2>1. RankCall(c) /\ call' = call
    BY DEF Ranked, apivars
  <2>2. Here \in 0..5 /\ Here' \in 0..5 /\ Here' >= Here
    BY HereRank, WorkerHere, Ranks DEF Here
  <2>. QED
    BY <2>1, <2>2 DEF RankCall
<1>2. \A v \in Workers : RankWork(v)'
  BY RankOwn, RankOther
<1>. QED
  BY <1>1, <1>2, RankStoreWorker DEF Ranked

LEMMA RankAsks ==
    ASSUME Ranked, NEW c \in Callers, UNCHANGED <<doc, jobs, wk>>,
           \A d \in Callers \ {c} : call'[d] = call[d], RankCall(c)'
    PROVE  Ranked'
<1>1. RankStore' /\ Here' = Here
  BY DEF Ranked, RankStore, Here
<1>2. \A w \in Workers : RankWork(w)'
  BY DEF Ranked, RankWork, Here, Claimable
<1>3. \A d \in Callers \ {c} : RankCall(d)'
  BY <1>1 DEF Ranked, RankCall
<1>. QED
  BY <1>1, <1>2, <1>3 DEF Ranked

(* What a request does to the document. *)
LEMMA CallerHere ==
    ASSUME Calm, IInv, Handed, Ranked, NEW c \in Callers, PutDocument(c), doc.status \in Expected(c)
    PROVE  /\ call[c].op \in AllOps \ {"edit_mapping"}
           /\ call[c].op = "parse" => Here = 0 /\ Here' = 1 /\ doc'.status = "parsing"
           /\ call[c].op = "approve_mappings" => Here = 3 /\ Here' = 4
           /\ call[c].op \notin {"parse", "approve_mappings"} => Here = 5 /\ Here' = 5
<1>1. HandStore /\ RankCall(c)
  BY DEF Ranked, Handed
<1>2. /\ call[c].pc = "cas" /\ doc' = NewDocument(c)
      /\ call[c].op \in AllOps \ {"edit_mapping"} /\ call[c].doc \in Documents
  BY AtCall DEF PutDocument, CallOK
<1>3. CASE call[c].op = "parse"
  <2>1. doc.status \in Unasked
    BY <1>1, <1>3 DEF Expected, Admitted, HandStore, Unasked
  <2>2. doc'.status = "parsing"
    BY <1>2, <1>3, NewStatus
  <2>. QED
    BY <1>2, <1>3, <2>1, <2>2 DEF Here, Rank, Unasked
<1>4. CASE call[c].op = "approve_mappings"
  <2>1. doc.status = "mapped"
    BY <1>4 DEF Expected
  <2>2. doc'.status = "mapping_approved"
    BY <1>2, <1>4, NewStatus
  <2>. QED
    BY <1>2, <1>4, <2>1, <2>2 DEF Here, Rank
<1>5. CASE call[c].op \notin {"parse", "approve_mappings"}
  <2>1. Here = 5
    BY <1>1, <1>2, <1>5 DEF RankCall, AllOps
  <2>2. doc'.status \in {"drafted", "review_approved", "exporting"}
    BY <1>2, <1>5, NewStatus DEF AllOps
  <2>. QED
    BY <1>2, <1>5, <2>1, <2>2 DEF Here, Rank
<1>. QED
  BY <1>3, <1>4, <1>5

LEMMA RankedCaller ==
    ASSUME Calm, IInv, LeaseInv, Handed, Ranked, NEW c \in Callers, CallerMoves(c)
    PROVE  Ranked'
<1>1. RankStore /\ RankCall(c) /\ HandStore /\ HandCall(c)
  BY DEF Ranked, Handed
<1>2. UNCHANGED wk
  BY CallerLeavesWork DEF wkvars
<1>3. call[c].pc # "idle" => CallOK(call[c]) /\ call[c].op \in AllOps /\ call[c].doc \in Documents
  BY AtCall
<1>4. \A w \in Workers : wk[w].pc # "idle" => wk[w].job \in Jobs /\ jobs[wk[w].job].status # "none"
  BY AtWork DEF LeaseInv, Unused
<1>5. jobs \in [Jobs -> JobRows] /\ Here \in 0..5 /\ "parse" \in Jobs /\ "map" \in Jobs
  BY HereRank DEF IInv, StoreOK, Jobs
<1>6. \A k \in Jobs : Home(k) \in {1, 2, 4, 5} /\ (jobs[k].status # "none" => Home(k) <= Here)
  BY <1>1, Ranks DEF RankStore
<1>7. Over(c) => RankCall(c)' /\ \A d \in Callers \ {c} : call'[d] = call[d]
  BY DEF Over, NoCall, RankCall, Putting
(* a request goes on without writing the document *)
<1>8. ASSUME NEW l, NEW d, NEW copy, NEW todo, NEW job, Went(c, l, d, copy, todo, job),
             call[c].pc \notin {"idle", "read"}, Here' = Here,
             call[c].op = "approve_mappings" /\ l \in {"jobread", "jobput", "send"} => Here >= 4,
             call[c].op = "parse" /\ l \in Putting => Here >= 1
      PROVE  RankCall(c)' /\ \A e \in Callers \ {c} : call'[e] = call[e]
  BY <1>1, <1>8 DEF Went, RankCall
<1>9. CASE NewCall(c)
  <2>1. PICK op \in Ops, s \in Sections \cup {NoSection} :
           /\ op \in RowOps => s \in Listed(Table(op))
           /\ call'[c] = [NoCall EXCEPT !.op = op, !.pc = "read", !.sec = s]
    BY <1>9, Asking
  <2>2. call'[c].op = op /\ call'[c].pc = "read"
    BY <2>1 DEF NoCall
  <2>3. \A d \in Callers \ {c} : call'[d] = call[d]
    BY <1>9, Asking
  <2>4. RankCall(c)'
    BY <2>2 DEF RankCall, Putting
  <2>. QED
    BY <1>2, <1>9, <2>3, <2>4, RankAsks DEF NewCall, store
<1>10. CASE ReadDocument(c)
  <2>1. /\ call[c].pc = "read" /\ call[c].op \in AllOps
        /\ UNCHANGED <<doc, jobs>>
    BY <1>3, <1>10 DEF ReadDocument, store
  <2>2. Here' = Here
    BY <2>1 DEF Here
  <2>3. CASE doc.status \in Admitted(call[c].op)
             /\ Went(c, AfterRead(call[c].op, doc), doc, call[c].copy, call[c].todo, call[c].job)
    <3>1. call'[c].op = call[c].op /\ call'[c].pc = AfterRead(call[c].op, doc)
          /\ \A d \in Callers \ {c} : call'[d] = call[d]
      BY <2>3 DEF Went
    <3>2. CASE call[c].op = "edit_mapping"
      <4>1. Here = 3
        BY <2>3, <3>2 DEF Admitted, Here, Rank
      <4>. QED
        BY <1>2, <2>1, <2>2, <3>1, <3>2, <4>1, RankAsks DEF RankCall
    <3>3. CASE call[c].op = "approve_mappings"
      <4>1. Here >= 3 /\ (doc.status # "mapped" => Here >= 4)
        BY <2>3, <3>3 DEF Admitted, Here, Rank
      <4>2. AfterRead(call[c].op, doc) = IF doc.status = "mapped" THEN "list" ELSE "jobread"
        BY <3>3 DEF AfterRead, RowOps
      <4>3. RankCall(c)'
        BY <2>2, <3>1, <3>3, <4>1, <4>2 DEF RankCall
      <4>. QED
        BY <1>2, <2>1, <3>1, <4>3, RankAsks
    <3>4. CASE call[c].op = "parse"
      <4>1. AfterRead(call[c].op, doc) = "cas"
        BY <3>4 DEF AfterRead, RowOps
      <4>. QED
        BY <1>2, <2>1, <3>1, <3>4, <4>1, RankAsks DEF RankCall, Putting
    <3>5. CASE call[c].op \in {"edit_draft", "approve_draft", "export"}
      <4>1. doc.status \in {"drafted", "review_approved", "exported"}
        BY <2>3, <3>5 DEF Admitted
      <4>2. Here = 5
        BY <4>1 DEF Here, Rank
      <4>. QED
        BY <1>2, <2>1, <2>2, <3>1, <3>5, <4>2, RankAsks DEF RankCall
    <3>. QED
      BY <2>1, <3>2, <3>3, <3>4, <3>5 DEF AllOps
  <2>. QED
    BY <1>2, <1>7, <1>10, <2>1, <2>3, Asking, RankAsks
<1>11. CASE ReadRow(c) \/ ListRows(c) \/ PutMapping(c) \/ PutDraft(c)
  <2>1. call[c].pc \notin {"idle", "read"} /\ UNCHANGED <<doc, jobs>>
    BY <1>11 DEF ReadRow, ListRows, PutMapping, PutDraft, At, store
  <2>2. \/ Over(c)
        \/ \E l \in {"cas", "put", "list"} : \E d, copy, todo, job : Went(c, l, d, copy, todo, job)
    <3>1. CASE ReadRow(c)
      BY <3>1, Asking
    <3>2. CASE ListRows(c)
      BY <3>2, Listing
    <3>3. CASE PutMapping(c)
      BY <3>3, Listing
    <3>4. CASE PutDraft(c)
      <4>1. Step(c, "idle") \/ Step(c, "list")
        BY <3>4 DEF PutDraft
      <4>. QED
        BY <4>1, StepsTo
    <3>. QED
      BY <1>11, <3>1, <3>2, <3>3, <3>4
  <2>3. Here' = Here
    BY <2>1 DEF Here
  <2>4. RankCall(c)' /\ \A d \in Callers \ {c} : call'[d] = call[d]
    BY <1>7, <1>8, <2>1, <2>2, <2>3 DEF Putting
  <2>. QED
    BY <1>2, <2>1, <2>4, RankAsks
<1>12. CASE ReadLatest(c) \/ ReadDraftJob(c)
  <2>1. /\ call[c].pc \in {"latest", "jobread"} /\ call[c].op = "approve_mappings"
        /\ UNCHANGED <<doc, jobs>>
        /\ \E l \in {"idle", "jobread", "jobput", "send"} :
              Step(c, l) /\ (call[c].pc = "latest" /\ l # "idle" => doc.status = "mapping_approved")
    BY <1>12 DEF ReadLatest, ReadDraftJob, At, store
  <2>2. Here' = Here /\ (call[c].pc = "jobread" \/ doc.status = "mapping_approved" => Here >= 4)
    BY <1>1, <2>1 DEF Here, Rank, RankCall
  <2>3. \/ Over(c)
        \/ \E l \in {"jobread", "jobput", "send"} :
             Here >= 4 /\ Went(c, l, call[c].doc, call[c].copy, call[c].todo, call[c].job)
    BY <2>1, <2>2, StepsTo
  <2>4. RankCall(c)' /\ \A d \in Callers \ {c} : call'[d] = call[d]
    BY <1>7, <1>8, <2>1, <2>2, <2>3
  <2>. QED
    BY <1>2, <2>1, <2>4, RankAsks
<1>13. CASE SendMessage(c)
  <2>1. Over(c) /\ UNCHANGED <<doc, jobs>>
    BY <1>13, StepsTo DEF SendMessage, store
  <2>. QED
    BY <1>2, <1>7, <2>1, RankAsks
<1>14. CASE PutNewJob(c)
  <2>1. /\ call[c].pc = "jobput" /\ UNCHANGED doc
        /\ jobs' = [jobs EXCEPT ![JobOf(c)] = NewJob(c, "pending")]
        /\ Went(c, "send", call[c].doc, call[c].copy, call[c].todo, call[c].job)
    BY <1>14, StepsTo DEF PutNewJob
  <2>2. /\ JobOf(c) \in Jobs /\ JobOf(c) # "map" /\ jobs[JobOf(c)].status = "none"
        /\ Home(JobOf(c)) <= Here
    <3>1. call[c].op = "export" => call[c].job \in Exports /\ Home(call[c].job) = 5 /\ call[c].job \in Jobs
      BY <1>3, <2>1, Ranks DEF CallOK, Jobs
    <3>2. call[c].op \in {"parse", "approve_mappings", "export"}
      BY <1>1, <2>1 DEF HandCall, Putting
    <3>3. jobs[JobOf(c)].status = "none"
      BY <1>1, <2>1 DEF HandCall
    <3>4. CASE call[c].op = "parse"
      <4>1. JobOf(c) = "parse"
        BY <3>4 DEF JobOf
      <4>2. Here >= 1 /\ Home("parse") = 1
        BY <1>1, <2>1, <3>4 DEF RankCall, Putting, Home
      <4>. QED
        BY <1>5, <3>3, <4>1, <4>2
    <3>5. CASE call[c].op = "approve_mappings"
      <4>1. JobOf(c) = "draft"
        BY <3>5 DEF JobOf
      <4>2. Here >= 4 /\ Home("draft") = 4
        BY <1>1, <2>1, <3>5 DEF RankCall, Home
      <4>. QED
        BY <1>5, <3>3, <4>1, <4>2 DEF Jobs
    <3>6. CASE call[c].op = "export"
      <4>1. JobOf(c) = call[c].job
        BY <3>6 DEF JobOf
      <4>2. Here = 5
        BY <1>1, <2>1, <3>6 DEF RankCall
      <4>. QED
        BY <1>5, <3>1, <3>3, <3>6, <4>1, <4>2, PipelineConstants
    <3>. QED
      BY <3>2, <3>4, <3>5, <3>6
  <2>3. NewJob(c, "pending").status = "pending"
    BY DEF NewJob
  <2>4. jobs'[JobOf(c)].status = "pending" /\ \A k \in Jobs : k # JobOf(c) => jobs'[k] = jobs[k]
    BY <1>5, <2>1, <2>2, <2>3
  <2>5. Here' = Here
    BY <2>1 DEF Here
  <2>6. RankStore'
    BY <1>1, <1>5, <2>1, <2>2, <2>4, <2>5 DEF RankStore
  <2>7. ASSUME NEW w \in Workers PROVE RankWork(w)'
    <3>1. RankWork(w) /\ wk' = wk
      BY <1>2 DEF Ranked
    <3>2. CASE wk[w].pc = "idle"
      BY <3>1, <3>2 DEF RankWork, WorkingPcs, ChainPcs
    <3>3. CASE wk[w].pc # "idle"
      <4>1. wk[w].job \in Jobs /\ jobs'[wk[w].job] = jobs[wk[w].job]
        BY <1>4, <2>2, <2>4, <3>3
      <4>2. Claimable(wk[w].job)' <=> Claimable(wk[w].job)
        BY <3>1, <4>1 DEF Claimable
      <4>. QED
        BY <2>5, <3>1, <4>1, <4>2 DEF RankWork
    <3>. QED
      BY <3>2, <3>3
  <2>8. RankCall(c)' /\ \A d \in Callers \ {c} : call'[d] = call[d]
    <3>1. call[c].op = "approve_mappings" => Here >= 4
      BY <1>1, <2>1 DEF RankCall
    <3>2. call[c].op = "parse" => Here >= 1
      BY <1>1, <2>1 DEF RankCall, Putting
    <3>. QED
      BY <1>8, <2>1, <2>5, <3>1, <3>2
  <2>9. ASSUME NEW d \in Callers \ {c} PROVE RankCall(d)'
    BY <2>5, <2>8 DEF Ranked, RankCall
  <2>. QED
    BY <2>6, <2>7, <2>8, <2>9 DEF Ranked
<1>15. CASE PutDocument(c)
  <2>1. call[c].pc = "cas" /\ UNCHANGED jobs
    BY <1>15 DEF PutDocument
  <2>2. CASE doc.status \notin Expected(c)
    <3>1. UNCHANGED doc /\ Step(c, IF call[c].op = "approve_mappings" THEN "latest" ELSE "idle")
      BY <1>15, <2>2 DEF PutDocument
    <3>2. Over(c) \/ Went(c, "latest", call[c].doc, call[c].copy, call[c].todo, call[c].job)
      BY <3>1, StepsTo
    <3>3. Here' = Here
      BY <3>1 DEF Here
    <3>4. RankCall(c)' /\ \A d \in Callers \ {c} : call'[d] = call[d]
      BY <1>7, <1>8, <2>1, <3>2, <3>3 DEF Putting
    <3>. QED
      BY <1>2, <2>1, <3>1, <3>4, RankAsks
  <2>3. CASE doc.status \in Expected(c)
    <3>. DEFINE l == AfterCas(call[c].op)
    <3>1. /\ call[c].op \in AllOps \ {"edit_mapping"}
          /\ call[c].op = "parse" => Here = 0 /\ Here' = 1 /\ doc'.status = "parsing"
          /\ call[c].op = "approve_mappings" => Here = 3 /\ Here' = 4
          /\ call[c].op \notin {"parse", "approve_mappings"} => Here = 5 /\ Here' = 5
      BY <1>15, <2>3, CallerHere
    <3>2. Step(c, l)
      BY <1>15, <2>3 DEF PutDocument
    <3>3. Over(c) \/ Went(c, l, call[c].doc, call[c].copy, call[c].todo, call[c].job)
      BY <3>2, StepsTo
    <3>4. RankCall(c)' /\ \A d \in Callers \ {c} : call'[d] = call[d]
      <4>1. CASE Over(c)
        BY <1>7, <4>1
      <4>2. CASE Went(c, l, call[c].doc, call[c].copy, call[c].todo, call[c].job)
        <5>1. call'[c].op = call[c].op /\ \A d \in Callers \ {c} : call'[d] = call[d]
          BY <4>2 DEF Went
        <5>2. RankCall(c)'
          BY <3>1, <5>1 DEF RankCall, AllOps
        <5>. QED
          BY <5>1, <5>2
      <4>. QED
        BY <3>3, <4>1, <4>2
    <3>5. Here' >= Here /\ Here' \in 0..5
      BY <3>1
    <3>6. ASSUME NEW d \in Callers \ {c} PROVE RankCall(d)'
      BY <1>5, <3>4, <3>5 DEF Ranked, RankCall
    <3>7. Here' # Here => \A k \in Jobs : Home(k) # Here
      BY <1>6, <3>1
    <3>8. RankStore'
      <4>1. \A k \in Jobs : jobs[k].status # "none" => Home(k) <= Here'
        BY <1>5, <1>6, <3>5
      <4>2. jobs["parse"].status # "succeeded" => doc'.status \in EarlyStatus
        <5>1. doc.status \in EarlyStatus => Here <= 2
          BY DEF EarlyStatus, Here, Rank
        <5>. QED
          BY <1>1, <3>1, <5>1 DEF RankStore, EarlyStatus
      <4>. QED
        BY <1>1, <1>5, <2>1, <3>5, <4>1, <4>2 DEF RankStore
    <3>9. ASSUME NEW w \in Workers PROVE RankWork(w)'
      <4>1. RankWork(w) /\ wk' = wk
        BY <1>2 DEF Ranked
      <4>2. CASE wk[w].pc = "idle"
        BY <4>1, <4>2 DEF RankWork, WorkingPcs, ChainPcs
      <4>3. CASE wk[w].pc # "idle"
        <5>1. wk[w].job \in Jobs
          BY <1>4, <4>3
        <5>2. Claimable(wk[w].job)' <=> Claimable(wk[w].job)
          BY <2>1, <4>1 DEF Claimable
        <5>. QED
          BY <1>5, <2>1, <3>5, <3>7, <4>1, <5>1, <5>2 DEF RankWork
      <4>. QED
        BY <4>2, <4>3
    <3>. QED
      BY <3>4, <3>6, <3>8, <3>9 DEF Ranked
  <2>. QED
    BY <2>2, <2>3
<1>16. ~(EnqueueFails(c) \/ CallDies(c) \/ RestoreDocument(c) \/ FailNewJob(c))
  BY <1>1 DEF EnqueueFails, CallDies, HandStore, HandCall, RestoreDocument, FailNewJob
<1>. QED
  BY <1>9, <1>10, <1>11, <1>12, <1>13, <1>14, <1>15, <1>16 DEF CallerMoves, CallStep

LEMMA RankedNext ==
    ASSUME Calm, IInv, LeaseInv, Handed, Ranked, [Next]_vars
    PROVE  Ranked'
<1>1. CASE (\E w \in Workers : WorkerMoves(w)) /\ UNCHANGED apivars
  BY <1>1, RankedWorker
<1>2. CASE \E c \in Callers : CallerMoves(c)
  BY <1>2, RankedCaller
<1>3. ASSUME UNCHANGED <<doc, wk, apivars>>,
             \A j \in Jobs : jobs'[j].status = jobs[j].status,
             \A w \in Workers : wk[w].pc = "claim" => jobs'[wk[w].job] = jobs[wk[w].job]
      PROVE  Ranked'
  <2>1. {"parse", "map"} \subseteq Jobs /\ Here' = Here
    BY <1>3 DEF Jobs, Here
  <2>2. RankStore'
    BY <1>3, <2>1 DEF Ranked, RankStore
  <2>3. ASSUME NEW w \in Workers PROVE RankWork(w)'
    <3>1. RankWork(w) /\ wk' = wk
      BY <1>3 DEF Ranked
    <3>2. wk[w].pc = "claim" => (Claimable(wk[w].job)' <=> Claimable(wk[w].job))
      BY <1>3, <3>1 DEF Claimable
    <3>. QED
      BY <1>3, <2>1, <3>1, <3>2 DEF RankWork
  <2>4. \A c \in Callers : RankCall(c)'
    BY <1>3, <2>1 DEF Ranked, RankCall, apivars
  <2>. QED
    BY <2>2, <2>3, <2>4 DEF Ranked
<1>4. CASE (\E m \in Messages : Reappear(m) \/ Duplicate(m)) /\ UNCHANGED apivars
  <2>1. UNCHANGED <<doc, jobs, wk, apivars>>
    BY <1>4 DEF Reappear, Duplicate, store, wkvars
  <2>. QED
    BY <1>3, <2>1
<1>5. CASE (\E j \in Jobs : LeaseExpires(j)) /\ UNCHANGED apivars
  <2>1. PICK k \in Jobs : LeaseExpires(k)
    BY <1>5
  <2>2. jobs \in [Jobs -> JobRows]
    BY DEF IInv, StoreOK
  <2>3. /\ UNCHANGED <<doc, wk, apivars>>
        /\ jobs' = [jobs EXCEPT ![k].lease = "none"]
        /\ \A w \in Workers : wk[w].job = k => wk[w].pc # "claim"
    BY <1>5, <2>1 DEF LeaseExpires, wkvars
  <2>4. \A j \in Jobs : jobs'[j].status = jobs[j].status /\ (j # k => jobs'[j] = jobs[j])
    BY <2>2, <2>3 DEF JobRows
  <2>5. \A w \in Workers : wk[w].pc = "claim" => wk[w].job \in Jobs
    BY AtWork
  <2>. QED
    BY <1>3, <2>3, <2>4, <2>5
<1>6. CASE UNCHANGED vars
  <2>1. UNCHANGED <<doc, jobs, wk, apivars>>
    BY <1>6 DEF vars, store, wkvars
  <2>. QED
    BY <1>3, <2>1
<1>. QED
  BY <1>1, <1>2, <1>4, <1>5, <1>6 DEF Next

LEMMA RankedInit ==
    ASSUME Init
    PROVE  Ranked
<1>1. PICK a \in Scenarios : StoreInit(a.start)
  BY DEF Init
<1>2. doc.status = a.start /\ a.start \in {"upload_pending", "mapped", "drafted"}
  BY <1>1, PipelineBounds DEF StoreInit, Begun
<1>. DEFINE done(j) == \/ j \in {"parse", "map"} /\ a.start # "upload_pending"
                       \/ j = "draft" /\ a.start = "drafted"
<1>3. \A j \in Jobs : jobs[j].status = IF done(j) THEN "succeeded" ELSE "none"
  BY <1>1 DEF StoreInit, NoJob
<1>4. Here = IF a.start = "upload_pending" THEN 0 ELSE IF a.start = "mapped" THEN 3 ELSE 5
  BY <1>2 DEF Here, Rank
<1>5. Home("parse") = 1 /\ Home("map") = 2 /\ Home("draft") = 4 /\ {"parse", "map"} \subseteq Jobs
  BY DEF Home, Jobs
<1>6. RankStore
  BY <1>2, <1>3, <1>4, <1>5 DEF RankStore, EarlyStatus
<1>7. \A w \in Workers : wk[w].pc = "idle"
  BY DEF Init, NoWork
<1>8. \A w \in Workers : RankWork(w)
  BY <1>7 DEF RankWork, ChainPcs, WorkingPcs
<1>9. \A c \in Callers : call[c].pc = "idle"
  BY DEF Init, NoCall
<1>10. \A c \in Callers : RankCall(c)
  BY <1>9 DEF RankCall, Putting
<1>. QED
  BY <1>6, <1>8, <1>10 DEF Ranked

LEMMA RankedSpec ==
    ASSUME Calm
    PROVE  Spec => [](IInv /\ LeaseInv /\ Handed /\ Ranked)
<1>1. Init => Ranked
  BY RankedInit
<1>2. IInv /\ LeaseInv /\ Handed /\ Ranked /\ [Next]_vars => Ranked'
  BY RankedNext
<1>3. Spec => []IInv
  BY Invariant
<1>4. Spec => [](LeaseInv /\ Handed)
  BY CalmSpec
<1>. QED
  BY <1>1, <1>2, <1>3, <1>4, PTL DEF Spec

-----------------------------------------------------------------------------
(* Rows keep to the stages *)

(* What humans write comes after what the model proposes, and a mapped      *)
(* document has the mappings of its sections.                               *)
RowsStore ==
    /\ Here < 3 => \A s \in Sections : ~ByHuman(maps[s])
    /\ Here < 5 => \A s \in Sections : ~ByHuman(drafts[s])
    /\ Here >= 3 => \A s \in CurrentSections : maps[s] # NoRow

RowsWork(w) ==
    wk[w].job = "map" =>
        /\ wk[w].pc \notin {"approved", "store"}
        /\ wk[w].pc = "rows" => \A s \in CurrentSections \ wk[w].todo : maps[s] # NoRow
        /\ wk[w].pc = "commit" => \A s \in CurrentSections : maps[s] # NoRow

RowsFollow == RowsStore /\ \A w \in Workers : RowsWork(w)

(* Which rows w writes, and when. *)
LEMMA RowWorker ==
    ASSUME IInv, Ranked, NEW w \in Workers, WorkerMoves(w)
    PROVE  /\ sec' = sec \/ (Here = 1 /\ UNCHANGED <<doc, maps, drafts>>)
           /\ \A s \in Sections :
                /\ maps'[s] = maps[s] \/ (Here = 2 /\ maps'[s].status = "proposed")
                /\ drafts'[s] = drafts[s] \/ (Here = 4 /\ drafts'[s].status = "proposed")
<1>1. UNCHANGED rows \/ PutRow(w)
  BY DEF WorkerMoves, WorkerStep, Receive, ReadJob, ReadDoc, Settle, Claim, Refuse, Begin, List,
     ListApproved, StoreFile, Commit, UndoDoc, Close, FailJob, ChainRead, ChainPut, ChainSend, Ack,
     Fail, Die, store
<1>2. CASE PutRow(w)
  <2>1. wk[w].pc = "rows" /\ wk[w].job \in {"parse", "map", "draft"} /\ Here = Home(wk[w].job) /\ UNCHANGED doc
    BY <1>2, AtWork DEF PutRow, WorkOK, Ranked, RankWork, WorkingPcs
  <2>. DEFINE proposed == [status |-> "proposed", text |-> "model"]
  <2>2. PICK s \in wk[w].todo :
           \/ wk[w].job = "parse" /\ UNCHANGED <<maps, drafts>>
           \/ wk[w].job = "map" /\ maps' = [maps EXCEPT ![s] = proposed] /\ UNCHANGED <<sec, drafts>>
           \/ wk[w].job = "draft" /\ drafts' = [drafts EXCEPT ![s] = proposed] /\ UNCHANGED <<sec, maps>>
    BY <1>2, <2>1 DEF PutRow
  <2>3. maps \in [Sections -> Rows] /\ drafts \in [Sections -> Rows] /\ proposed.status = "proposed"
    BY DEF IInv, StoreOK
  <2>. HIDE DEF proposed
  <2>4. Here = CASE wk[w].job = "parse" -> 1 [] wk[w].job = "map" -> 2 [] wk[w].job = "draft" -> 4
    BY <2>1 DEF Home
  <2>5. CASE wk[w].job = "parse" /\ UNCHANGED <<maps, drafts>>
    BY <2>1, <2>4, <2>5
  <2>6. CASE wk[w].job = "map" /\ maps' = [maps EXCEPT ![s] = proposed] /\ UNCHANGED <<sec, drafts>>
    BY <2>3, <2>4, <2>6
  <2>7. CASE wk[w].job = "draft" /\ drafts' = [drafts EXCEPT ![s] = proposed] /\ UNCHANGED <<sec, maps>>
    BY <2>3, <2>4, <2>7
  <2>. QED
    BY <2>2, <2>5, <2>6, <2>7
<1>3. CASE UNCHANGED rows
  BY <1>3 DEF rows
<1>. QED
  BY <1>1, <1>2, <1>3

(* Which rows a request writes, and when. *)
LEMMA RowCaller ==
    ASSUME IInv, Ranked, NEW c \in Callers, CallerMoves(c)
    PROVE  /\ sec' = sec
           /\ \A s \in Sections :
                /\ maps'[s] = maps[s] \/ (Here >= 3 /\ ByHuman(maps'[s]))
                /\ drafts'[s] = drafts[s] \/ (Here = 5 /\ ByHuman(drafts'[s]))
<1>1. UNCHANGED rows \/ PutMapping(c) \/ PutDraft(c)
  BY DEF CallerMoves, CallStep, NewCall, ReadDocument, ReadRow, ListRows, PutDocument, ReadLatest,
     ReadDraftJob, PutNewJob, SendMessage, RestoreDocument, FailNewJob, EnqueueFails, CallDies, store
<1>2. maps \in [Sections -> Rows] /\ drafts \in [Sections -> Rows] /\ RankCall(c)
  BY DEF IInv, StoreOK, Ranked
<1>3. \A s : ByHuman(Approve(c, s)) /\ ByHuman(Edit(c))
  BY DEF ByHuman, Approve, Edit
<1>4. CASE PutMapping(c)
  <2>1. /\ call[c].pc = "put" /\ call[c].op \in {"edit_mapping", "approve_mappings"}
        /\ UNCHANGED <<sec, drafts>>
        /\ \E s : maps' = [maps EXCEPT ![s] = Edit(c)] \/ maps' = [maps EXCEPT ![s] = Approve(c, s)]
    BY <1>4 DEF PutMapping, At
  <2>2. Here >= 3
    BY <1>2, <2>1 DEF RankCall
  <2>3. ASSUME NEW s, NEW t \in Sections,
               maps' = [maps EXCEPT ![s] = Edit(c)] \/ maps' = [maps EXCEPT ![s] = Approve(c, s)]
        PROVE  maps'[t] \in {maps[t], Edit(c), Approve(c, s)}
    BY <1>2, <2>3
  <2>. QED
    BY <1>3, <2>1, <2>2, <2>3
<1>5. CASE PutDraft(c)
  <2>1. /\ call[c].pc = "put" /\ call[c].op \in {"edit_draft", "approve_draft"}
        /\ UNCHANGED <<sec, maps>>
        /\ \E s : drafts' = [drafts EXCEPT ![s] = Edit(c)] \/ drafts' = [drafts EXCEPT ![s] = Approve(c, s)]
    BY <1>5 DEF PutDraft, At
  <2>2. Here = 5
    BY <1>2, <2>1 DEF RankCall
  <2>3. ASSUME NEW s, NEW t \in Sections,
               drafts' = [drafts EXCEPT ![s] = Edit(c)] \/ drafts' = [drafts EXCEPT ![s] = Approve(c, s)]
        PROVE  drafts'[t] \in {drafts[t], Edit(c), Approve(c, s)}
    BY <1>2, <2>3
  <2>. QED
    BY <1>3, <2>1, <2>2, <2>3
<1>6. CASE UNCHANGED rows
  BY <1>6 DEF rows
<1>. QED
  BY <1>1, <1>4, <1>5, <1>6

(* Rows and stages in any step. *)
LEMMA RowSteps ==
    ASSUME Calm, IInv, LeaseInv, Handed, Ranked, [Next]_vars
    PROVE  /\ sec' = sec \/ (Here = 1 /\ Here' = 1)
           /\ \A s \in Sections :
                /\ \/ maps'[s] = maps[s]
                   \/ Here = 2 /\ maps'[s].status = "proposed"
                   \/ Here >= 3 /\ ByHuman(maps'[s])
                /\ \/ drafts'[s] = drafts[s]
                   \/ Here = 4 /\ drafts'[s].status = "proposed"
                   \/ Here = 5 /\ ByHuman(drafts'[s])
           /\ Here \in 0..5 /\ Here' \in 0..5 /\ Here' >= Here
           /\ Here < 3 /\ Here' >= 3 =>
                \E w \in Workers : wk[w].job = "map" /\ wk[w].pc = "commit"
<1>1. Here \in 0..5 /\ Here' \in 0..5
  BY HereRank, Ranks DEF Here
<1>2. ASSUME NEW w \in Workers, WorkerMoves(w)
      PROVE  Here' >= Here /\ (Here < 3 /\ Here' >= 3 => wk[w].job = "map" /\ wk[w].pc = "commit")
  <2>1. \/ Here' = Here
        \/ Commit(w) /\ wk[w].job \notin Exports /\ Here = Home(wk[w].job) /\ Here' = Here + 1
    BY <1>2, WorkerHere
  <2>2. CASE Here' = Here
    BY <1>1, <2>2
  <2>3. CASE Commit(w) /\ wk[w].job \notin Exports /\ Here = Home(wk[w].job) /\ Here' = Here + 1
    <3>1. wk[w].pc = "commit" /\ wk[w].job \in Jobs
      BY <2>3, AtWork DEF Commit
    <3>2. Here = 2 => wk[w].job = "map"
      BY <2>3, <3>1 DEF Jobs, Home
    <3>. QED
      BY <1>1, <2>3, <3>1, <3>2
  <2>. QED
    BY <2>1, <2>2, <2>3
<1>3. ASSUME NEW c \in Callers, CallerMoves(c)
      PROVE  Here' >= Here /\ (Here < 3 => Here' < 3)
  <2>1. UNCHANGED doc \/ (PutDocument(c) /\ doc.status \in Expected(c))
    <3>1. HandCall(c)
      BY DEF Handed
    <3>. QED
      BY <1>3, <3>1 DEF CallerMoves, CallStep, NewCall, ReadDocument, ReadRow, ListRows, PutMapping,
         PutDraft, PutDocument, ReadLatest, ReadDraftJob, PutNewJob, SendMessage, RestoreDocument,
         FailNewJob, EnqueueFails, CallDies, HandCall, store
  <2>2. CASE UNCHANGED doc
    BY <1>1, <2>2 DEF Here
  <2>3. CASE PutDocument(c) /\ doc.status \in Expected(c)
    BY <2>3, CallerHere
  <2>. QED
    BY <2>1, <2>2, <2>3
<1>4. CASE \E w \in Workers : WorkerMoves(w)
  <2>1. PICK w \in Workers : WorkerMoves(w)
    BY <1>4
  <2>2. UNCHANGED doc => Here' = Here
    BY DEF Here
  <2>. QED
    BY <1>1, <1>2, <2>1, <2>2, RowWorker
<1>5. CASE \E c \in Callers : CallerMoves(c)
  <2>1. PICK c \in Callers : CallerMoves(c)
    BY <1>5
  <2>. QED
    BY <1>1, <1>3, <2>1, RowCaller
<1>6. CASE \/ (\E m \in Messages : Reappear(m) \/ Duplicate(m)) \/ (\E j \in Jobs : LeaseExpires(j))
           \/ UNCHANGED vars
  <2>1. UNCHANGED <<doc, rows>>
    BY <1>6 DEF Reappear, Duplicate, LeaseExpires, store, vars
  <2>2. Here' = Here
    BY <2>1 DEF Here
  <2>. QED
    BY <1>1, <2>1, <2>2 DEF rows
<1>. QED
  BY <1>4, <1>5, <1>6 DEF Next

LEMMA NotNoRow ==
    \A r : r.status = "proposed" \/ ByHuman(r) => r # NoRow
BY DEF NoRow, ByHuman

LEMMA CurrentAreSections ==
    ASSUME IInv
    PROVE  CurrentSections \subseteq Sections
<1>1. sec \in [Orders -> 0..MaxParses]
  BY DEF IInv, StoreOK
<1>2. \A o \in Orders : sec[o] # 0 => sec[o] \in 1..MaxParses
  BY <1>1, PipelineConstants
<1>. QED
  BY <1>2 DEF CurrentSections, Sections

(* How w comes to write mappings. *)
LEMMA RowsOwn ==
    ASSUME IInv, LeaseInv, Handed, Ranked, RowsFollow, NEW w \in Workers, WorkerMoves(w)
    PROVE  RowsWork(w)'
<1>. DEFINE j == wk[w].job
<1>1. RowsWork(w) /\ HandStore /\ maps \in [Sections -> Rows]
  BY DEF RowsFollow, Handed, IInv, StoreOK
<1>2. wk[w].pc # "idle" => j \in Jobs
  BY AtWork
<1>3. ASSUME wk'[w].pc \notin {"approved", "store", "rows", "commit"} \/ wk'[w].job # "map"
      PROVE  RowsWork(w)'
  BY <1>3 DEF RowsWork
<1>4. ASSUME NEW d, NEW todo, Write(w, d, todo), UNCHANGED sec,
             j = "map" => \A s \in CurrentSections \ todo : maps'[s] # NoRow
      PROVE  RowsWork(w)'
  <2>1. Became(w, IF todo = {} THEN "commit" ELSE "rows",
               IF todo = {} THEN Done(Kind(j), d) ELSE d, todo, wk[w].texts)
    BY <1>4, WritesTo
  <2>2. wk'[w].pc = (IF todo = {} THEN "commit" ELSE "rows") /\ wk'[w].job = j /\ wk'[w].todo = todo
    BY <2>1 DEF Became
  <2>3. CurrentSections' = CurrentSections
    BY <1>4 DEF CurrentSections
  <2>. QED
    BY <1>4, <2>2, <2>3 DEF RowsWork
<1>5. ASSUME NEW l, Goto(w, l), l \notin {"approved", "store", "rows", "commit"}
      PROVE  RowsWork(w)'
  BY <1>3, <1>5, GoesTo DEF Became
<1>6. CASE \E m \in Messages : Receive(w, m)
  <2>1. PICK m \in Messages : wk'[w] = [NoWork EXCEPT !.pc = "job", !.msg = m, !.job = msgs[m].job]
    BY <1>6, Reading
  <2>2. wk'[w].pc = "job"
    BY <2>1 DEF NoWork
  <2>. QED
    BY <1>3, <2>2
<1>7. CASE ReadJob(w)
  <2>1. wk'[w].pc = "doc"
    BY <1>7, Reading DEF Became
  <2>. QED
    BY <1>3, <2>1
<1>8. CASE ReadDoc(w)
  <2>1. \E l \in {"chain", "ack", "settle", "claim"} : Became(w, l, doc, wk[w].todo, wk[w].texts)
    BY <1>8, Reading
  <2>. QED
    BY <1>3, <2>1 DEF Became
<1>9. CASE Begin(w)
  <2>1. wk[w].pc = "begin" /\ UNCHANGED rows
    BY <1>9 DEF Begin
  <2>2. \/ /\ Kind(j) = "parse"
           /\ Write(w, Doing(Kind(j), wk[w].doc), Orders \X {parses'})
        \/ Became(w, "list", Doing(Kind(j), wk[w].doc), wk[w].todo, wk[w].texts)
    BY <1>9, Working
  <2>3. Kind(j) = "parse" => j # "map"
    BY <1>2, <2>1, Kinds
  <2>4. Became(w, "list", Doing(Kind(j), wk[w].doc), wk[w].todo, wk[w].texts) => wk'[w].pc = "list"
    BY DEF Became
  <2>. QED
    BY <1>3, <1>4, <2>1, <2>2, <2>3, <2>4 DEF rows
<1>10. CASE List(w)
  <2>1. wk[w].pc = "list" /\ UNCHANGED rows
    BY <1>10 DEF List, store
  <2>2. \/ Write(w, wk[w].doc, CurrentSections)
        \/ /\ Kind(j) \in {"draft", "export"}
           /\ \E l \in {"approved", "store"} : \E todo, texts : Became(w, l, wk[w].doc, todo, texts)
        \/ Goto(w, "undo")
    BY <1>10, Working
  <2>3. Kind(j) \in {"draft", "export"} => j # "map"
    BY <1>2, <2>1, Kinds, PipelineConstants DEF Kind
  <2>4. \A l, todo, texts : Became(w, l, wk[w].doc, todo, texts) => wk'[w].job = j
    BY DEF Became
  <2>. QED
    BY <1>3, <1>4, <1>5, <2>1, <2>2, <2>3, <2>4 DEF rows
<1>11. CASE ListApproved(w) \/ StoreFile(w)
  <2>1. wk[w].pc \in {"approved", "store"} /\ UNCHANGED rows /\ \E d, todo : Write(w, d, todo)
    BY <1>11 DEF ListApproved, StoreFile, store
  <2>2. j # "map"
    BY <1>1, <2>1 DEF RowsWork
  <2>. QED
    BY <1>4, <2>1, <2>2 DEF rows
<1>12. CASE PutRow(w)
  <2>1. wk[w].pc = "rows"
    BY <1>12 DEF PutRow
  <2>2. CASE j = "map"
    <3>. DEFINE proposed == [status |-> "proposed", text |-> "model"]
    <3>1. PICK s \in wk[w].todo : /\ maps' = [maps EXCEPT ![s] = proposed] /\ UNCHANGED sec
                                  /\ Write(w, wk[w].doc, wk[w].todo \ {s})
      BY <1>12, <2>2 DEF PutRow
    <3>2. proposed # NoRow
      BY DEF NoRow
    <3>. HIDE DEF proposed
    <3>3. \A t \in CurrentSections \ wk[w].todo : maps[t] # NoRow
      BY <1>1, <2>1, <2>2 DEF RowsWork
    <3>4. \A t \in CurrentSections \ (wk[w].todo \ {s}) : maps'[t] # NoRow
      BY <1>1, <3>1, <3>2, <3>3, CurrentAreSections
    <3>. QED
      BY <1>4, <3>1, <3>4
  <2>3. CASE j # "map"
    <3>1. wk'[w].job = j
      BY <2>1, WorkerOnly, <1>12, WritesTo DEF PutRow, Became
    <3>. QED
      BY <1>3, <2>3, <3>1
  <2>. QED
    BY <2>2, <2>3
<1>13. CASE Settle(w) \/ Claim(w) \/ Refuse(w) \/ Commit(w) \/ Close(w) \/ UndoDoc(w) \/ ChainRead(w)
            \/ ChainPut(w) \/ ChainSend(w)
  <2>1. \E l \in {"chain", "ack", "refuse", "list", "begin", "close", "failjob", "chainput", "chainsend"} :
           Goto(w, l)
    BY <1>13 DEF Settle, Claim, Refuse, Commit, Close, UndoDoc, ChainRead, ChainPut, ChainSend
  <2>. QED
    BY <1>5, <2>1
<1>14. CASE FailJob(w) \/ Ack(w) \/ Die(w)
  <2>1. wk' = [wk EXCEPT ![w] = NoWork] \/ Goto(w, "ack")
    BY <1>14 DEF FailJob, Ack, Die
  <2>2. wk'[w].pc \in {"idle", "ack"}
    BY <2>1, GoesTo DEF Became, NoWork, IInv, WorkersOK
  <2>. QED
    BY <1>3, <2>2
<1>15. ~Fail(w)
  BY <1>1 DEF HandStore, Fail
<1>. QED
  BY <1>6, <1>7, <1>8, <1>9, <1>10, <1>11, <1>12, <1>13, <1>14, <1>15 DEF WorkerMoves, WorkerStep

LEMMA RowsNext ==
    ASSUME Calm, IInv, LeaseInv, Handed, Ranked, RowsFollow, [Next]_vars
    PROVE  RowsFollow'
<1>1. RowsStore /\ CurrentSections \subseteq Sections
  BY CurrentAreSections DEF RowsFollow
<1>2. Here \in 0..5 /\ Here' \in 0..5 /\ Here' >= Here
  BY RowSteps
<1>3. sec' = sec => CurrentSections' = CurrentSections
  BY DEF CurrentSections
<1>4. \A s \in Sections : maps[s] # NoRow => maps'[s] # NoRow
  BY RowSteps, NotNoRow
<1>5. Here' < 3 => \A s \in Sections : ~ByHuman(maps'[s])
  <2>1. SUFFICES ASSUME Here' < 3, NEW s \in Sections PROVE ~ByHuman(maps'[s])
    OBVIOUS
  <2>2. Here < 3 /\ ~(Here >= 3)
    BY <1>2, <2>1
  <2>3. maps'[s] = maps[s] \/ maps'[s].status = "proposed"
    BY <2>2, RowSteps
  <2>. QED
    BY <1>1, <2>2, <2>3 DEF RowsStore, ByHuman
<1>6. Here' < 5 => \A s \in Sections : ~ByHuman(drafts'[s])
  <2>1. SUFFICES ASSUME Here' < 5, NEW s \in Sections PROVE ~ByHuman(drafts'[s])
    OBVIOUS
  <2>2. Here < 5 /\ Here # 5
    BY <1>2, <2>1
  <2>3. drafts'[s] = drafts[s] \/ drafts'[s].status = "proposed"
    BY <2>2, RowSteps
  <2>. QED
    BY <1>1, <2>2, <2>3 DEF RowsStore, ByHuman
<1>7. Here' >= 3 => \A s \in CurrentSections' : maps'[s] # NoRow
  <2>1. SUFFICES ASSUME Here' >= 3, NEW s \in CurrentSections PROVE maps'[s] # NoRow
    <3>1. Here' >= 3 => sec' = sec
      BY RowSteps
    <3>. QED
      BY <1>3, <2>1, <3>1
  <2>2. CASE Here >= 3
    BY <1>1, <1>4, <2>2 DEF RowsStore
  <2>3. CASE ~(Here >= 3)
    <3>1. Here < 3
      BY <1>2, <2>3
    <3>2. PICK w \in Workers : wk[w].job = "map" /\ wk[w].pc = "commit"
      BY <2>1, <3>1, RowSteps
    <3>3. maps[s] # NoRow
      BY <3>2 DEF RowsFollow, RowsWork
    <3>. QED
      BY <1>1, <1>4, <3>3
  <2>. QED
    BY <2>2, <2>3
<1>8. ASSUME NEW v \in Workers, wk'[v] = wk[v] PROVE RowsWork(v)'
  <2>1. RowsWork(v)
    BY DEF RowsFollow
  <2>2. wk[v].job = "map" /\ wk[v].pc \in {"rows", "commit"} => sec' = sec
    <3>1. SUFFICES ASSUME wk[v].job = "map", wk[v].pc \in {"rows", "commit"} PROVE sec' = sec
      OBVIOUS
    <3>2. Here = 2
      BY <3>1 DEF Ranked, RankWork, WorkingPcs, Home
    <3>. QED
      BY <3>2, RowSteps
  <2>3. \A s \in CurrentSections : maps[s] # NoRow => maps'[s] # NoRow
    BY <1>1, <1>4
  <2>. QED
    BY <1>3, <1>8, <2>1, <2>2, <2>3 DEF RowsWork
<1>9. \A w \in Workers : RowsWork(w)'
  <2>1. CASE \E w \in Workers : WorkerMoves(w)
    <3>1. PICK w \in Workers : WorkerMoves(w)
      BY <2>1
    <3>2. RowsWork(w)'
      BY <3>1, RowsOwn
    <3>3. \A v \in Workers \ {w} : wk'[v] = wk[v]
      BY <3>1, WorkerOnly
    <3>. QED
      BY <1>8, <3>2, <3>3
  <2>2. CASE wk' = wk
    BY <1>8, <2>2
  <2>3. (\E w \in Workers : WorkerMoves(w)) \/ wk' = wk
    <3>1. ASSUME NEW c \in Callers, CallerMoves(c) PROVE wk' = wk
      BY <3>1, CallerLeavesWork DEF wkvars
    <3>2. \A m \in Messages : Reappear(m) \/ Duplicate(m) => wk' = wk
      BY DEF Reappear, Duplicate, wkvars
    <3>3. \A j \in Jobs : LeaseExpires(j) => wk' = wk
      BY DEF LeaseExpires, wkvars
    <3>4. UNCHANGED vars => wk' = wk
      BY DEF vars, wkvars
    <3>. QED
      BY <3>1, <3>2, <3>3, <3>4 DEF Next
  <2>. QED
    BY <2>1, <2>2, <2>3
<1>. QED
  BY <1>5, <1>6, <1>7, <1>9 DEF RowsFollow, RowsStore

LEMMA RowsInit ==
    ASSUME Init
    PROVE  RowsFollow
<1>1. PICK a \in Scenarios : StoreInit(a.start)
  BY DEF Init
<1>2. doc.status = a.start /\ a.start \in {"upload_pending", "mapped", "drafted"}
  BY <1>1, PipelineBounds DEF StoreInit, Begun
<1>3. Here = IF a.start = "upload_pending" THEN 0 ELSE IF a.start = "mapped" THEN 3 ELSE 5
  BY <1>2 DEF Here, Rank
<1>4. \A s \in Sections : /\ FirstRows[s].status \in {"absent", "proposed"}
                          /\ s[2] = 1 => FirstRows[s].status = "proposed"
                          /\ NoRows[s] = NoRow /\ NoRow.status = "absent"
  BY DEF FirstRows, NoRows, NoRow
<1>5. drafts = IF a.start = "drafted" THEN FirstRows ELSE NoRows
  BY <1>1 DEF StoreInit
<1>6. maps = IF a.start = "mapped" THEN FirstRows
             ELSE IF a.start # "upload_pending" THEN Reviewed(FirstRows, "approved") ELSE NoRows
  BY <1>1 DEF StoreInit
<1>7. Here < 3 => \A s \in Sections : ~ByHuman(maps[s])
  BY <1>2, <1>3, <1>4, <1>6 DEF ByHuman
<1>8. Here < 5 => \A s \in Sections : ~ByHuman(drafts[s])
  BY <1>2, <1>3, <1>4, <1>5 DEF ByHuman
<1>9. Here >= 3 => \A s \in CurrentSections : maps[s] # NoRow
  <2>1. SUFFICES ASSUME Here >= 3, NEW s \in CurrentSections PROVE maps[s] # NoRow
    OBVIOUS
  <2>2. a.start # "upload_pending"
    BY <1>3, <2>1
  <2>3. sec = [o \in Orders |-> 1]
    BY <1>1, <2>2 DEF StoreInit
  <2>4. s \in Sections /\ s[2] = 1
    BY <2>3, PipelineConstants DEF CurrentSections, Sections
  <2>5. FirstRows[s].status = "proposed"
    BY <1>4, <2>4
  <2>6. CASE a.start = "mapped"
    BY <1>6, <2>5, <2>6, NotNoRow
  <2>7. CASE a.start = "drafted"
    <3>1. FirstRows[s] # NoRow
      BY <2>5, NotNoRow
    <3>2. maps[s] = [FirstRows[s] EXCEPT !.status = "approved"]
      BY <1>6, <2>4, <2>7, <3>1 DEF Reviewed
    <3>3. [FirstRows[s] EXCEPT !.status = "approved"].status = "approved"
      BY <2>4 DEF FirstRows
    <3>. QED
      BY <3>2, <3>3 DEF NoRow
  <2>. QED
    BY <1>2, <2>2, <2>6, <2>7
<1>10. \A w \in Workers : RowsWork(w)
  BY DEF Init, NoWork, RowsWork
<1>. QED
  BY <1>7, <1>8, <1>9, <1>10 DEF RowsFollow, RowsStore

LEMMA RowsSpec ==
    ASSUME Calm
    PROVE  Spec => []RowsFollow
<1>1. Init => RowsFollow
  BY RowsInit
<1>2. (IInv /\ LeaseInv /\ Handed /\ Ranked) /\ RowsFollow /\ [Next]_vars => RowsFollow'
  BY RowsNext
<1>3. Spec => [](IInv /\ LeaseInv /\ Handed /\ Ranked)
  BY RankedSpec
<1>. QED
  BY <1>1, <1>2, <1>3, PTL DEF Spec

(* As long as no call fails and messages are not duplicated, the mappings   *)
(* under review and those drafted from are mappings of the sections the     *)
(* document has: nothing is parsed again once mapping has begun.            *)
THEOREM MappedSections == Calm => (Spec => []MapsFollowSections)
<1>. SUFFICES ASSUME Calm PROVE Spec => []MapsFollowSections
  OBVIOUS
<1>1. RowsFollow => MapsFollowSections
  <2>1. doc.status \in {"mapped", "mapping_approved", "drafting", "drafted"} => Here >= 3
    BY DEF Here, Rank
  <2>. QED
    BY <2>1 DEF RowsFollow, RowsStore, MapsFollowSections
<1>. QED
  BY <1>1, RowsSpec, PTL

(* Then, too, no proposal of the model is ever written over what a human    *)
(* edited or approved, whichever invocations die on the way: a stage's job  *)
(* writes its rows before the stage at which humans can.                    *)
THEOREM HumansHaveTheLastWord == Calm => (Spec => HumanWins)
<1>. SUFFICES ASSUME Calm PROVE Spec => HumanWins
  OBVIOUS
<1>1. ASSUME IInv, LeaseInv, Handed, Ranked, RowsFollow, [Next]_vars
      PROVE  \A s \in Sections : /\ ByHuman(maps[s]) => ByHuman(maps'[s])
                                 /\ ByHuman(drafts[s]) => ByHuman(drafts'[s])
  <2>1. Here \in 0..5 /\ RowsStore
    BY <1>1, HereRank DEF RowsFollow
  <2>. QED
    BY <1>1, <2>1, RowSteps DEF RowsStore
<1>2. (IInv /\ LeaseInv /\ Handed /\ Ranked) /\ RowsFollow /\ [Next]_vars =>
        [\A s \in Sections : /\ ByHuman(maps[s]) => ByHuman(maps'[s])
                             /\ ByHuman(drafts[s]) => ByHuman(drafts'[s])]_vars
  BY <1>1
<1>3. Spec => [](IInv /\ LeaseInv /\ Handed /\ Ranked)
  BY RankedSpec
<1>. QED
  BY <1>2, <1>3, RowsSpec, PTL DEF Spec, HumanWins

=============================================================================
