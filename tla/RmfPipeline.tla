---------------------------- MODULE RmfPipeline ----------------------------
(***************************************************************************)
(* One document of the RMF migrator from upload to export: API requests,   *)
(* the queue and the worker over the shared rows.  Documents do not        *)
(* interact, so one document is the whole story.                           *)
(***************************************************************************)
EXTENDS RmfApi

(* A scenario: how far a clean run has got, and how often invocations die,  *)
(* calls raise, messages are duplicated and requests are made or fail.      *)
CONSTANT Scenarios

ASSUME PipelineBounds ==
    /\ Scenarios \subseteq [start : Begun, deaths : Nat, errors : Nat, dups : Nat,
                            calls : Nat, apiFaults : Nat]
    /\ Ops \subseteq AllOps
    /\ EarlyRedelivery \in BOOLEAN

vars == <<store, trace, msgs, wkvars, apivars>>

Init ==
    /\ \E a \in Scenarios :
         /\ StoreInit(a.start)
         /\ deaths = a.deaths
         /\ errors = a.errors
         /\ dups = a.dups
         /\ calls = a.calls
         /\ apiFaults = a.apiFaults
    /\ wk = [w \in Workers |-> NoWork]
    /\ call = [c \in Callers |-> NoCall]

WorkerMoves(w) ==
    WorkerStep(w) \/ Fail(w) \/ Die(w) \/ \E m \in Messages : Receive(w, m)

CallerMoves(c) == NewCall(c) \/ CallStep(c) \/ EnqueueFails(c) \/ CallDies(c)

Next ==
    \/ (\E w \in Workers : WorkerMoves(w)) /\ UNCHANGED apivars
    \/ (\E m \in Messages : Reappear(m) \/ Duplicate(m)) /\ UNCHANGED apivars
    \/ (\E j \in Jobs : LeaseExpires(j)) /\ UNCHANGED apivars
    \/ \E c \in Callers : CallerMoves(c)

Spec == Init /\ [][Next]_vars

(* The poller delivers, time passes, and an invocation or a request that    *)
(* started runs on unless it dies.  Nobody has to make a request.           *)
Fairness ==
    /\ WF_vars(\E w \in Workers, m \in Messages : Receive(w, m) /\ UNCHANGED apivars)
    /\ \A w \in Workers : WF_vars(WorkerStep(w) /\ UNCHANGED apivars)
    /\ \A m \in Messages : WF_vars(Reappear(m) /\ UNCHANGED apivars)
    /\ \A j \in Jobs : WF_vars(LeaseExpires(j) /\ UNCHANGED apivars)
    /\ \A c \in Callers : WF_vars(CallStep(c))

FairSpec == Spec /\ Fairness

-----------------------------------------------------------------------------
(* Properties *)

(* Somebody works on the document, or a message will make somebody. *)
Busy == \/ \E m \in Messages : msgs[m].state \in {"visible", "inflight"}
        \/ \E w \in Workers : wk[w] # NoWork
        \/ \E c \in Callers : call[c] # NoCall

(* Every variable has its type. *)
TypeOK ==
    /\ doc \in Documents
    /\ jobs \in [Jobs -> JobRows]
    /\ msgs \in [Messages -> Queued]
    /\ sec \in [Orders -> 0..MaxParses]
    /\ maps \in [Sections -> Rows]
    /\ drafts \in [Sections -> Rows]
    /\ file \subseteq Sections \X Texts
    /\ parses \in 0..MaxParses
    /\ signed \subseteq Sections \X Texts
    /\ \A w \in Workers :
         /\ wk[w].pc \in WorkerPcs
         /\ wk[w].msg \in Messages \cup {"none"}
         /\ wk[w].job \in Jobs \cup {"none"}
         /\ wk[w].doc \in Documents
         /\ wk[w].todo \subseteq Sections
         /\ wk[w].texts \subseteq Sections \X Texts
    /\ \A c \in Callers :
         /\ call[c].pc \in CallPcs
         /\ call[c].doc \in Documents
         /\ call[c].copy \in [Sections -> Rows]
         /\ call[c].todo \subseteq Sections

InProgress == {"parsing", "parsed", "mapping", "drafting", "exporting"}

(* A document in a status only a worker can end is never forgotten: a       *)
(* message, an invocation or a request is left to carry it on.  This rests  *)
(* on redelivery, on the takeover of stale leases in _claim_job and on the  *)
(* second handoff of a parse that was committed and not chained.            *)
NeverStranded == doc.status \in InProgress => Busy

(* The same as progress: such a document comes to rest in a status a human  *)
(* acts on, or in failed.                                                   *)
PipelineSettles == doc.status \in InProgress ~> doc.status \notin InProgress

(* No two invocations are past the claim of the same job at once: the       *)
(* conditional update of _claim_job and its 15-minute lease exclude them,   *)
(* although messages are redelivered and handoffs repeated.                 *)
OneClaimant ==
    \A j \in Jobs, v, w \in Workers : Holds(v, j) /\ Holds(w, j) => v = w

ByHuman(r) == r.status \in {"edited", "approved"}

(* A mapping or draft a human has edited or approved never becomes the      *)
(* model's proposal again: no late or repeated job writes over it.          *)
HumanWins ==
    [][\A s \in Sections :
          /\ ByHuman(maps[s]) => ByHuman(maps'[s])
          /\ ByHuman(drafts[s]) => ByHuman(drafts'[s])]_vars

(* A draft text some human wrote is replaced only by what a human wrote:    *)
(* approving freezes the effective text and does not bring the model's back.*)
EditIsKept ==
    [][\A s \in Sections : drafts[s].text \in Callers => drafts'[s].text \in Callers]_vars

(* review_approved means that every generated draft is approved, as         *)
(* _approve_draft checks and _update_draft revokes.                         *)
ReviewedIsApproved == doc.status = "review_approved" => AllApproved(drafts)

(* Nothing reaches the exported file that no human approved in that very    *)
(* wording: the drafts are listed again and checked by run_export_job.      *)
ExportIsSigned == file \subseteq signed

(* While a document is exported, the downloadable file is what its drafts   *)
(* say: an edit revokes the export, and no late exporter restores it.       *)
ExportIsCurrent ==
    doc.status = "exported" =>
        file = {<<s, drafts[s].text>> : s \in Listed(drafts)} /\ AllApproved(drafts)

(* The mappings under review, and those drafted from, are mappings of the   *)
(* sections the document has now: no re-parse replaces the sections of a    *)
(* document that is being mapped.                                           *)
MapsFollowSections ==
    doc.status \in {"mapped", "mapping_approved", "drafting", "drafted"} =>
        \A s \in CurrentSections : maps[s] # NoRow

(* A document at rest in mapped passes the completeness check of            *)
(* _approve_mappings, or nobody could ever take it further.                 *)
MappedCanBeApproved ==
    doc.status = "mapped" /\ ~Busy => Cardinality(Listed(maps)) = doc.count

(* When drafting is done every section has a draft: all its mappings were   *)
(* approved when the drafter listed them.                                   *)
EverySectionDrafted ==
    doc.status = "drafted" => \A s \in CurrentSections : drafts[s] # NoRow

Behind == {"upload_pending", "uploaded", "parsing", "parsed", "mapping", "mapped"}

(* Once the mappings are approved no stale copy of the document takes it    *)
(* back to an earlier stage, and once drafting has begun none takes it back *)
(* to the approval; a failed stage is the only way to start over.           *)
ApprovalSticks ==
    [][LET past == doc.status \notin Behind \cup {"failed"} IN
       /\ past => doc'.status \notin Behind
       /\ past /\ doc.status # "mapping_approved" => doc'.status # "mapping_approved"]_vars

=============================================================================
