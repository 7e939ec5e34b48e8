---------------------------- MODULE JobLifecycle ----------------------------
(***************************************************************************)
(* The legal lifecycle of a STIG job record, as core/job_store.py owns it. *)
(* Every store (in-memory or DynamoDB) applies the same edges, and the     *)
(* terminal statuses have no outgoing edge.                                *)
(***************************************************************************)

Statuses == {"pending", "queued", "running", "complete", "error", "cancelled"}

TERMINAL_STATUSES == {"complete", "error", "cancelled"}

(* The edges of _ALLOWED_STATUS_TRANSITIONS. *)
Legal(from, to) ==
    \/ from = "pending" /\ to \in {"queued", "cancelled"}
    \/ from = "queued"  /\ to \in {"running", "error", "cancelled"}
    \/ from = "running" /\ to \in {"complete", "error", "cancelled"}

=============================================================================
