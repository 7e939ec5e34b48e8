----------------------------- MODULE JobRecords -----------------------------
(***************************************************************************)
(* What one JobStore operation asks of a record, whichever store runs it:  *)
(* when it applies (Admits) and what it leaves behind (Effect).  A record  *)
(* is a status and a value per companion field; the "unset" value stands   *)
(* for a field that was never written.                                     *)
(***************************************************************************)
EXTENDS JobLifecycle

CONSTANTS
    Fields,    \* companion fields of a record (phase, ai, progress, ...)
    Values     \* values a companion field can hold

ASSUME UnsetIsAValue == "unset" \in Values

RecordStatuses == Statuses \cup {"unset"}

Records == [status : RecordStatuses, field : [Fields -> Values]]

Blank == [status |-> "unset", field |-> [f \in Fields |-> "unset"]]

(* statuses and expects are the guards (expected_statuses, expected_fields: *)
(* a field the caller does not mention admits every value), sets the fields *)
(* the call writes and puts their new values, to a transition's target.     *)
Requests == [op : {"update", "update_if_status", "transition"},
             to : Statuses,
             statuses : SUBSET Statuses,
             expects : [Fields -> SUBSET Values],
             sets : SUBSET Fields,
             puts : [Fields -> Values]]

Matches(req, record) == \A f \in Fields : record.field[f] \in req.expects[f]

Admits(req, exists, record) ==
    \/ req.op = "update"
    \/ /\ req.op = "update_if_status"
       /\ exists /\ record.status \in req.statuses /\ Matches(req, record)
    \/ /\ req.op = "transition"
       /\ exists /\ Legal(record.status, req.to) /\ Matches(req, record)

Effect(req, record) ==
    [status |-> IF req.op = "transition" THEN req.to ELSE record.status,
     field  |-> [f \in Fields |-> IF f \in req.sets THEN req.puts[f]
                                                    ELSE record.field[f]]]
=============================================================================
