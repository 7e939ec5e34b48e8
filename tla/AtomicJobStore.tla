--------------------------- MODULE AtomicJobStore ---------------------------
(***************************************************************************)
(* What the JobStore protocol promises about one job id, and what          *)
(* MemoryJobStore delivers with its lock: each call takes effect at one    *)
(* instant, on the record that stands then.  A call that answers True      *)
(* applied; one that answers False found a record its guard refuses, and   *)
(* changed nothing then.  A call whose effect is not acknowledged may      *)
(* apply again, or answer as if it had not: only a remote store does that. *)
(* Each call is made once; callers are distinct members of Calls.          *)
(***************************************************************************)
EXTENDS JobRecords

CONSTANTS Calls, Menu     \* the store calls, and the requests they may make

VARIABLES
    exists,    \* the job id has a record
    record,    \* that record, Blank without one
    req,       \* the request of each call
    answer     \* "none" until the call returns

vars == <<exists, record, req, answer>>

Init ==
    /\ exists \in BOOLEAN
    /\ record \in IF exists
                  THEN {[Blank EXCEPT !.status = s] : s \in {"pending", "running"}}
                  ELSE {Blank}
    /\ req \in [Calls -> Menu]
    /\ answer = [c \in Calls |-> "none"]

Apply(c) ==
    /\ answer[c] = "none"
    /\ Admits(req[c], exists, record)
    /\ exists' = TRUE
    /\ record' = Effect(req[c], record)
    /\ \E a \in {"true", "none", "raised"} : answer' = [answer EXCEPT ![c] = a]
    /\ UNCHANGED req

Refuse(c) ==
    /\ answer[c] = "none"
    /\ ~Admits(req[c], exists, record)
    /\ answer' = [answer EXCEPT ![c] = "false"]
    /\ UNCHANGED <<exists, record, req>>

(* ConcurrentJobUpdateError, or an error of the service. *)
Raise(c) ==
    /\ answer[c] = "none"
    /\ answer' = [answer EXCEPT ![c] = "raised"]
    /\ UNCHANGED <<exists, record, req>>

(* delete(), or the table's time-to-live. *)
Delete ==
    /\ exists' = FALSE
    /\ record' = Blank
    /\ UNCHANGED <<req, answer>>

Next == Delete \/ \E c \in Calls : Apply(c) \/ Refuse(c) \/ Raise(c)

Spec == Init /\ [][Next]_vars

=============================================================================
