--------------------------- MODULE DynamoJobStore ---------------------------
(***************************************************************************)
(* DynamoJobStore: each mutation is a consistent read, a local merge and a *)
(* write conditional on the version it read, repeated on conflict up to    *)
(* _MAX_WRITE_ATTEMPTS times.                                              *)
(***************************************************************************)
EXTENDS Integers, JobRecords

CONSTANTS
    Calls, Menu,             \* the store calls, and the requests they may make
    MAX_WRITE_ATTEMPTS,
    MaxDeletes,              \* bound: deletions of the item
    MaxLost                  \* bound: writes that land and look refused

ASSUME MenuIsLegal == Menu \subseteq Requests
ASSUME AttemptsArePositive == MAX_WRITE_ATTEMPTS \in Nat \ {0}
ASSUME FaultsAreBounded == MaxDeletes \in Nat /\ MaxLost \in Nat

VARIABLES
    item,      \* the DynamoDB item of the job id
    req,       \* the request of each call
    pc,        \* "read", "write" or "done"
    seen,      \* the item each call last read
    left,      \* write attempts left to each call
    answer,    \* "none" until the call returns
    deletes,   \* deletions left
    lost       \* lost replies left

vars == <<item, req, pc, seen, left, answer, deletes, lost>>

LEGACY == -1     \* an item from before versions were written

Items == [exists : BOOLEAN, version : Int, record : Records]

NoItem == [exists |-> FALSE, version |-> LEGACY, record |-> Blank]

(* create() put version 0; an older build put no version. *)
Init ==
    /\ \/ item = NoItem
       \/ \E s \in {"pending", "running"}, v \in {LEGACY, 0} :
            item = [exists |-> TRUE, version |-> v,
                    record |-> [Blank EXCEPT !.status = s]]
    /\ req \in [Calls -> Menu]
    /\ pc = [c \in Calls |-> "read"]
    /\ seen = [c \in Calls |-> NoItem]
    /\ left = [c \in Calls |-> MAX_WRITE_ATTEMPTS]
    /\ answer = [c \in Calls |-> "none"]
    /\ deletes = MaxDeletes
    /\ lost = MaxLost

Return(c, a) ==
    /\ pc' = [pc EXCEPT ![c] = "done"]
    /\ answer' = [answer EXCEPT ![c] = a]

(* Every round rereads, so the guard is evaluated on what was read. *)
Read(c) ==
    /\ pc[c] = "read"
    /\ seen' = [seen EXCEPT ![c] = item]
    /\ IF Admits(req[c], item.exists, item.record)
       THEN pc' = [pc EXCEPT ![c] = "write"] /\ UNCHANGED answer
       ELSE Return(c, "false")
    /\ UNCHANGED <<item, req, left, deletes, lost>>

Condition_ExistsOnly(s) ==     \* mutant: the version is not compared
    item.exists = s.exists

(* The ConditionExpression of _write_conditionally. *)
Condition(s) ==
    /\ item.exists = s.exists
    /\ s.exists => item.version = s.version

NextVersion_Stuck(s) ==     \* mutant: a write keeps the version it read
    IF ~s.exists THEN 0 ELSE s.version

NextVersion(s) ==
    IF ~s.exists THEN 0 ELSE IF s.version = LEGACY THEN 1 ELSE s.version + 1

Land(c) ==
    /\ pc[c] = "write"
    /\ Condition(seen[c])
    /\ item' = [exists |-> TRUE, version |-> NextVersion(seen[c]),
                record |-> Effect(req[c], seen[c].record)]
    /\ UNCHANGED <<req, seen, deletes>>

Write(c) ==
    /\ Land(c)
    /\ Return(c, "true")
    /\ UNCHANGED <<left, lost>>

(* Another attempt, or ConcurrentJobUpdateError after the last one. *)
Retry(c) ==
    /\ left' = [left EXCEPT ![c] = @ - 1]
    /\ IF left[c] > 1
       THEN pc' = [pc EXCEPT ![c] = "read"] /\ UNCHANGED answer
       ELSE Return(c, "raised")

Conflict(c) ==
    /\ pc[c] = "write"
    /\ ~Condition(seen[c])
    /\ Retry(c)
    /\ UNCHANGED <<item, req, seen, deletes, lost>>

(* The write lands, its response is lost, and the request the SDK resends  *)
(* finds the version the first one wrote: the caller sees a conflict.      *)
LostWrite(c) ==
    /\ lost > 0
    /\ lost' = lost - 1
    /\ Land(c)
    /\ Retry(c)

(* A throttled or failed request: any other ClientError is re-raised. *)
ServiceError(c) ==
    /\ pc[c] \in {"read", "write"}
    /\ Return(c, "raised")
    /\ UNCHANGED <<item, req, seen, left, deletes, lost>>

Delete ==
    /\ deletes > 0
    /\ deletes' = deletes - 1
    /\ item' = NoItem
    /\ UNCHANGED <<req, pc, seen, left, answer, lost>>

CallStep(c) ==
    Read(c) \/ Write(c) \/ LostWrite(c) \/ Conflict(c) \/ ServiceError(c)

Next == Delete \/ \E c \in Calls : CallStep(c)

Spec == Init /\ [][Next]_vars

-----------------------------------------------------------------------------
(* Properties *)

(* The values of the item and of each call's local variables in             *)
(* app/core/job_store.py; a call still writing has an attempt left.         *)
TypeOK ==
    /\ item \in Items
    /\ req \in [Calls -> Menu]
    /\ pc \in [Calls -> {"read", "write", "done"}]
    /\ seen \in [Calls -> Items]
    /\ left \in [Calls -> 0..MAX_WRITE_ATTEMPTS]
    /\ answer \in [Calls -> {"none", "true", "false", "raised"}]
    /\ deletes \in 0..MaxDeletes
    /\ lost \in 0..MaxLost
    /\ \A c \in Calls : pc[c] # "done" => left[c] > 0 /\ answer[c] = "none"

(* A version names one record (_write_conditionally): a call whose version  *)
(* still stands read the record that stands, so its merge cannot lose       *)
(* another writer's fields.                                                 *)
VersionNamesRecord ==
    \A c \in Calls :
        pc[c] = "write" /\ Condition(seen[c]) => seen[c].record = item.record

(* The optimistic store of DynamoJobStore is the locked one: every effect   *)
(* is applied at one instant to the record that stands then (a successful   *)
(* write), every refusal is of the record that stands (a refusing read).    *)
Atomic == INSTANCE AtomicJobStore WITH exists <- item.exists, record <- item.record
Linearizable == Atomic!Spec

=============================================================================
