------------------------------ MODULE JobServer ------------------------------
(* What the STIG job API promises a browser: each request one step on the     *)
(* job's record (StigJob has the steps inside), a launch that may stay        *)
(* undone, and an execution that ends some day.                               *)
EXTENDS Integers, FiniteSets

CONSTANTS
    Jobs,        \* the job ids
    MaxFaults    \* bound: requests lost, refused or left half done, and reloads of the page

ASSUME FaultBound == MaxFaults \in Nat

VARIABLES
    record,      \* the job records
    launched,    \* the jobs whose execution exists
    faults       \* how many faults may still happen

serverVars == <<record, launched, faults>>

Terminal == {"complete", "error", "cancelled"}
Open == {"pending", "queued", "running"}

ServerTypeOK ==
    /\ record \in [Jobs -> {"none"} \cup Open \cup Terminal]
    /\ launched \in SUBSET Jobs
    /\ faults \in 0..MaxFaults

ServerInit ==
    /\ record = [j \in Jobs |-> "none"]
    /\ launched = {}
    /\ faults = MaxFaults

To(j, status) == record' = [record EXCEPT ![j] = status]

\* the execution starts, runs and ends, or ends before it starts
Execute(j) ==
    /\ j \in launched
    /\ \/ record[j] = "queued" /\ \E s \in {"running", "error"} : To(j, s)
       \/ record[j] = "running" /\ \E s \in {"complete", "error"} : To(j, s)
    /\ UNCHANGED <<launched, faults>>

Fail == faults > 0 /\ faults' = faults - 1

(* The routes, each with the answer a it gives                                *)
Answers == {"ok", "failed"} \cup Open \cup Terminal

\* a fresh id, and a record for it
PostUploads(j, a) ==
    /\ record[j] = "none"
    /\ To(j, "pending")
    /\ a = "ok"
    /\ UNCHANGED <<launched, faults>>

\* the intent to run is written first, and the execution may not get started
PostJobs(j, a) ==
    \/ /\ record[j] \in {"pending", "queued"}
       /\ To(j, "queued")
       /\ a = "ok"
       /\ \/ launched' = launched \cup {j} /\ UNCHANGED faults
          \/ Fail /\ UNCHANGED launched
    \/ /\ record[j] \notin {"pending", "queued"}
       /\ a = "failed"
       /\ \/ UNCHANGED serverVars
          \/ record[j] = "cancelled"      \* since it was queued: nothing will run
             /\ launched' = launched \cup {j} /\ UNCHANGED <<record, faults>>

\* the status read, whatever the record becomes afterwards
GetJob(j, a) == a = record[j] /\ UNCHANGED serverVars

\* an ended job keeps its end; the cancellation itself may fail
PostCancel(j, a) ==
    \/ record[j] \in Terminal /\ a = record[j] /\ UNCHANGED serverVars
    \/ /\ record[j] \notin Terminal
       /\ \/ To(j, "cancelled") /\ a = "cancelled" /\ UNCHANGED <<launched, faults>>
          \/ a = "failed" /\ Fail /\ UNCHANGED <<record, launched>>

\* whatever clients ask, and the executions
ServerNext ==
    \E j \in Jobs :
        \/ GetJob(j, record[j])
        \/ Execute(j)
        \/ \E a \in Answers : PostUploads(j, a) \/ PostJobs(j, a) \/ PostCancel(j, a)
=============================================================================
