----------------------- MODULE DynamoJobStore_proofs -----------------------
(***************************************************************************)
(* For any number of concurrent calls, requests, fields and write attempts *)
(* DynamoJobStore implements AtomicJobStore: every call takes effect at    *)
(* one instant.  The one assumption is that no item is created again       *)
(* under an id it was deleted from: nothing is deleted, or no call         *)
(* upserts (the Lambdas never call update(); job ids are fresh UUIDs).     *)
(***************************************************************************)
EXTENDS DynamoJobStore, TLAPS

NoResurrection == MaxDeletes = 0 \/ \A r \in Menu : r.op # "update"

(* A request's effect on a record is a record. *)
LEMMA EffectType ==
    ASSUME NEW r \in Requests, NEW d \in Records
    PROVE  Effect(r, d) \in Records
  <1>1. \A f \in Fields : r.puts[f] \in Values /\ d.field[f] \in Values
    BY DEF Requests, Records
  <1>2. [f \in Fields |-> IF f \in r.sets THEN r.puts[f] ELSE d.field[f]]
            \in [Fields -> Values]
    BY <1>1
  <1>3. r.to \in RecordStatuses /\ d.status \in RecordStatuses
    BY DEF Requests, Records, RecordStatuses
  <1> QED
    BY <1>2, <1>3 DEF Effect, Records

LEMMA NoItemType == NoItem \in Items
  <1>1. Blank \in Records
    BY UnsetIsAValue DEF Blank, Records, RecordStatuses
  <1> QED
    BY <1>1 DEF NoItem, Items, LEGACY

LEMMA InitType == Init => TypeOK
  <1> SUFFICES ASSUME Init PROVE TypeOK
    OBVIOUS
  <1>1. item \in Items
    <2>1. CASE item = NoItem
      BY <2>1, NoItemType
    <2>2. ASSUME NEW s \in {"pending", "running"}, NEW v \in {LEGACY, 0},
                 item = [exists |-> TRUE, version |-> v,
                         record |-> [Blank EXCEPT !.status = s]]
          PROVE  item \in Items
      <3>1. [Blank EXCEPT !.status = s] \in Records
        BY UnsetIsAValue DEF Blank, Records, RecordStatuses, Statuses
      <3> QED
        BY <2>2, <3>1 DEF Items, LEGACY
    <2> QED
      BY <2>1, <2>2 DEF Init
  <1> QED
    BY <1>1, NoItemType, AttemptsArePositive, FaultsAreBounded DEF Init, TypeOK

LEMMA StepType == TypeOK /\ [Next]_vars => TypeOK'
  <1> SUFFICES ASSUME TypeOK, [Next]_vars PROVE TypeOK'
    OBVIOUS
  <1> USE DEF TypeOK
  <1>1. ASSUME NEW c \in Calls, Read(c) PROVE TypeOK'
    BY <1>1 DEF Read, Return
  <1>2. ASSUME NEW c \in Calls, Land(c) PROVE item' \in Items
    <2>1. req[c] \in Requests /\ seen[c] \in Items
      BY MenuIsLegal
    <2> QED
      BY <1>2, <2>1, EffectType DEF Land, Items, NextVersion, LEGACY
  <1>3. ASSUME NEW c \in Calls, Write(c) PROVE TypeOK'
    <2>1. item' \in Items
      BY <1>2, <1>3 DEF Write
    <2> QED
      BY <1>3, <2>1 DEF Write, Land, Return
  <1>7. ASSUME NEW c \in Calls, LostWrite(c) PROVE TypeOK'
    <2>1. item' \in Items
      BY <1>2, <1>7 DEF LostWrite
    <2> QED
      BY <1>7, <2>1, AttemptsArePositive, FaultsAreBounded
         DEF LostWrite, Land, Retry, Return
  <1>8. ASSUME NEW c \in Calls, Conflict(c) PROVE TypeOK'
    BY <1>8, AttemptsArePositive DEF Conflict, Retry, Return
  <1>4. ASSUME NEW c \in Calls, ServiceError(c) PROVE TypeOK'
    BY <1>4 DEF ServiceError, Return
  <1>5. ASSUME Delete PROVE TypeOK'
    BY <1>5, NoItemType, FaultsAreBounded DEF Delete
  <1>6. CASE UNCHANGED vars
    BY <1>6 DEF vars
  <1> QED
    BY <1>1, <1>3, <1>4, <1>5, <1>6, <1>7, <1>8 DEF Next, CallStep

(* Every variable of the optimistic store keeps its type (job_store.py). *)
THEOREM TypeCorrect == Spec => []TypeOK
  BY InitType, StepType, PTL DEF Spec

-----------------------------------------------------------------------------
(* The inductive invariant: versions only grow while the item exists, and   *)
(* an absent item has not been seen present by a call that could create it. *)

Fresh(c) ==
    pc[c] = "write" =>
        /\ Admits(req[c], seen[c].exists, seen[c].record)
        /\ ~seen[c].exists => seen[c] = NoItem
        /\ seen[c].exists /\ item.exists =>
              /\ seen[c].version \leq item.version
              /\ seen[c].version = item.version => seen[c].record = item.record
        /\ ~item.exists /\ MaxDeletes = 0 => ~seen[c].exists

IInv ==
    /\ NoResurrection
    /\ TypeOK
    /\ ~item.exists => item = NoItem
    /\ \A c \in Calls : Fresh(c)

LEMMA InitIInv == NoResurrection /\ Init => IInv
  BY InitType DEF Init, IInv, Fresh, NoItem

LEMMA StepIInv == IInv /\ [Next]_vars => IInv'
  <1> SUFFICES ASSUME IInv, [Next]_vars PROVE IInv'
    OBVIOUS
  <1>0. TypeOK /\ TypeOK' /\ NoResurrection /\ NoResurrection'
    BY StepType DEF IInv, NoResurrection
  <1>1. ASSUME NEW c \in Calls, Read(c) PROVE IInv'
    <2>1. ASSUME NEW d \in Calls PROVE Fresh(d)'
      <3>1. CASE d = c
        BY <1>0, <1>1, <3>1 DEF Read, Return, IInv, Fresh, TypeOK, Items
      <3>2. CASE d # c
        BY <1>0, <1>1, <3>2 DEF Read, Return, IInv, Fresh, TypeOK
      <3> QED
        BY <3>1, <3>2
    <2> QED
      BY <1>0, <1>1, <2>1 DEF Read, IInv
  <1>2. ASSUME NEW c \in Calls, Land(c),
               pc' \in [Calls -> {"read", "write", "done"}], pc'[c] # "write",
               \A d \in Calls : d # c => pc'[d] = pc[d]
        PROVE  IInv'
    <2>0. /\ seen[c] \in Items /\ item \in Items /\ Fresh(c) /\ pc[c] = "write"
          /\ Condition(seen[c])
          /\ item' = [exists |-> TRUE, version |-> NextVersion(seen[c]),
                      record |-> Effect(req[c], seen[c].record)]
          /\ req' = req /\ seen' = seen
      BY <1>0, <1>2 DEF Land, IInv, TypeOK
    <2>1. item.exists => item'.version > item.version
      BY <2>0 DEF Condition, NextVersion, LEGACY, Items
    <2>2. ~item.exists => req[c].op = "update"
      BY <2>0 DEF Condition, Fresh, Admits
    <2>3. ASSUME NEW d \in Calls PROVE Fresh(d)'
      <3>1. CASE d = c
        BY <1>2, <3>1 DEF Fresh
      <3>2. CASE d # c
        <4> SUFFICES ASSUME pc[d] = "write" PROVE Fresh(d)'
          BY <1>2, <3>2 DEF Fresh
        <4>1. Fresh(d) /\ seen[d] \in Items /\ seen'[d] = seen[d] /\ req' = req
          BY <1>0, <2>0 DEF IInv, TypeOK
        <4>2. CASE item.exists
          <5>1. item'.exists /\ item'.version > item.version /\ pc'[d] = "write"
            BY <1>2, <2>0, <2>1, <3>2, <4>2
          <5>2. item.version \in Int /\ item'.version \in Int
                /\ seen[d].version \in Int
            BY <1>0, <2>0, <4>1 DEF TypeOK, Items
          <5> QED
            BY <4>1, <4>2, <5>1, <5>2 DEF Fresh
        <4>3. CASE ~item.exists
          <5>1. ~seen[d].exists
            BY <1>0, <2>2, <4>1, <4>3, MenuIsLegal
               DEF NoResurrection, Fresh, TypeOK
          <5> QED
            BY <2>0, <4>1, <5>1 DEF Fresh
        <4> QED
          BY <4>2, <4>3
      <3> QED
        BY <3>1, <3>2
    <2> QED
      BY <1>0, <2>0, <2>3 DEF IInv
  <1>3. ASSUME NEW c \in Calls, Write(c) \/ LostWrite(c) PROVE IInv'
    <2>1. /\ Land(c)
          /\ pc' \in [Calls -> {"read", "write", "done"}] /\ pc'[c] # "write"
          /\ \A d \in Calls : d # c => pc'[d] = pc[d]
      BY <1>0, <1>3 DEF Write, LostWrite, Retry, Return, TypeOK
    <2> QED
      BY <1>2, <2>1
  <1>7. ASSUME NEW c \in Calls, Conflict(c) PROVE IInv'
    BY <1>0, <1>7 DEF Conflict, Retry, Return, IInv, Fresh, TypeOK
  <1>4. ASSUME NEW c \in Calls, ServiceError(c) PROVE IInv'
    BY <1>0, <1>4 DEF ServiceError, Return, IInv, Fresh, TypeOK
  <1>5. ASSUME Delete PROVE IInv'
    BY <1>0, <1>5, FaultsAreBounded DEF Delete, IInv, Fresh, TypeOK, NoItem
  <1>6. CASE UNCHANGED vars
    BY <1>0, <1>6 DEF vars, IInv, Fresh
  <1> QED
    BY <1>1, <1>3, <1>4, <1>5, <1>6, <1>7 DEF Next, CallStep

(* A call whose version still stands read the record that stands. *)
LEMMA FreshRecord == IInv => VersionNamesRecord
  <1> SUFFICES ASSUME IInv, NEW c \in Calls, pc[c] = "write", Condition(seen[c])
               PROVE  seen[c].record = item.record
    BY DEF VersionNamesRecord
  <1>1. Fresh(c)
    BY DEF IInv
  <1>2. CASE item.exists
    BY <1>1, <1>2 DEF Fresh, Condition
  <1>3. CASE ~item.exists
    BY <1>1, <1>3 DEF Fresh, Condition, IInv
  <1> QED
    BY <1>2, <1>3

LEMMA Invariance == NoResurrection => (Spec => []IInv)
  BY StepIInv, InitIInv, PTL DEF Spec

(* The optimistic version check never lets a merge onto a stale record      *)
(* through: no concurrent mutation is lost (DynamoJobStore's docstring).    *)
THEOREM NoLostMerge == NoResurrection => (Spec => []VersionNamesRecord)
  BY Invariance, FreshRecord, PTL

-----------------------------------------------------------------------------
(* Refinement *)

(* The two modules extend JobRecords with the same Fields and Values. *)
LEMMA SameOperators ==
    /\ Atomic!Blank = Blank
    /\ \A r, e, d : Atomic!Admits(r, e, d) <=> Admits(r, e, d)
    /\ \A r, d : Atomic!Effect(r, d) = Effect(r, d)
  <1>1. Atomic!Blank = Blank
    BY DEF Atomic!Blank, Blank
  <1>2. \A r, e, d : Atomic!Admits(r, e, d) <=> Admits(r, e, d)
    BY DEF Admits, Matches, Legal, Atomic!Admits, Atomic!Matches, Atomic!Legal
  <1>3. \A r, d : Atomic!Effect(r, d) = Effect(r, d)
    BY DEF Effect, Atomic!Effect
  <1> QED
    BY <1>1, <1>2, <1>3

LEMMA InitRefines == Init => Atomic!Init
  <1> SUFFICES ASSUME Init PROVE Atomic!Init
    OBVIOUS
  <1>1. Atomic!Blank = Blank
    BY SameOperators
  <1>2. CASE item = NoItem
    BY <1>1, <1>2 DEF Init, Atomic!Init, NoItem
  <1>3. ASSUME NEW s \in {"pending", "running"}, NEW v \in {LEGACY, 0},
               item = [exists |-> TRUE, version |-> v,
                       record |-> [Blank EXCEPT !.status = s]]
        PROVE  Atomic!Init
    <2>1. item.exists = TRUE /\ item.record = [Blank EXCEPT !.status = s]
      BY <1>3
    <2> QED
      BY <1>1, <2>1 DEF Init, Atomic!Init
  <1> QED
    BY <1>2, <1>3 DEF Init

LEMMA StepRefines == IInv /\ [Next]_vars => [Atomic!Next]_Atomic!vars
  <1> SUFFICES ASSUME IInv, [Next]_vars PROVE [Atomic!Next]_Atomic!vars
    OBVIOUS
  <1>0. TypeOK /\ VersionNamesRecord
    BY FreshRecord DEF IInv
  <1>1. ASSUME NEW c \in Calls, Read(c) PROVE Atomic!Refuse(c) \/ UNCHANGED Atomic!vars
    <2>1. answer[c] = "none"
      BY <1>0, <1>1 DEF Read, TypeOK
    <2>2. CASE Admits(req[c], item.exists, item.record)
      BY <1>1, <2>2 DEF Read, Atomic!vars
    <2>3. CASE ~Admits(req[c], item.exists, item.record)
      <3>1. ~Atomic!Admits(req[c], item.exists, item.record)
        BY <2>3, SameOperators
      <3> QED
        BY <1>1, <2>1, <2>3, <3>1 DEF Read, Return, Atomic!Refuse
    <2> QED
      BY <2>2, <2>3
  <1>2. ASSUME NEW c \in Calls, Write(c) \/ LostWrite(c) PROVE Atomic!Apply(c)
    <2>0. Land(c) /\ answer[c] = "none"
      BY <1>0, <1>2 DEF Write, LostWrite, Land, TypeOK
    <2>1. seen[c].record = item.record /\ seen[c].exists = item.exists
      BY <1>0, <2>0 DEF Land, VersionNamesRecord, Condition
    <2>2. Admits(req[c], item.exists, item.record)
      BY <2>0, <2>1 DEF Land, IInv, Fresh
    <2>3. /\ Atomic!Admits(req[c], item.exists, item.record)
          /\ item'.exists = TRUE
          /\ item'.record = Atomic!Effect(req[c], item.record)
          /\ req' = req
      BY <2>0, <2>1, <2>2, SameOperators DEF Land
    <2>4. \E a \in {"true", "none", "raised"} : answer' = [answer EXCEPT ![c] = a]
      <3>1. answer = [answer EXCEPT ![c] = "none"]
        BY <1>0, <2>0 DEF TypeOK
      <3> QED
        BY <1>2, <3>1 DEF Write, LostWrite, Retry, Return
    <2> QED
      BY <2>0, <2>3, <2>4 DEF Atomic!Apply
  <1>3. ASSUME NEW c \in Calls, Conflict(c) PROVE Atomic!Raise(c) \/ UNCHANGED Atomic!vars
    BY <1>0, <1>3 DEF Conflict, Retry, Return, TypeOK, Atomic!Raise, Atomic!vars
  <1>4. ASSUME NEW c \in Calls, ServiceError(c) PROVE Atomic!Raise(c)
    BY <1>0, <1>4 DEF ServiceError, Return, TypeOK, Atomic!Raise
  <1>5. ASSUME Delete PROVE Atomic!Delete
    BY <1>5, SameOperators DEF Delete, NoItem, Atomic!Delete
  <1>6. CASE UNCHANGED vars
    BY <1>6 DEF vars, Atomic!vars
  <1> QED
    BY <1>1, <1>2, <1>3, <1>4, <1>5, <1>6 DEF Next, CallStep, Atomic!Next

(* DynamoJobStore delivers what the JobStore protocol promises. *)
THEOREM Refinement == NoResurrection => (Spec => Linearizable)
  BY Invariance, StepRefines, InitRefines, PTL
     DEF Spec, Linearizable, Atomic!Spec

=============================================================================
