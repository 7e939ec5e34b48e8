-------------------------- MODULE MCDynamoJobStore --------------------------
(* DynamoJobStore for TLC: the calls the Lambdas make, on two fields. *)
EXTENDS DynamoJobStore, TLC

MCFields == {"phase", "ai"}
MCValues == {"unset", "a", "b"}

AnyField == [f \in MCFields |-> MCValues]

Req(op, to, statuses, expects, sets, v) ==
    [op |-> op, to |-> to, statuses |-> statuses, expects |-> expects,
     sets |-> sets, puts |-> [f \in MCFields |-> v]]

Transition(to, expects, sets, v) == Req("transition", to, {}, expects, sets, v)
Patch(expects, sets, v) ==
    Req("update_if_status", "error", {"running"}, expects, sets, v)

(* start and cancel, a stage's entry, its guarded patch, the AI gate, the   *)
(* commit and the marker                                                    *)
LambdaMenu ==
    { Transition("queued", AnyField, {"ai"}, "a"),
      Transition("cancelled", AnyField, {}, "unset"),
      Transition("running", AnyField, {"phase"}, "a"),
      Transition("complete", [AnyField EXCEPT !["phase"] = {"b"}], {}, "unset"),
      Transition("error", [AnyField EXCEPT !["phase"] = {"unset", "a"}], {}, "unset"),
      Patch(AnyField, {"ai"}, "b"),
      Patch([AnyField EXCEPT !["phase"] = {"unset", "a"}], {"phase"}, "b") }

Symmetry == Permutations(Calls)
=============================================================================
