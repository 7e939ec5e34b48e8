--------------------------- MODULE MCRmfPipeline ---------------------------
(* RmfPipeline for TLC: its scenarios, and the slots that are              *)
(* interchangeable.                                                        *)
EXTENDS RmfPipeline, TLC

Scenario(s, d, e, u, c, f) ==
    [start |-> s, deaths |-> d, errors |-> e, dups |-> u, calls |-> c, apiFaults |-> f]

(* From the upload on, with two deaths. *)
Intake == {Scenario("upload_pending", 2, 0, 0, 2, 0)}

(* Two approvers of the mappings with every fault of the worker; two people *)
(* at the drafts with every fault of worker and API once.                   *)
Reviews == {Scenario("mapped", 1, 1, 1, 2, 0),
            Scenario("drafted", 1, 1, 1, 3, 1)}

(* One reviewer's edits between exports, with a duplicate delivery. *)
Exporting == {Scenario("drafted", 0, 0, 1, 6, 0)}

Symmetry == Permutations(Workers) \cup Permutations(Messages)
=============================================================================
