-------------------------- MODULE MCRmfConversion --------------------------
(* Uploads that are replaced and every fault but a send that raises and is *)
(* delivered, without a deletion; and a deletion that dies and is repeated *)
(* over one upload and its parse, with such a send.                        *)
EXTENDS RmfConversion, TLC

Budget(b, p, r, q, f, t) ==
    [backends |-> b, posts |-> p, deliveries |-> r, purges |-> q, faults |-> f, taken |-> t]

MCBudgets == {Budget(Backends, 2, 2, 0, 2, FALSE), Budget({"lambda"}, 1, 1, 2, 1, TRUE)}

Symmetry == Permutations(Workers) \cup Permutations(Tokens)

=============================================================================
