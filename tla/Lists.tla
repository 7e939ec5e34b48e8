------------------------------- MODULE Lists -------------------------------
(* Selection from a list by position: what SelectSeq computes, defined so     *)
(* that the proofs can say which elements a selection holds.                  *)
EXTENDS Integers, SequencesExt

\* the elements of s at the positions of a set, in the order of s
Kept(s, at) ==
    LET kept[i \in 0..Len(s)] ==
            IF i = 0 THEN <<>>
            ELSE IF i \in at THEN Append(kept[i - 1], s[i]) ELSE kept[i - 1]
    IN  kept[Len(s)]

Select(s, Test(_)) == Kept(s, {i \in DOMAIN s : Test(s[i])})

\* s is a list, whatever of
IsList(s) == s \in Seq(ToSet(s))
=============================================================================
