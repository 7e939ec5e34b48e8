--------------------------- MODULE MCDocxSections ---------------------------
(* DocxSections for TLC: an empty draft, one shorter than most bodies, one  *)
(* with a blank line between two lines.                                     *)
EXTENDS DocxSections

(* Text and spacing, headings of three levels, a heading used for spacing.  *)
ParagraphKinds == {<<0, FALSE>>, <<0, TRUE>>,
                   <<1, FALSE>>, <<2, FALSE>>, <<3, FALSE>>, <<2, TRUE>>}

DraftShapes == {<<0>>, <<1>>, <<1, 0, 1>>}
=============================================================================
