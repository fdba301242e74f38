--------------------------- MODULE MCRecordingsTab ---------------------------
(* Two roots, one of them under two names, two flight lines of earlier lives *)
(* and two new products.                                                     *)
EXTENDS RecordingsTab

MCSpellings == {"a", "a/", "b"}
MCRoot(s) == IF s = "b" THEN "B" ELSE "A"
MCOld == {1, 2}
MCForeign == {2}
MCNew == {3, 4}
=============================================================================
