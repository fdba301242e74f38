----------------------------- MODULE MCChannel -----------------------------
(* Bytes are 0 to 3 and integers of two of them; 2 and 3 end a line.       *)
EXTENDS Channel

MCTerm == <<2, 3>>
MCLines == {<< >>, <<1>>, <<3, 2>>, <<1, 1, 1>>}
MCTexts == MCLines
MCArrays == {<< >>, <<NULL>>, <<<<1>>, << >>>>}
=============================================================================
