----------------------------- MODULE MCResetLoop -----------------------------
(***************************************************************************)
(* Model-checking instance of ResetLoop: a slot of 66 pages, so that the  *)
(* bitmap has a full word, always clean, and a partial one holding the    *)
(* page-table page (frame 64) and a data page (frame 65): the walk skips  *)
(* an empty word and clears two bits of one word.                         *)
(***************************************************************************)
EXTENDS ResetLoop

MCDataPages == {65}
MCPtPage == 64
MCData == {0, 1}
MCRegFiles == {"r1", "r2"}
MCNumPages == 66
=============================================================================
