------------------------------ MODULE MCResetWalk ------------------------------
(***************************************************************************)
(* Model-checking instance of ResetWalk: one data page (frame 0) and the  *)
(* page-table page (frame 1), so that a walk restores up to two pages,     *)
(* lowest first, and both kinds of page are restored.                      *)
(***************************************************************************)
EXTENDS ResetWalk

MCDataPages == {0}
MCPtPage == 1
MCData == {0, 1}
MCRegFiles == {"r1", "r2"}
=============================================================================
