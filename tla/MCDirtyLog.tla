------------------------------ MODULE MCDirtyLog ------------------------------
(***************************************************************************)
(* Model-checking instance of DirtyLog: two data pages in different words *)
(* of the KVM bitmap (frames 0 and 65) and the page-table page (frame 1), *)
(* two page contents, two register files.                                 *)
(***************************************************************************)
EXTENDS DirtyLog

MCDataPages == {0, 65}
MCPtPage == 1
MCData == {0, 1}
MCRegFiles == {"r1", "r2"}
=============================================================================
