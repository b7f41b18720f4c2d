----------------------------- MODULE MCToolRoots -----------------------------
(* Instances of ToolRoots for TLC.                                         *)
EXTENDS ToolRoots, TLC
=============================================================================
