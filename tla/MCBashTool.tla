------------------------------ MODULE MCBashTool ------------------------------
(***************************************************************************)
(* Instances of BashTool for TLC.                                          *)
(***************************************************************************)
EXTENDS BashTool
=============================================================================
