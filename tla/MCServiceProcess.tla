--------------------------- MODULE MCServiceProcess ---------------------------
(***************************************************************************)
(* Instances of ServiceProcess for TLC.                                    *)
(***************************************************************************)
EXTENDS ServiceProcess
=============================================================================
