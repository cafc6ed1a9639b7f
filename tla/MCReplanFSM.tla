---------------------------- MODULE MCReplanFSM ----------------------------
(* Instance of ReplanFSM for TLC: the tasks and missions are model values  *)
(* of the cfg.  The tasks are interchangeable, but the run that checks the *)
(* safety properties checks the liveness ones too, so it declares no       *)
(* symmetry.                                                               *)
EXTENDS ReplanFSM
=============================================================================
