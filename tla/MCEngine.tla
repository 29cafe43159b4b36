------------------------------ MODULE MCEngine -------------------------------
(* Instances of AndroidEngine: see the .cfg file that names this module. *)
EXTENDS AndroidEngine
=============================================================================
