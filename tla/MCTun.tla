-------------------------------- MODULE MCTun --------------------------------
(* Instances of TunSession: see the .cfg file that names this module. *)
EXTENDS TunSession
=============================================================================
