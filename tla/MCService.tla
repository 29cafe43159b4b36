------------------------------ MODULE MCService ------------------------------
(* Instances of AndroidService: see the .cfg files that name this module. *)
EXTENDS AndroidService
=============================================================================
