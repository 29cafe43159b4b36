------------------------------- MODULE MCSmart -------------------------------
(* Instances of SmartSelection: see the .cfg files that name this module. *)
EXTENDS SmartSelection
=============================================================================
