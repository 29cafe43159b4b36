------------------------------ MODULE MCSession ------------------------------
(* Instances of SessionControl: see the .cfg files that name this module. *)
EXTENDS SessionControl

\* Every command of the tray and of the dashboard that SessionControl models.
AllCommands == {"disconnect", "switch", "restore", "refresh"}
=============================================================================
