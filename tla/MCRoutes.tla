------------------------------ MODULE MCRoutes ------------------------------
(* Instances of RouteManager: see the .cfg file that names this module. *)
EXTENDS RouteManager, TLC

\* Everything that RouteManager lets go wrong.
AllFaults == {"cancel", "crash", "netsh", "gateway"}

\* No prefix and no gateway differs from another of its kind.
Symmetry ==
  Permutations(Bypass) \cup Permutations(Foreign) \cup Permutations(Gateways)
=============================================================================
