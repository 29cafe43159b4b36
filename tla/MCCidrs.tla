------------------------------- MODULE MCCidrs -------------------------------
(* Every set of up to four blocks of three-bit addresses. *)
EXTENDS CidrSummary, FiniteSetsExt

MCInputs == UNION {kSubset(n, Blocks) : n \in 0..4}
Halves == {{b \in Blocks : b.prefix = 1}}
=============================================================================
