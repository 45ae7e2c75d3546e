------------------------- MODULE MCDashboardSession -------------------------
(* A small instance of DashboardSession. *)
EXTENDS DashboardSession, TLC

Symmetry == Permutations(Sessions)
=============================================================================
