---------------------------- MODULE MCLocalizer ----------------------------
(* Localizer for TLC: the servers are alike. *)
EXTENDS Localizer, TLC

Symmetry == Permutations(Servers)
=============================================================================
