----------------------------- MODULE MCCamData -----------------------------
(* Instances of CamData for TLC; the .cfg files give the constants. *)
EXTENDS CamData, TLC

\* Reader processes are interchangeable.
Symmetry == Permutations(Readers)
=============================================================================
