---------------------------- MODULE MCRigLifecycle ----------------------------
(* RigLifecycle on one owner and a few other commands.                     *)
EXTENDS RigLifecycle, TLC

MCSymmetry == Permutations(Downers)

=============================================================================
