------------------------------ MODULE MCRigStore ------------------------------
(* RigStore on two processes, two reasons and a short journal.             *)
EXTENDS RigStore, TLC

MCTargets == {"READY", "DESTROYED"}
MCSymmetry == Permutations(Proc) \cup Permutations(Reason)

=============================================================================
