------------------------------ MODULE MCBringUp ------------------------------
(* BringUp for TLC: two offers of one machine, of unlike GPU models, a       *)
(* second machine, and a listing that names none.                           *)
EXTENDS BringUp

MCMachineOf == [one |-> "m1", twin |-> "m1", second |-> "m2", listing |-> NoMachine]
MCModelOf == [o \in Offers |-> IF o = "twin" THEN "g2" ELSE "g1"]
=============================================================================
