----------------------------- MODULE MCAdapter -----------------------------
(* Adapter for TLC. *)
EXTENDS Adapter
MCDetails == <<"version", "model">>
=============================================================================
