------------------------------ MODULE MCSession ------------------------------
(* Session for TLC: its configurations give the bring-ups.                  *)
EXTENDS Session

=============================================================================
