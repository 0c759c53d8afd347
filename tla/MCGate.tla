------------------------------- MODULE MCGate -------------------------------
(***************************************************************************)
(* Gate for TLC: two publishers of three access units each.                *)
(***************************************************************************)
EXTENDS Gate
=============================================================================
