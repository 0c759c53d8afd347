----------------------------- MODULE MCGateway -----------------------------
(***************************************************************************)
(* Gateway for TLC: two connectors, one camera on the network, two         *)
(* connections, one local connection.                                      *)
(***************************************************************************)
EXTENDS Gateway
=============================================================================
