------------------------------ MODULE MCWindow ------------------------------
(***************************************************************************)
(* Window for TLC: two runs of the connector, three calls of start, two    *)
(* events of the link and the device, four of all these together.          *)
(***************************************************************************)
EXTENDS Window
=============================================================================
