------------------------------ MODULE MCUplink ------------------------------
(***************************************************************************)
(* Uplink for TLC: one session, an outbox of two messages, four events, or *)
(* three with choices among them.                                          *)
(***************************************************************************)
EXTENDS Uplink

MCAsks == {"body" :> 1, "face" :> 1, ("body" :> 2) @@ ("face" :> 2), "share" :> 1}
=============================================================================
