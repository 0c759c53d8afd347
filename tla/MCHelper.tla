------------------------------ MODULE MCHelper ------------------------------
(***************************************************************************)
(* Helper for TLC: the rendezvous reader and the window beside the holder  *)
(* of dev, two starts of the program, four starts and operations together, *)
(* two units to select, one crash or one call given up.                    *)
(***************************************************************************)
EXTENDS Helper

CONSTANTS u1, reader

\* Bound: the reader's is the first selection, of u1 (the others are this with
\* the names exchanged), and each selects another unit than the one before.
Selections ==
  \A t \in Others :
    pc[t] = "idle" /\ pc'[t] = "look" =>
      IF selection = None THEN t = reader /\ selection' = u1 ELSE selection' # selection
=============================================================================
