----------------------------- MODULE MCUpdater -----------------------------
(***************************************************************************)
(* Updater for TLC: an install of two files (a package or an archive), and *)
(* the bundle, which is one.  The network, the disk and the person may do  *)
(* anything.                                                               *)
(***************************************************************************)
EXTENDS Updater
=============================================================================
