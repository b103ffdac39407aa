----------------------------- MODULE MC_Updater -----------------------------
(* The updater with a program and one library. *)
EXTENDS Updater
=============================================================================
