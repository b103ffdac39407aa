---------------------------- MODULE MC_TaskChat ----------------------------
(* Two people chat; a third one has an account and is not signed in. *)
EXTENDS TaskChat
=============================================================================
