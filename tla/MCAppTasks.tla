------------------------------- MODULE MCAppTasks -------------------------------
(* Instances of AppTasks for TLC. *)
EXTENDS AppTasks
=============================================================================
