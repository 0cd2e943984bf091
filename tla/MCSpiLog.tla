-------------------------------- MODULE MCSpiLog --------------------------------
(* Instances of SpiLog for TLC. *)
EXTENDS SpiLog
=============================================================================
