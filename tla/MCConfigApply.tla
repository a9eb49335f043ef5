---------------------------- MODULE MCConfigApply ----------------------------
(* Constants for model checking ConfigApply: the network of MCConfigPublish. *)
EXTENDS MCConfigPublish, ConfigApply
=============================================================================
