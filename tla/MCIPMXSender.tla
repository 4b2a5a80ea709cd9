---------------------------- MODULE MCIPMXSender ----------------------------
(* Instances of IPMXSender for TLC; every constant has a plain value. *)
EXTENDS IPMXSender
=============================================================================
