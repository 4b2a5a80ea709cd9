---------------------------- MODULE MCGenericSender ----------------------------
(* GenericSender as TLC checks it; GenericSender.cfg gives the constants.      *)
EXTENDS GenericSender
=============================================================================
