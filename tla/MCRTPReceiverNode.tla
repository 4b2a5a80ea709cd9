------------------------ MODULE MCRTPReceiverNode ------------------------
(* Instances of RTPReceiverNode for TLC. *)
EXTENDS RTPReceiverNode
==========================================================================
