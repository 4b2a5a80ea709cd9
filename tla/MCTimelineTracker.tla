------------------------- MODULE MCTimelineTracker -------------------------
(* Instances of TimelineTracker for TLC. *)
EXTENDS TimelineTracker
============================================================================
