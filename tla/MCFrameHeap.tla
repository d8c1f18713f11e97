------------------------------ MODULE MCFrameHeap ------------------------------
(* Memory maps for TLC: two usable regions with a gap between them, or one. *)
EXTENDS FrameHeap

MCRegions == <<[start |-> 0, end |-> 9], [start |-> 11, end |-> 14]>>
MCOneRegion == <<[start |-> 0, end |-> 12]>>
===============================================================================
